------------------------------- MODULE TpSend -------------------------------
(***************************************************************************)
(* Definitions shared by every module of the thread pool: the states of a  *)
(* pool thread and the decision tpt_msg_send() takes for one message.      *)
(***************************************************************************)
EXTENDS Naturals, Sequences

\* TP_THREAD_STATE_*.
STOP     == "STOP"
STOPPING == "STOPPING"
STARTING == "STARTING"
RUNNING  == "RUNNING"
ThreadStates == {STOP, STOPPING, STARTING, RUNNING}

\* Mutation: a thread that is about to start does not count as running.
IsRunning_OnlyRunning(s) == s = RUNNING

\* tpt_is_running(): a thread that is only about to start accepts messages.
IsRunning(s) == s \in {RUNNING, STARTING}

\* TP_MSG_F_*.
SELF_DIRECT == "SELF_DIRECT"
FORCE       == "FORCE"
FAIL_DIRECT == "FAIL_DIRECT"
MsgFlags == {SELF_DIRECT, FORCE, FAIL_DIRECT}

(***************************************************************************)
(* What tpt_msg_send() does with a message, its tests in the order of the  *)
(* code.  self: the caller runs on the destination thread; running:        *)
(* tpt_is_running(dst); full: the pipe refuses the write.  "direct" calls  *)
(* msg_cb at once on the caller's stack, "queued" leaves it to the reader  *)
(* of the pipe; only these two return 0.                                   *)
(***************************************************************************)
SendOutcome(self, running, full, flags) ==
    CASE self /\ SELF_DIRECT \in flags -> "direct"
      [] ~(self /\ SELF_DIRECT \in flags) /\ ~running ->
            IF FORCE \in flags THEN "direct" ELSE "EHOSTDOWN"
      [] ~(self /\ SELF_DIRECT \in flags) /\ running /\ full ->
            IF FAIL_DIRECT \in flags THEN "direct" ELSE "EAGAIN"
      [] OTHER -> "queued"

=============================================================================
