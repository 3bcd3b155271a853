----------------------------- MODULE TpAccept ------------------------------
(***************************************************************************)
(* tp_task_bind_accept_multi_create(): one listening socket and one task   *)
(* per thread, made one after another; when a step fails, what has been    *)
(* made before is taken back.                                              *)
(***************************************************************************)
EXTENDS Naturals

CONSTANT ThreadCounts     \* max_threads, 1 without SO_F_REUSEPORT

ASSUME TpAcceptAssumption == ThreadCounts \subseteq Nat \ {0}

VARIABLES
    n, close, \* number of threads, TP_TASK_F_CLOSE_ON_DESTROY
    i,        \* tasks made so far: tptasks_cnt
    skt,      \* "none", "open", "closed" or "twice", of every thread
    task,     \* the tasks: "none", "live" or "freed"
    j,        \* next task to take back
    pc

vars == <<n, close, i, skt, task, j, pc>>

TypeOK ==
    /\ n \in ThreadCounts /\ close \in BOOLEAN
    /\ i \in 0 .. n /\ j \in 0 .. n
    /\ skt \in [0 .. n - 1 -> {"none", "open", "closed", "twice"}]
    /\ task \in [0 .. n - 1 -> {"none", "live", "freed"}]
    /\ pc \in {"bind", "listen", "task", "close", "undo", "ok", "failed"}

Init ==
    /\ n \in ThreadCounts /\ close \in BOOLEAN
    /\ i = 0 /\ j = 0
    /\ skt = [t \in 0 .. n - 1 |-> "none"] /\ task = [t \in 0 .. n - 1 |-> "none"]
    /\ pc = "bind"

Closed(s) == IF s = "open" THEN "closed" ELSE "twice"

\* skt_bind() makes the socket, or fails with none made: close(-1).
Bind == /\ pc = "bind" /\ i < n
        /\ \/ skt' = [skt EXCEPT ![i] = "open"] /\ pc' = "listen"
           \/ pc' = "undo" /\ UNCHANGED skt
        /\ UNCHANGED <<n, close, i, task, j>>

\* skt_listen() and skt_opts_apply().
Listen == /\ pc = "listen"
          /\ pc' \in {"task", "close"}
          /\ UNCHANGED <<n, close, i, skt, task, j>>

\* tp_task_accept_create(): no memory, or a task that does not start and is
\* destroyed by tp_task_create_start(), with its socket if it has the flag.
CreateTask ==
    /\ pc = "task"
    /\ \/ /\ task' = [task EXCEPT ![i] = "live"]
          /\ i' = i + 1 /\ pc' = "bind"
          /\ UNCHANGED skt
       \/ /\ pc' = "close"
          /\ UNCHANGED <<i, skt, task>>
       \/ /\ skt' = IF close THEN [skt EXCEPT ![i] = Closed(@)] ELSE skt
          /\ pc' = "close"
          /\ UNCHANGED <<i, task>>
    /\ UNCHANGED <<n, close, j>>

\* err_out of tp_task_bind_accept_create().
CloseSocket == /\ pc = "close"
               /\ skt' = [skt EXCEPT ![i] = Closed(@)]
               /\ pc' = "undo"
               /\ UNCHANGED <<n, close, i, task, j>>

\* Mutation: the sockets of the earlier tasks are left to tp_task_destroy().
Undo_Destroy ==
    /\ pc = "undo" /\ j < i
    /\ skt' = IF close THEN [skt EXCEPT ![j] = Closed(@)] ELSE skt
    /\ task' = [task EXCEPT ![j] = "freed"]
    /\ j' = j + 1
    /\ UNCHANGED <<n, close, i, pc>>

\* Mutation: the task that failed is taken back too.
Undo_OneMore ==
    /\ pc = "undo" /\ j <= i /\ j < n
    /\ skt' = [skt EXCEPT ![j] = Closed(@)]
    /\ task' = [task EXCEPT ![j] = "freed"]
    /\ j' = j + 1
    /\ UNCHANGED <<n, close, i, pc>>

\* err_out of tp_task_bind_accept_multi_create(): tp_task_ident_close() without
\* the flag, by tp_task_destroy() with it.
Undo ==
    /\ pc = "undo" /\ j < i
    /\ skt' = [skt EXCEPT ![j] = Closed(@)]
    /\ task' = [task EXCEPT ![j] = "freed"]
    /\ j' = j + 1
    /\ UNCHANGED <<n, close, i, pc>>

Return ==
    /\ \/ pc = "bind" /\ i = n /\ pc' = "ok"
       \/ pc = "undo" /\ j = i /\ pc' = "failed"
    /\ UNCHANGED <<n, close, i, skt, task, j>>

Finished == pc \in {"ok", "failed"} /\ UNCHANGED vars

Next == Bind \/ Listen \/ CreateTask \/ CloseSocket \/ Undo \/ Return \/ Finished

Spec == Init /\ [][Next]_vars

-----------------------------------------------------------------------------
(* Properties.                                                             *)

\* All or nothing: every thread has its listening socket and its task, or
\* every socket that was made is closed and every task freed.
AllOrNothing ==
    /\ pc = "ok" => \A t \in 0 .. n - 1 : skt[t] = "open" /\ task[t] = "live"
    /\ pc = "failed" => \A t \in 0 .. n - 1 : skt[t] # "open" /\ task[t] # "live"

\* A socket is closed once, for by then another thread may own the number,
\* except the socket of a task with TP_TASK_F_CLOSE_ON_DESTROY that fails to
\* start: tp_task_create_start() has closed that one already.
ClosedOnce == \A t \in 0 .. n - 1 : skt[t] = "twice" => close /\ t = i

=============================================================================
