---------------------------- MODULE EventSource ----------------------------
(***************************************************************************)
(* What an event registration promises to its owner, independent of epoll, *)
(* timerfd and the loops that serve it.  The owner adds, enables, disables *)
(* and deletes the event; the callback runs only while the event is wanted *)
(* and TP_F_ONESHOT and TP_F_DISPATCH withdraw it with the first callback  *)
(* ("Delete event after recv.", "DISABLE event after recv.").              *)
(***************************************************************************)
EXTENDS EventFlags, Naturals

VARIABLES
    want,   \* what the owner asked for: "none", "on" or "off"
    wfl,    \* the flags it asked for
    calls   \* callbacks since it last asked, counted up to two

avars == <<want, wfl, calls>>

CallsBound == 2
CallsInc(n) == IF n < CallsBound THEN n + 1 ELSE CallsBound

AInit == want = "none" /\ wfl = {} /\ calls = 0

Ask == /\ want' \in {"none", "on", "off"}
       /\ wfl' \in FlagSets
       /\ calls' = 0

Deliver == /\ want = "on"
           /\ want' = After(want, wfl)
           /\ calls' = CallsInc(calls)
           /\ wfl' = wfl

ANext == Ask \/ Deliver
ASpec == AInit /\ [][ANext]_avars
=============================================================================
