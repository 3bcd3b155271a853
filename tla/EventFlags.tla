---------------------------- MODULE EventFlags -----------------------------
(* The one time flags of an event. *)

ONESHOT  == "ONESHOT"
DISPATCH == "DISPATCH"

\* TP_F_ONESHOT and TP_F_DISPATCH exclude each other.
FlagSets == {{}, {ONESHOT}, {DISPATCH}}

\* What is left of an event after its callback has begun: "Delete event after
\* recv.", "DISABLE event after recv."
After(st, fl) == IF ONESHOT \in fl THEN "none"
                 ELSE IF DISPATCH \in fl THEN "off" ELSE st
=============================================================================
