------------------------------- MODULE Loops -------------------------------
(***************************************************************************)
(* Loops of pure code.  A loop works on one value, usually a record of     *)
(* the variables it changes.                                               *)
(***************************************************************************)
EXTENDS Integers, Sequences

(* while (Cond) Body *)
While(Cond(_), Body(_), s) ==
    LET RECURSIVE W(_)
        W(x) == IF Cond(x) THEN W(Body(x)) ELSE x
    IN  W(s)

(* for (i = 0; i < n; i ++) Body *)
For(n, Body(_, _), s) ==
    LET RECURSIVE F(_, _)
        F(i, x) == IF i = n THEN x ELSE F(i + 1, Body(x, i))
    IN  F(0, s)

(* for (i = n - 1; i >= 0; i --) Body *)
ForDown(n, Body(_, _), s) ==
    LET RECURSIVE F(_, _)
        F(i, x) == IF i < 0 THEN x ELSE F(i - 1, Body(x, i))
    IN  F(n - 1, s)
=============================================================================
