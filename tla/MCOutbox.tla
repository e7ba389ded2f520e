------------------------------ MODULE MCOutbox ------------------------------
(***************************************************************************)
(* Finite instances of Outbox.                                             *)
(***************************************************************************)
EXTENDS Outbox, TLC

CONSTANTS m1, m2, m3, t1, t2, d1

Two == {m1, m2}
Three == {m1, m2, m3}
=============================================================================
