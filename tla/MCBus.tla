-------------------------------- MODULE MCBus --------------------------------
(***************************************************************************)
(* One queue with two competing listeners, one handle shared by two        *)
(* subscribe threads, one receiver with a filter.                          *)
(***************************************************************************)
EXTENDS Bus, TLC

CONSTANTS known, unknown, q1, h1, h2, l1, l2, s1, s2, r1

MCSourceOf == (l1 :> q1) @@ (l2 :> q1) @@ (s1 :> h1) @@ (s2 :> h1) @@ (r1 :> h2)
MCWanted == (r1 :> {known})
MCBatches == {<<unknown, known>>}
=============================================================================
