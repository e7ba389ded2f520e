---------------------------- MODULE MCEventStore ----------------------------
(***************************************************************************)
(* Two entities, two in-memory copies of each: every race of two callers   *)
(* over one or both of them.                                               *)
(***************************************************************************)
EXTENDS EventStore

CONSTANTS a, b, a1, a2, b1, b2

MCIds == {a, b}
MCObjects == {a1, a2, b1, b2}
MCIdOf == [o \in MCObjects |-> IF o \in {a1, a2} THEN a ELSE b]
\* single commits, and multi-entity commits that list the ids in either order
MCBatches == {<<a1>>, <<b2>>, <<a1, b1>>, <<b2, a2>>}
\* what get_many(["a", "a"]) followed by commit_all passes
MCSameIdBatches == {<<a1, a2>>}
=============================================================================
