------------------------ MODULE MCSnapshotRepository ------------------------
(***************************************************************************)
(* One old writer without snapshots and two writers of the newest schema   *)
(* with snapshots, over a stream that all share and a short one for the    *)
(* commits of two aggregates.                                              *)
(***************************************************************************)
EXTENDS SnapshotRepository, TLC

CONSTANTS i1, i2, old, new1, new2

MCSchema == (old :> 1) @@ (new1 :> 3) @@ (new2 :> 3)
MCMaxEvents == [id \in Ids |-> IF id = i1 THEN 2 ELSE 1]

Upcaster(v) == [event_type |-> "Initialized", from_version |-> v, to_version |-> v + 1]
MCUpcasters == << << >>, <<Upcaster(1)>>, <<Upcaster(1), Upcaster(2)>> >>

MCMethods ==
  (old :> {<<i1, "Initialized">>}) @@ (new1 :> {<<i1, "Completed">>,<<i2, "Initialized">>})
    @@ (new2 :> ({i1} \X Names))

\* The upcasters are those that the theorem on loading is about.
ASSUME MCUpcastersReach == UpcastersReach
=============================================================================
