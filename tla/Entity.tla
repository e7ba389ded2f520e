------------------------------- MODULE Entity -------------------------------
(***************************************************************************)
(* The in-memory event-sourced entity (entity/entity.rs) as a value and    *)
(* the operations on it.  An entity carries the whole event stream it was  *)
(* loaded with, followed by the events recorded since; committed_version   *)
(* is the number of events known to be persisted.                          *)
(*                                                                         *)
(* Payload bytes, metadata and timestamps are abstracted: an event is its  *)
(* sequence number and an opaque tag that tells events apart.              *)
(***************************************************************************)
EXTENDS Naturals, Sequences

\* An EventRecord, with everything but the sequence folded into the tag.
EventRecord(Tags) == [sequence : Nat \ {0}, tag : Tags]

\* The fields of Entity that its operations read or write.
EntityRecord(Tags) ==
  [version : Nat, events : Seq(EventRecord(Tags)), replaying : BOOLEAN,
   committed_version : Nat]

\* Entity::with_id: no events, nothing committed.
NewEntity ==
  [version |-> 0, events |-> << >>, replaying |-> FALSE, committed_version |-> 0]

\* Mutant of Digest: the sequence is taken before the event is counted.
DigestFromZero(e, tag) ==
  [version |-> Len(e.events) + 1,
   events |-> Append(e.events, [sequence |-> Len(e.events), tag |-> tag]),
   replaying |-> e.replaying,
   committed_version |-> e.committed_version]

\* Entity::digest, digest_v and digest_empty: ignored while replaying,
\* otherwise the event takes the next sequence number.
Digest(e, tag) ==
  IF e.replaying
    THEN e
    ELSE [version |-> Len(e.events) + 1,
          events |-> Append(e.events, [sequence |-> Len(e.events) + 1, tag |-> tag]),
          replaying |-> e.replaying,
          committed_version |-> e.committed_version]

\* Entity::load_from_history, on the fresh entity every loader starts from.
LoadFromHistory(e, history) ==
  [version |-> Len(history), events |-> history, replaying |-> e.replaying,
   committed_version |-> Len(history)]

\* Entity::new_events: the events recorded since the last load or commit.
NewEvents(e) == SubSeq(e.events, e.committed_version + 1, Len(e.events))

\* The events the entity believes to be persisted.
CommittedEvents(e) == SubSeq(e.events, 1, e.committed_version)

\* Entity::mark_committed
MarkCommitted(e) == [e EXCEPT !.committed_version = e.version]
=============================================================================
