---------------------------- MODULE OutboxMessage ----------------------------
(***************************************************************************)
(* The event-sourced outbox message (outbox/message.rs) as a value.  Each  *)
(* command is a guarded digest: outside its guard it records nothing and   *)
(* changes nothing, and replaying the recorded events repeats the same     *)
(* changes, so a stored stream is represented by the message it hydrates   *)
(* to.  version counts its events, committed_version those known to be     *)
(* stored.                                                                 *)
(*                                                                         *)
(* Event type, payload, metadata and last_error are abstracted away.  So   *)
(* is leased_until: claim writes it, no code reads it.                     *)
(***************************************************************************)
EXTENDS Naturals

CONSTANT Workers   \* worker ids

OutboxMessageStatus == {"Pending", "InFlight", "Published", "Failed"}

\* worker_id, an Option, is the set of the at most one worker it names.
OutboxMessageRecord ==
  [status : OutboxMessageStatus, attempts : Nat, worker_id : SUBSET Workers,
   version : Nat, committed_version : Nat]

\* OutboxMessage::default, before MessageCreated.
DefaultMessage ==
  [status |-> "Pending", attempts |-> 0, worker_id |-> {},
   version |-> 0, committed_version |-> 0]

IsPending(m) == m.status = "Pending"
IsInFlight(m) == m.status = "InFlight"
CanFail(m) == m.status \notin {"Published", "Failed"}

\* The message after a command that recorded one event.
Changed(m, status, attempts, worker_id) ==
  [status |-> status, attempts |-> attempts, worker_id |-> worker_id,
   version |-> m.version + 1, committed_version |-> m.committed_version]

\* OutboxMessage::initialize
Initialize(m) == Changed(m, "Pending", m.attempts, m.worker_id)

\* Mutant of ClaimFor: the attempt is not counted.
ClaimUncounted(m, w) ==
  IF IsPending(m) THEN Changed(m, "InFlight", m.attempts, {w}) ELSE m

\* OutboxMessage::claim and claim_for
ClaimFor(m, w) ==
  IF IsPending(m) THEN Changed(m, "InFlight", m.attempts + 1, {w}) ELSE m

\* OutboxMessage::complete
Complete(m) ==
  IF IsInFlight(m) THEN Changed(m, "Published", m.attempts, {}) ELSE m

\* OutboxMessage::release
Release(m) ==
  IF IsInFlight(m) THEN Changed(m, "Pending", m.attempts, {}) ELSE m

\* OutboxMessage::fail
Fail(m) ==
  IF CanFail(m) THEN Changed(m, "Failed", m.attempts, {}) ELSE m

\* Mutant of Stored: mark_committed is forgotten.
StoredUnmarked(m) == m

\* Entity::mark_committed on the message's entity
Stored(m) ==
  [status |-> m.status, attempts |-> m.attempts, worker_id |-> m.worker_id,
   version |-> m.version, committed_version |-> m.version]
=============================================================================
