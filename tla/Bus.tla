-------------------------------- MODULE Bus --------------------------------
(***************************************************************************)
(* The in-memory message bus (bus/in_memory_queue.rs) and its consumers:   *)
(*                                                                         *)
(*   Listeners    microsvc::listen threads, competing on a named queue;    *)
(*   Subscribers  microsvc::subscribe threads, each on a subscriber handle *)
(*                (clones of one handle share its position);               *)
(*   Receivers    EventReceivers, which skip events of other types.        *)
(*                                                                         *)
(* A source is what a consumer reads: a named queue, or a handle on the    *)
(* shared log.  Each has one cursor, moved under its lock by whoever takes *)
(* an event.  An event is its type; its place in its stream identifies it. *)
(***************************************************************************)
EXTENDS Naturals, Sequences

CONSTANTS Types,       \* event types
          Commands,    \* types the service has a handler for
          Queues, Handles,
          Listeners, Subscribers, Receivers,
          SourceOf,    \* the source each consumer reads
          Wanted,      \* Wanted[r]: the types receiver r subscribed to
          Mortal,      \* transports that may be stopped, or whose handler may panic
          Batches,     \* what publishers pass to publish (length 1) and publish_batch
          MaxEvents    \* bound on the length of a stream

Transports == Listeners \cup Subscribers
Consumers == Transports \cup Receivers
Sources == Queues \cup Handles

ASSUME BusAssumption ==
  /\ Queues \cap Handles = {}
  /\ Listeners \cap Subscribers = {} /\ Transports \cap Receivers = {}
  /\ SourceOf \in [Consumers -> Sources]
  /\ \A t \in Listeners : SourceOf[t] \in Queues
  /\ \A t \in Subscribers \cup Receivers : SourceOf[t] \in Handles
  \* subscribe() makes a new handle for each receiver
  /\ \A r \in Receivers, c \in Consumers : SourceOf[r] = SourceOf[c] => r = c
  /\ Wanted \in [Receivers -> SUBSET Types]
  /\ Mortal \subseteq Transports
  /\ Batches \subseteq Seq(Types)
  /\ MaxEvents \in Nat

VARIABLES log,       \* the published events
          messages,  \* messages[q]: the events sent to queue q
          cursor,    \* cursor[s]: events of source s already taken
          acked,     \* acked[h]: events acknowledged through handle h
          pc,        \* pc[c]: where consumer c is
          current,   \* current[c]: the event it is working on, 0 if none
          done,      \* done[c]: the events it has finished with
          effects    \* effects[s]: events of s a handler returned Ok for, in order

vars == <<log, messages, cursor, acked, pc, current, done, effects>>

Places == {"poll", "dispatch", "ok", "err", "stopped", "dead", "idle", "recv"}

Init ==
  /\ log = << >>
  /\ messages = [q \in Queues |-> << >>]
  /\ cursor = [s \in Sources |-> 0]
  /\ acked = [h \in Handles |-> {}]
  /\ pc = [c \in Consumers |-> IF c \in Receivers THEN "idle" ELSE "poll"]
  /\ current = [c \in Consumers |-> 0]
  /\ done = [c \in Consumers |-> {}]
  /\ effects = [s \in Sources |-> << >>]

Stream(s) == IF s \in Queues THEN messages[s] ELSE log
-----------------------------------------------------------------------------
\* publish and publish_batch: the events enter the log together.
Publish(es) ==
  /\ Len(log) + Len(es) <= MaxEvents
  /\ log' = log \o es
  /\ UNCHANGED <<messages, cursor, acked, pc, current, done, effects>>

\* send: the queue is created by its first message.
Send(q, e) ==
  /\ Len(messages[q]) < MaxEvents
  /\ messages' = [messages EXCEPT ![q] = Append(@, e)]
  /\ UNCHANGED <<log, cursor, acked, pc, current, done, effects>>

\* Mutant of Poll: the bound test is off by one.
PollPastEnd(t) ==
  /\ t \in Subscribers /\ pc[t] = "poll"
  /\ LET h == SourceOf[t]
     IN  /\ cursor[h] <= Len(log) /\ cursor[h] < MaxEvents
         /\ cursor' = [cursor EXCEPT ![h] = @ + 1]
         /\ current' = [current EXCEPT ![t] = cursor[h] + 1]
  /\ pc' = [pc EXCEPT ![t] = "dispatch"]
  /\ UNCHANGED <<log, messages, acked, done, effects>>

\* Subscriber::poll in the subscribe loop.
Poll(t) ==
  /\ t \in Subscribers /\ pc[t] = "poll"
  /\ LET h == SourceOf[t]
     IN  /\ cursor[h] < Len(log)
         /\ cursor' = [cursor EXCEPT ![h] = @ + 1]
         /\ current' = [current EXCEPT ![t] = cursor[h] + 1]
  /\ pc' = [pc EXCEPT ![t] = "dispatch"]
  /\ UNCHANGED <<log, messages, acked, done, effects>>

\* Mutant of Listen: the last message is never taken.
ListenKeepsLast(t) ==
  /\ t \in Listeners /\ pc[t] = "poll"
  /\ LET q == SourceOf[t]
     IN  /\ cursor[q] + 1 < Len(messages[q])
         /\ cursor' = [cursor EXCEPT ![q] = @ + 1]
         /\ current' = [current EXCEPT ![t] = cursor[q] + 1]
  /\ pc' = [pc EXCEPT ![t] = "dispatch"]
  /\ UNCHANGED <<log, messages, acked, done, effects>>

\* Listener::listen in the listen loop.
Listen(t) ==
  /\ t \in Listeners /\ pc[t] = "poll"
  /\ LET q == SourceOf[t]
     IN  /\ cursor[q] < Len(messages[q])
         /\ cursor' = [cursor EXCEPT ![q] = @ + 1]
         /\ current' = [current EXCEPT ![t] = cursor[q] + 1]
  /\ pc' = [pc EXCEPT ![t] = "dispatch"]
  /\ UNCHANGED <<log, messages, acked, done, effects>>

\* poll or listen times out with nothing to take.
TimedOut(t) ==
  /\ pc[t] = "poll" /\ cursor[SourceOf[t]] = Len(Stream(SourceOf[t]))
  /\ UNCHANGED vars

\* dispatch_event finds a handler, its guard lets the event in and it is Ok.
DispatchOk(t) ==
  /\ pc[t] = "dispatch"
  /\ Stream(SourceOf[t])[current[t]] \in Commands
  /\ effects' = [effects EXCEPT ![SourceOf[t]] = Append(@, current[t])]
  /\ pc' = [pc EXCEPT ![t] = "ok"]
  /\ UNCHANGED <<log, messages, cursor, acked, current, done>>

\* dispatch_event is an error: UnknownCommand, GuardRejected, or the handler's.
DispatchErr(t) ==
  /\ pc[t] = "dispatch"
  /\ pc' = [pc EXCEPT ![t] = "err"]
  /\ UNCHANGED <<log, messages, cursor, acked, current, done, effects>>

\* The handler panics: the thread ends, with the event in its hands.
Panic(t) ==
  /\ t \in Mortal /\ pc[t] = "dispatch"
  /\ pc' = [pc EXCEPT ![t] = "dead"]
  /\ UNCHANGED <<log, messages, cursor, acked, current, done, effects>>

\* The loop is done with its event and starts over.
NextTurn(t) ==
  /\ done' = [done EXCEPT ![t] = @ \cup {current[t]}]
  /\ current' = [current EXCEPT ![t] = 0]
  /\ pc' = [pc EXCEPT ![t] = "poll"]
  /\ UNCHANGED <<log, messages, effects>>

\* After Ok: a subscriber acknowledges the event, a listener only counts it.
Ack(t) ==
  /\ pc[t] = "ok"
  /\ \/ /\ t \in Subscribers
        /\ acked' = [acked EXCEPT ![SourceOf[t]] = @ \cup {current[t]}]
     \/ t \in Listeners /\ UNCHANGED acked
  /\ UNCHANGED cursor
  /\ NextTurn(t)

\* Mutant of Nack: the event is put back by moving the position.
NackRewinds(t) ==
  /\ pc[t] = "err"
  /\ cursor' = [cursor EXCEPT ![SourceOf[t]] = current[t] - 1]
  /\ UNCHANGED acked
  /\ NextTurn(t)

\* After an error: the nack of a subscriber does nothing, nor does a listener.
Nack(t) ==
  /\ pc[t] = "err"
  /\ UNCHANGED <<cursor, acked>>
  /\ NextTurn(t)

\* Mutant of Stop: the signal is tested after the event is taken.
StopAfterTake(t) ==
  /\ t \in Mortal /\ pc[t] \in {"poll", "dispatch"}
  /\ pc' = [pc EXCEPT ![t] = "stopped"]
  /\ UNCHANGED <<log, messages, cursor, acked, current, done, effects>>

\* TransportHandle::stop, signal_stop or drop, seen at the top of the loop.
Stop(t) ==
  /\ t \in Mortal /\ pc[t] = "poll"
  /\ pc' = [pc EXCEPT ![t] = "stopped"]
  /\ UNCHANGED <<log, messages, cursor, acked, current, done, effects>>
-----------------------------------------------------------------------------
(***************************************************************************)
(* EventReceiver::recv                                                     *)
(***************************************************************************)

\* recv is called with a timeout.  (With timeout 0, as by try_recv, it returns
\* None before its first poll and changes nothing.)
Recv(r) ==
  /\ pc[r] = "idle"
  /\ pc' = [pc EXCEPT ![r] = "recv"]
  /\ UNCHANGED <<log, messages, cursor, acked, current, done, effects>>

\* Mutant of RecvPoll: an event that arrives after the deadline is dropped.
RecvDropsLate(r) ==
  /\ pc[r] = "recv"
  /\ LET h == SourceOf[r]
     IN  /\ cursor[h] < Len(log)
         /\ cursor' = [cursor EXCEPT ![h] = @ + 1]
         /\ \/ done' = [done EXCEPT ![r] = @ \cup {cursor[h] + 1}]
            \/ UNCHANGED done
         /\ pc' = [pc EXCEPT ![r] = "idle"]
  /\ UNCHANGED <<log, messages, acked, current, effects>>

\* One poll of recv: a matching event is returned, another one is skipped.
RecvPoll(r) ==
  /\ pc[r] = "recv"
  /\ LET h == SourceOf[r]
     IN  /\ cursor[h] < Len(log)
         /\ cursor' = [cursor EXCEPT ![h] = @ + 1]
         /\ IF log[cursor[h] + 1] \in Wanted[r]
              THEN /\ done' = [done EXCEPT ![r] = @ \cup {cursor[h] + 1}]
                   /\ pc' = [pc EXCEPT ![r] = "idle"]
              ELSE UNCHANGED <<done, pc>>
  /\ UNCHANGED <<log, messages, acked, current, effects>>

\* recv returns None: the deadline passed, with or without events to poll.
RecvTimeout(r) ==
  /\ pc[r] = "recv"
  /\ pc' = [pc EXCEPT ![r] = "idle"]
  /\ UNCHANGED <<log, messages, cursor, acked, current, done, effects>>
-----------------------------------------------------------------------------
TransportStep(t) == \/ Poll(t) \/ Listen(t)
                    \/ DispatchOk(t) \/ DispatchErr(t)
                    \/ Ack(t) \/ Nack(t)

Next ==
  \/ \E es \in Batches : Publish(es)
  \/ \E q \in Queues, e \in Types : Send(q, e)
  \/ \E t \in Transports : TransportStep(t) \/ TimedOut(t) \/ Panic(t) \/ Stop(t)
  \/ \E r \in Receivers : Recv(r) \/ RecvPoll(r) \/ RecvTimeout(r)

Spec == Init /\ [][Next]_vars

\* Transport threads run their loops; handlers return.
FairSpec == Spec /\ \A t \in Transports : WF_vars(TransportStep(t))
-----------------------------------------------------------------------------
(***************************************************************************)
(* Properties                                                              *)
(***************************************************************************)

\* Type correctness; no cursor is past the end of its stream.
TypeOK ==
  /\ log \in Seq(Types)
  /\ messages \in [Queues -> Seq(Types)]
  /\ cursor \in [Sources -> Nat]
  /\ \A s \in Sources : cursor[s] <= Len(Stream(s))
  /\ acked \in [Handles -> SUBSET Nat]
  /\ pc \in [Consumers -> Places]
  /\ current \in [Consumers -> Nat]
  /\ done \in [Consumers -> SUBSET Nat]
  /\ effects \in [Sources -> Seq(Nat)]

\* A transport has an event in its hands; a panic leaves it there.
Busy(t) == pc[t] \in {"dispatch", "ok", "err", "dead"}

\* What transport t has taken: what it finished with and what it works on.
Taken(t) == done[t] \cup (IF Busy(t) THEN {current[t]} ELSE {})

\* "each message is delivered to exactly one listener": the events taken from a
\* source are dealt out among its transports without gaps or overlaps.  A stopped
\* transport has finished with everything it took.
ExactlyOneConsumer ==
  \A s \in Sources : (\A r \in Receivers : SourceOf[r] # s) =>
    /\ UNION {Taken(t) : t \in {u \in Transports : SourceOf[u] = s}} = 1 .. cursor[s]
    /\ \A t, u \in Transports :
         t # u /\ SourceOf[t] = s /\ SourceOf[u] = s => Taken(t) \cap Taken(u) = {}

\* A handler takes effect at most once per event and source, and only an event
\* whose handler returned Ok is acknowledged.
EffectsOnce ==
  /\ \A s \in Sources : \A i, j \in 1 .. Len(effects[s]) :
       effects[s][i] = effects[s][j] => i = j
  /\ \A h \in Handles : \A i \in acked[h] : \E j \in 1 .. Len(effects[h]) :
       effects[h][j] = i

\* A receiver has returned exactly the events of its types that lie behind its
\* position, timeouts notwithstanding.
ReceivesWhatItWants ==
  \A r \in Receivers :
    done[r] = {i \in 1 .. cursor[SourceOf[r]] : log[i] \in Wanted[r]}

\* Where consumers can be: receivers and transports run loops of their own.
PlacesAreKept ==
  /\ \A r \in Receivers : pc[r] \in {"idle", "recv"}
  /\ \A t \in Transports : pc[t] \notin {"idle", "recv"}

\* A transport does not work on an event again that it has finished with.
WorkIsNew == \A t \in Transports : Busy(t) => current[t] \notin done[t]

\* A handler's effect is that of an event which some transport of the source has
\* finished with, or is about to acknowledge.
EffectsAreTaken ==
  \A s \in Sources : \A j \in 1 .. Len(effects[s]) : \E t \in Transports :
    /\ SourceOf[t] = s
    /\ effects[s][j] \in done[t] \/ (pc[t] = "ok" /\ current[t] = effects[s][j])

\* After Ok, the effect of the event in hand is there.
OkHasEffect ==
  \A t \in Transports : pc[t] = "ok" =>
    \E j \in 1 .. Len(effects[SourceOf[t]]) : effects[SourceOf[t]][j] = current[t]

\* The inductive invariant.
BusInv ==
  /\ TypeOK /\ PlacesAreKept
  /\ ExactlyOneConsumer /\ WorkIsNew
  /\ EffectsOnce /\ EffectsAreTaken /\ OkHasEffect
  /\ ReceivesWhatItWants

\* Every message is served in the end by some transport, unless its handler
\* panics, as long as one of its transports is not stopped and does not die.
EveryMessageServed ==
  \A s \in Sources, i \in 1 .. MaxEvents :
    (\E t \in Transports \ Mortal : SourceOf[t] = s) =>
      (Len(Stream(s)) >= i ~> \E t \in Transports :
         SourceOf[t] = s /\ (i \in done[t] \/ (pc[t] = "dead" /\ current[t] = i)))
=============================================================================
