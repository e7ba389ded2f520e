----------------------------- MODULE BusProofs -----------------------------
(***************************************************************************)
(* Proofs about Bus for any streams, consumers and sources.  The invariant *)
(* is BusInv; each action is shown to keep each of its parts.              *)
(***************************************************************************)
EXTENDS Bus, TLAPS

\* What BusAssumption says of the consumers and their sources.
LEMMA SourceFacts ==
  /\ \A c \in Consumers : SourceOf[c] \in Sources
  /\ \A t \in Transports : t \in Consumers /\ t \notin Receivers
  /\ \A r \in Receivers : r \in Consumers /\ r \notin Transports
  /\ \A t \in Listeners : t \in Transports /\ SourceOf[t] \in Queues
  /\ \A t \in Subscribers : t \in Transports /\ SourceOf[t] \in Handles
  /\ \A r \in Receivers : SourceOf[r] \in Handles
  /\ \A h \in Handles : h \notin Queues /\ h \in Sources
  /\ \A q \in Queues : q \notin Handles /\ q \in Sources
  /\ \A r \in Receivers, c \in Consumers : SourceOf[r] = SourceOf[c] => r = c
  BY BusAssumption DEF BusAssumption, Consumers, Transports, Sources

\* ExactlyOneConsumer, event by event.
Dealt ==
  /\ \A t \in Transports : \A i \in Taken(t) : i \in 1 .. cursor[SourceOf[t]]
  /\ \A s \in Sources : (\A r \in Receivers : SourceOf[r] # s) =>
       \A i \in 1 .. cursor[s] : \E t \in Transports : SourceOf[t] = s /\ i \in Taken(t)
  /\ \A t, u \in Transports : \A i \in Taken(t) :
       i \in Taken(u) /\ SourceOf[t] = SourceOf[u] => t = u

LEMMA DealtOut == ExactlyOneConsumer <=> Dealt
<1>1. \A t \in Transports : /\ SourceOf[t] \in Sources
                            /\ \A r \in Receivers : SourceOf[r] # SourceOf[t]
  BY SourceFacts
<1>2. ASSUME ExactlyOneConsumer PROVE Dealt
  <2>1. ASSUME NEW t \in Transports, NEW i \in Taken(t)
        PROVE  i \in 1 .. cursor[SourceOf[t]]
    BY <1>1, <1>2 DEF ExactlyOneConsumer
  <2>2. ASSUME NEW s \in Sources, \A r \in Receivers : SourceOf[r] # s,
               NEW i \in 1 .. cursor[s]
        PROVE  \E t \in Transports : SourceOf[t] = s /\ i \in Taken(t)
    BY <1>2, <2>2 DEF ExactlyOneConsumer
  <2>3. ASSUME NEW t \in Transports, NEW u \in Transports, NEW i \in Taken(t),
               i \in Taken(u), SourceOf[t] = SourceOf[u]
        PROVE  t = u
    BY <1>1, <1>2, <2>3 DEF ExactlyOneConsumer
  <2> QED BY <2>1, <2>2, <2>3 DEF Dealt
<1>3. ASSUME Dealt PROVE ExactlyOneConsumer
  BY <1>1, <1>3 DEF ExactlyOneConsumer, Dealt
<1> QED BY <1>2, <1>3

LEMMA DealtOutNext == ExactlyOneConsumer' <=> Dealt'
<1>1. \A t \in Transports : /\ SourceOf[t] \in Sources
                            /\ \A r \in Receivers : SourceOf[r] # SourceOf[t]
  BY SourceFacts
<1>2. ASSUME ExactlyOneConsumer' PROVE Dealt'
  <2>1. ASSUME NEW t \in Transports, NEW i \in Taken(t)'
        PROVE  i \in 1 .. cursor'[SourceOf[t]]
    BY <1>1, <1>2 DEF ExactlyOneConsumer
  <2>2. ASSUME NEW s \in Sources, \A r \in Receivers : SourceOf[r] # s,
               NEW i \in 1 .. cursor'[s]
        PROVE  \E t \in Transports : SourceOf[t] = s /\ i \in Taken(t)'
    BY <1>2, <2>2 DEF ExactlyOneConsumer
  <2>3. ASSUME NEW t \in Transports, NEW u \in Transports, NEW i \in Taken(t)',
               i \in Taken(u)', SourceOf[t] = SourceOf[u]
        PROVE  t = u
    BY <1>1, <1>2, <2>3 DEF ExactlyOneConsumer
  <2> QED BY <2>1, <2>2, <2>3 DEF Dealt
<1>3. ASSUME Dealt' PROVE ExactlyOneConsumer'
  BY <1>1, <1>3 DEF ExactlyOneConsumer, Dealt
<1> QED BY <1>2, <1>3

\* The invariant with its parts in the form that the proofs use.
Inv == /\ TypeOK /\ PlacesAreKept /\ Dealt /\ WorkIsNew
       /\ EffectsOnce /\ EffectsAreTaken /\ OkHasEffect /\ ReceivesWhatItWants

LEMMA InvIsBusInv == (Inv <=> BusInv) /\ (Inv' <=> BusInv')
  BY DealtOut, DealtOutNext DEF Inv, BusInv

LEMMA InvInit == Init => Inv
<1> SUFFICES ASSUME Init PROVE Inv
  OBVIOUS
<1> USE DEF Init
<1>1. TypeOK
  BY DEF TypeOK, Places, Stream, Sources
<1>2. PlacesAreKept
  BY SourceFacts DEF PlacesAreKept
<1>3. \A t \in Transports : Taken(t) = {}
  BY SourceFacts DEF Taken, Busy
<1>4. Dealt /\ WorkIsNew
  BY <1>3, SourceFacts DEF Dealt, WorkIsNew
<1>5. EffectsOnce /\ EffectsAreTaken
  BY SourceFacts DEF EffectsOnce, EffectsAreTaken
<1>6. OkHasEffect
  BY SourceFacts DEF OkHasEffect
<1>7. ReceivesWhatItWants
  BY SourceFacts DEF ReceivesWhatItWants
<1> QED BY <1>1, <1>2, <1>4, <1>5, <1>6, <1>7 DEF Inv
-----------------------------------------------------------------------------
(***************************************************************************)
(* Publishing: the streams grow and nothing else changes.                  *)
(***************************************************************************)

LEMMA PublishStep ==
  ASSUME Inv, NEW es \in Batches, Publish(es)
  PROVE  Inv'
<1> USE DEF Inv
<1>1. es \in Seq(Types)
  BY BusAssumption DEF BusAssumption
<1>2. log \in Seq(Types)
  BY DEF TypeOK
<1>3. /\ log' \in Seq(Types) /\ Len(log') >= Len(log)
      /\ \A i \in 1 .. Len(log) : log'[i] = log[i]
  BY <1>1, <1>2 DEF Publish
<1>4. UNCHANGED <<messages, cursor, acked, pc, current, done, effects>>
  BY DEF Publish
<1>5. \A s \in Sources : cursor[s] \in Nat /\ cursor[s] <= Len(Stream(s))
  BY DEF TypeOK
<1>6. \A s \in Sources : cursor'[s] <= Len(Stream(s)')
  <2> SUFFICES ASSUME NEW s \in Sources PROVE cursor[s] <= Len(Stream(s)')
    BY <1>4
  <2>1. CASE s \in Queues
    BY <1>4, <1>5, <2>1 DEF Stream
  <2>2. CASE s \notin Queues
    <3>1. cursor[s] <= Len(log)
      BY <1>5, <2>2 DEF Stream
    <3>2. Len(log) \in Nat /\ Len(log') \in Nat
      BY <1>2, <1>3
    <3> QED BY <1>3, <1>5, <2>2, <3>1, <3>2 DEF Stream
  <2> QED BY <2>1, <2>2
<1>7. TypeOK'
  BY <1>3, <1>4, <1>6 DEF TypeOK
<1>8. ReceivesWhatItWants'
  <2> SUFFICES ASSUME NEW r \in Receivers
               PROVE  \A i \in 1 .. cursor[SourceOf[r]] : log'[i] = log[i]
    BY <1>4 DEF ReceivesWhatItWants
  <2>1. SourceOf[r] \in Sources /\ SourceOf[r] \notin Queues
    BY SourceFacts
  <2>2. cursor[SourceOf[r]] \in Nat /\ cursor[SourceOf[r]] <= Len(log)
    BY <1>5, <2>1 DEF Stream
  <2>3. Len(log) \in Nat
    BY <1>2
  <2> QED BY <1>3, <2>2, <2>3
<1>9. (PlacesAreKept /\ Dealt /\ WorkIsNew /\ EffectsOnce /\ EffectsAreTaken /\ OkHasEffect)'
  BY <1>4 DEF PlacesAreKept, Dealt, WorkIsNew, EffectsOnce, EffectsAreTaken, OkHasEffect,
              Taken, Busy
<1> QED BY <1>7, <1>8, <1>9

LEMMA SendStep ==
  ASSUME Inv, NEW q \in Queues, NEW e \in Types, Send(q, e)
  PROVE  Inv'
<1> USE DEF Inv
<1>1. messages \in [Queues -> Seq(Types)]
  BY DEF TypeOK
<1>2. /\ messages' = [messages EXCEPT ![q] = Append(messages[q], e)]
      /\ UNCHANGED <<log, cursor, acked, pc, current, done, effects>>
  BY DEF Send
<1>3. messages[q] \in Seq(Types)
  BY <1>1
<1>4. /\ Append(messages[q], e) \in Seq(Types)
      /\ Len(Append(messages[q], e)) = Len(messages[q]) + 1
      /\ Len(messages[q]) \in Nat
  BY <1>3
<1>5. messages' \in [Queues -> Seq(Types)]
  BY <1>1, <1>2, <1>4
<1>6. \A s \in Sources : cursor[s] \in Nat /\ cursor[s] <= Len(Stream(s))
  BY DEF TypeOK
<1>7. \A s \in Sources : cursor'[s] <= Len(Stream(s)')
  <2> SUFFICES ASSUME NEW s \in Sources PROVE cursor[s] <= Len(Stream(s)')
    BY <1>2
  <2>1. CASE s = q
    BY <1>1, <1>2, <1>4, <1>6, <2>1 DEF Stream
  <2>2. CASE s # q
    BY <1>1, <1>2, <1>6, <2>2 DEF Stream
  <2> QED BY <2>1, <2>2
<1>8. TypeOK'
  BY <1>2, <1>5, <1>7 DEF TypeOK
<1>9. (/\ PlacesAreKept /\ Dealt /\ WorkIsNew /\ EffectsOnce /\ EffectsAreTaken
       /\ OkHasEffect /\ ReceivesWhatItWants)'
  BY <1>2 DEF PlacesAreKept, Dealt, WorkIsNew, EffectsOnce, EffectsAreTaken, OkHasEffect,
              ReceivesWhatItWants, Taken, Busy
<1> QED BY <1>8, <1>9
-----------------------------------------------------------------------------
(***************************************************************************)
(* The transport loops.                                                    *)
(***************************************************************************)

\* Poll and Listen take the next event of the source: nobody had it before.
LEMMA TakeStep ==
  ASSUME Inv, NEW t \in Transports, Poll(t) \/ Listen(t)
  PROVE  Inv'
<1> USE DEF Inv
<1> DEFINE s == SourceOf[t]
           n == cursor[s] + 1
<1>0. /\ t \in Consumers /\ s \in Sources /\ t \notin Receivers
      /\ \A r \in Receivers : SourceOf[r] # s
  BY SourceFacts
<1>1. /\ cursor' = [cursor EXCEPT ![s] = n]
      /\ current' = [current EXCEPT ![t] = n]
      /\ pc' = [pc EXCEPT ![t] = "dispatch"]
      /\ pc[t] = "poll"
      /\ UNCHANGED <<log, messages, acked, done, effects>>
  BY DEF Poll, Listen
<1>2. cursor[s] < Len(Stream(s))
  <2>1. CASE Poll(t)
    <3>1. t \in Subscribers /\ cursor[s] < Len(log)
      BY <2>1 DEF Poll
    <3> QED BY <3>1, SourceFacts DEF Stream
  <2>2. CASE Listen(t)
    <3>1. t \in Listeners /\ cursor[s] < Len(messages[s])
      BY <2>2 DEF Listen
    <3> QED BY <3>1, SourceFacts DEF Stream
  <2> QED BY <2>1, <2>2
<1>3. /\ cursor \in [Sources -> Nat] /\ current \in [Consumers -> Nat]
      /\ pc \in [Consumers -> Places] /\ done \in [Consumers -> SUBSET Nat]
      /\ cursor[s] \in Nat /\ n \in Nat
  BY <1>0 DEF TypeOK
<1>4. Len(Stream(s)) \in Nat
  <2>1. Stream(s) \in Seq(Types)
    BY <1>0, SourceFacts DEF TypeOK, Stream, Sources
  <2> QED BY <2>1
<1>5. /\ cursor'[s] = n /\ current'[t] = n /\ pc'[t] = "dispatch"
      /\ \A x \in Sources : x # s => cursor'[x] = cursor[x]
      /\ \A u \in Consumers : u # t => pc'[u] = pc[u] /\ current'[u] = current[u]
  BY <1>0, <1>1, <1>3
<1> HIDE DEF n, s
<1>6. TypeOK'
  <2>1. cursor' \in [Sources -> Nat] /\ current' \in [Consumers -> Nat]
    BY <1>1, <1>3
  <2>2. pc' \in [Consumers -> Places]
    BY <1>1, <1>3 DEF Places
  <2>3. \A x \in Sources : Stream(x)' = Stream(x)
    BY <1>1 DEF Stream
  <2>4. n <= Len(Stream(s))
    BY <1>2, <1>3, <1>4 DEF n
  <2>5. \A x \in Sources : cursor'[x] <= Len(Stream(x)')
    BY <1>5, <2>3, <2>4 DEF TypeOK
  <2> QED BY <1>1, <2>1, <2>2, <2>5 DEF TypeOK
<1>7. PlacesAreKept'
  BY <1>0, <1>5, SourceFacts DEF PlacesAreKept
<1>8. /\ Taken(t)' = Taken(t) \cup {n}
      /\ \A u \in Transports : u # t => Taken(u)' = Taken(u)
  BY <1>0, <1>1, <1>5, SourceFacts DEF Taken, Busy
<1>9. \A u \in Transports : SourceOf[u] = s => n \notin Taken(u)
  BY <1>3 DEF Dealt, n
<1>10. Dealt'
  <2>1. ASSUME NEW u \in Transports, NEW i \in Taken(u)'
        PROVE  i \in 1 .. cursor'[SourceOf[u]]
    <3>0. SourceOf[u] \in Sources /\ SourceOf[t] = s
      BY SourceFacts DEF s
    <3>1. CASE i \in Taken(u)
      <4>1. i \in 1 .. cursor[SourceOf[u]]
        BY <3>1 DEF Dealt
      <4>2. cursor[SourceOf[u]] \in Nat
        BY <3>0, <1>3
      <4>3. cursor'[SourceOf[u]] = cursor[SourceOf[u]]
            \/ cursor'[SourceOf[u]] = cursor[SourceOf[u]] + 1
        BY <3>0, <1>5 DEF n
      <4> QED BY <4>1, <4>2, <4>3
    <3>2. CASE i \notin Taken(u)
      <4>1. u = t /\ i = n
        BY <1>8, <2>1, <3>2
      <4>2. cursor'[SourceOf[u]] = n
        BY <3>0, <4>1, <1>5
      <4> QED BY <1>3, <4>1, <4>2 DEF n
    <3> QED BY <3>1, <3>2
  <2>2. ASSUME NEW x \in Sources, \A r \in Receivers : SourceOf[r] # x,
               NEW i \in 1 .. cursor'[x]
        PROVE  \E u \in Transports : SourceOf[u] = x /\ i \in Taken(u)'
    <3>1. CASE i \in 1 .. cursor[x]
      <4>1. \E u \in Transports : SourceOf[u] = x /\ i \in Taken(u)
        BY <2>2, <3>1 DEF Dealt
      <4> QED BY <1>8, <4>1
    <3>2. CASE i \notin 1 .. cursor[x]
      <4>1. x = s /\ i = n
        BY <1>3, <1>5, <2>2, <3>2 DEF n
      <4> QED BY <1>8, <4>1 DEF s
    <3> QED BY <3>1, <3>2
  <2>3. ASSUME NEW u \in Transports, NEW v \in Transports, NEW i \in Taken(u)',
               i \in Taken(v)', SourceOf[u] = SourceOf[v]
        PROVE  u = v
    BY <1>8, <1>9, <2>3 DEF Dealt, s
  <2> QED BY <2>1, <2>2, <2>3 DEF Dealt
<1>11. WorkIsNew'
  <2>1. n \notin done[t]
    BY <1>9 DEF Taken, s
  <2> QED BY <1>1, <1>5, <2>1, SourceFacts DEF WorkIsNew, Busy
<1>12. EffectsOnce' /\ EffectsAreTaken' /\ OkHasEffect'
  <2>1. EffectsOnce'
    BY <1>1 DEF EffectsOnce
  <2>2. EffectsAreTaken'
    BY <1>1, <1>5, SourceFacts DEF EffectsAreTaken
  <2>3. OkHasEffect'
    BY <1>1, <1>5, SourceFacts DEF OkHasEffect
  <2> QED BY <2>1, <2>2, <2>3
<1>13. ReceivesWhatItWants'
  BY <1>0, <1>1, <1>5, SourceFacts DEF ReceivesWhatItWants
<1> QED BY <1>6, <1>7, <1>10, <1>11, <1>12, <1>13

\* The handler's effect: nobody has had this event before, so it is the first.
LEMMA DispatchOkStep ==
  ASSUME Inv, NEW t \in Transports, DispatchOk(t)
  PROVE  Inv'
<1> USE DEF Inv
<1> DEFINE s == SourceOf[t]
           n == current[t]
<1>0. t \in Consumers /\ s \in Sources /\ t \notin Receivers
  BY SourceFacts
<1>1. /\ pc[t] = "dispatch"
      /\ effects' = [effects EXCEPT ![s] = Append(effects[s], n)]
      /\ pc' = [pc EXCEPT ![t] = "ok"]
      /\ UNCHANGED <<log, messages, cursor, acked, current, done>>
  BY DEF DispatchOk
<1>2. /\ pc \in [Consumers -> Places] /\ current \in [Consumers -> Nat]
      /\ effects \in [Sources -> Seq(Nat)]
      /\ effects[s] \in Seq(Nat) /\ n \in Nat
  BY <1>0 DEF TypeOK
<1>3. /\ pc'[t] = "ok"
      /\ \A u \in Consumers : u # t => pc'[u] = pc[u]
      /\ effects'[s] = Append(effects[s], n)
      /\ \A x \in Sources : x # s => effects'[x] = effects[x]
  BY <1>0, <1>1, <1>2
<1>4. /\ Append(effects[s], n) \in Seq(Nat)
      /\ Len(effects[s]) \in Nat
      /\ Len(effects'[s]) = Len(effects[s]) + 1
      /\ effects'[s][Len(effects[s]) + 1] = n
      /\ \A j \in 1 .. Len(effects[s]) : effects'[s][j] = effects[s][j]
  BY <1>2, <1>3
<1>5. \A j \in 1 .. Len(effects[s]) : effects[s][j] # n
  <2> SUFFICES ASSUME NEW j \in 1 .. Len(effects[s]), effects[s][j] = n PROVE FALSE
    OBVIOUS
  <2>1. PICK u \in Transports :
          /\ SourceOf[u] = s
          /\ n \in done[u] \/ (pc[u] = "ok" /\ current[u] = n)
    BY <1>0 DEF EffectsAreTaken
  <2>2. n \in Taken(u) /\ n \in Taken(t)
    BY <1>1, <2>1 DEF Taken, Busy
  <2>3. u = t
    BY <2>1, <2>2 DEF Dealt
  <2> QED BY <1>1, <2>1, <2>3 DEF WorkIsNew, Busy
<1> HIDE DEF n, s
<1>6. TypeOK'
  <2>1. effects' \in [Sources -> Seq(Nat)]
    BY <1>1, <1>2, <1>4
  <2>2. pc' \in [Consumers -> Places]
    BY <1>1, <1>2 DEF Places
  <2> QED BY <1>1, <2>1, <2>2 DEF TypeOK, Stream
<1>7. PlacesAreKept'
  BY <1>0, <1>3, SourceFacts DEF PlacesAreKept
<1>8. \A u \in Transports : (Busy(u)' <=> Busy(u)) /\ Taken(u)' = Taken(u)
  BY <1>1, <1>3, SourceFacts DEF Taken, Busy
<1>9. Dealt' /\ WorkIsNew'
  BY <1>1, <1>8 DEF Dealt, WorkIsNew
<1>10. EffectsOnce'
  <2>1. ASSUME NEW x \in Sources, NEW i \in 1 .. Len(effects'[x]),
               NEW j \in 1 .. Len(effects'[x]), effects'[x][i] = effects'[x][j]
        PROVE  i = j
    <3>1. CASE x # s
      BY <1>3, <2>1, <3>1 DEF EffectsOnce
    <3>2. CASE x = s
      <4>0. i \in 1 .. Len(effects'[s]) /\ j \in 1 .. Len(effects'[s])
            /\ effects'[s][i] = effects'[s][j]
        BY <2>1, <3>2
      <4>1. \A k \in 1 .. Len(effects'[s]) :
              k \in 1 .. Len(effects[s]) \/ k = Len(effects[s]) + 1
        BY <1>4
      <4>2. CASE i \in 1 .. Len(effects[s]) /\ j \in 1 .. Len(effects[s])
        BY <1>0, <1>4, <4>0, <4>2 DEF EffectsOnce
      <4>3. CASE i \notin 1 .. Len(effects[s]) \/ j \notin 1 .. Len(effects[s])
        BY <1>4, <1>5, <4>0, <4>1, <4>3
      <4> QED BY <4>2, <4>3
    <3> QED BY <3>1, <3>2
  <2>2. ASSUME NEW h \in Handles, NEW i \in acked'[h]
        PROVE  \E j \in 1 .. Len(effects'[h]) : effects'[h][j] = i
    <3>1. PICK j \in 1 .. Len(effects[h]) : effects[h][j] = i
      BY <1>1 DEF EffectsOnce
    <3>2. CASE h # s
      BY <1>3, <3>1, <3>2, SourceFacts
    <3>3. CASE h = s
      <4>1. j \in 1 .. Len(effects'[s]) /\ effects'[s][j] = i
        BY <1>4, <3>1, <3>3
      <4> QED BY <3>3, <4>1
    <3> QED BY <3>2, <3>3
  <2> QED BY <2>1, <2>2 DEF EffectsOnce
<1>11. EffectsAreTaken'
  <2> SUFFICES ASSUME NEW x \in Sources, NEW j \in 1 .. Len(effects'[x])
               PROVE  \E u \in Transports :
                        /\ SourceOf[u] = x
                        /\ \/ effects'[x][j] \in done'[u]
                           \/ pc'[u] = "ok" /\ current'[u] = effects'[x][j]
    BY DEF EffectsAreTaken
  <2>1. CASE x = s /\ j = Len(effects[s]) + 1
    BY <1>1, <1>3, <1>4, <2>1 DEF s, n
  <2>2. CASE ~ (x = s /\ j = Len(effects[s]) + 1)
    <3>1. j \in 1 .. Len(effects[x]) /\ effects'[x][j] = effects[x][j]
      BY <1>3, <1>4, <2>2
    <3>2. PICK u \in Transports :
            /\ SourceOf[u] = x
            /\ effects[x][j] \in done[u] \/ (pc[u] = "ok" /\ current[u] = effects[x][j])
      BY <3>1 DEF EffectsAreTaken
    <3>3. pc[u] = "ok" => pc'[u] = "ok"
      BY <1>3, SourceFacts
    <3> QED BY <1>1, <3>1, <3>2, <3>3
  <2> QED BY <2>1, <2>2
<1>12. OkHasEffect'
  <2> SUFFICES ASSUME NEW u \in Transports, pc'[u] = "ok"
               PROVE  \E j \in 1 .. Len(effects'[SourceOf[u]]) :
                        effects'[SourceOf[u]][j] = current'[u]
    BY DEF OkHasEffect
  <2>1. CASE u = t
    BY <1>1, <1>4, <2>1 DEF s, n
  <2>2. CASE u # t
    <3>1. PICK j \in 1 .. Len(effects[SourceOf[u]]) :
            effects[SourceOf[u]][j] = current[u]
      BY <1>3, <2>2, SourceFacts DEF OkHasEffect
    <3>2. SourceOf[u] \in Sources
      BY SourceFacts
    <3>3. CASE SourceOf[u] = s
      <4>1. j \in 1 .. Len(effects'[s]) /\ effects'[s][j] = current'[u]
        BY <1>1, <1>4, <3>1, <3>3
      <4> QED BY <3>3, <4>1
    <3>4. CASE SourceOf[u] # s
      BY <1>1, <1>3, <3>1, <3>2, <3>4
    <3> QED BY <3>3, <3>4
  <2> QED BY <2>1, <2>2
<1>13. ReceivesWhatItWants'
  BY <1>1 DEF ReceivesWhatItWants
<1> QED BY <1>6, <1>7, <1>9, <1>10, <1>11, <1>12, <1>13

\* Steps that only move a transport: to "err", to "dead" or to "stopped".  It
\* keeps the event in its hands, and a transport that stops has none.
LEMMA MoveStep ==
  ASSUME Inv, NEW t \in Transports, DispatchErr(t) \/ Panic(t) \/ Stop(t)
  PROVE  Inv'
<1> USE DEF Inv
<1>0. t \in Consumers /\ t \notin Receivers
  BY SourceFacts
<1>1. /\ UNCHANGED <<log, messages, cursor, acked, current, done, effects>>
      /\ \/ pc[t] = "dispatch" /\ pc' = [pc EXCEPT ![t] = "err"]
         \/ pc[t] = "dispatch" /\ pc' = [pc EXCEPT ![t] = "dead"]
         \/ pc[t] = "poll" /\ pc' = [pc EXCEPT ![t] = "stopped"]
  BY DEF DispatchErr, Panic, Stop
<1>2. pc \in [Consumers -> Places]
  BY DEF TypeOK
<1>3. /\ \/ pc[t] = "dispatch" /\ pc'[t] \in {"err", "dead"}
         \/ pc[t] = "poll" /\ pc'[t] = "stopped"
      /\ \A u \in Consumers : u # t => pc'[u] = pc[u]
  BY <1>0, <1>1, <1>2
<1>4. TypeOK'
  <2>1. pc' \in [Consumers -> Places]
    BY <1>1, <1>2 DEF Places
  <2> QED BY <1>1, <2>1 DEF TypeOK, Stream
<1>5. PlacesAreKept'
  BY <1>0, <1>3, SourceFacts DEF PlacesAreKept
<1>6. \A u \in Transports : (Busy(u)' <=> Busy(u)) /\ Taken(u)' = Taken(u)
  BY <1>1, <1>3, SourceFacts DEF Taken, Busy
<1>7. \A u \in Transports : pc'[u] = "ok" <=> pc[u] = "ok"
  BY <1>3, SourceFacts
<1> QED BY <1>1, <1>4, <1>5, <1>6, <1>7 DEF Dealt, WorkIsNew, EffectsOnce, EffectsAreTaken,
           OkHasEffect, ReceivesWhatItWants

\* The end of a turn: the event in hand becomes one that is finished with.
LEMMA TurnStep ==
  ASSUME Inv, NEW t \in Transports, Ack(t) \/ Nack(t)
  PROVE  Inv'
<1> USE DEF Inv
<1> DEFINE s == SourceOf[t]
           n == current[t]
<1>0. t \in Consumers /\ t \notin Receivers /\ s \in Sources
  BY SourceFacts
<1>1. /\ done' = [done EXCEPT ![t] = done[t] \cup {n}]
      /\ current' = [current EXCEPT ![t] = 0]
      /\ pc' = [pc EXCEPT ![t] = "poll"]
      /\ UNCHANGED <<log, messages, cursor, effects>>
      /\ pc[t] \in {"ok", "err"}
  BY DEF Ack, Nack, NextTurn
<1>2. /\ \/ acked' = acked
         \/ /\ pc[t] = "ok" /\ s \in Handles
            /\ acked' = [acked EXCEPT ![s] = acked[s] \cup {n}]
  BY SourceFacts DEF Ack, Nack
<1>3. /\ pc \in [Consumers -> Places] /\ current \in [Consumers -> Nat]
      /\ done \in [Consumers -> SUBSET Nat] /\ acked \in [Handles -> SUBSET Nat]
      /\ n \in Nat
  BY <1>0 DEF TypeOK
<1>4. /\ pc'[t] = "poll" /\ done'[t] = done[t] \cup {n}
      /\ \A u \in Consumers : u # t =>
           pc'[u] = pc[u] /\ current'[u] = current[u] /\ done'[u] = done[u]
  BY <1>0, <1>1, <1>3
<1> HIDE DEF n, s
<1>5. TypeOK'
  <2>1. pc' \in [Consumers -> Places] /\ current' \in [Consumers -> Nat]
    BY <1>1, <1>3 DEF Places
  <2>2. done' \in [Consumers -> SUBSET Nat] /\ acked' \in [Handles -> SUBSET Nat]
    BY <1>1, <1>2, <1>3
  <2> QED BY <1>1, <2>1, <2>2 DEF TypeOK, Stream
<1>6. PlacesAreKept'
  BY <1>0, <1>4, SourceFacts DEF PlacesAreKept
<1>7. \A u \in Transports : Taken(u)' = Taken(u)
  <2> SUFFICES ASSUME NEW u \in Transports PROVE Taken(u)' = Taken(u)
    OBVIOUS
  <2>1. CASE u = t
    BY <1>1, <1>4, <2>1 DEF Taken, Busy, n
  <2>2. CASE u # t
    BY <1>4, <2>2, SourceFacts DEF Taken, Busy
  <2> QED BY <2>1, <2>2
<1>8. Dealt'
  BY <1>1, <1>7 DEF Dealt
<1>9. WorkIsNew'
  BY <1>4, SourceFacts DEF WorkIsNew, Busy
<1>10. EffectsOnce'
  <2>1. ASSUME NEW h \in Handles, NEW i \in acked'[h]
        PROVE  \E j \in 1 .. Len(effects[h]) : effects[h][j] = i
    <3>1. CASE i \in acked[h]
      BY <3>1 DEF EffectsOnce
    <3>2. CASE i \notin acked[h]
      <4>1. pc[t] = "ok" /\ h = s /\ i = n
        BY <1>2, <1>3, <2>1, <3>2
      <4> QED BY <4>1 DEF OkHasEffect, n, s
    <3> QED BY <3>1, <3>2
  <2> QED BY <1>1, <2>1 DEF EffectsOnce
<1>11. EffectsAreTaken'
  <2> SUFFICES ASSUME NEW x \in Sources, NEW j \in 1 .. Len(effects[x])
               PROVE  \E u \in Transports :
                        /\ SourceOf[u] = x
                        /\ \/ effects[x][j] \in done'[u]
                           \/ pc'[u] = "ok" /\ current'[u] = effects[x][j]
    BY <1>1 DEF EffectsAreTaken
  <2>1. PICK u \in Transports :
          /\ SourceOf[u] = x
          /\ effects[x][j] \in done[u] \/ (pc[u] = "ok" /\ current[u] = effects[x][j])
    BY DEF EffectsAreTaken
  <2>2. CASE u = t
    BY <1>4, <2>1, <2>2 DEF n
  <2>3. CASE u # t
    BY <1>4, <2>1, <2>3, SourceFacts
  <2> QED BY <2>2, <2>3
<1>12. OkHasEffect'
  BY <1>1, <1>4, SourceFacts DEF OkHasEffect
<1>13. ReceivesWhatItWants'
  BY <1>0, <1>1, <1>4, SourceFacts DEF ReceivesWhatItWants
<1> QED BY <1>5, <1>6, <1>8, <1>9, <1>10, <1>11, <1>12, <1>13
-----------------------------------------------------------------------------
(***************************************************************************)
(* EventReceiver::recv.  A receiver shares its handle with nobody, so its  *)
(* steps concern no other consumer.                                        *)
(***************************************************************************)

\* What the transports and their sources show is not touched by a receiver.
LEMMA TransportsKept ==
  ASSUME Inv, NEW r \in Receivers,
         \A c \in Consumers : c # r => pc'[c] = pc[c] /\ done'[c] = done[c],
         \A s \in Sources : s # SourceOf[r] => cursor'[s] = cursor[s],
         pc'[r] \in {"idle", "recv"},
         UNCHANGED <<acked, current, effects>>
  PROVE  /\ PlacesAreKept' /\ Dealt' /\ WorkIsNew'
         /\ EffectsOnce' /\ EffectsAreTaken' /\ OkHasEffect'
<1> USE DEF Inv
<1>1. \A t \in Transports : /\ pc'[t] = pc[t] /\ done'[t] = done[t]
                            /\ cursor'[SourceOf[t]] = cursor[SourceOf[t]]
  BY SourceFacts
<1>2. \A t \in Transports : (Busy(t)' <=> Busy(t)) /\ Taken(t)' = Taken(t)
  BY <1>1 DEF Taken, Busy
<1>3. Dealt'
  BY <1>1, <1>2 DEF Dealt
<1>4. PlacesAreKept'
  BY <1>1, SourceFacts DEF PlacesAreKept
<1> QED BY <1>1, <1>2, <1>3, <1>4 DEF WorkIsNew, EffectsOnce, EffectsAreTaken, OkHasEffect

LEMMA RecvStep ==
  ASSUME Inv, NEW r \in Receivers, Recv(r) \/ RecvTimeout(r)
  PROVE  Inv'
<1> USE DEF Inv
<1>0. r \in Consumers
  BY SourceFacts
<1>1. /\ UNCHANGED <<log, messages, cursor, acked, current, done, effects>>
      /\ pc' = [pc EXCEPT ![r] = "recv"] \/ pc' = [pc EXCEPT ![r] = "idle"]
  BY DEF Recv, RecvTimeout
<1>2. pc \in [Consumers -> Places]
  BY DEF TypeOK
<1>3. /\ pc'[r] \in {"idle", "recv"}
      /\ \A c \in Consumers : c # r => pc'[c] = pc[c]
  BY <1>0, <1>1, <1>2
<1>4. TypeOK'
  <2>1. pc' \in [Consumers -> Places]
    BY <1>1, <1>2 DEF Places
  <2> QED BY <1>1, <2>1 DEF TypeOK, Stream
<1>5. ReceivesWhatItWants'
  BY <1>1 DEF ReceivesWhatItWants
<1> QED BY <1>1, <1>3, <1>4, <1>5, TransportsKept

LEMMA RecvPollStep ==
  ASSUME Inv, NEW r \in Receivers, RecvPoll(r)
  PROVE  Inv'
<1> USE DEF Inv
<1> DEFINE h == SourceOf[r]
           n == cursor[h] + 1
<1>0. r \in Consumers /\ h \in Sources /\ h \in Handles /\ h \notin Queues
  BY SourceFacts
<1>1. /\ pc[r] = "recv" /\ cursor[h] < Len(log)
      /\ cursor' = [cursor EXCEPT ![h] = n]
      /\ UNCHANGED <<log, messages, acked, current, effects>>
      /\ IF log[n] \in Wanted[r]
           THEN done' = [done EXCEPT ![r] = done[r] \cup {n}] /\ pc' = [pc EXCEPT ![r] = "idle"]
           ELSE done' = done /\ pc' = pc
  BY DEF RecvPoll
<1>2. /\ cursor \in [Sources -> Nat] /\ pc \in [Consumers -> Places]
      /\ done \in [Consumers -> SUBSET Nat] /\ log \in Seq(Types)
      /\ cursor[h] \in Nat /\ n \in Nat /\ Len(log) \in Nat
  BY <1>0 DEF TypeOK
<1>3. /\ cursor'[h] = n
      /\ \A s \in Sources : s # h => cursor'[s] = cursor[s]
      /\ \A c \in Consumers : c # r => pc'[c] = pc[c] /\ done'[c] = done[c]
      /\ pc'[r] \in {"idle", "recv"}
      /\ done'[r] = IF log[n] \in Wanted[r] THEN done[r] \cup {n} ELSE done[r]
  BY <1>0, <1>1, <1>2
<1>4. n <= Len(log) /\ 1 .. n = (1 .. cursor[h]) \cup {n}
  BY <1>1, <1>2
<1> HIDE DEF n, h
<1>5. TypeOK'
  <2>a. cursor' \in [Sources -> Nat]
    BY <1>1, <1>2
  <2>b. pc' \in [Consumers -> Places]
    BY <1>1, <1>2 DEF Places
  <2>1. cursor' \in [Sources -> Nat] /\ pc' \in [Consumers -> Places]
        /\ done' \in [Consumers -> SUBSET Nat]
    BY <1>1, <1>2, <2>a, <2>b
  <2>2. \A s \in Sources : cursor'[s] <= Len(Stream(s)')
    BY <1>0, <1>1, <1>3, <1>4 DEF TypeOK, Stream
  <2> QED BY <1>1, <2>1, <2>2 DEF TypeOK
<1>6. ReceivesWhatItWants'
  <2> SUFFICES ASSUME NEW q \in Receivers
               PROVE  done'[q] = {i \in 1 .. cursor'[SourceOf[q]] : log[i] \in Wanted[q]}
    BY <1>1 DEF ReceivesWhatItWants
  <2>1. CASE q = r
    <3>1. done[r] = {i \in 1 .. cursor[h] : log[i] \in Wanted[r]}
      BY DEF ReceivesWhatItWants, h
    <3>2. SourceOf[q] = h
      BY <2>1 DEF h
    <3> QED BY <1>3, <1>4, <2>1, <3>1, <3>2
  <2>2. CASE q # r
    <3>1. q \in Consumers /\ SourceOf[q] \in Sources /\ SourceOf[q] # h
      BY <2>2, SourceFacts DEF h
    <3> QED BY <1>3, <2>2, <3>1 DEF ReceivesWhatItWants
  <2> QED BY <2>1, <2>2
<1>7. PlacesAreKept' /\ Dealt' /\ WorkIsNew' /\ EffectsOnce' /\ EffectsAreTaken' /\ OkHasEffect'
  BY <1>1, <1>3, TransportsKept DEF h
<1> QED BY <1>5, <1>6, <1>7
-----------------------------------------------------------------------------
LEMMA InvStep ==
  ASSUME Inv, [Next]_vars
  PROVE  Inv'
<1>0. ASSUME UNCHANGED vars PROVE Inv'
  <2>1. TypeOK'
    BY <1>0 DEF vars, Inv, TypeOK, Stream
  <2>2. PlacesAreKept' /\ WorkIsNew'
    BY <1>0 DEF vars, Inv, PlacesAreKept, WorkIsNew, Busy
  <2>3. Dealt'
    BY <1>0 DEF vars, Inv, Dealt, Taken, Busy
  <2>4. EffectsOnce'
    BY <1>0 DEF vars, Inv, EffectsOnce
  <2>5. EffectsAreTaken' /\ OkHasEffect'
    BY <1>0 DEF vars, Inv, EffectsAreTaken, OkHasEffect
  <2>6. ReceivesWhatItWants'
    BY <1>0 DEF vars, Inv, ReceivesWhatItWants
  <2> QED BY <2>1, <2>2, <2>3, <2>4, <2>5, <2>6 DEF Inv
<1>1. CASE \E es \in Batches : Publish(es)
  BY <1>1, PublishStep
<1>2. CASE \E q \in Queues, e \in Types : Send(q, e)
  BY <1>2, SendStep
<1>3. CASE \E t \in Transports : TransportStep(t) \/ TimedOut(t) \/ Panic(t) \/ Stop(t)
  <2>1. PICK t \in Transports : TransportStep(t) \/ TimedOut(t) \/ Panic(t) \/ Stop(t)
    BY <1>3
  <2>2. CASE TimedOut(t)
    BY <1>0, <2>2 DEF TimedOut
  <2>3. CASE TransportStep(t)
    BY <2>3, TakeStep, DispatchOkStep, MoveStep, TurnStep DEF TransportStep
  <2>4. CASE Panic(t) \/ Stop(t)
    BY <2>4, MoveStep
  <2> QED BY <2>1, <2>2, <2>3, <2>4
<1>4. CASE \E r \in Receivers : Recv(r) \/ RecvPoll(r) \/ RecvTimeout(r)
  BY <1>4, RecvStep, RecvPollStep
<1> QED BY <1>0, <1>1, <1>2, <1>3, <1>4 DEF Next

\* The inductive invariant holds throughout: of the queue, the log and their
\* consumers in every number and arrangement that BusAssumption allows.
THEOREM BusInvariant == Spec => []BusInv
<1>1. Init => BusInv
  BY InvInit, InvIsBusInv
<1>2. BusInv /\ [Next]_vars => BusInv'
  BY InvStep, InvIsBusInv
<1> QED BY <1>1, <1>2, PTL DEF Spec

\* The variables keep their types and no cursor of a queue or a handle is ever
\* past the end of its stream, so that poll and listen never index beyond it.
THEOREM TypeCorrect == Spec => []TypeOK
<1>1. BusInv => TypeOK
  BY DEF BusInv
<1> QED BY <1>1, BusInvariant, PTL

\* Competing listeners, and subscribe threads that share a handle, deal the
\* events out among themselves: each event taken is with exactly one of them.
THEOREM EachEventOneConsumer == Spec => []ExactlyOneConsumer
<1>1. BusInv => ExactlyOneConsumer
  BY DEF BusInv
<1> QED BY <1>1, BusInvariant, PTL

\* A handler takes effect at most once per event and source, and what is
\* acknowledged has had its effect, whatever thread panics or is stopped.
THEOREM HandlersTakeEffectOnce == Spec => []EffectsOnce
<1>1. BusInv => EffectsOnce
  BY DEF BusInv
<1> QED BY <1>1, BusInvariant, PTL

\* recv returns every event of its types behind its position, each once and no
\* others, however often it times out.
THEOREM ReceiversMissNothing == Spec => []ReceivesWhatItWants
<1>1. BusInv => ReceivesWhatItWants
  BY DEF BusInv
<1> QED BY <1>1, BusInvariant, PTL
=============================================================================
