-------------------------- MODULE AggregateProofs --------------------------
(***************************************************************************)
(* What upcasting and replay compute, for every stream, every list of      *)
(* upcasters and every schema.  The loops of the code are recursive        *)
(* functions on the numbers of turns; that such a function exists and what *)
(* it is at every turn is shown by induction, in the form of a set of      *)
(* numbers that holds 0 and every successor.                               *)
(***************************************************************************)
EXTENDS Aggregate, FiniteSetTheorems, SequenceTheorems, WellFoundedInduction, TLAPS

LEMMA LeastNat ==
  ASSUME NEW T \in SUBSET Nat, T # {}
  PROVE  \E x \in T : \A y \in T : x <= y
<1>1. PICK x \in T : \A y \in T : ~ (<<y, x>> \in OpToRel(<, Nat))
  BY NatLessThanWellFounded, WFMin, Zenon
<1>2. \A y \in T : ~ (y < x)
  BY <1>1 DEF OpToRel
<1> QED BY <1>2

LEMMA Induction ==
  ASSUME NEW S \in SUBSET Nat, 0 \in S, \A n \in S : n + 1 \in S
  PROVE  S = Nat
<1>1. SUFFICES ASSUME Nat \ S # {} PROVE FALSE
  OBVIOUS
<1>2. PICK n \in Nat \ S : \A k \in Nat \ S : n <= k
  <2> DEFINE T == Nat \ S
  <2>1. T \in SUBSET Nat /\ T # {}
    BY <1>1
  <2> HIDE DEF T
  <2>2. \E x \in T : \A y \in T : x <= y
    BY <2>1, LeastNat
  <2> QED BY <2>2 DEF T
<1>3. n # 0 /\ n - 1 \in Nat
  OBVIOUS
<1>4. n - 1 \in S
  BY <1>2, <1>3
<1>5. (n - 1) + 1 \in S
  BY <1>4
<1> QED BY <1>3, <1>5
-----------------------------------------------------------------------------
(***************************************************************************)
(* Upcasting                                                               *)
(***************************************************************************)

\* Upcasters that lead to a later version.
Upward(us) == us \in Seq(UpcasterRecord)
              /\ \A i \in 1 .. Len(us) : us[i].to_version > us[i].from_version

\* m turns of the loop of upcast_one, with the event after each of them.
IsChain(f, tag, us, m) ==
  f = [n \in 0 .. m |-> IF n = 0 THEN tag ELSE UpcastStep(f[n - 1], us)]

LEMMA ChainExists == \A tag, us : \A m \in Nat : \E f : IsChain(f, tag, us, m)
<1> SUFFICES ASSUME NEW tag, NEW us PROVE \A m \in Nat : \E f : IsChain(f, tag, us, m)
  OBVIOUS
<1> DEFINE S == {m \in Nat : \E f : IsChain(f, tag, us, m)}
<1>1. 0 \in S
  <2> DEFINE f == [n \in 0 .. 0 |-> tag]
  <2>1. IsChain(f, tag, us, 0)
    BY DEF IsChain
  <2> QED BY <2>1
<1>2. ASSUME NEW m \in S PROVE m + 1 \in S
  <2>1. PICK f : IsChain(f, tag, us, m)
    OBVIOUS
  <2> DEFINE g == [n \in 0 .. m + 1 |-> IF n = m + 1 THEN UpcastStep(f[m], us) ELSE f[n]]
  <2>2. \A n \in 0 .. m : f[n] = IF n = 0 THEN tag ELSE UpcastStep(f[n - 1], us)
    BY <2>1 DEF IsChain
  <2>3. \A n \in 0 .. m + 1 : g[n] = IF n = 0 THEN tag ELSE UpcastStep(g[n - 1], us)
    <3> SUFFICES ASSUME NEW n \in 0 .. m + 1
                 PROVE  g[n] = IF n = 0 THEN tag ELSE UpcastStep(g[n - 1], us)
      OBVIOUS
    <3>1. CASE n = m + 1
      <4>1. g[n] = UpcastStep(f[m], us) /\ g[n - 1] = f[m] /\ n # 0
        BY <3>1
      <4> QED BY <4>1
    <3>2. CASE n # m + 1 /\ n # 0
      <4>1. g[n] = f[n] /\ g[n - 1] = f[n - 1] /\ n \in 0 .. m
        BY <3>2
      <4> QED BY <2>2, <3>2, <4>1
    <3>3. CASE n = 0
      <4>1. g[n] = f[0]
        BY <3>3
      <4> QED BY <2>2, <3>3, <4>1
    <3> QED BY <3>1, <3>2, <3>3
  <2>4. IsChain(g, tag, us, m + 1)
    <3> HIDE DEF g
    <3>1. g = [n \in 0 .. m + 1 |-> g[n]]
      BY DEF g
    <3> QED BY <2>3, <3>1 DEF IsChain
  <2> QED BY <2>4
<1>3. S = Nat
  <2> HIDE DEF S
  <2>1. S \in SUBSET Nat
    BY DEF S
  <2> QED BY <1>1, <1>2, <2>1, Induction
<1> QED BY <1>3

\* UpcastOne is the end of such a chain.
LEMMA UpcastOneChain ==
  ASSUME NEW tag, NEW us, Len(us) \in Nat
  PROVE  \E f : IsChain(f, tag, us, Len(us)) /\ UpcastOne(tag, us) = f[Len(us)]
<1> DEFINE c == CHOOSE f : IsChain(f, tag, us, Len(us))
<1>1. IsChain(c, tag, us, Len(us))
  BY ChainExists
<1>2. UpcastOne(tag, us) = c[Len(us)]
  BY DEF UpcastOne, IsChain
<1> QED BY <1>1, <1>2

\* Defaults are added at the end, and add up.
LEMMA DefaultsFacts ==
  ASSUME NEW f \in Payloads, NEW k \in Nat, NEW j \in Nat
  PROVE  /\ Defaults(k) \in Payloads /\ Len(Defaults(k)) = k
         /\ f \o Defaults(k) \in Payloads
         /\ Len(f \o Defaults(k)) = Len(f) + k
         /\ (f \o Defaults(k)) \o Defaults(j) = f \o Defaults(k + j)
<1>1. \A n \in Nat : /\ Defaults(n) \in Payloads /\ Len(Defaults(n)) = n
                     /\ \A i \in 1 .. n : Defaults(n)[i] = "default"
  BY DEF Defaults, Payloads
<1>2. \A n \in Nat, g \in Payloads :
        /\ g \o Defaults(n) \in Payloads /\ Len(g \o Defaults(n)) = Len(g) + n
        /\ \A i \in 1 .. Len(g) + n :
             (g \o Defaults(n))[i] = IF i <= Len(g) THEN g[i] ELSE "default"
  <2> SUFFICES ASSUME NEW n \in Nat, NEW g \in Payloads
               PROVE  /\ g \o Defaults(n) \in Payloads
                      /\ Len(g \o Defaults(n)) = Len(g) + n
                      /\ \A i \in 1 .. Len(g) + n :
                           (g \o Defaults(n))[i] = IF i <= Len(g) THEN g[i] ELSE "default"
    OBVIOUS
  <2> DEFINE d == Defaults(n)
  <2>1. d \in Payloads /\ Len(d) = n /\ \A i \in 1 .. n : d[i] = "default"
    BY <1>1
  <2> HIDE DEF d
  <2>2. /\ g \o d \in Payloads /\ Len(g \o d) = Len(g) + Len(d)
        /\ \A i \in 1 .. Len(g) + Len(d) :
             (g \o d)[i] = IF i <= Len(g) THEN g[i] ELSE d[i - Len(g)]
    BY <2>1, ConcatProperties DEF Payloads
  <2>3. Len(g) \in Nat
    BY DEF Payloads
  <2>4. ASSUME NEW i \in 1 .. Len(g) + n
        PROVE  (g \o d)[i] = IF i <= Len(g) THEN g[i] ELSE "default"
    BY <2>1, <2>2, <2>3
  <2> QED BY <2>1, <2>2, <2>4 DEF d
<1>3. (f \o Defaults(k)) \o Defaults(j) = f \o Defaults(k + j)
  <2> DEFINE h == f \o Defaults(k)
             a == h \o Defaults(j)
             b == f \o Defaults(k + j)
  <2>1. k + j \in Nat /\ Len(f) \in Nat
    BY DEF Payloads
  <2>2. /\ h \in Payloads /\ Len(h) = Len(f) + k
        /\ \A i \in 1 .. Len(f) + k : h[i] = IF i <= Len(f) THEN f[i] ELSE "default"
    BY <1>2
  <2>3. /\ b \in Payloads /\ Len(b) = Len(f) + (k + j)
        /\ \A i \in 1 .. Len(f) + (k + j) : b[i] = IF i <= Len(f) THEN f[i] ELSE "default"
    BY <1>2, <2>1
  <2> HIDE DEF h, b
  <2>4. /\ a \in Payloads /\ Len(a) = Len(h) + j
        /\ \A i \in 1 .. Len(h) + j : a[i] = IF i <= Len(h) THEN h[i] ELSE "default"
    BY <1>2, <2>2
  <2> HIDE DEF a
  <2>5. Len(a) = Len(b)
    BY <2>1, <2>2, <2>3, <2>4
  <2>6. ASSUME NEW i \in 1 .. Len(a) PROVE a[i] = b[i]
    BY <2>1, <2>2, <2>3, <2>4
  <2>7. a = b
    BY <2>3, <2>4, <2>5, <2>6, SeqEqual DEF Payloads
  <2> QED BY <2>7 DEF a, b, h
<1> QED BY <1>1, <1>2, <1>3

\* The upcaster that is used is one that matches.
LEMMA FirstMatchFacts ==
  ASSUME NEW tag, NEW us, Len(us) \in Nat,
         \E i \in 1 .. Len(us) : Applicable(us[i], tag)
  PROVE  FirstMatch(tag, us) \in 1 .. Len(us) /\ Applicable(us[FirstMatch(tag, us)], tag)
<1> DEFINE T == {i \in 1 .. Len(us) : Applicable(us[i], tag)}
<1>1. T \in SUBSET Nat /\ T # {}
  OBVIOUS
<1>2. PICK x \in T : \A y \in T : x <= y
  <2> HIDE DEF T
  <2> QED BY <1>1, LeastNat
<1>3. \E i \in 1 .. Len(us) :
        Applicable(us[i], tag) /\ \A j \in 1 .. i - 1 : ~ Applicable(us[j], tag)
  <2>1. \A j \in 1 .. x - 1 : ~ Applicable(us[j], tag)
    BY <1>2
  <2> QED BY <2>1
<1> QED BY <1>3 DEF FirstMatch

\* One turn: nothing happens, or the version grows and the payload with it.
LEMMA UpcastStepFacts ==
  ASSUME NEW us, Upward(us), NEW tag \in Tags
  PROVE  /\ UpcastStep(tag, us) \in Tags
         /\ UpcastStep(tag, us).name = tag.name
         /\ \E k \in Nat : /\ UpcastStep(tag, us).version = tag.version + k
                           /\ UpcastStep(tag, us).fields = tag.fields \o Defaults(k)
         /\ (\E i \in 1 .. Len(us) : Applicable(us[i], tag)) =>
              /\ UpcastStep(tag, us).version > tag.version
              /\ \E i \in 1 .. Len(us) : /\ Applicable(us[i], tag)
                                         /\ UpcastStep(tag, us).version = us[i].to_version
         /\ (\A i \in 1 .. Len(us) : ~ Applicable(us[i], tag)) => UpcastStep(tag, us) = tag
<1>1. CASE \A i \in 1 .. Len(us) : ~ Applicable(us[i], tag)
  <2>1. UpcastStep(tag, us) = tag
    BY <1>1 DEF UpcastStep
  <2>2. tag.fields \in Payloads /\ tag.version \in Nat
    BY DEF Tags
  <2>3. tag.fields = tag.fields \o Defaults(0)
    BY <2>2 DEF Payloads, Defaults
  <2>4. tag.version = tag.version + 0
    BY <2>2
  <2> QED BY <1>1, <2>1, <2>3, <2>4
<1>2. CASE \E i \in 1 .. Len(us) : Applicable(us[i], tag)
  <2>1. Len(us) \in Nat
    BY DEF Upward
  <2> DEFINE i == FirstMatch(tag, us)
             k == us[i].to_version - us[i].from_version
  <2>2. i \in 1 .. Len(us) /\ Applicable(us[i], tag)
    BY <1>2, <2>1, FirstMatchFacts
  <2>3. us[i] \in UpcasterRecord /\ us[i].to_version > us[i].from_version
    BY <2>2 DEF Upward
  <2>4. /\ us[i].to_version \in Nat /\ us[i].from_version \in Nat /\ k \in Nat /\ k > 0
        /\ us[i].from_version = tag.version
    BY <2>2, <2>3 DEF UpcasterRecord, Applicable
  <2>5. /\ tag.fields \in Payloads /\ tag.version \in Nat
        /\ tag = [name |-> tag.name, version |-> tag.version, fields |-> tag.fields]
    BY DEF Tags
  <2>6. tag.fields \o Defaults(k) \in Payloads
    <3> HIDE DEF k
    <3> QED BY <2>4, <2>5, DefaultsFacts
  <2>7. UpcastStep(tag, us) = [name |-> tag.name, version |-> us[i].to_version,
                               fields |-> tag.fields \o Defaults(k)]
    BY <1>2, <2>5 DEF UpcastStep
  <2>8. us[i].to_version = tag.version + k
    BY <2>4
  <2>9. UpcastStep(tag, us) \in Tags
    BY <2>4, <2>6, <2>7 DEF Tags
  <2> HIDE DEF k, i
  <2>10. /\ UpcastStep(tag, us).name = tag.name
         /\ UpcastStep(tag, us).version = us[i].to_version
         /\ UpcastStep(tag, us).fields = tag.fields \o Defaults(k)
    BY <2>7
  <2>11. us[i].to_version > tag.version
    BY <2>4, <2>5, <2>8
  <2> QED BY <1>2, <2>2, <2>4, <2>8, <2>9, <2>10, <2>11
<1> QED BY <1>1, <1>2

LEMMA ChainSteps ==
  ASSUME NEW f, NEW tag, NEW us, NEW m \in Nat, IsChain(f, tag, us, m)
  PROVE  f[0] = tag /\ \A n \in 0 .. m - 1 : f[n + 1] = UpcastStep(f[n], us)
<1>1. \A n \in 0 .. m : f[n] = IF n = 0 THEN tag ELSE UpcastStep(f[n - 1], us)
  BY DEF IsChain
<1>2. f[0] = tag
  BY <1>1
<1>3. ASSUME NEW n \in 0 .. m - 1 PROVE f[n + 1] = UpcastStep(f[n], us)
  <2>1. n + 1 \in 0 .. m /\ n + 1 # 0 /\ (n + 1) - 1 = n
    OBVIOUS
  <2> QED BY <1>1, <2>1
<1> QED BY <1>2, <1>3

\* Along the chain the name stays, and defaults are all the payload gains.
LEMMA ChainFacts ==
  ASSUME NEW us, Upward(us), NEW tag \in Tags, NEW m \in Nat,
         NEW f, IsChain(f, tag, us, m)
  PROVE  \A n \in 0 .. m :
           /\ f[n] \in Tags /\ f[n].name = tag.name
           /\ \E k \in Nat : /\ f[n].version = tag.version + k
                             /\ f[n].fields = tag.fields \o Defaults(k)
<1> DEFINE P(n) == /\ f[n] \in Tags /\ f[n].name = tag.name
                   /\ \E k \in Nat : /\ f[n].version = tag.version + k
                                     /\ f[n].fields = tag.fields \o Defaults(k)
           S == {n \in Nat : n <= m => P(n)}
<1>0. f[0] = tag /\ \A n \in 0 .. m - 1 : f[n + 1] = UpcastStep(f[n], us)
  BY ChainSteps
<1>1. tag.fields \in Payloads /\ tag.version \in Nat
  BY DEF Tags
<1>2. 0 \in S
  <2>1. tag.fields = tag.fields \o Defaults(0)
    BY <1>1 DEF Payloads, Defaults
  <2>2. tag.version = tag.version + 0
    BY <1>1
  <2> QED BY <1>0, <2>1, <2>2
<1>3. ASSUME NEW n \in S PROVE n + 1 \in S
  <2> SUFFICES ASSUME n + 1 <= m PROVE P(n + 1)
    OBVIOUS
  <2>0. n \in Nat /\ (n <= m => P(n))
    OBVIOUS
  <2> HIDE DEF P, S
  <2>1. n \in 0 .. m - 1 /\ P(n)
    BY <2>0
  <2>2. f[n + 1] = UpcastStep(f[n], us)
    BY <1>0, <2>1
  <2>3. PICK k \in Nat : f[n].version = tag.version + k /\ f[n].fields = tag.fields \o Defaults(k)
    BY <2>1 DEF P
  <2>4. PICK j \in Nat : /\ f[n + 1].version = f[n].version + j
                         /\ f[n + 1].fields = f[n].fields \o Defaults(j)
    <3>1. f[n] \in Tags
      BY <2>1 DEF P
    <3>2. \E j \in Nat : /\ UpcastStep(f[n], us).version = f[n].version + j
                         /\ UpcastStep(f[n], us).fields = f[n].fields \o Defaults(j)
      BY <3>1, UpcastStepFacts
    <3> QED BY <2>2, <3>2, Zenon
  <2>5. f[n + 1] \in Tags /\ f[n + 1].name = tag.name
    BY <2>1, <2>2, UpcastStepFacts DEF P
  <2>6. f[n + 1].version = tag.version + (k + j)
    BY <1>1, <2>3, <2>4
  <2>7. f[n + 1].fields = tag.fields \o Defaults(k + j)
    <3>1. (tag.fields \o Defaults(k)) \o Defaults(j) = tag.fields \o Defaults(k + j)
      BY <1>1, DefaultsFacts
    <3> QED BY <2>3, <2>4, <3>1
  <2>8. k + j \in Nat
    OBVIOUS
  <2> QED BY <2>5, <2>6, <2>7, <2>8 DEF P
<1>4. S = Nat
  <2>1. S \in SUBSET Nat
    OBVIOUS
  <2> HIDE DEF S
  <2> QED BY <1>2, <1>3, <2>1, Induction
<1>5. ASSUME NEW n \in 0 .. m PROVE P(n)
  <2>1. n \in S
    BY <1>4
  <2> QED BY <2>1
<1> QED BY <1>5

\* What upcast_one makes of an event.
LEMMA UpcastOneFacts ==
  ASSUME NEW us, Upward(us), NEW tag \in Tags
  PROVE  /\ UpcastOne(tag, us) \in Tags /\ UpcastOne(tag, us).name = tag.name
         /\ \E k \in Nat : /\ UpcastOne(tag, us).version = tag.version + k
                           /\ UpcastOne(tag, us).fields = tag.fields \o Defaults(k)
<1>1. Len(us) \in Nat
  BY DEF Upward
<1>2. PICK f : IsChain(f, tag, us, Len(us)) /\ UpcastOne(tag, us) = f[Len(us)]
  BY <1>1, UpcastOneChain
<1>3. Len(us) \in 0 .. Len(us)
  BY <1>1
<1> QED BY <1>1, <1>2, <1>3, ChainFacts

\* While upcasters match, the version grows with every turn.
LEMMA ChainGrows ==
  ASSUME NEW us, Upward(us), NEW tag \in Tags, NEW m \in Nat,
         NEW f, IsChain(f, tag, us, m),
         \A n \in 0 .. m : \E i \in 1 .. Len(us) : Applicable(us[i], f[n])
  PROVE  \A n \in 0 .. m : \A k \in 0 .. m : k < n => f[k].version < f[n].version
<1> DEFINE P(n) == \A k \in 0 .. m : k < n => f[k].version < f[n].version
           S == {n \in Nat : n <= m => P(n)}
<1>0. \A n \in 0 .. m - 1 : f[n + 1] = UpcastStep(f[n], us)
  BY ChainSteps
<1>1. \A n \in 0 .. m : f[n] \in Tags /\ f[n].version \in Nat
  BY ChainFacts DEF Tags
<1>2. 0 \in S
  OBVIOUS
<1>3. ASSUME NEW n \in S PROVE n + 1 \in S
  <2> SUFFICES ASSUME n + 1 <= m, NEW k \in 0 .. m, k < n + 1
               PROVE  f[k].version < f[n + 1].version
    OBVIOUS
  <2>1. n \in 0 .. m - 1 /\ n \in 0 .. m /\ n + 1 \in 0 .. m /\ P(n)
    OBVIOUS
  <2>2. f[n].version < f[n + 1].version
    BY <1>0, <1>1, <2>1, UpcastStepFacts
  <2>3. k = n \/ f[k].version < f[n].version
    BY <2>1
  <2> QED BY <1>1, <2>1, <2>2, <2>3
<1>4. S = Nat
  <2>1. S \in SUBSET Nat
    OBVIOUS
  <2> HIDE DEF S
  <2> QED BY <1>2, <1>3, <2>1, Induction
<1>5. ASSUME NEW n \in 0 .. m PROVE P(n)
  <2>1. n \in S
    BY <1>4
  <2> QED BY <2>1
<1> QED BY <1>5

\* Once no upcaster matches, nothing changes any more.
LEMMA ChainStops ==
  ASSUME NEW us, Upward(us), NEW tag \in Tags, NEW m \in Nat,
         NEW f, IsChain(f, tag, us, m), NEW j \in 0 .. m,
         \A i \in 1 .. Len(us) : ~ Applicable(us[i], f[j])
  PROVE  f[m] = f[j]
<1> DEFINE S == {n \in Nat : j + n <= m => f[j + n] = f[j]}
<1>0. \A n \in 0 .. m - 1 : f[n + 1] = UpcastStep(f[n], us)
  BY ChainSteps
<1>1. f[j] \in Tags
  BY ChainFacts
<1>2. UpcastStep(f[j], us) = f[j]
  BY <1>1, UpcastStepFacts
<1>3. 0 \in S
  OBVIOUS
<1>4. ASSUME NEW n \in S PROVE n + 1 \in S
  <2> SUFFICES ASSUME j + (n + 1) <= m PROVE f[j + (n + 1)] = f[j]
    OBVIOUS
  <2>1. j + n \in 0 .. m - 1 /\ f[j + n] = f[j] /\ j + (n + 1) = (j + n) + 1
    OBVIOUS
  <2>2. f[(j + n) + 1] = UpcastStep(f[j + n], us)
    BY <1>0, <2>1
  <2> QED BY <1>2, <2>1, <2>2
<1>5. S = Nat
  <2>1. S \in SUBSET Nat
    OBVIOUS
  <2> HIDE DEF S
  <2> QED BY <1>3, <1>4, <2>1, Induction
<1>6. m - j \in S
  <2>1. m - j \in Nat
    OBVIOUS
  <2> HIDE DEF S
  <2> QED BY <1>5, <2>1
<1>7. j + (m - j) = m
  OBVIOUS
<1> QED BY <1>6, <1>7

\* upcast_one runs until nothing matches.  The model gives the loop one turn for
\* every upcaster: these are enough, because a turn that matches uses an upcaster
\* of a later version than all turns before it.
THEOREM UpcastingEnds ==
  ASSUME NEW us, Upward(us), NEW tag \in Tags
  PROVE  \A i \in 1 .. Len(us) : ~ Applicable(us[i], UpcastOne(tag, us))
<1> DEFINE m == Len(us)
<1>1. m \in Nat
  BY DEF Upward
<1>2. PICK f : IsChain(f, tag, us, m) /\ UpcastOne(tag, us) = f[m]
  BY <1>1, UpcastOneChain
<1>3. ASSUME \A n \in 0 .. m : \E i \in 1 .. m : Applicable(us[i], f[n]) PROVE FALSE
  <2> DEFINE g == [n \in 0 .. m |-> CHOOSE i \in 1 .. m : Applicable(us[i], f[n])]
  <2>1. \A n \in 0 .. m : g[n] \in 1 .. m /\ Applicable(us[g[n]], f[n])
    BY <1>3
  <2>2. g \in [0 .. m -> 1 .. m]
    BY <2>1
  <2>3. /\ IsFiniteSet(0 .. m) /\ Cardinality(0 .. m) = m + 1
        /\ IsFiniteSet(1 .. m) /\ Cardinality(1 .. m) = m
    <3> HIDE DEF m
    <3>1. \A a, b \in Int : /\ IsFiniteSet(a .. b)
                            /\ Cardinality(a .. b) = IF a > b THEN 0 ELSE b - a + 1
      BY FS_Interval
    <3>2. 0 \in Int /\ 1 \in Int /\ m \in Int /\ m - 0 + 1 = m + 1 /\ ~ (0 > m)
      BY <1>1
    <3>3. Cardinality(1 .. m) = IF 1 > m THEN 0 ELSE m - 1 + 1
      BY <3>1, <3>2
    <3>4. Cardinality(1 .. m) = m
      BY <1>1, <3>3
    <3> QED BY <3>1, <3>2, <3>4
  <2> HIDE DEF g
  <2>4. PICK x, y \in 0 .. m : x # y /\ g[x] = g[y]
    BY <1>1, <2>2, <2>3, FS_PigeonHole
  <2>5. f[x].version = f[y].version
    BY <2>1, <2>4 DEF Applicable
  <2>6. f[x].version \in Nat /\ f[y].version \in Nat
    BY <1>1, <1>2, ChainFacts DEF Tags
  <2>7. \A n \in 0 .. m : \A k \in 0 .. m : k < n => f[k].version < f[n].version
    BY <1>1, <1>2, <1>3, ChainGrows
  <2> QED BY <1>1, <2>4, <2>5, <2>6, <2>7
<1>4. PICK j \in 0 .. m : \A i \in 1 .. m : ~ Applicable(us[i], f[j])
  BY <1>3
<1>5. f[m] = f[j]
  BY <1>1, <1>2, <1>4, ChainStops
<1> QED BY <1>2, <1>4, <1>5

\* An event that decodes after upcasting has its meaning for the schema.
LEMMA DecodedEffect ==
  ASSUME NEW us, Upward(us), NEW tag \in Tags, NEW s \in Nat,
         Decodes(UpcastOne(tag, us), s)
  PROVE  /\ UpcastOne(tag, us).name = tag.name
         /\ [name |-> UpcastOne(tag, us).name, fields |-> UpcastOne(tag, us).fields]
              = Effect(tag, s)
<1>1. PICK k \in Nat : UpcastOne(tag, us).fields = tag.fields \o Defaults(k)
  BY UpcastOneFacts
<1>2. UpcastOne(tag, us).name = tag.name
  BY UpcastOneFacts
<1>3. tag.fields \in Payloads /\ Len(tag.fields) \in Nat
  BY DEF Tags, Payloads
<1>4. Len(tag.fields) + k = Width(tag.name, s)
  BY <1>1, <1>2, <1>3, DefaultsFacts DEF Decodes
<1>5. Width(tag.name, s) - Len(tag.fields) = k
  BY <1>3, <1>4
<1> QED BY <1>1, <1>2, <1>5 DEF Effect

LEMMA EffectType ==
  ASSUME NEW tag \in Tags, NEW s \in Nat
  PROVE  Effect(tag, s) \in Effects
<1>1. tag.name \in Names /\ tag.fields \in Payloads /\ Len(tag.fields) \in Nat
  BY DEF Tags, Payloads
<1> DEFINE k == Width(tag.name, s) - Len(tag.fields)
<1>2. k \in Int
  BY <1>1 DEF Width
<1>3. Defaults(k) \in Payloads
  <2>1. CASE k >= 0
    BY <1>2, <2>1 DEF Defaults, Payloads
  <2>2. CASE k < 0
    <3>1. 1 .. k = {}
      BY <1>2, <2>2
    <3> HIDE DEF k
    <3>2. Defaults(k) = << >>
      BY <3>1 DEF Defaults
    <3> QED BY <3>2 DEF Payloads
  <2> QED BY <1>2, <2>1, <2>2
<1> HIDE DEF k
<1>4. tag.fields \o Defaults(k) \in Payloads
  BY <1>1, <1>3, ConcatProperties DEF Payloads
<1> QED BY <1>1, <1>4 DEF Effect, Effects, k

\* A chain stays within the versions that its upcasters lead to.
LEMMA ChainBounded ==
  ASSUME NEW us, Upward(us), NEW tag \in Tags, NEW m \in Nat, NEW s \in Nat,
         NEW f, IsChain(f, tag, us, m), tag.version <= s,
         \A i \in 1 .. Len(us) : us[i].to_version <= s
  PROVE  \A n \in 0 .. m : f[n].version <= s
<1> DEFINE S == {n \in Nat : n <= m => f[n].version <= s}
<1>0. f[0] = tag /\ \A n \in 0 .. m - 1 : f[n + 1] = UpcastStep(f[n], us)
  BY ChainSteps
<1>1. \A n \in 0 .. m : f[n] \in Tags
  BY ChainFacts
<1>2. 0 \in S
  BY <1>0
<1>3. ASSUME NEW n \in S PROVE n + 1 \in S
  <2> SUFFICES ASSUME n + 1 <= m PROVE f[n + 1].version <= s
    OBVIOUS
  <2>1. n \in 0 .. m - 1 /\ n \in 0 .. m /\ f[n].version <= s
    OBVIOUS
  <2>2. f[n] \in Tags /\ f[n + 1] = UpcastStep(f[n], us)
    BY <1>0, <1>1, <2>1
  <2>3. CASE \E i \in 1 .. Len(us) : Applicable(us[i], f[n])
    BY <2>2, <2>3, UpcastStepFacts
  <2>4. CASE \A i \in 1 .. Len(us) : ~ Applicable(us[i], f[n])
    BY <2>1, <2>2, <2>4, UpcastStepFacts
  <2> QED BY <2>3, <2>4
<1>4. S = Nat
  <2>1. S \in SUBSET Nat
    OBVIOUS
  <2> HIDE DEF S
  <2> QED BY <1>2, <1>3, <2>1, Induction
<1>5. ASSUME NEW n \in 0 .. m PROVE f[n].version <= s
  <2>1. n \in S
    BY <1>4
  <2> QED BY <2>1
<1> QED BY <1>5

\* Upcasters that lead from every earlier version to that of the schema, and no
\* further, make every event that an earlier schema recorded decode.
THEOREM UpcastingReaches ==
  ASSUME NEW us, Upward(us), NEW s \in Nat \ {0}, NEW tag \in Tags,
         \A v \in 1 .. s - 1 : \E i \in 1 .. Len(us) :
           us[i].event_type = "Initialized" /\ us[i].from_version = v,
         \A i \in 1 .. Len(us) : us[i].event_type # "Completed" /\ us[i].to_version <= s,
         \E r \in 1 .. s : /\ tag.version = VersionOf(tag.name, r)
                           /\ Len(tag.fields) = Width(tag.name, r)
  PROVE  Decodes(UpcastOne(tag, us), s)
<1> DEFINE m == Len(us)
<1>1. m \in Nat
  BY DEF Upward
<1>2. PICK f : IsChain(f, tag, us, m) /\ UpcastOne(tag, us) = f[m]
  BY <1>1, UpcastOneChain
<1>3. tag.name \in {"Initialized", "Completed"}
  BY DEF Tags, Names
<1>4. CASE tag.name = "Completed"
  <2>1. f[0] = tag
    BY <1>1, <1>2, ChainSteps
  <2>2. \A i \in 1 .. Len(us) : ~ Applicable(us[i], f[0])
    BY <1>4, <2>1 DEF Applicable
  <2>3. 0 \in 0 .. m
    BY <1>1
  <2>4. f[m] = f[0]
    BY <1>1, <1>2, <2>2, <2>3, ChainStops
  <2>5. Len(tag.fields) = 0
    BY <1>4 DEF Width
  <2> QED BY <1>2, <1>4, <2>1, <2>4, <2>5 DEF Decodes, Width, Names
<1>5. CASE tag.name = "Initialized"
  <2>1. /\ tag.version \in 1 .. s /\ Len(tag.fields) = tag.version
        /\ tag.fields \in Payloads
    BY <1>5 DEF VersionOf, Width, Tags
  <2>2. UpcastOne(tag, us).name = "Initialized"
    BY <1>5, UpcastOneFacts
  <2>3. PICK k \in Nat : /\ UpcastOne(tag, us).version = tag.version + k
                         /\ UpcastOne(tag, us).fields = tag.fields \o Defaults(k)
    BY UpcastOneFacts
  <2>4. tag.version + k <= s
    <3>1. tag.version <= s /\ m \in 0 .. m /\ s \in Nat
      BY <1>1, <2>1
    <3>2. f[m].version <= s
      BY <1>1, <1>2, <3>1, ChainBounded
    <3> QED BY <1>2, <2>3, <3>2
  <2>5. ~ (tag.version + k \in 1 .. s - 1)
    <3> SUFFICES ASSUME tag.version + k \in 1 .. s - 1 PROVE FALSE
      OBVIOUS
    <3>1. PICK i \in 1 .. Len(us) :
            us[i].event_type = "Initialized" /\ us[i].from_version = tag.version + k
      OBVIOUS
    <3>2. Applicable(us[i], UpcastOne(tag, us))
      BY <2>2, <2>3, <3>1 DEF Applicable
    <3> QED BY <3>2, UpcastingEnds
  <2>6. tag.version + k = s
    BY <2>1, <2>4, <2>5
  <2>7. Len(UpcastOne(tag, us).fields) = Len(tag.fields) + k
    BY <2>1, <2>3, DefaultsFacts
  <2> QED BY <2>1, <2>2, <2>6, <2>7 DEF Decodes, Width, Names
<1> QED BY <1>3, <1>4, <1>5
-----------------------------------------------------------------------------
(***************************************************************************)
(* Replay                                                                  *)
(***************************************************************************)

\* set_replaying(true) and set_replaying(false) around the loop.
Started(a) == [a EXCEPT !.entity.replaying = TRUE]
Ended(a) == [a EXCEPT !.entity.replaying = FALSE]

\* m turns of the replay loop, with the aggregate after each of them.
IsReplay(f, a, events, us, m) ==
  f = [n \in 0 .. m |->
         IF n = 0 THEN Started(a)
                  ELSE ReplayEvent(f[n - 1], UpcastOne(events[n].tag, us))]

LEMMA ReplayExists ==
  \A a, events, us : \A m \in Nat : \E f : IsReplay(f, a, events, us, m)
<1> SUFFICES ASSUME NEW a, NEW events, NEW us
             PROVE  \A m \in Nat : \E f : IsReplay(f, a, events, us, m)
  OBVIOUS
<1> DEFINE x == Started(a)
           G(n, b) == ReplayEvent(b, UpcastOne(events[n].tag, us))
           Is(f, m) == f = [n \in 0 .. m |-> IF n = 0 THEN x ELSE G(n, f[n - 1])]
           S == {m \in Nat : \E f : Is(f, m)}
<1> HIDE DEF x, G
<1>1. 0 \in S
  <2> DEFINE f == [n \in 0 .. 0 |-> x]
  <2>1. Is(f, 0)
    OBVIOUS
  <2> QED BY <2>1
<1>2. ASSUME NEW m \in S PROVE m + 1 \in S
  <2>1. PICK f : Is(f, m)
    <3> HIDE DEF Is
    <3> QED OBVIOUS
  <2> DEFINE g == [n \in 0 .. m + 1 |-> IF n = m + 1 THEN G(n, f[m]) ELSE f[n]]
  <2>2. \A n \in 0 .. m : f[n] = IF n = 0 THEN x ELSE G(n, f[n - 1])
    BY <2>1
  <2>3. \A n \in 0 .. m + 1 : g[n] = IF n = 0 THEN x ELSE G(n, g[n - 1])
    <3> SUFFICES ASSUME NEW n \in 0 .. m + 1
                 PROVE  g[n] = IF n = 0 THEN x ELSE G(n, g[n - 1])
      OBVIOUS
    <3>1. CASE n = m + 1
      <4>1. g[n] = G(n, f[m]) /\ g[n - 1] = f[m] /\ n # 0
        BY <3>1
      <4> QED BY <4>1
    <3>2. CASE n # m + 1 /\ n # 0
      <4>1. g[n] = f[n] /\ g[n - 1] = f[n - 1] /\ n \in 0 .. m
        BY <3>2
      <4> QED BY <2>2, <3>2, <4>1
    <3>3. CASE n = 0
      <4>1. g[n] = f[0]
        BY <3>3
      <4> QED BY <2>2, <3>3, <4>1
    <3> QED BY <3>1, <3>2, <3>3
  <2>4. Is(g, m + 1)
    <3> HIDE DEF g
    <3>1. g = [n \in 0 .. m + 1 |-> g[n]]
      BY DEF g
    <3> QED BY <2>3, <3>1
  <2> HIDE DEF Is, g
  <2> QED BY <2>4
<1>3. S = Nat
  <2>1. S \in SUBSET Nat
    OBVIOUS
  <2> HIDE DEF S
  <2> QED BY <1>1, <1>2, <2>1, Induction
<1>4. ASSUME NEW m \in Nat PROVE \E f : IsReplay(f, a, events, us, m)
  <2>1. \A f : Is(f, m) <=> IsReplay(f, a, events, us, m)
    BY Zenon DEF IsReplay, x, G
  <2> HIDE DEF Is
  <2>2. \E f : Is(f, m)
    BY <1>3
  <2> QED BY <2>1, <2>2, Zenon
<1> QED BY <1>4

LEMMA ReplayEnd ==
  ASSUME NEW a, NEW events, NEW us, Len(events) \in Nat
  PROVE  \E f : /\ IsReplay(f, a, events, us, Len(events))
                /\ Replay(a, events, us) = Ended(f[Len(events)])
<1> DEFINE c == CHOOSE f : IsReplay(f, a, events, us, Len(events))
<1>1. IsReplay(c, a, events, us, Len(events))
  BY ReplayExists
<1>2. Replay(a, events, us) = Ended(c[Len(events)])
  BY DEF Replay, IsReplay, Started, Ended
<1> QED BY <1>1, <1>2

LEMMA ExceptTwice ==
  ASSUME NEW a, NEW x, NEW y
  PROVE  [a EXCEPT !.entity = x, !.state = y] = [[a EXCEPT !.entity = x] EXCEPT !.state = y]
  OBVIOUS

\* An entity with its flag set; an aggregate by its fields.
SetReplaying(x, b) == [x EXCEPT !.replaying = b]
Agg(x, st, q, w) == [entity |-> x, state |-> st, queued |-> q, snapshot_version |-> w]

LEMMA ReplayingSet ==
  ASSUME NEW x, NEW st, NEW q, NEW w
  PROVE  /\ Started(Agg(x, st, q, w)) = Agg(SetReplaying(x, TRUE), st, q, w)
         /\ Ended(Agg(x, st, q, w)) = Agg(SetReplaying(x, FALSE), st, q, w)
<1>1. \A a, b : [a EXCEPT !.entity.replaying = b]
             = [a EXCEPT !.entity = [a.entity EXCEPT !.replaying = b]]
  OBVIOUS
<1>2. \A y : [Agg(x, st, q, w) EXCEPT !.entity = y] = Agg(y, st, q, w)
  BY DEF Agg
<1>3. Agg(x, st, q, w).entity = x
  BY DEF Agg
<1>4. \A b : [Agg(x, st, q, w) EXCEPT !.entity.replaying = b]
              = [Agg(x, st, q, w) EXCEPT !.entity = [x EXCEPT !.replaying = b]]
  BY <1>1, <1>3
<1> QED BY <1>2, <1>4 DEF Started, Ended, SetReplaying

\* A method that is called by a replay records and queues nothing: its body
\* runs if its guard allows it, and that is all.
LEMMA CallWhileReplaying ==
  ASSUME NEW e, e.replaying, NEW st, NEW q, NEW w, NEW name, NEW version, NEW fields,
         Guard(name, st)
  PROVE  Call(Agg(e, st, q, w), name, version, fields)
         = Agg(e, Append(st, [name |-> name, fields |-> fields]), q, w)
<1> DEFINE a == Agg(e, st, q, w)
           y == Append(st, [name |-> name, fields |-> fields])
           d == Digest(e, [name |-> name, version |-> version, fields |-> fields])
<1>1. a.entity = e /\ a.state = st
  BY DEF Agg
<1>2. Enqueue(a, name) = a
  BY <1>1 DEF Enqueue
<1>3. d = e
  BY DEF Digest
<1>4. DigestAndRun(a, name, version, fields) = [a EXCEPT !.entity = d, !.state = y]
  <2> HIDE DEF a
  <2> QED BY <1>1 DEF DigestAndRun
<1> HIDE DEF y, d
<1>5. [a EXCEPT !.entity = d, !.state = y] = [[a EXCEPT !.entity = d] EXCEPT !.state = y]
  BY ExceptTwice
<1>6. [a EXCEPT !.entity = d] = Agg(d, st, q, w)
  BY DEF Agg
<1>7. [Agg(d, st, q, w) EXCEPT !.state = y] = Agg(d, y, q, w)
  BY DEF Agg
<1>8. Call(a, name, version, fields) = Agg(e, y, q, w)
  BY <1>1, <1>2, <1>3, <1>4, <1>5, <1>6, <1>7 DEF Call
<1> QED BY <1>8 DEF y

\* The meaning of the first n events.
MeaningUpTo(all, n, s) == [i \in 1 .. n |-> Effect(all[i].tag, s)]

LEMMA MeaningGrows ==
  ASSUME NEW all, NEW s, NEW n \in Nat
  PROVE  /\ Len(MeaningUpTo(all, n, s)) = n
         /\ Append(MeaningUpTo(all, n, s), Effect(all[n + 1].tag, s))
              = MeaningUpTo(all, n + 1, s)
<1> DEFINE E(i) == Effect(all[i].tag, s)
           a == [i \in 1 .. n |-> E(i)]
           b == [i \in 1 .. n + 1 |-> E(i)]
           T == {E(i) : i \in 1 .. n + 1}
<1> HIDE DEF E
<1>1. a \in Seq(T) /\ Len(a) = n /\ b \in Seq(T) /\ Len(b) = n + 1
  OBVIOUS
<1>2. E(n + 1) \in T
  OBVIOUS
<1>3. /\ \A i \in 1 .. n : a[i] = E(i)
      /\ \A i \in 1 .. n + 1 : b[i] = E(i)
  OBVIOUS
<1> HIDE DEF a, b, T
<1>4. /\ Append(a, E(n + 1)) \in Seq(T) /\ Len(Append(a, E(n + 1))) = n + 1
      /\ \A i \in 1 .. n : Append(a, E(n + 1))[i] = a[i]
      /\ Append(a, E(n + 1))[n + 1] = E(n + 1)
  BY <1>1, <1>2, AppendProperties
<1>5. ASSUME NEW i \in 1 .. n + 1 PROVE Append(a, E(n + 1))[i] = b[i]
  BY <1>3, <1>4
<1>6. Append(a, E(n + 1)) = b
  BY <1>1, <1>4, <1>5, SeqEqual
<1> QED BY <1>1, <1>6 DEF MeaningUpTo, E, a, b

\* Replay of the events from v + 1 on, on an aggregate whose state is what the
\* first v mean: the state is what they all mean and nothing else has changed.
LEMMA ReplayFacts ==
  ASSUME NEW us, Upward(us), NEW s \in Nat,
         NEW all \in Seq(EventRecord(Tags)), CompletedOnce(all), NEW v \in 0 .. Len(all),
         NEW events, Len(events) = Len(all) - v,
         \A i \in 1 .. Len(events) : events[i] = all[v + i],
         Replays(events, us, s),
         NEW e \in EntityRecord(Tags), ~ e.replaying, NEW q, NEW w
  PROVE  Replay(Agg(e, MeaningUpTo(all, v, s), q, w), events, us)
         = Agg(e, Meaning(all, s), q, w)
<1> DEFINE er == SetReplaying(e, TRUE)
           A(x, n) == Agg(x, MeaningUpTo(all, v + n, s), q, w)
           m == Len(events)
           start == Agg(e, MeaningUpTo(all, v, s), q, w)
<1>1. Len(all) \in Nat /\ m \in Nat /\ v \in Nat
  OBVIOUS
<1>2. PICK f : /\ IsReplay(f, start, events, us, m)
               /\ Replay(start, events, us) = Ended(f[m])
  <2> HIDE DEF start
  <2> QED BY <1>1, ReplayEnd, Zenon
<1>3. er.replaying = TRUE /\ SetReplaying(er, FALSE) = e
  BY DEF EntityRecord, SetReplaying
<1>4. /\ f[0] = Started(start)
      /\ \A n \in 0 .. m - 1 : f[n + 1] = ReplayEvent(f[n], UpcastOne(events[n + 1].tag, us))
  <2>1. \A n \in 0 .. m :
          f[n] = IF n = 0 THEN Started(start)
                 ELSE ReplayEvent(f[n - 1], UpcastOne(events[n].tag, us))
    <3> HIDE DEF start, m
    <3> QED BY <1>2 DEF IsReplay
  <2>2. ASSUME NEW n \in 0 .. m - 1
        PROVE  f[n + 1] = ReplayEvent(f[n], UpcastOne(events[n + 1].tag, us))
    <3>1. n + 1 \in 0 .. m /\ n + 1 # 0 /\ (n + 1) - 1 = n
      BY <1>1
    <3> HIDE DEF start
    <3> QED BY <2>1, <3>1
  <2>3. 0 \in 0 .. m
    BY <1>1
  <2> HIDE DEF start, m
  <2> QED BY <2>1, <2>2, <2>3
<1> DEFINE P(n) == f[n] = A(er, n)
           S == {n \in Nat : n <= m => P(n)}
<1>a. S \in SUBSET Nat /\ \A n \in Nat : n \in S <=> (n <= m => P(n))
  <2> HIDE DEF P, m
  <2> QED OBVIOUS
<1> HIDE DEF S
<1>5. 0 \in S
  <2>1. v + 0 = v
    BY <1>1
  <2>2. Started(start) = Agg(er, MeaningUpTo(all, v, s), q, w)
    BY ReplayingSet
  <2>3. P(0)
    BY <1>4, <2>1, <2>2
  <2> QED BY <1>a, <2>3
<1>6. ASSUME NEW n \in S PROVE n + 1 \in S
  <2>0. n \in Nat /\ n + 1 \in Nat
    BY <1>a
  <2> SUFFICES ASSUME n + 1 <= m PROVE P(n + 1)
    <3> HIDE DEF P, m
    <3> QED BY <1>a, <2>0
  <2>1. n \in 0 .. m - 1 /\ f[n] = A(er, n)
    <3>1. n \in 0 .. m - 1 /\ P(n)
      <4> HIDE DEF P, m
      <4> QED BY <1>1, <1>a, <2>0
    <3> QED BY <3>1
  <2>2. n + 1 \in 1 .. m /\ v + n \in Nat /\ v + (n + 1) = (v + n) + 1
        /\ (v + n) + 1 \in 1 .. Len(all)
    BY <1>1, <2>0
  <2> DEFINE tag == all[(v + n) + 1].tag
             up == UpcastOne(tag, us)
  <2>3. events[n + 1].tag = tag /\ tag \in Tags
    <3>1. events[n + 1] = all[v + (n + 1)]
      BY <2>2
    <3>2. all[(v + n) + 1] \in EventRecord(Tags)
      BY <2>2, ElementOfSeq
    <3> QED BY <2>2, <3>1, <3>2 DEF EventRecord
  <2>4. Decodes(up, s)
    BY <2>2, <2>3 DEF Replays
  <2>5. up.name = tag.name /\ [name |-> up.name, fields |-> up.fields] = Effect(tag, s)
    BY <2>3, <2>4, DecodedEffect
  <2>6. Guard(up.name, MeaningUpTo(all, v + n, s))
    <3> SUFFICES ASSUME up.name = "Completed",
                        NEW i \in 1 .. Len(MeaningUpTo(all, v + n, s))
                 PROVE  MeaningUpTo(all, v + n, s)[i].name # "Completed"
      BY DEF Guard
    <3>1. i \in 1 .. v + n
      BY <2>2, MeaningGrows
    <3>2. MeaningUpTo(all, v + n, s)[i].name = all[i].tag.name
      BY <3>1 DEF MeaningUpTo, Effect
    <3>3. i \in 1 .. Len(all) /\ i # (v + n) + 1
      BY <1>1, <2>2, <3>1
    <3> QED BY <2>2, <2>5, <3>2, <3>3 DEF CompletedOnce
  <2>7. f[n + 1] = Call(A(er, n), up.name, up.version, up.fields)
    BY <1>4, <2>1, <2>3 DEF ReplayEvent
  <2>8. f[n + 1] = Agg(er, Append(MeaningUpTo(all, v + n, s),
                                  [name |-> up.name, fields |-> up.fields]), q, w)
    <3> HIDE DEF er, up
    <3> QED BY <1>3, <2>6, <2>7, CallWhileReplaying
  <2>9. Append(MeaningUpTo(all, v + n, s), Effect(tag, s)) = MeaningUpTo(all, (v + n) + 1, s)
    BY <2>2, MeaningGrows
  <2> HIDE DEF er, up, tag
  <2> QED BY <2>2, <2>5, <2>8, <2>9
<1>7. S = Nat
  BY <1>5, <1>6, <1>a, Induction
<1>8. P(m)
  <2> HIDE DEF P, m
  <2> QED BY <1>1, <1>7, <1>a
<1>9. v + m = Len(all)
  BY <1>1
<1>10. MeaningUpTo(all, Len(all), s) = Meaning(all, s)
  BY DEF MeaningUpTo, Meaning
<1>11. Ended(A(er, m)) = A(e, m)
  <2>1. Ended(A(er, m)) = A(SetReplaying(er, FALSE), m)
    BY ReplayingSet
  <2> QED BY <1>3, <2>1
<1> HIDE DEF er
<1> QED BY <1>2, <1>8, <1>9, <1>10, <1>11

\* m turns of the filter of hydrate_from_snapshot, with what it has kept.
IsKept(f, es, v, m) ==
  f = [n \in 0 .. m |-> IF n = 0 THEN << >>
                        ELSE IF es[n].sequence > v THEN Append(f[n - 1], es[n])
                        ELSE f[n - 1]]

LEMMA KeptExists == \A es, v : \A m \in Nat : \E f : IsKept(f, es, v, m)
<1> SUFFICES ASSUME NEW es, NEW v PROVE \A m \in Nat : \E f : IsKept(f, es, v, m)
  OBVIOUS
<1> DEFINE G(n, b) == IF es[n].sequence > v THEN Append(b, es[n]) ELSE b
           Is(f, m) == f = [n \in 0 .. m |-> IF n = 0 THEN << >> ELSE G(n, f[n - 1])]
           S == {m \in Nat : \E f : Is(f, m)}
<1> HIDE DEF G
<1>1. 0 \in S
  <2> DEFINE f == [n \in 0 .. 0 |-> << >>]
  <2>1. Is(f, 0)
    OBVIOUS
  <2> QED BY <2>1
<1>2. ASSUME NEW m \in S PROVE m + 1 \in S
  <2>1. PICK f : Is(f, m)
    <3> HIDE DEF Is
    <3> QED OBVIOUS
  <2> DEFINE g == [n \in 0 .. m + 1 |-> IF n = m + 1 THEN G(n, f[m]) ELSE f[n]]
  <2>2. \A n \in 0 .. m : f[n] = IF n = 0 THEN << >> ELSE G(n, f[n - 1])
    BY <2>1
  <2>3. \A n \in 0 .. m + 1 : g[n] = IF n = 0 THEN << >> ELSE G(n, g[n - 1])
    <3> SUFFICES ASSUME NEW n \in 0 .. m + 1
                 PROVE  g[n] = IF n = 0 THEN << >> ELSE G(n, g[n - 1])
      OBVIOUS
    <3>1. CASE n = m + 1
      <4>1. g[n] = G(n, f[m]) /\ g[n - 1] = f[m] /\ n # 0
        BY <3>1
      <4> QED BY <4>1
    <3>2. CASE n # m + 1 /\ n # 0
      <4>1. g[n] = f[n] /\ g[n - 1] = f[n - 1] /\ n \in 0 .. m
        BY <3>2
      <4> QED BY <2>2, <3>2, <4>1
    <3>3. CASE n = 0
      <4>1. g[n] = f[0]
        BY <3>3
      <4> QED BY <2>2, <3>3, <4>1
    <3> QED BY <3>1, <3>2, <3>3
  <2>4. Is(g, m + 1)
    <3> HIDE DEF g
    <3>1. g = [n \in 0 .. m + 1 |-> g[n]]
      BY DEF g
    <3> QED BY <2>3, <3>1
  <2> HIDE DEF Is, g
  <2> QED BY <2>4
<1>3. S = Nat
  <2>1. S \in SUBSET Nat
    OBVIOUS
  <2> HIDE DEF S
  <2> QED BY <1>1, <1>2, <2>1, Induction
<1>4. ASSUME NEW m \in Nat PROVE \E f : IsKept(f, es, v, m)
  <2>1. \A f : Is(f, m) <=> IsKept(f, es, v, m)
    BY Zenon DEF IsKept, G
  <2> HIDE DEF Is
  <2>2. \E f : Is(f, m)
    BY <1>3
  <2> QED BY <2>1, <2>2, Zenon
<1> QED BY <1>4

\* The events of es after the first v.
From(es, v, n) == [i \in 1 .. n |-> es[v + i]]

LEMMA FromGrows ==
  ASSUME NEW es, NEW v \in Nat, NEW n \in Nat
  PROVE  /\ Len(From(es, v, n)) = n
         /\ Append(From(es, v, n), es[v + (n + 1)]) = From(es, v, n + 1)
<1> DEFINE E(i) == es[v + i]
           a == [i \in 1 .. n |-> E(i)]
           b == [i \in 1 .. n + 1 |-> E(i)]
           T == {E(i) : i \in 1 .. n + 1}
<1> HIDE DEF E
<1>1. a \in Seq(T) /\ Len(a) = n /\ b \in Seq(T) /\ Len(b) = n + 1
  OBVIOUS
<1>2. E(n + 1) \in T
  OBVIOUS
<1>3. /\ \A i \in 1 .. n : a[i] = E(i)
      /\ \A i \in 1 .. n + 1 : b[i] = E(i)
  OBVIOUS
<1> HIDE DEF a, b, T
<1>4. /\ Append(a, E(n + 1)) \in Seq(T) /\ Len(Append(a, E(n + 1))) = n + 1
      /\ \A i \in 1 .. n : Append(a, E(n + 1))[i] = a[i]
      /\ Append(a, E(n + 1))[n + 1] = E(n + 1)
  BY <1>1, <1>2, AppendProperties
<1>5. ASSUME NEW i \in 1 .. n + 1 PROVE Append(a, E(n + 1))[i] = b[i]
  BY <1>3, <1>4
<1>6. Append(a, E(n + 1)) = b
  BY <1>1, <1>4, <1>5, SeqEqual
<1> QED BY <1>1, <1>6 DEF From, E, a, b

\* If events are numbered by their places, the filter keeps those after the
\* snapshot's version.
LEMMA AfterSnapshotFacts ==
  ASSUME NEW e, NEW snap, Len(e.events) \in Nat, snap.version \in 0 .. Len(e.events),
         \A i \in 1 .. Len(e.events) : e.events[i].sequence = i
  PROVE  AfterSnapshot(e, snap)
           = From(e.events, snap.version, Len(e.events) - snap.version)
<1> DEFINE es == e.events
           v == snap.version
           m == Len(es)
           c == CHOOSE f : IsKept(f, es, v, m)
<1>1. IsKept(c, es, v, m)
  BY KeptExists
<1>2. AfterSnapshot(e, snap) = c[m]
  BY DEF AfterSnapshot, IsKept
<1> HIDE DEF c
<1>3. \A n \in 0 .. m : c[n] = IF n = 0 THEN << >>
                               ELSE IF es[n].sequence > v THEN Append(c[n - 1], es[n])
                               ELSE c[n - 1]
  <2> HIDE DEF es, v, m
  <2> QED BY <1>1 DEF IsKept
<1>4. m \in Nat /\ v \in Nat /\ v <= m /\ \A i \in 1 .. m : es[i].sequence = i
  OBVIOUS
<1> HIDE DEF es, v, m
<1>5. From(es, v, 0) = << >>
  BY DEF From
<1> DEFINE P(n) == c[n] = From(es, v, IF n <= v THEN 0 ELSE n - v)
           S == {n \in Nat : n <= m => P(n)}
<1>6. S \in SUBSET Nat /\ \A n \in Nat : n \in S <=> (n <= m => P(n))
  <2> HIDE DEF P
  <2> QED OBVIOUS
<1> HIDE DEF S
<1>7. 0 \in S
  <2>1. P(0)
    BY <1>3, <1>4, <1>5
  <2> QED BY <1>6, <2>1
<1>8. ASSUME NEW n \in S PROVE n + 1 \in S
  <2>0. n \in Nat /\ n + 1 \in Nat
    BY <1>6
  <2> SUFFICES ASSUME n + 1 <= m PROVE P(n + 1)
    <3> HIDE DEF P
    <3> QED BY <1>6, <2>0
  <2>1. P(n)
    <3> HIDE DEF P
    <3> QED BY <1>4, <1>6, <2>0
  <2>2. c[n + 1] = IF n + 1 > v THEN Append(c[n], es[n + 1]) ELSE c[n]
    <3>1. n + 1 \in 0 .. m /\ n + 1 # 0 /\ (n + 1) - 1 = n /\ n + 1 \in 1 .. m
      BY <1>4, <2>0
    <3> QED BY <1>3, <1>4, <3>1
  <2>3. CASE n + 1 <= v
    <3>1. c[n] = From(es, v, 0)
      BY <1>4, <2>0, <2>1, <2>3
    <3>2. c[n + 1] = c[n]
      BY <1>4, <2>0, <2>2, <2>3
    <3> QED BY <2>3, <3>1, <3>2
  <2>4. CASE ~ (n + 1 <= v)
    <3>1. n - v \in Nat /\ (n - v) + 1 = (n + 1) - v /\ v + ((n - v) + 1) = n + 1
      BY <1>4, <2>0, <2>4
    <3>2. (IF n <= v THEN 0 ELSE n - v) = n - v
      BY <1>4, <2>0, <2>4
    <3>3. c[n] = From(es, v, n - v)
      BY <2>1, <3>2
    <3>4. c[n + 1] = Append(c[n], es[n + 1])
      BY <1>4, <2>0, <2>2, <2>4
    <3>5. Append(From(es, v, n - v), es[v + ((n - v) + 1)]) = From(es, v, (n - v) + 1)
      BY <1>4, <3>1, FromGrows
    <3> QED BY <2>4, <3>1, <3>3, <3>4, <3>5
  <2> QED BY <2>3, <2>4
<1>9. S = Nat
  BY <1>6, <1>7, <1>8, Induction
<1>10. P(m)
  <2> HIDE DEF P
  <2> QED BY <1>4, <1>6, <1>9
<1>11. c[m] = From(es, v, m - v)
  <2>1. (IF m <= v THEN 0 ELSE m - v) = m - v
    BY <1>4
  <2> QED BY <1>10, <2>1
<1> QED BY <1>2, <1>11 DEF es, v, m

\* Hydration from the whole stream makes an aggregate of the entity as it was
\* read, the state that its events mean, and an empty queue.
THEOREM HydrateIsMeaning ==
  ASSUME NEW us, Upward(us), NEW s \in Nat,
         NEW e \in EntityRecord(Tags), ~ e.replaying, CompletedOnce(e.events),
         Replays(e.events, us, s)
  PROVE  Hydrate(e, us) = Agg(e, Meaning(e.events, s), << >>, 0)
<1> DEFINE all == e.events
<1>1. all \in Seq(EventRecord(Tags)) /\ Len(all) \in Nat
  BY DEF EntityRecord
<1>2. [NewAggregate EXCEPT !.entity = e] = Agg(e, << >>, << >>, 0)
  BY DEF NewAggregate, Agg
<1>3. CompletedOnce(all) /\ Replays(all, us, s)
  OBVIOUS
<1> HIDE DEF all
<1>4. MeaningUpTo(all, 0, s) = << >>
  BY DEF MeaningUpTo
<1>5. /\ 0 \in 0 .. Len(all) /\ Len(all) = Len(all) - 0
      /\ \A i \in 1 .. Len(all) : all[i] = all[0 + i]
  BY <1>1
<1>6. Replay(Agg(e, MeaningUpTo(all, 0, s), << >>, 0), all, us)
        = Agg(e, Meaning(all, s), << >>, 0)
  BY <1>1, <1>3, <1>5, ReplayFacts
<1> QED BY <1>2, <1>4, <1>6 DEF Hydrate, all

\* Hydration from a snapshot of the first events and from the rest makes the
\* same aggregate, which knows the version of its snapshot besides.
THEOREM HydrateFromSnapshotIsMeaning ==
  ASSUME NEW us, Upward(us), NEW s \in Nat,
         NEW e \in EntityRecord(Tags), ~ e.replaying, CompletedOnce(e.events),
         \A i \in 1 .. Len(e.events) : e.events[i].sequence = i,
         NEW snap, snap.version \in 0 .. Len(e.events),
         snap.state = MeaningUpTo(e.events, snap.version, s),
         Replays(AfterSnapshot(e, snap), us, s)
  PROVE  HydrateFromSnapshot(e, snap, us)
           = Agg(e, Meaning(e.events, s), << >>, snap.version)
<1> DEFINE all == e.events
           v == snap.version
           rest == AfterSnapshot(e, snap)
           n == Len(all) - v
<1>1. all \in Seq(EventRecord(Tags)) /\ Len(all) \in Nat
  BY DEF EntityRecord
<1>2. rest = From(all, v, n)
  BY <1>1, AfterSnapshotFacts
<1>3. n \in Nat /\ v \in Nat /\ v \in 0 .. Len(all)
  BY <1>1
<1>4. CompletedOnce(all) /\ Replays(rest, us, s) /\ snap.state = MeaningUpTo(all, v, s)
  OBVIOUS
<1> HIDE DEF all, v, rest
<1>5. Len(rest) = n /\ \A i \in 1 .. Len(rest) : rest[i] = all[v + i]
  <2>1. Len(From(all, v, n)) = n
    <3> HIDE DEF n
    <3> QED BY <1>3, FromGrows
  <2>2. \A i \in 1 .. n : From(all, v, n)[i] = all[v + i]
    BY DEF From
  <2> HIDE DEF n
  <2> QED BY <1>2, <2>1, <2>2
<1>6. Restore(e, snap) = Agg(e, MeaningUpTo(all, v, s), << >>, v)
  <2>1. \A x, y, z : [NewAggregate EXCEPT !.entity = x, !.state = y, !.snapshot_version = z]
          = [[[NewAggregate EXCEPT !.entity = x] EXCEPT !.state = y]
               EXCEPT !.snapshot_version = z]
    OBVIOUS
  <2> DEFINE st == snap.state
  <2>2. [NewAggregate EXCEPT !.entity = e] = Agg(e, << >>, << >>, 0)
    BY DEF NewAggregate, Agg
  <2>3. [Agg(e, << >>, << >>, 0) EXCEPT !.state = st] = Agg(e, st, << >>, 0)
    BY DEF Agg
  <2>4. [Agg(e, st, << >>, 0) EXCEPT !.snapshot_version = v] = Agg(e, st, << >>, v)
    BY DEF Agg
  <2>5. Restore(e, snap) = [NewAggregate EXCEPT !.entity = e, !.state = st,
                                                !.snapshot_version = v]
    BY DEF Restore, v
  <2>6. Restore(e, snap) = Agg(e, st, << >>, v)
    <3> HIDE DEF st
    <3> QED BY <2>1, <2>2, <2>3, <2>4, <2>5
  <2> QED BY <1>4, <2>6
<1>7. Replay(Agg(e, MeaningUpTo(all, v, s), << >>, v), rest, us)
        = Agg(e, Meaning(all, s), << >>, v)
  <2>1. Len(rest) = Len(all) - v /\ v \in 0 .. Len(all)
    BY <1>3, <1>5
  <2>2. \A i \in 1 .. Len(rest) : rest[i] = all[v + i]
    BY <1>5
  <2>3. all \in Seq(EventRecord(Tags)) /\ CompletedOnce(all) /\ Replays(rest, us, s)
    BY <1>1, <1>4
  <2> HIDE DEF n
  <2> QED BY ONLY <2>1, <2>2, <2>3, ReplayFacts, Upward(us), s \in Nat,
                  e \in EntityRecord(Tags), ~ e.replaying
<1> QED BY <1>6, <1>7 DEF HydrateFromSnapshot, rest, all, v
=============================================================================
