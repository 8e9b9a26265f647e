------------------------- MODULE FileMonitorProofs -------------------------
(***************************************************************************)
(* Proofs about the file collector, for any watch roots, paths, markers and*)
(* categories, and any number of notices, sweeps and faults.               *)
(***************************************************************************)
EXTENDS FileMonitor, FiniteSetTheorems, SequenceTheorems, WellFoundedInduction, TLAPS

(***************************************************************************)
(* The inductive invariant                                                 *)
(***************************************************************************)

\* What TypeOK leaves out: the history, and that a set of paths has a size.
HistoryOK ==
    /\ counted \in [Labels -> Nat] /\ reported \in [Labels -> Nat] /\ lost \in [Labels -> Nat]
    /\ since \in [Labels -> Nat] /\ behind \subseteq Labels
    /\ notices \in Nat /\ faults \in Nat
    /\ \A r \in Labels, s \in 0 .. 1 : IsFiniteSet(activity[r][s].distinct)

\* The lock at work: the dispatcher writes to the slot the handler refers to,
\* and collect() holds the other slot of the root it has come to.
SlotsApart ==
    /\ writer # NoWriter => writer.slot = current[writer.root]
    /\ drained # NotDrained =>
          /\ next \in DOMAIN roots
          /\ drained.root = roots[next] /\ drained.slot = 1 - current[drained.root]

\* Only a running collector sweeps, each root once, and nothing of a sweep is
\* left when it is over.
SweepInOrder ==
    /\ \A i \in DOMAIN roots, j \in DOMAIN roots : roots[i] = roots[j] => i = j
    /\ ~Idle => stage = "running"
    /\ Idle => drained = NotDrained /\ events = <<>> /\ window = 0

\* The sweep in hand has not come to the root yet.
Ahead(i) == ~Idle /\ (i > next \/ (i = next /\ drained = NotDrained))

\* A root that is not left behind was drained by the sweep in hand, or, if
\* this one has not come to it, by the sweep before.
DrainedInTurn ==
    stage = "running" =>
        \A i \in DOMAIN roots :
            roots[i] \notin behind =>
                since[roots[i]] = IF Ahead(i) THEN lastSweep - window ELSE lastSweep

Core == TypeOK /\ HistoryOK /\ SensitiveMeansWritten /\ SlotsApart /\ SweepInOrder

MonitorInv == Core /\ DrainedInTurn /\ RateOverOwnWindow /\ NoChangeMiscounted
-----------------------------------------------------------------------------
(***************************************************************************)
(* Induction over data, by the least counterexample                        *)
(***************************************************************************)

\* A set of numbers that has a member has a least one.
LEMMA LeastMember ==
    ASSUME NEW S \in SUBSET Nat, S # {}
    PROVE  \E x \in S : \A y \in S : x <= y
<1> DEFINE R == OpToRel(<, Nat)
<1>1. IsWellFoundedOn(R, Nat)
  BY NatLessThanWellFounded, Zenon
<1>2. \A x \in Nat, y \in Nat : y < x => <<y, x>> \in R
  BY DEF OpToRel
<1> HIDE DEF R
<1>3. PICK x \in S : \A y \in S : ~ (<<y, x>> \in R)
  BY <1>1, WFMin
<1>4. ASSUME NEW y \in S PROVE x <= y
  <2>1. ~ (y < x)
    BY <1>2, <1>3, Zenon
  <2> QED BY <2>1
<1> QED BY <1>4

\* g begins with base and goes on by F, up to m.
Iterates(g, X, base, F, m) ==
    /\ g \in [0 .. m -> X] /\ g[0] = base
    /\ \A n \in 1 .. m : g[n] = F[<<g[n - 1], n>>]

\* A recursion on 0 .. m has a solution.
LEMMA Recursion ==
    ASSUME NEW X, NEW base \in X, NEW F \in [X \X Nat -> X], NEW m \in Nat
    PROVE  \E g : Iterates(g, X, base, F, m)
<1> DEFINE Bad == {k \in Nat : ~ \E g : Iterates(g, X, base, F, k)}
<1>1. SUFFICES ASSUME Bad # {} PROVE FALSE
  OBVIOUS
<1>2. PICK x \in Bad : \A y \in Bad : x <= y
  BY <1>1, LeastMember
<1>3. x # 0
  <2> DEFINE g == [n \in 0 .. 0 |-> base]
  <2>1. Iterates(g, X, base, F, 0)
    BY DEF Iterates
  <2> QED BY <2>1, <1>2
<1>4. x - 1 \in Nat /\ x - 1 \notin Bad
  <2>1. x \in Nat
    OBVIOUS
  <2> HIDE DEF Bad
  <2> QED BY <1>2, <1>3, <2>1
<1>5. PICK g : Iterates(g, X, base, F, x - 1)
  BY <1>4
<1> DEFINE h == [n \in 0 .. x |-> IF n = x THEN F[<<g[x - 1], x>>] ELSE g[n]]
<1>6. h \in [0 .. x -> X] /\ h[0] = base
  BY <1>3, <1>4, <1>5 DEF Iterates
<1>7. ASSUME NEW n \in 1 .. x PROVE h[n] = F[<<h[n - 1], n>>]
  <2>1. n - 1 \in 0 .. x /\ n - 1 # x /\ n \in 0 .. x
    BY <1>4
  <2>2. h[n - 1] = g[n - 1] /\ h[n] = IF n = x THEN F[<<g[x - 1], x>>] ELSE g[n]
    BY <2>1
  <2>3. n # x => g[n] = F[<<g[n - 1], n>>]
    <3>1. n # x => n \in 1 .. x - 1
      BY <1>4
    <3> QED BY <3>1, <1>5 DEF Iterates
  <2> HIDE DEF h
  <2> QED BY <2>2, <2>3
<1>8. Iterates(h, X, base, F, x)
  <2> HIDE DEF h
  <2> QED BY <1>6, <1>7 DEF Iterates
<1> QED BY <1>2, <1>8

\* Induction on 0 .. m, for a set of numbers in the place of a predicate.
LEMMA InductionUpTo ==
    ASSUME NEW m \in Nat, NEW G, 0 \in G,
           \A n \in 1 .. m : n - 1 \in G => n \in G
    PROVE  \A n \in 0 .. m : n \in G
<1> DEFINE Bad == {n \in 0 .. m : n \notin G}
<1>1. SUFFICES ASSUME Bad # {} PROVE FALSE
  OBVIOUS
<1>2. Bad \in SUBSET Nat
  OBVIOUS
<1>3. PICK x \in Bad : \A y \in Bad : x <= y
  <2> HIDE DEF Bad
  <2> QED BY <1>1, <1>2, LeastMember
<1>4. x \in 1 .. m /\ x - 1 \in 0 .. m
  OBVIOUS
<1>5. x - 1 \notin Bad
  <2> HIDE DEF Bad
  <2> QED BY <1>3, <1>4
<1> QED BY <1>4, <1>5

\* Two recursions that begin alike and go on alike agree.
Alike(f, g, m) ==
    f[0] = g[0] /\ \A n \in 1 .. m : f[n - 1] = g[n - 1] => f[n] = g[n]

Agree(f, g, m) == \A n \in 0 .. m : f[n] = g[n]

LEMMA RecursionUnique ==
    ASSUME NEW f, NEW g, NEW m \in Nat, Alike(f, g, m)
    PROVE  Agree(f, g, m)
<1> DEFINE G == {n \in 0 .. m : f[n] = g[n]}
<1>1. 0 \in G
  BY DEF Alike
<1>2. \A n \in 1 .. m : n - 1 \in G => n \in G
  BY DEF Alike
<1>3. \A n \in 0 .. m : n \in G
  <2> HIDE DEF G
  <2> QED BY <1>1, <1>2, InductionUpTo
<1> QED BY <1>3 DEF Agree
-----------------------------------------------------------------------------
(***************************************************************************)
(* The operators of the model                                              *)
(***************************************************************************)

\* What TotalOf adds for each event.
Share(r, evs) == [n \in Nat |-> IF n \in 1 .. Len(evs) /\ evs[n].root = r THEN evs[n].total ELSE 0]

\* The sums of TotalOf, one event after another.
Sums(r, evs, g) ==
    /\ g \in [0 .. Len(evs) -> Nat] /\ g[0] = 0
    /\ \A n \in 1 .. Len(evs) : g[n] = g[n - 1] + Share(r, evs)[n]

LEMMA ShareTyped ==
    ASSUME NEW r, NEW evs \in Seq(Event)
    PROVE  Share(r, evs) \in [Nat -> Nat]
<1>1. \A n \in 1 .. Len(evs) : evs[n].total \in Nat
  <2> TAKE n \in 1 .. Len(evs)
  <2>1. evs[n] \in Event
    BY ElementOfSeq
  <2> QED BY <2>1 DEF Event
<1> QED BY <1>1 DEF Share

LEMMA TotalIsSum ==
    ASSUME NEW r, NEW evs \in Seq(Event)
    PROVE  \E g : Sums(r, evs, g) /\ TotalOf(r, evs) = g[Len(evs)]
<1> DEFINE D == Share(r, evs)
           F == [p \in Nat \X Nat |-> p[1] + D[p[2]]]
           L == Len(evs)
<1>1. D \in [Nat -> Nat]
  BY ShareTyped
<1>2. \A n \in 1 .. L : D[n] = IF evs[n].root = r THEN evs[n].total ELSE 0
  BY DEF Share
<1>3. L \in Nat
  OBVIOUS
<1> DEFINE Step(f) == [n \in 0 .. L |->
               IF n = 0 THEN 0
               ELSE f[n - 1] + (IF evs[n].root = r THEN evs[n].total ELSE 0)]
           s == CHOOSE f : f = Step(f)
<1>4. TotalOf(r, evs) = s[L]
  BY DEF TotalOf
<1> HIDE DEF D, L
<1>5. \A f : /\ Step(f)[0] = 0
             /\ \A n \in 1 .. L : Step(f)[n] = f[n - 1] + D[n]
  BY <1>2, <1>3
<1>6. F \in [Nat \X Nat -> Nat] /\ \A k \in Nat, n \in Nat : F[<<k, n>>] = k + D[n]
  <2>1. ASSUME NEW p \in Nat \X Nat PROVE p[1] + D[p[2]] \in Nat
    <3>1. p[1] \in Nat /\ p[2] \in Nat
      OBVIOUS
    <3>2. D[p[2]] \in Nat
      BY <1>1, <3>1
    <3> QED BY <3>1, <3>2
  <2>2. F \in [Nat \X Nat -> Nat]
    BY <2>1
  <2>3. \A k \in Nat, n \in Nat : F[<<k, n>>] = k + D[n]
    OBVIOUS
  <2> QED BY <2>2, <2>3
<1> HIDE DEF F
<1>7. PICK g : Iterates(g, Nat, 0, F, L)
  BY <1>3, <1>6, Recursion
<1>8. /\ g \in [0 .. L -> Nat] /\ g[0] = 0
      /\ \A n \in 1 .. L : g[n] = g[n - 1] + D[n]
  <2>1. g \in [0 .. L -> Nat] /\ g[0] = 0 /\ \A n \in 1 .. L : g[n] = F[<<g[n - 1], n>>]
    BY <1>7 DEF Iterates
  <2>2. ASSUME NEW n \in 1 .. L PROVE g[n] = g[n - 1] + D[n]
    <3>1. n - 1 \in 0 .. L /\ n \in Nat
      BY <1>3
    <3>2. g[n - 1] \in Nat
      BY <2>1, <3>1
    <3> QED BY <1>6, <2>1, <3>1, <3>2
  <2> QED BY <2>1, <2>2
<1>9. g = Step(g)
  <2>1. ASSUME NEW n \in 0 .. L PROVE g[n] = Step(g)[n]
    <3>1. CASE n = 0
      BY <3>1, <1>5, <1>8
    <3>2. CASE n # 0
      <4>1. n \in 1 .. L
        BY <3>2, <1>3
      <4> HIDE DEF Step
      <4> QED BY <4>1, <1>5, <1>8
    <3> QED BY <3>1, <3>2
  <2>2. Step(g) = [n \in 0 .. L |-> Step(g)[n]]
    OBVIOUS
  <2>3. g = [n \in 0 .. L |-> g[n]]
    BY <1>8
  <2> HIDE DEF Step
  <2> QED BY <2>1, <2>2, <2>3
<1>10. s = Step(s) /\ DOMAIN s = 0 .. L
  BY <1>9
<1> HIDE DEF Step, s
<1>11. \A n \in 0 .. L : s[n] = g[n]
  <2>1. s[0] = g[0]
    BY <1>5, <1>8, <1>10
  <2>2. \A n \in 1 .. L : s[n - 1] = g[n - 1] => s[n] = g[n]
    BY <1>5, <1>8, <1>10
  <2>3. Alike(s, g, L)
    BY <2>1, <2>2 DEF Alike
  <2>4. Agree(s, g, L)
    BY <1>3, <2>3, RecursionUnique
  <2> QED BY <2>4 DEF Agree
<1> QED BY <1>3, <1>4, <1>8, <1>11 DEF Sums, D, L

\* No event, no change; one event more adds its changes to its root.
LEMMA TotalOfNone == \A r : TotalOf(r, <<>>) = 0
<1> TAKE r
<1> DEFINE evs == <<>>
<1>1. evs \in Seq(Event) /\ Len(evs) = 0
  OBVIOUS
<1> HIDE DEF evs
<1>2. PICK g : Sums(r, evs, g) /\ TotalOf(r, evs) = g[Len(evs)]
  BY <1>1, TotalIsSum
<1> QED BY <1>1, <1>2 DEF Sums, evs

LEMMA TotalOfMore ==
    ASSUME NEW r, NEW evs \in Seq(Event), NEW e \in Event
    PROVE  TotalOf(r, Append(evs, e)) = TotalOf(r, evs) + (IF e.root = r THEN e.total ELSE 0)
<1> DEFINE more == Append(evs, e)
           L == Len(evs)
<1>1. more \in Seq(Event) /\ Len(more) = L + 1 /\ L \in Nat
      /\ more[L + 1] = e /\ \A n \in 1 .. L : more[n] = evs[n]
  OBVIOUS
<1>2. PICK g : Sums(r, evs, g) /\ TotalOf(r, evs) = g[L]
  BY TotalIsSum
<1> HIDE DEF more
<1>3. PICK h : Sums(r, more, h) /\ TotalOf(r, more) = h[Len(more)]
  BY <1>1, TotalIsSum
<1>4. \A n \in 1 .. L : Share(r, more)[n] = Share(r, evs)[n]
  BY <1>1 DEF Share
<1>5. Share(r, more)[L + 1] = IF e.root = r THEN e.total ELSE 0
  BY <1>1 DEF Share
<1>6. \A n \in 0 .. L : g[n] = h[n]
  <2>1. g[0] = h[0]
    BY <1>2, <1>3 DEF Sums
  <2>2. ASSUME NEW n \in 1 .. L, g[n - 1] = h[n - 1] PROVE g[n] = h[n]
    <3>1. n \in 1 .. Len(more)
      BY <1>1
    <3>2. g[n] = g[n - 1] + Share(r, evs)[n] /\ h[n] = h[n - 1] + Share(r, more)[n]
      BY <1>2, <1>3, <3>1 DEF Sums
    <3> QED BY <1>4, <2>2, <3>2
  <2> HIDE DEF L
  <2>3. Alike(g, h, L)
    BY <2>1, <2>2 DEF Alike
  <2>4. Agree(g, h, L)
    BY <1>1, <2>3, RecursionUnique
  <2> QED BY <2>4 DEF Agree
<1>7. h[L + 1] = h[L] + Share(r, more)[L + 1]
  BY <1>1, <1>3 DEF Sums
<1>8. g[L] = h[L]
  BY <1>1, <1>6
<1> QED BY <1>1, <1>2, <1>3, <1>5, <1>7, <1>8 DEF more

LEMMA TotalOfTyped ==
    ASSUME NEW r, NEW evs \in Seq(Event)
    PROVE  TotalOf(r, evs) \in Nat
<1>1. PICK g : Sums(r, evs, g) /\ TotalOf(r, evs) = g[Len(evs)]
  BY TotalIsSum
<1> QED BY <1>1 DEF Sums

\* A sequence of watch roots, each once, out of the first n candidates.
PickedFrom(q, n) ==
    /\ q \in Seq(Labels)
    /\ \A i \in 1 .. Len(q) : \E k \in 1 .. n : q[i] = Candidates[k]
    /\ \A i \in 1 .. Len(q), j \in 1 .. Len(q) : q[i] = q[j] => i = j

LEMMA PickedMore ==
    ASSUME NEW n \in 1 .. Len(Candidates), NEW q, PickedFrom(q, n - 1)
    PROVE  PickedFrom(q, n) /\ PickedFrom(Append(q, Candidates[n]), n)
<1>1. Len(Candidates) \in Nat /\ Candidates[n] \in Labels
      /\ \A i, j \in 1 .. Len(Candidates) : Candidates[i] = Candidates[j] => i = j
  BY MonitorAssumption DEF IsInjective
<1>2. PickedFrom(q, n)
  BY <1>1 DEF PickedFrom
<1> DEFINE more == Append(q, Candidates[n])
<1>3. /\ q \in Seq(Labels) /\ more \in Seq(Labels) /\ Len(q) \in Nat /\ Len(more) = Len(q) + 1
      /\ more[Len(q) + 1] = Candidates[n] /\ \A i \in 1 .. Len(q) : more[i] = q[i]
  BY <1>1 DEF PickedFrom
<1> HIDE DEF more
<1>4. \A i \in 1 .. Len(q) : q[i] # Candidates[n]
  BY <1>1 DEF PickedFrom
<1>5. \A i \in 1 .. Len(more) : \E k \in 1 .. n : more[i] = Candidates[k]
  <2> TAKE i \in 1 .. Len(more)
  <2>1. CASE i = Len(q) + 1
    BY <2>1, <1>3
  <2>2. CASE i # Len(q) + 1
    <3>1. i \in 1 .. Len(q)
      BY <2>2, <1>3
    <3>2. more[i] = q[i]
      BY <3>1, <1>3
    <3>3. \E k \in 1 .. n : q[i] = Candidates[k]
      BY <3>1, <1>2 DEF PickedFrom
    <3> QED BY <3>2, <3>3
  <2> QED BY <2>1, <2>2
<1>6. ASSUME NEW i \in 1 .. Len(more), NEW j \in 1 .. Len(more), more[i] = more[j] PROVE i = j
  <2>1. i \in 1 .. Len(q) /\ j \in 1 .. Len(q) => i = j
    BY <1>2, <1>3, <1>6 DEF PickedFrom
  <2> QED BY <2>1, <1>3, <1>4, <1>6
<1>7. PickedFrom(more, n)
  BY <1>3, <1>5, <1>6 DEF PickedFrom
<1> QED BY <1>2, <1>7 DEF more

\* default_watch_roots answers with candidates, in a list without repetition.
LEMMA WatchRootsTyped ==
    ASSUME NEW existing
    PROVE  PickedFrom(DefaultWatchRoots(existing), Len(Candidates))
<1> DEFINE L == Len(Candidates)
           One(q, n) == IF Candidates[n] \in existing THEN Append(q, Candidates[n]) ELSE q
           F == [p \in Seq(Labels) \X Nat |-> IF p[2] \in 1 .. L THEN One(p[1], p[2]) ELSE p[1]]
           Step(f) == [n \in 0 .. L |->
               IF n = 0 THEN <<>>
               ELSE IF Candidates[n] \in existing THEN Append(f[n - 1], Candidates[n]) ELSE f[n - 1]]
           s == CHOOSE f : f = Step(f)
<1>1. DefaultWatchRoots(existing) = s[L]
  BY DEF DefaultWatchRoots
<1>2. L \in Nat /\ \A n \in 1 .. L : Candidates[n] \in Labels
  BY MonitorAssumption
<1>3. \A f : /\ Step(f)[0] = <<>>
             /\ \A n \in 1 .. L : Step(f)[n] = One(f[n - 1], n)
  BY <1>2
<1>4. \A q \in Seq(Labels), n \in 1 .. L : One(q, n) \in Seq(Labels)
  BY <1>2
<1>5. F \in [Seq(Labels) \X Nat -> Seq(Labels)]
      /\ \A q \in Seq(Labels), n \in 1 .. L : F[<<q, n>>] = One(q, n)
  <2>1. ASSUME NEW p \in Seq(Labels) \X Nat
        PROVE  (IF p[2] \in 1 .. L THEN One(p[1], p[2]) ELSE p[1]) \in Seq(Labels)
    <3>1. p[1] \in Seq(Labels)
      OBVIOUS
    <3> HIDE DEF One
    <3> QED BY <1>4, <3>1
  <2> HIDE DEF One
  <2>2. F \in [Seq(Labels) \X Nat -> Seq(Labels)]
    BY <2>1
  <2>3. \A q \in Seq(Labels), n \in 1 .. L : F[<<q, n>>] = One(q, n)
    BY <1>2
  <2> QED BY <2>2, <2>3
<1> HIDE DEF F, L
<1>6. PICK g : Iterates(g, Seq(Labels), <<>>, F, L)
  <2>1. <<>> \in Seq(Labels)
    OBVIOUS
  <2> QED BY <1>2, <1>5, <2>1, Recursion
<1>7. g \in [0 .. L -> Seq(Labels)] /\ g[0] = <<>> /\ \A n \in 1 .. L : g[n] = F[<<g[n - 1], n>>]
  BY <1>6 DEF Iterates
<1>8. g = Step(g)
  <2> HIDE DEF One
  <2>1. ASSUME NEW n \in 0 .. L PROVE g[n] = Step(g)[n]
    <3>1. CASE n = 0
      BY <3>1, <1>3, <1>7
    <3>2. CASE n # 0
      <4>1. n \in 1 .. L /\ n - 1 \in 0 .. L
        BY <3>2, <1>2
      <4>2. g[n - 1] \in Seq(Labels)
        BY <4>1, <1>7
      <4> HIDE DEF Step
      <4> QED BY <4>1, <4>2, <1>3, <1>5, <1>7, Zenon
    <3> QED BY <3>1, <3>2
  <2>2. Step(g) = [n \in 0 .. L |-> Step(g)[n]]
    OBVIOUS
  <2>3. g = [n \in 0 .. L |-> g[n]]
    BY <1>7
  <2> HIDE DEF Step
  <2> QED BY <2>1, <2>2, <2>3
<1>9. s = Step(s)
  BY <1>8, Zenon
<1> HIDE DEF Step, s
<1> DEFINE G == {n \in 0 .. L : PickedFrom(s[n], n)}
<1>10. 0 \in G
  <2>1. s[0] = <<>>
    BY <1>3, <1>9
  <2>2. PickedFrom(<<>>, 0)
    BY DEF PickedFrom
  <2> QED BY <1>2, <2>1, <2>2
<1>11. ASSUME NEW n \in 1 .. L, n - 1 \in G PROVE n \in G
  <2>1. PickedFrom(s[n - 1], n - 1) /\ n \in 0 .. L
    BY <1>2, <1>11
  <2>2. s[n] = One(s[n - 1], n)
    BY <1>3, <1>9
  <2>3. PickedFrom(s[n - 1], n) /\ PickedFrom(Append(s[n - 1], Candidates[n]), n)
    BY <2>1, PickedMore DEF L
  <2> QED BY <2>1, <2>2, <2>3
<1>12. L \in G
  <2> HIDE DEF G
  <2>1. \A n \in 0 .. L : n \in G
    BY <1>2, <1>10, <1>11, InductionUpTo
  <2> QED BY <1>2, <2>1
<1> QED BY <1>1, <1>12 DEF L

\* classify_sensitive answers with a category, and with one whenever there is
\* a marker for the path.
LEMMA ClassifyTyped ==
    ASSUME NEW path
    PROVE  /\ ClassifySensitive(path) \subseteq Category
           /\ ClassifySensitive(path) # {} <=>
                  \E i \in DOMAIN Categories : Markers[path] \cap Categories[i][2] # {}
<1> DEFINE matching == {i \in DOMAIN Categories : Categories[i][2] \cap Markers[path] # {}}
<1>1. matching \in SUBSET Nat /\ matching \subseteq DOMAIN Categories
  BY MonitorAssumption
<1>2. ClassifySensitive(path) = IF matching = {} THEN {} ELSE {Categories[Min(matching)][1]}
  BY DEF ClassifySensitive
<1>3. matching # {} <=> \E i \in DOMAIN Categories : Markers[path] \cap Categories[i][2] # {}
  OBVIOUS
<1> HIDE DEF matching
<1>4. ASSUME matching # {} PROVE Categories[Min(matching)][1] \in Category
  <2>1. \E x \in matching : \A y \in matching : x <= y
    BY <1>1, <1>4, LeastMember
  <2>2. Min(matching) \in matching
    BY <2>1 DEF Min
  <2> QED BY <1>1, <2>2 DEF Category
<1> QED BY <1>2, <1>3, <1>4

\* A path under one of the markers is among those changed.
Sensitive(a) ==
    \E path \in a.distinct, i \in DOMAIN Categories : Markers[path] \cap Categories[i][2] # {}

\* record() adds to the total what is a change, and to the categories with
\* the paths.
LEMMA CountedTyped ==
    ASSUME NEW a \in FileActivity, NEW type \in EventTypes, NEW path \in Paths,
           IsFiniteSet(a.distinct), a.categories # {} <=> Sensitive(a)
    PROVE  LET b == Counted(a, type, path)
           IN  /\ b \in FileActivity /\ IsFiniteSet(b.distinct)
               /\ b.total = a.total + (IF type \in MutationEvents THEN 1 ELSE 0)
               /\ b.categories # {} <=> Sensitive(b)
<1> DEFINE b == Counted(a, type, path)
<1>1. CASE type \in MutationEvents
  <2> DEFINE cats == ClassifySensitive(path)
  <2>1. /\ cats \subseteq Category
        /\ cats # {} <=> \E i \in DOMAIN Categories : Markers[path] \cap Categories[i][2] # {}
    BY ClassifyTyped
  <2>2. b = [a EXCEPT !.total = @ + 1, !.distinct = @ \cup {path}, !.categories = @ \cup cats]
    BY <1>1, Zenon DEF Counted
  <2> HIDE DEF b, cats
  <2>3. /\ b \in FileActivity /\ b.total = a.total + 1
        /\ b.distinct = a.distinct \cup {path} /\ b.categories = a.categories \cup cats
    <3>1. a.total \in Nat /\ a.ignored \in Nat /\ a.distinct \in SUBSET Paths
          /\ a.categories \in SUBSET Category
      BY DEF FileActivity
    <3>2. b = [total |-> a.total + 1, ignored |-> a.ignored, distinct |-> a.distinct \cup {path},
               categories |-> a.categories \cup cats]
      BY <2>2 DEF FileActivity
    <3>3. a.total + 1 \in Nat /\ a.distinct \cup {path} \in SUBSET Paths
          /\ a.categories \cup cats \in SUBSET Category
      BY <2>1, <3>1
    <3> QED BY <3>1, <3>2, <3>3 DEF FileActivity
  <2>4. IsFiniteSet(b.distinct)
    BY <2>3, FS_AddElement
  <2>5. Sensitive(b) <=>
           Sensitive(a) \/ \E i \in DOMAIN Categories : Markers[path] \cap Categories[i][2] # {}
    BY <2>3 DEF Sensitive
  <2>6. b.categories # {} <=> Sensitive(b)
    BY <2>1, <2>3, <2>5
  <2> QED BY <1>1, <2>3, <2>4, <2>6 DEF b
<1>2. CASE type \notin MutationEvents
  <2>1. b = [a EXCEPT !.ignored = @ + 1]
    BY <1>2, Zenon DEF Counted
  <2> HIDE DEF b
  <2>2. /\ b \in FileActivity /\ b.total = a.total
        /\ b.distinct = a.distinct /\ b.categories = a.categories
    BY <2>1 DEF FileActivity
  <2>3. a.total \in Nat
    BY DEF FileActivity
  <2>4. Sensitive(b) <=> Sensitive(a)
    BY <2>2 DEF Sensitive
  <2> QED BY <1>2, <2>2, <2>3, <2>4 DEF b
<1> QED BY <1>1, <1>2

LEMMA NoActivityTyped ==
    /\ NoActivity \in FileActivity /\ NoActivity.total = 0 /\ NoActivity.distinct = {}
    /\ NoActivity.categories = {} /\ IsFiniteSet(NoActivity.distinct)
    /\ ~Sensitive(NoActivity)
BY FS_EmptySet DEF NoActivity, FileActivity, Sensitive
-----------------------------------------------------------------------------
(***************************************************************************)
(* What the buffers hold                                                   *)
(***************************************************************************)

BufferOK(a) == a \in FileActivity /\ IsFiniteSet(a.distinct) /\ (a.categories # {} <=> Sensitive(a))

BuffersOK == \A r \in Labels, s \in 0 .. 1 : BufferOK(activity[r][s])

\* The same, in the words of the model.
LEMMA BuffersMean ==
    ASSUME activity \in [Labels -> [0 .. 1 -> FileActivity]]
    PROVE  BuffersOK <=>
              /\ \A r \in Labels, s \in 0 .. 1 : IsFiniteSet(activity[r][s].distinct)
              /\ SensitiveMeansWritten
<1>1. \A r \in Labels, s \in 0 .. 1 : activity[r][s] \in FileActivity
  OBVIOUS
<1> QED BY <1>1 DEF BuffersOK, BufferOK, SensitiveMeansWritten, Sensitive

LEMMA NoActivityOK == BufferOK(NoActivity) /\ NoActivity.total = 0
BY NoActivityTyped DEF BufferOK

\* A step that changes one slot, and what that means for each of them.
Assigns(r, s, b) == activity' = [activity EXCEPT ![r][s] = b]

Assigned(r, s, b) ==
    /\ activity' \in [Labels -> [0 .. 1 -> FileActivity]] /\ BuffersOK'
    /\ activity'[r][s] = b
    /\ \A q \in Labels, t \in 0 .. 1 : q # r \/ t # s => activity'[q][t] = activity[q][t]

LEMMA SlotChanges ==
    ASSUME activity \in [Labels -> [0 .. 1 -> FileActivity]], BuffersOK,
           NEW r \in Labels, NEW s \in 0 .. 1, NEW b, BufferOK(b),
           Assigns(r, s, b)
    PROVE  Assigned(r, s, b)
<1>1. b \in FileActivity
  BY DEF BufferOK
<1>2. /\ activity' \in [Labels -> [0 .. 1 -> FileActivity]]
      /\ \A q \in Labels, t \in 0 .. 1 :
            activity'[q][t] = IF q = r /\ t = s THEN b ELSE activity[q][t]
  BY <1>1 DEF Assigns
<1>3. ASSUME NEW q \in Labels, NEW t \in 0 .. 1 PROVE BufferOK(activity'[q][t])
  BY <1>2 DEF BuffersOK
<1> QED BY <1>2, <1>3 DEF BuffersOK, Assigned

\* What EndRecord makes of its slot.
LEMMA RecordChanges ==
    ASSUME TypeOK, BuffersOK, EndRecord
    PROVE  /\ activity' \in [Labels -> [0 .. 1 -> FileActivity]] /\ BuffersOK'
           /\ writer.root \in Labels /\ writer.slot \in 0 .. 1
           /\ \A q \in Labels, t \in 0 .. 1 :
                 activity'[q][t].total = activity[q][t].total +
                    (IF q = writer.root /\ t = writer.slot /\ writer.type \in MutationEvents
                     THEN 1 ELSE 0)
<1>1. /\ writer.root \in Labels /\ writer.slot \in 0 .. 1
      /\ writer.type \in EventTypes /\ writer.path \in Paths
  BY DEF EndRecord, TypeOK
<1> DEFINE a == activity[writer.root][writer.slot]
           b == Counted(a, writer.type, writer.path)
<1>2. BufferOK(a)
  BY <1>1 DEF BuffersOK
<1>3. BufferOK(b) /\ b.total = a.total + (IF writer.type \in MutationEvents THEN 1 ELSE 0)
  BY <1>1, <1>2, CountedTyped DEF BufferOK
<1>4. Assigns(writer.root, writer.slot, b)
  BY DEF EndRecord, Assigns
<1> HIDE DEF b
<1>5. /\ activity' \in [Labels -> [0 .. 1 -> FileActivity]] /\ BuffersOK'
      /\ \A q \in Labels, t \in 0 .. 1 :
            activity'[q][t] = IF q = writer.root /\ t = writer.slot THEN b ELSE activity[q][t]
  <2> HIDE DEF a
  <2>1. activity \in [Labels -> [0 .. 1 -> FileActivity]]
    BY DEF TypeOK
  <2>2. Assigned(writer.root, writer.slot, b)
    BY <2>1, <1>1, <1>3, <1>4, SlotChanges
  <2> QED BY <2>2 DEF Assigned
<1>6. \A q \in Labels, t \in 0 .. 1 : activity[q][t].total \in Nat
  BY DEF TypeOK, FileActivity
<1> QED BY <1>1, <1>3, <1>5, <1>6

\* What drain() does to the slots of its root.
LEMMA SwapChanges ==
    ASSUME TypeOK, BuffersOK, NEW r \in Labels, Swap(r)
    PROVE  /\ activity' \in [Labels -> [0 .. 1 -> FileActivity]] /\ BuffersOK'
           /\ current' \in [Labels -> 0 .. 1]
           /\ \A q \in Labels : current'[q] = IF q = r THEN 1 - current[r] ELSE current[q]
           /\ \A q \in Labels, t \in 0 .. 1 :
                 activity'[q][t] = IF q = r /\ t = 1 - current[r] THEN NoActivity ELSE activity[q][t]
<1>1. 1 - current[r] \in 0 .. 1
  BY DEF TypeOK
<1>2. /\ current' \in [Labels -> 0 .. 1]
      /\ \A q \in Labels : current'[q] = IF q = r THEN 1 - current[r] ELSE current[q]
  BY <1>1 DEF TypeOK, Swap
<1>3. Assigns(r, 1 - current[r], NoActivity)
  BY DEF Swap, Assigns
<1>4. activity \in [Labels -> [0 .. 1 -> FileActivity]]
  BY DEF TypeOK
<1>5. Assigned(r, 1 - current[r], NoActivity)
  BY <1>1, <1>3, <1>4, SlotChanges, NoActivityOK
<1> QED BY <1>2, <1>5 DEF Assigned

\* What LetGo does.
LEMMA LetGoChanges ==
    ASSUME TypeOK, BuffersOK, drained # NotDrained, LetGo
    PROVE  /\ activity' \in [Labels -> [0 .. 1 -> FileActivity]] /\ BuffersOK'
           /\ drained.root \in Labels /\ drained.slot \in 0 .. 1
           /\ \A q \in Labels, t \in 0 .. 1 :
                 activity'[q][t] = IF q = drained.root /\ t = drained.slot
                                   THEN NoActivity ELSE activity[q][t]
<1>1. drained.root \in Labels /\ drained.slot \in 0 .. 1
  BY DEF TypeOK
<1>2. Assigns(drained.root, drained.slot, NoActivity)
  BY DEF LetGo, Assigns
<1>3. activity \in [Labels -> [0 .. 1 -> FileActivity]]
  BY DEF TypeOK
<1>4. Assigned(drained.root, drained.slot, NoActivity)
  BY <1>1, <1>2, <1>3, SlotChanges, NoActivityOK
<1> QED BY <1>1, <1>4 DEF Assigned
-----------------------------------------------------------------------------
(***************************************************************************)
(* Types, the lock and the order of the sweep                              *)
(***************************************************************************)

\* The event of a root that has changes.
LEMMA DescribeTyped ==
    ASSUME TypeOK, HistoryOK, drained # NotDrained, InHand.total > 0
    PROVE  Describe(drained.root, InHand) \in Event
<1>1. drained.root \in Labels /\ drained.slot \in 0 .. 1
  BY DEF TypeOK
<1> DEFINE a == InHand
<1>2. a \in FileActivity /\ IsFiniteSet(a.distinct)
  BY <1>1 DEF TypeOK, HistoryOK, InHand
<1>3. a.total > 0
  OBVIOUS
<1> HIDE DEF a
<1>4. /\ a.total \in Nat \ {0} /\ a.ignored \in Nat /\ a.categories \in SUBSET Category
      /\ Cardinality(a.distinct) \in Nat
  BY <1>2, <1>3, FS_CardinalityType DEF FileActivity
<1> DEFINE rate == IF window > 0 THEN <<a.total, window>> ELSE <<>>
<1>5. rate \in {<<>>} \cup ((Nat \ {0}) \X (Nat \ {0}))
  BY <1>4 DEF TypeOK
<1> HIDE DEF rate
<1>6. [root |-> drained.root, total |-> a.total, ignored |-> a.ignored,
       distinct |-> Cardinality(a.distinct), categories |-> a.categories, rate |-> rate] \in Event
  BY <1>1, <1>4, <1>5 DEF Event
<1> QED BY <1>6 DEF Describe, a, rate

LEMMA TypeInductive == Core /\ [Next]_vars => TypeOK' /\ HistoryOK' /\ SensitiveMeansWritten'
<1> SUFFICES ASSUME Core, [Next]_vars PROVE TypeOK' /\ HistoryOK' /\ SensitiveMeansWritten'
  OBVIOUS
<1> DEFINE Activities == [Labels -> [0 .. 1 -> FileActivity]]
<1>a. activity \in Activities /\ BuffersOK
  BY BuffersMean DEF Core, TypeOK, HistoryOK
<1>l. Len(roots) \in Nat /\ DOMAIN roots = 1 .. Len(roots) /\ \A i \in DOMAIN roots : roots[i] \in Labels
  BY DEF Core, TypeOK
<1>d. drained # NotDrained => next \in 1 .. Len(roots) /\ drained.root \in Labels
  BY <1>l DEF Core, TypeOK, SlotsApart
<1>b. SUFFICES /\ activity' \in Activities /\ BuffersOK' /\ TypeOK'
               /\ counted' \in [Labels -> Nat] /\ reported' \in [Labels -> Nat]
               /\ lost' \in [Labels -> Nat] /\ since' \in [Labels -> Nat]
               /\ behind' \subseteq Labels /\ notices' \in Nat /\ faults' \in Nat
  <2>1. ASSUME activity' \in Activities
        PROVE  BuffersOK' => /\ \A r \in Labels, s \in 0 .. 1 : IsFiniteSet(activity'[r][s].distinct)
                             /\ SensitiveMeansWritten'
    <3>1. \A r \in Labels, s \in 0 .. 1 : activity'[r][s] \in FileActivity
      BY <2>1
    <3> QED BY <3>1 DEF BuffersOK, BufferOK, SensitiveMeansWritten, Sensitive
  <2> HIDE DEF Activities
  <2> QED BY <2>1, Zenon DEF HistoryOK
<1> HIDE DEF Activities
<1> USE DEF Core
<1>1. CASE Construct
  <2>1. PICK existing : roots' = DefaultWatchRoots(existing)
    BY <1>1 DEF Construct
  <2>2. roots' \in Seq(Labels)
    BY <2>1, WatchRootsTyped DEF PickedFrom
  <2>3. next' \in 0 .. Len(roots') + 1
    <3>1. next' = 0 /\ Len(roots') \in Nat
      BY <1>1, <2>2 DEF Construct, SweepInOrder, Idle, sweep
    <3> QED BY <3>1
  <2> QED BY <1>1, <1>a, <2>2, <2>3
        DEF Construct, TypeOK, HistoryOK, BuffersOK, buffers, sweep, history, Activities
<1>2. CASE Start
  <2>1. ToSet(roots) \subseteq Labels
    BY <1>l DEF ToSet
  <2>2. watched' \subseteq Labels /\ unwatchable' \subseteq Labels
    BY <1>2, <2>1 DEF Start
  <2> QED BY <1>2, <1>a, <2>2
        DEF Start, TypeOK, HistoryOK, BuffersOK, buffers, sweep, history, Activities
<1>3. CASE StartClock
  BY <1>3, <1>a DEF StartClock, TypeOK, HistoryOK, BuffersOK, buffers, Activities
<1>4. CASE Close
  BY <1>4, <1>a DEF Close, TypeOK, HistoryOK, BuffersOK, buffers, sweep, history, Activities
<1>5. CASE \E r \in Labels, type \in EventTypes, path \in Paths : BeginRecord(r, type, path)
  <2> PICK r \in Labels, type \in EventTypes, path \in Paths : BeginRecord(r, type, path)
    BY <1>5
  <2>1. writer' \in [root : Labels, slot : 0 .. 1, type : EventTypes, path : Paths]
    BY DEF BeginRecord, TypeOK
  <2>2. notices' \in Nat
    BY DEF BeginRecord, HistoryOK
  <2> QED BY <1>a, <2>1, <2>2 DEF BeginRecord, TypeOK, HistoryOK, BuffersOK, life, sweep, history, Activities
<1>6. CASE EndRecord
  <2>1. activity' \in Activities /\ BuffersOK'
    BY <1>6, <1>a, RecordChanges DEF Activities
  <2>2. counted' \in [Labels -> Nat]
    <3>1. writer.root \in Labels /\ counted[writer.root] \in Nat
      BY <1>6 DEF EndRecord, TypeOK, HistoryOK
    <3>2. (IF writer.type \in MutationEvents THEN counted[writer.root] + 1 ELSE counted[writer.root])
             \in Nat
      BY <3>1
    <3> QED BY <1>6, <3>2 DEF EndRecord, HistoryOK
  <2> QED BY <1>6, <2>1, <2>2 DEF EndRecord, TypeOK, HistoryOK, life, sweep, Activities
<1>7. CASE BeginSweep
  BY <1>7, <1>a, <1>l DEF BeginSweep, TypeOK, HistoryOK, BuffersOK, life, buffers, history, Activities
<1>8. CASE Drain
  <2>1. roots[next] \in Labels /\ Swap(roots[next])
    BY <1>8, <1>l DEF Drain
  <2>2. activity' \in Activities /\ BuffersOK' /\ current' \in [Labels -> 0 .. 1]
    BY <1>a, <2>1, SwapChanges DEF Activities
  <2>3. drained' \in [root : Labels, slot : 0 .. 1, span : Int, late : BOOLEAN]
    <3>1. current[roots[next]] \in 0 .. 1 /\ lastSweep - since[roots[next]] \in Int
      <4>1. current \in [Labels -> 0 .. 1] /\ since \in [Labels -> Nat] /\ lastSweep \in Nat
        BY DEF TypeOK, HistoryOK
      <4>2. since[roots[next]] \in Nat
        BY <2>1, <4>1
      <4> QED BY <2>1, <4>1, <4>2
    <3>2. (roots[next] \in behind) \in BOOLEAN
      <4>1. CASE roots[next] \in behind
        BY <4>1
      <4>2. CASE roots[next] \notin behind
        BY <4>2
      <4> QED BY <4>1, <4>2
    <3>3. drained' = [root |-> roots[next], slot |-> current[roots[next]],
                      span |-> lastSweep - since[roots[next]], late |-> roots[next] \in behind]
      BY <2>1, Zenon DEF Swap
    <3> QED BY <2>1, <3>1, <3>2, <3>3, Zenon
  <2>4. since' \in [Labels -> Nat] /\ behind' \subseteq Labels
    BY <2>1 DEF Swap, TypeOK, HistoryOK
  <2> QED BY <2>1, <2>2, <2>3, <2>4 DEF Swap, TypeOK, HistoryOK, life, Activities
<1>9. CASE Skip
  <2>1. activity' \in Activities /\ BuffersOK'
    BY <1>9, <1>a, LetGoChanges DEF Skip, Activities
  <2>2. next' \in 0 .. Len(roots) + 1
    BY <1>9, <1>l, <1>d DEF Skip
  <2> QED BY <1>9, <2>1, <2>2 DEF Skip, LetGo, TypeOK, HistoryOK, life, history, Activities
<1>10. CASE Yield
  <2>1. activity' \in Activities /\ BuffersOK'
    BY <1>10, <1>a, LetGoChanges DEF Yield, Activities
  <2>2. next' \in 0 .. Len(roots) + 1
    BY <1>10, <1>l, <1>d DEF Yield
  <2>3. events' \in Seq(Event)
    <3>1. Describe(drained.root, InHand) \in Event
      BY <1>10, DescribeTyped DEF Yield
    <3> QED BY <1>10, <3>1 DEF Yield, TypeOK
  <2> QED BY <1>10, <2>1, <2>2, <2>3 DEF Yield, LetGo, TypeOK, HistoryOK, life, history, Activities
<1>11. CASE EndSweep
  <2>1. reported' \in [Labels -> Nat]
    BY <1>11, TotalOfTyped DEF EndSweep, TypeOK, HistoryOK
  <2> QED BY <1>11, <1>a, <1>l, <2>1
        DEF EndSweep, Over, TypeOK, HistoryOK, BuffersOK, life, buffers, Activities
<1>12. CASE SweepRaises
  <2>1. activity' \in Activities /\ BuffersOK'
    BY <1>12, <1>a, LetGoChanges DEF SweepRaises, Activities
  <2>2. lost' \in [Labels -> Nat]
    <3>1. InHand.total \in Nat
      <4>1. drained.root \in Labels /\ drained.slot \in 0 .. 1
        BY <1>12 DEF SweepRaises, TypeOK
      <4>2. InHand \in FileActivity
        BY <1>a, <4>1 DEF InHand, BuffersOK, BufferOK
      <4> QED BY <4>2 DEF FileActivity
    <3>2. \A r \in Labels : HandTotal(r) \in Nat
      BY <3>1 DEF HandTotal
    <3>3. \A r \in Labels : TotalOf(r, events) \in Nat /\ lost[r] \in Nat
      BY TotalOfTyped DEF TypeOK, HistoryOK
    <3>4. \A r \in Labels : lost[r] + TotalOf(r, events) + HandTotal(r) \in Nat
      BY <3>2, <3>3
    <3> QED BY <1>12, <3>4 DEF SweepRaises
  <2>3. behind' \subseteq Labels
    <3>1. behind' = behind \cup {roots[i] : i \in next + 1 .. Len(roots)} /\ behind \subseteq Labels
      BY <1>12 DEF SweepRaises, HistoryOK
    <3>2. next \in Nat
      BY <1>12, <1>d DEF SweepRaises
    <3>3. \A i \in next + 1 .. Len(roots) : roots[i] \in Labels
      BY <1>l, <3>2
    <3> QED BY <3>1, <3>3
  <2>4. faults' \in Nat
    BY <1>12 DEF SweepRaises, Fault, HistoryOK
  <2>5. next' \in 0 .. Len(roots') + 1 /\ events' \in Seq(Event) /\ window' \in Int
    BY <1>12, <1>l DEF SweepRaises, Over, life
  <2>6. drained' = NotDrained /\ UNCHANGED <<life, lastSweep, clock, counted, reported, since, notices,
                                             current, writer>>
    BY <1>12 DEF SweepRaises, LetGo
  <2> QED BY <2>1, <2>2, <2>3, <2>4, <2>5, <2>6 DEF TypeOK, HistoryOK, life, Activities
<1>13. CASE Tick
  BY <1>13, <1>a DEF Tick, TypeOK, HistoryOK, BuffersOK, life, buffers, sweep, history, Activities
<1>14. CASE SetClockBack
  BY <1>14, <1>a DEF SetClockBack, Fault, TypeOK, HistoryOK, BuffersOK, life, buffers, sweep, history, Activities
<1>15. CASE UNCHANGED vars
  BY <1>15, <1>a DEF TypeOK, HistoryOK, BuffersOK, vars, life, buffers, sweep, history, Activities
<1> QED BY <1>1, <1>2, <1>3, <1>4, <1>5, <1>6, <1>7, <1>8, <1>9, <1>10, <1>11, <1>12, <1>13, <1>14,
           <1>15 DEF Next, Dispatcher, Collect

LEMMA ControlInductive == Core /\ [Next]_vars => SlotsApart' /\ SweepInOrder'
<1> SUFFICES ASSUME Core, [Next]_vars PROVE SlotsApart' /\ SweepInOrder'
  OBVIOUS
<1>l. Len(roots) \in Nat /\ DOMAIN roots = 1 .. Len(roots) /\ \A i \in DOMAIN roots : roots[i] \in Labels
  BY DEF Core, TypeOK
<1>n. NoWriter.root = "none" /\ "none" \notin Labels
  BY MonitorAssumption DEF NoWriter
<1> USE DEF Core
<1>1. CASE Construct
  <2>1. PICK existing : roots' = DefaultWatchRoots(existing)
    BY <1>1 DEF Construct
  <2>2. \A i \in DOMAIN roots', j \in DOMAIN roots' : roots'[i] = roots'[j] => i = j
    BY <2>1, WatchRootsTyped DEF PickedFrom
  <2>3. next = 0 /\ drained = NotDrained
    BY <1>1 DEF Construct, SweepInOrder, Idle
  <2> QED BY <1>1, <2>2, <2>3 DEF Construct, SlotsApart, SweepInOrder, Idle, buffers, sweep
<1>2. CASE Start
  BY <1>2 DEF Start, SlotsApart, SweepInOrder, Idle, buffers, sweep
<1>3. CASE StartClock
  BY <1>3 DEF StartClock, SlotsApart, SweepInOrder, Idle, buffers
<1>4. CASE Close
  BY <1>4 DEF Close, SlotsApart, SweepInOrder, Idle, buffers, sweep
<1>5. CASE \E r \in Labels, type \in EventTypes, path \in Paths : BeginRecord(r, type, path)
  <2> PICK r \in Labels, type \in EventTypes, path \in Paths : BeginRecord(r, type, path)
    BY <1>5
  <2>1. writer'.slot = current'[writer'.root]
    BY DEF BeginRecord
  <2> QED BY <2>1 DEF BeginRecord, SlotsApart, SweepInOrder, Idle, life, sweep
<1>6. CASE EndRecord
  BY <1>6 DEF EndRecord, SlotsApart, SweepInOrder, Idle, life, sweep
<1>7. CASE BeginSweep
  BY <1>7 DEF BeginSweep, SlotsApart, SweepInOrder, Idle, life, buffers
<1>8. CASE Drain
  <2> DEFINE r == roots[next]
  <2>1. r \in Labels /\ Swap(r) /\ writer.root # r /\ next \in DOMAIN roots
    BY <1>8, <1>l DEF Drain
  <2>2. /\ current' \in [Labels -> 0 .. 1]
        /\ \A q \in Labels : current'[q] = IF q = r THEN 1 - current[r] ELSE current[q]
    BY <2>1 DEF Swap, TypeOK
  <2>3. writer' # NoWriter => writer'.slot = current'[writer'.root]
    <3>1. writer' = writer /\ (writer # NoWriter => writer.root \in Labels)
      BY <2>1 DEF Swap, TypeOK
    <3> QED BY <2>1, <2>2, <3>1 DEF SlotsApart
  <2>4. drained'.root = r /\ drained'.slot = current[r]
    BY <2>1 DEF Swap
  <2>5. drained'.slot = 1 - current'[r]
    BY <2>1, <2>2, <2>4 DEF TypeOK
  <2>6. UNCHANGED <<roots, next, stage, events, window>>
    BY <2>1 DEF Swap, life
  <2>7. next # 0
    BY <2>1, <1>l
  <2> QED BY <2>1, <2>3, <2>4, <2>5, <2>6, <2>7 DEF SlotsApart, SweepInOrder, Idle
<1>9. CASE Skip
  <2>1. next' # 0 /\ next # 0
    BY <1>9, <1>l DEF Skip, SlotsApart
  <2> QED BY <1>9, <2>1 DEF Skip, LetGo, SlotsApart, SweepInOrder, Idle, life
<1>10. CASE Yield
  <2>1. next' # 0 /\ next # 0
    BY <1>10, <1>l DEF Yield, SlotsApart
  <2> QED BY <1>10, <2>1 DEF Yield, LetGo, SlotsApart, SweepInOrder, Idle, life
<1>11. CASE EndSweep
  <2>1. drained = NotDrained
    BY <1>11, <1>l DEF EndSweep, SlotsApart
  <2> QED BY <1>11, <2>1 DEF EndSweep, Over, SlotsApart, SweepInOrder, Idle, life, buffers
<1>12. CASE SweepRaises
  BY <1>12 DEF SweepRaises, Over, LetGo, SlotsApart, SweepInOrder, Idle, life
<1>13. CASE Tick
  BY <1>13 DEF Tick, SlotsApart, SweepInOrder, Idle, life, buffers, sweep
<1>14. CASE SetClockBack
  BY <1>14 DEF SetClockBack, SlotsApart, SweepInOrder, Idle, life, buffers, sweep
<1>15. CASE UNCHANGED vars
  BY <1>15 DEF SlotsApart, SweepInOrder, Idle, vars, life, buffers, sweep
<1> QED BY <1>1, <1>2, <1>3, <1>4, <1>5, <1>6, <1>7, <1>8, <1>9, <1>10, <1>11, <1>12, <1>13, <1>14,
           <1>15 DEF Next, Dispatcher, Collect
-----------------------------------------------------------------------------
(***************************************************************************)
(* The window of a rate                                                    *)
(***************************************************************************)

Windows == DrainedInTurn /\ RateOverOwnWindow

LEMMA WindowInductive == Core /\ Core' /\ Windows /\ [Next]_vars => Windows'
<1> SUFFICES ASSUME Core, Core', Windows, [Next]_vars PROVE Windows'
  OBVIOUS
<1>l. Len(roots) \in Nat /\ DOMAIN roots = 1 .. Len(roots) /\ \A i \in DOMAIN roots : roots[i] \in Labels
  BY DEF Core, TypeOK
<1>t. next \in Nat /\ lastSweep \in Nat /\ window \in Int /\ clock \in Nat /\ since \in [Labels -> Nat]
  BY DEF Core, TypeOK, HistoryOK
<1> USE DEF Core, Windows
<1>1. CASE Construct
  BY <1>1 DEF Construct, SweepInOrder, DrainedInTurn, RateOverOwnWindow, sweep
<1>2. CASE Start
  BY <1>2 DEF Start, SweepInOrder, DrainedInTurn, RateOverOwnWindow, sweep
<1>3. CASE StartClock
  <2>1. Idle /\ drained = NotDrained
    BY <1>3 DEF StartClock, SweepInOrder
  <2> QED BY <1>3, <1>l, <2>1 DEF StartClock, DrainedInTurn, RateOverOwnWindow, Ahead, Idle
<1>4. CASE Close
  BY <1>4 DEF Close, DrainedInTurn, RateOverOwnWindow, sweep
<1>5. CASE \E r \in Labels, type \in EventTypes, path \in Paths : BeginRecord(r, type, path)
  BY <1>5 DEF BeginRecord, DrainedInTurn, RateOverOwnWindow, Ahead, Idle, life, sweep, history
<1>6. CASE EndRecord
  BY <1>6 DEF EndRecord, DrainedInTurn, RateOverOwnWindow, Ahead, Idle, life, sweep
<1>7. CASE BeginSweep
  <2>1. drained = NotDrained /\ drained' = NotDrained /\ next' = 1 /\ next = 0
    BY <1>7 DEF BeginSweep, SweepInOrder, Idle
  <2>2. ASSUME NEW i \in DOMAIN roots PROVE Ahead(i)' /\ ~Ahead(i)
    BY <1>l, <2>1 DEF Ahead, Idle
  <2>3. lastSweep' - window' = lastSweep
    BY <1>7, <1>t DEF BeginSweep
  <2>4. UNCHANGED <<stage, roots, since, behind>> /\ stage = "running"
    BY <1>7 DEF BeginSweep, life, history
  <2> QED BY <2>1, <2>2, <2>3, <2>4 DEF DrainedInTurn, RateOverOwnWindow
<1>8. CASE Drain
  <2> DEFINE r == roots[next]
  <2>1. r \in Labels /\ Swap(r) /\ next \in DOMAIN roots /\ drained = NotDrained
    BY <1>8, <1>l DEF Drain
  <2>2. /\ \A q \in Labels : since'[q] = IF q = r THEN lastSweep ELSE since[q]
        /\ behind' = behind \ {r}
        /\ UNCHANGED <<stage, roots, next, lastSweep, window>>
    BY <1>t, <2>1 DEF Swap, life
  <2>3. next # 0
    BY <2>1, <1>l
  <2>4. drained' # NotDrained
    BY <2>1, MonitorAssumption DEF Swap, NotDrained
  <2>5. stage = "running" /\ Ahead(next)
    BY <2>1, <2>3 DEF SweepInOrder, Ahead, Idle
  <2>6. \A i \in DOMAIN roots : Ahead(i)' <=> Ahead(i) /\ i # next
    BY <1>l, <1>t, <2>1, <2>2, <2>3, <2>4 DEF Ahead, Idle
  <2>7. \A i \in DOMAIN roots : i # next => roots[i] # r
    BY <2>1 DEF SweepInOrder
  <2>8. DrainedInTurn'
    <3>1. ASSUME NEW i \in DOMAIN roots, roots[i] \notin behind'
          PROVE  since'[roots[i]] = IF Ahead(i)' THEN lastSweep - window ELSE lastSweep
      <4>1. CASE i = next
        BY <4>1, <2>1, <2>2, <2>6
      <4>2. CASE i # next
        <5>1. roots[i] \notin behind /\ since'[roots[i]] = since[roots[i]]
          BY <4>2, <3>1, <2>2, <2>7, <1>l
        <5>2. since[roots[i]] = IF Ahead(i) THEN lastSweep - window ELSE lastSweep
          BY <5>1, <2>5 DEF DrainedInTurn
        <5> QED BY <4>2, <5>1, <5>2, <2>6
      <4> QED BY <4>1, <4>2
    <3> QED BY <2>2, <3>1 DEF DrainedInTurn
  <2>9. RateOverOwnWindow'
    <3>1. drained'.span = lastSweep - since[r] /\ drained'.late = (r \in behind)
      BY <2>1 DEF Swap
    <3>2. r \notin behind => since[r] = lastSweep - window
      BY <2>1, <2>5 DEF DrainedInTurn
    <3>3. r \notin behind => window' = drained'.span
      BY <1>t, <2>1, <2>2, <3>1, <3>2
    <3> QED BY <3>1, <3>3 DEF RateOverOwnWindow
  <2> QED BY <2>8, <2>9
<1>9. CASE Skip \/ Yield
  <2>1. /\ drained # NotDrained /\ drained' = NotDrained /\ next' = next + 1
        /\ UNCHANGED <<stage, roots, lastSweep, window, since, behind>>
    BY <1>9 DEF Skip, Yield, LetGo, life, history
  <2>2. next # 0 /\ next' # 0
    BY <1>l, <2>1 DEF SlotsApart
  <2>3. \A i \in DOMAIN roots : Ahead(i)' <=> Ahead(i)
    BY <1>l, <1>t, <2>1, <2>2 DEF Ahead, Idle
  <2> QED BY <2>1, <2>3 DEF DrainedInTurn, RateOverOwnWindow
<1>10. CASE EndSweep
  <2>1. \A i \in DOMAIN roots : ~Ahead(i) /\ ~Ahead(i)'
    BY <1>10, <1>l DEF EndSweep, Over, Ahead, Idle
  <2>2. drained' = NotDrained
    BY <1>10, <1>l DEF EndSweep, SlotsApart
  <2> QED BY <1>10, <2>1, <2>2 DEF EndSweep, DrainedInTurn, RateOverOwnWindow, life
<1>11. CASE SweepRaises
  <2>1. /\ drained' = NotDrained /\ next' = 0 /\ UNCHANGED <<stage, roots, lastSweep, since>>
        /\ behind' = behind \cup {roots[i] : i \in next + 1 .. Len(roots)}
    BY <1>11 DEF SweepRaises, Over, LetGo, life
  <2>2. drained # NotDrained
    BY <1>11 DEF SweepRaises
  <2>3. ASSUME NEW i \in DOMAIN roots, roots[i] \notin behind' PROVE ~Ahead(i) /\ ~Ahead(i)'
    <3>1. ~ (i > next)
      BY <1>l, <1>t, <2>1, <2>3
    <3> QED BY <3>1, <2>1, <2>2 DEF Ahead, Idle
  <2> QED BY <2>1, <2>3 DEF DrainedInTurn, RateOverOwnWindow
<1>12. CASE Tick
  BY <1>12 DEF Tick, DrainedInTurn, RateOverOwnWindow, Ahead, Idle, life, sweep, history
<1>13. CASE SetClockBack
  BY <1>13 DEF SetClockBack, DrainedInTurn, RateOverOwnWindow, Ahead, Idle, life, sweep, history
<1>14. CASE UNCHANGED vars
  BY <1>14 DEF DrainedInTurn, RateOverOwnWindow, Ahead, Idle, vars, life, sweep, history
<1> QED BY <1>1, <1>2, <1>3, <1>4, <1>5, <1>6, <1>7, <1>8, <1>9, <1>10, <1>11, <1>12, <1>13, <1>14
        DEF Next, Dispatcher, Collect
-----------------------------------------------------------------------------
(***************************************************************************)
(* Where a change is                                                       *)
(***************************************************************************)

\* The numbers that NoChangeMiscounted adds up.
LEMMA PlacesTyped ==
    ASSUME Core
    PROVE  \A r \in Labels :
              /\ current[r] \in 0 .. 1 /\ activity[r][current[r]].total \in Nat /\ HandTotal(r) \in Nat
              /\ TotalOf(r, events) \in Nat /\ counted[r] \in Nat /\ reported[r] \in Nat
              /\ lost[r] \in Nat
<1> TAKE r \in Labels
<1>1. \A q \in Labels, s \in 0 .. 1 : activity[q][s].total \in Nat
  BY DEF Core, TypeOK, FileActivity
<1>2. current[r] \in 0 .. 1
  BY DEF Core, TypeOK
<1>3. HandTotal(r) \in Nat
  <2>1. drained.root = r => drained # NotDrained
    BY MonitorAssumption DEF NotDrained
  <2> QED BY <1>1, <2>1 DEF HandTotal, InHand, Core, TypeOK
<1>4. TotalOf(r, events) \in Nat
  BY TotalOfTyped DEF Core, TypeOK
<1> QED BY <1>1, <1>2, <1>3, <1>4 DEF Core, HistoryOK

\* With nothing drained there is nothing in hand.
LEMMA EmptyHand == drained = NotDrained => \A r \in Labels : HandTotal(r) = 0
BY MonitorAssumption DEF NotDrained, HandTotal

LEMMA CountInductive ==
    Core /\ Core' /\ NoChangeMiscounted /\ [Next]_vars => NoChangeMiscounted'
<1> SUFFICES ASSUME Core, Core', NoChangeMiscounted, [Next]_vars, NEW r \in Labels
             PROVE  counted'[r] = activity'[r][current'[r]].total + HandTotal(r)'
                                  + TotalOf(r, events') + reported'[r] + lost'[r]
  BY Zenon DEF NoChangeMiscounted
<1>b. BuffersOK /\ TypeOK
  BY BuffersMean DEF Core, TypeOK, HistoryOK
<1>e. counted[r] = activity[r][current[r]].total + HandTotal(r) + TotalOf(r, events)
                   + reported[r] + lost[r]
  BY DEF NoChangeMiscounted
<1>p. /\ current[r] \in 0 .. 1 /\ activity[r][current[r]].total \in Nat /\ HandTotal(r) \in Nat
      /\ TotalOf(r, events) \in Nat /\ counted[r] \in Nat /\ reported[r] \in Nat
      /\ lost[r] \in Nat
  BY PlacesTyped
<1>s. SUFFICES ASSUME ~ UNCHANGED <<activity, current, drained, events, counted, reported, lost>>
               PROVE  counted'[r] = activity'[r][current'[r]].total + HandTotal(r)'
                                    + TotalOf(r, events') + reported'[r] + lost'[r]
  BY <1>e DEF HandTotal, InHand
<1>1. CASE EndRecord
  <2>1. /\ writer.root \in Labels /\ writer.slot \in 0 .. 1
        /\ \A q \in Labels, t \in 0 .. 1 :
              activity'[q][t].total = activity[q][t].total +
                 (IF q = writer.root /\ t = writer.slot /\ writer.type \in MutationEvents
                  THEN 1 ELSE 0)
    BY <1>1, <1>b, RecordChanges
  <2>2. writer.slot = current[writer.root]
    BY <1>1 DEF EndRecord, Core, SlotsApart
  <2>3. UNCHANGED <<current, drained, events, reported, lost>>
    BY <1>1 DEF EndRecord, sweep
  <2> DEFINE one == IF r = writer.root /\ writer.type \in MutationEvents THEN 1 ELSE 0
  <2>4. activity'[r][current[r]].total = activity[r][current[r]].total + one
    BY <1>p, <2>1, <2>2
  <2>5. counted'[r] = counted[r] + one
    BY <1>1, <1>p, <2>1 DEF EndRecord, Core, HistoryOK
  <2>6. HandTotal(r)' = HandTotal(r)
    <3>1. CASE drained.root = r
      <4>1. drained # NotDrained
        BY <3>1, MonitorAssumption DEF NotDrained
      <4>2. drained.slot \in 0 .. 1 /\ drained.slot = 1 - current[r]
        BY <3>1, <4>1 DEF Core, TypeOK, SlotsApart
      <4>3. activity'[r][drained.slot].total = activity[r][drained.slot].total
        <5>1. activity[r][drained.slot].total \in Nat
          <6>1. activity[r][drained.slot] \in FileActivity
            BY <1>b, <4>2 DEF BuffersOK, BufferOK
          <6> QED BY <6>1 DEF FileActivity
        <5>2. r = writer.root => drained.slot # writer.slot
          BY <1>p, <2>2, <4>2
        <5> QED BY <2>1, <4>2, <5>1, <5>2
      <4> QED BY <2>3, <3>1, <4>3 DEF HandTotal, InHand
    <3>2. CASE drained.root # r
      BY <2>3, <3>2 DEF HandTotal
    <3> QED BY <3>1, <3>2
  <2>7. one \in Nat
    OBVIOUS
  <2> HIDE DEF one
  <2> QED BY <1>e, <1>p, <2>3, <2>4, <2>5, <2>6, <2>7
<1>2. CASE Drain
  <2> DEFINE q == roots[next]
  <2>1. q \in Labels /\ Swap(q) /\ drained = NotDrained
    BY <1>2 DEF Drain, Core, TypeOK
  <2>2. /\ \A p \in Labels : current'[p] = IF p = q THEN 1 - current[q] ELSE current[p]
        /\ \A p \in Labels, t \in 0 .. 1 :
              activity'[p][t] = IF p = q /\ t = 1 - current[q] THEN NoActivity ELSE activity[p][t]
    BY <1>b, <2>1, SwapChanges
  <2>3. drained'.root = q /\ drained'.slot = current[q] /\ UNCHANGED <<events, counted, reported, lost>>
    BY <2>1 DEF Swap
  <2>4. HandTotal(r) = 0
    BY <2>1, EmptyHand
  <2>5. CASE r = q
    <3>1. activity'[r][current'[r]] = NoActivity
      BY <1>p, <2>2, <2>5
    <3>2. HandTotal(r)' = activity[r][current[r]].total
      <4>1. activity'[r][current[r]] = activity[r][current[r]]
        BY <1>p, <2>2, <2>5
      <4> QED BY <2>3, <2>5, <4>1 DEF HandTotal, InHand
    <3> QED BY <1>e, <1>p, <2>3, <2>4, <3>1, <3>2, NoActivityOK
  <2>6. CASE r # q
    <3>1. activity'[r][current'[r]] = activity[r][current[r]]
      BY <1>p, <2>2, <2>6
    <3>2. HandTotal(r)' = 0
      BY <2>3, <2>6 DEF HandTotal
    <3> QED BY <1>e, <1>p, <2>3, <2>4, <3>1, <3>2
  <2> QED BY <2>5, <2>6
<1>3. ASSUME drained # NotDrained, LetGo
      PROVE  /\ activity'[r][current'[r]] = activity[r][current[r]] /\ HandTotal(r)' = 0
             /\ HandTotal(r) = IF drained.root = r THEN InHand.total ELSE 0
  <2>1. /\ drained.root \in Labels /\ drained.slot \in 0 .. 1
        /\ \A q \in Labels, t \in 0 .. 1 :
              activity'[q][t] = IF q = drained.root /\ t = drained.slot
                                THEN NoActivity ELSE activity[q][t]
    BY <1>3, <1>b, LetGoChanges
  <2>2. r = drained.root => drained.slot # current[r]
    BY <1>3, <1>p DEF Core, SlotsApart
  <2>3. drained' = NotDrained /\ current' = current
    BY <1>3 DEF LetGo
  <2>4. HandTotal(r)' = 0
    BY <2>3, MonitorAssumption DEF NotDrained, HandTotal
  <2> QED BY <1>p, <2>1, <2>2, <2>3, <2>4 DEF HandTotal
<1>4. CASE Skip
  <2>1. HandTotal(r) = 0
    BY <1>4 DEF Skip, HandTotal
  <2>2. UNCHANGED <<events, counted, reported, lost>>
    BY <1>4 DEF Skip, history
  <2>3. activity'[r][current'[r]] = activity[r][current[r]] /\ HandTotal(r)' = 0
    BY <1>3, <1>4 DEF Skip
  <2> QED BY <1>e, <1>p, <2>1, <2>2, <2>3
<1>5. CASE Yield
  <2> DEFINE e == Describe(drained.root, InHand)
  <2>1. e \in Event /\ events' = Append(events, e) /\ UNCHANGED <<counted, reported, lost>>
    BY <1>5, DescribeTyped DEF Yield, Core, history
  <2>2. e.root = drained.root /\ e.total = InHand.total
    BY DEF Describe
  <2> HIDE DEF e
  <2>3. TotalOf(r, events') = TotalOf(r, events) + (IF e.root = r THEN e.total ELSE 0)
    BY <2>1, TotalOfMore DEF Core, TypeOK
  <2>4. /\ activity'[r][current'[r]] = activity[r][current[r]] /\ HandTotal(r)' = 0
        /\ HandTotal(r) = IF drained.root = r THEN InHand.total ELSE 0
    BY <1>3, <1>5 DEF Yield
  <2>5. TotalOf(r, events') = TotalOf(r, events) + HandTotal(r)
    BY <2>2, <2>3, <2>4
  <2> QED BY <1>e, <1>p, <2>1, <2>4, <2>5
<1>6. CASE EndSweep
  <2>1. /\ UNCHANGED <<activity, current, drained, counted, lost>> /\ events' = <<>>
        /\ reported'[r] = reported[r] + TotalOf(r, events)
    BY <1>6 DEF EndSweep, Over, buffers
  <2>2. HandTotal(r)' = HandTotal(r)
    BY <2>1 DEF HandTotal, InHand
  <2>3. TotalOf(r, events') = 0
    BY <2>1, TotalOfNone
  <2> QED BY <1>e, <1>p, <2>1, <2>2, <2>3
<1>7. CASE SweepRaises
  <2>1. /\ UNCHANGED <<counted, reported>> /\ events' = <<>>
        /\ lost'[r] = lost[r] + TotalOf(r, events) + HandTotal(r)
    BY <1>7 DEF SweepRaises, Over
  <2>2. activity'[r][current'[r]] = activity[r][current[r]] /\ HandTotal(r)' = 0
    BY <1>3, <1>7 DEF SweepRaises
  <2>3. TotalOf(r, events') = 0
    BY <2>1, TotalOfNone
  <2>4. counted'[r] = counted[r] /\ reported'[r] = reported[r]
    BY <2>1
  <2>5. lost'[r] = lost[r] + TotalOf(r, events) + HandTotal(r)
    BY <2>1
  <2> QED BY <1>e, <1>p, <2>2, <2>3, <2>4, <2>5
<1>8. CASE UNCHANGED <<activity, current, drained, events, counted, reported, lost>>
  BY <1>8, <1>s
<1>9. \/ UNCHANGED <<activity, current, drained, events, counted, reported, lost>>
      \/ EndRecord \/ Drain \/ Skip \/ Yield \/ EndSweep \/ SweepRaises
  BY DEF Next, Dispatcher, Collect, Construct, Start, StartClock, Close, BeginRecord, BeginSweep, Tick,
         SetClockBack, vars, buffers, sweep, history
<1> QED BY <1>1, <1>2, <1>4, <1>5, <1>6, <1>7, <1>8, <1>9
-----------------------------------------------------------------------------
(***************************************************************************)
(* The theorems                                                            *)
(***************************************************************************)

LEMMA MonitorInitially == Init => MonitorInv
<1> SUFFICES ASSUME Init PROVE MonitorInv
  OBVIOUS
<1> USE DEF Init
<1>1. activity \in [Labels -> [0 .. 1 -> FileActivity]]
  BY NoActivityTyped
<1>2. \A r \in Labels, s \in 0 .. 1 : activity[r][s] = NoActivity
  OBVIOUS
<1>3. BuffersOK
  BY <1>2, NoActivityOK DEF BuffersOK
<1>4. TypeOK
  BY <1>1 DEF TypeOK
<1>5. HistoryOK /\ SensitiveMeansWritten
  BY <1>1, <1>3, BuffersMean DEF HistoryOK
<1>6. SlotsApart /\ SweepInOrder /\ DrainedInTurn /\ RateOverOwnWindow
  BY DEF SlotsApart, SweepInOrder, DrainedInTurn, RateOverOwnWindow, Idle
<1>7. NoChangeMiscounted
  BY <1>2, NoActivityOK, EmptyHand, TotalOfNone DEF NoChangeMiscounted
<1> QED BY <1>4, <1>5, <1>6, <1>7 DEF MonitorInv, Core

\* Every step of the dispatcher and of the sweep keeps the invariant.
LEMMA MonitorInductive == MonitorInv /\ [Next]_vars => MonitorInv'
<1> SUFFICES ASSUME MonitorInv, [Next]_vars PROVE MonitorInv'
  OBVIOUS
<1>1. Core'
  BY TypeInductive, ControlInductive DEF MonitorInv, Core
<1>2. Windows'
  BY <1>1, WindowInductive DEF MonitorInv, Windows
<1>3. NoChangeMiscounted'
  BY <1>1, CountInductive DEF MonitorInv
<1> QED BY <1>1, <1>2, <1>3 DEF MonitorInv, Windows

LEMMA MonitorAlways == Spec => []MonitorInv
BY MonitorInitially, MonitorInductive, PTL DEF Spec

\* The collector, its buffers and its events keep their types, and a category
\* is never None, whatever the roots, the paths and the markers are
\* (classify_sensitive, _describe).
THEOREM MonitorTypeCorrect == Spec => []TypeOK
<1>1. MonitorInv => TypeOK
  BY DEF MonitorInv, Core
<1> QED BY <1>1, MonitorAlways, PTL

\* record() in the one thread and drain() in the other neither lose a change
\* nor count one twice: for every root the changes told of are those in the
\* buffer, in hand, in the events, given to the runner and lost with a sweep
\* that raised.
THEOREM NoChangeMiscountedAlways == Spec => []NoChangeMiscounted
<1>1. MonitorInv => NoChangeMiscounted
  BY DEF MonitorInv
<1> QED BY <1>1, MonitorAlways, PTL

\* The window of a rate is the time since the root was drained before, for
\* every number of roots and whatever the clock does, unless a sweep that
\* raised has left the root behind (collect, _describe).
THEOREM RateOverOwnWindowAlways == Spec => []RateOverOwnWindow
<1>1. MonitorInv => RateOverOwnWindow
  BY DEF MonitorInv
<1> QED BY <1>1, MonitorAlways, PTL

\* A category is noted if and only if a file under one of the markers was
\* changed, for every table of categories and every order of notices
\* (record, classify_sensitive).
THEOREM SensitiveMeansWrittenAlways == Spec => []SensitiveMeansWritten
<1>1. MonitorInv => SensitiveMeansWritten
  BY DEF MonitorInv, Core
<1> QED BY <1>1, MonitorAlways, PTL
=============================================================================
