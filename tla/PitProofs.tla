------------------------------- MODULE PitProofs -------------------------------
(***************************************************************************)
(* What reaches the sim's pit menu (PitControl): nothing late, nothing of   *)
(* another phase, and of one request at a time just what it says. And what  *)
(* Auto Fuel makes of a stop for fuel (AutoFuel): the verdict, the edge of  *)
(* the gauge and the level the tank is left at are right.                   *)
(***************************************************************************)
EXTENDS PitControl, AutoFuel, FiniteSetTheorems, WellFoundedInduction, TLAPS

\* Every set of naturals with a member has a least one.
LEMMA LeastNumber ==
    ASSUME NEW T \in SUBSET Nat, T # {}
    PROVE  \E n \in T : \A m \in T : n <= m
<1> DEFINE R == OpToRel(<, Nat)
<1>1. \A m, n \in Nat : m < n => <<m, n>> \in R
  BY DEF OpToRel
<1>2. IsWellFoundedOn(R, Nat)
  BY NatLessThanWellFounded
<1> HIDE DEF R
<1>3. PICK n \in T : \A m \in T : ~ (<<m, n>> \in R)
  BY <1>2, WFMin
<1>4. ASSUME NEW m \in T PROVE n <= m
  <2>1. n \in Nat /\ m \in Nat /\ ~ (<<m, n>> \in R)
    BY <1>3
  <2>2. ~ (m < n)
    BY <1>1, <2>1
  <2>3. QED
    BY <2>1, <2>2
<1> QED BY <1>4

\* The partial concatenations FlattenSeq is defined by exist.
LEMMA FlattenSeqDef ==
    ASSUME NEW parts, NEW N \in Nat
    PROVE  \E f : f = [i \in 1..N |-> IF i = 1 THEN parts[i] ELSE f[i - 1] \o parts[i]]
<1> DEFINE Flattens(n) == \E f : f = [i \in 1..n |-> IF i = 1 THEN parts[i] ELSE f[i - 1] \o parts[i]]
           Bad == {n \in Nat : ~ Flattens(n)}
<1>1. Flattens(0)
  <2> DEFINE f == [i \in 1..0 |-> parts[i]]
  <2>1. f = [i \in 1..0 |-> IF i = 1 THEN parts[i] ELSE f[i - 1] \o parts[i]]
    OBVIOUS
  <2>2. QED
    BY <2>1
<1>2. ASSUME NEW n \in Nat \ {0}, Flattens(n - 1) PROVE Flattens(n)
  <2>1. PICK f : f = [i \in 1..(n - 1) |-> IF i = 1 THEN parts[i] ELSE f[i - 1] \o parts[i]]
    BY <1>2
  <2> DEFINE last == IF n = 1 THEN parts[n] ELSE f[n - 1] \o parts[n]
             g == [i \in 1..n |-> IF i = n THEN last ELSE f[i]]
  <2>2. ASSUME NEW i \in 1..n PROVE g[i] = IF i = 1 THEN parts[i] ELSE g[i - 1] \o parts[i]
    <3>1. CASE i = n /\ i = 1
      BY <3>1
    <3>2. CASE i = n /\ i # 1
      <4>1. i - 1 \in 1..n /\ i - 1 # n
        BY <3>2
      <4>2. g[i] = f[i - 1] \o parts[i] /\ g[i - 1] = f[i - 1]
        BY <3>2, <4>1
      <4>3. QED
        BY <3>2, <4>2
    <3>3. CASE i # n /\ i = 1
      <4>1. i \in 1..(n - 1)
        BY <3>3
      <4>2. g[i] = f[i] /\ f[i] = parts[i]
        BY <2>1, <3>3, <4>1
      <4>3. QED
        BY <3>3, <4>2
    <3>4. CASE i # n /\ i # 1
      <4>1. i \in 1..(n - 1) /\ i - 1 \in 1..n /\ i - 1 # n
        BY <3>4
      <4>2. g[i] = f[i] /\ g[i - 1] = f[i - 1] /\ f[i] = f[i - 1] \o parts[i]
        BY <2>1, <3>4, <4>1
      <4>3. QED
        BY <3>4, <4>2
    <3>5. QED
      BY <3>1, <3>2, <3>3, <3>4
  <2>3. g = [i \in 1..n |-> IF i = 1 THEN parts[i] ELSE g[i - 1] \o parts[i]]
    <3>1. g = [i \in 1..n |-> g[i]]
      OBVIOUS
    <3> HIDE DEF g
    <3>2. QED
      BY <2>2, <3>1
  <2>4. QED
    BY <2>3
<1> HIDE DEF Flattens
<1>3. Bad = {}
  <2>1. SUFFICES ASSUME Bad # {} PROVE FALSE
    OBVIOUS
  <2>2. PICK n \in Bad : \A m \in Bad : n <= m
    BY <2>1, LeastNumber
  <2>3. n \in Nat \ {0}
    BY <1>1
  <2>4. n - 1 \in Nat /\ n - 1 \notin Bad
    BY <2>2, <2>3
  <2>5. QED
    BY <1>2, <2>3, <2>4
<1>4. Flattens(N)
  BY <1>3
<1> QED BY <1>4 DEF Flattens

\* Concatenated sequences of members of S make one.
LEMMA FlattenSeqType ==
    ASSUME NEW S, NEW parts \in Seq(Seq(S))
    PROVE  FlattenSeq(parts) \in Seq(S)
<1> DEFINE N == Len(parts)
           h == CHOOSE f : f = [i \in 1..N |-> IF i = 1 THEN parts[i] ELSE f[i - 1] \o parts[i]]
           Bad == {i \in 1..N : h[i] \notin Seq(S)}
<1>1. N \in Nat /\ \A i \in 1..N : parts[i] \in Seq(S)
  OBVIOUS
<1>2. h = [i \in 1..N |-> IF i = 1 THEN parts[i] ELSE h[i - 1] \o parts[i]]
  <2>1. \E f : f = [i \in 1..N |-> IF i = 1 THEN parts[i] ELSE f[i - 1] \o parts[i]]
    BY <1>1, FlattenSeqDef
  <2> HIDE DEF N
  <2>2. QED
    BY <2>1
<1>3. FlattenSeq(parts) = IF N = 0 THEN parts ELSE h[N]
  BY DEF FlattenSeq
<1> HIDE DEF N, h
<1>4. \A i \in 1..N : h[i] = IF i = 1 THEN parts[i] ELSE h[i - 1] \o parts[i]
  BY <1>2
<1>5. Bad = {}
  <2>1. SUFFICES ASSUME Bad # {} PROVE FALSE
    OBVIOUS
  <2>2. PICK i \in Bad : \A j \in Bad : i <= j
    <3>1. Bad \in SUBSET Nat
      BY <1>1
    <3>2. QED
      BY <2>1, <3>1, LeastNumber
  <2>3. i \in 1..N /\ i # 1 /\ h[i] = h[i - 1] \o parts[i]
    BY <1>1, <1>4
  <2>4. i - 1 \in 1..N /\ i - 1 \notin Bad
    BY <1>1, <2>2, <2>3
  <2>5. h[i - 1] \in Seq(S) /\ parts[i] \in Seq(S)
    BY <1>1, <2>3, <2>4
  <2>6. h[i - 1] \o parts[i] \in Seq(S)
    BY <2>5
  <2>7. QED
    BY <2>2, <2>3, <2>6
<1>6. CASE N = 0
  <2>1. parts = <<>>
    BY <1>6 DEF N
  <2>2. QED
    BY <1>3, <1>6, <2>1
<1>7. CASE N # 0
  BY <1>1, <1>3, <1>5, <1>7
<1> QED BY <1>6, <1>7

\* A sequence of one sequence is flattened to that.
LEMMA FlattenSeqOne ==
    ASSUME NEW p
    PROVE  FlattenSeq(<<p>>) = p
<1> DEFINE parts == <<p>>
           h == CHOOSE f : f = [i \in 1..1 |-> IF i = 1 THEN parts[i] ELSE f[i - 1] \o parts[i]]
<1>1. h = [i \in 1..1 |-> IF i = 1 THEN parts[i] ELSE h[i - 1] \o parts[i]]
  <2>1. \E f : f = [i \in 1..1 |-> IF i = 1 THEN parts[i] ELSE f[i - 1] \o parts[i]]
    BY FlattenSeqDef
  <2>2. QED
    BY <2>1
<1>2. FlattenSeq(parts) = h[1]
  <2>1. Len(parts) = 1
    OBVIOUS
  <2> HIDE DEF parts
  <2>2. QED
    BY <2>1 DEF FlattenSeq
<1>3. h[1] = parts[1]
  <2> HIDE DEF h
  <2>1. QED
    BY <1>1
<1> QED BY <1>2, <1>3

LEMMA FlattenSeqEmpty == FlattenSeq(<<>>) = <<>>
BY DEF FlattenSeq

-----------------------------------------------------------------------------
(* The operators of PitControl.                                            *)

\* A selection from a sequence, its members one by one or not at all.
LEMMA PickedType ==
    ASSUME NEW T, NEW n \in Nat, NEW parts, parts = [i \in 1..n |-> parts[i]],
           \A i \in 1..n : parts[i] = <<>> \/ \E x \in T : parts[i] = <<x>>
    PROVE  FlattenSeq(parts) \in Seq(T)
<1>1. ASSUME NEW i \in 1..n PROVE parts[i] \in Seq(T)
  <2>1. CASE parts[i] = <<>>
    BY <2>1
  <2>2. ASSUME NEW x \in T, parts[i] = <<x>> PROVE parts[i] \in Seq(T)
    <3>1. <<x>> \in Seq(T)
      OBVIOUS
    <3>2. QED
      BY <2>2, <3>1
  <2>3. QED
    BY <2>1, <2>2
<1>2. parts \in Seq(Seq(T))
  BY <1>1
<1> QED BY <1>2, FlattenSeqType

\* What is kept of the queue are its current requests.
LEMMA KeptRequests ==
    ASSUME NEW S, NEW s \in Seq(S)
    PROVE  Kept(s, IsCurrent) \in Seq({q \in S : IsCurrent(q)})
<1> DEFINE T == {q \in S : IsCurrent(q)}
           parts == [i \in DOMAIN s |-> IF IsCurrent(s[i]) THEN <<s[i]>> ELSE <<>>]
<1>1. Len(s) \in Nat /\ parts = [i \in 1..Len(s) |-> parts[i]]
  OBVIOUS
<1>2. ASSUME NEW i \in 1..Len(s) PROVE parts[i] = <<>> \/ \E x \in T : parts[i] = <<x>>
  <2>1. CASE IsCurrent(s[i])
    <3>1. s[i] \in T /\ parts[i] = <<s[i]>>
      BY <2>1
    <3> HIDE DEF parts, T
    <3>2. QED
      BY <3>1
  <2>2. CASE ~ IsCurrent(s[i])
    BY <2>2
  <2>3. QED
    BY <2>1, <2>2
<1>3. FlattenSeq(parts) \in Seq(T)
  <2> HIDE DEF parts, T
  <2>1. QED
    BY <1>1, <1>2, PickedType
<1> QED BY <1>3 DEF Kept

\* What is kept of the writes are the fresh ones.
LEMMA KeptWrites ==
    ASSUME NEW S, NEW s \in Seq(S), NEW last
    PROVE  Kept(s, LAMBDA w : WriteIsFresh(w, last)) \in Seq({w \in S : WriteIsFresh(w, last)})
<1> DEFINE T == {w \in S : WriteIsFresh(w, last)}
           parts == [i \in DOMAIN s |-> IF WriteIsFresh(s[i], last) THEN <<s[i]>> ELSE <<>>]
<1>1. Len(s) \in Nat /\ parts = [i \in 1..Len(s) |-> parts[i]]
  OBVIOUS
<1>2. ASSUME NEW i \in 1..Len(s) PROVE parts[i] = <<>> \/ \E x \in T : parts[i] = <<x>>
  <2>1. CASE WriteIsFresh(s[i], last)
    <3>1. s[i] \in T /\ parts[i] = <<s[i]>>
      BY <2>1
    <3> HIDE DEF parts, T
    <3>2. QED
      BY <3>1
  <2>2. CASE ~ WriteIsFresh(s[i], last)
    BY <2>2
  <2>3. QED
    BY <2>1, <2>2
<1>3. FlattenSeq(parts) \in Seq(T)
  <2> HIDE DEF parts, T
  <2>1. QED
    BY <1>1, <1>2, PickedType
<1> QED BY <1>3 DEF Kept

\* One command for each of the corners, and for no other.
LEMMA TickEachCorner ==
    ASSUME NEW S \in SUBSET Corners
    PROVE  /\ TickEach(S) \in Seq([op : {"tick"}, corner : S])
           /\ {TickEach(S)[i].corner : i \in DOMAIN TickEach(S)} = S
<1> DEFINE n == Cardinality(S)
           order == SetToSeq(S)
<1>1. IsFiniteSet(S)
  BY PitAssumption, FS_Subset
<1>2. n \in Nat /\ ExistsBijection(1..n, S)
  BY <1>1, FS_CardinalityType
<1>3. \E f \in [1..n -> S] : IsInjective(f)
  BY <1>2 DEF ExistsBijection, Bijection, Injection, IsInjective
<1>4. order \in [1..n -> S] /\ IsInjective(order)
  BY <1>3 DEF SetToSeq
<1> HIDE DEF order
<1>5. order \in Surjection(1..n, S)
  <2>1. order \in Injection(1..n, S)
    BY <1>4 DEF Injection, IsInjective
  <2>2. Cardinality(1..n) = n
    BY <1>2, FS_Interval
  <2>3. QED
    BY <1>1, <2>1, <2>2, FS_Injection
<1>6. \A x \in S : \E i \in 1..n : order[i] = x
  BY <1>5 DEF Surjection
<1>7. TickEach(S) = [i \in 1..n |-> [op |-> "tick", corner |-> order[i]]]
  BY <1>4 DEF TickEach, order
<1> HIDE DEF n
<1>8. TickEach(S) \in Seq([op : {"tick"}, corner : S])
  BY <1>2, <1>4, <1>7
<1>9. {TickEach(S)[i].corner : i \in DOMAIN TickEach(S)} = S
  BY <1>4, <1>6, <1>7
<1> QED BY <1>8, <1>9

\* What a request becomes: at most one ClearTires, first, and ticks of corners;
\* carried out they leave what the request says.
IsTick(c) == c.op = "tick" /\ c.corner \in Corners
Ticked(cs) == {cs[i].corner : i \in {j \in DOMAIN cs : cs[j].op = "tick"}}
Clears(cs) == cs # <<>> /\ cs[1].op = "ClearTires"
Outcome(cs, ticks) == IF Clears(cs) THEN Ticked(cs) ELSE ticks \cup Ticked(cs)

LEMMA TicksAlone ==
    ASSUME NEW S \in SUBSET Corners
    PROVE  /\ \A i \in DOMAIN TickEach(S) : IsTick(TickEach(S)[i])
           /\ Ticked(TickEach(S)) = S
           /\ ~ Clears(TickEach(S))
<1> DEFINE cs == TickEach(S)
<1>1. cs \in Seq([op : {"tick"}, corner : S]) /\ {cs[i].corner : i \in DOMAIN cs} = S
  BY TickEachCorner
<1> HIDE DEF cs
<1>2. \A i \in DOMAIN cs : cs[i] \in [op : {"tick"}, corner : S]
  <2> DEFINE T == [op : {"tick"}, corner : S]
  <2>1. cs \in Seq(T)
    BY <1>1
  <2> HIDE DEF T
  <2>2. \A i \in DOMAIN cs : cs[i] \in T
    BY <2>1
  <2>3. QED
    BY <2>2 DEF T
<1>3. \A i \in DOMAIN cs : cs[i].op = "tick" /\ cs[i].corner \in S
  BY <1>2
<1>4. \A i \in DOMAIN cs : IsTick(cs[i])
  BY <1>3 DEF IsTick
<1>5. Ticked(cs) = S
  BY <1>1, <1>3 DEF Ticked
<1>6. ~ Clears(cs)
  <2>1. cs # <<>> => 1 \in DOMAIN cs
    BY <1>1
  <2>2. QED
    BY <1>3, <2>1 DEF Clears
<1> QED BY <1>4, <1>5, <1>6 DEF cs

LEMMA TicksAfterClear ==
    ASSUME NEW S \in SUBSET Corners, NEW cs, cs = <<[op |-> "ClearTires"]>> \o TickEach(S)
    PROVE  /\ DOMAIN cs = 1..Len(cs) /\ Len(cs) \in Nat
           /\ \A i \in 2..Len(cs) : IsTick(cs[i])
           /\ Ticked(cs) = S
           /\ Clears(cs) /\ cs[1].op = "ClearTires"
<1> DEFINE ts == TickEach(S)
           clear == [op |-> "ClearTires"]
<1>1. ts \in Seq([op : {"tick"}, corner : S])
  BY TickEachCorner
<1>2. (\A i \in DOMAIN ts : IsTick(ts[i])) /\ Ticked(ts) = S
  BY TicksAlone
<1>3. clear.op = "ClearTires"
  OBVIOUS
<1>4. cs = <<clear>> \o ts
  OBVIOUS
<1> HIDE DEF ts, clear
<1>5. /\ Len(ts) \in Nat /\ DOMAIN ts = 1..Len(ts)
      /\ Len(cs) = Len(ts) + 1 /\ DOMAIN cs = 1..Len(cs)
      /\ cs[1] = clear
      /\ \A i \in 1..Len(ts) : cs[i + 1] = ts[i]
      /\ cs # <<>>
  BY <1>1, <1>4
<1>6. \A i \in 2..Len(cs) : cs[i] = ts[i - 1] /\ i - 1 \in 1..Len(ts)
  BY <1>5
<1>7. \A i \in 2..Len(cs) : IsTick(cs[i])
  BY <1>2, <1>5, <1>6
<1>8. Ticked(cs) = S
  <2>1. Ticked(cs) \subseteq Ticked(ts)
    <3>1. SUFFICES ASSUME NEW j \in DOMAIN cs, cs[j].op = "tick" PROVE cs[j].corner \in Ticked(ts)
      BY DEF Ticked
    <3>2. j # 1
      BY <1>3, <1>5, <3>1
    <3>3. j \in 2..Len(cs)
      BY <1>5, <3>2
    <3>4. cs[j] = ts[j - 1] /\ j - 1 \in DOMAIN ts
      BY <1>5, <1>6, <3>3
    <3>5. QED
      BY <3>1, <3>4 DEF Ticked
  <2>2. Ticked(ts) \subseteq Ticked(cs)
    <3>1. SUFFICES ASSUME NEW j \in DOMAIN ts, ts[j].op = "tick" PROVE ts[j].corner \in Ticked(cs)
      BY DEF Ticked
    <3>2. j + 1 \in DOMAIN cs /\ cs[j + 1] = ts[j]
      BY <1>5
    <3>3. QED
      BY <3>1, <3>2 DEF Ticked
  <2>3. QED
    BY <1>2, <2>1, <2>2
<1> QED BY <1>3, <1>5, <1>7, <1>8 DEF Clears

LEMMA CommandsDoWhatIsMeant ==
    ASSUME NEW q \in TyreRequests, NEW ticks \in SUBSET Corners
    PROVE  /\ DOMAIN CommandsFor(q, ticks) = 1..Len(CommandsFor(q, ticks))
           /\ Len(CommandsFor(q, ticks)) \in Nat
           /\ \A i \in DOMAIN CommandsFor(q, ticks) :
                \/ IsTick(CommandsFor(q, ticks)[i])
                \/ (i = 1 /\ CommandsFor(q, ticks)[i].op = "ClearTires")
           /\ Outcome(CommandsFor(q, ticks), ticks) = Meaning(q, ticks)
<1> DEFINE cs == CommandsFor(q, ticks)
           Fits == /\ DOMAIN cs = 1..Len(cs) /\ Len(cs) \in Nat
                   /\ \A i \in DOMAIN cs : IsTick(cs[i]) \/ (i = 1 /\ cs[i].op = "ClearTires")
                   /\ Outcome(cs, ticks) = Meaning(q, ticks)
<1>1. q \in [op : {"arm", "untick"}, corner : Corners] \/ q \in [op : {"arm_all", "clear_all"}]
  BY DEF TyreRequests
<1>2. ASSUME q.op = "arm", q.corner \in Corners PROVE Fits
  <2>1. cs = TickEach({q.corner}) /\ Meaning(q, ticks) = ticks \cup {q.corner}
    BY <1>2 DEF CommandsFor, Meaning
  <2> HIDE DEF cs
  <2>2. {q.corner} \in SUBSET Corners
    BY <1>2
  <2>3. DOMAIN cs = 1..Len(cs) /\ Len(cs) \in Nat
    BY <2>1, <2>2, TickEachCorner
  <2>4. (\A i \in DOMAIN cs : IsTick(cs[i])) /\ Ticked(cs) = {q.corner} /\ ~ Clears(cs)
    BY <2>1, <2>2, TicksAlone
  <2>5. Outcome(cs, ticks) = Meaning(q, ticks)
    BY <2>1, <2>4 DEF Outcome
  <2>6. QED
    BY <2>3, <2>4, <2>5
<1>3. ASSUME q.op = "arm_all" PROVE Fits
  <2>1. cs = TickEach(Corners) /\ Meaning(q, ticks) = Corners
    BY <1>3 DEF CommandsFor, Meaning
  <2> HIDE DEF cs
  <2>2. Corners \in SUBSET Corners
    OBVIOUS
  <2>3. DOMAIN cs = 1..Len(cs) /\ Len(cs) \in Nat
    BY <2>1, <2>2, TickEachCorner
  <2>4. (\A i \in DOMAIN cs : IsTick(cs[i])) /\ Ticked(cs) = Corners /\ ~ Clears(cs)
    BY <2>1, <2>2, TicksAlone
  <2>5. Outcome(cs, ticks) = Meaning(q, ticks)
    BY <2>1, <2>4 DEF Outcome
  <2>6. QED
    BY <2>3, <2>4, <2>5
<1>4. ASSUME q.op = "untick" PROVE Fits
  <2>1. cs = <<[op |-> "ClearTires"]>> \o TickEach(ticks \ {q.corner}) /\ Meaning(q, ticks) = ticks \ {q.corner}
    BY <1>4 DEF CommandsFor, Meaning
  <2> HIDE DEF cs
  <2>2. ticks \ {q.corner} \in SUBSET Corners
    OBVIOUS
  <2>3. /\ DOMAIN cs = 1..Len(cs) /\ Len(cs) \in Nat
        /\ \A i \in 2..Len(cs) : IsTick(cs[i])
        /\ Ticked(cs) = ticks \ {q.corner} /\ Clears(cs) /\ cs[1].op = "ClearTires"
    BY <2>1, <2>2, TicksAfterClear
  <2>4. \A i \in DOMAIN cs : i = 1 \/ i \in 2..Len(cs)
    BY <2>3
  <2>5. Outcome(cs, ticks) = Meaning(q, ticks)
    BY <2>1, <2>3 DEF Outcome
  <2>6. \A i \in DOMAIN cs : IsTick(cs[i]) \/ (i = 1 /\ cs[i].op = "ClearTires")
    BY <2>3, <2>4
  <2>7. QED
    BY <2>3, <2>5, <2>6
<1>5. ASSUME q.op = "clear_all" PROVE Fits
  <2>1. cs = <<[op |-> "ClearTires"]>> /\ Meaning(q, ticks) = {}
    BY <1>5 DEF CommandsFor, Meaning
  <2>2. cs[1].op = "ClearTires" /\ DOMAIN cs = 1..Len(cs) /\ Len(cs) = 1
    BY <2>1
  <2> HIDE DEF cs
  <2>3. Ticked(cs) = {}
    BY <2>2 DEF Ticked
  <2>4. Clears(cs)
    BY <2>1, <2>2 DEF Clears
  <2>5. QED
    BY <2>1, <2>2, <2>3, <2>4 DEF Outcome
<1> QED BY <1>1, <1>2, <1>3, <1>4, <1>5

-----------------------------------------------------------------------------
(* The inductive invariant.                                                *)

\* The clocks run forward, and the ticks are of corners there are.
Figures ==
    /\ clock \in 0..MaxClock /\ session \in 1..2 /\ began \in 0..clock
    /\ seated \in BOOLEAN /\ on_pit_road \in BOOLEAN /\ was_on_pit_road \in BOOLEAN /\ overlapped \in BOOLEAN
    /\ armed \in SUBSET Corners /\ intended \in SUBSET Corners
    /\ latest_at \in 0..clock /\ room \in 0..session
    /\ last_session_time \in 0..MaxClock /\ asked \in 0..MaxAsked
    /\ session = 1 => began = 0

\* When a phase began, if the second did at b.
Began(phase, b) == IF phase = 2 THEN b ELSE 0

\* A snapshot tells the moment it was read, and was taken no earlier.
TakenAt(got, at) ==
    /\ got \in Snapshots /\ got.session <= session
    /\ got.time + Began(got.session, began) = got.read /\ got.read <= at

Sights ==
    /\ row = NoSnapshot \/ TakenAt(row, clock)
    /\ latest = NoSnapshot \/ TakenAt(latest, latest_at)

\* A write in the room was made in its phase, and says when.
Writes == [request : TyreRequests, stamp : 0 .. MaxClock, asked : 0 .. MaxClock, askedIn : 1 .. 2]
Stamped(w) == w.askedIn = room /\ w.asked = w.stamp + Began(room, began)

\* A request in the queue was made in the phase it is queued for, and soon before.
Due(q) ==
    /\ q.session = q.askedIn
    /\ q.created_at - q.asked <= q.waited + WriteMaxAge + (SnapshotStale - 1)

\* A command was sent in the phase and in the time of its request; only a
\* ClearTires is for no corner.
PitCommands == [op : {"tick", "ClearTires"}, corner : Corners \cup {"all"},
                of : Requests, at : 0 .. MaxClock, in : 1 .. 2]
InTime(c) ==
    /\ c.op = "tick" => c.corner \in Corners
    /\ c.in = c.of.askedIn
    /\ c.at - c.of.asked <= c.of.waited + WriteMaxAge + (SnapshotStale - 1) + (QueueLife - 1)

OnTheWay ==
    /\ incoming \in Seq({w \in Writes : Stamped(w)})
    /\ requests \in Seq({q \in Requests : Due(q)})
    /\ posted \in Seq({c \in PitCommands : InTime(c)})

\* What is still to be carried out makes of the ticks what was asked for.
Completes(cs, ticks, aim) ==
    /\ \A i \in DOMAIN cs : IsTick(cs[i]) \/ (i = 1 /\ cs[i].op = "ClearTires")
    /\ Outcome(cs, ticks) = aim

Pending == ~ overlapped => Completes(posted, armed, intended)

PitInv == Figures /\ Sights /\ OnTheWay /\ Pending

LEMMA PitInvTypes == PitInv => TypeOK
<1> SUFFICES ASSUME PitInv PROVE TypeOK
  OBVIOUS
<1>1. /\ clock \in 0 .. MaxClock /\ session \in 1 .. 2 /\ began \in 0 .. clock
      /\ armed \subseteq Corners /\ intended \subseteq Corners
      /\ latest_at \in 0 .. clock /\ room \in 0 .. 2
      /\ last_session_time \in 0 .. MaxClock /\ asked \in 0 .. MaxAsked
  BY PitAssumption DEF PitInv, Figures
<1>2. {seated, on_pit_road, was_on_pit_road, overlapped} \subseteq BOOLEAN
  <2>1. seated \in BOOLEAN /\ on_pit_road \in BOOLEAN /\ was_on_pit_road \in BOOLEAN /\ overlapped \in BOOLEAN
    BY DEF PitInv, Figures
  <2>2. QED
    BY <2>1, Zenon
<1>3. row \in Snapshots \cup {NoSnapshot} /\ latest \in Snapshots \cup {NoSnapshot}
  BY DEF PitInv, Sights, TakenAt
<1>4. posted \in Seq(PitCommands) /\ requests \in Seq(Requests) /\ incoming \in Seq(Writes)
  <2> DEFINE C == {c \in PitCommands : InTime(c)}
             Q == {q \in Requests : Due(q)}
             W == {w \in Writes : Stamped(w)}
  <2>1. C \subseteq PitCommands /\ Q \subseteq Requests /\ W \subseteq Writes
    OBVIOUS
  <2>2. posted \in Seq(C) /\ requests \in Seq(Q) /\ incoming \in Seq(W)
    BY DEF PitInv, OnTheWay
  <2> HIDE DEF C, Q, W
  <2>3. QED
    BY <2>1, <2>2
<1> QED BY <1>1, <1>2, <1>3, <1>4 DEF TypeOK, PitCommands, Writes

LEMMA PitInvLimits == PitInv => NeverLate /\ NeverAcrossPhases /\ CarriedOut
<1> SUFFICES ASSUME PitInv PROVE NeverLate /\ NeverAcrossPhases /\ CarriedOut
  OBVIOUS
<1>1. \A i \in DOMAIN posted : InTime(posted[i])
  <2> DEFINE C == {c \in PitCommands : InTime(c)}
  <2>1. \A c \in C : InTime(c)
    OBVIOUS
  <2>2. posted \in Seq(C)
    BY DEF PitInv, OnTheWay
  <2> HIDE DEF C
  <2>3. \A i \in DOMAIN posted : posted[i] \in C
    BY <2>2
  <2>4. QED
    BY <2>1, <2>3
<1>2. CarriedOut
  <2>1. SUFFICES ASSUME posted = <<>>, ~ overlapped PROVE armed = intended
    BY DEF CarriedOut
  <2>2. intended = Outcome(posted, armed)
    BY <2>1 DEF PitInv, Pending, Completes
  <2>3. Ticked(posted) = {} /\ ~ Clears(posted)
    BY <2>1 DEF Ticked, Clears
  <2>4. QED
    BY <2>2, <2>3 DEF Outcome
<1> QED BY <1>1, <1>2 DEF NeverLate, NeverAcrossPhases, InTime

LEMMA PitInit == Init => PitInv
<1> SUFFICES ASSUME Init PROVE PitInv
  OBVIOUS
<1>1. Figures
  <2>1. MaxClock \in Nat /\ MaxAsked \in Nat
    BY PitAssumption
  <2>2. seated \in BOOLEAN /\ on_pit_road \in BOOLEAN /\ was_on_pit_road \in BOOLEAN /\ overlapped \in BOOLEAN
    BY DEF Init
  <2>3. armed \in SUBSET Corners /\ intended \in SUBSET Corners
    BY DEF Init
  <2>4. QED
    BY <2>1, <2>2, <2>3 DEF Init, Figures
<1>2. Sights
  BY DEF Init, Sights
<1>3. OnTheWay
  <2> DEFINE C == {c \in PitCommands : InTime(c)}
             Q == {q \in Requests : Due(q)}
             W == {w \in Writes : Stamped(w)}
  <2> HIDE DEF C, Q, W
  <2>1. posted \in Seq(C) /\ requests \in Seq(Q) /\ incoming \in Seq(W)
    BY DEF Init
  <2> QED BY <2>1 DEF OnTheWay, C, Q, W
<1>4. Pending
  <2>1. posted = <<>> /\ armed = intended
    BY DEF Init
  <2>2. Ticked(posted) = {} /\ ~ Clears(posted)
    BY <2>1 DEF Ticked, Clears
  <2>3. QED
    BY <2>1, <2>2 DEF Pending, Completes, Outcome
<1> QED BY <1>1, <1>2, <1>3, <1>4 DEF PitInv

-----------------------------------------------------------------------------
(* The steps.                                                              *)

\* Writes keep their stamps while room and phase stay.
LEMMA StampsStay ==
    ASSUME room' = room, Began(room, began') = Began(room, began)
    PROVE  {w \in Writes : Stamped(w)}' = {w \in Writes : Stamped(w)}
<1>1. \A w \in Writes : Stamped(w)' <=> Stamped(w)
  BY DEF Stamped
<1>2. Writes' = Writes
  BY DEF Writes
<1> QED BY <1>1, <1>2

\* A command carried out leaves the rest to complete what was asked for.
LEMMA CarryOutCompletes ==
    ASSUME NEW cs \in Seq(PitCommands), cs # <<>>, NEW ticks, NEW aim, Completes(cs, ticks, aim)
    PROVE  Completes(Tail(cs), CarryOut(Head(cs), ticks), aim)
<1> DEFINE rest == Tail(cs)
           c == cs[1]
<1>1. /\ Len(cs) \in Nat \ {0} /\ DOMAIN cs = 1..Len(cs)
      /\ Len(rest) = Len(cs) - 1 /\ DOMAIN rest = 1..(Len(cs) - 1)
      /\ Head(cs) = c
      /\ \A i \in 1..(Len(cs) - 1) : rest[i] = cs[i + 1]
  <2> HIDE DEF PitCommands
  <2> QED OBVIOUS
<1> HIDE DEF rest
<1>2. \A i \in DOMAIN cs : IsTick(cs[i]) \/ (i = 1 /\ cs[i].op = "ClearTires")
  BY DEF Completes
<1>3. \A i \in DOMAIN rest : IsTick(rest[i])
  BY <1>1, <1>2
<1>4. ~ Clears(rest)
  <2>1. SUFFICES ASSUME rest # <<>>, rest[1].op = "ClearTires" PROVE FALSE
    BY DEF Clears
  <2>2. 1 \in DOMAIN rest
    <3>1. SUFFICES ASSUME Len(cs) = 1 PROVE FALSE
      BY <1>1
    <3>2. rest = <<>>
      BY <3>1, <1>1 DEF rest
    <3>3. QED
      BY <2>1, <3>2
  <2>3. QED
    BY <1>3, <2>1, <2>2 DEF IsTick
<1>5. aim = Outcome(cs, ticks)
  BY DEF Completes
<1>6. \A j \in DOMAIN cs : j = 1 \/ (j - 1 \in DOMAIN rest /\ rest[j - 1] = cs[j])
  BY <1>1
<1>7. \A j \in DOMAIN rest : j + 1 \in DOMAIN cs /\ rest[j] = cs[j + 1]
  BY <1>1
<1>8. Ticked(rest) \subseteq Ticked(cs)
  BY <1>7 DEF Ticked
<1>9. CASE c.op = "ClearTires"
  <2>1. Ticked(cs) \subseteq Ticked(rest)
    <3>1. SUFFICES ASSUME NEW j \in DOMAIN cs, cs[j].op = "tick" PROVE cs[j].corner \in Ticked(rest)
      BY DEF Ticked
    <3>2. j # 1
      BY <1>9, <3>1
    <3>3. QED
      BY <1>6, <3>1, <3>2 DEF Ticked
  <2>2. Clears(cs) /\ CarryOut(c, ticks) = {}
    BY <1>9 DEF Clears, CarryOut
  <2>3. Outcome(rest, CarryOut(c, ticks)) = aim
    BY <1>4, <1>5, <1>8, <2>1, <2>2 DEF Outcome
  <2>4. QED
    BY <1>1, <1>3, <2>3 DEF Completes, rest
<1>10. CASE IsTick(c)
  <2>1. Ticked(cs) = {c.corner} \cup Ticked(rest)
    <3>1. ASSUME NEW j \in DOMAIN cs, cs[j].op = "tick" PROVE cs[j].corner \in {c.corner} \cup Ticked(rest)
      <4>1. CASE j = 1
        BY <4>1
      <4>2. CASE j # 1
        BY <1>6, <3>1, <4>2 DEF Ticked
      <4>3. QED
        BY <4>1, <4>2
    <3>2. c.corner \in Ticked(cs)
      BY <1>1, <1>10 DEF Ticked, IsTick
    <3>3. Ticked(cs) \subseteq {c.corner} \cup Ticked(rest)
      BY <3>1 DEF Ticked
    <3>4. QED
      BY <1>8, <3>2, <3>3
  <2>2. ~ Clears(cs) /\ CarryOut(c, ticks) = ticks \cup {c.corner}
    BY <1>10 DEF Clears, CarryOut, IsTick
  <2>3. Outcome(rest, CarryOut(c, ticks)) = aim
    BY <1>4, <1>5, <2>1, <2>2 DEF Outcome
  <2>4. QED
    BY <1>1, <1>3, <2>3 DEF Completes, rest
<1> QED BY <1>1, <1>2, <1>9, <1>10

\* What a row posts for a request that is current and due.
LEMMA CommandsAreInTime ==
    ASSUME Figures, NEW q \in Requests, Due(q), IsCurrent(q)
    PROVE  /\ Commands(q) \in Seq({c \in PitCommands : InTime(c)})
           /\ Completes(Commands(q), armed, Meaning(q.request, armed))
<1> DEFINE cs == CommandsFor(q.request, armed)
           Of(i) == [op |-> cs[i].op, of |-> q, at |-> clock, in |-> session,
                     corner |-> IF cs[i].op = "tick" THEN cs[i].corner ELSE "all"]
           C == {c \in PitCommands : InTime(c)}
           out == Commands(q)
<1>1. /\ q.request \in TyreRequests /\ q.session = session /\ q.session = q.askedIn
      /\ clock - q.created_at < QueueLife /\ q.created_at - q.asked <= q.waited + WriteMaxAge + (SnapshotStale - 1)
      /\ q.created_at \in Int /\ q.asked \in Int /\ q.waited \in Int
  BY DEF Requests, Due, IsCurrent
<1>2. clock \in 0..MaxClock /\ session \in 1..2 /\ armed \in SUBSET Corners
  BY DEF Figures
<1>3. /\ DOMAIN cs = 1..Len(cs) /\ Len(cs) \in Nat
      /\ \A i \in DOMAIN cs : IsTick(cs[i]) \/ (i = 1 /\ cs[i].op = "ClearTires")
      /\ Outcome(cs, armed) = Meaning(q.request, armed)
  BY <1>1, <1>2, CommandsDoWhatIsMeant
<1>4. out = [i \in DOMAIN cs |-> Of(i)]
  BY DEF Commands
<1> HIDE DEF cs, out
<1>5. ASSUME NEW i \in DOMAIN cs PROVE Of(i) \in C
  <2>1. (cs[i].op = "tick" /\ cs[i].corner \in Corners) \/ cs[i].op = "ClearTires"
    BY <1>3 DEF IsTick
  <2>2. Of(i) \in PitCommands
    BY <1>2, <2>1 DEF PitCommands
  <2>3. clock - q.asked <= q.waited + WriteMaxAge + (SnapshotStale - 1) + (QueueLife - 1)
    <3>1. WriteMaxAge \in Nat /\ SnapshotStale \in Nat /\ QueueLife \in Nat /\ clock \in Int
      BY <1>2, PitAssumption
    <3>2. QED
      BY <1>1, <3>1
  <2>4. InTime(Of(i))
    BY <1>1, <2>1, <2>3 DEF InTime
  <2>5. QED
    BY <2>2, <2>4
<1>6. /\ DOMAIN out = DOMAIN cs /\ Len(out) = Len(cs)
      /\ \A i \in DOMAIN cs : out[i].op = cs[i].op /\ (cs[i].op = "tick" => out[i].corner = cs[i].corner)
  BY <1>3, <1>4
<1>7. out \in Seq(C)
  <2> HIDE DEF C, Of
  <2> QED BY <1>3, <1>4, <1>5
<1>8. \A i \in DOMAIN out : IsTick(out[i]) \/ (i = 1 /\ out[i].op = "ClearTires")
  BY <1>3, <1>6 DEF IsTick
<1>9. Ticked(out) = Ticked(cs)
  BY <1>6 DEF Ticked
<1>10. Clears(out) <=> Clears(cs)
  <2>1. cs = <<>> <=> DOMAIN cs = {}
    BY <1>3, <1>6
  <2>2. out = <<>> <=> DOMAIN out = {}
    BY <1>7
  <2>3. cs # <<>> => 1 \in DOMAIN cs
    BY <1>3, <2>1
  <2>4. QED
    BY <1>6, <2>1, <2>2, <2>3 DEF Clears
<1>11. Outcome(out, armed) = Outcome(cs, armed)
  BY <1>9, <1>10 DEF Outcome
<1> QED BY <1>3, <1>7, <1>8, <1>11 DEF Completes, out, C

\* The clocks, the car and the driver: what waits keeps its stamps.
LEMMA WorldKeeps ==
    ASSUME PitInv, Second \/ PitEntry \/ PitExit \/ SwapDriver \/ NewPhase
    PROVE  PitInv'
<1>1. /\ latest' = latest /\ latest_at' = latest_at /\ row' = row
      /\ armed' = armed /\ posted' = posted /\ intended' = intended /\ overlapped' = overlapped
      /\ room' = room /\ last_session_time' = last_session_time /\ was_on_pit_road' = was_on_pit_road
      /\ requests' = requests /\ incoming' = incoming
  BY DEF Second, PitEntry, PitExit, SwapDriver, NewPhase, simVars, frameVars
<1>2. /\ clock \in Nat /\ began \in 0..clock /\ MaxClock \in Nat /\ MaxAsked \in Nat
      /\ room \in 0..session /\ session \in 1..2 /\ asked \in 0..MaxAsked /\ latest_at \in 0..clock
      /\ session = 1 => began = 0
  BY PitAssumption DEF PitInv, Figures
<1>3. /\ clock' \in 0..MaxClock /\ clock <= clock' /\ began' \in 0..clock'
      /\ session' \in 1..2 /\ session <= session' /\ asked' \in 0..MaxAsked
      /\ session' = 1 => began' = 0
      /\ seated' \in BOOLEAN /\ on_pit_road' \in BOOLEAN
  <2>1. CASE Second
    BY <1>2, <2>1 DEF Second, PitInv, Figures
  <2>2. CASE PitEntry
    BY <1>2, <2>2 DEF PitEntry, PitInv, Figures
  <2>3. CASE PitExit
    <3>1. on_pit_road' \in BOOLEAN
      BY <2>3, Zenon DEF PitExit
    <3>2. clock' = clock /\ session' = session /\ began' = began /\ seated' = seated /\ asked' = asked
      BY <2>3 DEF PitExit
    <3>3. clock \in 0..MaxClock /\ seated \in BOOLEAN
      BY DEF PitInv, Figures
    <3>4. QED
      BY <1>2, <3>1, <3>2, <3>3
  <2>4. CASE SwapDriver
    <3>1. seated' \in BOOLEAN
      BY <2>4, Zenon DEF SwapDriver
    <3>2. /\ clock' = clock /\ session' = session /\ began' = began
          /\ on_pit_road' = on_pit_road /\ asked' = asked
      BY <2>4 DEF SwapDriver
    <3>3. clock \in 0..MaxClock /\ on_pit_road \in BOOLEAN
      BY DEF PitInv, Figures
    <3>4. QED
      BY <1>2, <3>1, <3>2, <3>3
  <2>5. CASE NewPhase
    BY <1>2, <2>5 DEF NewPhase, PitInv, Figures
  <2>6. QED
    BY <2>1, <2>2, <2>3, <2>4, <2>5
<1>4. Figures'
  <2>1. /\ was_on_pit_road \in BOOLEAN /\ overlapped \in BOOLEAN
        /\ armed \in SUBSET Corners /\ intended \in SUBSET Corners /\ last_session_time \in 0..MaxClock
    BY DEF PitInv, Figures
  <2>2. latest_at' \in 0..clock' /\ room' \in 0..session'
    BY <1>1, <1>2, <1>3
  <2>3. QED
    BY <1>1, <1>3, <2>1, <2>2 DEF Figures
<1>5. ASSUME NEW phase \in 0..session PROVE Began(phase, began') = Began(phase, began)
  BY <1>2 DEF Began, Second, PitEntry, PitExit, SwapDriver, NewPhase
<1>6. Sights'
  <2>1. ASSUME NEW got \in Snapshots, got.session <= session
        PROVE  Began(got.session, began') = Began(got.session, began) /\ got.session <= session'
    <3>1. got.session \in 0..session
      BY <1>2, <2>1 DEF Snapshots
    <3>2. QED
      BY <1>2, <1>3, <1>5, <3>1
  <2>2. row' = NoSnapshot \/ TakenAt(row, clock)'
    <3>1. CASE row = NoSnapshot
      BY <1>1, <3>1
    <3>2. CASE row # NoSnapshot
      <4>1. row \in Snapshots /\ row.session <= session
            /\ row.time + Began(row.session, began) = row.read /\ row.read <= clock /\ row.read \in Nat
        BY <3>2 DEF PitInv, Sights, TakenAt, Snapshots
      <4>2. row.read <= clock'
        BY <1>2, <1>3, <4>1
      <4>3. QED
        BY <1>1, <2>1, <3>2, <4>1, <4>2 DEF TakenAt, Snapshots
    <3>3. QED
      BY <3>1, <3>2
  <2>3. latest' = NoSnapshot \/ TakenAt(latest, latest_at)'
    <3>1. CASE latest = NoSnapshot
      BY <1>1, <3>1
    <3>2. CASE latest # NoSnapshot
      <4>1. latest \in Snapshots /\ latest.session <= session
            /\ latest.time + Began(latest.session, began) = latest.read /\ latest.read <= latest_at
        BY <3>2 DEF PitInv, Sights, TakenAt
      <4>2. QED
        BY <1>1, <2>1, <4>1 DEF TakenAt, Snapshots
    <3>3. QED
      BY <3>1, <3>2
  <2>4. NoSnapshot' = NoSnapshot
    BY DEF NoSnapshot
  <2>5. QED
    BY <2>2, <2>3, <2>4 DEF Sights
<1>7. OnTheWay'
  <2>1. {w \in Writes : Stamped(w)}' = {w \in Writes : Stamped(w)}
    BY <1>1, <1>2, <1>5, StampsStay
  <2>2. {q \in Requests : Due(q)}' = {q \in Requests : Due(q)} /\ {c \in PitCommands : InTime(c)}' = {c \in PitCommands : InTime(c)}
    BY DEF Requests, Due, PitCommands, InTime
  <2>3. QED
    BY <1>1, <2>1, <2>2 DEF PitInv, OnTheWay
<1>8. Pending'
  BY <1>1 DEF PitInv, Pending, Completes, Outcome, Clears, Ticked, IsTick
<1> QED BY <1>4, <1>6, <1>7, <1>8 DEF PitInv

\* A command carried out.
LEMMA SimKeeps == ASSUME PitInv, Sim PROVE PitInv'
<1>1. /\ posted # <<>> /\ armed' = CarryOut(Head(posted), armed) /\ posted' = Tail(posted)
      /\ UNCHANGED <<worldVars, frameVars, requests, row, incoming, asked, intended, overlapped>>
  BY DEF Sim
<1>2. posted \in Seq({c \in PitCommands : InTime(c)})
  BY DEF PitInv, OnTheWay
<1> DEFINE C == {c \in PitCommands : InTime(c)}
<1>3. Head(posted) \in C /\ Tail(posted) \in Seq(C)
  <2>1. posted \in Seq(C)
    BY <1>2
  <2> HIDE DEF C
  <2>2. QED
    BY <1>1, <2>1
<1>4. armed' \in SUBSET Corners
  <2>1. armed \in SUBSET Corners
    BY DEF PitInv, Figures
  <2>2. Head(posted).op \in {"tick", "ClearTires"} /\ (Head(posted).op = "tick" => Head(posted).corner \in Corners)
    BY <1>3 DEF PitCommands, InTime
  <2>3. QED
    BY <1>1, <2>1, <2>2 DEF CarryOut
<1>5. Figures'
  BY <1>1, <1>4 DEF PitInv, Figures, worldVars, frameVars
<1>6. Sights'
  BY <1>1 DEF PitInv, Sights, TakenAt, Snapshots, NoSnapshot, Began, worldVars, frameVars
<1>7. OnTheWay'
  <2>1. {w \in Writes : Stamped(w)}' = {w \in Writes : Stamped(w)}
    BY <1>1, StampsStay DEF worldVars, frameVars
  <2>2. QED
    BY <1>1, <1>3, <2>1 DEF PitInv, OnTheWay, Requests, Due, PitCommands, InTime
<1>8. Pending'
  <2>1. SUFFICES ASSUME ~ overlapped PROVE Completes(posted', armed', intended)
    BY <1>1 DEF Pending
  <2>2. Completes(posted, armed, intended)
    BY <2>1 DEF PitInv, Pending
  <2>3. posted \in Seq(PitCommands)
    <3>1. C \subseteq PitCommands /\ posted \in Seq(C)
      BY <1>2
    <3> HIDE DEF C
    <3>2. QED
      BY <3>1
  <2>4. Completes(Tail(posted), CarryOut(Head(posted), armed), intended)
    BY <1>1, <2>2, <2>3, CarryOutCompletes
  <2>5. QED
    BY <1>1, <2>4
<1> QED BY <1>5, <1>6, <1>7, <1>8 DEF PitInv

\* A row of telemetry.
LEMMA TelemetryKeeps == ASSUME PitInv, Telemetry PROVE PitInv'
<1> DEFINE C == {c \in PitCommands : InTime(c)}
           Q == {q \in Requests : Due(q)}
           T == {q \in Q : IsCurrent(q)}
           current == Kept(requests, IsCurrent)
           parts == [i \in DOMAIN current |-> Commands(current[i])]
<1>1. /\ row' = [session |-> session, seated |-> seated, on_pit_road |-> on_pit_road,
                 time |-> SessionTime, read |-> clock]
      /\ posted' = posted \o FlattenSeq(parts)
      /\ intended' = IF current = <<>> THEN intended ELSE Meaning(current[1].request, intended)
      /\ overlapped' = (overlapped \/ Len(current) > 1 \/ (current # <<>> /\ posted # <<>>))
      /\ requests' = <<>>
      /\ UNCHANGED <<worldVars, armed, frameVars, incoming, asked>>
  BY DEF Telemetry
<1>2. requests \in Seq(Q) /\ posted \in Seq(C)
  BY DEF PitInv, OnTheWay
<1>3. current \in Seq(T)
  <2> HIDE DEF Q
  <2> QED BY <1>2, KeptRequests
<1>4. Figures
  BY DEF PitInv
<1>5. \A q \in T : Commands(q) \in Seq(C) /\ Completes(Commands(q), armed, Meaning(q.request, armed))
  BY <1>4, CommandsAreInTime
<1>6. \A q \in T : q.request \in TyreRequests
  BY DEF Requests
<1> HIDE DEF T, C, Q, current
<1>7. Len(current) \in Nat /\ DOMAIN current = 1..Len(current) /\ \A i \in 1..Len(current) : current[i] \in T
  BY <1>3
<1>8. parts \in Seq(Seq(C))
  BY <1>5, <1>7
<1>9. posted' \in Seq(C)
  <2>1. FlattenSeq(parts) \in Seq(C)
    BY <1>8, FlattenSeqType
  <2>2. QED
    BY <1>1, <1>2, <2>1
<1>10. current # <<>> => 1 \in 1..Len(current)
  BY <1>3
<1>11. intended' \in SUBSET Corners
  <2>1. intended \in SUBSET Corners
    BY DEF PitInv, Figures
  <2>2. CASE current = <<>>
    BY <1>1, <2>1, <2>2
  <2>3. CASE current # <<>>
    <3>1. current[1].request \in TyreRequests
      BY <1>6, <1>7, <1>10, <2>3
    <3>2. Meaning(current[1].request, intended) \in SUBSET Corners
      BY <2>1, <3>1 DEF Meaning, TyreRequests
    <3>3. QED
      BY <1>1, <2>3, <3>2
  <2>4. QED
    BY <2>2, <2>3
<1>12. overlapped' \in BOOLEAN
  <2> DEFINE b == overlapped \/ Len(current) > 1 \/ (current # <<>> /\ posted # <<>>)
  <2>1. b \in BOOLEAN
    BY Zenon
  <2>2. overlapped' = b
    BY <1>1
  <2> HIDE DEF b
  <2>3. QED
    BY <2>1, <2>2
<1>13. Figures'
  <2>1. UNCHANGED <<clock, session, began, seated, on_pit_road, armed, latest, latest_at, room, last_session_time, was_on_pit_road, asked>>
    BY <1>1 DEF worldVars, frameVars
  <2>2. QED
    BY <1>11, <1>12, <2>1 DEF PitInv, Figures
<1>14. Sights'
  <2>1. clock \in 0..MaxClock /\ began \in 0..clock /\ session \in 1..2 /\ (session = 1 => began = 0)
        /\ seated \in BOOLEAN /\ on_pit_road \in BOOLEAN /\ MaxClock \in Nat
    BY PitAssumption DEF PitInv, Figures
  <2>2. SessionTime \in 0..MaxClock /\ SessionTime + Began(session, began) = clock
    BY <2>1 DEF SessionTime, Began
  <2>3. row' \in Snapshots /\ row'.session = session /\ row'.time = SessionTime /\ row'.read = clock
    <3> HIDE DEF SessionTime
    <3> QED BY <1>1, <2>1, <2>2 DEF Snapshots
  <2>4. UNCHANGED <<clock, session, began, latest, latest_at>>
    BY <1>1 DEF worldVars, frameVars
  <2>5. TakenAt(row, clock)'
    BY <2>1, <2>2, <2>3, <2>4 DEF TakenAt, Snapshots
  <2>6. QED
    BY <2>4, <2>5 DEF PitInv, Sights, TakenAt, NoSnapshot, Snapshots
<1>15. OnTheWay'
  <2>1. {w \in Writes : Stamped(w)}' = {w \in Writes : Stamped(w)}
    BY <1>1, StampsStay DEF worldVars, frameVars
  <2>2. C' = C /\ Q' = Q
    BY DEF C, Q, PitCommands, InTime, Requests, Due
  <2>3. requests' \in Seq(Q)
    BY <1>1
  <2>4. incoming' \in Seq({w \in Writes : Stamped(w)})
    BY <1>1 DEF PitInv, OnTheWay
  <2>5. QED
    BY <1>9, <2>1, <2>2, <2>3, <2>4 DEF OnTheWay, C, Q
<1>16. Pending'
  <2>1. SUFFICES ASSUME ~ overlapped' PROVE Completes(posted', armed', intended')
    BY DEF Pending
  <2>2. ~ overlapped /\ ~ Len(current) > 1 /\ (current = <<>> \/ posted = <<>>)
    BY <1>1, <2>1, Zenon
  <2>3. Completes(posted, armed, intended) /\ armed' = armed
    BY <1>1, <2>2 DEF PitInv, Pending
  <2>4. CASE current = <<>>
    <3>1. parts = <<>>
      BY <2>4
    <3>2. posted' = posted
      BY <1>1, <1>2, <3>1, FlattenSeqEmpty
    <3>3. QED
      BY <1>1, <2>3, <2>4, <3>2
  <2>5. CASE current # <<>>
    <3>1. Len(current) = 1 /\ posted = <<>> /\ current[1] \in T
      BY <1>7, <1>10, <2>2, <2>5
    <3>2. parts = <<Commands(current[1])>>
      BY <1>7, <3>1
    <3>3. posted' = Commands(current[1])
      <4>1. Commands(current[1]) \in Seq(C)
        BY <1>5, <3>1
      <4>2. FlattenSeq(parts) = Commands(current[1])
        BY <3>2, FlattenSeqOne
      <4>3. QED
        BY <1>1, <3>1, <4>1, <4>2
    <3>4. armed = intended
      <4>1. Ticked(posted) = {} /\ ~ Clears(posted)
        BY <3>1 DEF Ticked, Clears
      <4>2. QED
        BY <2>3, <4>1 DEF Completes, Outcome
    <3>5. intended' = Meaning(current[1].request, armed)
      BY <1>1, <2>5, <3>4
    <3>6. QED
      BY <1>5, <2>3, <3>1, <3>3, <3>5
  <2>6. QED
    BY <2>4, <2>5
<1> QED BY <1>13, <1>14, <1>15, <1>16 DEF PitInv

\* The driver's black box asks.
LEMMA PressKeeps == ASSUME PitInv, NEW request \in Asks, Press(request) PROVE PitInv'
<1> DEFINE Q == {q \in Requests : Due(q)}
           q == Queued(request, latest, latest_at, clock, latest.session)
<1>1. /\ asked < MaxAsked /\ asked' = asked + 1 /\ latest # NoSnapshot
      /\ requests' = Append(requests, q)
      /\ UNCHANGED <<worldVars, simVars, frameVars, row, incoming>>
  BY DEF Press, Fresh
<1>2. q \in Q
  <2>1. request \in TyreRequests /\ {WriteMaxAge, SnapshotStale} \subseteq Nat \ {0}
    BY PitAssumption
  <2>2. /\ latest.session \in 1..2 /\ clock \in 0..MaxClock /\ MaxClock \in Nat
        /\ latest.read \in 0..latest_at /\ latest_at \in 0..clock
    BY <1>1, PitAssumption DEF PitInv, Figures, Sights, TakenAt, Snapshots
  <2>3. q \in Requests
    BY <2>1, <2>2 DEF Queued, Requests
  <2>4. Due(q)
    BY <2>1, <2>2 DEF Queued, Due
  <2>5. QED
    BY <2>3, <2>4
<1>3. requests' \in Seq(Q)
  <2>1. requests \in Seq(Q)
    BY DEF PitInv, OnTheWay
  <2> HIDE DEF Q, q
  <2>2. QED
    BY <1>1, <1>2, <2>1
<1>4. UNCHANGED <<clock, session, began, seated, on_pit_road, armed, posted, intended, overlapped,
                  latest, latest_at, room, last_session_time, was_on_pit_road, row, incoming>>
  BY <1>1 DEF worldVars, simVars, frameVars
<1>5. Figures'
  <2>1. asked' \in 0..MaxAsked
    BY <1>1, PitAssumption DEF PitInv, Figures
  <2>2. QED
    BY <1>4, <2>1 DEF PitInv, Figures
<1>6. Sights'
  BY <1>4 DEF PitInv, Sights, TakenAt, Snapshots, NoSnapshot, Began
<1>7. OnTheWay'
  <2>1. {w \in Writes : Stamped(w)}' = {w \in Writes : Stamped(w)}
    BY <1>4, StampsStay
  <2>2. {r \in Requests : Due(r)}' = {r \in Requests : Due(r)} /\ {c \in PitCommands : InTime(c)}' = {c \in PitCommands : InTime(c)}
    BY DEF Requests, Due, PitCommands, InTime
  <2>3. posted' \in Seq({c \in PitCommands : InTime(c)}) /\ incoming' \in Seq({w \in Writes : Stamped(w)})
    BY <1>4 DEF PitInv, OnTheWay
  <2>4. QED
    BY <1>3, <2>1, <2>2, <2>3 DEF OnTheWay
<1>8. Pending'
  BY <1>4 DEF PitInv, Pending, Completes, Outcome, Clears, Ticked, IsTick
<1> QED BY <1>5, <1>6, <1>7, <1>8 DEF PitInv

\* A crew member writes.
LEMMA CrewWritesKeeps == ASSUME PitInv, NEW request \in Asks, CrewWrites(request) PROVE PitInv'
<1> DEFINE W == {x \in Writes : Stamped(x)}
           w == [request |-> request, stamp |-> SessionTime, asked |-> clock, askedIn |-> session]
<1>1. /\ asked < MaxAsked /\ asked' = asked + 1
      /\ incoming' = IF room = session THEN Append(incoming, w) ELSE incoming
      /\ UNCHANGED <<worldVars, simVars, frameVars, requests, row>>
  BY DEF CrewWrites
<1>2. room = session => w \in W
  <2>1. SUFFICES ASSUME room = session PROVE w \in W
    OBVIOUS
  <2>2. /\ request \in TyreRequests /\ clock \in 0..MaxClock /\ began \in 0..clock
        /\ session \in 1..2 /\ (session = 1 => began = 0) /\ MaxClock \in Nat
    BY PitAssumption DEF PitInv, Figures
  <2>3. w \in Writes
    BY <2>2 DEF Writes, SessionTime
  <2>4. Stamped(w)
    BY <2>1, <2>2 DEF Stamped, SessionTime, Began
  <2>5. QED
    BY <2>3, <2>4
<1>3. incoming' \in Seq(W)
  <2>1. incoming \in Seq(W)
    BY DEF PitInv, OnTheWay
  <2> HIDE DEF W, w
  <2>2. QED
    BY <1>1, <1>2, <2>1
<1>4. UNCHANGED <<clock, session, began, seated, on_pit_road, armed, posted, intended, overlapped,
                  latest, latest_at, room, last_session_time, was_on_pit_road, row, requests>>
  BY <1>1 DEF worldVars, simVars, frameVars
<1>5. Figures'
  <2>1. asked' \in 0..MaxAsked
    BY <1>1, PitAssumption DEF PitInv, Figures
  <2>2. QED
    BY <1>4, <2>1 DEF PitInv, Figures
<1>6. Sights'
  BY <1>4 DEF PitInv, Sights, TakenAt, Snapshots, NoSnapshot, Began
<1>7. OnTheWay'
  <2>1. W' = W
    BY <1>4, StampsStay
  <2>2. {q \in Requests : Due(q)}' = {q \in Requests : Due(q)} /\ {c \in PitCommands : InTime(c)}' = {c \in PitCommands : InTime(c)}
    BY DEF Requests, Due, PitCommands, InTime
  <2>3. posted' \in Seq({c \in PitCommands : InTime(c)}) /\ requests' \in Seq({q \in Requests : Due(q)})
    BY <1>4 DEF PitInv, OnTheWay
  <2>4. QED
    BY <1>3, <2>1, <2>2, <2>3 DEF OnTheWay
<1>8. Pending'
  BY <1>4 DEF PitInv, Pending, Completes, Outcome, Clears, Ticked, IsTick
<1> QED BY <1>5, <1>6, <1>7, <1>8 DEF PitInv

\* What a frame queues for a write that is live, or for the policy.
LEMMA QueuedIsDue ==
    ASSUME Figures, NEW got \in Snapshots, NEW request \in TyreRequests, NEW made \in 0..MaxClock,
           NEW at \in 0..clock, got.read <= at,
           clock - made <= (at - got.read) + WriteMaxAge + (SnapshotStale - 1)
    PROVE  Queued(request, got, at, made, got.session) \in {q \in Requests : Due(q)}
<1>1. clock \in 0..MaxClock /\ got.session \in 1..2 /\ got.read \in 0..MaxClock /\ MaxClock \in Nat
  BY PitAssumption DEF Figures, Snapshots
<1>2. at - got.read \in 0..MaxClock
  BY <1>1
<1>3. Queued(request, got, at, made, got.session) \in Requests
  BY <1>1, <1>2 DEF Queued, Requests
<1>4. Due(Queued(request, got, at, made, got.session))
  BY <1>1 DEF Queued, Due
<1> QED BY <1>3, <1>4

\* One frame.
LEMMA FrameKeeps == ASSUME PitInv, NEW n \in 0..MaxAsked, Frame(n) PROVE PitInv'
<1> DEFINE W == {w \in Writes : Stamped(w)}
           Q == {q \in Requests : Due(q)}
           got == IF row = NoSnapshot THEN latest ELSE row
           at == IF row = NoSnapshot THEN latest_at ELSE clock
           fresh == Fresh(got, at)
           driving == fresh /\ got.seated
           joining == fresh /\ MustJoin(got)
           last == IF fresh THEN got.time ELSE last_session_time
           arrived == SubSeq(incoming, 1, n)
           live == IF driving /\ ~ joining THEN Kept(arrived, LAMBDA w : WriteIsFresh(w, last)) ELSE <<>>
           entering == driving /\ got.on_pit_road /\ (joining \/ ~ was_on_pit_road)
           policy == PolicyWrites(entering, got)
           writes == live \o policy
           added == [i \in DOMAIN writes |-> Queued(writes[i].request, got, at, writes[i].asked, writes[i].askedIn)]
<1>1. /\ n <= Len(incoming)
      /\ latest' = got /\ latest_at' = at /\ row' = NoSnapshot
      /\ last_session_time' = last
      /\ was_on_pit_road' = (fresh /\ got.on_pit_road)
      /\ room' = IF joining THEN got.session ELSE room
      /\ incoming' = IF joining THEN <<>> ELSE SubSeq(incoming, n + 1, Len(incoming))
      /\ requests' = requests \o added
      /\ UNCHANGED <<worldVars, simVars, asked>>
  BY DEF Frame
<1>2. UNCHANGED <<clock, session, began, seated, on_pit_road, armed, posted, intended, overlapped, asked>>
  BY <1>1 DEF worldVars, simVars
<1>3. /\ clock \in 0..MaxClock /\ began \in 0..clock /\ session \in 1..2 /\ MaxClock \in Nat
      /\ latest_at \in 0..clock /\ room \in 0..session /\ last_session_time \in 0..MaxClock
      /\ (session = 1 => began = 0)
      /\ {WriteMaxAge, QueueLife, SnapshotStale} \subseteq Nat \ {0}
  BY PitAssumption DEF PitInv, Figures
<1>4. at \in 0..clock /\ (got = NoSnapshot \/ TakenAt(got, at))
  BY <1>3 DEF PitInv, Sights
<1>5. fresh => /\ got \in Snapshots /\ got.session <= session /\ got.time + Began(got.session, began) = got.read /\ got.read <= at
               /\ clock - at < SnapshotStale /\ got.read \in Nat
  BY <1>4 DEF Fresh, TakenAt, Snapshots
<1>6. joining <=> fresh /\ got.session # room
  BY DEF MustJoin
<1> HIDE DEF got, at, fresh, joining
<1>7. last \in 0..MaxClock
  BY <1>3, <1>5 DEF Snapshots
<1>8. ASSUME driving, ~ joining, NEW w \in W, WriteIsFresh(w, last)
      PROVE  Queued(w.request, got, at, w.asked, w.askedIn) \in Q
  <2>1. got \in Snapshots /\ got.session = room /\ last = got.time
    BY <1>5, <1>6, <1>8
  <2>2. w \in Writes /\ w.askedIn = room /\ w.asked = w.stamp + Began(room, began)
    BY DEF Stamped
  <2>3. w.stamp \in Nat /\ w.request \in TyreRequests /\ w.asked \in 0..MaxClock
    BY <2>2 DEF Writes
  <2>4. last - w.stamp <= WriteMaxAge
    <3>1. w.stamp >= last \/ last - w.stamp <= WriteMaxAge
      BY <1>8 DEF WriteIsFresh
    <3>2. QED
      BY <1>3, <1>7, <2>3, <3>1
  <2>5. clock - w.asked <= (at - got.read) + WriteMaxAge + (SnapshotStale - 1)
    <3>1. got.time + Began(room, began) = got.read /\ clock - at < SnapshotStale /\ got.read \in Nat
      BY <1>5, <1>8, <2>1
    <3>2. Began(room, began) \in Int
      BY <1>3 DEF Began
    <3>3. QED
      BY <1>3, <1>4, <1>7, <2>1, <2>2, <2>3, <2>4, <3>1, <3>2
  <2>6. Queued(w.request, got, at, w.asked, got.session) \in Q
    BY <1>4, <1>5, <1>8, <2>1, <2>3, <2>5, QueuedIsDue DEF PitInv
  <2>7. QED
    BY <2>1, <2>2, <2>6
<1>9. arrived \in Seq(W) /\ SubSeq(incoming, n + 1, Len(incoming)) \in Seq(W)
  <2>1. incoming \in Seq(W)
    BY DEF PitInv, OnTheWay
  <2> HIDE DEF W
  <2>2. n \in Nat /\ n <= Len(incoming) /\ Len(incoming) \in Nat
    BY <1>1, <2>1, PitAssumption
  <2>3. QED
    BY <2>1, <2>2
<1> DEFINE Live == {w \in W : driving /\ ~ joining /\ WriteIsFresh(w, last)}
           Own == {x \in {[request |-> [op |-> IF Policy = "take" THEN "arm_all" ELSE "clear_all"],
                           asked |-> clock, askedIn |-> got.session]} : fresh}
<1>10. live \in Seq(Live)
  <2>1. CASE driving /\ ~ joining
    <3>1. live = Kept(arrived, LAMBDA w : WriteIsFresh(w, last))
      BY <2>1
    <3>2. Live = {w \in W : WriteIsFresh(w, last)}
      BY <2>1
    <3> HIDE DEF W, last, arrived, Live, live
    <3>3. QED
      BY <1>9, <3>1, <3>2, KeptWrites
  <2>2. CASE ~ (driving /\ ~ joining)
    <3>1. live = <<>>
      BY <2>2
    <3> HIDE DEF Live, live
    <3>2. QED
      BY <3>1
  <2>3. QED
    BY <2>1, <2>2
<1>11. policy \in Seq(Own)
  <2>1. CASE entering /\ Policy # "none"
    <3> DEFINE x == [request |-> [op |-> IF Policy = "take" THEN "arm_all" ELSE "clear_all"],
                     asked |-> clock, askedIn |-> got.session]
    <3>1. policy = <<x>>
      BY <2>1 DEF PolicyWrites
    <3>2. x \in Own
      BY <2>1
    <3> HIDE DEF x, Own, policy
    <3>3. QED
      BY <3>1, <3>2
  <2>2. CASE ~ (entering /\ Policy # "none")
    <3>1. policy = <<>>
      BY <2>2 DEF PolicyWrites
    <3> HIDE DEF Own, policy
    <3>2. QED
      BY <3>1
  <2>3. QED
    BY <2>1, <2>2
<1>12. ASSUME NEW x \in Live \cup Own PROVE Queued(x.request, got, at, x.asked, x.askedIn) \in Q
  <2>1. CASE x \in Live
    BY <1>8, <2>1
  <2>2. CASE x \in Own
    <3>1. /\ fresh /\ x.asked = clock /\ x.askedIn = got.session
          /\ x.request \in TyreRequests
      BY <2>2 DEF TyreRequests
    <3>2. clock - clock <= (at - got.read) + WriteMaxAge + (SnapshotStale - 1)
      BY <1>3, <1>4, <1>5, <3>1
    <3>3. Queued(x.request, got, at, clock, got.session) \in Q
      BY <1>3, <1>4, <1>5, <3>1, <3>2, QueuedIsDue DEF PitInv
    <3>4. QED
      BY <3>1, <3>3
  <2>3. QED
    BY <2>1, <2>2
<1>13. requests' \in Seq(Q)
  <2> DEFINE U == Live \cup Own
  <2>1. live \in Seq(U) /\ policy \in Seq(U)
    <3>1. Live \subseteq U /\ Own \subseteq U
      OBVIOUS
    <3> HIDE DEF Live, Own, U, live, policy
    <3>2. QED
      BY <1>10, <1>11, <3>1
  <2>2. writes \in Seq(U)
    <3> HIDE DEF U, live, policy
    <3> QED BY <2>1
  <2>3. \A x \in U : Queued(x.request, got, at, x.asked, x.askedIn) \in Q
    BY <1>12
  <2>4. requests \in Seq(Q)
    BY DEF PitInv, OnTheWay
  <2> HIDE DEF U, Q, writes
  <2>5. Len(writes) \in Nat /\ DOMAIN writes = 1..Len(writes) /\ \A i \in 1..Len(writes) : writes[i] \in U
    BY <2>2
  <2>6. \A i \in 1..Len(writes) : Queued(writes[i].request, got, at, writes[i].asked, writes[i].askedIn) \in Q
    BY <2>3, <2>5
  <2>7. added \in Seq(Q)
    BY <2>5, <2>6
  <2> HIDE DEF added
  <2>8. QED
    BY <1>1, <2>4, <2>7
<1> HIDE DEF added, writes, policy, live, Live, Own
<1>14. room' \in 0..session
  BY <1>1, <1>3, <1>5, <1>6 DEF Snapshots
<1>15. incoming' \in Seq({w \in Writes : Stamped(w)}')
  <2>1. CASE joining
    BY <1>1, <2>1
  <2>2. CASE ~ joining
    <3>1. room' = room
      BY <1>1, <2>2
    <3>2. W' = W
      BY <1>2, <3>1, StampsStay
    <3>3. incoming' \in Seq(W)
      BY <1>1, <1>9, <2>2
    <3>4. QED
      BY <3>2, <3>3
  <2>3. QED
    BY <2>1, <2>2
<1>16. OnTheWay'
  <2>1. Q' = Q /\ {c \in PitCommands : InTime(c)}' = {c \in PitCommands : InTime(c)}
    BY DEF Requests, Due, PitCommands, InTime
  <2>2. posted' \in Seq({c \in PitCommands : InTime(c)})
    BY <1>2 DEF PitInv, OnTheWay
  <2>3. QED
    BY <1>13, <1>15, <2>1, <2>2 DEF OnTheWay
<1>17. was_on_pit_road' \in BOOLEAN
  <2> DEFINE b == fresh /\ got.on_pit_road
  <2>1. b \in BOOLEAN
    BY Zenon
  <2>2. was_on_pit_road' = b
    BY <1>1
  <2> HIDE DEF b
  <2>3. QED
    BY <2>1, <2>2
<1>18. Figures'
  <2>1. /\ seated \in BOOLEAN /\ on_pit_road \in BOOLEAN /\ overlapped \in BOOLEAN
        /\ armed \in SUBSET Corners /\ intended \in SUBSET Corners /\ asked \in 0..MaxAsked
    BY DEF PitInv, Figures
  <2>2. latest_at' \in 0..clock
    BY <1>1, <1>4
  <2>3. last_session_time' \in 0..MaxClock
    BY <1>1, <1>7
  <2> HIDE DEF last
  <2>4. QED
    BY <1>2, <1>3, <1>14, <1>17, <2>1, <2>2, <2>3 DEF Figures
<1>19. Sights'
  <2>1. latest' = NoSnapshot \/ TakenAt(got, at)
    BY <1>1, <1>4
  <2>2. latest' = NoSnapshot \/ TakenAt(latest, latest_at)'
    BY <1>1, <1>2, <2>1 DEF TakenAt, Snapshots
  <2>3. row' = NoSnapshot' /\ NoSnapshot' = NoSnapshot
    BY <1>1 DEF NoSnapshot
  <2>4. QED
    BY <2>2, <2>3 DEF Sights
<1>20. Pending'
  BY <1>2 DEF PitInv, Pending, Completes, Outcome, Clears, Ticked, IsTick
<1> QED BY <1>16, <1>18, <1>19, <1>20 DEF PitInv

LEMMA PitNext == PitInv /\ [Next]_vars => PitInv'
<1> SUFFICES ASSUME PitInv, [Next]_vars PROVE PitInv'
  OBVIOUS
<1>1. CASE UNCHANGED vars
  <2>1. UNCHANGED <<clock, session, began, seated, on_pit_road, armed, posted, intended, overlapped,
                    latest, latest_at, room, last_session_time, was_on_pit_road, requests, row, incoming, asked>>
    BY <1>1 DEF vars, worldVars, simVars, frameVars
  <2>2. Figures' /\ Sights'
    BY <2>1 DEF PitInv, Figures, Sights, TakenAt, Snapshots, NoSnapshot, Began
  <2>3. Pending'
    BY <2>1 DEF PitInv, Pending, Completes, Outcome, Clears, Ticked, IsTick
  <2>4. OnTheWay'
    <3>1. {w \in Writes : Stamped(w)}' = {w \in Writes : Stamped(w)}
      BY <2>1, StampsStay
    <3>2. {q \in Requests : Due(q)}' = {q \in Requests : Due(q)} /\ {c \in PitCommands : InTime(c)}' = {c \in PitCommands : InTime(c)}
      BY DEF Requests, Due, PitCommands, InTime
    <3>3. QED
      BY <2>1, <3>1, <3>2 DEF PitInv, OnTheWay
  <2>5. QED
    BY <2>2, <2>3, <2>4 DEF PitInv
<1>2. CASE Second \/ PitEntry \/ PitExit \/ SwapDriver \/ NewPhase
  BY <1>2, WorldKeeps
<1>3. CASE Sim
  BY <1>3, SimKeeps
<1>4. CASE Telemetry
  BY <1>4, TelemetryKeeps
<1>5. CASE \E request \in Asks : Press(request) \/ CrewWrites(request)
  BY <1>5, PressKeeps, CrewWritesKeeps
<1>6. CASE \E n \in 0..MaxAsked : Frame(n)
  BY <1>6, FrameKeeps
<1> QED BY <1>1, <1>2, <1>3, <1>4, <1>5, <1>6 DEF Next

LEMMA PitHolds == Spec => []PitInv
BY PitInit, PitNext, PTL DEF Spec

\* Every reachable state of the pit control of one machine is well formed.
THEOREM PitTypeCorrect == Spec => []TypeOK
BY PitHolds, PitInvTypes, PTL

\* Whatever stalls, no command is sent to the sim later after it was asked for
\* than its snapshot waited for a frame and the three limits allow together: the
\* age of a write by that snapshot's clock, of the snapshot since a frame took it,
\* and of the request in its queue
\* (live_pit_write_is_fresh, fresh_snapshot, QueuedPitRequest::is_current).
THEOREM NothingIsLate == Spec => []NeverLate
BY PitHolds, PitInvLimits, PTL

\* Nothing asked for in one phase of the weekend is sent in the next, wherever
\* it was when the phase changed (ensure_connected, QueuedPitRequest::is_current).
THEOREM PhasesStayApart == Spec => []NeverAcrossPhases
BY PitHolds, PitInvLimits, PTL

\* Requests that come one at a time leave the pit menu as they say, whichever
\* corners there are and were ticked before (commands_for, rebuild_tyres_without).
THEOREM RequestsAreCarriedOut == Spec => []CarriedOut
BY PitHolds, PitInvLimits, PTL

-------------------------------------------------------------------------------
(* Auto Fuel: types.                                                       *)

Levels == 0..Size
NatOrNone == Nat \cup {None}
CarType == [place : {"track", "lane", "box"}, tank : Levels, left : 0..MaxLeft, secs : Nat,
            crawled : 0..(MaxCrawl + MaxIdle), lately : Nat \X Nat \X Nat]
SimType == [armed : BOOLEAN, amount : Nat \ {0}, rig : Levels \cup {None}]
SnapType == [tank : Levels, armed : BOOLEAN, amount : Nat, road : BOOLEAN, in_car : BOOLEAN,
             fresh : NatOrNone, age : 0..Stale]
BoxType == [latched : NatOrNone, display : NatOrNone, wait : 0..Interval, pit_lane : {"Pending", "Served"},
            armed_in_lane : BOOLEAN, on_entry : Levels \cup {None}]
WatchType == [lowest : Levels \cup {None}, target : NatOrNone, armed : Nat]
RequestType == [what : {"SetFuel", "ClearFuel"}, litres : Nat, age : Nat, own : BOOLEAN]
VisitType == [goal : NatOrNone, met : BOOLEAN, tracked : BOOLEAN, entry : Levels, ticked : BOOLEAN,
              sighted : BOOLEAN, told : BOOLEAN, reticked : BOOLEAN,
              worked : BOOLEAN, done : BOOLEAN, result : Levels \cup {None}, late : Nat,
              pressed : BOOLEAN, away : BOOLEAN, blind : BOOLEAN]

FuelTypes ==
    /\ car \in CarType /\ sim \in SimType /\ seat \in BOOLEAN /\ auto \in BOOLEAN
    /\ snap \in SnapType /\ box \in BoxType /\ watch \in WatchType
    /\ pit_requests \in Seq(RequestType) /\ visit \in VisitType /\ upsets \in 0..MaxUpsets

LEMMA FuelConstants ==
    /\ Litre \in Nat \ {0} /\ Steps \in Nat \ {0} /\ Size \in Nat \ {0} /\ Pump \in Nat \ {0} /\ Gain \in Nat \ {0}
    /\ Interval \in Nat \ {0} /\ Stale \in Nat \ {0} /\ Patience \in Nat \ {0} /\ MaxLeft \in Nat \ {0}
    /\ Margin \in Nat /\ MaxCrawl \in Nat /\ MaxIdle \in Nat /\ MaxUpsets \in Nat /\ Error \in Int
<1>1. \A x \in {Litre, Steps, Size, Pump, Gain, Interval, Stale, Patience, MaxLeft} : x \in Nat \ {0}
  BY AutoFuelAssumption
<1>2. \A x \in {Margin, MaxCrawl, MaxIdle, MaxUpsets} : x \in Nat
  BY AutoFuelAssumption
<1> QED BY <1>1, <1>2, AutoFuelAssumption

LEMMA FuelRanges ==
    /\ 0 \in 0..Interval /\ Interval \in 0..Interval /\ 0 \in 0..Stale /\ Stale \in 0..Stale /\ 0 \in Levels /\ Size \in Levels
    /\ \A a \in 0..Interval : NotNegative(a - 1) \in 0..Interval
    /\ \A a \in 0..Stale : Lesser(a + 1, Stale) \in 0..Stale
    /\ \A a \in 0..MaxUpsets : a < MaxUpsets => a + 1 \in 0..MaxUpsets
BY FuelConstants DEF Levels, NotNegative, Lesser

(* A set of places of a sequence that is not empty has a last. *)
LEMMA LastOne ==
    ASSUME NEW n \in Nat, NEW S \in SUBSET (1..n), S # {}
    PROVE  Max(S) \in S /\ \A t \in S : t <= Max(S)
<1>1. \E x \in S : \A t \in S : x >= t
  <2> DEFINE Bound == {k \in Nat : \A t \in S : t <= k}
  <2>1. n \in Bound
    OBVIOUS
  <2>2. PICK k \in Bound : \A j \in Bound : k <= j
    <3> HIDE DEF Bound
    <3> QED BY <2>1, LeastNumber, Bound \in SUBSET Nat DEF Bound
  <2>3. k # 0
    <3>1. PICK t \in S : TRUE
      OBVIOUS
    <3>2. t <= k /\ t >= 1
      BY <2>2
    <3> QED BY <3>2, <2>2
  <2>4. k \in Nat /\ k - 1 \in Nat /\ k - 1 \notin Bound
    BY <2>2, <2>3
  <2>5. PICK t \in S : ~ (t <= k - 1)
    BY <2>4
  <2>6. t = k
    BY <2>2, <2>4, <2>5
  <2> QED BY <2>2, <2>6
<1>2. Max(S) \in S /\ \A t \in S : Max(S) >= t
  BY <1>1 DEF Max
<1> QED BY <1>2

(* Division rounds down; what is asked for covers the need, by less than a litre. *)
LEMMA Division ==
    ASSUME NEW a \in Int, NEW b \in Nat \ {0}
    PROVE  /\ a \div b \in Int /\ (a \div b) * b <= a /\ a < (a \div b) * b + b
           /\ a >= 0 => a \div b \in Nat
OBVIOUS

LEMMA LitresCover ==
    ASSUME NEW x \in Nat
    PROVE  /\ Litres(x) \in Nat /\ Litres(x) * Litre >= x /\ Litres(x) * Litre < x + Litre
           /\ (x = 0 <=> Litres(x) = 0)
<1> DEFINE q == (x + Litre - 1) \div Litre
<1>1. q \in Nat /\ q * Litre <= x + Litre - 1 /\ x + Litre - 1 < q * Litre + Litre
  BY FuelConstants, Division
<1>2. q * Litre \in Int
  BY <1>1, FuelConstants
<1>3. q * Litre >= x /\ q * Litre < x + Litre
  BY <1>1, <1>2, FuelConstants
<1>4. q = 0 => x = 0
  BY <1>3, FuelConstants
<1>5. x = 0 => q = 0
  <2>1. SUFFICES ASSUME x = 0, q >= 1 PROVE FALSE
    BY <1>1
  <2>2. q * Litre >= Litre
    BY <2>1, <1>1, FuelConstants
  <2> QED BY <2>2, <2>1, <1>2, <1>3, FuelConstants
<1> QED BY <1>1, <1>3, <1>4, <1>5 DEF Litres

(* What the operators return. *)
LEMMA FuelToAddType ==
    ASSUME NEW goal \in Nat, NEW tank \in Levels
    PROVE  FuelToAdd(goal, tank) \in Nat
<1>1. Lesser(NotNegative(goal - tank), NotNegative(Size - tank)) \in Nat
  BY FuelConstants DEF Lesser, NotNegative, Levels
<1> QED BY <1>1, LitresCover DEF FuelToAdd

LEMMA ReadType ==
    ASSUME NEW c \in CarType, NEW m \in SimType, NEW error \in Int, seat \in BOOLEAN
    PROVE  Read(c, m, error) \in SnapType
<1> DEFINE left == NotNegative(c.left + error)
           some == (left + Steps - 1) \div Steps
           laps == IF c.left = MaxLeft THEN None ELSE some
<1>1. left \in Nat
  BY FuelConstants DEF CarType, NotNegative
<1>2. some \in Nat
  BY <1>1, FuelConstants, Division
<1>3. some * Steps - left \in Int /\ some * Steps \in Int
  BY <1>1, <1>2, FuelConstants
<1>4. laps # None => laps = some
  OBVIOUS
<1>5. FuelToFinish(laps, laps * Steps - left) \in NatOrNone
  <2>1. CASE laps = None
    BY <2>1 DEF FuelToFinish, NatOrNone
  <2>2. CASE laps # None
    <3>1. laps * Steps - left \in Int /\ laps * Steps \in Int
      BY <2>2, <1>4, <1>3
    <3> QED BY <3>1, <2>2, FuelConstants DEF FuelToFinish, NatOrNone, NotNegative
  <2> QED BY <2>1, <2>2
<1>6. c.place \in {"track", "lane", "box"} /\ c.tank \in Levels /\ m.armed \in BOOLEAN /\ m.amount \in Nat
  BY DEF CarType, SimType
<1>7. 0 \in 0..Stale
  BY FuelConstants
<1>8. Read(c, m, error) =
        [tank |-> c.tank, armed |-> m.armed, amount |-> m.amount, road |-> c.place # "track",
         in_car |-> seat, age |-> 0, fresh |-> FuelToFinish(laps, laps * Steps - left)]
  BY DEF Read
<1> HIDE DEF left, some, laps
<1> QED BY <1>5, <1>6, <1>7, <1>8 DEF SnapType

(* RefuelWatch::update, one line for each way it goes. *)
Low(w, tank) == IF w.lowest = None THEN tank ELSE Lesser(w.lowest, tank)
LEMMA WatchedCases ==
    ASSUME NEW w \in WatchType, NEW on \in BOOLEAN, NEW tank \in Levels, NEW load \in Nat
    PROVE  /\ Low(w, tank) \in Levels /\ Low(w, tank) <= tank
           /\ w.lowest # None => Low(w, tank) = Lesser(w.lowest, tank)
           /\ ~ on => Watched(w, on, tank, load) = NoWatch
           /\ on /\ w.target = None /\ tank > Low(w, tank)
                => Watched(w, on, tank, load) = [lowest |-> Low(w, tank), target |-> Low(w, tank) + load, armed |-> load]
           /\ on /\ w.target # None /\ load > w.armed
                => Watched(w, on, tank, load) =
                     [lowest |-> Low(w, tank), armed |-> load,
                      target |-> IF w.target < tank + load THEN tank + load ELSE w.target]
           /\ on /\ ~ (w.target = None /\ tank > Low(w, tank)) /\ ~ (w.target # None /\ load > w.armed)
                => Watched(w, on, tank, load) = [w EXCEPT !.lowest = Low(w, tank)]
<1>1. Low(w, tank) \in Levels /\ Low(w, tank) <= tank
  BY DEF Low, Lesser, WatchType, Levels
<1>2. w.lowest # None => Low(w, tank) = Lesser(w.lowest, tank)
  BY DEF Low
<1> DEFINE low == Low(w, tank)
<1>3. Watched(w, on, tank, load) =
        IF ~ on THEN NoWatch
        ELSE CASE w.target = None /\ tank > low -> [lowest |-> low, target |-> low + load, armed |-> load]
              [] w.target # None /\ load > w.armed ->
                    [lowest |-> low, armed |-> load,
                     target |-> IF w.target < tank + load THEN tank + load ELSE w.target]
              [] OTHER -> [w EXCEPT !.lowest = low]
  BY DEF Watched, Low
<1> HIDE DEF low
<1>4. ~ on => Watched(w, on, tank, load) = NoWatch
  BY <1>3
<1>5. on /\ w.target = None /\ tank > low
         => Watched(w, on, tank, load) = [lowest |-> low, target |-> low + load, armed |-> load]
  BY <1>3
<1>6. on /\ w.target # None /\ load > w.armed
        => Watched(w, on, tank, load) =
             [lowest |-> low, armed |-> load, target |-> IF w.target < tank + load THEN tank + load ELSE w.target]
  BY <1>3
<1>7. on /\ ~ (w.target = None /\ tank > low) /\ ~ (w.target # None /\ load > w.armed)
        => Watched(w, on, tank, load) = [w EXCEPT !.lowest = low]
  BY <1>3
<1> QED BY <1>1, <1>2, <1>4, <1>5, <1>6, <1>7 DEF low

LEMMA WatchedType ==
    ASSUME NEW w \in WatchType, NEW on \in BOOLEAN, NEW tank \in Levels, NEW load \in Nat,
           w.target # None => w.lowest # None
    PROVE  /\ Watched(w, on, tank, load) \in WatchType
           /\ Watched(w, on, tank, load).target # None => Watched(w, on, tank, load).lowest # None
<1> DEFINE low == Low(w, tank)
           up == IF w.target < tank + load THEN tank + load ELSE w.target
<1>1. low \in Levels /\ low # None
  BY WatchedCases DEF Levels, None
<1>2. low + load \in NatOrNone /\ up \in NatOrNone
  BY <1>1, FuelConstants DEF Levels, WatchType, NatOrNone
<1>3. NoWatch \in WatchType /\ NoWatch.target = None
  BY DEF NoWatch, WatchType, NatOrNone
<1>4. \/ Watched(w, on, tank, load) = NoWatch
      \/ Watched(w, on, tank, load) = [lowest |-> low, target |-> low + load, armed |-> load]
      \/ Watched(w, on, tank, load) = [lowest |-> low, armed |-> load, target |-> up]
      \/ Watched(w, on, tank, load) = [w EXCEPT !.lowest = low]
  <2>1. Watched(w, on, tank, load) =
          IF ~ on THEN NoWatch
          ELSE CASE w.target = None /\ tank > low -> [lowest |-> low, target |-> low + load, armed |-> load]
                [] w.target # None /\ load > w.armed -> [lowest |-> low, armed |-> load, target |-> up]
                [] OTHER -> [w EXCEPT !.lowest = low]
    BY DEF Watched, Low
  <2> HIDE DEF low, up
  <2> QED BY <2>1
<1> HIDE DEF low, up
<1>5. [w EXCEPT !.lowest = low] \in WatchType /\ [w EXCEPT !.lowest = low].lowest = low
  BY <1>1 DEF WatchType
<1> QED BY <1>1, <1>2, <1>3, <1>4, <1>5 DEF WatchType

LEMMA TrackPitLaneType ==
    ASSUME NEW b \in BoxType, NEW s \in SnapType
    PROVE  TrackPitLane(b, s) \in BoxType
BY DEF TrackPitLane, OutOfLane, RigHasBeen, BoxType, SnapType, NatOrNone

LEMMA TargetType ==
    ASSUME NEW b \in BoxType, NEW s \in SnapType
    PROVE  Target(b, s) \in NatOrNone
BY DEF Target, BoxType, SnapType

LEMMA ArmedType ==
    ASSUME NEW b \in BoxType, NEW s \in SnapType, Target(b, s) # None
    PROVE  /\ Armed(b, s).box \in BoxType
           /\ Armed(b, s).request \in {"none", "ClearFuel", "SetFuel"}
           /\ Armed(b, s).request # "none" => Armed(b, s).box.display \in Nat
<1> DEFINE wanted == FuelToAdd(Target(b, s), s.tank)
<1>1. wanted \in Nat
  <2>1. Target(b, s) \in Nat
    BY TargetType DEF NatOrNone
  <2>2. s.tank \in Levels
    BY DEF SnapType
  <2> QED BY <2>1, <2>2, FuelToAddType
<1>2. FuelRequestFor(wanted, s) \in {"none", "ClearFuel", "SetFuel"}
  BY DEF FuelRequestFor
<1> HIDE DEF wanted
<1>3. Armed(b, s) = IF FuelRequestFor(wanted, s) = "none" \/ b.wait > 0 THEN AskFor("none", [b EXCEPT !.display = wanted])
                    ELSE AskFor(FuelRequestFor(wanted, s), [[b EXCEPT !.display = wanted] EXCEPT !.wait = Interval])
  BY DEF Armed, wanted
<1>4. [b EXCEPT !.display = wanted] \in BoxType
  BY <1>1 DEF BoxType, NatOrNone
<1>5. [[b EXCEPT !.display = wanted] EXCEPT !.wait = Interval] \in BoxType
  BY <1>4, FuelRanges DEF BoxType
<1>6. [b EXCEPT !.display = wanted].display \in Nat /\ [[b EXCEPT !.display = wanted] EXCEPT !.wait = Interval].display \in Nat
  BY <1>1 DEF BoxType
<1> QED BY <1>2, <1>3, <1>4, <1>5, <1>6 DEF AskFor

LEMMA AutoFuelRequestType ==
    ASSUME auto \in BOOLEAN, NEW b \in BoxType, NEW s \in SnapType
    PROVE  /\ AutoFuelRequest(b, s).box \in BoxType
           /\ AutoFuelRequest(b, s).request \in {"none", "ClearFuel", "SetFuel"}
           /\ AutoFuelRequest(b, s).request # "none" => AutoFuelRequest(b, s).box.display \in Nat
<1> DEFINE t == TrackPitLane(b, s)
           shown == IF s.fresh = None THEN None ELSE FuelToAdd(s.fresh, s.tank)
           off == [b EXCEPT !.latched = None, !.wait = 0]
           on == [t EXCEPT !.latched = s.fresh, !.display = shown]
<1>1. t \in BoxType
  BY TrackPitLaneType
<1>2. s.fresh \in NatOrNone /\ shown \in NatOrNone
  <2>1. s.fresh \in NatOrNone /\ s.tank \in Levels
    BY DEF SnapType
  <2> QED BY <2>1, FuelToAddType DEF NatOrNone
<1>3. off \in BoxType
  BY FuelRanges DEF BoxType, NatOrNone
<1> HIDE DEF t, shown
<1>4. on \in BoxType
  BY <1>1, <1>2 DEF BoxType
<1> HIDE DEF off, on
<1>5. AutoFuelRequest(b, s) =
        IF ~ auto THEN AskFor("none", off)
        ELSE IF s.age >= Stale \/ ~ s.in_car THEN AskFor("none", b)
        ELSE IF t.pit_lane = "Served" THEN AskFor("none", t)
        ELSE IF ~ s.road THEN AskFor("none", on)
        ELSE IF Target(t, s) = None THEN AskFor("none", t)
        ELSE Armed(t, s)
  BY DEF AutoFuelRequest, t, on, off, shown
<1>6. Target(t, s) # None => /\ Armed(t, s).box \in BoxType
                             /\ Armed(t, s).request \in {"none", "ClearFuel", "SetFuel"}
                             /\ Armed(t, s).request # "none" => Armed(t, s).box.display \in Nat
  BY <1>1, ArmedType
<1> QED BY <1>1, <1>3, <1>4, <1>5, <1>6 DEF AskFor

LEMMA DeliveredType ==
    ASSUME FuelTypes, NEW m \in SimType, NEW heard \in SUBSET DOMAIN pit_requests
    PROVE  /\ Delivered(m, heard) \in SimType
           /\ Delivered(m, heard).rig = m.rig
           /\ m.rig # None => Delivered(m, heard) = m
<1> DEFINE set == {i \in heard : pit_requests[i].what = "SetFuel" /\ pit_requests[i].litres # 0}
<1>1. DOMAIN pit_requests = 1..Len(pit_requests) /\ Len(pit_requests) \in Nat /\ \A i \in DOMAIN pit_requests : pit_requests[i] \in RequestType
  BY DEF FuelTypes
<1>2. BoxTicked(m, heard) \in BOOLEAN
  BY DEF BoxTicked, SimType
<1>3. Amount(m, heard) \in Nat \ {0}
  <2>1. CASE set = {}
    BY <2>1 DEF Amount, SimType
  <2>2. CASE set # {}
    <3>1. set \in SUBSET (1..Len(pit_requests))
      BY <1>1
    <3> HIDE DEF set
    <3>2. Max(set) \in set
      BY <3>1, <2>2, <1>1, LastOne
    <3>3. Amount(m, heard) = pit_requests[Max(set)].litres
      BY <2>2 DEF Amount, set
    <3>4. Max(set) \in DOMAIN pit_requests /\ pit_requests[Max(set)].litres # 0
      BY <3>2 DEF set
    <3> QED BY <3>3, <3>4, <1>1 DEF RequestType
  <2> QED BY <2>1, <2>2
<1> QED BY <1>2, <1>3 DEF Delivered, SimType

(* The rig runs only for a car in the box, whose tank it has yet to fill. *)
Fitting(c, m) ==
    /\ m.rig # None => c.place = "box" /\ c.tank < m.rig /\ m.armed
    /\ c.place = "track" => c.crawled = 0 /\ c.secs = 0 /\ c.lately = <<0, 0, 0>>

FuelInv ==
    /\ FuelTypes /\ Fitting(car, sim)
    /\ watch.target # None => watch.lowest # None

(* What a second writes down of the visit. *)
Watching == auto /\ seat /\ snap'.age = 0 /\ snap'.road
Full(v) == v.met /\ v.sighted /\ snap'.tank > v.entry + Gain
WritesDown(m, v) ==
    /\ visit' \in VisitType
    /\ visit'.goal = v.goal /\ visit'.met = v.met /\ visit'.entry = v.entry /\ visit'.ticked = v.ticked
    /\ visit'.done = v.done /\ visit'.result = v.result /\ visit'.late = v.late
    /\ visit'.pressed = v.pressed /\ visit'.away = v.away
    /\ visit'.blind = (v.blind \/ snap'.age > 0)
    /\ visit'.worked = (v.worked \/ (snap.armed /\ ~ m.armed))
    /\ visit'.sighted = (v.sighted \/ (Watching /\ ~ v.worked))
    /\ visit'.told = (v.told \/ (Watching /\ ((~ v.done /\ snap'.armed) \/ Full(v))))
    /\ visit'.reticked = (v.reticked \/ (v.done /\ ~ auto /\ sim'.armed))
    /\ visit'.tracked = (auto /\ seat /\ snap'.age = 0 /\ ~ snap'.road)

LEMMA SecondWritesDown ==
    ASSUME NEW c, NEW m, NEW v \in VisitType, SecondPasses(c, m, v)
    PROVE  WritesDown(m, v)
<1> DEFINE x == v.blind \/ snap'.age > 0
           y == v.worked \/ (snap.armed /\ ~ m.armed)
           a == v.sighted \/ (Watching /\ ~ v.worked)
           b == v.told \/ (Watching /\ ((~ v.done /\ snap'.armed) \/ Full(v)))
           d == v.reticked \/ (v.done /\ ~ auto /\ sim'.armed)
           t == auto /\ seat /\ snap'.age = 0 /\ ~ snap'.road
<1>1. visit' = [v EXCEPT !.blind = x, !.worked = y, !.sighted = a, !.told = b, !.reticked = d, !.tracked = t]
  BY DEF SecondPasses, Watching, Full
<1>2. x \in BOOLEAN /\ y \in BOOLEAN /\ t \in BOOLEAN
  OBVIOUS
<1>3. a \in BOOLEAN /\ b \in BOOLEAN /\ d \in BOOLEAN
  OBVIOUS
<1> HIDE DEF x, y, a, b, d, t
<1> DEFINE p == [v EXCEPT !.blind = x, !.worked = y]
           q == [p EXCEPT !.sighted = a, !.told = b]
<1>4. visit' = [q EXCEPT !.reticked = d, !.tracked = t]
  BY <1>1
<1>5. /\ p \in VisitType /\ p.blind = x /\ p.worked = y
      /\ p.goal = v.goal /\ p.met = v.met /\ p.entry = v.entry /\ p.ticked = v.ticked
      /\ p.done = v.done /\ p.result = v.result /\ p.late = v.late /\ p.pressed = v.pressed /\ p.away = v.away
  BY <1>2 DEF VisitType
<1> HIDE DEF p
<1>6. /\ q \in VisitType /\ q.blind = x /\ q.worked = y /\ q.sighted = a /\ q.told = b
      /\ q.goal = v.goal /\ q.met = v.met /\ q.entry = v.entry /\ q.ticked = v.ticked
      /\ q.done = v.done /\ q.result = v.result /\ q.late = v.late /\ q.pressed = v.pressed /\ q.away = v.away
  BY <1>3, <1>5 DEF VisitType
<1> HIDE DEF q
<1>7. /\ visit' \in VisitType
      /\ visit'.goal = v.goal /\ visit'.met = v.met /\ visit'.entry = v.entry /\ visit'.ticked = v.ticked
      /\ visit'.done = v.done /\ visit'.result = v.result /\ visit'.late = v.late
      /\ visit'.pressed = v.pressed /\ visit'.away = v.away
      /\ visit'.blind = x /\ visit'.worked = y /\ visit'.sighted = a /\ visit'.told = b /\ visit'.reticked = d
      /\ visit'.tracked = t
  BY <1>2, <1>3, <1>4, <1>6 DEF VisitType
<1> QED BY <1>7 DEF WritesDown, x, y, a, b, d, t

(* A second keeps the types, whatever it makes of car, menu and visit. *)
LEMMA SecondTypes ==
    ASSUME FuelInv, NEW c \in CarType, NEW m \in SimType, NEW v \in VisitType, SecondPasses(c, m, v)
    PROVE  FuelTypes'
<1> USE DEF FuelInv
<1>1. car' \in CarType /\ seat' \in BOOLEAN /\ auto' \in BOOLEAN
  BY DEF SecondPasses, FuelTypes
<1>2. /\ snap' \in SnapType /\ sim' \in SimType /\ watch' \in WatchType /\ upsets' \in 0..MaxUpsets
  <2>1. CASE /\ snap' = Read(c, m, IF c.place = "track" THEN 0 ELSE Error)
             /\ sim' = Delivered(m, Current)
             /\ watch' = Watched(watch, c.place # "track", c.tank, IF m.armed THEN m.amount * Litre ELSE 0)
             /\ UNCHANGED upsets
    <3>1. snap' \in SnapType
      BY <2>1, ReadType, FuelConstants DEF FuelTypes
    <3>2. sim' \in SimType
      BY <2>1, DeliveredType DEF Current
    <3>3. (IF m.armed THEN m.amount * Litre ELSE 0) \in Nat /\ c.tank \in Levels
      BY FuelConstants DEF SimType, CarType
    <3>4. watch' \in WatchType
      BY <2>1, <3>3, WatchedType DEF FuelTypes
    <3> QED BY <2>1, <3>1, <3>2, <3>4 DEF FuelTypes
  <2>2. CASE /\ upsets < MaxUpsets /\ upsets' = upsets + 1
             /\ snap' = [snap EXCEPT !.age = Lesser(@ + 1, Stale)]
             /\ sim' = m /\ UNCHANGED watch
    <3>1. snap' \in SnapType
      <4>1. Lesser(snap.age + 1, Stale) \in 0..Stale
        BY FuelRanges DEF FuelTypes, SnapType
      <4> QED BY <4>1, <2>2 DEF FuelTypes, SnapType
    <3>2. upsets' \in 0..MaxUpsets
      BY <2>2, FuelRanges DEF FuelTypes
    <3> QED BY <2>2, <3>1, <3>2 DEF FuelTypes
  <2> QED BY <2>1, <2>2 DEF SecondPasses
<1> DEFINE b == AutoFuelRequest([box EXCEPT !.wait = NotNegative(@ - 1)], snap')
           left == IF snap'.age = 0 THEN <<>> ELSE Waiting
           order == [what |-> b.request, litres |-> b.box.display, age |-> 0, own |-> FALSE]
<1>3. /\ b.box \in BoxType /\ b.request \in {"none", "ClearFuel", "SetFuel"}
      /\ b.request # "none" => b.box.display \in Nat
  <2>1. [box EXCEPT !.wait = NotNegative(@ - 1)] \in BoxType
    BY FuelRanges DEF FuelTypes, BoxType
  <2>2. auto \in BOOLEAN
    BY DEF FuelTypes
  <2>3. ASSUME NEW s \in SnapType
        PROVE  LET r == AutoFuelRequest([box EXCEPT !.wait = NotNegative(@ - 1)], s)
               IN /\ r.box \in BoxType /\ r.request \in {"none", "ClearFuel", "SetFuel"}
                  /\ r.request # "none" => r.box.display \in Nat
    BY <2>1, <2>2, AutoFuelRequestType
  <2> QED BY <2>3, <1>2
<1>4. left \in Seq(RequestType)
  <2>1. Waiting \in Seq(RequestType)
    <3>1. \A i \in DOMAIN pit_requests : [pit_requests[i] EXCEPT !.age = @ + 1] \in RequestType
      <4>1. \A i \in DOMAIN pit_requests : pit_requests[i] \in RequestType
        BY DEF FuelTypes
      <4>2. \A q \in RequestType : [q EXCEPT !.age = @ + 1] \in RequestType
        BY DEF RequestType
      <4> QED BY <4>1, <4>2
    <3>2. DOMAIN pit_requests = 1..Len(pit_requests) /\ Len(pit_requests) \in Nat
      BY DEF FuelTypes
    <3> DEFINE n == Len(pit_requests)
               older(i) == [pit_requests[i] EXCEPT !.age = @ + 1]
    <3>3. Waiting = [i \in 1..n |-> older(i)]
      BY <3>2 DEF Waiting
    <3>4. n \in Nat /\ \A i \in 1..n : older(i) \in RequestType
      BY <3>1, <3>2
    <3> HIDE DEF n, older
    <3> QED BY <3>3, <3>4
  <2> QED BY <2>1
<1>5. b.request # "none" => order \in RequestType
  BY <1>3 DEF RequestType
<1>6. box' = b.box /\ pit_requests' = IF b.request = "none" THEN left ELSE Append(left, order)
  BY DEF SecondPasses
<1> HIDE DEF b, left, order
<1>7. box' \in BoxType /\ pit_requests' \in Seq(RequestType)
  BY <1>3, <1>4, <1>5, <1>6
<1>8. visit' \in VisitType
  BY SecondWritesDown DEF WritesDown
<1> QED BY <1>1, <1>2, <1>7, <1>8 DEF FuelTypes

LEMMA SecondInv ==
    ASSUME FuelInv, NEW c \in CarType, NEW m \in SimType, NEW v \in VisitType, Fitting(c, m), SecondPasses(c, m, v)
    PROVE  FuelInv'
<1>1. FuelTypes'
  BY SecondTypes DEF FuelInv
<1>2. sim' = Delivered(m, Current) \/ sim' = m
  BY DEF SecondPasses
<1>3. sim'.rig = m.rig /\ (m.rig # None => sim' = m)
  BY <1>2, DeliveredType DEF Current, FuelInv
<1>4. Fitting(car, sim)'
  BY <1>3 DEF Fitting, SecondPasses
<1>5. (watch.target # None => watch.lowest # None)'
  <2>1. (IF m.armed THEN m.amount * Litre ELSE 0) \in Nat /\ c.tank \in Levels
    BY FuelConstants DEF SimType, CarType
  <2>2. watch' = watch \/ watch' = Watched(watch, c.place # "track", c.tank, IF m.armed THEN m.amount * Litre ELSE 0)
    BY DEF SecondPasses
  <2> QED BY <2>1, <2>2, WatchedType DEF FuelInv, FuelTypes
<1> QED BY <1>1, <1>4, <1>5 DEF FuelInv

LEMMA VisitTypes ==
    ASSUME NEW goal \in NatOrNone, NEW met \in BOOLEAN, NEW c \in CarType, NEW m \in SimType
    PROVE  Visit(goal, met, c, m) \in VisitType
<1>1. c.tank \in Levels /\ m.armed \in BOOLEAN
  BY DEF CarType, SimType
<1>2. (pit_requests # <<>>) \in BOOLEAN /\ (~ (auto /\ seat)) \in BOOLEAN
  OBVIOUS
<1> QED BY <1>1, <1>2 DEF Visit, VisitType

LEMMA FuelInvInit == AutoFuelInit => FuelInv
<1> SUFFICES ASSUME AutoFuelInit PROVE FuelInv
  OBVIOUS
<1>1. car \in CarType /\ car.place = "track" /\ car.crawled = 0 /\ car.secs = 0 /\ car.lately = <<0, 0, 0>>
  BY FuelConstants DEF AutoFuelInit, CarType, Levels
<1>2. sim \in SimType /\ sim.rig = None
  BY DEF AutoFuelInit, SimType
<1>3. snap \in SnapType /\ box \in BoxType /\ watch \in WatchType /\ watch.target = None
  BY FuelRanges DEF AutoFuelInit, SnapType, BoxType, WatchType, NatOrNone, NewBox, NoWatch
<1>4. seat \in BOOLEAN /\ auto \in BOOLEAN /\ upsets \in 0..MaxUpsets /\ pit_requests \in Seq(RequestType)
  BY FuelConstants DEF AutoFuelInit
<1>5. visit \in VisitType
  BY <1>1, <1>2, VisitTypes DEF AutoFuelInit, NatOrNone
<1> QED BY <1>1, <1>2, <1>3, <1>4, <1>5 DEF FuelInv, FuelTypes, Fitting

(* What each of the seven that take a second makes of car, menu and visit. *)
ByDrive(c, m, v) ==
    /\ car.place = "track" /\ c.place = "track" /\ c.tank = car.tank - 1
    /\ m = sim /\ v = Visit(None, FALSE, c, sim)
ByEnterLane(c, m, v) ==
    /\ car.place = "track" /\ c.place = "lane" /\ c.tank = car.tank /\ c.secs = 0 /\ c.lately = <<0, 0, 0>>
    /\ sim.rig = None /\ m = sim /\ v = Visit(box.latched, visit.tracked, c, sim)
Burning(c, b) == c.tank = car.tank - b /\ c.lately = <<b, car.lately[1], car.lately[2]>>
ByCrawl(c, m, v, b) ==
    /\ car.place = "lane" /\ c.place = "lane" /\ c.secs = car.secs + 1 /\ Burning(c, b)
    /\ sim.rig = None /\ m = sim /\ v = visit
ByStopInBox(c, m, v) ==
    /\ car.place = "lane" /\ c.place = "box" /\ car.secs >= 3 /\ c.secs = car.secs /\ Burning(c, 0)
    /\ sim.rig = None /\ m = sim /\ v = [visit EXCEPT !.late = Burnt(car)]
RigGoal == IF sim.rig # None THEN sim.rig ELSE Lesser(car.tank + sim.amount * Litre, Size)
RigTank == Lesser(car.tank + Pump, RigGoal)
ByFuel(c, m, v) ==
    /\ car.place = "box" /\ c.place = "box" /\ sim.armed /\ c.tank = RigTank /\ c.lately = <<0, 0, 0>> /\ c.secs = car.secs
    /\ RigGoal \in Levels /\ RigTank \in Levels /\ RigTank <= RigGoal /\ m.amount = sim.amount
    /\ RigTank < RigGoal => m.rig = RigGoal /\ m.armed
    /\ RigTank = RigGoal => m.rig = None /\ ~ m.armed
    /\ v = [visit EXCEPT !.worked = TRUE, !.done = (visit.done \/ RigTank = RigGoal),
                         !.result = IF RigTank = RigGoal /\ ~ visit.done THEN RigTank ELSE visit.result]
ByWait(c, m, v, b) ==
    /\ car.place = "box" /\ c.place = "box" /\ c.secs = car.secs /\ Burning(c, b)
    /\ sim.rig = None /\ ~ sim.armed /\ m = sim /\ v = visit
ByLeave(c, m, v) ==
    /\ car.place # "track" /\ c.place = "track" /\ c.tank = car.tank
    /\ sim.rig = None /\ (car.place = "box" => ~ sim.armed) /\ m = sim
    /\ v = [visit EXCEPT !.result = IF visit.result = None /\ car.place = "box" THEN car.tank ELSE visit.result,
                         !.late = IF visit.result = None THEN Burnt(car) ELSE visit.late]
Moves(c, m, v) ==
    \/ ByDrive(c, m, v) \/ ByEnterLane(c, m, v) \/ ByStopInBox(c, m, v) \/ ByFuel(c, m, v) \/ ByLeave(c, m, v)
    \/ \E b \in {0, 1} : ByCrawl(c, m, v, b) \/ ByWait(c, m, v, b)

OneSecond(c, m, v) ==
    /\ c \in CarType /\ m \in SimType /\ v \in VisitType /\ Fitting(c, m)
    /\ SecondPasses(c, m, v) /\ Moves(c, m, v)

LEMMA DriveMoves == FuelInv /\ Drive => \E c, m, v : OneSecond(c, m, v)
<1> SUFFICES ASSUME FuelInv, Drive PROVE \E c, m, v : OneSecond(c, m, v)
  OBVIOUS
<1> DEFINE c == [car EXCEPT !.tank = @ - 1, !.left = @ - 1]
           v == Visit(None, FALSE, c, sim)
<1>1. /\ c \in CarType /\ car.place = "track" /\ c.place = "track" /\ c.crawled = 0 /\ c.secs = 0 /\ c.lately = <<0, 0, 0>>
      /\ c.tank = car.tank - 1
  <2>1. /\ car \in CarType /\ car.place = "track" /\ car.crawled = 0 /\ car.secs = 0 /\ car.lately = <<0, 0, 0>>
        /\ car.left > 0 /\ car.tank > 0
    BY DEF Drive, FuelInv, FuelTypes, Fitting
  <2>2. car.tank - 1 \in Levels /\ car.left - 1 \in 0..MaxLeft
    BY <2>1, FuelConstants DEF CarType, Levels
  <2> QED BY <2>1, <2>2 DEF CarType
<1>2. sim \in SimType /\ sim.rig = None
  BY DEF Drive, FuelInv, FuelTypes, Fitting
<1>3. v \in VisitType
  BY <1>1, <1>2, VisitTypes DEF NatOrNone
<1>4. SecondPasses(c, sim, v)
  BY DEF Drive
<1>5. ByDrive(c, sim, v)
  BY <1>1 DEF ByDrive
<1> HIDE DEF c, v
<1>6. OneSecond(c, sim, v)
  BY <1>1, <1>2, <1>3, <1>4, <1>5 DEF OneSecond, Moves, Fitting
<1> QED BY <1>6

LEMMA EnterLaneMoves == FuelInv /\ EnterLane => \E c, m, v : OneSecond(c, m, v)
<1> SUFFICES ASSUME FuelInv, EnterLane PROVE \E c, m, v : OneSecond(c, m, v)
  OBVIOUS
<1> DEFINE c == [car EXCEPT !.place = "lane"]
           v == Visit(box.latched, visit.tracked, c, sim)
<1>1. c \in CarType /\ c.place = "lane" /\ c.tank = car.tank /\ c.secs = car.secs /\ c.lately = car.lately
  BY DEF FuelInv, FuelTypes, CarType
<1>2. sim \in SimType /\ sim.rig = None /\ car.place = "track" /\ car.secs = 0 /\ car.lately = <<0, 0, 0>>
  BY DEF EnterLane, FuelInv, FuelTypes, Fitting
<1>3. v \in VisitType
  <2>1. box.latched \in NatOrNone /\ visit.tracked \in BOOLEAN
    BY DEF FuelInv, FuelTypes, BoxType, VisitType
  <2> QED BY <1>1, <1>2, <2>1, VisitTypes
<1>4. SecondPasses(c, sim, v)
  BY DEF EnterLane
<1>5. ByEnterLane(c, sim, v)
  BY <1>1, <1>2 DEF ByEnterLane
<1> HIDE DEF c, v
<1>6. OneSecond(c, sim, v)
  BY <1>1, <1>2, <1>3, <1>4, <1>5 DEF OneSecond, Moves, Fitting
<1> QED BY <1>6

LEMMA BurntType == ASSUME NEW c \in CarType PROVE Burnt(c) \in Nat
BY DEF CarType, Burnt

LEMMA BurnsType ==
    \A c \in CarType, b \in {0, 1} :
        c.tank >= b => /\ Burns(c, b) = [c EXCEPT !.tank = c.tank - b, !.lately = <<b, c.lately[1], c.lately[2]>>]
                       /\ Burns(c, b) \in CarType
                       /\ Burns(c, b).place = c.place /\ Burns(c, b).crawled = c.crawled /\ Burns(c, b).secs = c.secs
                       /\ Burns(c, b).tank = c.tank - b /\ Burns(c, b).lately = <<b, c.lately[1], c.lately[2]>>
<1> SUFFICES ASSUME NEW c \in CarType, NEW b \in {0, 1}, c.tank >= b
             PROVE  /\ Burns(c, b) = [c EXCEPT !.tank = c.tank - b, !.lately = <<b, c.lately[1], c.lately[2]>>]
                    /\ Burns(c, b) \in CarType
                    /\ Burns(c, b).place = c.place /\ Burns(c, b).crawled = c.crawled /\ Burns(c, b).secs = c.secs
                    /\ Burns(c, b).tank = c.tank - b /\ Burns(c, b).lately = <<b, c.lately[1], c.lately[2]>>
  OBVIOUS
<1>1. c.tank - b \in Levels /\ <<b, c.lately[1], c.lately[2]>> \in Nat \X Nat \X Nat
  BY FuelConstants DEF CarType, Levels
<1> QED BY <1>1 DEF Burns, CarType

LEMMA CrawlMoves == \A b \in {0, 1} : FuelInv /\ Crawl(b) => \E c, m, v : OneSecond(c, m, v)
<1> SUFFICES ASSUME NEW b \in {0, 1}, FuelInv, Crawl(b) PROVE \E c, m, v : OneSecond(c, m, v)
  OBVIOUS
<1> DEFINE c == [Burns(car, b) EXCEPT !.secs = @ + 1, !.crawled = @ + b]
<1>1. car \in CarType /\ car.place = "lane" /\ car.tank >= b
  BY DEF Crawl, FuelInv, FuelTypes
<1>2. /\ Burns(car, b) \in CarType /\ Burns(car, b).crawled = car.crawled /\ Burns(car, b).place = "lane"
      /\ Burns(car, b).secs = car.secs /\ Burning(Burns(car, b), b)
  BY <1>1, BurnsType DEF Burning
<1>3. c \in CarType /\ c.place = "lane" /\ c.secs = car.secs + 1 /\ Burning(c, b)
  <2>1. car.crawled + b \in 0..(MaxCrawl + MaxIdle)
    BY <1>1, FuelConstants DEF CarType, Crawl
  <2>2. \A d \in CarType, n \in 0..(MaxCrawl + MaxIdle), k \in Nat :
           /\ [d EXCEPT !.secs = k, !.crawled = n] \in CarType
           /\ [d EXCEPT !.secs = k, !.crawled = n].place = d.place /\ [d EXCEPT !.secs = k, !.crawled = n].secs = k
           /\ [d EXCEPT !.secs = k, !.crawled = n].tank = d.tank /\ [d EXCEPT !.secs = k, !.crawled = n].lately = d.lately
    BY DEF CarType
  <2>3. car.secs + 1 \in Nat
    BY <1>1 DEF CarType
  <2>4. c = [Burns(car, b) EXCEPT !.secs = car.secs + 1, !.crawled = car.crawled + b]
    BY <1>2
  <2> HIDE DEF c
  <2> QED BY <1>2, <2>1, <2>2, <2>3, <2>4 DEF Burning
<1>4. sim \in SimType /\ sim.rig = None /\ visit \in VisitType
  BY DEF Crawl, FuelInv, FuelTypes, Fitting
<1>5. SecondPasses(c, sim, visit)
  BY DEF Crawl
<1> HIDE DEF c
<1>6. ByCrawl(c, sim, visit, b)
  BY <1>1, <1>3, <1>4 DEF ByCrawl
<1>7. OneSecond(c, sim, visit)
  BY <1>3, <1>4, <1>5, <1>6 DEF OneSecond, Moves, Fitting
<1> QED BY <1>7

LEMMA StopInBoxMoves == FuelInv /\ StopInBox => \E c, m, v : OneSecond(c, m, v)
<1> SUFFICES ASSUME FuelInv, StopInBox PROVE \E c, m, v : OneSecond(c, m, v)
  OBVIOUS
<1> DEFINE c == [Burns(car, 0) EXCEPT !.place = "box"]
           v == [visit EXCEPT !.late = Burnt(car)]
<1>1. car \in CarType /\ car.tank >= 0 /\ car.place = "lane" /\ car.secs >= 3
  BY FuelConstants DEF FuelInv, FuelTypes, CarType, Levels, StopInBox
<1>2. c \in CarType /\ c.place = "box" /\ c.secs = car.secs /\ Burning(c, 0)
  <2>1. Burns(car, 0) \in CarType /\ Burning(Burns(car, 0), 0) /\ Burns(car, 0).secs = car.secs
    BY <1>1, BurnsType DEF Burning
  <2>2. \A d \in CarType : /\ [d EXCEPT !.place = "box"] \in CarType /\ [d EXCEPT !.place = "box"].place = "box"
                           /\ [d EXCEPT !.place = "box"].secs = d.secs /\ [d EXCEPT !.place = "box"].tank = d.tank
                           /\ [d EXCEPT !.place = "box"].lately = d.lately
    BY DEF CarType
  <2> QED BY <2>1, <2>2 DEF Burning
<1>3. sim \in SimType /\ sim.rig = None
  BY DEF StopInBox, FuelInv, FuelTypes, Fitting
<1>4. v \in VisitType
  BY <1>1, BurntType DEF FuelInv, FuelTypes, VisitType
<1>5. SecondPasses(c, sim, v)
  BY DEF StopInBox
<1> HIDE DEF c
<1>6. ByStopInBox(c, sim, v)
  BY <1>1, <1>2, <1>3 DEF ByStopInBox
<1> HIDE DEF v
<1>7. OneSecond(c, sim, v)
  BY <1>2, <1>3, <1>4, <1>5, <1>6 DEF OneSecond, Moves, Fitting
<1> QED BY <1>7

LEMMA WaitMoves == \A b \in {0, 1} : FuelInv /\ Wait(b) => \E c, m, v : OneSecond(c, m, v)
<1> SUFFICES ASSUME NEW b \in {0, 1}, FuelInv, Wait(b) PROVE \E c, m, v : OneSecond(c, m, v)
  OBVIOUS
<1> DEFINE c == [Burns(car, b) EXCEPT !.crawled = @ + b]
<1>1. car \in CarType /\ car.place = "box" /\ car.tank >= b
  BY DEF Wait, FuelInv, FuelTypes
<1>2. /\ Burns(car, b) \in CarType /\ Burns(car, b).crawled = car.crawled /\ Burns(car, b).place = "box"
      /\ Burns(car, b).secs = car.secs /\ Burning(Burns(car, b), b)
  BY <1>1, BurnsType DEF Burning
<1>3. c \in CarType /\ c.place = "box" /\ c.secs = car.secs /\ Burning(c, b)
  <2>1. car.crawled + b \in 0..(MaxCrawl + MaxIdle)
    BY <1>1, FuelConstants DEF CarType, Wait
  <2>2. \A d \in CarType, n \in 0..(MaxCrawl + MaxIdle) :
           /\ [d EXCEPT !.crawled = n] \in CarType
           /\ [d EXCEPT !.crawled = n].place = d.place /\ [d EXCEPT !.crawled = n].secs = d.secs
           /\ [d EXCEPT !.crawled = n].tank = d.tank /\ [d EXCEPT !.crawled = n].lately = d.lately
    BY DEF CarType
  <2>3. c = [Burns(car, b) EXCEPT !.crawled = car.crawled + b]
    BY <1>2
  <2> HIDE DEF c
  <2> QED BY <1>2, <2>1, <2>2, <2>3 DEF Burning
<1>4. sim \in SimType /\ sim.rig = None /\ ~ sim.armed /\ visit \in VisitType
  BY DEF Wait, FuelInv, FuelTypes, Fitting
<1>5. SecondPasses(c, sim, visit)
  BY DEF Wait
<1> HIDE DEF c
<1>6. ByWait(c, sim, visit, b)
  BY <1>1, <1>3, <1>4 DEF ByWait
<1>7. OneSecond(c, sim, visit)
  BY <1>3, <1>4, <1>5, <1>6 DEF OneSecond, Moves, Fitting
<1> QED BY <1>7

LEMMA LeaveMoves == FuelInv /\ Leave => \E c, m, v : OneSecond(c, m, v)
<1> SUFFICES ASSUME FuelInv, Leave PROVE \E c, m, v : OneSecond(c, m, v)
  OBVIOUS
<1> DEFINE c == [car EXCEPT !.place = "track", !.secs = 0, !.crawled = 0, !.lately = <<0, 0, 0>>]
           result == IF visit.result = None /\ car.place = "box" THEN car.tank ELSE visit.result
           late == IF visit.result = None THEN Burnt(car) ELSE visit.late
           v == [visit EXCEPT !.result = result, !.late = late]
<1>1. /\ c \in CarType /\ c.place = "track" /\ c.crawled = 0 /\ c.secs = 0 /\ c.lately = <<0, 0, 0>>
      /\ c.tank = car.tank
  <2>1. car \in CarType /\ 0 \in 0..(MaxCrawl + MaxIdle) /\ <<0, 0, 0>> \in Nat \X Nat \X Nat
    BY FuelConstants DEF FuelInv, FuelTypes
  <2> QED BY <2>1 DEF CarType
<1>2. sim \in SimType /\ sim.rig = None /\ car.place # "track" /\ (car.place = "box" => ~ sim.armed)
  BY DEF Leave, FuelInv, FuelTypes
<1>3. v \in VisitType
  <2>1. result \in Levels \cup {None} /\ late \in Nat
    BY BurntType DEF FuelInv, FuelTypes, VisitType, CarType
  <2> HIDE DEF result, late
  <2> QED BY <2>1 DEF FuelInv, FuelTypes, VisitType
<1>4. SecondPasses(c, sim, v)
  BY DEF Leave
<1>5. ByLeave(c, sim, v)
  BY <1>1, <1>2 DEF ByLeave
<1> HIDE DEF c, v
<1>6. OneSecond(c, sim, v)
  BY <1>1, <1>2, <1>3, <1>4, <1>5 DEF OneSecond, Moves, Fitting
<1> QED BY <1>6

LEMMA FuelMoves == FuelInv /\ Fuel => \E c, m, v : OneSecond(c, m, v)
<1> SUFFICES ASSUME FuelInv, Fuel PROVE \E c, m, v : OneSecond(c, m, v)
  OBVIOUS
<1> DEFINE c == [car EXCEPT !.tank = RigTank, !.lately = <<0, 0, 0>>]
           m == IF RigTank < RigGoal THEN [sim EXCEPT !.rig = RigGoal] ELSE [sim EXCEPT !.rig = None, !.armed = FALSE]
           done == visit.done \/ RigTank = RigGoal
           result == IF RigTank = RigGoal /\ ~ visit.done THEN RigTank ELSE visit.result
           v == [visit EXCEPT !.worked = TRUE, !.done = done, !.result = result]
<1>1. RigGoal \in Levels /\ RigTank \in Levels /\ RigTank <= RigGoal
  <2>1. car.tank \in Levels /\ sim.rig \in Levels \cup {None} /\ sim.amount * Litre \in Nat
    BY FuelConstants DEF FuelInv, FuelTypes, CarType, SimType
  <2> HIDE DEF FuelInv
  <2> QED BY <2>1, FuelConstants DEF Levels, Lesser, None, RigGoal, RigTank
<1>2. /\ car.place = "box" /\ sim.armed /\ sim \in SimType /\ car \in CarType
      /\ c \in CarType /\ c.place = "box" /\ c.tank = RigTank /\ c.lately = <<0, 0, 0>> /\ c.secs = car.secs
  <2>1. car \in CarType /\ car.place = "box" /\ <<0, 0, 0>> \in Nat \X Nat \X Nat
    BY DEF Fuel, FuelInv, FuelTypes
  <2>2. sim \in SimType /\ sim.armed
    BY DEF Fuel, FuelInv, FuelTypes, Fitting
  <2> QED BY <1>1, <2>1, <2>2 DEF CarType
<1>3. /\ m \in SimType /\ m.amount = sim.amount
      /\ RigTank < RigGoal => m.rig = RigGoal /\ m.armed
      /\ RigTank = RigGoal => m.rig = None /\ ~ m.armed
  <2>1. CASE RigTank < RigGoal
    <3>1. m = [sim EXCEPT !.rig = RigGoal] /\ RigTank # RigGoal
      BY <2>1, <1>1, FuelConstants DEF Levels
    <3> HIDE DEF m
    <3> QED BY <3>1, <1>1, <1>2 DEF SimType
  <2>2. CASE ~ (RigTank < RigGoal)
    <3>1. m = [sim EXCEPT !.rig = None, !.armed = FALSE]
      BY <2>2
    <3> HIDE DEF m
    <3> QED BY <2>2, <3>1, <1>2 DEF SimType
  <2> QED BY <2>1, <2>2
<1>4. v \in VisitType
  <2>1. visit \in VisitType
    BY DEF FuelInv, FuelTypes
  <2>2. result \in Levels \cup {None} /\ done \in BOOLEAN
    BY <2>1, <1>1 DEF VisitType
  <2> HIDE DEF result, done
  <2> QED BY <2>1, <2>2 DEF VisitType
<1>5. Fitting(c, m)
  <2>1. RigTank < RigGoal \/ RigTank = RigGoal
    BY <1>1, FuelConstants DEF Levels
  <2> QED BY <1>2, <1>3, <2>1 DEF Fitting
<1>6. SecondPasses(c, m, v)
  BY DEF Fuel, RigGoal, RigTank
<1> HIDE DEF c, m
<1>7. ByFuel(c, m, v)
  BY <1>1, <1>2, <1>3 DEF ByFuel
<1> HIDE DEF v
<1>8. OneSecond(c, m, v)
  BY <1>2, <1>3, <1>4, <1>5, <1>6, <1>7 DEF OneSecond, Moves
<1> QED BY <1>8

(* The driver's own actions.                                               *)
LEMMA PressFuelInv == FuelInv /\ PressFuel => FuelInv'
<1> SUFFICES ASSUME FuelInv, PressFuel PROVE FuelInv'
  OBVIOUS
<1> DEFINE press == [what |-> IF snap.armed THEN "ClearFuel" ELSE "SetFuel", age |-> 0, own |-> TRUE,
                     litres |-> IF auto /\ box.display # None THEN box.display ELSE snap.amount]
<1>1. press \in RequestType
  BY DEF FuelInv, FuelTypes, BoxType, SnapType, NatOrNone, RequestType
<1>2. pit_requests' = Append(pit_requests, press)
  BY DEF PressFuel
<1> HIDE DEF press
<1>3. pit_requests' \in Seq(RequestType)
  BY <1>1, <1>2 DEF FuelInv, FuelTypes
<1>4. visit' \in VisitType
  BY DEF PressFuel, FuelInv, FuelTypes, VisitType
<1>5. upsets' \in 0..MaxUpsets
  BY FuelRanges DEF PressFuel, FuelInv, FuelTypes
<1> QED BY <1>3, <1>4, <1>5 DEF PressFuel, FuelInv, FuelTypes, Fitting

LEMMA ToggleAutoInv == FuelInv /\ ToggleAuto => FuelInv'
<1> SUFFICES ASSUME FuelInv, ToggleAuto PROVE FuelInv'
  OBVIOUS
<1>1. visit' \in VisitType
  BY DEF ToggleAuto, FuelInv, FuelTypes, VisitType
<1>2. upsets' \in 0..MaxUpsets
  BY FuelRanges DEF ToggleAuto, FuelInv, FuelTypes
<1> QED BY <1>1, <1>2 DEF ToggleAuto, FuelInv, FuelTypes, Fitting

LEMMA SwapOutInv == FuelInv /\ SwapOut => FuelInv'
<1> SUFFICES ASSUME FuelInv, SwapOut PROVE FuelInv'
  OBVIOUS
<1>1. visit' \in VisitType
  BY DEF SwapOut, FuelInv, FuelTypes, VisitType
<1>2. upsets' \in 0..MaxUpsets
  BY FuelRanges DEF SwapOut, FuelInv, FuelTypes
<1> QED BY <1>1, <1>2 DEF SwapOut, FuelInv, FuelTypes, Fitting

LEMMA SwapInInv == FuelInv /\ SwapIn => FuelInv'
<1> SUFFICES ASSUME FuelInv, SwapIn PROVE FuelInv'
  OBVIOUS
<1>1. snap' \in SnapType /\ seat' \in BOOLEAN
  BY DEF SwapIn, FuelInv, FuelTypes, SnapType
<1>2. PICK stint \in {s \in 0..2 : s <= car.left /\ s <= car.tank}, load \in BOOLEAN :
        LET c == [car EXCEPT !.left = @ - stint, !.tank = @ - stint]
            m == [sim EXCEPT !.armed = load]
        IN IF stint = 0 THEN car' = car /\ sim' = sim /\ visit' = visit /\ pit_requests' = pit_requests /\ watch' = watch
           ELSE /\ car' = c /\ sim' = m /\ pit_requests' = <<>> /\ watch' = [NoWatch EXCEPT !.lowest = c.tank]
                /\ visit' = Visit(None, FALSE, c, m)
  BY DEF SwapIn
<1> DEFINE c == [car EXCEPT !.left = @ - stint, !.tank = @ - stint]
           m == [sim EXCEPT !.armed = load]
<1>3. CASE stint = 0
  BY <1>1, <1>2, <1>3 DEF SwapIn, FuelInv, FuelTypes, Fitting
<1>4. CASE stint # 0
  <2>1. c \in CarType /\ c.place = car.place /\ c.crawled = car.crawled /\ c.secs = car.secs /\ c.lately = car.lately
    <3>1. car \in CarType /\ car.left - stint \in 0..MaxLeft /\ car.tank - stint \in Levels
      BY FuelConstants DEF FuelInv, FuelTypes, CarType, Levels
    <3> QED BY <3>1 DEF CarType
  <2>2. m \in SimType /\ m.rig = None
    BY DEF SwapIn, FuelInv, FuelTypes, SimType
  <2>3. Visit(None, FALSE, c, m) \in VisitType
    BY <2>1, <2>2, VisitTypes DEF NatOrNone
  <2>4. [NoWatch EXCEPT !.lowest = c.tank] \in WatchType /\ [NoWatch EXCEPT !.lowest = c.tank].target = None
    <3>1. c.tank \in Levels
      BY <2>1 DEF CarType
    <3> QED BY <3>1 DEF NoWatch, WatchType, NatOrNone
  <2>5. car' = c /\ sim' = m /\ pit_requests' = <<>> /\ watch' = [NoWatch EXCEPT !.lowest = c.tank] /\ visit' = Visit(None, FALSE, c, m)
    BY <1>2, <1>4
  <2> HIDE DEF c, m
  <2>6. car' \in CarType /\ sim' \in SimType /\ visit' \in VisitType /\ watch' \in WatchType /\ watch'.target = None
    BY <2>1, <2>2, <2>3, <2>4, <2>5
  <2>7. Fitting(car, sim)'
    BY <2>1, <2>2, <2>5 DEF Fitting, FuelInv
  <2>8. pit_requests' \in Seq(RequestType)
    BY <2>5
  <2> QED BY <1>1, <2>6, <2>7, <2>8 DEF SwapIn, FuelInv, FuelTypes
<1> QED BY <1>3, <1>4

LEMMA SecondsOrNot ==
    FuelInv /\ AutoFuelNext => (\E c, m, v : OneSecond(c, m, v)) \/ PressFuel \/ ToggleAuto \/ SwapOut \/ SwapIn
BY DriveMoves, EnterLaneMoves, StopInBoxMoves, FuelMoves, LeaveMoves, CrawlMoves, WaitMoves DEF AutoFuelNext

LEMMA FuelInvStep == FuelInv /\ [AutoFuelNext]_autoFuelVars => FuelInv'
<1> SUFFICES ASSUME FuelInv, [AutoFuelNext]_autoFuelVars PROVE FuelInv'
  OBVIOUS
<1>1. CASE UNCHANGED autoFuelVars
  BY <1>1 DEF autoFuelVars, FuelInv, FuelTypes, Fitting
<1>2. CASE AutoFuelNext
  <2>1. CASE \E c, m, v : OneSecond(c, m, v)
    <3>1. PICK c, m, v : OneSecond(c, m, v)
      BY <2>1
    <3> QED BY <3>1, SecondInv DEF OneSecond
  <2> QED BY <1>2, <2>1, SecondsOrNot, PressFuelInv, ToggleAutoInv, SwapOutInv, SwapInInv
<1> QED BY <1>1, <1>2

THEOREM AutoFuelInvariant == AutoFuelSpec => []FuelInv
BY FuelInvInit, FuelInvStep, PTL DEF AutoFuelSpec

(* The variables of Auto Fuel keep their types (AutoFuelTypeOK), the rig   *)
(* runs for a car in the box only, and short of where it stops.            *)
THEOREM AutoFuelTypeCorrect == AutoFuelSpec => []AutoFuelTypeOK
<1>1. FuelInv => AutoFuelTypeOK
  <2> SUFFICES ASSUME FuelInv PROVE AutoFuelTypeOK
    OBVIOUS
  <2>1. \A i \in DOMAIN pit_requests : pit_requests[i] \in RequestType
    BY DEF FuelInv, FuelTypes
  <2>2. \A i \in DOMAIN pit_requests : /\ pit_requests[i].what \in {"SetFuel", "ClearFuel"}
                                   /\ pit_requests[i].age \in Nat /\ pit_requests[i].litres \in Nat
    BY <2>1 DEF RequestType
  <2>3. /\ car.place \in {"track", "lane", "box"} /\ car.tank \in 0..Size /\ car.left \in 0..MaxLeft
        /\ car.crawled \in 0..(MaxCrawl + MaxIdle) /\ (car.place = "track" => car.crawled = 0)
    BY DEF FuelInv, FuelTypes, CarType, Levels, Fitting
  <2>4. /\ sim.armed \in BOOLEAN /\ sim.amount \in Nat \ {0} /\ sim.rig \in (0..Size) \cup {None}
        /\ sim.rig # None => car.place = "box" /\ car.tank < sim.rig
    BY DEF FuelInv, FuelTypes, SimType, Levels, Fitting
  <2>5. /\ seat \in BOOLEAN /\ auto \in BOOLEAN /\ upsets \in 0..MaxUpsets
        /\ snap.tank \in 0..Size /\ snap.age \in 0..Stale /\ snap.fresh \in Nat \cup {None}
        /\ (watch.target # None => watch.lowest # None)
    BY DEF FuelInv, FuelTypes, SnapType, Levels, NatOrNone
  <2>6. /\ box.pit_lane \in {"Pending", "Served"} /\ box.wait \in 0..Interval
        /\ box.latched \in Nat \cup {None} /\ box.display \in Nat \cup {None} /\ box.on_entry \in (0..Size) \cup {None}
    BY DEF FuelInv, FuelTypes, BoxType, Levels, NatOrNone
  <2> QED BY <2>2, <2>3, <2>4, <2>5, <2>6 DEF AutoFuelTypeOK
<1> QED BY <1>1, AutoFuelInvariant, PTL

-------------------------------------------------------------------------------
(* Auto Fuel: what a second does when its row arrives, and what it leaves. *)

Rested(b) == [b EXCEPT !.wait = NotNegative(@ - 1)]

LEMMA RestedBox ==
    ASSUME NEW b \in BoxType
    PROVE  /\ Rested(b) \in BoxType /\ Rested(b).wait = NotNegative(b.wait - 1)
           /\ Rested(b).latched = b.latched /\ Rested(b).display = b.display /\ Rested(b).pit_lane = b.pit_lane
           /\ Rested(b).armed_in_lane = b.armed_in_lane /\ Rested(b).on_entry = b.on_entry
<1>1. NotNegative(b.wait - 1) \in 0..Interval
  BY FuelRanges DEF BoxType
<1> QED BY <1>1 DEF Rested, BoxType

LEMMA SecondFrame ==
    ASSUME FuelInv, NEW c \in CarType, NEW m \in SimType, NEW v \in VisitType, SecondPasses(c, m, v)
    PROVE  /\ car' = c /\ seat' = seat /\ auto' = auto
           /\ box' = AutoFuelRequest(Rested(box), snap').box
           /\ visit'.goal = v.goal /\ visit'.met = v.met /\ visit'.entry = v.entry /\ visit'.ticked = v.ticked
           /\ visit'.done = v.done /\ visit'.result = v.result /\ visit'.late = v.late
           /\ visit'.pressed = v.pressed /\ visit'.away = v.away
           /\ visit'.blind = (v.blind \/ snap'.age > 0)
           /\ visit'.worked = (v.worked \/ (snap.armed /\ ~ m.armed))
           /\ visit'.tracked = (auto /\ seat /\ snap'.age = 0 /\ ~ snap'.road)
<1>1. car' = c /\ seat' = seat /\ auto' = auto /\ box' = AutoFuelRequest(Rested(box), snap').box
  BY DEF SecondPasses, Rested
<1> QED BY <1>1, SecondWritesDown DEF WritesDown

LEMMA SecondRow ==
    ASSUME FuelInv, NEW c \in CarType, NEW m \in SimType, NEW v \in VisitType, SecondPasses(c, m, v), snap'.age = 0
    PROVE  /\ snap'.tank = c.tank /\ snap'.armed = m.armed /\ snap'.amount = m.amount
           /\ snap'.road = (c.place # "track") /\ snap'.in_car = seat
           /\ watch' = Watched(watch, c.place # "track", c.tank, IF m.armed THEN m.amount * Litre ELSE 0)
           /\ sim' = Delivered(m, Current)
           /\ pit_requests' = IF AutoFuelRequest(Rested(box), snap').request = "none" THEN <<>>
                          ELSE <<[what |-> AutoFuelRequest(Rested(box), snap').request,
                                  litres |-> AutoFuelRequest(Rested(box), snap').box.display, age |-> 0, own |-> FALSE]>>
<1>1. ~ (snap' = [snap EXCEPT !.age = Lesser(@ + 1, Stale)])
  <2>1. Lesser(snap.age + 1, Stale) # 0
    BY FuelConstants DEF FuelInv, FuelTypes, SnapType, Lesser
  <2>2. [snap EXCEPT !.age = Lesser(@ + 1, Stale)].age = Lesser(snap.age + 1, Stale)
    BY DEF FuelInv, FuelTypes, SnapType
  <2> QED BY <2>1, <2>2
<1>2. /\ snap' = Read(c, m, IF c.place = "track" THEN 0 ELSE Error)
      /\ sim' = Delivered(m, Current)
      /\ watch' = Watched(watch, c.place # "track", c.tank, IF m.armed THEN m.amount * Litre ELSE 0)
  BY <1>1 DEF SecondPasses
<1>3. /\ snap'.tank = c.tank /\ snap'.armed = m.armed /\ snap'.amount = m.amount
      /\ snap'.road = (c.place # "track") /\ snap'.in_car = seat
  BY <1>2 DEF Read
<1> DEFINE r == AutoFuelRequest(Rested(box), snap')
<1>4. pit_requests' = IF r.request = "none" THEN <<>>
                  ELSE Append(<<>>, [what |-> r.request, litres |-> r.box.display, age |-> 0, own |-> FALSE])
  BY DEF SecondPasses, Rested
<1> HIDE DEF r
<1>5. pit_requests' = IF r.request = "none" THEN <<>>
                  ELSE <<[what |-> r.request, litres |-> r.box.display, age |-> 0, own |-> FALSE]>>
  BY <1>4
<1> QED BY <1>2, <1>3, <1>5 DEF r

(* What Auto Fuel keeps of the pit lane, and what it asks for.             *)
LEMMA LaneMemory ==
    ASSUME FuelInv, NEW b \in BoxType, NEW s \in SnapType
    PROVE  /\ ~ auto => AutoFuelRequest(b, s) = AskFor("none", [b EXCEPT !.latched = None, !.wait = 0])
           /\ auto /\ (s.age >= Stale \/ ~ s.in_car) => AutoFuelRequest(b, s) = AskFor("none", b)
           /\ auto /\ s.age < Stale /\ s.in_car =>
                /\ AutoFuelRequest(b, s).box.pit_lane = TrackPitLane(b, s).pit_lane
                /\ AutoFuelRequest(b, s).box.armed_in_lane = TrackPitLane(b, s).armed_in_lane
                /\ AutoFuelRequest(b, s).box.on_entry = TrackPitLane(b, s).on_entry
                /\ TrackPitLane(b, s).pit_lane = "Served" => AutoFuelRequest(b, s) = AskFor("none", TrackPitLane(b, s))
                /\ ~ s.road => AutoFuelRequest(b, s).request = "none" /\ AutoFuelRequest(b, s).box.wait = b.wait
                               /\ AutoFuelRequest(b, s).box.latched = IF TrackPitLane(b, s).pit_lane = "Served" THEN TrackPitLane(b, s).latched ELSE s.fresh
                /\ s.road => AutoFuelRequest(b, s).box.latched = TrackPitLane(b, s).latched
<1> DEFINE t == TrackPitLane(b, s)
           off == [b EXCEPT !.latched = None, !.wait = 0]
           on == [t EXCEPT !.latched = s.fresh, !.display = IF s.fresh = None THEN None ELSE FuelToAdd(s.fresh, s.tank)]
           wanted == FuelToAdd(Target(t, s), s.tank)
           shown == [t EXCEPT !.display = wanted]
           sent == [shown EXCEPT !.wait = Interval]
<1>1. t \in BoxType
  BY TrackPitLaneType
<1>2. AutoFuelRequest(b, s) =
        IF ~ auto THEN AskFor("none", off)
        ELSE IF s.age >= Stale \/ ~ s.in_car THEN AskFor("none", b)
        ELSE IF t.pit_lane = "Served" THEN AskFor("none", t)
        ELSE IF ~ s.road THEN AskFor("none", on)
        ELSE IF Target(t, s) = None THEN AskFor("none", t)
        ELSE Armed(t, s)
  BY DEF AutoFuelRequest
<1>3. t.wait = b.wait
  BY DEF TrackPitLane, OutOfLane, BoxType
<1> HIDE DEF t
<1>4. Armed(t, s).box \in {shown, sent}
  BY DEF Armed, AskFor
<1>5. \A x \in {t, on, shown, sent} : x.pit_lane = t.pit_lane /\ x.armed_in_lane = t.armed_in_lane /\ x.on_entry = t.on_entry
  BY <1>1 DEF BoxType
<1>6. on.wait = t.wait /\ on.latched = s.fresh /\ shown.latched = t.latched /\ sent.latched = t.latched
  BY <1>1 DEF BoxType
<1> HIDE DEF off, on, shown, sent
<1>7. s.age \in Int /\ Stale \in Int
  BY FuelConstants DEF SnapType
<1>8. ~ auto => AutoFuelRequest(b, s) = AskFor("none", off)
  BY <1>2
<1>9. auto /\ (s.age >= Stale \/ ~ s.in_car) => AutoFuelRequest(b, s) = AskFor("none", b)
  BY <1>2
<1>10. ASSUME auto, s.age < Stale, s.in_car
       PROVE  /\ AutoFuelRequest(b, s).box \in {t, on, shown, sent}
              /\ t.pit_lane = "Served" => AutoFuelRequest(b, s) = AskFor("none", t)
              /\ ~ s.road => AutoFuelRequest(b, s).request = "none" /\ AutoFuelRequest(b, s).box \in {t, on}
                             /\ (t.pit_lane # "Served" => AutoFuelRequest(b, s).box = on)
              /\ s.road => AutoFuelRequest(b, s).box \in {t, shown, sent}
  BY <1>2, <1>4, <1>7, <1>10 DEF AskFor
<1>11. ASSUME auto, s.age < Stale, s.in_car
       PROVE  /\ AutoFuelRequest(b, s).box.pit_lane = t.pit_lane
              /\ AutoFuelRequest(b, s).box.armed_in_lane = t.armed_in_lane
              /\ AutoFuelRequest(b, s).box.on_entry = t.on_entry
              /\ t.pit_lane = "Served" => AutoFuelRequest(b, s) = AskFor("none", t)
              /\ ~ s.road => AutoFuelRequest(b, s).request = "none" /\ AutoFuelRequest(b, s).box.wait = b.wait
                             /\ AutoFuelRequest(b, s).box.latched = IF t.pit_lane = "Served" THEN t.latched ELSE s.fresh
              /\ s.road => AutoFuelRequest(b, s).box.latched = t.latched
  <2>1. t.pit_lane = "Served" => AutoFuelRequest(b, s).box = t
    BY <1>10, <1>11 DEF AskFor
  <2> QED BY <1>3, <1>5, <1>6, <1>10, <1>11, <2>1
<1> QED BY <1>8, <1>9, <1>11 DEF t, off

LEMMA PitLane ==
    ASSUME NEW b \in BoxType, NEW s \in SnapType
    PROVE  /\ ~ s.road => /\ TrackPitLane(b, s).pit_lane = "Pending" /\ TrackPitLane(b, s).armed_in_lane = FALSE
                          /\ TrackPitLane(b, s).on_entry = None /\ TrackPitLane(b, s).latched = b.latched
           /\ s.road => /\ TrackPitLane(b, s).on_entry = (IF b.on_entry = None THEN s.tank ELSE b.on_entry)
                        /\ TrackPitLane(b, s).armed_in_lane = (b.armed_in_lane \/ s.armed)
                        /\ TrackPitLane(b, s).pit_lane = IF RigHasBeen(b, s) THEN "Served" ELSE b.pit_lane
                        /\ TrackPitLane(b, s).latched = IF RigHasBeen(b, s) THEN None ELSE b.latched
           /\ TrackPitLane(b, s).wait = b.wait
<1> DEFINE served == RigHasBeen(b, s)
<1>1. TrackPitLane(b, s) =
        IF ~ s.road THEN [b EXCEPT !.pit_lane = "Pending", !.armed_in_lane = FALSE, !.on_entry = None]
        ELSE [b EXCEPT !.on_entry = IF @ = None THEN s.tank ELSE @, !.armed_in_lane = @ \/ s.armed,
                       !.pit_lane = IF served THEN "Served" ELSE @, !.latched = IF served THEN None ELSE @]
  BY DEF TrackPitLane, OutOfLane
<1> HIDE DEF served
<1>2. CASE ~ s.road
  BY <1>1, <1>2 DEF BoxType
<1>3. CASE s.road
  <2> DEFINE entry == IF b.on_entry = None THEN s.tank ELSE b.on_entry
             ticked == b.armed_in_lane \/ s.armed
             lane == IF served THEN "Served" ELSE b.pit_lane
             goal == IF served THEN None ELSE b.latched
  <2>1. TrackPitLane(b, s) = [b EXCEPT !.on_entry = entry, !.armed_in_lane = ticked, !.pit_lane = lane, !.latched = goal]
    BY <1>1, <1>3
  <2> HIDE DEF entry, ticked, lane, goal
  <2>2. /\ TrackPitLane(b, s).on_entry = entry /\ TrackPitLane(b, s).armed_in_lane = ticked
        /\ TrackPitLane(b, s).pit_lane = lane /\ TrackPitLane(b, s).latched = goal /\ TrackPitLane(b, s).wait = b.wait
    BY <2>1 DEF BoxType
  <2> QED BY <2>2, <1>3 DEF entry, ticked, lane, goal, served
<1> QED BY <1>2, <1>3

(* A car seen on track is one of which nothing of an earlier visit is kept. *)
Tracked ==
    visit.tracked => /\ car.place = "track" /\ watch = NoWatch /\ ~ snap.road
                     /\ box.pit_lane = "Pending" /\ ~ box.armed_in_lane /\ box.on_entry = None /\ box.wait < Interval

LEMMA SecondTracked ==
    ASSUME FuelInv, NEW c \in CarType, NEW m \in SimType, NEW v \in VisitType, SecondPasses(c, m, v)
    PROVE  Tracked'
<1> SUFFICES ASSUME visit'.tracked
             PROVE  /\ car'.place = "track" /\ watch' = NoWatch /\ ~ snap'.road
                    /\ box'.pit_lane = "Pending" /\ ~ box'.armed_in_lane /\ box'.on_entry = None /\ box'.wait < Interval
  BY DEF Tracked
<1>1. auto /\ seat /\ snap'.age = 0 /\ ~ snap'.road /\ car' = c /\ box' = AutoFuelRequest(Rested(box), snap').box
  BY SecondFrame
<1>2. /\ snap'.road = (c.place # "track") /\ snap'.in_car = seat
      /\ watch' = Watched(watch, c.place # "track", c.tank, IF m.armed THEN m.amount * Litre ELSE 0)
  BY <1>1, SecondRow
<1>3. watch' = NoWatch
  BY <1>1, <1>2 DEF Watched
<1>4. box \in BoxType
  BY DEF FuelInv, FuelTypes
<1>5. snap' \in SnapType /\ snap'.age < Stale /\ snap'.in_car
  <2>1. FuelTypes'
    BY SecondTypes
  <2> QED BY <2>1, <1>1, <1>2, FuelConstants DEF FuelTypes
<1>6. ASSUME NEW s \in SnapType, s.age < Stale, s.in_car, ~ s.road
      PROVE  LET b == AutoFuelRequest(Rested(box), s).box
             IN b.pit_lane = "Pending" /\ ~ b.armed_in_lane /\ b.on_entry = None /\ b.wait = Rested(box).wait
  <2>1. Rested(box) \in BoxType
    BY <1>4, RestedBox
  <2>2. /\ TrackPitLane(Rested(box), s).pit_lane = "Pending" /\ TrackPitLane(Rested(box), s).armed_in_lane = FALSE
        /\ TrackPitLane(Rested(box), s).on_entry = None
    BY <2>1, <1>6, PitLane
  <2>3. /\ AutoFuelRequest(Rested(box), s).box.pit_lane = TrackPitLane(Rested(box), s).pit_lane
        /\ AutoFuelRequest(Rested(box), s).box.armed_in_lane = TrackPitLane(Rested(box), s).armed_in_lane
        /\ AutoFuelRequest(Rested(box), s).box.on_entry = TrackPitLane(Rested(box), s).on_entry
        /\ AutoFuelRequest(Rested(box), s).box.wait = Rested(box).wait
    BY <2>1, <1>1, <1>6, LaneMemory
  <2> QED BY <2>2, <2>3
<1>7. Rested(box).wait < Interval
  <2>1. Rested(box).wait = NotNegative(box.wait - 1)
    BY <1>4, RestedBox
  <2> QED BY <2>1, <1>4, FuelConstants DEF BoxType, NotNegative
<1> QED BY <1>1, <1>2, <1>3, <1>5, <1>6, <1>7

LEMMA SecondTypesAfter ==
    ASSUME FuelInv, NEW c, NEW m, NEW v, OneSecond(c, m, v)
    PROVE  /\ snap' \in SnapType /\ box' \in BoxType /\ FuelInv' /\ Rested(box) \in BoxType /\ box \in BoxType
           /\ snap'.age = 0 => snap'.age < Stale
<1>1. FuelInv'
  BY SecondInv DEF OneSecond
<1>2. box \in BoxType
  BY DEF FuelInv, FuelTypes
<1> QED BY <1>1, <1>2, RestedBox, FuelConstants DEF FuelInv, FuelTypes

LEMMA SecondLane ==
    ASSUME FuelInv, NEW c, NEW m, NEW v, OneSecond(c, m, v), auto, seat, snap'.age = 0, c.place # "track"
    PROVE  /\ box'.on_entry = (IF box.on_entry = None THEN c.tank ELSE box.on_entry)
           /\ box'.armed_in_lane = (box.armed_in_lane \/ m.armed)
           /\ box'.pit_lane = IF (box.on_entry # None /\ c.tank > box.on_entry + Gain) \/ (box.armed_in_lane /\ ~ m.armed)
                              THEN "Served" ELSE box.pit_lane
           /\ box'.pit_lane = "Served" => pit_requests' = <<>>
<1> DEFINE b == Rested(box)
<1>1. /\ snap' \in SnapType /\ b \in BoxType /\ snap'.age < Stale
      /\ b.pit_lane = box.pit_lane /\ b.armed_in_lane = box.armed_in_lane /\ b.on_entry = box.on_entry
  BY SecondTypesAfter, RestedBox
<1>2. /\ snap'.tank = c.tank /\ snap'.armed = m.armed /\ snap'.road /\ snap'.in_car
      /\ box' = AutoFuelRequest(b, snap').box
      /\ (AutoFuelRequest(b, snap').request = "none" => pit_requests' = <<>>)
  BY SecondRow, SecondFrame DEF OneSecond
<1> HIDE DEF b
<1>3. ASSUME NEW s \in SnapType, s.age < Stale, s.in_car, s.road
      PROVE  LET r == AutoFuelRequest(b, s)
             IN /\ r.box.on_entry = (IF b.on_entry = None THEN s.tank ELSE b.on_entry)
                /\ r.box.armed_in_lane = (b.armed_in_lane \/ s.armed)
                /\ r.box.pit_lane = IF RigHasBeen(b, s) THEN "Served" ELSE b.pit_lane
                /\ r.box.pit_lane = "Served" => r.request = "none"
  <2>1. /\ AutoFuelRequest(b, s).box.pit_lane = TrackPitLane(b, s).pit_lane
        /\ AutoFuelRequest(b, s).box.armed_in_lane = TrackPitLane(b, s).armed_in_lane
        /\ AutoFuelRequest(b, s).box.on_entry = TrackPitLane(b, s).on_entry
        /\ TrackPitLane(b, s).pit_lane = "Served" => AutoFuelRequest(b, s) = AskFor("none", TrackPitLane(b, s))
    BY <1>1, <1>3, LaneMemory
  <2>2. /\ TrackPitLane(b, s).on_entry = (IF b.on_entry = None THEN s.tank ELSE b.on_entry)
        /\ TrackPitLane(b, s).armed_in_lane = (b.armed_in_lane \/ s.armed)
        /\ TrackPitLane(b, s).pit_lane = IF RigHasBeen(b, s) THEN "Served" ELSE b.pit_lane
    BY <1>1, <1>3, PitLane
  <2> QED BY <2>1, <2>2 DEF AskFor
<1>4. /\ box'.on_entry = (IF b.on_entry = None THEN snap'.tank ELSE b.on_entry)
      /\ box'.armed_in_lane = (b.armed_in_lane \/ snap'.armed)
      /\ box'.pit_lane = IF RigHasBeen(b, snap') THEN "Served" ELSE b.pit_lane
      /\ box'.pit_lane = "Served" => pit_requests' = <<>>
  BY <1>1, <1>2, <1>3
<1> QED BY <1>1, <1>2, <1>4 DEF RigHasBeen

LEMMA SecondElsewhere ==
    ASSUME FuelInv, NEW c, NEW m, NEW v, OneSecond(c, m, v), snap'.age = 0
    PROVE  /\ c.place = "track" \/ ~ auto \/ ~ seat => pit_requests' = <<>>
           /\ ~ auto \/ ~ seat => /\ box'.on_entry = box.on_entry /\ box'.armed_in_lane = box.armed_in_lane
                                  /\ box'.pit_lane = box.pit_lane
<1> DEFINE b == Rested(box)
<1>1. /\ snap' \in SnapType /\ b \in BoxType /\ snap'.age < Stale /\ auto \in BOOLEAN /\ seat \in BOOLEAN
      /\ b.pit_lane = box.pit_lane /\ b.armed_in_lane = box.armed_in_lane /\ b.on_entry = box.on_entry
  BY SecondTypesAfter, RestedBox DEF FuelInv, FuelTypes
<1>2. /\ snap'.road = (c.place # "track") /\ snap'.in_car = seat
      /\ box' = AutoFuelRequest(b, snap').box
      /\ (AutoFuelRequest(b, snap').request = "none" => pit_requests' = <<>>)
  BY SecondRow, SecondFrame DEF OneSecond
<1> HIDE DEF b
<1>3. ASSUME NEW s \in SnapType, s.age < Stale
      PROVE  LET r == AutoFuelRequest(b, s)
             IN /\ ~ auto \/ ~ s.in_car => /\ r.box.on_entry = b.on_entry /\ r.box.armed_in_lane = b.armed_in_lane
                                           /\ r.box.pit_lane = b.pit_lane
                /\ ~ auto \/ ~ s.in_car \/ ~ s.road => r.request = "none"
  <2> DEFINE r == AutoFuelRequest(b, s)
             off == [b EXCEPT !.latched = None, !.wait = 0]
  <2>1. ~ auto => r = AskFor("none", off)
    BY <1>1, LaneMemory
  <2>2. auto /\ ~ s.in_car => r = AskFor("none", b)
    BY <1>1, LaneMemory
  <2>3. auto /\ s.in_car /\ ~ s.road => r.request = "none"
    BY <1>1, <1>3, LaneMemory
  <2>4. off.on_entry = b.on_entry /\ off.armed_in_lane = b.armed_in_lane /\ off.pit_lane = b.pit_lane
    BY <1>1 DEF BoxType
  <2>5. AskFor("none", off).box = off /\ AskFor("none", off).request = "none"
        /\ AskFor("none", b).box = b /\ AskFor("none", b).request = "none"
    BY DEF AskFor
  <2> HIDE DEF r, off
  <2> DEFINE Still == r.box.on_entry = b.on_entry /\ r.box.armed_in_lane = b.armed_in_lane /\ r.box.pit_lane = b.pit_lane
  <2>6. ~ auto => Still /\ r.request = "none"
    BY <2>1, <2>4, <2>5
  <2>7. auto /\ ~ s.in_car => Still /\ r.request = "none"
    BY <2>2, <2>5
  <2>8. auto /\ s.in_car /\ ~ s.road => r.request = "none"
    BY <2>3
  <2>9. /\ ~ auto \/ ~ s.in_car => /\ r.box.on_entry = b.on_entry /\ r.box.armed_in_lane = b.armed_in_lane
                                   /\ r.box.pit_lane = b.pit_lane
        /\ ~ auto \/ ~ s.in_car \/ ~ s.road => r.request = "none"
    BY <2>6, <2>7, <2>8
  <2> QED BY <2>9 DEF r
<1>4. /\ ~ auto \/ ~ snap'.in_car => /\ box'.on_entry = b.on_entry /\ box'.armed_in_lane = b.armed_in_lane
                                    /\ box'.pit_lane = b.pit_lane
      /\ ~ auto \/ ~ snap'.in_car \/ ~ snap'.road => pit_requests' = <<>>
  BY <1>1, <1>2, <1>3
<1> QED BY <1>1, <1>2, <1>4

(* Auto Fuel that never went away is on, with its driver in the car. *)
Present == ~ visit.away => auto /\ seat

(* The rig fills a tank that has been falling since the lane, to where the *)
(* watch said it would.                                                    *)
EdgeHolds ==
    car.place # "track" /\ visit.met /\ ~ visit.blind /\ ~ visit.done =>
        /\ sim.rig = None => watch.target = None /\ watch.lowest = car.tank
        /\ sim.rig # None => /\ watch.target # None /\ Lesser(watch.target, Size) = sim.rig
                             /\ watch.armed = sim.amount * Litre

(* Until the rig has worked nothing that TrackPitLane remembers of a visit *)
(* it saw the start of speaks for a stop served.                           *)
VerdictHolds ==
    car.place # "track" /\ visit.met /\ ~ visit.blind /\ ~ visit.worked =>
        /\ box.pit_lane = "Pending" /\ (box.on_entry # None => car.tank <= box.on_entry)
        /\ box.armed_in_lane => snap.armed

(* A stop that was served has a result, and so has no other before the car
   is out.                                                                  *)
ServiceHolds ==
    /\ visit.done => visit.result # None
    /\ car.place # "track" /\ ~ visit.done => visit.result = None

(* What TrackPitLane remembers of a visit lasts while the car is in the
   lane, whatever is switched off or lost: the level at entry, once Auto
   Fuel has seen the car there, and that there was a load to go in.  A stop
   it was told of is known to be served, or its box is clear and the next
   row will say so.                                                         *)
EntryKept ==
    /\ visit.sighted \/ visit.told => snap.road
    /\ visit.met /\ ~ visit.worked =>
          /\ car.tank <= visit.entry /\ (snap.road => snap.tank <= visit.entry)
          /\ box.on_entry # None => box.on_entry <= visit.entry
    /\ visit.met /\ visit.sighted => box.on_entry # None /\ box.on_entry <= visit.entry
LoadKept ==
    /\ visit.told => box.armed_in_lane \/ box.pit_lane = "Served"
    /\ visit.told /\ visit.done /\ ~ visit.reticked => box.pit_lane = "Served" \/ ~ sim.armed
MemoryHolds ==
    /\ car.place # "track" => EntryKept /\ LoadKept
    /\ NothingAfterService

VisitInv == FuelInv /\ Tracked /\ Present /\ EdgeHolds /\ VerdictHolds /\ ServiceHolds /\ MemoryHolds

LEMMA SecondPresent ==
    ASSUME FuelInv, Present, NEW c, NEW m, NEW v, OneSecond(c, m, v)
    PROVE  Present' /\ (~ v.away => auto /\ seat)
<1>1. v.away = visit.away \/ v.away = (~ (auto /\ seat))
  <2>1. v = Visit(None, FALSE, c, sim) \/ v = Visit(box.latched, visit.tracked, c, sim)
        \/ v.away = visit.away
    BY DEF OneSecond, Moves, ByDrive, ByEnterLane, ByStopInBox, ByFuel, ByLeave, ByCrawl, ByWait, FuelInv, FuelTypes, VisitType
  <2>2. Visit(None, FALSE, c, sim).away = (~ (auto /\ seat))
    BY DEF Visit
  <2>3. Visit(box.latched, visit.tracked, c, sim).away = (~ (auto /\ seat))
    BY DEF Visit
  <2> QED BY <2>1, <2>2, <2>3
<1>2. visit'.away = v.away /\ seat' = seat /\ auto' = auto
  BY SecondFrame DEF OneSecond
<1>3. auto \in BOOLEAN /\ seat \in BOOLEAN
  BY DEF FuelInv, FuelTypes
<1> QED BY <1>1, <1>2, <1>3 DEF Present

(* A second whose row arrives, seen from what is true of the visit then. *)
LEMMA SecondSeen ==
    ASSUME FuelInv, NEW c, NEW m, NEW v, OneSecond(c, m, v), ~ visit'.blind
    PROVE  /\ snap'.age = 0 /\ car' = c /\ ~ v.blind
           /\ snap'.tank = c.tank /\ snap'.armed = m.armed /\ snap'.road = (c.place # "track")
           /\ watch' = Watched(watch, c.place # "track", c.tank, IF m.armed THEN m.amount * Litre ELSE 0)
           /\ sim'.rig = m.rig /\ (m.rig # None => sim' = m)
           /\ c \in CarType /\ m \in SimType /\ v \in VisitType /\ watch \in WatchType /\ c.tank \in Levels
           /\ (IF m.armed THEN m.amount * Litre ELSE 0) \in Nat
<1>1. visit'.blind = (v.blind \/ snap'.age > 0) /\ car' = c
  BY SecondFrame DEF OneSecond
<1>2. v.blind \in BOOLEAN /\ c \in CarType /\ m \in SimType /\ v \in VisitType /\ watch \in WatchType /\ c.tank \in Levels
  BY DEF OneSecond, VisitType, FuelInv, FuelTypes, CarType
<1>3. snap'.age = 0
  <2>1. snap'.age \in 0..Stale
    BY SecondTypesAfter DEF SnapType
  <2>2. ~ (snap'.age > 0)
    BY <1>1
  <2> QED BY <2>1, <2>2, FuelConstants
<1>4. /\ snap'.tank = c.tank /\ snap'.armed = m.armed /\ snap'.road = (c.place # "track")
      /\ watch' = Watched(watch, c.place # "track", c.tank, IF m.armed THEN m.amount * Litre ELSE 0)
      /\ sim' = Delivered(m, Current)
  BY <1>3, SecondRow DEF OneSecond
<1>5. Delivered(m, Current).rig = m.rig /\ (m.rig # None => Delivered(m, Current) = m)
  BY <1>2, DeliveredType DEF FuelInv, Current
<1>6. (IF m.armed THEN m.amount * Litre ELSE 0) \in Nat
  BY <1>2, FuelConstants DEF SimType
<1>7. ~ v.blind
  BY <1>1
<1> QED BY <1>1, <1>2, <1>3, <1>4, <1>5, <1>6, <1>7

LEMMA WatchStarts ==
    \A w \in WatchType, tank \in Levels, load \in Nat :
        w.target = None /\ tank > Low(w, tank)
            => Watched(w, TRUE, tank, load) = [lowest |-> Low(w, tank), target |-> Low(w, tank) + load, armed |-> load]
BY WatchedCases

LEMMA WatchKeeps ==
    \A w \in WatchType, tank \in Levels, load \in Nat :
        ~ (w.target = None /\ tank > Low(w, tank)) /\ ~ (w.target # None /\ load > w.armed)
            => Watched(w, TRUE, tank, load) = [w EXCEPT !.lowest = Low(w, tank)]
BY WatchedCases

LEMMA SecondEdge ==
    ASSUME FuelInv, Tracked, EdgeHolds, NEW c, NEW m, NEW v, OneSecond(c, m, v)
    PROVE  EdgeHolds'
<1> SUFFICES ASSUME car'.place # "track", visit'.met, ~ visit'.blind, ~ visit'.done
             PROVE  /\ sim'.rig = None => watch'.target = None /\ watch'.lowest = car'.tank
                    /\ sim'.rig # None => /\ watch'.target # None /\ Lesser(watch'.target, Size) = sim'.rig
                                          /\ watch'.armed = sim'.amount * Litre
  BY DEF EdgeHolds
<1> DEFINE a == IF m.armed THEN m.amount * Litre ELSE 0
<1>1. /\ snap'.age = 0 /\ car' = c /\ ~ v.blind /\ watch' = Watched(watch, c.place # "track", c.tank, a)
      /\ sim'.rig = m.rig /\ (m.rig # None => sim' = m)
      /\ c \in CarType /\ m \in SimType /\ v \in VisitType /\ watch \in WatchType /\ c.tank \in Levels /\ a \in Nat
  BY SecondSeen
<1>2. c.place # "track" /\ v.met /\ ~ v.done
  BY <1>1, SecondFrame DEF OneSecond
<1>3. watch' = Watched(watch, TRUE, c.tank, a)
  BY <1>1, <1>2
<1>4. ASSUME m.rig = None, watch.target = None, watch.lowest = None \/ (watch.lowest \in Levels /\ c.tank <= watch.lowest)
      PROVE  watch'.target = None /\ watch'.lowest = c.tank
  <2>1. Low(watch, c.tank) = c.tank
    BY <1>1, <1>4 DEF Low, Lesser, Levels
  <2>2. ~ (watch.target = None /\ c.tank > Low(watch, c.tank))
    BY <2>1, <1>1 DEF Levels
  <2>3. ~ (watch.target # None /\ a > watch.armed)
    BY <1>4
  <2> HIDE DEF a
  <2>4. watch' = [watch EXCEPT !.lowest = c.tank]
    <3>1. Watched(watch, TRUE, c.tank, a) = [watch EXCEPT !.lowest = Low(watch, c.tank)]
      BY <1>1, <2>2, <2>3, WatchKeeps
    <3> QED BY <1>3, <2>1, <3>1
  <2> QED BY <2>4, <1>1, <1>4 DEF WatchType
<1>5. car.tank \in Levels /\ sim \in SimType
  BY DEF FuelInv, FuelTypes, CarType
<1>6. CASE ByEnterLane(c, m, v)
  <2>1. visit.tracked
    BY <1>6, <1>2 DEF ByEnterLane, Visit
  <2>2. watch.target = None /\ watch.lowest = None /\ m.rig = None
    BY <2>1, <1>6 DEF Tracked, NoWatch, ByEnterLane
  <2> QED BY <2>2, <1>1, <1>4
<1>7. ASSUME car.place # "track", visit.met = v.met, visit.blind = v.blind, visit.done = v.done, sim.rig = None, m = sim,
             NEW b \in {0, 1}, c.tank = car.tank - b
      PROVE  m.rig = None /\ watch'.target = None /\ watch'.lowest = c.tank
  <2>1. watch.target = None /\ watch.lowest = car.tank
    BY <1>1, <1>2, <1>7 DEF EdgeHolds
  <2>2. c.tank <= watch.lowest /\ watch.lowest \in Levels
    BY <2>1, <1>5, <1>7 DEF Levels
  <2> QED BY <2>1, <2>2, <1>4, <1>7
<1>8. CASE \E b \in {0, 1} : ByCrawl(c, m, v, b) \/ ByWait(c, m, v, b)
  <2>1. PICK b \in {0, 1} : ByCrawl(c, m, v, b) \/ ByWait(c, m, v, b)
    BY <1>8
  <2>2. car.place # "track" /\ v = visit /\ sim.rig = None /\ m = sim /\ c.tank = car.tank - b
    BY <2>1 DEF ByCrawl, ByWait, Burning
  <2> QED BY <2>2, <1>1, <1>7
<1>9. CASE ByStopInBox(c, m, v)
  <2>1. car.place # "track" /\ v = [visit EXCEPT !.late = Burnt(car)] /\ sim.rig = None /\ m = sim /\ c.tank = car.tank - 0
    BY <1>9 DEF ByStopInBox, Burning
  <2>2. visit.met = v.met /\ visit.blind = v.blind /\ visit.done = v.done
    BY <2>1 DEF FuelInv, FuelTypes, VisitType
  <2> QED BY <2>1, <2>2, <1>1, <1>7
<1>10. CASE ByFuel(c, m, v)
  <2>1. /\ car.place # "track" /\ c.tank = RigTank /\ sim.armed /\ m.amount = sim.amount
        /\ RigGoal \in Levels /\ RigTank \in Levels /\ RigTank <= RigGoal
    BY <1>10 DEF ByFuel
  <2>2. /\ v.met = visit.met /\ v.blind = visit.blind /\ v.done = (visit.done \/ RigTank = RigGoal)
    BY <1>10 DEF ByFuel, FuelInv, FuelTypes, VisitType
  <2>3. ~ visit.done /\ RigTank < RigGoal
    <3>1. ~ (visit.done \/ RigTank = RigGoal)
      BY <2>2, <1>2
    <3> QED BY <3>1, <2>1, FuelConstants DEF Levels
  <2>4. m.rig = RigGoal /\ m.armed /\ m.rig # None /\ sim' = m
    <3>1. m.rig = RigGoal /\ m.armed
      BY <2>3, <1>10 DEF ByFuel
    <3>2. RigGoal # None
      BY <2>1, FuelConstants DEF Levels, None
    <3> QED BY <3>1, <3>2, <1>1
  <2>5. /\ sim.rig = None => watch.target = None /\ watch.lowest = car.tank
        /\ sim.rig # None => /\ watch.target # None /\ Lesser(watch.target, Size) = sim.rig
                             /\ watch.armed = sim.amount * Litre
    BY <2>1, <2>2, <2>3, <1>1, <1>2 DEF EdgeHolds
  <2>6. a = sim.amount * Litre /\ a = m.amount * Litre
    BY <2>1, <2>4
  <2> HIDE DEF a
  <2>7. CASE sim.rig = None
    <3>1. RigGoal = Lesser(car.tank + a, Size)
      BY <2>6, <2>7 DEF RigGoal
    <3>2. RigTank = car.tank + Pump /\ RigTank > car.tank
      <4>1. RigGoal \in Levels
        BY <2>1
      <4> QED BY <4>1, <2>3, <1>5, FuelConstants DEF RigTank, Lesser, Levels
    <3>3. Low(watch, c.tank) = car.tank
      <4>1. watch.lowest = car.tank /\ car.tank # None
        BY <2>5, <2>7, <1>5, FuelConstants DEF Levels, None
      <4>2. c.tank > car.tank
        BY <2>1, <3>2
      <4> QED BY <4>1, <4>2, <1>5, <1>1, FuelConstants DEF Low, Lesser, Levels
    <3>4. watch' = [lowest |-> car.tank, target |-> car.tank + a, armed |-> a]
      <4>1. watch.target = None /\ c.tank > Low(watch, c.tank)
        BY <2>1, <2>5, <2>7, <3>2, <3>3
      <4> QED BY <1>1, <1>3, <3>3, <4>1, WatchStarts
    <3>5. car.tank + a # None
      BY <1>1, <1>5, FuelConstants DEF Levels, None
    <3> QED BY <3>1, <3>4, <3>5, <2>4, <2>6
  <2>8. CASE sim.rig # None
    <3>1. RigGoal = sim.rig /\ watch.armed = a /\ watch.target # None
      BY <2>5, <2>6, <2>8 DEF RigGoal
    <3>2. ~ (a > watch.armed)
      BY <3>1, <1>1
    <3>3. watch' = [watch EXCEPT !.lowest = Low(watch, c.tank)]
      BY <1>1, <1>3, <3>1, <3>2, WatchKeeps
    <3>4. watch'.target = watch.target /\ watch'.armed = watch.armed
      BY <3>3, <1>1 DEF WatchType
    <3> QED BY <3>1, <3>4, <2>4, <2>5, <2>6, <2>8
  <2> QED BY <2>7, <2>8
<1>11. ~ ByDrive(c, m, v) /\ ~ ByLeave(c, m, v)
  BY <1>2 DEF ByDrive, ByLeave
<1>12. Moves(c, m, v)
  BY DEF OneSecond
<1> QED BY <1>6, <1>8, <1>9, <1>10, <1>11, <1>12 DEF Moves

LEMMA SecondVerdict ==
    ASSUME FuelInv, Tracked, VerdictHolds, NEW c, NEW m, NEW v, OneSecond(c, m, v)
    PROVE  VerdictHolds'
<1> SUFFICES ASSUME car'.place # "track", visit'.met, ~ visit'.blind, ~ visit'.worked
             PROVE  /\ box'.pit_lane = "Pending" /\ (box'.on_entry # None => car'.tank <= box'.on_entry)
                    /\ box'.armed_in_lane => snap'.armed
  BY DEF VerdictHolds
<1>1. /\ snap'.age = 0 /\ car' = c /\ ~ v.blind /\ snap'.armed = m.armed
      /\ c \in CarType /\ m \in SimType /\ v \in VisitType /\ c.tank \in Levels
  BY SecondSeen
<1>2. c.place # "track" /\ v.met
  BY <1>1, SecondFrame DEF OneSecond
<1>3. ~ v.worked /\ (snap.armed => m.armed)
  <2>1. visit'.worked = (v.worked \/ (snap.armed /\ ~ m.armed))
    BY SecondFrame DEF OneSecond
  <2> QED BY <2>1
<1>4. box \in BoxType /\ auto \in BOOLEAN /\ seat \in BOOLEAN /\ car.tank \in Levels
  BY DEF FuelInv, FuelTypes, CarType
(* What TrackPitLane had in mind still holds of the car as it is now. *)
<1>5. /\ box.pit_lane = "Pending" /\ (box.on_entry # None => c.tank <= box.on_entry)
      /\ box.armed_in_lane => m.armed
  <2>1. CASE ByEnterLane(c, m, v)
    <3>1. visit.tracked
      BY <2>1, <1>2 DEF ByEnterLane, Visit
    <3> QED BY <3>1 DEF Tracked
  <2>2. ASSUME car.place # "track", visit.met = v.met, visit.blind = v.blind, visit.worked = v.worked, c.tank <= car.tank
        PROVE  /\ box.pit_lane = "Pending" /\ (box.on_entry # None => c.tank <= box.on_entry)
               /\ box.armed_in_lane => m.armed
    <3>1. /\ box.pit_lane = "Pending" /\ (box.on_entry # None => car.tank <= box.on_entry)
          /\ box.armed_in_lane => snap.armed
      BY <2>2, <1>1, <1>2, <1>3 DEF VerdictHolds
    <3>2. box.on_entry # None => box.on_entry \in Levels
      BY <1>4 DEF BoxType
    <3> QED BY <3>1, <3>2, <2>2, <1>1, <1>3, <1>4, FuelConstants DEF Levels
  <2>3. CASE \E b \in {0, 1} : ByCrawl(c, m, v, b) \/ ByWait(c, m, v, b)
    <3>1. PICK b \in {0, 1} : ByCrawl(c, m, v, b) \/ ByWait(c, m, v, b)
      BY <2>3
    <3>2. car.place # "track" /\ v = visit /\ c.tank = car.tank - b
      BY <3>1 DEF ByCrawl, ByWait, Burning
    <3>3. c.tank <= car.tank
      BY <3>2, <1>4, FuelConstants DEF Levels
    <3> QED BY <3>2, <3>3, <2>2
  <2>4. CASE ByStopInBox(c, m, v)
    <3>1. car.place # "track" /\ v = [visit EXCEPT !.late = Burnt(car)] /\ c.tank = car.tank - 0
      BY <2>4 DEF ByStopInBox, Burning
    <3>2. visit.met = v.met /\ visit.blind = v.blind /\ visit.worked = v.worked
      BY <3>1 DEF FuelInv, FuelTypes, VisitType
    <3>3. c.tank <= car.tank
      BY <3>1, <1>4, FuelConstants DEF Levels
    <3> QED BY <3>1, <3>2, <3>3, <2>2
  <2>5. ~ ByFuel(c, m, v)
    <3>1. ByFuel(c, m, v) => v.worked = TRUE
      BY DEF ByFuel, FuelInv, FuelTypes, VisitType
    <3> QED BY <3>1, <1>3
  <2>6. ~ ByDrive(c, m, v) /\ ~ ByLeave(c, m, v)
    BY <1>2 DEF ByDrive, ByLeave
  <2>7. Moves(c, m, v)
    BY DEF OneSecond
  <2> QED BY <2>1, <2>3, <2>4, <2>5, <2>6, <2>7 DEF Moves
<1>6. CASE auto /\ seat
  <2>1. /\ box'.on_entry = (IF box.on_entry = None THEN c.tank ELSE box.on_entry)
        /\ box'.armed_in_lane = (box.armed_in_lane \/ m.armed)
        /\ box'.pit_lane = IF (box.on_entry # None /\ c.tank > box.on_entry + Gain) \/ (box.armed_in_lane /\ ~ m.armed)
                           THEN "Served" ELSE box.pit_lane
    BY <1>1, <1>2, <1>6, SecondLane
  <2>2. ~ (box.on_entry # None /\ c.tank > box.on_entry + Gain)
    <3>1. box.on_entry # None => box.on_entry \in Levels
      BY <1>4 DEF BoxType
    <3> QED BY <3>1, <1>1, <1>5, FuelConstants DEF Levels
  <2>3. ~ (box.armed_in_lane /\ ~ m.armed) /\ (box'.armed_in_lane => m.armed)
    BY <2>1, <1>5
  <2>4. box'.pit_lane = "Pending"
    BY <2>1, <2>2, <2>3, <1>5
  <2>5. box'.on_entry # None => c.tank <= box'.on_entry
    BY <2>1, <1>5, <1>1, FuelConstants DEF Levels
  <2> QED BY <2>3, <2>4, <2>5, <1>1
<1>7. CASE ~ auto \/ ~ seat
  <2>1. box'.on_entry = box.on_entry /\ box'.armed_in_lane = box.armed_in_lane /\ box'.pit_lane = box.pit_lane
    BY <1>1, <1>7, SecondElsewhere
  <2> QED BY <2>1, <1>1, <1>5
<1> QED BY <1>6, <1>7

LEMMA SecondService ==
    ASSUME FuelInv, ServiceHolds, NEW c, NEW m, NEW v, OneSecond(c, m, v)
    PROVE  ServiceHolds'
<1>0. car' = c /\ visit'.done = v.done /\ visit'.result = v.result
  BY SecondFrame DEF OneSecond
<1>1. /\ c \in CarType /\ m \in SimType /\ v \in VisitType /\ c.tank \in Levels /\ visit \in VisitType /\ car.tank \in Levels
      /\ Moves(c, m, v)
  BY DEF FuelInv, FuelTypes, CarType, OneSecond
(* What each move does to the truth about the visit. *)
<1>2. /\ v.done => v.result # None
      /\ c.place # "track" /\ ~ v.done => v.result = None
  <2>1. /\ visit.done => visit.result # None
        /\ car.place # "track" /\ ~ visit.done => visit.result = None
    BY DEF ServiceHolds
  <2>2. CASE ByDrive(c, m, v) \/ ByEnterLane(c, m, v)
    <3>1. v.done = FALSE /\ v.result = None
      BY <2>2 DEF ByDrive, ByEnterLane, Visit
    <3> QED BY <3>1
  <2>3. CASE \E b \in {0, 1} : ByCrawl(c, m, v, b) \/ ByWait(c, m, v, b)
    <3>1. v = visit /\ car.place # "track"
      BY <2>3 DEF ByCrawl, ByWait
    <3> QED BY <3>1, <2>1
  <2>4. CASE ByStopInBox(c, m, v)
    <3>1. v.done = visit.done /\ v.result = visit.result /\ car.place # "track"
      BY <2>4, <1>1 DEF ByStopInBox, VisitType
    <3> QED BY <3>1, <2>1
  <2>5. CASE ByLeave(c, m, v)
    <3>1. c.place = "track" /\ v.done = visit.done /\ (visit.result # None => v.result = visit.result)
      BY <2>5, <1>1 DEF ByLeave, VisitType
    <3> QED BY <3>1, <2>1
  <2>6. CASE ByFuel(c, m, v)
    <3>1. /\ v.done = (visit.done \/ RigTank = RigGoal) /\ car.place # "track" /\ RigTank # None
          /\ v.result = IF RigTank = RigGoal /\ ~ visit.done THEN RigTank ELSE visit.result
      BY <2>6, <1>1, FuelConstants DEF ByFuel, VisitType, Levels, None
    <3> QED BY <3>1, <2>1
  <2> QED BY <2>2, <2>3, <2>4, <2>5, <2>6, <1>1 DEF Moves
<1> QED BY <1>0, <1>2 DEF ServiceHolds

(* What Auto Fuel keeps of the lane is kept whatever row it is shown next, *)
(* so long as that row is of the lane.                                      *)
Stays(old, new, s) ==
    /\ s.road => /\ old.armed_in_lane => new.armed_in_lane
                 /\ old.pit_lane = "Served" => new.pit_lane = "Served"
                 /\ old.on_entry # None => new.on_entry = old.on_entry
    /\ \/ new.on_entry = old.on_entry \/ new.on_entry = None
       \/ s.road /\ new.on_entry = s.tank

LEMMA LaneStays ==
    ASSUME FuelInv, NEW b \in BoxType, NEW s \in SnapType
    PROVE  Stays(b, AutoFuelRequest(b, s).box, s)
<1> DEFINE r == AutoFuelRequest(b, s)
           off == [b EXCEPT !.latched = None, !.wait = 0]
<1>1. CASE ~ auto
  <2>1. r = AskFor("none", off)
    BY <1>1, LaneMemory
  <2>2. r.box = off
    BY <2>1 DEF AskFor
  <2>3. off.armed_in_lane = b.armed_in_lane /\ off.pit_lane = b.pit_lane /\ off.on_entry = b.on_entry
    BY DEF BoxType
  <2> HIDE DEF r, off
  <2>4. Stays(b, r.box, s)
    BY <2>2, <2>3 DEF Stays
  <2> QED BY <2>4 DEF r
<1>2. CASE auto /\ (s.age >= Stale \/ ~ s.in_car)
  <2>1. r = AskFor("none", b)
    BY <1>2, LaneMemory
  <2>2. r.box = b
    BY <2>1 DEF AskFor
  <2> QED BY <2>2 DEF Stays
<1>3. CASE auto /\ s.age < Stale /\ s.in_car
  <2>1. /\ r.box.pit_lane = TrackPitLane(b, s).pit_lane
        /\ r.box.armed_in_lane = TrackPitLane(b, s).armed_in_lane
        /\ r.box.on_entry = TrackPitLane(b, s).on_entry
    BY <1>3, LaneMemory
  <2> HIDE DEF r
  <2>2. CASE s.road
    <3>1. /\ TrackPitLane(b, s).on_entry = (IF b.on_entry = None THEN s.tank ELSE b.on_entry)
          /\ TrackPitLane(b, s).armed_in_lane = (b.armed_in_lane \/ s.armed)
          /\ TrackPitLane(b, s).pit_lane = IF RigHasBeen(b, s) THEN "Served" ELSE b.pit_lane
      BY <2>2, PitLane
    <3>2. Stays(b, r.box, s)
      BY <2>1, <2>2, <3>1 DEF Stays
    <3> QED BY <3>2 DEF r
  <2>3. CASE ~ s.road
    <3>1. TrackPitLane(b, s).on_entry = None
      BY <2>3, PitLane
    <3>2. Stays(b, r.box, s)
      BY <2>1, <2>3, <3>1 DEF Stays
    <3> QED BY <3>2 DEF r
  <2> QED BY <2>2, <2>3
<1>4. s.age \in Int /\ Stale \in Int
  BY FuelConstants DEF SnapType
<1> QED BY <1>1, <1>2, <1>3, <1>4

LEMMA SecondStays ==
    ASSUME FuelInv, NEW c, NEW m, NEW v, OneSecond(c, m, v)
    PROVE  Stays(box, box', snap')
<1> DEFINE b == Rested(box)
<1>1. /\ snap' \in SnapType /\ b \in BoxType
      /\ b.pit_lane = box.pit_lane /\ b.armed_in_lane = box.armed_in_lane /\ b.on_entry = box.on_entry
  BY SecondTypesAfter, RestedBox
<1>2. box' = AutoFuelRequest(b, snap').box
  BY SecondFrame DEF OneSecond
<1> HIDE DEF b
<1>3. \A s \in SnapType : Stays(b, AutoFuelRequest(b, s).box, s)
  BY <1>1, LaneStays
<1>4. Stays(b, box', snap')
  BY <1>1, <1>2, <1>3
<1> QED BY <1>1, <1>4 DEF Stays

(* A second's row comes, or the old one stays and nothing goes out. *)
LEMMA RowOrNone ==
    ASSUME FuelInv, NEW c, NEW m, NEW v, OneSecond(c, m, v)
    PROVE  \/ /\ snap'.age = 0 /\ snap'.tank = c.tank /\ snap'.armed = m.armed /\ snap'.road = (c.place # "track")
              /\ sim' = Delivered(m, Current)
           \/ snap'.age > 0 /\ snap'.tank = snap.tank /\ snap'.road = snap.road /\ sim' = m
<1>1. CASE snap' = Read(c, m, IF c.place = "track" THEN 0 ELSE Error) /\ sim' = Delivered(m, Current)
  BY <1>1 DEF Read
<1>2. CASE snap' = [snap EXCEPT !.age = Lesser(@ + 1, Stale)] /\ sim' = m
  <2>1. Lesser(snap.age + 1, Stale) > 0
    BY FuelConstants DEF FuelInv, FuelTypes, SnapType, Lesser
  <2>2. /\ snap'.age = Lesser(snap.age + 1, Stale) /\ snap'.tank = snap.tank /\ snap'.road = snap.road
    BY <1>2 DEF FuelInv, FuelTypes, SnapType
  <2> QED BY <1>2, <2>1, <2>2
<1> QED BY <1>1, <1>2 DEF OneSecond, SecondPasses

(* What of the visit is remembered as the second's move has left it. *)
Remembered(c, m, v) ==
    /\ v.sighted \/ v.told => snap.road
    /\ v.met /\ ~ v.worked =>
          /\ c.tank <= v.entry /\ (snap.road => snap.tank <= v.entry)
          /\ box.on_entry # None => box.on_entry <= v.entry
    /\ v.met /\ v.sighted => box.on_entry # None /\ box.on_entry <= v.entry
    /\ v.told => box.armed_in_lane \/ box.pit_lane = "Served"
    /\ v.told /\ v.done /\ ~ v.reticked => box.pit_lane = "Served" \/ ~ m.armed

LEMMA MoveRemembers ==
    ASSUME FuelInv, Tracked, MemoryHolds, NEW c, NEW m, NEW v, OneSecond(c, m, v), c.place # "track"
    PROVE  Remembered(c, m, v)
<1>1. /\ visit \in VisitType /\ car.tank \in Levels /\ c.tank \in Levels /\ Moves(c, m, v)
      /\ visit.entry \in Levels /\ visit.done \in BOOLEAN /\ visit.worked \in BOOLEAN
  BY DEF FuelInv, FuelTypes, CarType, VisitType, OneSecond
<1>2. CASE ByEnterLane(c, m, v)
  <2>1. /\ v.met = visit.tracked /\ v.entry = c.tank /\ v.done = FALSE
        /\ v.sighted = FALSE /\ v.told = FALSE
    BY <1>2 DEF ByEnterLane, Visit
  <2>2. v.met => ~ snap.road /\ box.on_entry = None
    BY <2>1 DEF Tracked
  <2>3. c.tank <= v.entry
    BY <1>1, <2>1, FuelConstants DEF Levels
  <2> QED BY <2>1, <2>2, <2>3 DEF Remembered
<1> DEFINE Same == /\ v.met = visit.met /\ v.entry = visit.entry /\ v.sighted = visit.sighted
                   /\ v.told = visit.told /\ v.reticked = visit.reticked
<1>3. ASSUME car.place # "track", Same, v.done = visit.done, v.worked = visit.worked, m = sim, c.tank <= car.tank
      PROVE  Remembered(c, m, v)
  <2>1. EntryKept /\ LoadKept
    BY <1>3 DEF MemoryHolds
  <2>2. v.met /\ ~ v.worked => c.tank <= v.entry
    BY <1>1, <1>3, <2>1, FuelConstants DEF EntryKept, Levels
  <2> QED BY <1>3, <2>1, <2>2 DEF EntryKept, LoadKept, Remembered
<1>4. CASE \E b \in {0, 1} : ByCrawl(c, m, v, b) \/ ByWait(c, m, v, b)
  <2>1. PICK b \in {0, 1} : ByCrawl(c, m, v, b) \/ ByWait(c, m, v, b)
    BY <1>4
  <2>2. car.place # "track" /\ v = visit /\ m = sim /\ c.tank = car.tank - b
    BY <2>1 DEF ByCrawl, ByWait, Burning
  <2>3. c.tank <= car.tank
    BY <2>2, <1>1, FuelConstants DEF Levels
  <2> QED BY <2>2, <2>3, <1>3
<1>5. CASE ByStopInBox(c, m, v)
  <2>1. car.place # "track" /\ v = [visit EXCEPT !.late = Burnt(car)] /\ m = sim /\ c.tank = car.tank - 0
    BY <1>5 DEF ByStopInBox, Burning
  <2>2. Same /\ v.done = visit.done /\ v.worked = visit.worked
    BY <2>1, <1>1 DEF VisitType
  <2>3. c.tank <= car.tank
    BY <2>1, <1>1, FuelConstants DEF Levels
  <2> QED BY <2>1, <2>2, <2>3, <1>3
<1>6. CASE ByFuel(c, m, v)
  <2>1. /\ car.place # "track" /\ sim.armed /\ Same /\ v.worked
        /\ v.done = (visit.done \/ RigTank = RigGoal) /\ (RigTank = RigGoal => ~ m.armed)
    BY <1>6, <1>1 DEF ByFuel, VisitType
  <2>2. EntryKept /\ LoadKept
    BY <2>1 DEF MemoryHolds
  <2>3. v.told /\ v.done /\ ~ v.reticked => box.pit_lane = "Served" \/ ~ m.armed
    <3>1. CASE visit.done
      BY <2>1, <2>2, <3>1 DEF LoadKept
    <3>2. CASE RigTank = RigGoal
      BY <2>1, <3>2
    <3> QED BY <2>1, <3>1, <3>2
  <2> QED BY <2>1, <2>2, <2>3 DEF EntryKept, LoadKept, Remembered
<1>7. ~ ByDrive(c, m, v) /\ ~ ByLeave(c, m, v)
  BY DEF ByDrive, ByLeave
<1> QED BY <1>1, <1>2, <1>4, <1>5, <1>6, <1>7 DEF Moves

LEMMA SecondEntry ==
    ASSUME FuelInv, NEW c, NEW m, NEW v, OneSecond(c, m, v), Remembered(c, m, v), c.place # "track"
    PROVE  EntryKept'
<1>1. WritesDown(m, v) /\ car' = c /\ snap' \in SnapType
  BY SecondWritesDown, SecondFrame, SecondTypesAfter DEF OneSecond
<1>2. /\ visit'.met = v.met /\ visit'.entry = v.entry
      /\ visit'.worked = (v.worked \/ (snap.armed /\ ~ m.armed))
      /\ visit'.sighted = (v.sighted \/ (Watching /\ ~ v.worked))
      /\ visit'.told = (v.told \/ (Watching /\ ((~ v.done /\ snap'.armed) \/ Full(v))))
  BY <1>1 DEF WritesDown
<1>3. /\ box.on_entry \in Levels \cup {None} /\ box'.on_entry \in Levels \cup {None} /\ c.tank \in Levels /\ v.entry \in Levels
      /\ snap.tank \in Levels /\ snap'.tank \in Levels
  BY <1>1, SecondTypesAfter DEF FuelInv, FuelTypes, BoxType, SnapType, CarType, VisitType, OneSecond
<1>4. \/ snap'.age = 0 /\ snap'.tank = c.tank /\ snap'.road
      \/ ~ (snap'.age = 0) /\ snap'.tank = snap.tank /\ snap'.road = snap.road
  <2>1. snap'.age > 0 => ~ (snap'.age = 0)
    OBVIOUS
  <2> QED BY <2>1, RowOrNone
<1>5. Stays(box, box', snap')
  BY SecondStays
<1>6. visit'.sighted \/ visit'.told => snap'.road
  <2>1. Watching => snap'.road
    BY DEF Watching
  <2>2. v.sighted \/ v.told => snap.road
    BY DEF Remembered
  <2> QED BY <1>2, <1>4, <2>1, <2>2
<1>7. visit'.met /\ ~ visit'.worked =>
          /\ car'.tank <= visit'.entry /\ (snap'.road => snap'.tank <= visit'.entry)
          /\ box'.on_entry # None => box'.on_entry <= visit'.entry
  <2>1. SUFFICES ASSUME visit'.met, ~ visit'.worked
                 PROVE  /\ c.tank <= v.entry /\ (snap'.road => snap'.tank <= v.entry)
                        /\ box'.on_entry # None => box'.on_entry <= v.entry
    BY <1>1, <1>2
  <2>2. v.met /\ ~ v.worked
    BY <1>2, <2>1
  <2>3. /\ c.tank <= v.entry /\ (snap.road => snap.tank <= v.entry)
        /\ box.on_entry # None => box.on_entry <= v.entry
    BY <2>2 DEF Remembered
  <2>4. snap'.road => snap'.tank <= v.entry
    BY <1>4, <2>3
  <2> QED BY <1>5, <2>3, <2>4 DEF Stays
<1>8. visit'.met /\ visit'.sighted => box'.on_entry # None /\ box'.on_entry <= visit'.entry
  <2>1. SUFFICES ASSUME v.met, visit'.sighted PROVE box'.on_entry # None /\ box'.on_entry <= v.entry
    BY <1>2
  <2>2. CASE v.sighted
    <3>1. box.on_entry # None /\ box.on_entry <= v.entry
      BY <2>1, <2>2 DEF Remembered
    <3> QED BY <1>5, <1>6, <2>1, <3>1 DEF Stays
  <2>3. CASE Watching /\ ~ v.worked
    <3>1. box'.on_entry = (IF box.on_entry = None THEN c.tank ELSE box.on_entry)
      BY <2>3, SecondLane DEF Watching
    <3>2. c.tank <= v.entry /\ (box.on_entry # None => box.on_entry <= v.entry)
      BY <2>1, <2>3 DEF Remembered
    <3>3. c.tank # None
      BY <1>3, FuelConstants DEF Levels, None
    <3> QED BY <3>1, <3>2, <3>3
  <2> QED BY <1>2, <2>1, <2>2, <2>3
<1> QED BY <1>6, <1>7, <1>8 DEF EntryKept

LEMMA SecondLoad ==
    ASSUME FuelInv, NEW c, NEW m, NEW v, OneSecond(c, m, v), Remembered(c, m, v), c.place # "track"
    PROVE  /\ LoadKept'
           /\ visit'.told /\ visit'.done /\ ~ visit'.reticked /\ Watching => box'.pit_lane = "Served"
<1>1. WritesDown(m, v)
  BY SecondWritesDown DEF OneSecond
<1>2. /\ visit'.done = v.done
      /\ visit'.told = (v.told \/ (Watching /\ ((~ v.done /\ snap'.armed) \/ Full(v))))
      /\ visit'.reticked = (v.reticked \/ (v.done /\ ~ auto /\ sim'.armed))
  BY <1>1 DEF WritesDown
<1>3. /\ box.on_entry \in Levels \cup {None} /\ c.tank \in Levels /\ v.entry \in Levels /\ m \in SimType
      /\ auto \in BOOLEAN /\ seat \in BOOLEAN
  BY DEF FuelInv, FuelTypes, BoxType, CarType, VisitType, OneSecond
<1>4. \/ snap'.age = 0 /\ snap'.tank = c.tank /\ snap'.armed = m.armed /\ snap'.road /\ sim' = Delivered(m, Current)
      \/ ~ (snap'.age = 0) /\ snap'.road = snap.road /\ sim' = m
  <2>1. snap'.age > 0 => ~ (snap'.age = 0)
    OBVIOUS
  <2> QED BY <2>1, RowOrNone
<1>5. Stays(box, box', snap')
  BY SecondStays
<1>6. Watching => /\ snap'.tank = c.tank /\ snap'.armed = m.armed
                  /\ box'.armed_in_lane = (box.armed_in_lane \/ m.armed)
                  /\ (box.on_entry # None /\ c.tank > box.on_entry + Gain) \/ (box.armed_in_lane /\ ~ m.armed)
                        => box'.pit_lane = "Served"
  BY <1>4, SecondLane DEF Watching
<1>7. Watching /\ Full(v) => box'.pit_lane = "Served"
  <2>1. SUFFICES ASSUME Watching, Full(v) PROVE box'.pit_lane = "Served"
    OBVIOUS
  <2>2. c.tank > v.entry + Gain /\ box.on_entry # None /\ box.on_entry <= v.entry
    BY <1>6, <2>1 DEF Full, Remembered
  <2>3. c.tank > box.on_entry + Gain
    BY <1>3, <2>2, FuelConstants DEF Levels
  <2> QED BY <1>6, <2>1, <2>2, <2>3
<1>8. v.told => /\ box.armed_in_lane \/ box.pit_lane = "Served"
                /\ box.armed_in_lane => box'.armed_in_lane
                /\ box.pit_lane = "Served" => box'.pit_lane = "Served"
  <2>1. v.told => snap'.road
    BY <1>4 DEF Remembered
  <2> QED BY <1>5, <2>1 DEF Remembered, Stays
<1>9. visit'.told => box'.armed_in_lane \/ box'.pit_lane = "Served"
  BY <1>2, <1>6, <1>7, <1>8
<1>10. visit'.told /\ visit'.done /\ ~ visit'.reticked =>
          /\ Watching => box'.pit_lane = "Served"
          /\ box'.pit_lane = "Served" \/ ~ sim'.armed
  <2>1. SUFFICES ASSUME visit'.told, v.done, ~ visit'.reticked
                 PROVE  /\ Watching => box'.pit_lane = "Served"
                        /\ box'.pit_lane = "Served" \/ ~ sim'.armed
    BY <1>2
  <2>2. ~ v.reticked /\ (auto \/ ~ sim'.armed)
    BY <1>2, <1>3, <2>1
  <2>3. CASE v.told
    <3>1. box.pit_lane = "Served" \/ ~ m.armed
      BY <2>1, <2>2, <2>3 DEF Remembered
    <3>2. CASE box.pit_lane = "Served"
      BY <1>8, <2>3, <3>2
    <3>3. CASE ~ m.armed
      <4>1. Watching => box'.pit_lane = "Served"
        BY <1>6, <1>8, <2>3, <3>3
      <4>2. ~ seat => Delivered(m, Current) = m
        BY DEF Delivered
      <4>3. Watching \/ ~ auto \/ ~ seat \/ sim' = m
        BY <1>3, <1>4 DEF Watching
      <4>4. box'.pit_lane = "Served" \/ ~ sim'.armed
        BY <1>4, <2>2, <3>3, <4>1, <4>2, <4>3
      <4> QED BY <4>1, <4>4
    <3> QED BY <3>1, <3>2, <3>3
  <2>4. CASE ~ v.told
    BY <1>2, <1>7, <2>1, <2>4
  <2> QED BY <2>3, <2>4
<1> QED BY <1>9, <1>10 DEF LoadKept

LEMMA SecondMemory ==
    ASSUME FuelInv, Tracked, MemoryHolds, NEW c, NEW m, NEW v, OneSecond(c, m, v)
    PROVE  MemoryHolds'
<1>1. car' = c /\ c \in CarType /\ auto \in BOOLEAN /\ seat \in BOOLEAN
  BY SecondFrame DEF OneSecond, FuelInv, FuelTypes
<1>2. c.place # "track" => Remembered(c, m, v)
  BY MoveRemembers
<1>3. car'.place # "track" => EntryKept' /\ LoadKept'
  BY <1>1, <1>2, SecondEntry, SecondLoad
<1>4. NothingAfterService'
  <2> SUFFICES ASSUME visit'.done, visit'.told, ~ visit'.reticked, snap'.age = 0
               PROVE  pit_requests' = <<>>
    <3>1. pit_requests' = <<>> => DOMAIN pit_requests' = {}
      OBVIOUS
    <3> QED BY <3>1 DEF NothingAfterService
  <2>1. CASE c.place = "track" \/ ~ auto \/ ~ seat
    BY <2>1, SecondElsewhere
  <2>2. CASE c.place # "track" /\ auto /\ seat
    <3>1. Watching
      BY <2>2, SecondRow DEF Watching, OneSecond
    <3>2. box'.pit_lane = "Served"
      BY <1>2, <2>2, <3>1, SecondLoad
    <3> QED BY <2>2, <3>2, SecondLane
  <2> QED BY <1>1, <2>1, <2>2
<1> QED BY <1>3, <1>4 DEF MemoryHolds
(* The driver's own actions leave car, rig and memory alone; who swaps in  *)
(* after a stint driven by another begins a visit Auto Fuel has not seen.  *)
LEMMA PressKeepsVisit == VisitInv /\ PressFuel => VisitInv'
<1> SUFFICES ASSUME VisitInv, PressFuel PROVE VisitInv'
  OBVIOUS
<1>1. FuelInv'
  BY PressFuelInv DEF VisitInv
<1>2. /\ visit'.goal = visit.goal /\ visit'.met = visit.met /\ visit'.tracked = visit.tracked /\ visit'.entry = visit.entry
      /\ visit'.sighted = visit.sighted /\ visit'.told = visit.told /\ visit'.reticked = visit.reticked
      /\ visit'.worked = visit.worked /\ visit'.done = visit.done /\ visit'.result = visit.result
      /\ visit'.away = visit.away /\ visit'.blind = visit.blind
  BY DEF PressFuel, VisitInv, FuelInv, FuelTypes, VisitType
<1>3. car' = car /\ sim' = sim /\ seat' = seat /\ auto' = auto /\ snap' = snap /\ box' = box /\ watch' = watch
  BY DEF PressFuel
<1>4. NothingAfterService'
  <2> SUFFICES ASSUME visit'.done, visit'.told, ~ visit'.reticked, snap'.age = 0, NEW i \in DOMAIN pit_requests'
               PROVE  pit_requests'[i].own \/ pit_requests'[i].age > 0
    BY DEF NothingAfterService
  <2> DEFINE press == [what |-> IF snap.armed THEN "ClearFuel" ELSE "SetFuel", age |-> 0, own |-> TRUE,
                       litres |-> IF auto /\ box.display # None THEN box.display ELSE snap.amount]
  <2>1. pit_requests' = Append(pit_requests, press) /\ pit_requests \in Seq(RequestType) /\ press.own
    BY DEF PressFuel, VisitInv, FuelInv, FuelTypes
  <2> HIDE DEF press
  <2>2. \A j \in DOMAIN pit_requests : pit_requests[j].own \/ pit_requests[j].age > 0
    BY <1>2, <1>3 DEF VisitInv, MemoryHolds, NothingAfterService
  <2>3. (i \in DOMAIN pit_requests /\ pit_requests'[i] = pit_requests[i]) \/ pit_requests'[i] = press
    BY <2>1
  <2> QED BY <2>1, <2>2, <2>3
<1>5. Tracked' /\ Present' /\ EdgeHolds' /\ VerdictHolds'
  BY <1>2, <1>3 DEF VisitInv, Tracked, Present, EdgeHolds, VerdictHolds
<1>6. ServiceHolds' /\ MemoryHolds'
  BY <1>2, <1>3, <1>4 DEF VisitInv, ServiceHolds, MemoryHolds, EntryKept, LoadKept
<1> QED BY <1>1, <1>5, <1>6 DEF VisitInv

LEMMA GoingKeepsVisit == VisitInv /\ (ToggleAuto \/ SwapOut) => VisitInv'
<1> SUFFICES ASSUME VisitInv, ToggleAuto \/ SwapOut PROVE VisitInv'
  OBVIOUS
<1>1. FuelInv'
  BY ToggleAutoInv, SwapOutInv DEF VisitInv
<1>2. /\ visit'.met = visit.met /\ visit'.tracked = visit.tracked /\ visit'.worked = visit.worked /\ visit'.entry = visit.entry
      /\ visit'.sighted = visit.sighted /\ visit'.told = visit.told /\ visit'.reticked = visit.reticked
      /\ visit'.done = visit.done /\ visit'.result = visit.result /\ visit'.away /\ visit'.blind = visit.blind
  BY DEF ToggleAuto, SwapOut, VisitInv, FuelInv, FuelTypes, VisitType
<1>3. car' = car /\ sim' = sim /\ snap' = snap /\ box' = box /\ watch' = watch /\ pit_requests' = pit_requests
  BY DEF ToggleAuto, SwapOut
<1>4. Tracked' /\ Present' /\ EdgeHolds' /\ VerdictHolds'
  BY <1>2, <1>3 DEF VisitInv, Tracked, Present, EdgeHolds, VerdictHolds
<1>5. ServiceHolds' /\ MemoryHolds'
  BY <1>2, <1>3 DEF VisitInv, ServiceHolds, MemoryHolds, EntryKept, LoadKept, NothingAfterService
<1> QED BY <1>1, <1>4, <1>5 DEF VisitInv

LEMMA SwapInKeepsVisit == VisitInv /\ SwapIn => VisitInv'
<1> SUFFICES ASSUME VisitInv, SwapIn PROVE VisitInv'
  OBVIOUS
<1>1. FuelInv'
  BY SwapInInv DEF VisitInv
<1>2. ~ seat /\ box' = box /\ auto' = auto /\ seat' = TRUE /\ snap'.age = snap.age /\ snap'.armed = snap.armed
      /\ snap'.road = snap.road /\ snap'.tank = snap.tank
  BY DEF SwapIn, VisitInv, FuelInv, FuelTypes, SnapType
<1>3. (car' = car /\ sim' = sim /\ visit' = visit /\ pit_requests' = pit_requests /\ watch' = watch)
      \/ (pit_requests' = <<>> /\ \E c, m : visit' = Visit(None, FALSE, c, m))
  BY DEF SwapIn
<1>4. CASE car' = car /\ sim' = sim /\ visit' = visit /\ pit_requests' = pit_requests /\ watch' = watch
  <2>1. Tracked' /\ EdgeHolds' /\ VerdictHolds'
    BY <1>2, <1>4 DEF VisitInv, Tracked, EdgeHolds, VerdictHolds
  <2>2. visit.away
    BY <1>2 DEF VisitInv, Present
  <2>3. Present' /\ ServiceHolds' /\ MemoryHolds'
    BY <1>2, <1>4, <2>2 DEF VisitInv, Present, ServiceHolds, MemoryHolds, EntryKept, LoadKept, NothingAfterService
  <2> QED BY <1>1, <2>1, <2>3 DEF VisitInv
<1>5. CASE pit_requests' = <<>> /\ \E c, m : visit' = Visit(None, FALSE, c, m)
  <2>1. /\ visit'.met = FALSE /\ visit'.tracked = FALSE /\ visit'.done = FALSE /\ visit'.result = None
        /\ visit'.sighted = FALSE /\ visit'.told = FALSE
        /\ visit'.away = (~ (auto /\ seat))
    BY <1>5 DEF Visit
  <2>2. visit'.away
    BY <2>1, <1>2
  <2>3. Tracked' /\ EdgeHolds' /\ VerdictHolds' /\ Present'
    BY <2>1, <2>2 DEF Tracked, EdgeHolds, VerdictHolds, Present
  <2>4. ServiceHolds' /\ MemoryHolds'
    BY <2>1, <2>2 DEF ServiceHolds, MemoryHolds, EntryKept, LoadKept, NothingAfterService
  <2> QED BY <1>1, <2>3, <2>4 DEF VisitInv
<1> QED BY <1>3, <1>4, <1>5

LEMMA VisitInvInit == AutoFuelInit => VisitInv
<1> SUFFICES ASSUME AutoFuelInit PROVE VisitInv
  OBVIOUS
<1>1. FuelInv
  BY FuelInvInit
<1>2. car.place = "track" /\ seat = TRUE /\ auto \in BOOLEAN /\ visit = Visit(None, FALSE, car, sim)
  BY DEF AutoFuelInit
<1>3. /\ visit.met = FALSE /\ visit.tracked = FALSE /\ visit.done = FALSE /\ visit.away = (~ (auto /\ seat))
  BY <1>2 DEF Visit
<1>4. visit.away \/ (auto /\ seat)
  BY <1>2, <1>3
<1> QED BY <1>1, <1>2, <1>3, <1>4 DEF VisitInv, Tracked, Present, EdgeHolds, VerdictHolds, ServiceHolds, MemoryHolds, NothingAfterService

LEMMA VisitInvStep == VisitInv /\ [AutoFuelNext]_autoFuelVars => VisitInv'
<1> SUFFICES ASSUME VisitInv, [AutoFuelNext]_autoFuelVars PROVE VisitInv'
  OBVIOUS
<1>1. CASE UNCHANGED autoFuelVars
  <2>1. FuelInv'
    BY <1>1, FuelInvStep DEF VisitInv
  <2> QED BY <1>1, <2>1 DEF autoFuelVars, VisitInv, Tracked, Present, EdgeHolds, VerdictHolds, ServiceHolds, MemoryHolds, EntryKept, LoadKept, NothingAfterService
<1>2. ASSUME NEW c, NEW m, NEW v, OneSecond(c, m, v) PROVE VisitInv'
  <2>1. FuelInv /\ Tracked /\ Present /\ EdgeHolds /\ VerdictHolds /\ ServiceHolds /\ MemoryHolds
    BY DEF VisitInv
  <2>2. Tracked'
    BY <1>2, <2>1, SecondTracked DEF OneSecond
  <2>3. FuelInv'
    BY <1>2, <2>1, SecondTypesAfter
  <2>4. Present'
    BY <1>2, <2>1, SecondPresent
  <2>5. EdgeHolds'
    BY <1>2, <2>1, SecondEdge
  <2>6. VerdictHolds'
    BY <1>2, <2>1, SecondVerdict
  <2>7. ServiceHolds'
    BY <1>2, <2>1, SecondService
  <2>8. MemoryHolds'
    BY <1>2, <2>1, SecondMemory
  <2> QED BY <2>2, <2>3, <2>4, <2>5, <2>6, <2>7, <2>8 DEF VisitInv
<1>3. CASE AutoFuelNext
  <2>1. FuelInv
    BY DEF VisitInv
  <2> QED BY <1>2, <1>3, <2>1, SecondsOrNot, PressKeepsVisit, GoingKeepsVisit, SwapInKeepsVisit
<1> QED BY <1>1, <1>3

THEOREM VisitInvariant == AutoFuelSpec => []VisitInv
BY VisitInvInit, VisitInvStep, PTL DEF AutoFuelSpec

(* The far edge of the gauge is where the rig stops, all through the first *)
(* fill of a visit (EdgeIsWhereRigStops).                                  *)
THEOREM EdgeIsTrue == AutoFuelSpec => []EdgeIsWhereRigStops
<1>1. VisitInv => EdgeIsWhereRigStops
  <2> SUFFICES ASSUME VisitInv, sim.rig # None, visit.met, ~ visit.done, ~ visit.blind
               PROVE  Lesser(watch.target, Size) = sim.rig
    BY DEF EdgeIsWhereRigStops
  <2>1. car.place = "box"
    BY DEF VisitInv, FuelInv, Fitting
  <2> QED BY <2>1 DEF VisitInv, EdgeHolds
<1> QED BY <1>1, VisitInvariant, PTL

(* A stop is taken for served only because of what happened on this visit  *)
(* (VerdictIsOfThisVisit).                                                 *)
THEOREM VerdictIsTrue == AutoFuelSpec => []VerdictIsOfThisVisit
<1>1. VisitInv => VerdictIsOfThisVisit
  BY DEF VisitInv, VerdictHolds, VerdictIsOfThisVisit
<1> QED BY <1>1, VisitInvariant, PTL

(* Once the rig has been, Auto Fuel asks for nothing more on this visit,   *)
(* if a row told it of the load and the box was not ticked again while it  *)
(* was off; rows may be lost and it may be switched off and on meanwhile   *)
(* (NothingAfterService).                                                  *)
THEOREM NothingMoreIsAsked == AutoFuelSpec => []NothingAfterService
<1>1. VisitInv => NothingAfterService
  BY DEF VisitInv, MemoryHolds
<1> QED BY <1>1, VisitInvariant, PTL

-------------------------------------------------------------------------------
(* Auto Fuel: the level a stop leaves.                                     *)

(* The times of the code, AUTO_FUEL_MIN_INTERVAL of two seconds and        *)
(* requests that live for several, and a car that burns less than half a   *)
(* litre in a second of the pit lane.                                      *)
CodeTimes == Interval <= 2 /\ Patience >= 2 /\ Litre >= 2

Goal == Lesser(visit.goal, Size)
Needs(tank) == FuelToAdd(visit.goal, tank)
Undisturbed ==
    /\ visit.met /\ visit.goal # None /\ ~ visit.pressed /\ ~ visit.away /\ ~ visit.blind
    /\ visit.ticked => Goal > visit.entry
Order(tank) == <<[what |-> "SetFuel", litres |-> Needs(tank), age |-> 0, own |-> FALSE]>>

(* Up to the fill: a load is asked for in the second it is seen missing,   *)
(* set in the next, and a second or two behind what the car still burns.   *)
Entering == car.place = "lane" /\ car.secs = 0
BeforeFill ==
    /\ box.latched = visit.goal /\ box.pit_lane = "Pending" /\ box.on_entry = visit.entry /\ car.tank <= visit.entry
    /\ box.armed_in_lane => sim.armed
    /\ sim.armed => car.tank < Goal
    /\ pit_requests = <<>> \/ (pit_requests = Order(car.tank) /\ Needs(car.tank) > 0)
    /\ pit_requests = <<>> => box.wait <= 1
    /\ ~ sim.armed /\ pit_requests = <<>> => car.tank >= Goal
    /\ ~ sim.armed /\ pit_requests # <<>> => Entering \/ (car.tank = Goal - 1 /\ car.lately[1] = 1)
    /\ sim.armed /\ pit_requests = <<>> => sim.amount \in {Needs(car.tank), Needs(car.tank + car.lately[1])}
    /\ sim.armed /\ pit_requests # <<>> =>
         Entering \/ sim.amount \in {Needs(car.tank), Needs(car.tank + car.lately[1]),
                                     Needs(car.tank + car.lately[1] + car.lately[2])}
    /\ car.place = "box" /\ sim.armed => /\ car.tank + sim.amount * Litre + visit.late >= Goal
                                         /\ car.tank + sim.amount * Litre < Goal + Litre
    /\ car.place = "box" => car.secs >= 3

TankHolds ==
    Undisturbed =>
        /\ car.place = "lane" => ~ visit.done
        /\ car.place # "track" /\ ~ visit.done /\ sim.rig = None => BeforeFill
        /\ car.place # "track" /\ ~ visit.done /\ sim.rig # None =>
              sim.rig + visit.late >= Goal /\ sim.rig < visit.goal + Litre
        /\ visit.result # None => /\ visit.result + visit.late >= Goal
                                  /\ visit.done => visit.result < visit.goal + Litre

(* A litre rounded up: what is missing, and less than a litre too much.    *)
LEMMA LoadCovers ==
    ASSUME NEW goal \in Nat, NEW tank \in Levels
    PROVE  /\ FuelToAdd(goal, tank) \in Nat
           /\ tank >= Lesser(goal, Size) <=> FuelToAdd(goal, tank) = 0
           /\ tank < Lesser(goal, Size) => /\ tank + FuelToAdd(goal, tank) * Litre >= Lesser(goal, Size)
                                           /\ tank + FuelToAdd(goal, tank) * Litre < Lesser(goal, Size) + Litre
           /\ tank = Lesser(goal, Size) - 1 => FuelToAdd(goal, tank) = 1
<1> DEFINE x == Lesser(NotNegative(goal - tank), NotNegative(Size - tank))
           n == Litres(x)
<1>1. /\ x \in Nat /\ (tank >= Lesser(goal, Size) <=> x = 0)
      /\ tank < Lesser(goal, Size) => x = Lesser(goal, Size) - tank
      /\ Lesser(goal, Size) \in Nat /\ tank \in Nat
  BY FuelConstants DEF Lesser, NotNegative, Levels
<1> HIDE DEF x
<1>2. n \in Nat /\ n * Litre >= x /\ n * Litre < x + Litre /\ (x = 0 <=> n = 0)
  BY <1>1, LitresCover
<1>3. FuelToAdd(goal, tank) = n
  BY DEF FuelToAdd, x
<1>4. n * Litre \in Nat /\ Litre \in Nat \ {0}
  BY <1>2, FuelConstants
<1>5. x = 1 => n = 1
  <2>1. SUFFICES ASSUME x = 1, n >= 2 PROVE FALSE
    BY <1>2
  <2>2. n * Litre >= 2 * Litre
    BY <2>1, <1>2, <1>4
  <2> QED BY <2>1, <2>2, <1>2, <1>4
<1> HIDE DEF n
<1>6. tank = Lesser(goal, Size) - 1 => x = 1
  BY <1>1
<1> QED BY <1>1, <1>2, <1>3, <1>4, <1>5, <1>6

LEMMA LaneNotServed ==
    \A b \in BoxType, s \in SnapType :
        s.road /\ ~ RigHasBeen(b, s) => /\ TrackPitLane(b, s).pit_lane = b.pit_lane
                                       /\ TrackPitLane(b, s).latched = b.latched /\ TrackPitLane(b, s).wait = b.wait
<1> SUFFICES ASSUME NEW b \in BoxType, NEW s \in SnapType, s.road, ~ RigHasBeen(b, s)
             PROVE  /\ TrackPitLane(b, s).pit_lane = b.pit_lane
                    /\ TrackPitLane(b, s).latched = b.latched /\ TrackPitLane(b, s).wait = b.wait
  OBVIOUS
<1> DEFINE t == TrackPitLane(b, s)
<1>1. /\ t.pit_lane = (IF RigHasBeen(b, s) THEN "Served" ELSE b.pit_lane)
      /\ t.latched = (IF RigHasBeen(b, s) THEN None ELSE b.latched) /\ t.wait = b.wait
  BY PitLane
<1> QED BY <1>1

(* What Auto Fuel asks for in a second of the lane before the fill.        *)
LEMMA SecondAsks ==
    ASSUME FuelInv, NEW c, NEW m, NEW v, OneSecond(c, m, v), auto, seat, snap'.age = 0, c.place # "track",
           box.pit_lane = "Pending", box.latched # None,
           ~ (box.on_entry # None /\ c.tank > box.on_entry + Gain), ~ (box.armed_in_lane /\ ~ m.armed),
           NEW w, w = FuelToAdd(box.latched, c.tank)
    PROVE  /\ box'.latched = box.latched /\ box'.pit_lane = "Pending"
           /\ \/ /\ pit_requests' = <<>> /\ box'.wait = NotNegative(box.wait - 1)
                 /\ \/ NotNegative(box.wait - 1) > 0
                    \/ w = 0 /\ ~ m.armed
                    \/ m.armed /\ w = m.amount
              \/ /\ NotNegative(box.wait - 1) = 0 /\ ~ (w = 0 /\ ~ m.armed) /\ ~ (m.armed /\ w = m.amount)
                 /\ \/ w # 0 /\ pit_requests' = <<[what |-> "SetFuel", litres |-> w, age |-> 0, own |-> FALSE]>>
                    \/ w = 0 /\ m.armed
<1> DEFINE b == Rested(box)
<1>1. /\ snap' \in SnapType /\ b \in BoxType /\ box \in BoxType /\ snap'.age < Stale /\ c.tank \in Levels /\ m.armed \in BOOLEAN /\ m.amount \in Nat \ {0}
      /\ b.pit_lane = box.pit_lane /\ b.armed_in_lane = box.armed_in_lane /\ b.on_entry = box.on_entry
      /\ b.latched = box.latched /\ b.wait = NotNegative(box.wait - 1)
  BY SecondTypesAfter, RestedBox DEF OneSecond, CarType, SimType
<1>2. /\ snap'.tank = c.tank /\ snap'.armed = m.armed /\ snap'.amount = m.amount /\ snap'.road /\ snap'.in_car
      /\ box' = AutoFuelRequest(b, snap').box
      /\ pit_requests' = IF AutoFuelRequest(b, snap').request = "none" THEN <<>>
                     ELSE <<[what |-> AutoFuelRequest(b, snap').request,
                             litres |-> AutoFuelRequest(b, snap').box.display, age |-> 0, own |-> FALSE]>>
  BY SecondRow, SecondFrame DEF OneSecond
<1>5. w \in Nat
  BY <1>1, FuelToAddType DEF BoxType, NatOrNone
<1> HIDE DEF b
<1>3. ASSUME NEW s \in SnapType, s.age < Stale, s.in_car, s.road, s.tank = c.tank, s.armed = m.armed, s.amount = m.amount
      PROVE  LET r == AutoFuelRequest(b, s)
             IN /\ r.box.latched = b.latched /\ r.box.pit_lane = "Pending"
                /\ \/ /\ r.request = "none" /\ r.box.wait = b.wait
                      /\ \/ b.wait > 0
                         \/ w <= 0 /\ ~ m.armed
                         \/ m.armed /\ w = m.amount
                   \/ /\ ~ (b.wait > 0) /\ r.request # "none" /\ r.box.display = w
                      /\ ~ (w <= 0 /\ ~ m.armed) /\ ~ (w > 0 /\ m.armed /\ w = m.amount)
                      /\ ((w > 0 /\ r.request = "SetFuel") \/ (w <= 0 /\ m.armed))
  <2> DEFINE t == TrackPitLane(b, s)
             r == AutoFuelRequest(b, s)
             kind == FuelRequestFor(w, s)
             shown == [t EXCEPT !.display = w]
             sent == [shown EXCEPT !.wait = Interval]
  <2>1. ~ RigHasBeen(b, s)
    BY <1>1, <1>3 DEF RigHasBeen
  <2>2. t \in BoxType /\ t.pit_lane = "Pending" /\ t.latched = b.latched /\ t.wait = b.wait
    <3>1. t \in BoxType
      BY <1>1, TrackPitLaneType
    <3> QED BY <1>1, <1>3, <2>1, <3>1, LaneNotServed
  <2>3. Target(t, s) = box.latched
    BY <2>2, <1>1 DEF Target
  <2>4. r = Armed(t, s)
    <3>1. ~ (s.age >= Stale)
      BY <1>3, FuelConstants DEF SnapType
    <3> QED BY <1>3, <2>2, <2>3, <3>1 DEF AutoFuelRequest
  <2>5. w = FuelToAdd(Target(t, s), s.tank)
    BY <2>3, <1>3
  <2>6. r = IF kind = "none" \/ t.wait > 0 THEN AskFor("none", shown) ELSE AskFor(kind, sent)
    BY <2>4, <2>5 DEF Armed
  <2>7. kind = IF w <= 0 THEN (IF s.armed THEN "ClearFuel" ELSE "none") ELSE IF s.armed /\ w = s.amount THEN "none" ELSE "SetFuel"
    BY DEF FuelRequestFor
  <2>8. /\ shown.latched = t.latched /\ sent.latched = t.latched /\ shown.pit_lane = t.pit_lane /\ sent.pit_lane = t.pit_lane
        /\ shown.wait = t.wait /\ sent.display = w
    BY <2>2 DEF BoxType
  <2> HIDE DEF t, r, kind, shown, sent
  <2>9. r.box \in {shown, sent} /\ r.box.latched = b.latched /\ r.box.pit_lane = "Pending"
    BY <2>6, <2>8, <2>2 DEF AskFor
  <2>10. CASE kind = "none" \/ t.wait > 0
    <3>1. r.request = "none" /\ r.box.wait = b.wait
      BY <2>10, <2>6, <2>8, <2>2 DEF AskFor
    <3>2. b.wait > 0 \/ (w <= 0 /\ ~ m.armed) \/ (m.armed /\ w = m.amount)
      BY <2>10, <2>7, <2>2, <1>3
    <3> QED BY <3>1, <3>2, <2>9 DEF r
  <2>11. CASE ~ (kind = "none" \/ t.wait > 0)
    <3>1. r.request = kind /\ r.box = sent
      BY <2>11, <2>6 DEF AskFor
    <3>2. ~ (b.wait > 0) /\ r.request # "none" /\ r.box.display = w
      BY <3>1, <2>11, <2>8, <2>2
    <3>3. /\ ~ (w <= 0 /\ ~ m.armed) /\ ~ (w > 0 /\ m.armed /\ w = m.amount)
          /\ ((w > 0 /\ r.request = "SetFuel") \/ (w <= 0 /\ m.armed))
      <4>1. kind # "none"
        BY <2>11
      <4>2. CASE w <= 0
        BY <4>1, <4>2, <2>7, <1>3, <1>5
      <4>3. CASE w > 0
        BY <4>1, <4>3, <2>7, <1>3, <1>5, <3>1
      <4> QED BY <4>2, <4>3, <1>5
    <3> QED BY <3>2, <3>3, <2>9 DEF r
  <2> QED BY <2>10, <2>11
<1> DEFINE q == AutoFuelRequest(b, snap')
<1>4. /\ q.box.latched = b.latched /\ q.box.pit_lane = "Pending"
      /\ \/ /\ q.request = "none" /\ q.box.wait = b.wait
            /\ \/ b.wait > 0
               \/ w <= 0 /\ ~ m.armed
               \/ m.armed /\ w = m.amount
         \/ /\ ~ (b.wait > 0) /\ q.request # "none" /\ q.box.display = w
            /\ ~ (w <= 0 /\ ~ m.armed) /\ ~ (w > 0 /\ m.armed /\ w = m.amount)
            /\ ((w > 0 /\ q.request = "SetFuel") \/ (w <= 0 /\ m.armed))
  BY <1>1, <1>2, <1>3
<1>6. NotNegative(box.wait - 1) \in Nat
  BY <1>1 DEF NotNegative, BoxType
<1>7. box' = q.box /\ pit_requests' = IF q.request = "none" THEN <<>> ELSE <<[what |-> q.request, litres |-> q.box.display, age |-> 0, own |-> FALSE]>>
  BY <1>2
<1> HIDE DEF q
<1>8. CASE q.request = "none"
  BY <1>8, <1>4, <1>5, <1>6, <1>7, <1>1
<1>9. CASE q.request # "none"
  <2>1. ~ (b.wait > 0) /\ q.box.display = w
        /\ ~ (w <= 0 /\ ~ m.armed) /\ ~ (w > 0 /\ m.armed /\ w = m.amount)
        /\ ((w > 0 /\ q.request = "SetFuel") \/ (w <= 0 /\ m.armed))
    BY <1>9, <1>4
  <2>2. NotNegative(box.wait - 1) = 0
    BY <2>1, <1>1, <1>6
  <2>3. ~ (w = 0 /\ ~ m.armed)
    BY <2>1, <1>5
  <2>4. ~ (m.armed /\ w = m.amount)
    BY <2>1, <1>1, <1>5
  <2>5. (w # 0 /\ pit_requests' = <<[what |-> "SetFuel", litres |-> w, age |-> 0, own |-> FALSE]>>) \/ (w = 0 /\ m.armed)
    <3>1. pit_requests' = <<[what |-> q.request, litres |-> w, age |-> 0, own |-> FALSE]>>
      BY <1>9, <1>7, <2>1
    <3>2. (w > 0 /\ q.request = "SetFuel") \/ (w <= 0 /\ m.armed)
      BY <2>1
    <3>3. CASE w > 0 /\ q.request = "SetFuel"
      <4>1. w # 0
        BY <3>3, <1>5
      <4> QED BY <4>1, <3>1, <3>3
    <3>4. CASE w <= 0 /\ m.armed
      BY <3>4, <1>5
    <3> QED BY <3>2, <3>3, <3>4
  <2>6. box'.latched = box.latched /\ box'.pit_lane = "Pending"
    BY <1>4, <1>7, <1>1
  <2> QED BY <2>2, <2>3, <2>4, <2>5, <2>6
<1> QED BY <1>8, <1>9

(* What the sim makes of Auto Fuel's order, or of none. *)
LEMMA NoOrder == ASSUME NEW m \in SimType, pit_requests = <<>> PROVE Delivered(m, Current) = m
<1>1. Current = {}
  BY DEF Current, Waiting
<1>2. BoxTicked(m, {}) = m.armed
  BY DEF BoxTicked
<1>3. Amount(m, {}) = m.amount
  BY DEF Amount
<1>4. [m EXCEPT !.armed = m.armed, !.amount = m.amount] = m
  BY DEF SimType
<1> QED BY <1>1, <1>2, <1>3, <1>4 DEF Delivered

LEMMA OneOrder ==
    ASSUME NEW m \in SimType, m.rig = None, seat, Patience >= 2, NEW w \in Nat \ {0},
           pit_requests = <<[what |-> "SetFuel", litres |-> w, age |-> 0, own |-> FALSE]>>
    PROVE  Delivered(m, Current).armed /\ Delivered(m, Current).amount = w /\ Delivered(m, Current).rig = None
<1>1. DOMAIN pit_requests = {1} /\ pit_requests[1].what = "SetFuel" /\ pit_requests[1].litres = w /\ pit_requests[1].age = 0
  OBVIOUS
<1>2. Current = {1}
  <2>1. Waiting[1].age = 1 /\ 1 < Patience
    BY <1>1, FuelConstants DEF Waiting
  <2> QED BY <1>1, <2>1 DEF Current
<1>3. Max({1}) = 1
  <2>1. {1} \in SUBSET (1..1)
    OBVIOUS
  <2> QED BY <2>1, LastOne
<1>4. BoxTicked(m, {1}) = TRUE
  BY <1>1, <1>3 DEF BoxTicked
<1>5. Amount(m, {1}) = w
  <2>1. {i \in {1} : pit_requests[i].what = "SetFuel" /\ pit_requests[i].litres # 0} = {1}
    BY <1>1
  <2> QED BY <2>1, <1>1, <1>3 DEF Amount
<1> QED BY <1>2, <1>4, <1>5 DEF Delivered, SimType

(* A second whose row arrives, in which nothing disturbs the visit.        *)
LEMMA SecondUndisturbed ==
    ASSUME FuelInv, Present, NEW c, NEW m, NEW v, OneSecond(c, m, v), Undisturbed'
    PROVE  /\ auto /\ seat /\ snap'.age = 0 /\ car' = c /\ sim' = Delivered(m, Current) /\ sim'.rig = m.rig
           /\ v.met /\ v.goal # None /\ ~ v.pressed /\ ~ v.away /\ ~ v.blind /\ (v.ticked => Lesser(v.goal, Size) > v.entry)
           /\ v.goal \in Nat /\ Lesser(v.goal, Size) \in Nat
           /\ visit'.goal = v.goal /\ visit'.entry = v.entry /\ visit'.done = v.done /\ visit'.result = v.result /\ visit'.late = v.late
           /\ m \in SimType /\ c \in CarType /\ c.tank \in Levels /\ v \in VisitType
<1>1. /\ visit'.goal = v.goal /\ visit'.entry = v.entry /\ visit'.done = v.done /\ visit'.result = v.result /\ visit'.late = v.late
      /\ visit'.met = v.met /\ visit'.ticked = v.ticked /\ visit'.pressed = v.pressed /\ visit'.away = v.away
  BY SecondFrame DEF OneSecond
<1>2. ~ visit'.blind
  BY DEF Undisturbed
<1>3. /\ v.met /\ v.goal # None /\ ~ v.pressed /\ ~ v.away /\ (v.ticked => Lesser(v.goal, Size) > v.entry)
  BY <1>1 DEF Undisturbed, Goal
<1>4. /\ snap'.age = 0 /\ car' = c /\ ~ v.blind /\ sim'.rig = m.rig
      /\ m \in SimType /\ c \in CarType /\ c.tank \in Levels /\ v \in VisitType
  BY <1>2, SecondSeen
<1>5. sim' = Delivered(m, Current)
  BY <1>4, SecondRow DEF OneSecond
<1>6. auto /\ seat
  BY <1>3, SecondPresent
<1>7. v.goal \in Nat /\ Lesser(v.goal, Size) \in Nat
  BY <1>3, <1>4, FuelConstants DEF VisitType, NatOrNone, Lesser
<1> QED BY <1>1, <1>3, <1>4, <1>5, <1>6, <1>7

(* A second that passes before the fill: the order of the last is set, the *)
(* load still missing is ordered again.                                    *)
LEMMA SecondBeforeFill ==
    ASSUME FuelInv, CodeTimes, NEW c, NEW m, NEW v, OneSecond(c, m, v), auto, seat, snap'.age = 0, sim' = Delivered(m, Current),
           c.place # "track", m = sim, sim.rig = None, visit.goal \in Nat, visit.entry # None, BeforeFill,
           NEW b \in {0, 1}, c.tank = car.tank - b, c.lately[1] = b, c.lately[2] = car.lately[1]
    PROVE  /\ box'.latched = visit.goal /\ box'.pit_lane = "Pending" /\ box'.on_entry = visit.entry /\ c.tank <= visit.entry
           /\ box'.armed_in_lane => sim'.armed
           /\ sim'.armed => c.tank < Goal
           /\ pit_requests' = <<>> \/ (pit_requests' = Order(c.tank) /\ Needs(c.tank) > 0)
           /\ pit_requests' = <<>> => box'.wait <= 1
           /\ ~ sim'.armed /\ pit_requests' = <<>> => c.tank >= Goal
           /\ ~ sim'.armed /\ pit_requests' # <<>> => c.tank = Goal - 1 /\ b = 1
           /\ sim'.armed /\ pit_requests' = <<>> => sim'.amount \in {Needs(c.tank), Needs(c.tank + b)}
           /\ sim'.armed /\ pit_requests' # <<>> => sim'.amount \in {Needs(c.tank), Needs(c.tank + b), Needs(c.tank + b + car.lately[1])}
           /\ pit_requests # <<>> => sim'.armed /\ sim'.amount = Needs(car.tank)
           /\ pit_requests = <<>> => sim' = sim
<1>1. /\ box \in BoxType /\ sim \in SimType /\ c.tank \in Levels /\ car.tank \in Levels /\ c.tank \in Nat /\ car.tank \in Nat
      /\ car.lately[1] \in Nat /\ Goal \in Nat /\ m.armed = sim.armed /\ m.amount = sim.amount /\ sim.armed \in BOOLEAN
      /\ visit.entry \in Nat
  BY FuelConstants DEF FuelInv, FuelTypes, CarType, SimType, VisitType, Levels, Goal, Lesser, OneSecond
<1>2. \A t \in Levels : /\ Needs(t) \in Nat /\ (t >= Goal <=> Needs(t) = 0)
                        /\ t = Goal - 1 => Needs(t) = 1
  BY <1>1, LoadCovers DEF Needs, Goal
<1>3. /\ box.latched = visit.goal /\ box.pit_lane = "Pending" /\ box.on_entry = visit.entry /\ car.tank <= visit.entry
      /\ box.armed_in_lane => sim.armed
  BY DEF BeforeFill
<1>4. c.tank <= visit.entry /\ ~ (box.on_entry # None /\ c.tank > box.on_entry + Gain) /\ ~ (box.armed_in_lane /\ ~ m.armed)
  BY <1>1, <1>3, FuelConstants
<1>5. /\ box'.on_entry = visit.entry /\ box'.armed_in_lane = (box.armed_in_lane \/ sim.armed)
  BY <1>1, <1>3, SecondLane
<1> DEFINE w == Needs(c.tank)
           rest == NotNegative(box.wait - 1)
<1>6. w = FuelToAdd(box.latched, c.tank)
  BY <1>3 DEF Needs
<1>7. box.latched # None /\ c.place # "track"
  BY <1>3 DEF None
<1>8. /\ box'.latched = visit.goal /\ box'.pit_lane = "Pending"
      /\ \/ /\ pit_requests' = <<>> /\ box'.wait = rest
            /\ \/ rest > 0
               \/ w = 0 /\ ~ sim.armed
               \/ sim.armed /\ w = sim.amount
         \/ /\ rest = 0 /\ ~ (w = 0 /\ ~ sim.armed) /\ ~ (sim.armed /\ w = sim.amount)
            /\ \/ w # 0 /\ pit_requests' = Order(c.tank)
               \/ w = 0 /\ sim.armed
  BY <1>1, <1>3, <1>4, <1>6, <1>7, SecondAsks DEF Order
<1>9. w \in Nat /\ (c.tank >= Goal <=> w = 0) /\ rest \in Nat /\ rest <= 1
  BY <1>1, <1>2, FuelConstants DEF BoxType, NotNegative, CodeTimes
<1>10. Order(c.tank) # <<>>
  BY DEF Order
<1>11. CASE pit_requests = <<>>
  <2>1. sim' = sim
    BY <1>1, <1>11, NoOrder
  <2>2. rest = 0
    <3>1. box.wait <= 1
      BY <1>11 DEF BeforeFill
    <3> QED BY <3>1, <1>1, FuelConstants DEF BoxType, NotNegative
  <2>3. CASE sim.armed
    <3>1. car.tank < Goal /\ sim.amount \in {Needs(car.tank), Needs(car.tank + car.lately[1])}
      BY <2>3, <1>11 DEF BeforeFill
    <3>2. c.tank < Goal /\ w # 0 /\ car.tank = c.tank + b /\ car.tank + car.lately[1] = c.tank + b + car.lately[1]
      BY <3>1, <1>1, <1>9
    <3>3. sim.amount \in {Needs(c.tank + b), Needs(c.tank + b + car.lately[1])}
      BY <3>1, <3>2
    <3>4. \/ pit_requests' = <<>> /\ box'.wait = rest /\ w = sim.amount
          \/ pit_requests' = Order(c.tank)
      BY <1>8, <1>9, <2>2, <2>3, <3>2
    <3> HIDE DEF rest
    <3> QED BY <1>4, <1>5, <1>8, <1>9, <1>10, <1>11, <2>1, <2>2, <2>3, <3>2, <3>3, <3>4
  <2>4. CASE ~ sim.armed
    <3>1. car.tank >= Goal
      BY <2>4, <1>11 DEF BeforeFill
    <3>2. \/ pit_requests' = <<>> /\ box'.wait = rest /\ w = 0
          \/ pit_requests' = Order(c.tank) /\ w # 0
      BY <1>8, <1>9, <2>2, <2>4
    <3>3. w # 0 => c.tank = Goal - 1 /\ b = 1
      BY <3>1, <1>1, <1>9
    <3>4. box'.armed_in_lane = FALSE
      BY <1>5, <1>3, <2>4
    <3> HIDE DEF rest, w
    <3>5. pit_requests' = <<>> => c.tank >= Goal /\ box'.wait <= 1
      BY <3>2, <1>9, <1>10
    <3>6. pit_requests' # <<>> => c.tank = Goal - 1 /\ b = 1
      BY <3>2, <3>3
    <3>7. pit_requests' = <<>> \/ (pit_requests' = Order(c.tank) /\ Needs(c.tank) > 0)
      BY <3>2, <1>9 DEF w
    <3> QED BY <1>4, <1>5, <1>8, <1>11, <2>1, <2>4, <3>4, <3>5, <3>6, <3>7
  <2> QED BY <2>3, <2>4
<1>12. CASE pit_requests # <<>>
  <2>1. pit_requests = Order(car.tank) /\ Needs(car.tank) \in Nat \ {0}
    BY <1>12, <1>1, <1>2 DEF BeforeFill
  <2>2. sim'.armed /\ sim'.amount = Needs(car.tank)
    BY <2>1, <1>1, OneOrder DEF Order, CodeTimes
  <2>3. car.tank < Goal /\ c.tank < Goal /\ w # 0 /\ car.tank = c.tank + b
    BY <2>1, <1>1, <1>2, <1>9
  <2>4. \/ pit_requests' = <<>> /\ box'.wait = rest
        \/ pit_requests' = Order(c.tank)
    BY <1>8, <1>9, <2>3
  <2>5. sim'.amount = Needs(c.tank + b)
    BY <2>2, <2>3
  <2> HIDE DEF rest
  <2> QED BY <1>4, <1>5, <1>8, <1>9, <1>10, <1>12, <2>2, <2>3, <2>4, <2>5
<1> QED BY <1>11, <1>12

(* The first second of the lane, with the target known and nothing asked.  *)
LEMMA EnterBeforeFill ==
    ASSUME FuelInv, Tracked, Present, CodeTimes, NEW c, NEW m, NEW v, OneSecond(c, m, v), ByEnterLane(c, m, v), Undisturbed'
    PROVE  c.place = "lane" /\ ~ v.done /\ v.result = None /\ sim'.rig = None /\ BeforeFill'
<1>1. /\ auto /\ seat /\ snap'.age = 0 /\ car' = c /\ sim' = Delivered(m, Current) /\ sim'.rig = m.rig
      /\ v.met /\ v.goal # None /\ ~ v.pressed /\ (v.ticked => Lesser(v.goal, Size) > v.entry)
      /\ v.goal \in Nat /\ Lesser(v.goal, Size) \in Nat
      /\ visit'.goal = v.goal /\ visit'.entry = v.entry
      /\ m \in SimType /\ c.tank \in Levels
  BY SecondUndisturbed
<1>2. /\ c.place = "lane" /\ c.secs = 0 /\ sim.rig = None /\ m = sim /\ v = Visit(box.latched, visit.tracked, c, sim)
  BY DEF ByEnterLane
<1>3. /\ v.goal = box.latched /\ v.met = visit.tracked /\ v.entry = c.tank /\ v.ticked = sim.armed /\ v.done = FALSE
      /\ v.result = None /\ v.pressed = (pit_requests # <<>>)
  BY <1>2 DEF Visit
<1>4. box.pit_lane = "Pending" /\ ~ box.armed_in_lane /\ box.on_entry = None /\ box.wait <= 1
  <2>1. box.wait < Interval /\ box \in BoxType
    BY <1>1, <1>3 DEF Tracked, FuelInv, FuelTypes
  <2>2. box.wait <= 1
    BY <2>1, FuelConstants DEF BoxType, CodeTimes
  <2> QED BY <2>2, <1>1, <1>3 DEF Tracked
<1>5. sim' = sim
  <2>1. pit_requests = <<>>
    BY <1>1, <1>3
  <2> QED BY <2>1, <1>1, <1>2, NoOrder
<1> DEFINE w == FuelToAdd(v.goal, c.tank)
           rest == NotNegative(box.wait - 1)
<1>6. rest = 0
  BY <1>4 DEF NotNegative, FuelInv, FuelTypes, BoxType
<1>7. w \in Nat /\ (c.tank >= Lesser(v.goal, Size) <=> w = 0) /\ (sim.armed => c.tank < Lesser(v.goal, Size))
  <2>1. c.tank \in Nat
    BY <1>1, FuelConstants DEF Levels
  <2>2. w \in Nat /\ (c.tank >= Lesser(v.goal, Size) <=> w = 0)
    BY <1>1, LoadCovers
  <2>3. sim.armed => Lesser(v.goal, Size) > c.tank
    BY <1>1, <1>3
  <2> QED BY <2>1, <2>2, <2>3, <1>1
<1>8. /\ box'.on_entry = c.tank /\ box'.armed_in_lane = sim.armed
  <2>1. c.place # "track" /\ m.armed = sim.armed /\ sim.armed \in BOOLEAN
    BY <1>1, <1>2 DEF SimType
  <2> QED BY <2>1, <1>1, <1>4, SecondLane
<1>9. /\ box'.latched = v.goal /\ box'.pit_lane = "Pending"
      /\ \/ /\ pit_requests' = <<>> /\ box'.wait = rest
            /\ \/ rest > 0
               \/ w = 0 /\ ~ sim.armed
               \/ sim.armed /\ w = sim.amount
         \/ /\ rest = 0 /\ ~ (w = 0 /\ ~ sim.armed) /\ ~ (sim.armed /\ w = sim.amount)
            /\ \/ w # 0 /\ pit_requests' = <<[what |-> "SetFuel", litres |-> w, age |-> 0, own |-> FALSE]>>
               \/ w = 0 /\ sim.armed
  <2>1. c.place # "track" /\ box.latched # None
    BY <1>1, <1>2, <1>3
  <2>2. ~ (box.on_entry # None /\ c.tank > box.on_entry + Gain) /\ ~ (box.armed_in_lane /\ ~ m.armed)
    BY <1>4
  <2>3. w = FuelToAdd(box.latched, c.tank)
    BY <1>3
  <2> HIDE DEF w
  <2> QED BY <2>1, <2>2, <2>3, <1>1, <1>2, <1>3, <1>4, SecondAsks
<1>10. /\ Goal' = Lesser(v.goal, Size) /\ Needs(c.tank)' = w /\ Order(c.tank)' = <<[what |-> "SetFuel", litres |-> w, age |-> 0, own |-> FALSE]>>
       /\ car'.tank = c.tank /\ car'.place = "lane" /\ Entering' /\ sim.armed \in BOOLEAN
  BY <1>1, <1>2 DEF Goal, Needs, Order, Entering, SimType
<1> DEFINE order == <<[what |-> "SetFuel", litres |-> w, age |-> 0, own |-> FALSE]>>
<1>11. order # <<>>
  OBVIOUS
<1>12. \/ pit_requests' = <<>> /\ box'.wait = 0 /\ ~ sim.armed /\ w = 0
       \/ pit_requests' = <<>> /\ box'.wait = 0 /\ sim.armed /\ w = sim.amount
       \/ pit_requests' = order /\ w # 0
  <2>1. pit_requests' = <<[what |-> "SetFuel", litres |-> w, age |-> 0, own |-> FALSE]>> <=> pit_requests' = order
    OBVIOUS
  <2>2. w = 0 /\ sim.armed => FALSE
    BY <1>7, <1>1, FuelConstants DEF Levels
  <2>3. ~ (0 > 0)
    OBVIOUS
  <2> HIDE DEF w, order, rest
  <2> QED BY <1>6, <1>9, <2>1, <2>2, <2>3
<1> HIDE DEF w, order, rest
<1>13. c.tank \in Nat /\ w \in Nat
  BY <1>1, <1>7, FuelConstants DEF Levels
<1>14. /\ box'.latched = visit'.goal /\ box'.pit_lane = "Pending" /\ box'.on_entry = visit'.entry /\ car'.tank <= visit'.entry
       /\ box'.armed_in_lane => sim'.armed
       /\ sim'.armed => car'.tank < Goal'
  BY <1>1, <1>3, <1>5, <1>7, <1>8, <1>9, <1>10, <1>13
<1>15. /\ pit_requests' = <<>> \/ (pit_requests' = Order(car.tank)' /\ Needs(car.tank)' > 0)
       /\ pit_requests' = <<>> => box'.wait <= 1
       /\ ~ sim'.armed /\ pit_requests' = <<>> => car'.tank >= Goal'
       /\ sim'.armed /\ pit_requests' = <<>> => sim'.amount = Needs(car.tank)'
  <2>1. Needs(car.tank)' = w /\ Order(car.tank)' = order
    BY <1>10, <1>1 DEF Needs, Order, order
  <2> QED BY <2>1, <1>5, <1>7, <1>10, <1>11, <1>12, <1>13
<1> QED BY <1>1, <1>2, <1>3, <1>10, <1>14, <1>15 DEF BeforeFill

(* Crawling to the box, stopping in it, standing in it: still before the fill. *)
LEMMA StayBeforeFill ==
    ASSUME FuelInv, Present, ServiceHolds, CodeTimes, TankHolds, NEW c, NEW m, NEW v, OneSecond(c, m, v), Undisturbed', ~ visit.done,
           Undisturbed, v.goal = visit.goal, v.entry = visit.entry, m = sim, sim.rig = None, car.place # "track", c.place # "track",
           NEW b \in {0, 1}, c.tank = car.tank - b, c.lately = <<b, car.lately[1], car.lately[2]>>,
           \/ c.place = "lane" /\ c.secs # 0
           \/ car.place = "lane" /\ c.place = "box" /\ b = 0 /\ c.secs = car.secs /\ car.secs >= 3 /\ v.late = Burnt(car)
           \/ car.place = "box" /\ c.place = "box" /\ c.secs = car.secs /\ ~ sim.armed /\ v.late \in Nat
    PROVE  BeforeFill'
<1>1. /\ auto /\ seat /\ snap'.age = 0 /\ car' = c /\ sim' = Delivered(m, Current) /\ sim'.rig = m.rig
      /\ v.goal \in Nat /\ visit'.goal = v.goal /\ visit'.entry = v.entry /\ visit'.late = v.late
      /\ m \in SimType /\ c \in CarType /\ c.tank \in Levels
  BY SecondUndisturbed
<1>2. BeforeFill
  BY DEF TankHolds
<1>3. /\ car.tank \in Levels /\ c.tank \in Nat /\ car.tank \in Nat /\ Goal \in Nat /\ visit.entry \in Nat /\ visit.goal \in Nat
      /\ car.lately[1] \in Nat /\ car.lately[2] \in Nat /\ car.lately[3] \in Nat /\ sim \in SimType
      /\ car.secs \in Nat /\ Litre \in Nat /\ Litre >= 2
  <2>1. /\ car.tank \in Levels /\ sim \in SimType /\ car.secs \in Nat /\ visit.entry \in Levels /\ visit.goal \in Nat
        /\ car.lately[1] \in Nat /\ car.lately[2] \in Nat /\ car.lately[3] \in Nat
    BY <1>1 DEF FuelInv, FuelTypes, CarType, VisitType
  <2>2. c.tank \in Nat /\ car.tank \in Nat /\ visit.entry \in Nat
    BY <1>1, <2>1, FuelConstants DEF Levels
  <2>3. Goal \in Nat
    BY <2>1, FuelConstants DEF Goal, Lesser
  <2> QED BY <2>1, <2>2, <2>3, FuelConstants DEF CodeTimes
<1>4. c.lately[1] = b /\ c.lately[2] = car.lately[1] /\ c.lately[3] = car.lately[2]
  OBVIOUS
<1>5. /\ box'.latched = visit.goal /\ box'.pit_lane = "Pending" /\ box'.on_entry = visit.entry /\ c.tank <= visit.entry
      /\ box'.armed_in_lane => sim'.armed
      /\ sim'.armed => c.tank < Goal
      /\ pit_requests' = <<>> \/ (pit_requests' = Order(c.tank) /\ Needs(c.tank) > 0)
      /\ pit_requests' = <<>> => box'.wait <= 1
      /\ ~ sim'.armed /\ pit_requests' = <<>> => c.tank >= Goal
      /\ ~ sim'.armed /\ pit_requests' # <<>> => c.tank = Goal - 1 /\ b = 1
      /\ sim'.armed /\ pit_requests' = <<>> => sim'.amount \in {Needs(c.tank), Needs(c.tank + b)}
      /\ sim'.armed /\ pit_requests' # <<>> => sim'.amount \in {Needs(c.tank), Needs(c.tank + b), Needs(c.tank + b + car.lately[1])}
      /\ pit_requests # <<>> => sim'.armed /\ sim'.amount = Needs(car.tank)
      /\ pit_requests = <<>> => sim' = sim
  <2>1. visit.entry # None /\ c.lately[1] = b /\ c.lately[2] = car.lately[1]
    BY <1>3, <1>4 DEF None
  <2> QED BY <2>1, <1>1, <1>2, <1>3, SecondBeforeFill
<1>6. /\ Goal' = Goal /\ Needs(car.tank)' = Needs(c.tank) /\ Order(car.tank)' = Order(c.tank)
      /\ Needs(car.tank + car.lately[1])' = Needs(c.tank + b)
      /\ Needs(car.tank + car.lately[1] + car.lately[2])' = Needs(c.tank + b + car.lately[1])
  BY <1>1, <1>4 DEF Goal, Needs, Order
(* The load set by the time the car stands covers what is missing then.    *)
<1>7. ASSUME NEW t \in Levels, NEW late \in Nat, NEW n, n \in Nat \ {0}, n = Needs(t), t <= c.tank + late, c.tank <= t
      PROVE  c.tank + n * Litre + late >= Goal /\ c.tank + n * Litre < Goal + Litre
  <2>1. /\ n \in Nat /\ (t >= Goal <=> n = 0)
        /\ t < Goal => t + n * Litre >= Goal /\ t + n * Litre < Goal + Litre
    BY <1>3, <1>7, LoadCovers DEF Needs, Goal
  <2>2. n * Litre \in Nat /\ t \in Nat
    BY <2>1, <1>3, FuelConstants DEF Levels
  <2> HIDE DEF Goal
  <2> QED BY <2>1, <2>2, <1>3, <1>7
<1>8. c.place = "box" /\ sim'.armed => /\ c.tank + sim'.amount * Litre + v.late >= Goal
                                       /\ c.tank + sim'.amount * Litre < Goal + Litre
  <2> SUFFICES ASSUME c.place = "box", sim'.armed
               PROVE  /\ c.tank + sim'.amount * Litre + v.late >= Goal
                      /\ c.tank + sim'.amount * Litre < Goal + Litre
    OBVIOUS
  <2>1. sim' \in SimType /\ sim'.amount \in Nat \ {0}
    <3>1. FuelInv'
      BY SecondTypesAfter
    <3> QED BY <3>1 DEF FuelInv, FuelTypes, SimType
  <2>2. CASE car.place = "lane"
    <3>1. b = 0 /\ c.tank = car.tank /\ v.late = car.lately[1] + car.lately[2] + car.lately[3] /\ v.late \in Nat
      BY <2>2, <1>3 DEF Burnt
    <3>2. CASE pit_requests # <<>>
      <4>1. sim'.amount = Needs(car.tank)
        BY <3>2, <1>5
      <4> QED BY <4>1, <3>1, <2>1, <1>3, <1>7
    <3>3. CASE pit_requests = <<>>
      <4>1. sim' = sim /\ sim.armed
        BY <3>3, <1>5, <2>1
      <4>2. sim'.amount \in {Needs(car.tank), Needs(car.tank + car.lately[1])} /\ car.tank < Goal
        BY <4>1, <3>3, <1>2 DEF BeforeFill
      <4>3. CASE sim'.amount = Needs(car.tank)
        BY <4>3, <3>1, <2>1, <1>3, <1>7
      <4>4. CASE sim'.amount = Needs(car.tank + car.lately[1])
        <5>1. CASE car.tank + car.lately[1] \in Levels
          BY <4>4, <5>1, <3>1, <2>1, <1>3, <1>7
        <5>2. CASE car.tank + car.lately[1] \notin Levels
          <6>1. car.tank + car.lately[1] > Size
            BY <5>2, <1>3, FuelConstants DEF Levels
          <6>2. Needs(car.tank + car.lately[1]) = 0
            <7> DEFINE far == car.tank + car.lately[1]
            <7>1. far \in Nat /\ far > Size /\ visit.goal \in Nat
              BY <6>1, <1>3
            <7> HIDE DEF far
            <7>2. NotNegative(Size - far) = 0 /\ NotNegative(visit.goal - far) \in Nat
              BY <7>1, FuelConstants DEF NotNegative
            <7>3. Lesser(NotNegative(visit.goal - far), NotNegative(Size - far)) = 0
              BY <7>2 DEF Lesser
            <7>4. Litres(0) = 0
              BY LitresCover, 0 \in Nat
            <7> QED BY <7>3, <7>4 DEF Needs, FuelToAdd, far
          <6> QED BY <6>2, <4>4, <2>1
        <5> QED BY <5>1, <5>2
      <4> QED BY <4>2, <4>3, <4>4
    <3> QED BY <3>2, <3>3
  <2>3. CASE car.place = "box"
    <3>1. ~ sim.armed /\ v.late \in Nat
      BY <2>3
    <3>2. pit_requests # <<>>
      BY <3>1, <1>5
    <3>3. sim'.amount = Needs(car.tank)
      BY <3>2, <1>5
    <3>4. car.tank = Goal - 1
      BY <3>1, <3>2, <2>3, <1>2 DEF BeforeFill, Entering
    <3>5. Needs(car.tank) = 1
      BY <3>4, <1>3, LoadCovers DEF Needs, Goal
    <3>6. sim'.amount * Litre = Litre
      BY <3>3, <3>5, <1>3
    <3> HIDE DEF Goal
    <3> QED BY <3>1, <3>4, <3>6, <1>3
  <2>4. car.place \in {"lane", "box"}
    BY DEF FuelInv, FuelTypes, CarType
  <2> QED BY <2>2, <2>3, <2>4
<1>9. c.place = "box" => c.secs >= 3
  BY <1>2 DEF BeforeFill
<1> HIDE DEF Goal
<1>10. /\ box'.latched = visit'.goal /\ box'.pit_lane = "Pending" /\ box'.on_entry = visit'.entry /\ car'.tank <= visit'.entry
       /\ box'.armed_in_lane => sim'.armed
       /\ sim'.armed => car'.tank < Goal'
       /\ pit_requests' = <<>> \/ (pit_requests' = Order(car.tank)' /\ Needs(car.tank)' > 0)
       /\ pit_requests' = <<>> => box'.wait <= 1
       /\ ~ sim'.armed /\ pit_requests' = <<>> => car'.tank >= Goal'
  BY <1>1, <1>5, <1>6
<1>11. /\ ~ sim'.armed /\ pit_requests' # <<>> => car'.tank = Goal' - 1 /\ car'.lately[1] = 1
       /\ sim'.armed /\ pit_requests' = <<>> => sim'.amount \in {Needs(car.tank)', Needs(car.tank + car.lately[1])'}
       /\ sim'.armed /\ pit_requests' # <<>> =>
            sim'.amount \in {Needs(car.tank)', Needs(car.tank + car.lately[1])', Needs(car.tank + car.lately[1] + car.lately[2])'}
  BY <1>1, <1>4, <1>5, <1>6
<1>12. /\ car'.place = "box" /\ sim'.armed => /\ car'.tank + sim'.amount * Litre + visit'.late >= Goal'
                                              /\ car'.tank + sim'.amount * Litre < Goal' + Litre
       /\ car'.place = "box" => car'.secs >= 3
  BY <1>1, <1>6, <1>8, <1>9
<1> QED BY <1>10, <1>11, <1>12 DEF BeforeFill

(* The rig fills to what was set when it started. *)
LEMMA RigHolds ==
    ASSUME FuelInv, Present, ServiceHolds, TankHolds, NEW c, NEW m, NEW v, OneSecond(c, m, v), ByFuel(c, m, v), Undisturbed',
           Undisturbed, ~ visit.done
    PROVE  RigGoal \in Nat /\ RigGoal + visit.late >= Goal /\ RigGoal < visit.goal + Litre
<1>1. /\ car.place = "box" /\ sim.armed /\ RigGoal \in Levels
  BY DEF ByFuel
<1>2. /\ car.tank \in Levels /\ sim \in SimType /\ visit.late \in Nat /\ visit.goal \in Nat
  BY DEF FuelInv, FuelTypes, CarType, VisitType, Undisturbed, NatOrNone
<1>3. RigGoal \in Nat
  BY <1>1, FuelConstants DEF Levels
<1>4. CASE sim.rig # None
  BY <1>1, <1>3, <1>4 DEF TankHolds, RigGoal
<1>5. CASE sim.rig = None
  <2>1. /\ car.tank + sim.amount * Litre + visit.late >= Goal /\ car.tank + sim.amount * Litre < Goal + Litre
    BY <1>1, <1>5 DEF TankHolds, BeforeFill
  <2> DEFINE full == car.tank + sim.amount * Litre
  <2>2. full \in Nat
    <3>1. car.tank \in Nat /\ sim.amount \in Nat /\ Litre \in Nat
      BY <1>2, FuelConstants DEF SimType, Levels
    <3> QED BY <3>1
  <2>3. RigGoal = Lesser(full, Size)
    BY <1>5 DEF RigGoal
  <2> HIDE DEF full
  <2>4. full + visit.late >= Goal /\ full < Goal + Litre
    BY <2>1 DEF full
  <2> QED BY <1>2, <2>2, <2>3, <2>4, FuelConstants DEF Lesser, Goal
<1> QED BY <1>3, <1>4, <1>5

LEMMA SecondTank ==
    ASSUME FuelInv, Tracked, Present, ServiceHolds, CodeTimes, TankHolds, NEW c, NEW m, NEW v, OneSecond(c, m, v)
    PROVE  TankHolds'
<1> SUFFICES ASSUME Undisturbed'
             PROVE  /\ car'.place = "lane" => ~ visit'.done
                    /\ car'.place # "track" /\ ~ visit'.done /\ sim'.rig = None => BeforeFill'
                    /\ car'.place # "track" /\ ~ visit'.done /\ sim'.rig # None =>
                          sim'.rig + visit'.late >= Goal' /\ sim'.rig < visit'.goal + Litre
                    /\ visit'.result # None => /\ visit'.result + visit'.late >= Goal'
                                               /\ visit'.done => visit'.result < visit'.goal + Litre
  BY DEF TankHolds
<1>1. /\ snap'.age = 0 /\ car' = c /\ sim' = Delivered(m, Current) /\ sim'.rig = m.rig
      /\ v.met /\ v.goal # None /\ ~ v.pressed /\ ~ v.away /\ ~ v.blind /\ (v.ticked => Lesser(v.goal, Size) > v.entry)
      /\ visit'.goal = v.goal /\ visit'.entry = v.entry /\ visit'.done = v.done /\ visit'.result = v.result /\ visit'.late = v.late
      /\ m \in SimType /\ c \in CarType /\ v \in VisitType
  BY SecondUndisturbed
<1>2. /\ Moves(c, m, v) /\ visit \in VisitType /\ car \in CarType /\ Goal' = Lesser(v.goal, Size)
  BY <1>1 DEF OneSecond, FuelInv, FuelTypes, Goal
<1>3. /\ visit.done => visit.result # None
      /\ car.place # "track" /\ ~ visit.done => visit.result = None
  BY DEF ServiceHolds
<1>4. ASSUME v.goal = visit.goal, v.met = visit.met, v.pressed = visit.pressed, v.away = visit.away, v.blind = visit.blind,
             v.ticked = visit.ticked, v.entry = visit.entry
      PROVE  /\ Undisturbed /\ Goal' = Goal
             /\ car.place = "lane" => ~ visit.done
             /\ visit.result # None => /\ visit.result + visit.late >= Goal
                                       /\ visit.done => visit.result < visit.goal + Litre
  <2>1. Undisturbed /\ Goal' = Goal
    BY <1>1, <1>2, <1>4 DEF Undisturbed, Goal
  <2> QED BY <2>1 DEF TankHolds
<1>5. ~ ByDrive(c, m, v)
  <2>1. Visit(None, FALSE, c, sim).met = FALSE
    BY DEF Visit
  <2> QED BY <1>1, <2>1 DEF ByDrive
<1>6. CASE ByEnterLane(c, m, v)
  <2>1. c.place = "lane" /\ ~ v.done /\ v.result = None /\ sim'.rig = None /\ BeforeFill'
    BY <1>6, EnterBeforeFill
  <2> QED BY <2>1, <1>1
<1>7. ASSUME NEW b \in {0, 1}, ByCrawl(c, m, v, b) \/ ByWait(c, m, v, b)
      PROVE  /\ car'.place = "lane" => ~ visit'.done
             /\ sim'.rig = None
             /\ ~ visit'.done => BeforeFill'
             /\ visit'.result # None => /\ visit'.result + visit'.late >= Goal'
                                        /\ visit'.done => visit'.result < visit'.goal + Litre
  <2>1. v = visit /\ m = sim /\ sim.rig = None /\ c.tank = car.tank - b /\ c.lately = <<b, car.lately[1], car.lately[2]>>
        /\ car.place # "track" /\ c.place = car.place
    BY <1>7 DEF ByCrawl, ByWait, Burning
  <2>2. /\ Undisturbed /\ Goal' = Goal
        /\ car.place = "lane" => ~ visit.done
        /\ visit.result # None => /\ visit.result + visit.late >= Goal
                                  /\ visit.done => visit.result < visit.goal + Litre
    BY <2>1, <1>4
  <2>3. \/ c.place = "lane" /\ c.secs # 0
        \/ car.place = "box" /\ c.place = "box" /\ c.secs = car.secs /\ ~ sim.armed /\ v.late \in Nat
    BY <1>7, <1>2, <2>1 DEF ByCrawl, ByWait, CarType, VisitType
  <2>4. ~ visit.done => BeforeFill'
    BY <2>1, <2>2, <2>3, StayBeforeFill
  <2> QED BY <1>1, <2>1, <2>2, <2>4
<1>8. CASE ByStopInBox(c, m, v)
  <2>1. /\ m = sim /\ sim.rig = None /\ c.tank = car.tank - 0 /\ c.lately = <<0, car.lately[1], car.lately[2]>>
        /\ car.place = "lane" /\ c.place = "box" /\ c.secs = car.secs /\ car.secs >= 3
    BY <1>8 DEF ByStopInBox, Burning
  <2>2. /\ v.goal = visit.goal /\ v.met = visit.met /\ v.pressed = visit.pressed /\ v.away = visit.away /\ v.blind = visit.blind
        /\ v.ticked = visit.ticked /\ v.entry = visit.entry /\ v.late = Burnt(car) /\ v.done = visit.done /\ v.result = visit.result
    BY <1>8, <1>2 DEF ByStopInBox, VisitType
  <2>3. Undisturbed /\ ~ visit.done /\ visit.result = None
    BY <2>1, <2>2, <1>3, <1>4
  <2>4. BeforeFill'
    BY <2>1, <2>2, <2>3, StayBeforeFill
  <2> QED BY <1>1, <2>1, <2>2, <2>3, <2>4
<1>9. CASE ByFuel(c, m, v)
  <2>1. /\ v.goal = visit.goal /\ v.met = visit.met /\ v.pressed = visit.pressed /\ v.away = visit.away /\ v.blind = visit.blind
        /\ v.ticked = visit.ticked /\ v.entry = visit.entry /\ v.late = visit.late /\ v.done = (visit.done \/ RigTank = RigGoal)
        /\ v.result = IF RigTank = RigGoal /\ ~ visit.done THEN RigTank ELSE visit.result
    BY <1>9, <1>2 DEF ByFuel, VisitType
  <2>2. /\ c.place = "box" /\ RigGoal \in Levels /\ RigTank \in Levels /\ RigTank <= RigGoal
        /\ (RigTank < RigGoal => m.rig = RigGoal) /\ (RigTank = RigGoal => m.rig = None)
    BY <1>9 DEF ByFuel
  <2>3. /\ Undisturbed /\ Goal' = Goal
        /\ visit.result # None => /\ visit.result + visit.late >= Goal
                                  /\ visit.done => visit.result < visit.goal + Litre
    BY <2>1, <1>4
  <2>4. CASE visit.done
    <3>1. v.done /\ v.result = visit.result
      BY <2>1, <2>4
    <3> QED BY <1>1, <2>1, <2>2, <2>3, <2>4, <3>1
  <2>5. CASE ~ visit.done
    <3>1. RigGoal \in Nat /\ RigGoal + visit.late >= Goal /\ RigGoal < visit.goal + Litre
      BY <1>9, <2>3, <2>5, RigHolds
    <3>2. visit.result = None
      BY <1>9, <2>5, <1>3 DEF ByFuel
    <3>3. CASE RigTank = RigGoal
      <4>1. v.done /\ v.result = RigGoal
        BY <2>1, <2>5, <3>3
      <4> QED BY <1>1, <2>1, <2>2, <2>3, <3>1, <4>1
    <3>4. CASE RigTank # RigGoal
      <4>1. ~ v.done /\ v.result = None
        BY <2>1, <2>5, <3>2, <3>4
      <4>2. m.rig = RigGoal /\ RigGoal # None
        BY <2>2, <3>1, <3>4, FuelConstants DEF Levels, None
      <4> QED BY <1>1, <2>1, <2>2, <2>3, <3>1, <4>1, <4>2
    <3> QED BY <3>3, <3>4
  <2> QED BY <2>4, <2>5
<1>10. CASE ByLeave(c, m, v)
  <2>1. /\ v.goal = visit.goal /\ v.met = visit.met /\ v.pressed = visit.pressed /\ v.away = visit.away /\ v.blind = visit.blind
        /\ v.ticked = visit.ticked /\ v.entry = visit.entry /\ v.done = visit.done
        /\ v.result = (IF visit.result = None /\ car.place = "box" THEN car.tank ELSE visit.result)
        /\ v.late = IF visit.result = None THEN Burnt(car) ELSE visit.late
    BY <1>10, <1>2 DEF ByLeave, VisitType
  <2>2. c.place = "track" /\ car.place # "track" /\ sim.rig = None /\ (car.place = "box" => ~ sim.armed)
    BY <1>10 DEF ByLeave
  <2>3. /\ Undisturbed /\ Goal' = Goal
        /\ visit.result # None => /\ visit.result + visit.late >= Goal
                                  /\ visit.done => visit.result < visit.goal + Litre
    BY <2>1, <1>4
  <2>4. CASE visit.result # None
    <3>1. v.result = visit.result /\ v.late = visit.late
      BY <2>1, <2>4
    <3> QED BY <1>1, <2>1, <2>2, <2>3, <2>4, <3>1
  <2>5. CASE visit.result = None /\ car.place # "box"
    <3>1. v.result = None
      BY <2>1, <2>5
    <3> QED BY <1>1, <2>2, <3>1
  <2>6. CASE visit.result = None /\ car.place = "box"
    <3>1. v.result = car.tank /\ v.late = Burnt(car) /\ ~ v.done
      BY <2>1, <2>6, <1>3
    <3>2. BeforeFill
      BY <2>1, <2>2, <2>3, <3>1 DEF TankHolds
    <3>3. car.tank >= Goal \/ (car.tank = Goal - 1 /\ car.lately[1] = 1)
      BY <2>2, <2>6, <3>2 DEF BeforeFill, Entering
    <3>4. car.tank \in Nat /\ car.lately[1] \in Nat /\ car.lately[2] \in Nat /\ car.lately[3] \in Nat /\ Goal \in Nat
      <4>1. car.tank \in Levels /\ car.lately[1] \in Nat /\ car.lately[2] \in Nat /\ car.lately[3] \in Nat
        BY <1>2 DEF CarType
      <4>2. visit.goal \in Nat
        BY <1>1, <1>2, <2>1 DEF VisitType, NatOrNone
      <4> QED BY <4>1, <4>2, FuelConstants DEF Levels, Goal, Lesser
    <3>5. car.tank + Burnt(car) >= Goal
      BY <3>3, <3>4 DEF Burnt
    <3> QED BY <1>1, <2>2, <2>3, <3>1, <3>5
  <2> QED BY <2>4, <2>5, <2>6
<1> QED BY <1>1, <1>2, <1>5, <1>6, <1>7, <1>8, <1>9, <1>10 DEF Moves

LEMMA TankInit == AutoFuelInit => TankHolds
<1>1. Visit(None, FALSE, car, sim).met = FALSE
  BY DEF Visit
<1> QED BY <1>1 DEF AutoFuelInit, TankHolds, Undisturbed

LEMMA TankStep == CodeTimes /\ VisitInv /\ TankHolds /\ [AutoFuelNext]_autoFuelVars => TankHolds'
<1> SUFFICES ASSUME CodeTimes, VisitInv, TankHolds, [AutoFuelNext]_autoFuelVars PROVE TankHolds'
  OBVIOUS
<1>1. FuelInv /\ Tracked /\ Present /\ ServiceHolds /\ visit \in VisitType
  BY DEF VisitInv, FuelInv, FuelTypes
<1>2. ASSUME car' = car, sim' = sim, visit' = visit, box' = box, pit_requests' = pit_requests PROVE TankHolds'
  BY <1>2 DEF TankHolds, Undisturbed, BeforeFill, Entering, Goal, Needs, Order
<1>3. CASE UNCHANGED autoFuelVars
  BY <1>2, <1>3 DEF autoFuelVars
<1>4. ASSUME NEW c, NEW m, NEW v, OneSecond(c, m, v) PROVE TankHolds'
  BY <1>1, <1>4, SecondTank
<1>5. CASE PressFuel
  <2>1. visit'.pressed
    BY <1>1, <1>5 DEF PressFuel, VisitType
  <2> QED BY <2>1 DEF TankHolds, Undisturbed
<1>6. CASE ToggleAuto \/ SwapOut
  <2>1. visit'.away
    BY <1>1, <1>6 DEF ToggleAuto, SwapOut, VisitType
  <2> QED BY <2>1 DEF TankHolds, Undisturbed
<1>7. CASE SwapIn
  <2>1. box' = box
    BY <1>7 DEF SwapIn
  <2>2. (car' = car /\ sim' = sim /\ visit' = visit /\ pit_requests' = pit_requests) \/ visit'.met = FALSE
    BY <1>7 DEF SwapIn, Visit
  <2>3. CASE visit'.met = FALSE
    BY <2>3 DEF TankHolds, Undisturbed
  <2> QED BY <1>2, <2>1, <2>2, <2>3
<1> QED BY <1>1, <1>3, <1>4, <1>5, <1>6, <1>7, SecondsOrNot

(* A stop nothing disturbs leaves the tank at what was worked out before   *)
(* the lane: no litre more, and no less but for what was burnt too late to *)
(* be asked for (TankMeetsTarget). It takes the times of the code: with a  *)
(* request that lives less than a second, or a car that burns half a litre *)
(* in a second of the lane, TLC finds the stop that falls short.           *)
THEOREM TankIsRight == CodeTimes => (AutoFuelSpec => []TankMeetsTarget)
<1> SUFFICES ASSUME CodeTimes PROVE AutoFuelSpec => []TankMeetsTarget
  OBVIOUS
<1>1. AutoFuelInit => VisitInv /\ TankHolds
  BY VisitInvInit, TankInit
<1>2. VisitInv /\ TankHolds /\ [AutoFuelNext]_autoFuelVars => (VisitInv /\ TankHolds)'
  BY TankStep, VisitInvStep
<1>3. VisitInv /\ TankHolds => TankMeetsTarget
  <2> SUFFICES ASSUME VisitInv, TankHolds, visit.result # None, visit.goal # None, visit.met,
                      ~ visit.pressed, ~ visit.away, ~ visit.blind, visit.ticked => Lesser(visit.goal, Size) > visit.entry
               PROVE  /\ visit.result + visit.late >= Lesser(visit.goal, Size)
                      /\ visit.done => visit.result < visit.goal + Litre
    BY DEF TankMeetsTarget
  <2>1. Undisturbed
    BY DEF Undisturbed, Goal
  <2> QED BY <2>1 DEF TankHolds, Goal
<1> QED BY <1>1, <1>2, <1>3, PTL DEF AutoFuelSpec

===============================================================================
