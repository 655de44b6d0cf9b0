----------------------------- MODULE RuntimeProofs -----------------------------
(***************************************************************************)
(* What an overlay shows of the room is a function of the set of events it  *)
(* was handed (SyncRuntime, TeamState): the latest value of every field and *)
(* the newest laps, in whatever order they came and however often.          *)
(***************************************************************************)
EXTENDS SyncRuntime, FiniteSetTheorems, WellFoundedInduction, TLAPS

\* Every set of naturals with a member has a least one.
LEMMA LeastNumber ==
    ASSUME NEW T \in SUBSET Nat, T # {}
    PROVE  \E n \in T : \A m \in T : n <= m
<1> DEFINE R == OpToRel(<, Nat)
<1>1. \A m, n \in Nat : m < n => <<m, n>> \in R
  BY DEF OpToRel
<1>2. IsWellFoundedOn(R, Nat)
  BY NatLessThanWellFounded
<1> HIDE DEF R
<1>3. PICK n \in T : \A m \in T : ~ (<<m, n>> \in R)
  BY <1>2, WFMin
<1>4. ASSUME NEW m \in T PROVE n <= m
  <2>1. n \in Nat /\ m \in Nat /\ ~ (<<m, n>> \in R)
    BY <1>3
  <2>2. ~ (m < n)
    BY <1>1, <2>1
  <2>3. QED
    BY <2>1, <2>2
<1> QED BY <1>4

(***************************************************************************)
(* The history of laps.                                                    *)
(***************************************************************************)

Above(laps, l) == {k \in laps : k.lap > l.lap}

\* Laps as the room numbers them: one record a lap, none beyond the last.
Laps(laps, last) ==
    /\ last \in Nat
    /\ IsFiniteSet(laps)
    /\ \A l \in laps : l.lap \in Nat /\ l.lap < last
    /\ \A k, l \in laps : k.lap = l.lap => k = l

\* Of laps that go down from a bound, one that satisfies a condition is the
\* highest.
LEMMA HighestLap ==
    ASSUME NEW laps, NEW last \in Nat, laps # {},
           \A l \in laps : l.lap \in Nat /\ l.lap < last
    PROVE  \E k \in laps : \A l \in laps : l.lap <= k.lap
<1> DEFINE T == {last - l.lap : l \in laps}
<1>1. T \in SUBSET Nat /\ T # {}
  OBVIOUS
<1>2. PICK n \in T : \A m \in T : n <= m
  <2> HIDE DEF T
  <2> QED BY <1>1, LeastNumber
<1>3. PICK k \in laps : n = last - k.lap
  BY <1>2
<1>4. ASSUME NEW l \in laps PROVE l.lap <= k.lap
  <2>1. last - k.lap <= last - l.lap
    BY <1>2, <1>3
  <2>2. k.lap \in Nat /\ l.lap \in Nat
    OBVIOUS
  <2>3. QED
    BY <2>1, <2>2
<1> QED BY <1>4

\* A lap that fell out of the newest is not needed to know which of the laps
\* with one more are the newest: the fold may forget it.
LEMMA NewestOfNewest ==
    ASSUME NEW laps, NEW last, NEW e,
           Laps(laps \cup {e}, last)
    PROVE  Newest(Newest(laps, LapHistory) \cup {e}, LapHistory) = Newest(laps \cup {e}, LapHistory)
<1> DEFINE T == laps \cup {e}
           N == Newest(laps, LapHistory)
           M == N \cup {e}
<1>1. N \subseteq laps /\ M \subseteq T
  BY DEF Newest
<1>2. IsFiniteSet(T) /\ (\A l \in T : l.lap \in Nat /\ l.lap < last)
      /\ last \in Nat /\ LapHistory \in Nat
  BY WindowAssumption DEF Laps
<1>3. ASSUME NEW S \in SUBSET T, NEW R \in SUBSET S
      PROVE  /\ Cardinality(R) \in Nat /\ Cardinality(S) \in Nat
             /\ Cardinality(R) <= Cardinality(S)
  <2>1. IsFiniteSet(S) /\ IsFiniteSet(R)
    BY <1>2, FS_Subset
  <2>2. QED
    BY <2>1, FS_Subset, FS_CardinalityType
<1>4. ASSUME NEW l \in T, Cardinality(Above(T, l)) < LapHistory
      PROVE  l \in M /\ Cardinality(Above(M, l)) < LapHistory
  <2>1. Above(T, l) \subseteq T /\ Above(M, l) \subseteq Above(T, l)
    BY <1>1 DEF Above
  <2>2. Cardinality(Above(M, l)) < LapHistory
    <3> HIDE DEF T, M
    <3>1. Cardinality(Above(M, l)) <= Cardinality(Above(T, l))
          /\ Cardinality(Above(M, l)) \in Nat /\ Cardinality(Above(T, l)) \in Nat
      BY <2>1, <1>3
    <3> QED BY <3>1, <1>2, <1>4
  <2>3. CASE l = e
    BY <2>2, <2>3
  <2>4. CASE l \in laps
    <3>1. Above(laps, l) \subseteq Above(T, l)
      BY DEF Above
    <3>2. Cardinality(Above(laps, l)) <= Cardinality(Above(T, l))
          /\ Cardinality(Above(laps, l)) \in Nat /\ Cardinality(Above(T, l)) \in Nat
      <4> HIDE DEF T
      <4> QED BY <2>1, <3>1, <1>3
    <3>3. Cardinality(Above(laps, l)) < LapHistory
        BY <1>2, <1>4, <3>2
    <3>4. l \in N
      BY <2>4, <3>3 DEF Newest, Above
    <3> QED BY <2>2, <3>4
  <2> QED BY <2>3, <2>4
<1>5. ASSUME NEW l \in M, Cardinality(Above(M, l)) < LapHistory
      PROVE  Cardinality(Above(T, l)) < LapHistory
  <2>1. SUFFICES ASSUME ~ (Cardinality(Above(T, l)) < LapHistory) PROVE FALSE
    OBVIOUS
  <2> DEFINE Gone == {k \in laps \ N : k.lap > l.lap}
  <2>2. Gone # {}
    <3>1. Above(M, l) # Above(T, l)
      BY <1>5, <2>1
    <3>2. PICK k \in Above(T, l) : k \notin Above(M, l)
      BY <1>1, <3>1 DEF Above
    <3>3. k \in Gone
      BY <3>2 DEF Above
    <3> QED BY <3>3
  <2>3. \A k \in Gone : k.lap \in Nat /\ k.lap < last
    BY <1>2
  <2>4. PICK k \in Gone : \A j \in Gone : j.lap <= k.lap
    <3> HIDE DEF Gone
    <3> QED BY <1>2, <2>2, <2>3, HighestLap
  <2>5. Above(laps, k) \subseteq Above(M, l)
    <3>1. SUFFICES ASSUME NEW j \in laps, j.lap > k.lap PROVE j \in N /\ j.lap > l.lap
      BY DEF Above
    <3>2. j.lap \in Nat /\ k.lap \in Nat /\ l.lap \in Nat /\ k.lap > l.lap
      BY <1>1, <1>2, <2>4
    <3>3. j.lap > l.lap
      BY <3>1, <3>2
    <3>4. j \notin Gone
      BY <2>4, <3>1, <3>2
    <3> QED BY <3>3, <3>4
  <2>6. ~ (Cardinality(Above(laps, k)) < LapHistory)
    BY <2>4 DEF Newest, Above
  <2>7. /\ Cardinality(Above(laps, k)) <= Cardinality(Above(M, l))
        /\ Cardinality(Above(laps, k)) \in Nat /\ Cardinality(Above(M, l)) \in Nat
    <3>1. Above(M, l) \subseteq T
      BY <1>1 DEF Above
    <3> HIDE DEF T, M
    <3> QED BY <2>5, <3>1, <1>3
  <2> QED BY <1>2, <1>5, <2>6, <2>7
<1>6. Newest(M, LapHistory) = {l \in M : Cardinality(Above(M, l)) < LapHistory}
      /\ Newest(T, LapHistory) = {l \in T : Cardinality(Above(T, l)) < LapHistory}
  BY DEF Newest, Above
<1> HIDE DEF T, M, N
<1>7. Newest(M, LapHistory) = Newest(T, LapHistory)
  BY <1>1, <1>4, <1>5, <1>6
<1> QED BY <1>7 DEF T, M, N

\* The newest laps are no more than LAP_HISTORY.
LEMMA NewestAreFew ==
    ASSUME NEW laps, NEW last, Laps(laps, last)
    PROVE  IsFiniteSet(Newest(laps, LapHistory)) /\ Cardinality(Newest(laps, LapHistory)) <= LapHistory
<1> DEFINE N == Newest(laps, LapHistory)
<1>1. IsFiniteSet(laps) /\ N \subseteq laps /\ IsFiniteSet(N) /\ LapHistory \in Nat
  BY FS_Subset, WindowAssumption DEF Laps, Newest
<1>2. CASE N = {}
  <2>1. Cardinality(N) = 0
    BY <1>2, FS_EmptySet
  <2> QED BY <1>1, <2>1
<1>3. CASE N # {}
  <2>2. PICK l \in N : \A k \in N : l.lap <= k.lap
    <3> DEFINE R == {k.lap : k \in N}
    <3>1. R \in SUBSET Nat /\ R # {}
      BY <1>1, <1>3 DEF Laps
    <3>2. PICK n \in R : \A m \in R : n <= m
      <4> HIDE DEF R
      <4> QED BY <3>1, LeastNumber
    <3> QED BY <3>2
  <2>3. N \ {l} \subseteq Above(laps, l)
    <3>1. SUFFICES ASSUME NEW k \in N, k # l PROVE k.lap > l.lap
      BY <1>1 DEF Above
    <3>2. k.lap \in Nat /\ l.lap \in Nat /\ k.lap # l.lap /\ l.lap <= k.lap
      BY <1>1, <2>2, <3>1 DEF Laps
    <3> QED BY <3>2
  <2>4. Above(laps, l) \subseteq laps /\ Cardinality(Above(laps, l)) < LapHistory
    BY <2>2 DEF Above, Newest
  <2>5. IsFiniteSet(Above(laps, l)) /\ Cardinality(Above(laps, l)) \in Nat
    BY <1>1, <2>4, FS_Subset, FS_CardinalityType
  <2>6. Cardinality(N \ {l}) <= Cardinality(Above(laps, l))
    BY <2>3, <2>5, FS_Subset
  <2>7. Cardinality(N \ {l}) = Cardinality(N) - 1 /\ Cardinality(N) \in Nat
    <3> HIDE DEF N
    <3> QED BY <1>1, <2>2, FS_RemoveElement, FS_CardinalityType
  <2>8. Cardinality(N) <= LapHistory
    <3> HIDE DEF N
    <3> QED BY <1>1, <2>4, <2>5, <2>6, <2>7
  <2> QED BY <1>1, <2>8
<1> QED BY <1>2, <1>3

(***************************************************************************)
(* The fields.                                                             *)
(***************************************************************************)

\* Events of the room: a producer's number names one of them.
Genuine(A) ==
    /\ A \subseteq Events
    /\ \A e \in A : e.seq # 0
    /\ \A d, e \in A : d.producer = e.producer /\ d.seq = e.seq => d = e

\* No two choices at one instant of the clock.
Untied(A) ==
    \A d, e \in A :
        d.kind \in Directives /\ e.kind \in Directives /\ d.time = e.time => d = e

\* What a field or a queue holds of e: e, or the choice e without a number.
IsOf(x, e) == x = e \/ (e.kind \in Directives /\ x = Unnumbered(e))

\* The events of K that set a field.
Setting(K, f) == {e \in K : f \in Sets(e)}

\* v is what the latest of the events in C made of a field.
Holds(v, C) ==
    IF C = {} THEN v = Nothing
    ELSE \E e \in C : IsOf(v, e) /\ \A d \in C : NotBefore(e, d)

LEMMA EventNumbers ==
    ASSUME NEW e \in Events
    PROVE  /\ e.producer \in Nat \ {0} /\ e.seq \in Nat /\ e.time \in Nat
           /\ e.n \in Nat \ {0} /\ e.lap \in Nat
           /\ e.producer \in Overlays
           /\ e.kind \in Directives \cup Measurements
<1>1. e.n \in 1 .. MaxEvents /\ e.seq \in 0 .. MaxEvents /\ e.time \in 1 .. MaxTime
      /\ e.producer \in Overlays /\ e.lap \in Nat
      /\ e.kind \in Directives \cup Measurements
  BY DEF Events
<1>2. MaxEvents \in Nat /\ MaxTime \in Nat /\ e.producer \in Nat \ {0}
  BY <1>1, RuntimeAssumption, OverlaysAssumption
<1> QED BY <1>1, <1>2

\* An event without its number is the same content.
LEMMA UnnumberedIs ==
    ASSUME NEW e \in Events
    PROVE  /\ Unnumbered(e) \in Events
           /\ Unnumbered(e).producer = e.producer /\ Unnumbered(e).seq = 0
           /\ Unnumbered(e).time = e.time /\ Unnumbered(e).kind = e.kind
           /\ Unnumbered(e).lap = e.lap /\ Unnumbered(e).n = e.n
<1>1. 0 \in 0 .. MaxEvents
  BY RuntimeAssumption
<1> QED BY <1>1 DEF Unnumbered, Events

LEMMA IsOfKeeps ==
    ASSUME NEW e \in Events, NEW x, IsOf(x, e)
    PROVE  /\ x \in Events /\ x # Nothing
           /\ x.producer = e.producer /\ x.time = e.time /\ x.kind = e.kind
           /\ x.n = e.n /\ x.lap = e.lap
           /\ x.seq = e.seq \/ (x.seq = 0 /\ e.kind \in Directives)
           /\ Sets(x) = Sets(e)
<1>1. x = e \/ (e.kind \in Directives /\ x = Unnumbered(e))
  BY DEF IsOf
<1>2. /\ x \in Events
      /\ x.producer = e.producer /\ x.time = e.time /\ x.kind = e.kind
      /\ x.n = e.n /\ x.lap = e.lap
      /\ x.seq = e.seq \/ (x.seq = 0 /\ e.kind \in Directives)
  BY <1>1, UnnumberedIs
<1>3. x # Nothing
  <2>1. x.n # 0
    BY <1>2, EventNumbers
  <2> QED BY <2>1 DEF Nothing
<1>4. Sets(x) = Sets(e)
  BY <1>2 DEF Sets
<1> QED BY <1>2, <1>3, <1>4

\* The order of versions is a linear order of the room's events.
LEMMA VersionsAreOrdered ==
    ASSUME NEW A, Genuine(A)
    PROVE  /\ \A e \in A : NotBefore(e, e)
           /\ \A d, e \in A : NotBefore(e, d) \/ NotBefore(d, e)
           /\ \A d, e \in A : NotBefore(e, d) /\ NotBefore(d, e) => d = e
           /\ \A c, d, e \in A : NotBefore(e, d) /\ NotBefore(d, c) => NotBefore(e, c)
<1>1. \A e \in A : e.producer \in Nat /\ e.seq \in Nat /\ e.time \in Nat
  BY EventNumbers DEF Genuine
<1>2. \A e \in A : NotBefore(e, e)
  BY <1>1 DEF NotBefore
<1>3. \A d, e \in A : NotBefore(e, d) \/ NotBefore(d, e)
  BY <1>1 DEF NotBefore
<1>4. \A d, e \in A : NotBefore(e, d) /\ NotBefore(d, e) => d = e
  <2>1. SUFFICES ASSUME NEW d \in A, NEW e \in A, NotBefore(e, d), NotBefore(d, e)
                 PROVE  d = e
    OBVIOUS
  <2>2. d.producer = e.producer /\ d.seq = e.seq
    BY <1>1, <2>1 DEF NotBefore
  <2> QED BY <2>2 DEF Genuine
<1>5. \A c, d, e \in A : NotBefore(e, d) /\ NotBefore(d, c) => NotBefore(e, c)
  BY <1>1 DEF NotBefore
<1> QED BY <1>2, <1>3, <1>4, <1>5

\* A field is set by choices only or by measurements only.
LEMMA ChoicesAndMeasurementsApart ==
    ASSUME NEW d \in Events, NEW e \in Events, NEW f \in Sets(d) \cap Sets(e)
    PROVE  d.kind \in Directives <=> e.kind \in Directives
<1>1. ASSUME NEW x \in Events, NEW g \in Sets(x), x.kind \in Directives
      PROVE  g[1] \in {"fuel_target", "tyre_policy", "readiness"}
  BY <1>1 DEF Sets, Directives
<1>2. ASSUME NEW x \in Events, NEW g \in Sets(x), x.kind \notin Directives
      PROVE  g[1] \in {"fuel", "car_idx", "service", "tyre_readings", "driver"}
  <2>1. x.kind \in Measurements
    BY <1>2, EventNumbers
  <2> QED BY <1>2, <2>1 DEF Sets, Measurements
<1> QED BY <1>1, <1>2

\* Version::advance takes what arrives for e over what it holds of h exactly
\* when e is not before h, though either may have no number yet.
LEMMA AdvanceIsOrder ==
    ASSUME NEW A, Genuine(A), Untied(A), NEW e \in A, NEW h \in A,
           NEW x, NEW v, IsOf(x, e), IsOf(v, h),
           e.kind \in Directives <=> h.kind \in Directives
    PROVE  Advances(v, x) <=> NotBefore(e, h)
<1>1. e \in Events /\ h \in Events
  BY DEF Genuine
<1>2. /\ v # Nothing /\ v.producer = h.producer /\ v.time = h.time
      /\ v.seq = h.seq \/ (v.seq = 0 /\ h.kind \in Directives)
  BY <1>1, IsOfKeeps
<1>3. /\ x.producer = e.producer /\ x.time = e.time
      /\ x.seq = e.seq \/ (x.seq = 0 /\ e.kind \in Directives)
  BY <1>1, IsOfKeeps
<1>4. e.seq # 0 /\ h.seq # 0 /\ e.time \in Nat /\ h.time \in Nat
      /\ e.producer \in Nat /\ h.producer \in Nat /\ e.seq \in Nat /\ h.seq \in Nat
  BY <1>1, EventNumbers DEF Genuine
<1>5. CASE x.seq # 0 /\ v.seq # 0
  <2>1. x.seq = e.seq /\ v.seq = h.seq
    BY <1>2, <1>3, <1>5
  <2>2. Advances(v, x) <=> NotBefore(x, v)
    BY <1>2, <1>5 DEF Advances
  <2>3. NotBefore(x, v) <=> NotBefore(e, h)
    BY <1>2, <1>3, <2>1 DEF NotBefore
  <2> QED BY <2>2, <2>3
<1>6. CASE x.seq = 0 \/ v.seq = 0
  <2>1. e.kind \in Directives /\ h.kind \in Directives
    BY <1>2, <1>3, <1>4, <1>6
  <2>2. Advances(v, x) <=> e.time >= h.time
    BY <1>2, <1>3, <1>6 DEF Advances
  <2>3. e.time = h.time => e = h
    BY <2>1 DEF Untied
  <2>4. NotBefore(e, h) <=> e.time >= h.time
    BY <1>4, <2>3 DEF NotBefore
  <2> QED BY <2>2, <2>4
<1> QED BY <1>5, <1>6

\* One event more: the field holds the latest of what was known and of it.
LEMMA FieldFollows ==
    ASSUME NEW A, Genuine(A), Untied(A), NEW K \in SUBSET A, NEW e \in A,
           NEW f, NEW v, NEW x, IsOf(x, e),
           Holds(v, Setting(K, f))
    PROVE  Holds(IF f \in Sets(x) /\ Advances(v, x) THEN x ELSE v,
                 Setting(K \cup {e}, f))
<1> DEFINE C == Setting(K, f)
           D == Setting(K \cup {e}, f)
           w == IF f \in Sets(x) /\ Advances(v, x) THEN x ELSE v
<1>1. e \in Events /\ C \subseteq A /\ Sets(x) = Sets(e)
  <2>1. e \in Events
    BY DEF Genuine
  <2> QED BY <2>1, IsOfKeeps DEF Setting
<1>2. CASE f \notin Sets(e)
  <2>1. D = C /\ w = v
    BY <1>1, <1>2 DEF Setting
  <2> QED BY <2>1
<1>3. CASE f \in Sets(e) /\ C = {}
  <2>1. D = {e}
    BY <1>3 DEF Setting
  <2>2. v = Nothing
    BY <1>3 DEF Holds
  <2>3. w = x
    BY <1>1, <1>3, <2>2 DEF Advances
  <2>4. NotBefore(e, e)
    BY VersionsAreOrdered
  <2>5. Holds(x, {e})
    BY <2>4 DEF Holds
  <2> QED BY <2>1, <2>3, <2>5
<1>4. CASE f \in Sets(e) /\ C # {}
  <2>1. D = C \cup {e}
    BY <1>4 DEF Setting
  <2>2. PICK h \in C : IsOf(v, h) /\ \A d \in C : NotBefore(h, d)
    BY <1>4 DEF Holds
  <2>3. h \in A /\ h \in Events /\ f \in Sets(h) \cap Sets(e)
    BY <1>1, <1>4, <2>2 DEF Genuine, Setting
  <2>4. e.kind \in Directives <=> h.kind \in Directives
    BY <1>1, <2>3, ChoicesAndMeasurementsApart
  <2>5. Advances(v, x) <=> NotBefore(e, h)
    BY <2>2, <2>3, <2>4, AdvanceIsOrder
  <2>6. CASE NotBefore(e, h)
    <3>1. w = x
      BY <1>1, <1>4, <2>5, <2>6
    <3>2. \A d \in D : NotBefore(e, d)
      BY <1>1, <2>1, <2>2, <2>3, <2>6, VersionsAreOrdered
    <3>3. Holds(x, D)
      <4>1. D # {} /\ e \in D
        BY <2>1
      <4> HIDE DEF D
      <4> QED BY <3>2, <4>1 DEF Holds
    <3> QED BY <3>1, <3>3
  <2>7. CASE ~ NotBefore(e, h)
    <3>1. w = v
      BY <2>5, <2>7
    <3>2. NotBefore(h, e)
      BY <2>3, <2>7, VersionsAreOrdered
    <3>3. \A d \in D : NotBefore(h, d)
      BY <2>1, <2>2, <3>2
    <3>4. Holds(v, D)
      <4>1. D # {} /\ h \in D
        BY <2>1, <2>2
      <4> HIDE DEF D, C
      <4> QED BY <2>2, <3>3, <4>1 DEF Holds
    <3> QED BY <3>1, <3>4
  <2> QED BY <2>6, <2>7
<1> QED BY <1>2, <1>3, <1>4

(***************************************************************************)
(* The fold.                                                               *)
(***************************************************************************)

LapsOf(K) == {e \in K : e.kind = "LapClosed"}

\* What the room may hold: A, with the car on lap last.
Room(A, last) ==
    /\ Genuine(A)
    /\ Laps(LapsOf(A), last)
    /\ ~ Ties => Untied(A)

States == [field : [Fields -> Events \cup {Nothing}], laps : SUBSET Events]

\* st is what is to be shown of the events K.
Follows(st, K) ==
    /\ st \in States
    /\ st.laps = Newest(LapsOf(K), LapHistory)
    /\ ~ Ties => \A f \in Fields : Holds(st.field[f], Setting(K, f))

LEMMA LapsOfPart ==
    ASSUME NEW A, NEW last, Room(A, last), NEW K \in SUBSET A
    PROVE  Laps(LapsOf(K), last)
<1>1. LapsOf(K) \subseteq LapsOf(A) /\ Laps(LapsOf(A), last)
  BY DEF LapsOf, Room
<1> QED BY <1>1, FS_Subset DEF Laps

LEMMA EmptyFollows == Follows(Empty, {})
<1>1. Newest(LapsOf({}), LapHistory) = {}
  BY DEF Newest, LapsOf
<1>2. \A f \in Fields : Holds(Nothing, Setting({}, f))
  BY DEF Holds, Setting
<1>3. Empty \in States
  BY DEF Empty, States
<1> QED BY <1>1, <1>2, <1>3 DEF Follows, Empty

\* TeamState::apply of what arrives for e adds e to what the state is of.
LEMMA ApplyFollows ==
    ASSUME NEW A, NEW last, Room(A, last), NEW K \in SUBSET A, NEW e \in A,
           NEW x, IsOf(x, e), NEW st, Follows(st, K)
    PROVE  Follows(Apply(st, x), K \cup {e})
<1>1. e \in Events /\ x \in Events /\ x.kind = e.kind /\ Sets(x) = Sets(e)
  <2>1. e \in Events
    BY DEF Room, Genuine
  <2> QED BY <2>1, IsOfKeeps
<1>2. Apply(st, x).laps = Newest(LapsOf(K \cup {e}), LapHistory)
  <2>1. CASE e.kind # "LapClosed"
    <3>1. LapsOf(K \cup {e}) = LapsOf(K)
      BY <2>1 DEF LapsOf
    <3> QED BY <1>1, <2>1, <3>1 DEF Apply, Follows
  <2>2. CASE e.kind = "LapClosed"
    <3> DEFINE N == Newest(LapsOf(K), LapHistory)
    <3>1. x = e
      BY <2>2 DEF IsOf, Directives
    <3>2. LapsOf(K \cup {e}) = LapsOf(K) \cup {e}
      BY <2>2 DEF LapsOf
    <3>3. Laps(LapsOf(K) \cup {e}, last)
      <4>1. K \cup {e} \in SUBSET A
        OBVIOUS
      <4> QED BY <3>2, <4>1, LapsOfPart
    <3>4. N \subseteq LapsOf(K)
      BY DEF Newest
    <3>5. {l \in N : l.lap # e.lap} \cup {e} = N \cup {e}
      <4> HIDE DEF N
      <4> QED BY <3>3, <3>4 DEF Laps
    <3>6. Apply(st, x).laps = Newest({l \in N : l.lap # e.lap} \cup {e}, LapHistory)
      BY <2>2, <3>1 DEF Apply, RecordLap, Follows
    <3>7. Newest(N \cup {e}, LapHistory) = Newest(LapsOf(K) \cup {e}, LapHistory)
      <4> DEFINE R == LapsOf(K)
      <4>1. Laps(R \cup {e}, last)
        BY <3>3
      <4> HIDE DEF R
      <4>2. Newest(Newest(R, LapHistory) \cup {e}, LapHistory) = Newest(R \cup {e}, LapHistory)
        BY <4>1, NewestOfNewest
      <4> QED BY <4>2 DEF R
    <3> QED BY <3>2, <3>5, <3>6, <3>7
  <2> QED BY <2>1, <2>2
<1>3. ASSUME ~ Ties, NEW f \in Fields
      PROVE  Holds(Apply(st, x).field[f], Setting(K \cup {e}, f))
  <2>1. Apply(st, x).field[f]
          = IF f \in Sets(x) /\ Advances(st.field[f], x) THEN x ELSE st.field[f]
    BY DEF Apply
  <2>2. Genuine(A) /\ Untied(A)
    BY <1>3 DEF Room
  <2>3. Holds(st.field[f], Setting(K, f))
    BY <1>3 DEF Follows
  <2>4. Holds(IF f \in Sets(x) /\ Advances(st.field[f], x) THEN x ELSE st.field[f],
              Setting(K \cup {e}, f))
    BY <2>2, <2>3, FieldFollows
  <2> QED BY <2>1, <2>4
<1>4. Apply(st, x) \in States
  <2>1. Newest(LapsOf(K \cup {e}), LapHistory) \subseteq Events
    BY DEF Newest, LapsOf, Room, Genuine
  <2>2. Apply(st, x).laps \in SUBSET Events
    BY <1>2, <2>1
  <2>3. Apply(st, x).field \in [Fields -> Events \cup {Nothing}]
    <3>1. st.field \in [Fields -> Events \cup {Nothing}]
      BY DEF Follows, States
    <3> QED BY <1>1, <3>1 DEF Apply
  <2> QED BY <2>2, <2>3 DEF Apply, States
<1> QED BY <1>2, <1>3, <1>4 DEF Follows

\* f is the states on the way of a fold.
FoldStates(f, st, events, N) ==
    f = [i \in 0 .. N |-> IF i = 0 THEN st ELSE Apply(f[i - 1], events[i])]

\* There are such states.
LEMMA FoldDef ==
    ASSUME NEW st, NEW events, NEW N \in Nat
    PROVE  \E f : FoldStates(f, st, events, N)
<1> DEFINE Folds(n) == \E f : FoldStates(f, st, events, n)
           Bad == {n \in Nat : ~ Folds(n)}
<1>1. Folds(0)
  <2> DEFINE f == [i \in 0 .. 0 |-> st]
  <2>1. FoldStates(f, st, events, 0)
    BY DEF FoldStates
  <2> QED BY <2>1
<1>2. ASSUME NEW n \in Nat \ {0}, Folds(n - 1) PROVE Folds(n)
  <2>1. PICK f : FoldStates(f, st, events, n - 1)
    BY <1>2
  <2> DEFINE g == [i \in 0 .. n |-> IF i = n THEN Apply(f[n - 1], events[n]) ELSE f[i]]
  <2>2. \A i \in 0 .. n - 1 : f[i] = IF i = 0 THEN st ELSE Apply(f[i - 1], events[i])
    BY <2>1 DEF FoldStates
  <2>3. ASSUME NEW i \in 0 .. n
        PROVE  g[i] = IF i = 0 THEN st ELSE Apply(g[i - 1], events[i])
    <3>1. CASE i = n
      <4>1. n - 1 \in 0 .. n /\ n - 1 # n /\ i # 0
        BY <3>1
      <4>2. g[i] = Apply(f[n - 1], events[n]) /\ g[i - 1] = f[n - 1]
        BY <3>1, <4>1
      <4> QED BY <3>1, <4>1, <4>2
    <3>2. CASE i # n /\ i = 0
      <4>1. i \in 0 .. n - 1
        BY <3>2
      <4> QED BY <2>2, <3>2, <4>1
    <3>3. CASE i # n /\ i # 0
      <4>1. i \in 0 .. n - 1 /\ i - 1 \in 0 .. n /\ i - 1 # n
        BY <3>3
      <4>2. g[i] = f[i] /\ g[i - 1] = f[i - 1] /\ f[i] = Apply(f[i - 1], events[i])
        BY <2>2, <3>3, <4>1
      <4> QED BY <3>3, <4>2
    <3> QED BY <3>1, <3>2, <3>3
  <2>4. FoldStates(g, st, events, n)
    <3>1. g = [i \in 0 .. n |-> g[i]]
      OBVIOUS
    <3> HIDE DEF g
    <3> QED BY <2>3, <3>1 DEF FoldStates
  <2> QED BY <2>4
<1> HIDE DEF Folds
<1>3. Bad = {}
  <2>1. SUFFICES ASSUME Bad # {} PROVE FALSE
    OBVIOUS
  <2>2. PICK n \in Bad : \A m \in Bad : n <= m
    BY <2>1, LeastNumber
  <2>3. n \in Nat \ {0}
    BY <1>1
  <2>4. n - 1 \in Nat /\ n - 1 \notin Bad
    BY <2>2, <2>3
  <2> QED BY <1>2, <2>3, <2>4
<1>4. Folds(N)
  BY <1>3
<1> QED BY <1>4 DEF Folds

\* A fold of a queue adds what the queue is of, whatever its order and
\* whatever of it was known.
LEMMA FoldFollows ==
    ASSUME NEW A, NEW last, Room(A, last), NEW K \in SUBSET A, NEW st, Follows(st, K),
           NEW events, NEW origin, NEW N \in Nat, Len(events) = N,
           \A i \in 1 .. N : origin[i] \in A /\ IsOf(events[i], origin[i])
    PROVE  Follows(FoldAll(st, events), K \cup {origin[i] : i \in 1 .. N})
<1> DEFINE u == CHOOSE f : FoldStates(f, st, events, N)
           Of(n) == K \cup {origin[i] : i \in 1 .. n}
           Good(n) == Follows(u[n], Of(n))
           Bad == {n \in 0 .. N : ~ Good(n)}
<1>1. FoldAll(st, events) = u[N]
  BY DEF FoldAll, FoldStates
<1>2. FoldStates(u, st, events, N)
  BY FoldDef
<1> HIDE DEF u
<1>3. \A n \in 0 .. N : u[n] = IF n = 0 THEN st ELSE Apply(u[n - 1], events[n])
  BY <1>2 DEF FoldStates
<1>4. Good(0)
  <2>1. Of(0) = K /\ u[0] = st
    BY <1>3
  <2> QED BY <2>1
<1>5. ASSUME NEW n \in 1 .. N, Good(n - 1) PROVE Good(n)
  <2>1. Of(n) = Of(n - 1) \cup {origin[n]} /\ Of(n - 1) \in SUBSET A
    <3>1. 1 .. n = (1 .. n - 1) \cup {n} /\ 1 .. n - 1 \subseteq 1 .. N
      OBVIOUS
    <3> QED BY <3>1
  <2>2. u[n] = Apply(u[n - 1], events[n]) /\ origin[n] \in A /\ IsOf(events[n], origin[n])
    <3>1. n \in 0 .. N /\ n # 0
      OBVIOUS
    <3> QED BY <1>3, <3>1
  <2>3. Follows(u[n - 1], Of(n - 1))
    BY <1>5
  <2> HIDE DEF Of
  <2>4. Follows(Apply(u[n - 1], events[n]), Of(n - 1) \cup {origin[n]})
    BY <2>1, <2>2, <2>3, ApplyFollows
  <2> QED BY <2>1, <2>2, <2>4
<1> HIDE DEF Good
<1>6. Bad = {}
  <2>1. SUFFICES ASSUME Bad # {} PROVE FALSE
    OBVIOUS
  <2>2. Bad \in SUBSET Nat
    OBVIOUS
  <2>3. PICK n \in Bad : \A m \in Bad : n <= m
    <3> HIDE DEF Bad
    <3> QED BY <2>1, <2>2, LeastNumber
  <2>4. n \in 1 .. N /\ ~ Good(n)
    BY <1>4
  <2>5. n - 1 \in 0 .. N /\ n - 1 \notin Bad
    BY <2>3, <2>4
  <2>6. Good(n - 1)
    BY <2>5
  <2> QED BY <1>5, <2>4, <2>6
<1>7. Good(N)
  BY <1>6
<1> QED BY <1>1, <1>7 DEF Good

(***************************************************************************)
(* The invariant.                                                          *)
(***************************************************************************)

\* The place of an event in the log of its producer is its number.
Numbered ==
    \A p \in Overlays : \A i \in 1 .. Len(sent[p]) :
        /\ sent[p][i].producer = p
        /\ sent[p][i].seq = i
        /\ sent[p][i].n = i

\* The room holds genuine events, each lap once and none not yet closed.
SentInv ==
    /\ time \in 1 .. MaxTime /\ driver \in Overlays /\ lap \in Nat
    /\ sent \in [Overlays -> Seq(Events)]
    /\ Numbered
    /\ IsFiniteSet(AllSent)
    /\ Room(AllSent, lap)

\* What waits to be folded, or was folded, is in the room.
QueuesInv ==
    /\ handed \in [Overlays -> [Overlays -> 0 .. MaxEvents]]
    /\ own \in [Overlays -> 0 .. MaxEvents]
    /\ incoming \in [Overlays -> Seq(Events)]
    /\ self_published \in [Overlays -> Seq(Events)]
    /\ known \in [Overlays -> SUBSET Events]
    /\ \A m \in Overlays :
        /\ own[m] <= Len(sent[m])
        /\ \A p \in Overlays : handed[m][p] <= Len(sent[p])
        /\ ToSet(incoming[m]) \subseteq AllSent
        /\ ToSet(self_published[m]) \subseteq {e \in AllSent : e.kind \in Directives}
        /\ known[m] \subseteq AllSent

\* Every state is what is to be shown of the events it is of.
StateInv ==
    /\ state \in [Overlays -> States]
    /\ \A m \in Overlays : Follows(state[m], known[m])

RuntimeInv ==
    /\ SentInv
    /\ QueuesInv
    /\ StateInv
    /\ replays \in 0 .. MaxReplays /\ rebuilds \in 0 .. MaxRebuilds

LEMMA SentIsSent ==
    ASSUME NEW p \in Overlays, NEW i \in DOMAIN sent[p]
    PROVE  sent[p][i] \in AllSent
BY DEF AllSent, ToSet

LEMMA LogIsNoLonger ==
    ASSUME SentInv, NEW p \in Overlays
    PROVE  /\ Len(sent[p]) \in Nat /\ Len(sent[p]) <= Cardinality(AllSent)
           /\ Len(sent[p]) <= MaxEvents
           /\ Cardinality(AllSent) \in Nat
<1> DEFINE S == 1 .. Len(sent[p])
           f == [i \in S |-> sent[p][i]]
<1>1. sent[p] \in Seq(Events) /\ Len(sent[p]) \in Nat
  BY DEF SentInv
<1>2. \A i \in S : f[i] \in AllSent /\ sent[p][i] \in Events
  BY <1>1, SentIsSent
<1>3. f \in Injection(S, AllSent)
  <2>1. \A i, j \in S : f[i] = f[j] => i = j
    BY DEF SentInv, Numbered
  <2>2. f \in [S -> AllSent]
    BY <1>2
  <2> HIDE DEF f, S
  <2> QED BY <2>1, <2>2 DEF Injection, IsInjective
<1>4. IsFiniteSet(AllSent)
  BY DEF SentInv
<1>5. Cardinality(S) <= Cardinality(AllSent) /\ Cardinality(AllSent) \in Nat
  BY <1>3, <1>4, FS_Injection, FS_CardinalityType
<1>6. Cardinality(S) = Len(sent[p])
  BY <1>1, FS_Interval
<1>7. Len(sent[p]) <= MaxEvents
  <2>1. CASE Len(sent[p]) = 0
    BY <2>1, RuntimeAssumption
  <2>2. CASE Len(sent[p]) # 0
    <3>1. Len(sent[p]) \in S
      BY <1>1, <2>2
    <3>2. sent[p][Len(sent[p])] \in Events /\ sent[p][Len(sent[p])].n = Len(sent[p])
      BY <1>2, <3>1 DEF SentInv, Numbered
    <3>3. sent[p][Len(sent[p])].n \in 1 .. MaxEvents
      BY <3>2 DEF Events
    <3> QED BY <1>1, <3>2, <3>3, RuntimeAssumption
  <2> QED BY <2>1, <2>2
<1> QED BY <1>1, <1>5, <1>6, <1>7

LEMMA InitRuntime == Init => RuntimeInv
<1> SUFFICES ASSUME Init PROVE RuntimeInv
  OBVIOUS
<1> USE DEF Init
<1>1. sent = [m \in Overlays |-> <<>>] /\ AllSent = {}
  BY DEF AllSent, ToSet
<1>2. Room(AllSent, lap) /\ IsFiniteSet(AllSent)
  <2>1. lap \in Nat /\ AllSent = {} /\ LapsOf({}) = {}
    BY <1>1 DEF LapsOf
  <2>2. IsFiniteSet({})
    BY FS_EmptySet
  <2>3. Room({}, lap)
    BY <2>1, <2>2 DEF Room, Genuine, Laps, Untied
  <2> QED BY <2>1, <2>2, <2>3
<1>3. SentInv
  <2>1. time \in 1 .. MaxTime /\ driver \in Overlays /\ lap \in Nat
    BY RuntimeAssumption
  <2>2. sent \in [Overlays -> Seq(Events)] /\ Numbered
    BY <1>1 DEF Numbered
  <2> QED BY <1>2, <2>1, <2>2 DEF SentInv
<1>4. QueuesInv
  <2>1. 0 \in 0 .. MaxEvents
    BY RuntimeAssumption
  <2>2. ToSet(<<>>) = {}
    BY DEF ToSet
  <2>3. Len(<<>>) = 0
    OBVIOUS
  <2> QED BY <1>1, <2>1, <2>2, <2>3 DEF QueuesInv
<1>5. StateInv
  <2>1. Empty \in States
    BY EmptyFollows DEF Follows
  <2> QED BY <2>1, EmptyFollows DEF StateInv
<1>6. replays \in 0 .. MaxReplays /\ rebuilds \in 0 .. MaxRebuilds
  BY RuntimeAssumption
<1> QED BY <1>3, <1>4, <1>5, <1>6 DEF RuntimeInv

\* What is published has the next number of its producer, and the room has
\* what it had and that.
LEMMA PublishKeepsSent ==
    ASSUME SentInv, NEW m \in Overlays, NEW kind \in Directives \cup Measurements,
           RoomForOne,
           Ties \/ (kind \in Directives =>
                        \A e \in AllSent : e.kind \in Directives => e.time # time),
           time' = time, driver' = driver,
           lap' = IF kind = "LapClosed" THEN lap + 1 ELSE lap,
           sent' = [sent EXCEPT ![m] = Append(@, Event(m, kind))]
    PROVE  /\ SentInv'
           /\ AllSent' = AllSent \cup {Event(m, kind)}
           /\ \A p \in Overlays : Len(sent'[p]) \in Nat /\ Len(sent[p]) <= Len(sent'[p])
<1> DEFINE new == Event(m, kind)
           N == Len(sent[m])
<1>1. N \in Nat /\ N + 1 <= MaxEvents /\ MaxEvents \in Nat /\ lap \in Nat /\ time \in 1 .. MaxTime
  BY LogIsNoLonger, RuntimeAssumption DEF RoomForOne, SentInv
<1>2. /\ new.producer = m /\ new.seq = N + 1 /\ new.n = N + 1 /\ new.kind = kind
      /\ new.time = time /\ new.lap = (IF kind = "LapClosed" THEN lap ELSE 0)
      /\ new \in Events
  <2>1. N + 1 \in 1 .. MaxEvents /\ N + 1 \in 0 .. MaxEvents
    BY <1>1
  <2> HIDE DEF N
  <2> QED BY <1>1, <2>1 DEF Event, Events, N
<1> HIDE DEF new
<1>3. sent \in [Overlays -> Seq(Events)] /\ Numbered
      /\ IsFiniteSet(AllSent) /\ Room(AllSent, lap)
  BY DEF SentInv
<1>4. sent'[m] = Append(sent[m], new) /\ \A p \in Overlays \ {m} : sent'[p] = sent[p]
  BY <1>3 DEF new
<1>5. sent' \in [Overlays -> Seq(Events)]
  BY <1>2, <1>3 DEF new
<1>6. /\ Len(sent'[m]) = N + 1 /\ sent'[m][N + 1] = new
      /\ \A i \in 1 .. N : sent'[m][i] = sent[m][i]
  BY <1>1, <1>2, <1>3, <1>4
<1>7. Numbered'
  <2>1. SUFFICES ASSUME NEW p \in Overlays, NEW i \in 1 .. Len(sent'[p])
                 PROVE  /\ sent'[p][i].producer = p /\ sent'[p][i].seq = i
                        /\ sent'[p][i].n = i
    BY DEF Numbered
  <2>2. CASE p # m
    BY <1>3, <1>4, <2>2 DEF Numbered
  <2>3. CASE p = m /\ i = N + 1
    BY <1>2, <1>6, <2>3
  <2>4. CASE p = m /\ i # N + 1
    <3>1. i \in 1 .. N
      BY <1>1, <1>6, <2>4
    <3> QED BY <1>3, <1>6, <2>4, <3>1 DEF Numbered
  <2> QED BY <2>2, <2>3, <2>4
<1>8. ToSet(sent'[m]) = ToSet(sent[m]) \cup {new}
  <2>1. DOMAIN sent'[m] = 1 .. N + 1 /\ DOMAIN sent[m] = 1 .. N
    BY <1>3, <1>5, <1>6
  <2>2. 1 .. N + 1 = (1 .. N) \cup {N + 1}
    BY <1>1
  <2> HIDE DEF N
  <2> QED BY <1>6, <2>1, <2>2 DEF ToSet
<1>9. AllSent' = AllSent \cup {new}
  <2>1. AllSent' = UNION {ToSet(sent'[p]) : p \in Overlays}
    BY DEF AllSent, ToSet
  <2>2. \A p \in Overlays : ToSet(sent'[p]) = ToSet(sent[p]) \cup (IF p = m THEN {new} ELSE {})
    BY <1>4, <1>8
  <2>3. ASSUME NEW e PROVE e \in AllSent' <=> e \in AllSent \/ e = new
    BY <2>1, <2>2 DEF AllSent
  <2> QED BY <2>3
<1>10. IsFiniteSet(AllSent \cup {new})
  BY <1>3, FS_AddElement
<1>11. Genuine(AllSent \cup {new})
  <2>1. AllSent \cup {new} \subseteq Events
    BY <1>2, <1>3 DEF Room, Genuine
  <2>2. \A e \in AllSent \cup {new} : e.seq # 0
    BY <1>1, <1>2, <1>3 DEF Room, Genuine
  <2>3. ASSUME NEW d \in AllSent PROVE ~ (d.producer = m /\ d.seq = N + 1)
    <3>4. PICK p \in Overlays : d \in ToSet(sent[p])
      BY DEF AllSent
    <3>1. PICK i \in DOMAIN sent[p] : d = sent[p][i]
      BY <3>4 DEF ToSet
    <3>2. i \in 1 .. Len(sent[p]) /\ Len(sent[p]) \in Nat
      BY <1>3, <3>1
    <3>3. d.producer = p /\ d.seq = i
      BY <1>3, <3>1, <3>2 DEF Numbered
    <3> QED BY <1>1, <3>2, <3>3
  <2>4. \A d, e \in AllSent \cup {new} : d.producer = e.producer /\ d.seq = e.seq => d = e
    BY <1>2, <1>3, <2>3 DEF Room, Genuine
  <2> QED BY <2>1, <2>2, <2>4 DEF Genuine
<1>12. Laps(LapsOf(AllSent \cup {new}), lap')
  <2>1. Laps(LapsOf(AllSent), lap)
    BY <1>3 DEF Room
  <2>2. CASE kind # "LapClosed"
    <3>1. LapsOf(AllSent \cup {new}) = LapsOf(AllSent)
      BY <1>2, <2>2 DEF LapsOf
    <3> QED BY <2>1, <2>2, <3>1
  <2>3. CASE kind = "LapClosed"
    <3> DEFINE L == LapsOf(AllSent)
    <3>1. LapsOf(AllSent \cup {new}) = L \cup {new}
      BY <1>2, <2>3 DEF LapsOf
    <3>2. lap' = lap + 1 /\ new.lap = lap
      BY <1>2, <2>3
    <3> HIDE DEF L
    <3>3. Laps(L, lap)
      BY <2>1 DEF L
    <3>4. IsFiniteSet(L \cup {new})
      BY <3>3, FS_AddElement DEF Laps
    <3>5. \A l \in L \cup {new} : l.lap \in Nat /\ l.lap < lap + 1
      BY <1>1, <3>2, <3>3 DEF Laps
    <3>6. \A k, l \in L \cup {new} : k.lap = l.lap => k = l
      BY <1>1, <3>2, <3>3 DEF Laps
    <3>7. Laps(L \cup {new}, lap + 1)
      BY <1>1, <3>4, <3>5, <3>6 DEF Laps
    <3> QED BY <3>1, <3>2, <3>7
  <2> QED BY <2>2, <2>3
<1>13. ~ Ties => Untied(AllSent \cup {new})
  BY <1>2, <1>3 DEF Room, Untied
<1>14. Room(AllSent', lap')
  BY <1>9, <1>11, <1>12, <1>13 DEF Room
<1>15. SentInv'
  <2>1. time' \in 1 .. MaxTime /\ driver' \in Overlays /\ lap' \in Nat
    BY <1>1 DEF SentInv
  <2>2. IsFiniteSet(AllSent')
    BY <1>9, <1>10
  <2> QED BY <1>5, <1>7, <1>14, <2>1, <2>2 DEF SentInv
<1>16. \A p \in Overlays : Len(sent'[p]) \in Nat /\ Len(sent[p]) <= Len(sent'[p])
  <2>1. \A p \in Overlays : Len(sent[p]) \in Nat
    BY <1>3
  <2> QED BY <1>1, <1>4, <1>6, <2>1
<1> QED BY <1>9, <1>15, <1>16 DEF new

\* A queue is of the events that are in it.
LEMMA QueueOf ==
    ASSUME NEW s \in Seq(Events)
    PROVE  /\ DOMAIN s = 1 .. Len(s) /\ Len(s) \in Nat
           /\ ToSet(s) = {s[i] : i \in 1 .. Len(s)}
           /\ \A e \in Events : /\ Append(s, e) \in Seq(Events)
                               /\ ToSet(Append(s, e)) = ToSet(s) \cup {e}
<1> DEFINE N == Len(s)
<1>1. DOMAIN s = 1 .. N /\ N \in Nat
  OBVIOUS
<1>2. ToSet(s) = {s[i] : i \in 1 .. N}
  BY <1>1 DEF ToSet
<1>3. ASSUME NEW e \in Events
      PROVE  ToSet(Append(s, e)) = ToSet(s) \cup {e} /\ Append(s, e) \in Seq(Events)
  <2> DEFINE t == Append(s, e)
  <2>1. t \in Seq(Events) /\ Len(t) = N + 1 /\ t[N + 1] = e /\ \A i \in 1 .. N : t[i] = s[i]
    OBVIOUS
  <2>2. DOMAIN t = 1 .. N + 1
    BY <2>1
  <2>3. 1 .. N + 1 = (1 .. N) \cup {N + 1}
    BY <1>1
  <2> HIDE DEF t, N
  <2>4. ToSet(t) = ToSet(s) \cup {e}
    BY <1>1, <2>1, <2>2, <2>3 DEF ToSet
  <2> QED BY <2>1, <2>4 DEF t
<1> QED BY <1>1, <1>2, <1>3

\* The state is not touched by what does not fold.
LEMMA UntouchedState ==
    ASSUME StateInv, UNCHANGED <<state, known>>
    PROVE  StateInv'
BY DEF StateInv

\* Queues are still of the room when it has more.
LEMMA RoomGrows ==
    ASSUME SentInv, QueuesInv,
           AllSent \subseteq AllSent',
           \A p \in Overlays : Len(sent'[p]) \in Nat /\ Len(sent[p]) <= Len(sent'[p]),
           UNCHANGED <<handed, own, incoming, known>>,
           self_published' \in [Overlays -> Seq(Events)],
           \A m \in Overlays :
               ToSet(self_published'[m]) \subseteq {e \in AllSent' : e.kind \in Directives}
    PROVE  QueuesInv'
<1>1. \A m \in Overlays : own'[m] <= Len(sent'[m])
  <2>1. \A m \in Overlays : own[m] \in Nat /\ Len(sent[m]) \in Nat /\ own[m] <= Len(sent[m])
    BY RuntimeAssumption, LogIsNoLonger DEF QueuesInv
  <2> QED BY <2>1
<1>2. \A m, p \in Overlays : handed'[m][p] <= Len(sent'[p])
  <2>1. \A m, p \in Overlays :
            handed[m][p] \in Nat /\ Len(sent[p]) \in Nat /\ handed[m][p] <= Len(sent[p])
    BY RuntimeAssumption, LogIsNoLonger DEF QueuesInv
  <2> QED BY <2>1
<1>3. \A m \in Overlays : ToSet(incoming'[m]) \subseteq AllSent' /\ known'[m] \subseteq AllSent'
  BY DEF QueuesInv
<1> QED BY <1>1, <1>2, <1>3 DEF QueuesInv

LEMMA ChooseStep ==
    ASSUME RuntimeInv, NEW m \in Overlays, NEW kind \in Directives \cap Occurring,
           Choose(m, kind)
    PROVE  RuntimeInv'
<1> USE DEF RuntimeInv
<1>1. kind \in Directives /\ kind # "LapClosed" /\ kind \in Directives \cup Measurements
  BY DEF Directives
<1>2. /\ RoomForOne /\ time' = time /\ driver' = driver
      /\ lap' = IF kind = "LapClosed" THEN lap + 1 ELSE lap
      /\ sent' = [sent EXCEPT ![m] = Append(@, Event(m, kind))]
  BY <1>1 DEF Choose
<1>3. Ties \/ (kind \in Directives =>
                  \A e \in AllSent : e.kind \in Directives => e.time # time)
  BY DEF Choose
<1>4. /\ SentInv'
      /\ AllSent' = AllSent \cup {Event(m, kind)}
      /\ \A p \in Overlays : Len(sent'[p]) \in Nat /\ Len(sent[p]) <= Len(sent'[p])
  BY <1>1, <1>2, <1>3, PublishKeepsSent
<1>5. Event(m, kind) \in Events /\ Event(m, kind).kind = kind
  BY <1>4 DEF SentInv, Room, Genuine, Event
<1>6. self_published' \in [Overlays -> Seq(Events)]
  BY <1>5 DEF Choose, QueuesInv
<1>7. ASSUME NEW q \in Overlays
      PROVE  ToSet(self_published'[q]) \subseteq {e \in AllSent' : e.kind \in Directives}
  <2>1. self_published[q] \in Seq(Events)
        /\ ToSet(self_published[q]) \subseteq {e \in AllSent : e.kind \in Directives}
    BY DEF QueuesInv
  <2>2. CASE q # m
    <3>1. self_published'[q] = self_published[q]
      BY <2>2 DEF Choose, QueuesInv
    <3> QED BY <1>4, <2>1, <3>1
  <2>3. CASE q = m
    <3>1. self_published'[q] = Append(self_published[q], Event(m, kind))
      BY <2>3 DEF Choose, QueuesInv
    <3>2. ToSet(self_published'[q]) = ToSet(self_published[q]) \cup {Event(m, kind)}
      BY <1>5, <2>1, <3>1, QueueOf
    <3> QED BY <1>1, <1>4, <1>5, <2>1, <3>2
  <2> QED BY <2>2, <2>3
<1>8. UNCHANGED <<handed, own, incoming, known, state, replays, rebuilds>>
  BY DEF Choose
<1>9. QueuesInv'
  BY <1>4, <1>6, <1>7, <1>8, RoomGrows
<1> QED BY <1>4, <1>8, <1>9, UntouchedState

LEMMA MeasureStep ==
    ASSUME RuntimeInv, NEW m \in Overlays, NEW kind \in Measurements \cap Occurring,
           Measure(m, kind)
    PROVE  RuntimeInv'
<1> USE DEF RuntimeInv
<1>1. kind \notin Directives /\ kind \in Directives \cup Measurements
  BY DEF Directives, Measurements
<1>2. /\ RoomForOne /\ time' = time /\ driver' = driver
      /\ lap' = IF kind = "LapClosed" THEN lap + 1 ELSE lap
      /\ sent' = [sent EXCEPT ![m] = Append(@, Event(m, kind))]
  BY DEF Measure
<1>3. /\ SentInv'
      /\ AllSent' = AllSent \cup {Event(m, kind)}
      /\ \A p \in Overlays : Len(sent'[p]) \in Nat /\ Len(sent[p]) <= Len(sent'[p])
  BY <1>1, <1>2, PublishKeepsSent
<1>4. UNCHANGED <<handed, own, incoming, self_published, known, state, replays, rebuilds>>
  BY DEF Measure, overlayVars
<1>5. QueuesInv'
  <2>1. \A q \in Overlays :
            ToSet(self_published'[q]) \subseteq {e \in AllSent' : e.kind \in Directives}
    BY <1>3, <1>4 DEF QueuesInv
  <2>2. self_published' \in [Overlays -> Seq(Events)]
    BY <1>4 DEF QueuesInv
  <2> QED BY <1>3, <1>4, <2>1, <2>2, RoomGrows
<1> QED BY <1>3, <1>4, <1>5, UntouchedState

\* The clock and the change of drivers.
LEMMA WorldStep ==
    ASSUME RuntimeInv, Tick \/ Swap
    PROVE  RuntimeInv'
<1> USE DEF RuntimeInv
<1>1. UNCHANGED <<lap, sent, overlayVars, replays, rebuilds>>
  BY DEF Tick, Swap
<1>2. time' \in 1 .. MaxTime /\ driver' \in Overlays
  <2>1. time \in 1 .. MaxTime /\ driver \in Overlays /\ MaxTime \in Nat
    BY RuntimeAssumption DEF SentInv
  <2> QED BY <2>1 DEF Tick, Swap
<1>3. AllSent' = AllSent
  BY <1>1 DEF AllSent, ToSet
<1>4. SentInv'
  BY <1>1, <1>2, <1>3 DEF SentInv, Numbered
<1>5. QueuesInv'
  BY <1>1, <1>3 DEF QueuesInv, overlayVars
<1>6. StateInv'
  BY <1>1, UntouchedState DEF overlayVars
<1> QED BY <1>1, <1>4, <1>5, <1>6

\* What is handed up is in the room.
LEMMA HandedUp ==
    ASSUME SentInv, QueuesInv, StateInv, NEW m \in Overlays, NEW e \in AllSent,
           UNCHANGED <<roomVars, own, self_published, state, known>>,
           incoming' = [incoming EXCEPT ![m] = Append(@, e)],
           handed' \in [Overlays -> [Overlays -> 0 .. MaxEvents]],
           \A n, p \in Overlays : handed'[n][p] <= Len(sent[p])
    PROVE  SentInv' /\ QueuesInv' /\ StateInv'
<1>1. AllSent' = AllSent /\ UNCHANGED <<time, driver, lap, sent>>
  BY DEF AllSent, ToSet, roomVars
<1>2. SentInv'
  BY <1>1 DEF SentInv, Numbered
<1>3. e \in Events
  BY DEF SentInv, Room, Genuine
<1>4. \A n \in Overlays : incoming[n] \in Seq(Events) /\ ToSet(incoming[n]) \subseteq AllSent
  BY DEF QueuesInv
<1>5. incoming' \in [Overlays -> Seq(Events)]
  BY <1>3 DEF QueuesInv
<1>6. ASSUME NEW n \in Overlays PROVE ToSet(incoming'[n]) \subseteq AllSent
  <2>1. CASE n # m
    BY <1>4, <2>1 DEF QueuesInv
  <2>2. CASE n = m
    <3>1. incoming'[n] = Append(incoming[n], e)
      BY <2>2 DEF QueuesInv
    <3>2. ToSet(incoming'[n]) = ToSet(incoming[n]) \cup {e}
      BY <1>3, <1>4, <3>1, QueueOf
    <3> QED BY <1>4, <3>2
  <2> QED BY <2>1, <2>2
<1>7. QueuesInv'
  BY <1>1, <1>5, <1>6 DEF QueuesInv
<1>8. StateInv'
  BY UntouchedState
<1> QED BY <1>2, <1>7, <1>8

LEMMA HandUpStep ==
    ASSUME RuntimeInv, NEW m \in Overlays, NEW p \in Overlays, HandUp(m, p)
    PROVE  RuntimeInv'
<1> USE DEF RuntimeInv
<1> DEFINE N == handed[m][p]
<1>1. /\ N \in Nat /\ Len(sent[p]) \in Nat /\ own[m] <= Len(sent[m]) /\ own[m] \in Nat
      /\ Len(sent[p]) <= MaxEvents /\ MaxEvents \in Nat
  BY LogIsNoLonger, RuntimeAssumption DEF QueuesInv
<1>2. N + 1 <= Len(sent[p])
  BY <1>1 DEF HandUp
<1>3. sent[p][N + 1] \in AllSent
  <2>1. N + 1 \in DOMAIN sent[p]
    BY <1>1, <1>2 DEF SentInv
  <2> QED BY <2>1, SentIsSent
<1>4. handed' = [handed EXCEPT ![m][p] = N + 1]
  BY DEF HandUp
<1>5. handed' \in [Overlays -> [Overlays -> 0 .. MaxEvents]]
  <2>1. N + 1 \in 0 .. MaxEvents
    BY <1>1, <1>2
  <2> HIDE DEF N
  <2> QED BY <1>4, <2>1 DEF QueuesInv
<1>6. ASSUME NEW n \in Overlays, NEW q \in Overlays PROVE handed'[n][q] <= Len(sent[q])
  <2>1. handed'[n][q] = IF n = m /\ q = p THEN N + 1 ELSE handed[n][q]
    BY <1>4 DEF QueuesInv
  <2> QED BY <1>2, <2>1 DEF QueuesInv
<1>7. /\ UNCHANGED <<roomVars, own, self_published, state, known, replays, rebuilds>>
      /\ incoming' = [incoming EXCEPT ![m] = Append(@, sent[p][N + 1])]
  BY DEF HandUp
<1> HIDE DEF N
<1>8. SentInv' /\ QueuesInv' /\ StateInv'
  BY <1>3, <1>5, <1>6, <1>7, HandedUp
<1> QED BY <1>7, <1>8

LEMMA HandUpAgainStep ==
    ASSUME RuntimeInv, NEW m \in Overlays, HandUpAgain(m)
    PROVE  RuntimeInv'
<1> USE DEF RuntimeInv
<1>1. PICK p \in Overlays : \E i \in DOMAIN sent[p] :
        incoming' = [incoming EXCEPT ![m] = Append(@, sent[p][i])]
  BY DEF HandUpAgain
<1>2. PICK i \in DOMAIN sent[p] :
        incoming' = [incoming EXCEPT ![m] = Append(@, sent[p][i])]
  BY <1>1
<1>3. sent[p][i] \in AllSent
  BY SentIsSent
<1>4. /\ UNCHANGED <<roomVars, handed, own, self_published, state, known, rebuilds>>
      /\ replays < MaxReplays /\ replays' = replays + 1
  BY DEF HandUpAgain
<1>5. /\ handed' \in [Overlays -> [Overlays -> 0 .. MaxEvents]]
      /\ \A n, q \in Overlays : handed'[n][q] <= Len(sent[q])
  BY <1>4 DEF QueuesInv
<1>6. SentInv' /\ QueuesInv' /\ StateInv'
  BY <1>2, <1>3, <1>4, <1>5, HandedUp
<1>7. replays' \in 0 .. MaxReplays
  BY <1>4, RuntimeAssumption
<1> QED BY <1>4, <1>6, <1>7

LEMMA RebuildStep ==
    ASSUME RuntimeInv, NEW m \in Overlays, Rebuild(m)
    PROVE  RuntimeInv'
<1> USE DEF RuntimeInv
<1>1. UNCHANGED <<time, driver, lap, sent, replays>> /\ AllSent' = AllSent
  BY DEF Rebuild, roomVars, AllSent, ToSet
<1>2. SentInv'
  BY <1>1 DEF SentInv, Numbered
<1>3. \A p \in Overlays : Len(sent[p]) \in 0 .. MaxEvents
  BY LogIsNoLonger, RuntimeAssumption
<1>4. ToSet(<<>>) = {} /\ <<>> \in Seq(Events)
  BY DEF ToSet
<1>5. /\ handed' = [handed EXCEPT ![m] = [p \in Overlays |-> 0]]
      /\ own' = [own EXCEPT ![m] = Len(sent[m])]
      /\ incoming' = [incoming EXCEPT ![m] = <<>>]
      /\ self_published' = [self_published EXCEPT ![m] = <<>>]
      /\ known' = [known EXCEPT ![m] = {}]
      /\ state' = [state EXCEPT ![m] = Empty]
  BY DEF Rebuild
<1>6. QueuesInv'
  <2>1. handed' \in [Overlays -> [Overlays -> 0 .. MaxEvents]]
        /\ own' \in [Overlays -> 0 .. MaxEvents]
    <3>1. 0 \in 0 .. MaxEvents
      BY RuntimeAssumption
    <3>2. [p \in Overlays |-> 0] \in [Overlays -> 0 .. MaxEvents]
      BY <3>1
    <3>3. handed' \in [Overlays -> [Overlays -> 0 .. MaxEvents]]
      BY <1>5, <3>2 DEF QueuesInv
    <3>4. own' \in [Overlays -> 0 .. MaxEvents]
      BY <1>3, <1>5 DEF QueuesInv
    <3> QED BY <3>3, <3>4
  <2>2. /\ incoming' \in [Overlays -> Seq(Events)]
        /\ self_published' \in [Overlays -> Seq(Events)]
        /\ known' \in [Overlays -> SUBSET Events]
    BY <1>4, <1>5 DEF QueuesInv
  <2>3. ASSUME NEW n \in Overlays
        PROVE  own'[n] <= Len(sent[n]) /\ \A p \in Overlays : handed'[n][p] <= Len(sent[p])
    <3>1. /\ own'[n] = IF n = m THEN Len(sent[n]) ELSE own[n]
          /\ \A p \in Overlays : handed'[n][p] = IF n = m THEN 0 ELSE handed[n][p]
      BY <1>5 DEF QueuesInv
    <3>2. \A p \in Overlays : Len(sent[p]) \in Nat
      BY <1>3, RuntimeAssumption
    <3>3. own[n] <= Len(sent[n]) /\ \A p \in Overlays : handed[n][p] <= Len(sent[p])
      BY DEF QueuesInv
    <3> QED BY <3>1, <3>2, <3>3
  <2>4. \A n \in Overlays :
            /\ ToSet(incoming'[n]) \subseteq AllSent
            /\ ToSet(self_published'[n]) \subseteq {e \in AllSent : e.kind \in Directives}
            /\ known'[n] \subseteq AllSent
    BY <1>4, <1>5 DEF QueuesInv
  <2> QED BY <1>1, <2>1, <2>2, <2>3, <2>4 DEF QueuesInv
<1>7. StateInv'
  <2>1. Empty \in States
    BY EmptyFollows DEF Follows
  <2>2. state' \in [Overlays -> States]
    BY <1>5, <2>1 DEF StateInv
  <2>3. \A n \in Overlays : Follows(state'[n], known'[n])
    BY <1>5, EmptyFollows DEF StateInv, QueuesInv
  <2> QED BY <2>2, <2>3 DEF StateInv
<1>8. rebuilds' \in 0 .. MaxRebuilds
  BY RuntimeAssumption DEF Rebuild
<1> QED BY <1>1, <1>2, <1>6, <1>7, <1>8

\* Update folds what came from the room, then the overlay's own choices,
\* which have no number yet.
LEMMA UpdateStep ==
    ASSUME RuntimeInv, NEW m \in Overlays, Update(m)
    PROVE  RuntimeInv'
<1> USE DEF RuntimeInv
<1> DEFINE in == incoming[m]
           mine == self_published[m]
           folded == [i \in DOMAIN mine |-> Unnumbered(mine[i])]
           first == FoldAll(state[m], in)
           K == known[m] \cup ToSet(in)
<1>1. /\ UNCHANGED <<time, driver, lap, sent, handed, own, replays, rebuilds>>
      /\ AllSent' = AllSent
  BY DEF Update, roomVars, AllSent, ToSet
<1>2. SentInv'
  BY <1>1 DEF SentInv, Numbered
<1>3. /\ in \in Seq(Events) /\ mine \in Seq(Events)
      /\ ToSet(in) \subseteq AllSent
      /\ ToSet(mine) \subseteq {e \in AllSent : e.kind \in Directives}
      /\ known[m] \subseteq AllSent /\ Follows(state[m], known[m])
      /\ Room(AllSent, lap)
  BY DEF SentInv, QueuesInv, StateInv
<1>4. Follows(first, K)
  <2> HIDE DEF in
  <2>1. /\ Len(in) \in Nat
        /\ ToSet(in) = {in[i] : i \in 1 .. Len(in)}
    BY <1>3, QueueOf
  <2>2. \A i \in 1 .. Len(in) : in[i] \in AllSent /\ IsOf(in[i], in[i])
    BY <1>3, <2>1 DEF IsOf
  <2>3. known[m] \in SUBSET AllSent
    BY <1>3
  <2>4. Follows(first, known[m] \cup {in[i] : i \in 1 .. Len(in)})
    BY <1>3, <2>1, <2>2, <2>3, FoldFollows
  <2> QED BY <2>1, <2>4
<1>5. Follows(FoldAll(first, folded), K \cup ToSet(mine))
  <2> HIDE DEF in, mine, first, K
  <2>1. /\ Len(mine) \in Nat /\ DOMAIN mine = 1 .. Len(mine)
        /\ ToSet(mine) = {mine[i] : i \in 1 .. Len(mine)}
    BY <1>3, QueueOf
  <2>2. \A i \in 1 .. Len(mine) : mine[i] \in Events
    BY <1>3, <2>1
  <2>3. Len(folded) = Len(mine)
    <3>1. folded = [i \in 1 .. Len(mine) |-> Unnumbered(mine[i])]
      BY <2>1
    <3>2. folded \in Seq(Events)
      BY <2>1, <2>2, <3>1, UnnumberedIs
    <3>3. DOMAIN folded = 1 .. Len(mine)
      BY <3>1
    <3> HIDE DEF folded
    <3> QED BY <2>1, <3>2, <3>3
  <2>4. \A i \in 1 .. Len(mine) : mine[i] \in AllSent /\ IsOf(folded[i], mine[i])
    BY <1>3, <2>1 DEF IsOf
  <2>5. K \in SUBSET AllSent
    BY <1>3 DEF K
  <2> HIDE DEF folded
  <2> QED BY <1>3, <1>4, <2>1, <2>3, <2>4, <2>5, FoldFollows
<1>6. /\ state' = [state EXCEPT ![m] = FoldAll(first, folded)]
      /\ known' = [known EXCEPT ![m] = K \cup ToSet(mine)]
      /\ incoming' = [incoming EXCEPT ![m] = <<>>]
      /\ self_published' = [self_published EXCEPT ![m] = <<>>]
  BY DEF Update, QueuesInv, StateInv
<1>7. K \cup ToSet(mine) \subseteq AllSent /\ AllSent \subseteq Events
  BY <1>3 DEF Room, Genuine
<1> HIDE DEF in, mine, folded, first, K
<1>8. QueuesInv'
  <2>1. ToSet(<<>>) = {} /\ <<>> \in Seq(Events)
    BY DEF ToSet
  <2>2. /\ incoming' \in [Overlays -> Seq(Events)]
        /\ self_published' \in [Overlays -> Seq(Events)]
        /\ known' \in [Overlays -> SUBSET Events]
    BY <1>6, <1>7, <2>1 DEF QueuesInv
  <2>3. \A n \in Overlays :
            /\ ToSet(incoming'[n]) \subseteq AllSent
            /\ ToSet(self_published'[n]) \subseteq {e \in AllSent : e.kind \in Directives}
            /\ known'[n] \subseteq AllSent
    BY <1>6, <1>7, <2>1 DEF QueuesInv
  <2> QED BY <1>1, <2>2, <2>3 DEF QueuesInv
<1>9. StateInv'
  <2>1. FoldAll(first, folded) \in States
    BY <1>5 DEF Follows
  <2>2. state' \in [Overlays -> States]
    BY <1>6, <2>1 DEF StateInv
  <2>3. \A n \in Overlays : Follows(state'[n], known'[n])
    BY <1>5, <1>6 DEF StateInv, QueuesInv
  <2> QED BY <2>2, <2>3 DEF StateInv
<1> QED BY <1>1, <1>2, <1>8, <1>9

THEOREM RuntimeInvariant == Spec => []RuntimeInv
<1>1. Init => RuntimeInv
  BY InitRuntime
<1>2. RuntimeInv /\ [Next]_vars => RuntimeInv'
  <2>1. SUFFICES ASSUME RuntimeInv, [Next]_vars PROVE RuntimeInv'
    OBVIOUS
  <2>2. ASSUME NEW m \in Overlays, NEW kind \in Directives \cap Occurring, Choose(m, kind)
        PROVE  RuntimeInv'
    BY <2>1, <2>2, ChooseStep
  <2>3. ASSUME NEW m \in Overlays, NEW kind \in Measurements \cap Occurring, Measure(m, kind)
        PROVE  RuntimeInv'
    BY <2>1, <2>3, MeasureStep
  <2>4. ASSUME NEW m \in Overlays, NEW p \in Overlays, HandUp(m, p) PROVE RuntimeInv'
    BY <2>1, <2>4, HandUpStep
  <2>5. ASSUME NEW m \in Overlays, HandUpAgain(m) PROVE RuntimeInv'
    BY <2>1, <2>5, HandUpAgainStep
  <2>6. ASSUME NEW m \in Overlays, Update(m) PROVE RuntimeInv'
    BY <2>1, <2>6, UpdateStep
  <2>7. ASSUME NEW m \in Overlays, Rebuild(m) PROVE RuntimeInv'
    BY <2>1, <2>7, RebuildStep
  <2>8. CASE Tick \/ Swap
    BY <2>1, <2>8, WorldStep
  <2>9. CASE UNCHANGED vars
    <3>1. AllSent' = AllSent
      BY <2>9 DEF vars, roomVars, AllSent, ToSet
    <3>2. SentInv'
      BY <2>1, <2>9, <3>1 DEF RuntimeInv, SentInv, Numbered, vars, roomVars
    <3>3. QueuesInv'
      BY <2>1, <2>9, <3>1 DEF RuntimeInv, QueuesInv, vars, roomVars, overlayVars
    <3>4. StateInv'
      BY <2>1, <2>9, UntouchedState DEF RuntimeInv, vars, overlayVars
    <3> QED BY <2>1, <2>9, <3>2, <3>3, <3>4 DEF RuntimeInv, vars
  <2> QED BY <2>1, <2>2, <2>3, <2>4, <2>5, <2>6, <2>7, <2>8, <2>9 DEF Next
<1> QED BY <1>1, <1>2, PTL DEF Spec

\* The types of the overlays' side, and that no history of laps outgrows
\* LAP_HISTORY (TeamState::record_lap).
THEOREM RuntimeTypeCorrect == Spec => []TypeOK
<1>1. RuntimeInv => TypeOK
  <2> SUFFICES ASSUME RuntimeInv PROVE TypeOK
    OBVIOUS
  <2>1. ASSUME NEW m \in Overlays PROVE Cardinality(state[m].laps) <= LapHistory
    <3>1. Laps(LapsOf(known[m]), lap)
      BY LapsOfPart DEF RuntimeInv, SentInv, QueuesInv
    <3>2. state[m].laps = Newest(LapsOf(known[m]), LapHistory)
      BY DEF RuntimeInv, StateInv, Follows
    <3> QED BY <3>1, <3>2, NewestAreFew
  <2> QED BY <2>1 DEF RuntimeInv, SentInv, QueuesInv, StateInv, States, TypeOK
<1> QED BY <1>1, RuntimeInvariant, PTL

\* Whatever order the room's events come in, however often, before or after
\* the overlay's own choices and through any number of fresh starts, each
\* field has the value of the latest event that sets it (Version::advance
\* and TeamState::apply in sync/store.rs), if no two choices are made at one
\* instant of the session clock.
THEOREM FieldsAreOfTheLatest == ~ Ties => (Spec => []FieldsAreLatest)
<1>1. ASSUME ~ Ties PROVE RuntimeInv => FieldsAreLatest
  <2> SUFFICES ASSUME RuntimeInv, NEW m \in Overlays, NEW f \in Fields
               PROVE  SameContent(state[m].field[f], Latest(Candidates(m, f)))
    BY DEF FieldsAreLatest
  <2> DEFINE C == Candidates(m, f)
             v == state[m].field[f]
  <2>1. Holds(v, C)
    BY <1>1 DEF RuntimeInv, StateInv, Follows, Candidates, Setting
  <2>2. Genuine(AllSent) /\ C \subseteq AllSent
    BY DEF RuntimeInv, SentInv, QueuesInv, Room, Candidates
  <2>3. CASE C = {}
    <3>1. v = Nothing /\ Latest(C) = Nothing
      BY <2>1, <2>3 DEF Holds, Latest
    <3> QED BY <3>1 DEF SameContent
  <2>4. CASE C # {}
    <3> HIDE DEF C
    <3>1. PICK e \in C : IsOf(v, e) /\ \A d \in C : NotBefore(e, d)
      BY <2>1, <2>4 DEF Holds
    <3>2. \A d \in C : (\A c \in C : NotBefore(d, c)) => d = e
      BY <2>2, <3>1, VersionsAreOrdered
    <3>3. Latest(C) = e
      BY <2>4, <3>1, <3>2 DEF Latest
    <3>4. e \in Events
      BY <2>2 DEF Genuine
    <3>5. v.producer = e.producer /\ v.n = e.n
      BY <3>1, <3>4, IsOfKeeps
    <3> QED BY <3>3, <3>5 DEF SameContent, C
  <2> QED BY <2>3, <2>4
<1>2. CASE ~ Ties
  BY <1>1, <1>2, RuntimeInvariant, PTL
<1> QED BY <1>2

\* The history is always that of the newest laps known, though laps come
\* grouped by producer and overflow it on the way (TeamState::record_lap).
THEOREM LapsAreTheNewest == Spec => []LapsAreNewest
<1>1. RuntimeInv => LapsAreNewest
  BY DEF RuntimeInv, StateInv, Follows, LapsOf, LapsAreNewest
<1> QED BY <1>1, RuntimeInvariant, PTL
===============================================================================
