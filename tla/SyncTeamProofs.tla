---------------------------- MODULE SyncTeamProofs ----------------------------
(***************************************************************************)
(* Theorems about SyncTeam for any members, any number of connections,     *)
(* observations and faults: the numbering of events, what travels in the   *)
(* channels, and what each end may conclude from it.                       *)
(***************************************************************************)
EXTENDS SyncTeam, FiniteSetTheorems, SequenceTheorems, WellFoundedInduction, TLAPS

-------------------------------------------------------------------------------
(* The operators of Ledger, for every finite ledger.                       *)

(* A finite set of naturals that is not empty has a greatest element: a
   smallest counterexample, less one of its elements, has one, and the
   greater of that and the element removed would do for the whole.         *)
LEMMA FiniteMax ==
    ASSUME NEW S, IsFiniteSet(S), S \subseteq Nat, S # {}
    PROVE  \E s \in S : \A t \in S : t <= s
<1> DEFINE Bad == {U \in SUBSET S : U # {} /\ ~ \E s \in U : \A t \in U : t <= s}
<1>1. SUFFICES ASSUME Bad # {} PROVE FALSE
  OBVIOUS
<1>2. Bad \subseteq FiniteSubsetsOf(S)
  BY FS_Subset DEF FiniteSubsetsOf
<1>3. PICK U \in Bad : \A V \in Bad : ~ (<<V, U>> \in StrictSubsetOrdering(S))
  <2> HIDE DEF Bad
  <2> QED BY <1>1, <1>2, FS_StrictSubsetOrderingWellFounded, WFMin
<1>4. PICK x \in U : TRUE
  OBVIOUS
<1>5. U \ {x} \notin Bad
  <2>1. <<U \ {x}, U>> \in StrictSubsetOrdering(S)
    BY <1>4 DEF StrictSubsetOrdering
  <2> QED BY <2>1, <1>3
<1>6. CASE U \ {x} = {}
  <2>1. U = {x} /\ x <= x
    BY <1>4, <1>6
  <2> QED BY <2>1, <1>3
<1>7. CASE U \ {x} # {}
  <2>1. PICK s \in U \ {x} : \A t \in U \ {x} : t <= s
    BY <1>5, <1>7
  <2>2. s \in Nat /\ x \in Nat
    BY <1>4
  <2>3. CASE x <= s
    BY <2>1, <2>3, <1>3
  <2>4. CASE s <= x
    <3>1. \A t \in U : t <= x
      BY <2>1, <2>2, <2>4
    <3> QED BY <3>1, <1>4, <1>3
  <2> QED BY <2>2, <2>3, <2>4
<1> QED BY <1>6, <1>7

(* The numbers a finite ledger holds of a producer. *)
LEMMA SeqsFinite ==
    ASSUME NEW L, NEW p, IsFiniteSet(L), \A e \in L : e.seq \in Nat \ {0}
    PROVE  IsFiniteSet(Seqs(L, p)) /\ Seqs(L, p) \subseteq Nat \ {0}
<1> DEFINE H == {d \in L : d.producer = p}
           f == [e \in H |-> e.seq]
<1>1. IsFiniteSet(H)
  BY FS_Subset
<1>2. f \in Surjection(H, Seqs(L, p))
  BY DEF Surjection, Seqs
<1> HIDE DEF f
<1>3. IsFiniteSet(Seqs(L, p))
  BY <1>1, <1>2, FS_Surjection
<1> QED BY <1>3 DEF Seqs

(* LastSeq is the greatest number held of a producer that has any. *)
LEMMA LastSeqIsMax ==
    ASSUME NEW L, NEW p, IsFiniteSet(L), \A e \in L : e.seq \in Nat \ {0},
           Seqs(L, p) # {}
    PROVE  LastSeq(L, p) \in Seqs(L, p) /\ \A t \in Seqs(L, p) : t <= LastSeq(L, p)
<1>1. \E s \in Seqs(L, p) : \A t \in Seqs(L, p) : t <= s
  BY SeqsFinite, FiniteMax
<1> QED BY <1>1 DEF LastSeq

(* A number stamped from next_seq is beyond all that are held. *)
LEMMA NextSeqIsFresh ==
    ASSUME NEW L, NEW p, IsFiniteSet(L), \A e \in L : e.seq \in Nat \ {0}
    PROVE  /\ NextSeq(L, p) \in Nat \ {0}
           /\ \A e \in L : e.producer = p => e.seq < NextSeq(L, p)
<1>1. CASE p \in ProducersIn(L)
  <2>1. Seqs(L, p) # {}
    BY <1>1 DEF ProducersIn, Seqs
  <2>2. LastSeq(L, p) \in Nat /\ \A t \in Seqs(L, p) : t \in Nat /\ t <= LastSeq(L, p)
    BY <2>1, LastSeqIsMax, SeqsFinite
  <2>3. \A e \in L : e.producer = p => e.seq \in Seqs(L, p)
    BY DEF Seqs
  <2> QED BY <1>1, <2>2, <2>3 DEF NextSeq
<1>2. CASE p \notin ProducersIn(L)
  BY <1>2 DEF NextSeq, ProducersIn
<1> QED BY <1>1, <1>2

(* Every finite ledger has a tip of every producer, a natural number. *)
LEMMA TipIsContiguous ==
    ASSUME NEW L, NEW p, IsFiniteSet(L), \A e \in L : e.seq \in Nat \ {0}
    PROVE  /\ Tip(L, p) \in Nat
           /\ 1 .. Tip(L, p) \subseteq Seqs(L, p)
           /\ Tip(L, p) + 1 \notin Seqs(L, p)
<1> DEFINE N == Seqs(L, p) \cup {0}
           Full == {n \in N : 1 .. n \subseteq Seqs(L, p)}
<1>1. N \subseteq Nat /\ IsFiniteSet(Full) /\ 0 \in Full
  <2>1. IsFiniteSet(N) /\ N \subseteq Nat
    BY SeqsFinite, FS_AddElement
  <2> QED BY <2>1, FS_Subset
<1>2. PICK n \in Full : \A t \in Full : t <= n
  <2> HIDE DEF Full
  <2>1. Full \subseteq Nat
    BY <1>1 DEF Full
  <2> QED BY <2>1, <1>1, FiniteMax
<1>3. n + 1 \notin Seqs(L, p)
  <2> SUFFICES ASSUME n + 1 \in Seqs(L, p) PROVE FALSE
    OBVIOUS
  <2>1. n \in Nat
    BY <1>1
  <2>2. 1 .. n + 1 = (1 .. n) \cup {n + 1}
    BY <2>1
  <2>3. n + 1 \in Full
    BY <2>2
  <2> QED BY <2>1, <2>3, <1>2
<1> QED BY <1>1, <1>2, <1>3 DEF Tip

-------------------------------------------------------------------------------
(* Channels. *)

(* Dialling adds one connection and its two channels. *)
LEMMA NewConnection ==
    ASSUME NEW M, NEW S, NEW d \in Seq(M), NEW m \in M,
           NEW f \in [DOMAIN d -> S], NEW x \in S
    PROVE  /\ Append(d, m) \in Seq(M)
           /\ DOMAIN Append(d, m) = DOMAIN d \cup {Len(d) + 1}
           /\ Len(Append(d, m)) = Len(d) + 1
           /\ \A i \in DOMAIN d : Append(d, m)[i] = d[i]
           /\ Append(d, m)[Len(d) + 1] = m
           /\ Append(f, x) \in [DOMAIN Append(d, m) -> S]
           /\ \A i \in DOMAIN d : Append(f, x)[i] = f[i]
           /\ Append(f, x)[Len(d) + 1] = x
<1>1. f \in Seq(S) /\ Len(f) = Len(d) /\ DOMAIN d = 1 .. Len(d) /\ Len(d) \in Nat
  OBVIOUS
<1>2. /\ Append(d, m) \in Seq(M)
      /\ Len(Append(d, m)) = Len(d) + 1
      /\ DOMAIN Append(d, m) = DOMAIN d \cup {Len(d) + 1}
      /\ \A i \in DOMAIN d : Append(d, m)[i] = d[i]
      /\ Append(d, m)[Len(d) + 1] = m
  BY <1>1
<1>3. /\ Append(f, x) \in Seq(S)
      /\ Len(Append(f, x)) = Len(d) + 1
      /\ \A i \in DOMAIN d : Append(f, x)[i] = f[i]
      /\ Append(f, x)[Len(d) + 1] = x
  BY <1>1
<1>4. Append(f, x) \in [DOMAIN Append(d, m) -> S]
  <2>1. DOMAIN Append(d, m) = 1 .. Len(Append(f, x))
    BY <1>1, <1>2, <1>3
  <2>2. Append(f, x) \in [1 .. Len(Append(f, x)) -> S]
    BY <1>3, LenProperties
  <2> QED BY <2>1, <2>2
<1> QED BY <1>2, <1>3, <1>4

(* What is on its way in a channel, as the channel changes. *)
LEMMA InTransitTail ==
    ASSUME NEW F, NEW s \in Seq(F), s # <<>>
    PROVE  /\ InTransit(s) = Carried(Head(s)) \cup InTransit(Tail(s))
           /\ Tail(s) \in Seq(F) /\ Head(s) \in F
<1>1. /\ Head(s) = s[1] /\ 1 \in DOMAIN s
      /\ \A i \in DOMAIN Tail(s) : i + 1 \in DOMAIN s /\ Tail(s)[i] = s[i + 1]
      /\ \A i \in DOMAIN s : i = 1 \/ (i - 1 \in DOMAIN Tail(s) /\ s[i] = Tail(s)[i - 1])
      /\ Tail(s) \in Seq(F) /\ Head(s) \in F
  OBVIOUS
<1>2. ASSUME NEW x PROVE x \in InTransit(s) <=> x \in Carried(Head(s)) \/ x \in InTransit(Tail(s))
  BY <1>1 DEF InTransit
<1> QED BY <1>1, <1>2

LEMMA InTransitConcat ==
    ASSUME NEW F, NEW s \in Seq(F), NEW t \in Seq(F)
    PROVE  InTransit(s \o t) = InTransit(s) \cup InTransit(t) /\ s \o t \in Seq(F)
<1>1. /\ \A i \in DOMAIN s : i \in DOMAIN (s \o t) /\ (s \o t)[i] = s[i]
      /\ \A i \in DOMAIN t : i + Len(s) \in DOMAIN (s \o t) /\ (s \o t)[i + Len(s)] = t[i]
      /\ \A i \in DOMAIN (s \o t) : \/ i \in DOMAIN s
                                    \/ i - Len(s) \in DOMAIN t /\ i = (i - Len(s)) + Len(s)
      /\ s \o t \in Seq(F)
  OBVIOUS
<1>2. InTransit(s) \cup InTransit(t) \subseteq InTransit(s \o t)
  BY <1>1 DEF InTransit
<1>3. ASSUME NEW x \in InTransit(s \o t) PROVE x \in InTransit(s) \cup InTransit(t)
  <2>1. PICK i \in DOMAIN (s \o t) : x \in Carried((s \o t)[i])
    BY DEF InTransit
  <2>2. CASE i \in DOMAIN s
    BY <2>1, <2>2, <1>1 DEF InTransit
  <2>3. CASE i - Len(s) \in DOMAIN t /\ i = (i - Len(s)) + Len(s)
    <3> DEFINE j == i - Len(s)
    <3>1. j \in DOMAIN t /\ (s \o t)[i] = t[j]
      BY <2>3, <1>1
    <3> QED BY <2>1, <3>1 DEF InTransit
  <2> QED BY <2>2, <2>3, <1>1
<1> QED BY <1>1, <1>2, <1>3

LEMMA InTransitAppend ==
    ASSUME NEW F, NEW s \in Seq(F), NEW f \in F
    PROVE  InTransit(Append(s, f)) = InTransit(s) \cup Carried(f) /\ Append(s, f) \in Seq(F)
<1>1. /\ \A i \in DOMAIN s : i \in DOMAIN Append(s, f) /\ Append(s, f)[i] = s[i]
      /\ Len(s) + 1 \in DOMAIN Append(s, f) /\ Append(s, f)[Len(s) + 1] = f
      /\ \A i \in DOMAIN Append(s, f) : i \in DOMAIN s \/ i = Len(s) + 1
      /\ Append(s, f) \in Seq(F)
  OBVIOUS
<1>2. ASSUME NEW x PROVE x \in InTransit(Append(s, f)) <=> x \in InTransit(s) \/ x \in Carried(f)
  BY <1>1 DEF InTransit
<1> QED BY <1>1, <1>2

LEMMA InTransitEmpty == InTransit(<<>>) = {}
BY DEF InTransit

LEMMA InTransitOne == ASSUME NEW f PROVE InTransit(<<f>>) = Carried(f)
<1>1. DOMAIN <<f>> = {1} /\ <<f>>[1] = f
  OBVIOUS
<1> QED BY <1>1 DEF InTransit

(* The backlog goes down in chunks of what was to be sent. *)
LEMMA ChunksCarry ==
    ASSUME NEW S \in EnvelopeSets
    PROVE  Chunks(S) \in Seq(DownFrames) /\ InTransit(Chunks(S)) \subseteq S
<1>1. Cardinality(S) \in Nat /\ (S # {} => Cardinality(S) # 0)
  BY FS_CardinalityType, FS_EmptySet DEF EnvelopeSets
<1> DEFINE last == IF S = {} THEN 0 ELSE (Cardinality(S) - 1) \div ChunkEvents
<1>2. last \in Nat
  <2>1. ChunkEvents \in Nat \ {0}
    BY BoundsAssumption
  <2> QED BY <1>1, <2>1, Z3
<1>3. \A X \in EnvelopeSets : Backlog(X) \in DownFrames /\ Carried(Backlog(X)) = X
  BY DEF Backlog, DownFrames, Carried
<1> DEFINE chunk(i) == {e \in S : Rank(e, S) \div ChunkEvents = i - 1}
<1>4. Chunks(S) = [i \in 1 .. last + 1 |-> Backlog(chunk(i))]
  BY DEF Chunks
<1>5. \A i \in 1 .. last + 1 : chunk(i) \in EnvelopeSets /\ chunk(i) \subseteq S
  <2>1. \A X \in SUBSET S : X \in EnvelopeSets
    BY FS_Subset DEF EnvelopeSets
  <2> QED BY <2>1
<1> HIDE DEF chunk, last
<1>6. Chunks(S) \in Seq(DownFrames)
  BY <1>2, <1>3, <1>4, <1>5
<1>7. \A i \in DOMAIN Chunks(S) : Carried(Chunks(S)[i]) \subseteq S
  BY <1>3, <1>4, <1>5
<1> QED BY <1>6, <1>7 DEF InTransit

-------------------------------------------------------------------------------
(* Type correctness. *)

(* The numbers of envelopes, as the lemmas on ledgers want them. *)
LEMMA EnvelopeSeq == \A e \in Envelopes : e.seq \in Nat \ {0} /\ e.producer \in Members
BY DEF Envelopes

LEMMA TipsType == ASSUME NEW L \in EnvelopeSets PROVE Tips(L) \in Haves
BY TipIsContiguous, EnvelopeSeq DEF Tips, Haves, EnvelopeSets

(* Ledgers stay finite sets of envelopes as they take envelopes in. *)
LEMMA InsertType ==
    ASSUME NEW L \in EnvelopeSets
    PROVE  /\ \A e \in Envelopes : Insert(L, e) \in EnvelopeSets
           /\ \A S \in EnvelopeSets : InsertAll(L, S) \in EnvelopeSets
<1>1. ASSUME NEW e \in Envelopes PROVE Insert(L, e) \in EnvelopeSets
  BY FS_AddElement DEF Insert, EnvelopeSets
<1>2. ASSUME NEW S \in EnvelopeSets PROVE InsertAll(L, S) \in EnvelopeSets
  <2>1. IsFiniteSet({e \in S : ~ Holds(L, e)})
    BY FS_Subset DEF EnvelopeSets
  <2> QED BY <2>1, FS_Union DEF InsertAll, EnvelopeSets
<1> QED BY <1>1, <1>2

(* Sending on a member's connection keeps every channel a sequence of
   frames.                                                                 *)
LEMMA SendType ==
    ASSUME TypeOK, NEW m \in Members, NEW f \in UpFrames, Send(m, f)
    PROVE  /\ up' \in [DOMAIN dialled -> Seq(UpFrames)]
           /\ \A c \in DOMAIN dialled :
                InTransit(up'[c]) \subseteq InTransit(up[c]) \cup Carried(f)
<1>1. /\ up \in [DOMAIN dialled -> Seq(UpFrames)]
      /\ up' = [up EXCEPT ![conn[m]] = IF conn[m] \in open THEN Append(@, f) ELSE @]
  BY DEF TypeOK, Send
<1>2. ASSUME NEW c \in DOMAIN dialled
      PROVE  /\ up'[c] \in Seq(UpFrames)
             /\ InTransit(up'[c]) \subseteq InTransit(up[c]) \cup Carried(f)
  <2>1. up'[c] = up[c] \/ up'[c] = Append(up[c], f)
    BY <1>1
  <2>2. up[c] \in Seq(UpFrames)
    BY <1>1
  <2> QED BY <2>1, <2>2, InTransitAppend
<1>3. DOMAIN up' = DOMAIN dialled /\ up' = [c \in DOMAIN dialled |-> up'[c]]
  BY <1>1
<1> QED BY <1>2, <1>3

LEMMA TypeInit == TeamInit => TypeOK
<1> SUFFICES ASSUME TeamInit PROVE TypeOK
  OBVIOUS
<1> USE DEF TeamInit, Init
<1>1. ledger \in EnvelopeSets
  BY FS_EmptySet DEF EnvelopeSets
<1>2. dialled \in Seq(Members) /\ Len(dialled) = 0 /\ DOMAIN dialled = {}
  OBVIOUS
<1>3. MaxConns \in Nat /\ MaxObserved \in Nat /\ MaxFaults \in Nat
  BY BoundsAssumption, TeamAssumption
<1>4. up \in [DOMAIN dialled -> Seq(UpFrames)] /\ down \in [DOMAIN dialled -> Seq(DownFrames)]
  BY <1>2
<1>5. phase \in [Members -> Phases]
  BY DEF Phases
<1>6. replica \in [Members -> EnvelopeSets]
  BY FS_EmptySet DEF EnvelopeSets
<1>7. reoffer \in [Members -> SUBSET Envelopes]
  OBVIOUS
<1>8. queue \in [Members -> Seq(Bodies)] /\ live \in [Members -> Seq(Envelopes)]
  OBVIOUS
<1> QED BY <1>1, <1>2, <1>3, <1>4, <1>5, <1>6, <1>7, <1>8 DEF TypeOK

LEMMA TypeStep == TypeOK /\ [Next]_teamVars => TypeOK'
<1> SUFFICES ASSUME TypeOK, [Next]_teamVars PROVE TypeOK'
  OBVIOUS
<1> USE DEF relayVars, wireVars, clientVars, overlayVars
<1>0. /\ DOMAIN dialled = 1 .. Len(dialled) /\ Len(dialled) \in Nat
      /\ open \subseteq DOMAIN dialled /\ slots \subseteq open
      /\ MaxConns \in Nat /\ MaxObserved \in Nat /\ MaxFaults \in Nat
  BY BoundsAssumption, TeamAssumption, LenProperties DEF TypeOK
<1>1. ASSUME NEW c \in open, ServeHello(c), UNCHANGED faults PROVE TypeOK'
  <2> DEFINE h == Head(up[c]).have
  <2>1. up[c] \in Seq(UpFrames) /\ up[c] # <<>> /\ Head(up[c]).type = "Hello"
    BY <1>0, <1>1 DEF ServeHello, TypeOK
  <2>2. up' \in [DOMAIN dialled -> Seq(UpFrames)]
    <3>1. Tail(up[c]) \in Seq(UpFrames)
      BY <2>1, InTransitTail
    <3> QED BY <3>1, <1>0, <1>1 DEF ServeHello, TypeOK
  <2>3. down' \in [DOMAIN dialled -> Seq(DownFrames)]
    <3>1. Chunks(After(ledger, h)) \in Seq(DownFrames)
      <4>1. After(ledger, h) \in EnvelopeSets
        BY FS_Subset DEF After, TypeOK, EnvelopeSets
      <4> QED BY <4>1, ChunksCarry
    <3>2. <<Welcome(Tips(ledger))>> \in Seq(DownFrames) /\ <<CaughtUp>> \in Seq(DownFrames)
      <4>1. Tips(ledger) \in Haves
        BY TipsType DEF TypeOK
      <4>2. Welcome(Tips(ledger)) \in DownFrames /\ CaughtUp \in DownFrames
        BY <4>1 DEF Welcome, CaughtUp, DownFrames
      <4> QED BY <4>2
    <3>3. down[c] \o <<Welcome(Tips(ledger))>> \o Chunks(After(ledger, h)) \o <<CaughtUp>>
            \in Seq(DownFrames)
      <4>1. down[c] \in Seq(DownFrames)
        BY <1>0 DEF TypeOK
      <4> QED BY <3>1, <3>2, <4>1, InTransitConcat
    <3> HIDE DEF h
    <3> QED BY <3>3, <1>0, <1>1 DEF ServeHello, TypeOK, h
  <2>4. slots' \subseteq open'
    BY <1>0, <1>1 DEF ServeHello
  <2> QED BY <2>2, <2>3, <2>4, <1>1 DEF ServeHello, TypeOK
<1>2. ASSUME NEW c \in open, Deregister(c)
      PROVE  /\ up' \in [DOMAIN dialled -> Seq(UpFrames)]
             /\ open' \subseteq DOMAIN dialled /\ slots' \subseteq open'
  BY <1>0, <1>2 DEF Deregister, TypeOK
<1>3. ASSUME NEW c \in open, PumpEnvelope(c), UNCHANGED faults PROVE TypeOK'
  <2> DEFINE f == Head(up[c])
             e == f.envelope
             publishing == f.type = "Publish"
  <2>1. /\ up[c] \in Seq(UpFrames) /\ up[c] # <<>> /\ f \in UpFrames
        /\ Tail(up[c]) \in Seq(UpFrames)
    <3>1. up[c] \in Seq(UpFrames) /\ up[c] # <<>>
      BY <1>0, <1>3 DEF PumpEnvelope, TypeOK
    <3> QED BY <3>1, InTransitTail
  <2>2. CASE f.type = "Hello" \/ (publishing /\ e.producer # dialled[c])
    <3>1. Deregister(c) /\ UNCHANGED <<ledger, down>>
      BY <2>2, <1>3 DEF PumpEnvelope
    <3> QED BY <3>1, <1>2, <1>3 DEF PumpEnvelope, TypeOK
  <2>3. CASE ~ (f.type = "Hello" \/ (publishing /\ e.producer # dialled[c]))
    <3>1. e \in Envelopes
      BY <2>1, <2>3 DEF UpFrames
    <3>2. up' \in [DOMAIN dialled -> Seq(UpFrames)]
      BY <2>1, <2>3, <1>0, <1>3 DEF PumpEnvelope, TypeOK
    <3>3. CASE AcceptsRelayed(ledger, e) /\ ~ Holds(ledger, e)
      <4> DEFINE g == FanoutFrame(e, publishing)
      <4>1. ledger' = Insert(ledger, e) /\ down' = Fanout(c, g)
        BY <2>3, <3>3, <1>3 DEF PumpEnvelope
      <4>2. ledger' \in EnvelopeSets
        BY <4>1, <3>1, InsertType DEF TypeOK
      <4>3. g \in DownFrames
        BY <3>1 DEF FanoutFrame, Relayed, Recovered, DownFrames
      <4> HIDE DEF g
      <4>4. down' \in [DOMAIN dialled -> Seq(DownFrames)]
        BY <4>1, <4>3, InTransitAppend DEF Fanout, TypeOK
      <4> QED BY <4>2, <4>4, <3>2, <2>3, <1>3 DEF PumpEnvelope, TypeOK
    <3>4. CASE ~ (AcceptsRelayed(ledger, e) /\ ~ Holds(ledger, e))
      BY <3>2, <3>4, <2>3, <1>3 DEF PumpEnvelope, TypeOK
    <3> QED BY <3>3, <3>4
  <2> QED BY <2>2, <2>3
<1>4. ASSUME NEW c \in open, Hangup(c), faults' \in 0 .. MaxFaults PROVE TypeOK'
  BY <1>2, <1>4 DEF Hangup, TypeOK
<1>5. ASSUME NEW m \in Members, NEW kind \in Kinds, Observe(m, kind), UNCHANGED faults
      PROVE  TypeOK'
  <2> DEFINE b == [by |-> m, n |-> observed[m] + 1, kind |-> kind,
                   during |-> IF phase[m] = "caught_up" THEN conn[m] ELSE 0]
  <2>1. observed[m] \in Nat /\ observed[m] + 1 \in 1 .. MaxObserved
    BY <1>0, <1>5 DEF Observe, TypeOK
  <2>2. conn[m] \in 0 .. MaxConns
    BY <1>0 DEF TypeOK
  <2>3. b \in Bodies
    BY <1>0, <2>1, <2>2 DEF Bodies
  <2>4. queue' = [queue EXCEPT ![m] = Append(@, b)]
    BY <1>5 DEF Observe
  <2> HIDE DEF b
  <2>5. queue' \in [Members -> Seq(Bodies)]
    BY <2>3, <2>4 DEF TypeOK
  <2>6. observed' \in [Members -> 0 .. MaxObserved]
    BY <2>1, <1>0, <1>5 DEF Observe, TypeOK
  <2> QED BY <2>5, <2>6, <1>5 DEF Observe, TypeOK
<1>6. ASSUME NEW m \in Members, Dial(m), UNCHANGED faults PROVE TypeOK'
  <2> DEFINE c == Len(dialled) + 1
             hello == Hello(Tips(replica[m]))
  <2>1. hello \in UpFrames
    BY TipsType DEF TypeOK, Hello, UpFrames
  <2>2. /\ dialled' = Append(dialled, m)
        /\ up' = Append(up, <<hello>>)
        /\ down' = Append(down, <<>>)
        /\ open' = open \cup {c}
        /\ conn' = [conn EXCEPT ![m] = c]
        /\ Len(dialled) < MaxConns
    BY <1>6 DEF Dial
  <2> HIDE DEF hello
  <2>3. /\ dialled' \in Seq(Members) /\ Len(dialled') = Len(dialled) + 1
        /\ DOMAIN dialled' = DOMAIN dialled \cup {c}
        /\ up' \in [DOMAIN dialled' -> Seq(UpFrames)]
    <3> DEFINE first == <<hello>>
    <3>1. first \in Seq(UpFrames) /\ dialled \in Seq(Members)
      BY <2>1 DEF TypeOK
    <3> HIDE DEF first
    <3>2. up \in [DOMAIN dialled -> Seq(UpFrames)]
      BY DEF TypeOK
    <3>3. /\ Append(dialled, m) \in Seq(Members)
          /\ Len(Append(dialled, m)) = Len(dialled) + 1
          /\ DOMAIN Append(dialled, m) = DOMAIN dialled \cup {Len(dialled) + 1}
          /\ Append(up, first) \in [DOMAIN Append(dialled, m) -> Seq(UpFrames)]
      BY <3>1, <3>2, NewConnection
    <3> QED BY <2>2, <3>3 DEF first
  <2>4. down' \in [DOMAIN dialled' -> Seq(DownFrames)]
    <3>1. <<>> \in Seq(DownFrames) /\ dialled \in Seq(Members)
      BY DEF TypeOK
    <3>2. down \in [DOMAIN dialled -> Seq(DownFrames)]
      BY DEF TypeOK
    <3> QED BY <2>2, <3>1, <3>2, NewConnection
  <2>5. conn' \in [Members -> 0 .. Len(dialled')]
    BY <1>0, <2>2, <2>3 DEF TypeOK
  <2>6. nextSeq' \in [Members -> Nat \ {0}]
    <3>1. NextSeq(replica[m], m) \in Nat \ {0}
      BY NextSeqIsFresh, EnvelopeSeq DEF TypeOK, EnvelopeSets
    <3> QED BY <3>1, <1>6 DEF Dial, TypeOK
  <2>7. phase' \in [Members -> Phases] /\ discard' \in [Members -> BOOLEAN]
    BY <1>6 DEF Dial, TypeOK, Phases
  <2>8. Len(dialled') <= MaxConns /\ open' \subseteq DOMAIN dialled' /\ slots' \subseteq open'
    BY <1>0, <1>6, <2>2, <2>3 DEF Dial
  <2> QED BY <2>3, <2>4, <2>5, <2>6, <2>7, <2>8, <1>6 DEF Dial, TypeOK
<1>7. ASSUME NEW m \in Members, PublishNext(m), UNCHANGED faults PROVE TypeOK'
  <2> DEFINE e == [producer |-> m, seq |-> nextSeq[m], body |-> Head(queue[m])]
  <2>1. queue[m] \in Seq(Bodies) /\ queue[m] # <<>> /\ nextSeq[m] \in Nat \ {0}
    BY <1>7 DEF PublishNext, TypeOK
  <2>2. Head(queue[m]) \in Bodies /\ queue' \in [Members -> Seq(Bodies)]
    BY <2>1, <1>7 DEF PublishNext, TypeOK
  <2>3. e \in Envelopes /\ Publish(e) \in UpFrames
    BY <2>1, <2>2 DEF Envelopes, Publish, UpFrames
  <2>4. CASE discard[m] /\ e.body.kind = "pit_write"
    BY <2>2, <2>4, <1>7 DEF PublishNext, TypeOK
  <2>5. CASE ~ (discard[m] /\ e.body.kind = "pit_write")
    <3>1. /\ nextSeq' = [nextSeq EXCEPT ![m] = @ + 1]
          /\ replica' = [replica EXCEPT ![m] = Insert(@, e)]
          /\ Send(m, Publish(e))
      BY <2>5, <1>7 DEF PublishNext
    <3> HIDE DEF e
    <3>2. up' \in [DOMAIN dialled -> Seq(UpFrames)]
      BY <2>3, <3>1, SendType
    <3>3. nextSeq' \in [Members -> Nat \ {0}]
      BY <2>1, <3>1 DEF TypeOK
    <3>4. replica' \in [Members -> EnvelopeSets]
      BY <2>3, <3>1, InsertType DEF TypeOK
    <3> QED BY <2>2, <3>2, <3>3, <3>4, <1>7 DEF PublishNext, TypeOK
  <2> QED BY <2>4, <2>5
<1>8. ASSUME NEW m \in Members, DrainEmpty(m), UNCHANGED faults PROVE TypeOK'
  BY <1>8 DEF DrainEmpty, TypeOK
<1>9. ASSUME NEW m \in Members, ReadFrame(m), UNCHANGED faults PROVE TypeOK'
  <2> DEFINE c == conn[m]
             f == Head(down[c])
  <2>1. /\ c \in DOMAIN dialled /\ down[c] \in Seq(DownFrames) /\ down[c] # <<>>
        /\ f \in DownFrames /\ Tail(down[c]) \in Seq(DownFrames)
    <3>1. c \in 0 .. Len(dialled) /\ down \in [DOMAIN dialled -> Seq(DownFrames)]
      BY DEF TypeOK
    <3>2. c # 0 /\ down[c] # <<>>
      BY <1>9 DEF ReadFrame
    <3>3. c \in DOMAIN dialled /\ down[c] \in Seq(DownFrames)
      BY <1>0, <3>1, <3>2
    <3> HIDE DEF c
    <3> QED BY <3>2, <3>3, InTransitTail
  <2>2. /\ Absorb(m, f)
        /\ down' = [down EXCEPT ![c] = Tail(@)]
        /\ UNCHANGED <<ledger, open, slots, dialled, up, conn, queue, observed>>
    BY <1>9 DEF ReadFrame
  <2>3. down' \in [DOMAIN dialled -> Seq(DownFrames)]
    BY <2>1, <2>2 DEF TypeOK
  <2>4. replica' \in [Members -> EnvelopeSets] /\ nextSeq' \in [Members -> Nat \ {0}]
    <3> HIDE DEF f
    <3>1. nextSeq[m] \in Nat \ {0} /\ replica[m] \in EnvelopeSets
      BY DEF TypeOK
    <3>2. CASE /\ f.type = "Welcome"
               /\ nextSeq' = [nextSeq EXCEPT ![m] =
                                IF @ <= f.have[m] THEN f.have[m] + 1 ELSE @]
               /\ UNCHANGED replica
      <4>1. f.have[m] \in Nat
        BY <2>1, <3>2 DEF DownFrames, Haves
      <4> QED BY <4>1, <3>1, <3>2 DEF TypeOK
    <3>3. ASSUME f.type = "Backlog",
                 replica' = [replica EXCEPT ![m] = InsertAll(@, f.envelopes)],
                 nextSeq' = [nextSeq EXCEPT ![m] =
                    IF @ < NextSeq(replica'[m], m) THEN NextSeq(replica'[m], m) ELSE @]
          PROVE  replica' \in [Members -> EnvelopeSets] /\ nextSeq' \in [Members -> Nat \ {0}]
      <4>1. f.envelopes \in EnvelopeSets
        BY <2>1, <3>3 DEF DownFrames
      <4>2. replica' \in [Members -> EnvelopeSets]
        BY <4>1, <3>3, InsertType DEF TypeOK
      <4>3. NextSeq(replica'[m], m) \in Nat \ {0}
        BY <4>2, NextSeqIsFresh, EnvelopeSeq DEF EnvelopeSets
      <4> QED BY <4>2, <4>3, <3>1, <3>3 DEF TypeOK
    <3>4. CASE /\ f.type \in {"Relayed", "Recovered"}
               /\ replica' = [replica EXCEPT ![m] = Insert(@, f.envelope)]
               /\ UNCHANGED nextSeq
      <4>1. f.envelope \in Envelopes
        BY <2>1, <3>4 DEF DownFrames
      <4> QED BY <4>1, <3>4, InsertType DEF TypeOK
    <3>5. CASE f.type = "CaughtUp" /\ UNCHANGED <<replica, nextSeq>>
      BY <3>5 DEF TypeOK
    <3> QED BY <2>2, <3>2, <3>3, <3>4, <3>5 DEF Absorb
  <2>5. phase' \in [Members -> Phases] /\ discard' \in [Members -> BOOLEAN]
    <3>1. phase[m] \in Phases /\ discard[m] \in BOOLEAN
      BY DEF TypeOK
    <3> QED BY <3>1, <1>9 DEF ReadFrame, TypeOK, Phases
  <2>6. reoffer' \in [Members -> SUBSET Envelopes]
    <3>1. After(replica[m], f.have) \in SUBSET Envelopes
      BY DEF After, TypeOK, EnvelopeSets
    <3> QED BY <3>1, <1>9 DEF ReadFrame, TypeOK
  <2>7. live' \in [Members -> Seq(Envelopes)]
    <3>1. f.type = "Relayed" => f.envelope \in Envelopes
      BY <2>1 DEF DownFrames
    <3> QED BY <3>1, <1>9 DEF ReadFrame, TypeOK
  <2> QED BY <2>2, <2>3, <2>4, <2>5, <2>6, <2>7, <1>9 DEF TypeOK
<1>10. ASSUME NEW m \in Members, ReofferNext(m), UNCHANGED faults PROVE TypeOK'
  <2>1. PICK e \in reoffer[m] :
            reoffer' = [reoffer EXCEPT ![m] = @ \ {e}] /\ Send(m, Recover(e))
    BY <1>10 DEF ReofferNext
  <2>2. e \in Envelopes /\ Recover(e) \in UpFrames
    BY DEF TypeOK, Recover, UpFrames
  <2>3. up' \in [DOMAIN dialled -> Seq(UpFrames)]
    BY <2>1, <2>2, SendType
  <2> QED BY <2>1, <2>3, <1>10 DEF ReofferNext, TypeOK
<1>11. ASSUME NEW m \in Members, Disconnect(m), faults' \in 0 .. MaxFaults PROVE TypeOK'
  <2>1. down' \in [DOMAIN dialled -> Seq(DownFrames)]
    <3>1. down \in [DOMAIN dialled -> Seq(DownFrames)]
      BY DEF TypeOK
    <3>2. down' = [down EXCEPT ![conn[m]] = <<>>]
      BY <1>11 DEF Disconnect
    <3>3. <<>> \in Seq(DownFrames)
      OBVIOUS
    <3> QED BY <3>1, <3>2, <3>3
  <2>2. conn' \in [Members -> 0 .. Len(dialled)]
    BY <1>0, <1>11 DEF Disconnect, TypeOK
  <2> QED BY <2>1, <2>2, <1>11 DEF Disconnect, TypeOK, Phases
<1>12. ASSUME NEW m \in Crashable, Crash(m), faults' \in 0 .. MaxFaults PROVE TypeOK'
  <2>1. open' \subseteq DOMAIN dialled' /\ slots' \subseteq open'
    BY <1>0, <1>12 DEF Crash
  <2>2. up' \in [DOMAIN dialled' -> Seq(UpFrames)] /\ down' \in [DOMAIN dialled' -> Seq(DownFrames)]
    BY <1>12 DEF Crash, TypeOK
  <2>3. ledger' \in EnvelopeSets /\ replica' \in [Members -> EnvelopeSets]
    BY <1>12, FS_EmptySet DEF Crash, TypeOK, EnvelopeSets
  <2>4. conn' \in [Members -> 0 .. Len(dialled')] /\ nextSeq' \in [Members -> Nat \ {0}]
    BY <1>0, <1>12 DEF Crash, TypeOK
  <2>5. phase' \in [Members -> Phases] /\ discard' \in [Members -> BOOLEAN]
    BY <1>12 DEF Crash, TypeOK, Phases
  <2>6. reoffer' \in [Members -> SUBSET Envelopes] /\ queue' \in [Members -> Seq(Bodies)]
    BY <1>12 DEF Crash, TypeOK
  <2> QED BY <2>1, <2>2, <2>3, <2>4, <2>5, <2>6, <1>12 DEF Crash, TypeOK
<1>13. CASE Fault
  <2>1. faults' \in 0 .. MaxFaults
    BY <1>0, <1>13 DEF Fault, TypeOK
  <2> QED BY <2>1, <1>4, <1>11, <1>12, <1>13
          DEF Fault, RelayLosesLink, ClientLosesLink
<1>14. CASE UNCHANGED teamVars
  BY <1>14 DEF teamVars, vars, TypeOK
<1>15. faults \in 0 .. MaxFaults
  BY DEF TypeOK
<1> QED BY <1>1, <1>3, <1>4, <1>5, <1>6, <1>7, <1>8, <1>9, <1>10, <1>11, <1>13, <1>14, <1>15
        DEF Next, Serve, Pump, RelaySeesEnd, ClientSeesEnd

(* Every behaviour of the room is well typed, whatever its instance: no
   step confuses the kinds of frame, makes a ledger infinite or loses a
   connection's channels (Ledger, serve_connection, connect_once).         *)
THEOREM TypeCorrect == Spec => []TypeOK
<1>1. TeamInit => TypeOK
  BY TypeInit
<1>2. TypeOK /\ [Next]_teamVars => TypeOK'
  BY TypeStep
<1> QED BY <1>1, <1>2, PTL DEF Spec

-------------------------------------------------------------------------------
(* One event per number, while no producer's process crashes. *)

LEMMA ProducedMember ==
    \A e : e \in Produced <=> e.producer \in Producers /\ e \in replica[e.producer]
BY DEF Produced

LEMMA NumberingInit == TeamInit => NumberingInv
<1> SUFFICES ASSUME TeamInit PROVE NumberingInv
  OBVIOUS
<1>1. DOMAIN dialled = {}
  BY DEF TeamInit, Init
<1> QED BY <1>1, ProducersAssumption
        DEF TeamInit, Init, NumberingInv, Authentic, Numbered

(* What is left to show of a step that stamps nothing: it brings no envelope
   to a place that was not somewhere before, and disturbs no producer's own
   numbering.                                                              *)
LEMMA NothingStamped ==
    ASSUME NumberingInv,
           \A p \in Producers : replica[p] \subseteq replica'[p],
           \A m \in Members : replica'[m] \subseteq Produced /\ reoffer'[m] \subseteq Produced,
           ledger' \subseteq Produced,
           \A c \in DOMAIN dialled' :
                InTransit(up'[c]) \subseteq Produced /\ InTransit(down'[c]) \subseteq Produced,
           \A p \in Producers :
                /\ conn'[p] # 0 => \A e \in replica[p] : e.producer = p => e.seq < nextSeq'[p]
                /\ conn'[p] = 0 => phase'[p] = "offline",
           \A m \in Members \ Producers : queue'[m] = <<>>
    PROVE  NumberingInv'
<1>1. Produced \subseteq Produced'
  BY DEF Produced
<1>2. \A p \in Producers : \A e \in replica'[p] : e.producer = p => e \in replica[p]
  BY ProducersAssumption, ProducedMember
<1>3. Authentic'
  BY <1>1 DEF Authentic
<1>4. \A p \in Producers : Numbered(p)'
  BY <1>2 DEF Numbered, NumberingInv
<1> QED BY <1>3, <1>4 DEF NumberingInv

LEMMA NumberingStep ==
    ASSUME StableProducers, TypeOK, TypeOK', NumberingInv, [Next]_teamVars
    PROVE  NumberingInv'
<1> USE DEF relayVars, wireVars, clientVars, overlayVars
<1>0. /\ DOMAIN dialled = 1 .. Len(dialled) /\ Len(dialled) \in Nat
      /\ open \subseteq DOMAIN dialled /\ slots \subseteq open
      /\ up \in [DOMAIN dialled -> Seq(UpFrames)]
      /\ down \in [DOMAIN dialled -> Seq(DownFrames)]
      /\ replica \in [Members -> EnvelopeSets] /\ reoffer \in [Members -> SUBSET Envelopes]
      /\ conn \in [Members -> 0 .. Len(dialled)] /\ nextSeq \in [Members -> Nat \ {0}]
      /\ Producers \subseteq Members
  BY LenProperties, ProducersAssumption DEF TypeOK
<1>a. /\ Authentic /\ \A p \in Producers : Numbered(p)
      /\ \A m \in Members \ Producers : queue[m] = <<>>
  BY DEF NumberingInv
<1>1. ASSUME NEW c \in open, ServeHello(c) PROVE NumberingInv'
  <2> DEFINE h == Head(up[c]).have
             X == After(ledger, h)
             greeting == <<Welcome(Tips(ledger))>>
             done == <<CaughtUp>>
  <2>1. up[c] \in Seq(UpFrames) /\ up[c] # <<>> /\ down[c] \in Seq(DownFrames)
    BY <1>0, <1>1 DEF ServeHello
  <2>2. \A d \in DOMAIN dialled : InTransit(up'[d]) \subseteq Produced
    <3>1. InTransit(Tail(up[c])) \subseteq InTransit(up[c])
      BY <2>1, InTransitTail
    <3> QED BY <3>1, <1>0, <1>a, <1>1 DEF ServeHello, Authentic
  <2>3. InTransit(down[c] \o greeting \o Chunks(X) \o done) \subseteq Produced
    <3>1. X \in EnvelopeSets /\ X \subseteq ledger
      BY FS_Subset DEF After, TypeOK, EnvelopeSets
    <3>2. Chunks(X) \in Seq(DownFrames) /\ InTransit(Chunks(X)) \subseteq X
      <4> HIDE DEF X
      <4> QED BY <3>1, ChunksCarry
    <3>3. /\ greeting \in Seq(DownFrames) /\ InTransit(greeting) = {}
          /\ done \in Seq(DownFrames) /\ InTransit(done) = {}
      <4>1. Tips(ledger) \in Haves
        BY TipsType DEF TypeOK
      <4>2. Welcome(Tips(ledger)) \in DownFrames /\ CaughtUp \in DownFrames
        BY <4>1 DEF Welcome, CaughtUp, DownFrames
      <4>3. Carried(Welcome(Tips(ledger))) = {} /\ Carried(CaughtUp) = {}
        BY DEF Carried, Welcome, CaughtUp
      <4> QED BY <4>2, <4>3, InTransitOne
    <3> DEFINE s0 == down[c]
               chunks == Chunks(X)
               s1 == s0 \o greeting
               s2 == s1 \o chunks
    <3>0. /\ s0 \in Seq(DownFrames) /\ chunks \in Seq(DownFrames)
          /\ InTransit(chunks) \subseteq X
      BY <2>1, <3>2
    <3> HIDE DEF greeting, done, X, s0, chunks
    <3>4. InTransit(s1) = InTransit(s0) \cup InTransit(greeting) /\ s1 \in Seq(DownFrames)
      BY <3>0, <3>3, InTransitConcat
    <3> HIDE DEF s1
    <3>5. InTransit(s2) = InTransit(s1) \cup InTransit(chunks) /\ s2 \in Seq(DownFrames)
      BY <3>0, <3>4, InTransitConcat
    <3> HIDE DEF s2
    <3>6. InTransit(s2 \o done) = InTransit(s2) \cup InTransit(done)
      BY <3>3, <3>5, InTransitConcat
    <3>7. InTransit(s0) \subseteq Produced /\ ledger \subseteq Produced
      BY <1>0, <1>a, <1>1 DEF Authentic, s0
    <3> QED BY <3>0, <3>1, <3>3, <3>4, <3>5, <3>6, <3>7 DEF s2, s1, s0, chunks
  <2>4. \A d \in DOMAIN dialled : InTransit(down'[d]) \subseteq Produced
    BY <2>3, <1>0, <1>a, <1>1 DEF ServeHello, Authentic
  <2> HIDE DEF X, greeting, done, h
  <2> QED BY <2>2, <2>4, <1>a, <1>1, NothingStamped, <1>0 DEF ServeHello, Authentic, Numbered
<1>2. ASSUME NEW c \in open, Deregister(c)
      PROVE  \A d \in DOMAIN dialled : InTransit(up'[d]) \subseteq Produced
  BY <1>0, <1>a, <1>2, InTransitEmpty DEF Deregister, Authentic
<1>3. ASSUME NEW c \in open, PumpEnvelope(c) PROVE NumberingInv'
  <2> DEFINE f == Head(up[c])
             e == f.envelope
             publishing == f.type = "Publish"
  <2>1. /\ up[c] \in Seq(UpFrames) /\ up[c] # <<>> /\ f \in UpFrames
        /\ InTransit(Tail(up[c])) \subseteq Produced /\ Carried(f) \subseteq Produced
    <3>1. up[c] \in Seq(UpFrames) /\ up[c] # <<>>
      BY <1>0, <1>3 DEF PumpEnvelope
    <3> QED BY <3>1, InTransitTail, <1>0, <1>a DEF Authentic
  <2>2. CASE f.type = "Hello" \/ (publishing /\ e.producer # dialled[c])
    <3>1. Deregister(c) /\ UNCHANGED <<ledger, down>>
      BY <2>2, <1>3 DEF PumpEnvelope
    <3> QED BY <3>1, <1>2, <1>3, <1>0, <1>a, NothingStamped DEF PumpEnvelope, Authentic, Numbered
  <2>3. CASE ~ (f.type = "Hello" \/ (publishing /\ e.producer # dialled[c]))
    <3>1. e \in Envelopes /\ e \in Produced
      BY <2>1, <2>3 DEF UpFrames, Carried
    <3>2. \A d \in DOMAIN dialled : InTransit(up'[d]) \subseteq Produced
      BY <2>1, <2>3, <1>0, <1>a, <1>3 DEF PumpEnvelope, Authentic
    <3>3. CASE AcceptsRelayed(ledger, e) /\ ~ Holds(ledger, e)
      <4> DEFINE g == FanoutFrame(e, publishing)
      <4>1. ledger' = Insert(ledger, e) /\ down' = Fanout(c, g)
        BY <2>3, <3>3, <1>3 DEF PumpEnvelope
      <4>2. ledger' \subseteq Produced
        BY <4>1, <3>1, <1>a DEF Insert, Authentic
      <4>3. g \in DownFrames /\ Carried(g) = {e}
        BY <3>1 DEF FanoutFrame, Relayed, Recovered, DownFrames, Carried
      <4> HIDE DEF g
      <4>4. \A d \in DOMAIN dialled : InTransit(down'[d]) \subseteq Produced
        BY <4>1, <4>3, <3>1, InTransitAppend, <1>0, <1>a DEF Fanout, Authentic
      <4> QED BY <4>2, <4>4, <3>2, <2>3, <1>3, <1>0, <1>a, NothingStamped
              DEF PumpEnvelope, Authentic, Numbered
    <3>4. CASE ~ (AcceptsRelayed(ledger, e) /\ ~ Holds(ledger, e))
      BY <3>2, <3>4, <2>3, <1>3, <1>0, <1>a, NothingStamped DEF PumpEnvelope, Authentic, Numbered
    <3> QED BY <3>3, <3>4
  <2> QED BY <2>2, <2>3
<1>4. ASSUME NEW c \in open, Hangup(c) PROVE NumberingInv'
  BY <1>2, <1>4, <1>0, <1>a, NothingStamped DEF Hangup, Authentic, Numbered
<1>5. ASSUME NEW m \in Members, NEW kind \in Kinds, Observe(m, kind) PROVE NumberingInv'
  BY <1>5, <1>0, <1>a, NothingStamped DEF Observe, Authentic, Numbered
<1>6. ASSUME NEW m \in Members, Dial(m) PROVE NumberingInv'
  <2> DEFINE hello == Hello(Tips(replica[m]))
  <2>1. /\ dialled' = Append(dialled, m)
        /\ up' = Append(up, <<hello>>)
        /\ down' = Append(down, <<>>)
    BY <1>6 DEF Dial
  <2>2. InTransit(<<hello>>) = {} /\ <<hello>> \in Seq(UpFrames)
    <3>1. hello \in UpFrames /\ Carried(hello) = {}
      BY TipsType, <1>0 DEF Hello, UpFrames, Carried
    <3> QED BY <3>1, InTransitOne
  <2> DEFINE first == <<hello>>
  <2> HIDE DEF hello, first
  <2>3. /\ DOMAIN dialled' = DOMAIN dialled \cup {Len(dialled) + 1}
        /\ \A c \in DOMAIN dialled : up'[c] = up[c]
        /\ up'[Len(dialled) + 1] = first
    <3>1. first \in Seq(UpFrames) /\ dialled \in Seq(Members)
      BY <2>2 DEF TypeOK, first
    <3>2. /\ DOMAIN Append(dialled, m) = DOMAIN dialled \cup {Len(dialled) + 1}
          /\ \A c \in DOMAIN dialled : Append(up, first)[c] = up[c]
          /\ Append(up, first)[Len(dialled) + 1] = first
      <4>1. up \in [DOMAIN dialled -> Seq(UpFrames)]
        BY <1>0
      <4> QED BY <3>1, <4>1, NewConnection
    <3> QED BY <3>2, <2>1 DEF first
  <2>4. /\ \A c \in DOMAIN dialled : down'[c] = down[c]
        /\ down'[Len(dialled) + 1] = <<>>
    <3>1. <<>> \in Seq(DownFrames) /\ dialled \in Seq(Members)
      BY DEF TypeOK
    <3> QED BY <3>1, <2>1, <1>0, NewConnection
  <2>5. \A c \in DOMAIN dialled' :
            InTransit(up'[c]) \subseteq Produced /\ InTransit(down'[c]) \subseteq Produced
    BY <2>2, <2>3, <2>4, <1>a, InTransitEmpty DEF Authentic, first
  <2>6. \A e \in replica[m] : e.producer = m => e.seq < NextSeq(replica[m], m)
    BY NextSeqIsFresh, EnvelopeSeq, <1>0 DEF EnvelopeSets
  <2>7. \A p \in Producers :
            /\ conn'[p] # 0 => \A e \in replica[p] : e.producer = p => e.seq < nextSeq'[p]
            /\ conn'[p] = 0 => phase'[p] = "offline"
    <3>1. /\ conn' = [conn EXCEPT ![m] = Len(dialled) + 1]
          /\ nextSeq' = [nextSeq EXCEPT ![m] = NextSeq(replica[m], m)]
          /\ phase' = [phase EXCEPT ![m] = "joining"]
      BY <1>6 DEF Dial
    <3>2. phase \in [Members -> Phases]
      BY DEF TypeOK
    <3> QED BY <3>1, <3>2, <2>6, <1>0, <1>a DEF Numbered
  <2> QED BY <2>5, <2>7, <1>6, <1>a, NothingStamped DEF Dial, Authentic
<1>7. ASSUME NEW m \in Members, PublishNext(m) PROVE NumberingInv'
  <2> DEFINE e == [producer |-> m, seq |-> nextSeq[m], body |-> Head(queue[m])]
  <2>1. CASE discard[m] /\ e.body.kind = "pit_write"
    BY <2>1, <1>7, <1>0, <1>a, NothingStamped DEF PublishNext, Authentic, Numbered
  <2>2. CASE ~ (discard[m] /\ e.body.kind = "pit_write")
    <3>1. /\ nextSeq' = [nextSeq EXCEPT ![m] = @ + 1]
          /\ replica' = [replica EXCEPT ![m] = Insert(@, e)]
          /\ Send(m, Publish(e)) /\ phase[m] = "caught_up"
          /\ UNCHANGED <<ledger, dialled, down, conn, phase, reoffer>>
      BY <2>2, <1>7 DEF PublishNext
    <3>2. Head(queue[m]) \in Bodies
      BY <1>7 DEF PublishNext, TypeOK
    <3>3. e \in Envelopes /\ Publish(e) \in UpFrames /\ Carried(Publish(e)) = {e}
      BY <3>2, <1>0 DEF Envelopes, Publish, UpFrames, Carried
    <3>4. e.producer = m /\ e.seq = nextSeq[m]
      OBVIOUS
    <3> HIDE DEF e
    <3>5. m \in Producers /\ m \in Members
      BY <1>7, <1>a DEF PublishNext
    <3>6. Insert(replica[m], e) = replica[m] \cup {e}
      <4>1. ~ Holds(replica[m], e)
        <5>1. conn[m] # 0
          BY <3>1, <3>5, <1>a DEF Numbered
        <5>2. \A d \in replica[m] : d.producer = m => d.seq < nextSeq[m]
          BY <5>1, <3>5, <1>a DEF Numbered
        <5>3. \A d \in replica[m] : d.seq \in Nat
          BY <1>0, EnvelopeSeq DEF EnvelopeSets
        <5> QED BY <5>2, <5>3, <3>4, <1>0 DEF Holds
      <4> QED BY <4>1 DEF Insert
    <3>7. replica' = [replica EXCEPT ![m] = @ \cup {e}]
      BY <3>1, <3>6
    <3>8. Produced \subseteq Produced' /\ e \in Produced'
      BY <3>4, <3>5, <3>7, <1>0 DEF Produced
    <3>9. \A c \in DOMAIN dialled : InTransit(up'[c]) \subseteq Produced'
      BY <3>1, <3>3, <3>8, <1>a, SendType DEF Authentic
    <3>10. Authentic'
      BY <3>1, <3>7, <3>8, <3>9, <1>0, <1>a DEF Authentic
    <3>11. ASSUME NEW p \in Producers PROVE Numbered(p)'
      <4>1. \A d \in replica'[p] : d.producer = p => d \in replica[p] \/ (p = m /\ d = e)
        BY <3>7, <1>0
      <4>2. \A d \in replica[p] : d.seq \in Nat
        BY <1>0, EnvelopeSeq DEF EnvelopeSets
      <4>3. CASE p = m
        <5>1. \A d \in replica[m] : conn[m] # 0 /\ d.producer = m => d.seq < nextSeq[m]
          BY <3>5, <1>a DEF Numbered
        <5>2. conn[m] # 0
          BY <3>1, <3>5, <1>a DEF Numbered
        <5>3. nextSeq'[m] = nextSeq[m] + 1 /\ nextSeq[m] \in Nat
          BY <3>1, <1>0
        <5>4. \A d, x \in replica[m] : d.producer = m /\ x.producer = m /\ d.seq = x.seq => d = x
          BY <3>5, <1>a DEF Numbered
        <5>5. \A d \in replica'[m] : d.producer = m => d.seq < nextSeq'[m]
          BY <4>1, <4>2, <4>3, <5>1, <5>2, <5>3, <3>4
        <5>6. \A d, x \in replica'[m] : d.producer = m /\ x.producer = m /\ d.seq = x.seq => d = x
          BY <4>1, <4>2, <4>3, <5>1, <5>2, <5>3, <5>4, <3>4
        <5>7. conn'[m] # 0
          BY <5>2, <3>1
        <5> QED BY <4>3, <5>5, <5>6, <5>7 DEF Numbered
      <4>4. CASE p # m
        BY <4>4, <3>1, <3>7, <1>0, <1>a DEF Numbered
      <4> QED BY <4>3, <4>4
    <3>12. \A x \in Members \ Producers : queue'[x] = <<>>
      BY <3>5, <1>7, <1>a DEF PublishNext, TypeOK
    <3> QED BY <3>10, <3>11, <3>12 DEF NumberingInv
  <2> QED BY <2>1, <2>2
<1>8. ASSUME NEW m \in Members, DrainEmpty(m) PROVE NumberingInv'
  BY <1>8, <1>0, <1>a, NothingStamped DEF DrainEmpty, Authentic, Numbered
<1>9. ASSUME NEW m \in Members, ReadFrame(m) PROVE NumberingInv'
  <2> DEFINE c == conn[m]
             f == Head(down[c])
  <2>1. /\ c \in DOMAIN dialled /\ f \in DownFrames
        /\ Carried(f) \subseteq Produced /\ InTransit(Tail(down[c])) \subseteq Produced
    <3>1. c # 0 /\ down[c] # <<>>
      BY <1>9 DEF ReadFrame
    <3>2. c \in DOMAIN dialled /\ down[c] \in Seq(DownFrames)
      BY <1>0, <3>1
    <3>3. InTransit(down[c]) \subseteq Produced
      BY <3>2, <1>a DEF Authentic
    <3> HIDE DEF c
    <3> QED BY <3>1, <3>2, <3>3, InTransitTail
  <2>2. /\ Absorb(m, f)
        /\ down' = [down EXCEPT ![c] = Tail(@)]
        /\ reoffer' = [reoffer EXCEPT ![m] =
                IF f.type = "Welcome" THEN After(replica[m], f.have) ELSE {}]
        /\ UNCHANGED <<ledger, dialled, up, conn, queue>>
    BY <1>9 DEF ReadFrame
  <2> HIDE DEF f
  <2>3. \A d \in DOMAIN dialled : InTransit(down'[d]) \subseteq Produced
    BY <2>1, <2>2, <1>0, <1>a DEF Authentic
  <2>4. /\ \A p \in Members : replica[p] \subseteq replica'[p] /\ replica'[p] \subseteq Produced
        /\ \A p \in Members : nextSeq[p] <= nextSeq'[p]
    <3>1. CASE /\ f.type = "Welcome"
               /\ nextSeq' = [nextSeq EXCEPT ![m] =
                                IF @ <= f.have[m] THEN f.have[m] + 1 ELSE @]
               /\ UNCHANGED replica
      <4>1. f.have[m] \in Nat
        BY <2>1, <3>1 DEF DownFrames, Haves
      <4> QED BY <4>1, <3>1, <1>0, <1>a DEF Authentic
    <3>2. ASSUME f.type = "Backlog",
                 replica' = [replica EXCEPT ![m] = InsertAll(@, f.envelopes)],
                 nextSeq' = [nextSeq EXCEPT ![m] =
                    IF @ < NextSeq(replica'[m], m) THEN NextSeq(replica'[m], m) ELSE @]
          PROVE  /\ \A p \in Members :
                        replica[p] \subseteq replica'[p] /\ replica'[p] \subseteq Produced
                 /\ \A p \in Members : nextSeq[p] <= nextSeq'[p]
      <4>1. f.envelopes \subseteq Produced
        BY <2>1, <3>2 DEF Carried
      <4>2. NextSeq(replica'[m], m) \in Nat
        BY NextSeqIsFresh, EnvelopeSeq DEF EnvelopeSets, TypeOK
      <4>3. \A p \in Members : replica[p] \subseteq replica'[p] /\ replica'[p] \subseteq Produced
        BY <4>1, <3>2, <1>0, <1>a DEF InsertAll, Authentic
      <4>4. \A p \in Members : nextSeq[p] <= nextSeq'[p]
        BY <4>2, <3>2, <1>0
      <4> QED BY <4>3, <4>4
    <3>3. CASE /\ f.type \in {"Relayed", "Recovered"}
               /\ replica' = [replica EXCEPT ![m] = Insert(@, f.envelope)]
               /\ UNCHANGED nextSeq
      <4>1. f.envelope \in Produced
        BY <2>1, <3>3 DEF Carried
      <4> QED BY <4>1, <3>3, <1>0, <1>a DEF Insert, Authentic
    <3>4. CASE f.type = "CaughtUp" /\ UNCHANGED <<replica, nextSeq>>
      BY <3>4, <1>0, <1>a DEF Authentic
    <3> QED BY <2>2, <3>1, <3>2, <3>3, <3>4 DEF Absorb
  <2>5. \A p \in Members : reoffer'[p] \subseteq Produced
    <3>1. After(replica[m], f.have) \subseteq Produced
      BY <1>a DEF After, Authentic
    <3> QED BY <3>1, <2>2, <1>0, <1>a DEF Authentic
  <2>6. \A p \in Producers :
            /\ conn'[p] # 0 => \A e \in replica[p] : e.producer = p => e.seq < nextSeq'[p]
            /\ conn'[p] = 0 => phase'[p] = "offline"
    <3> SUFFICES ASSUME NEW p \in Producers
                 PROVE  /\ conn'[p] # 0 =>
                              \A e \in replica[p] : e.producer = p => e.seq < nextSeq'[p]
                        /\ conn'[p] = 0 => phase'[p] = "offline"
      OBVIOUS
    <3>1. conn' = conn /\ conn[m] # 0 /\ p \in Members
      BY <2>2, <1>9, <1>0 DEF ReadFrame
    <3>2. ASSUME NEW e \in replica[p], conn[p] # 0, e.producer = p PROVE e.seq < nextSeq'[p]
      <4>1. e.seq < nextSeq[p]
        BY <3>2, <1>a DEF Numbered
      <4>2. e.seq \in Nat /\ nextSeq[p] \in Nat /\ nextSeq'[p] \in Nat
        BY <3>1, EnvelopeSeq DEF TypeOK, EnvelopeSets
      <4> QED BY <4>1, <4>2, <3>1, <2>4
    <3>3. conn[p] = 0 => phase'[p] = phase[p]
      <4>1. conn[p] = 0 => p # m
        BY <3>1
      <4>2. \A x \in Members : x # m => phase'[x] = phase[x]
        BY <1>9 DEF ReadFrame, TypeOK
      <4> QED BY <4>1, <4>2, <3>1
    <3> QED BY <3>1, <3>2, <3>3, <1>a DEF Numbered
  <2> QED BY <2>2, <2>3, <2>4, <2>5, <2>6, <1>0, <1>a, NothingStamped DEF Authentic
<1>10. ASSUME NEW m \in Members, ReofferNext(m) PROVE NumberingInv'
  <2>1. PICK e \in reoffer[m] :
            reoffer' = [reoffer EXCEPT ![m] = @ \ {e}] /\ Send(m, Recover(e))
    BY <1>10 DEF ReofferNext
  <2>2. Recover(e) \in UpFrames /\ Carried(Recover(e)) = {e} /\ e \in Produced
    BY <1>0, <1>a DEF Recover, UpFrames, Carried, Authentic
  <2>3. \A c \in DOMAIN dialled : InTransit(up'[c]) \subseteq Produced
    BY <2>1, <2>2, <1>a, SendType DEF Authentic
  <2>4. \A x \in Members : reoffer'[x] \subseteq Produced
    BY <2>1, <1>0, <1>a DEF Authentic
  <2> QED BY <2>3, <2>4, <1>10, <1>0, <1>a, NothingStamped DEF ReofferNext, Authentic, Numbered
<1>11. ASSUME NEW m \in Members, Disconnect(m) PROVE NumberingInv'
  <2>1. \A c \in DOMAIN dialled : InTransit(down'[c]) \subseteq Produced
    BY <1>11, <1>0, <1>a, InTransitEmpty DEF Disconnect, Authentic
  <2>2. \A p \in Producers :
            /\ conn'[p] # 0 => \A e \in replica[p] : e.producer = p => e.seq < nextSeq'[p]
            /\ conn'[p] = 0 => phase'[p] = "offline"
    <3>1. phase \in [Members -> Phases]
      BY DEF TypeOK
    <3> QED BY <3>1, <1>11, <1>0, <1>a DEF Disconnect, Numbered
  <2>3. \A x \in Members : reoffer'[x] \subseteq Produced
    BY <1>11, <1>0, <1>a DEF Disconnect, Authentic
  <2> QED BY <2>1, <2>2, <2>3, <1>11, <1>0, <1>a, NothingStamped DEF Disconnect, Authentic
<1>12. ASSUME NEW m \in Crashable, Crash(m) PROVE NumberingInv'
  <2>1. m \notin Producers
    BY DEF StableProducers
  <2>2. \A c \in DOMAIN dialled' :
            InTransit(up'[c]) \subseteq Produced /\ InTransit(down'[c]) \subseteq Produced
    BY <1>12, <1>0, <1>a, InTransitEmpty DEF Crash, Authentic
  <2>3. \A x \in Members : /\ replica'[x] = IF x = m THEN {} ELSE replica[x]
                           /\ reoffer'[x] = IF x = m THEN {} ELSE reoffer[x]
                           /\ queue'[x] = IF x = m THEN <<>> ELSE queue[x]
                           /\ conn'[x] = IF x = m THEN 0 ELSE conn[x]
                           /\ nextSeq'[x] = IF x = m THEN 1 ELSE nextSeq[x]
                           /\ phase'[x] = IF x = m THEN "offline" ELSE phase[x]
    BY <1>12 DEF Crash
  <2>4. ledger' \subseteq Produced
    BY <1>12, <1>a DEF Crash, Authentic
  <2>5. \A p \in Producers :
            /\ conn'[p] # 0 => \A e \in replica[p] : e.producer = p => e.seq < nextSeq'[p]
            /\ conn'[p] = 0 => phase'[p] = "offline"
    BY <2>1, <2>3, <1>0, <1>a DEF Numbered
  <2>6. \A x \in Members : replica'[x] \subseteq Produced /\ reoffer'[x] \subseteq Produced
    BY <2>3, <1>a DEF Authentic
  <2>7. \A p \in Producers : replica[p] \subseteq replica'[p]
    BY <2>1, <2>3, <1>0
  <2>8. \A x \in Members \ Producers : queue'[x] = <<>>
    BY <2>3, <1>a
  <2> QED BY <2>2, <2>4, <2>5, <2>6, <2>7, <2>8, NothingStamped
<1>13. CASE Fault
  BY <1>4, <1>11, <1>12, <1>13 DEF Fault, RelayLosesLink, ClientLosesLink
<1>14. CASE UNCHANGED teamVars
  BY <1>14, <1>0, <1>a, NothingStamped DEF teamVars, vars, Authentic, Numbered
<1> QED BY <1>1, <1>3, <1>4, <1>5, <1>6, <1>7, <1>8, <1>9, <1>10, <1>11, <1>13, <1>14
        DEF Next, Serve, Pump, RelaySeesEnd, ClientSeesEnd

(* Whatever copy of an event there is, its producer holds the original, and
   no producer holds two of one number.                                    *)
LEMMA NumberingSuffices ==
    ASSUME TypeOK, NumberingInv
    PROVE  OneEventPerNumber
<1>1. Copies \subseteq Produced
  BY DEF Copies, NumberingInv, Authentic
<1>2. SUFFICES ASSUME NEW d \in Copies, NEW e \in Copies,
                      d.producer = e.producer, d.seq = e.seq
               PROVE  d = e
  BY DEF OneEventPerNumber
<1>3. d.producer \in Producers /\ d \in replica[d.producer] /\ e \in replica[d.producer]
  BY <1>1, <1>2, ProducedMember
<1> QED BY <1>2, <1>3 DEF NumberingInv, Numbered

(* However connections break and are dialled again, whatever was re-offered,
   replayed or still lies in an old socket, no two events ever bear the same
   producer and number, as long as no producer's process crashes
   (client.rs connect_once, "a reconnect can never fork its numbering").   *)
THEOREM NumberingNeverForks ==
    ASSUME StableProducers
    PROVE  Spec => []OneEventPerNumber
<1>1. TeamInit => TypeOK /\ NumberingInv
  BY TypeInit, NumberingInit
<1>2. (TypeOK /\ NumberingInv) /\ [Next]_teamVars => (TypeOK /\ NumberingInv)'
  BY TypeStep, NumberingStep
<1>3. TypeOK /\ NumberingInv => OneEventPerNumber
  BY NumberingSuffices
<1> QED BY <1>1, <1>2, <1>3, PTL DEF Spec

-------------------------------------------------------------------------------
(* The inductive invariants.                                               *)

(* A connection belongs to the member that dialled it; nothing waits in a
   channel whose reader has gone.                                          *)
Wired ==
    /\ \A m \in Members : conn[m] # 0 => dialled[conn[m]] = m
    /\ \A m \in Members : conn[m] = 0 => phase[m] = "offline" /\ reoffer[m] = {}
    /\ \A c \in DOMAIN dialled : ~ Attended(c) => down[c] = <<>>
    /\ \A c \in DOMAIN dialled : c \notin open => up[c] = <<>>

(* How far the two ends of a connection are in the handshake: the relay
   answers the one Hello with one Welcome, the first frame the client reads;
   what waited for the connection is dropped until it is caught up.        *)
Handshake(m) ==
    /\ conn[m] \in open \ slots =>
        /\ phase[m] = "joining" /\ down[conn[m]] = <<>>
        /\ up[conn[m]] = <<Hello(Tips(replica[m]))>>
    /\ conn[m] # 0 => phase[m] # "offline"
    /\ phase[m] = "joining" =>
        /\ reoffer[m] = {}
        /\ conn[m] \in slots => down[conn[m]] # <<>>
        /\ down[conn[m]] # <<>> => down[conn[m]][1].type = "Welcome"
    /\ conn[m] # 0 => \A i \in DOMAIN down[conn[m]] :
        down[conn[m]][i].type = "Welcome" => i = 1 /\ phase[m] = "joining"
    /\ phase[m] \in {"joining", "welcomed"} => discard[m]

LinksInv == Wired /\ \A m \in Members : Handshake(m)

(* Once the backlog of pit writes is dropped, what is queued was queued on
   the connection it will go out on.                                       *)
FreshPitWrites ==
    \A m \in Members : phase[m] = "caught_up" /\ ~ discard[m] =>
        \A i \in DOMAIN queue[m] : queue[m][i].during = conn[m]

(* H holds every earlier number of e's producer. *)
Supports(H, e) == \A s \in 1 .. e.seq - 1 : \E d \in H : d.producer = e.producer /\ d.seq = s

(* Frames read in order never make a hole in H. *)
Upto(s, i) == UNION {Carried(s[j]) : j \in {k \in DOMAIN s : k <= i}}
Chain(H, s) == \A i \in DOMAIN s : \A e \in Carried(s[i]) : Supports(H \cup Upto(s, i), e)

(* Members hold what they send, are sent the rest, and in order. *)
SenderHolds == \A c \in DOMAIN dialled : Attended(c) => InTransit(up[c]) \subseteq replica[dialled[c]]
DownInOrder == \A c \in DOMAIN dialled : Chain(replica[dialled[c]], down[c])

(* The next number a connected producer stamps leaves no hole. *)
StampsNext ==
    \A p \in Producers : conn[p] # 0 =>
        /\ \A s \in 1 .. nextSeq[p] - 1 : \E d \in replica[p] : d.producer = p /\ d.seq = s
        /\ \A i \in DOMAIN down[conn[p]] :
            down[conn[p]][i].type = "Welcome" => down[conn[p]][i].have[p] < nextSeq[p]

Offered == \A m \in Members : reoffer[m] \subseteq replica[m]

SyncInv == Offered /\ SenderHolds /\ NothingSlips /\ NoHoles /\ DownInOrder /\ StampsNext

(* No producer ever numbers more events than it was given. *)
WithinBudget ==
    \A p \in Producers :
        /\ \A e \in replica[p] : e.producer = p => e.seq + Len(queue[p]) <= observed[p]
        /\ conn[p] # 0 => nextSeq[p] - 1 + Len(queue[p]) <= observed[p]
        /\ Len(queue[p]) <= observed[p]

(* What a member holds and the relay lacks is being offered, in an order in
   which the relay takes all of it.                                        *)
Offering ==
    \A m \in Members : conn[m] \in open /\ phase[m] \in {"welcomed", "caught_up"} =>
        replica[m] \subseteq ledger \cup InTransit(up[conn[m]]) \cup reoffer[m]
TipsAreTrue ==
    \A m \in Members : conn[m] \in slots /\ phase[m] = "joining" =>
        \A e \in replica[m] : e.seq <= down[conn[m]][1].have[e.producer] => e \in ledger
RelayHolds == \A c \in open : InTransit(down[c]) \subseteq ledger
UpInOrder == \A c \in DOMAIN dialled : Chain(ledger, up[c])
OffersInv == Offering /\ TipsAreTrue /\ RelayHolds /\ UpInOrder

(* A Publish of an event is on its way once at most, and never while a
   Relayed of it is, or after; a Relayed of it is on its way to a member
   once at most, and never after it was handed over.                       *)
Heard(m) == {live[m][i] : i \in DOMAIN live[m]}
News(s) == {s[i].envelope : i \in {j \in DOMAIN s : s[j].type \in {"Publish", "Relayed"}}}
OneNews(s) ==
    \A i, j \in DOMAIN s :
        s[i].type \in {"Publish", "Relayed"} /\ s[j] = s[i] => i = j
NewsInv ==
    /\ \A c \in DOMAIN dialled : OneNews(up[c]) /\ OneNews(down[c])
    /\ \A c, d \in DOMAIN dialled : c # d => News(up[c]) \cap News(up[d]) = {}
    /\ \A c, d \in DOMAIN dialled : News(up[c]) \cap News(down[d]) = {}
    /\ \A c \in DOMAIN dialled, m \in Members : News(up[c]) \cap Heard(m) = {}
    /\ \A m \in Members : conn[m] # 0 => News(down[conn[m]]) \cap Heard(m) = {}
    /\ \A m \in Members : Heard(m) \subseteq Produced
    /\ LiveAtMostOnce

-------------------------------------------------------------------------------
(* What each step does, point by point.                                    *)

LEMMA Basics ==
    ASSUME TypeOK
    PROVE  /\ DOMAIN dialled = 1 .. Len(dialled) /\ Len(dialled) \in Nat
           /\ open \subseteq DOMAIN dialled /\ slots \subseteq open
           /\ DOMAIN up = DOMAIN dialled /\ DOMAIN down = DOMAIN dialled
           /\ \A c \in DOMAIN dialled :
                /\ dialled[c] \in Members /\ c # 0 /\ c \in Nat
                /\ up[c] \in Seq(UpFrames) /\ down[c] \in Seq(DownFrames)
           /\ \A m \in Members :
                /\ conn[m] \in Nat /\ (conn[m] # 0 => conn[m] \in DOMAIN dialled)
                /\ replica[m] \in EnvelopeSets /\ reoffer[m] \subseteq Envelopes
                /\ nextSeq[m] \in Nat \ {0} /\ phase[m] \in Phases /\ discard[m] \in BOOLEAN
                /\ queue[m] \in Seq(Bodies) /\ observed[m] \in Nat /\ live[m] \in Seq(Envelopes)
           /\ ledger \in EnvelopeSets
<1>1. DOMAIN dialled = 1 .. Len(dialled) /\ Len(dialled) \in Nat
  BY DEF TypeOK
<1>2. \A c \in DOMAIN dialled : /\ dialled[c] \in Members /\ c # 0 /\ c \in Nat
                                /\ up[c] \in Seq(UpFrames) /\ down[c] \in Seq(DownFrames)
  BY <1>1 DEF TypeOK
<1>3. ASSUME NEW m \in Members
      PROVE  /\ conn[m] \in Nat /\ (conn[m] # 0 => conn[m] \in DOMAIN dialled)
             /\ replica[m] \in EnvelopeSets /\ reoffer[m] \subseteq Envelopes
             /\ nextSeq[m] \in Nat \ {0} /\ phase[m] \in Phases /\ discard[m] \in BOOLEAN
             /\ queue[m] \in Seq(Bodies) /\ observed[m] \in Nat /\ live[m] \in Seq(Envelopes)
  <2>1. conn[m] \in 0 .. Len(dialled) /\ observed[m] \in 0 .. MaxObserved
    BY DEF TypeOK
  <2>2. conn[m] \in Nat /\ (conn[m] # 0 => conn[m] \in DOMAIN dialled) /\ observed[m] \in Nat
    BY <1>1, <2>1, BoundsAssumption
  <2> QED BY <2>2 DEF TypeOK
<1>4. /\ open \subseteq DOMAIN dialled /\ slots \subseteq open /\ ledger \in EnvelopeSets
      /\ DOMAIN up = DOMAIN dialled /\ DOMAIN down = DOMAIN dialled
  BY DEF TypeOK
<1> QED BY <1>1, <1>2, <1>3, <1>4

LEMMA ServeEffect ==
    ASSUME TypeOK, NEW c \in open, ServeHello(c)
    PROVE  /\ c \notin slots /\ up[c] # <<>> /\ Head(up[c]).type = "Hello"
           /\ slots' = slots \cup {c}
           /\ up'[c] = Tail(up[c])
           /\ \A d \in DOMAIN dialled : d # c => up'[d] = up[d] /\ down'[d] = down[d]
           /\ Attended(c) => down'[c] = down[c] \o <<Welcome(Tips(ledger))>>
                                \o Chunks(After(ledger, Head(up[c]).have)) \o <<CaughtUp>>
           /\ ~ Attended(c) => down'[c] = down[c]
           /\ UNCHANGED <<ledger, open, dialled, conn, phase, replica, nextSeq, discard, reoffer,
                          queue, observed, live>>
<1>1. c \in DOMAIN up /\ c \in DOMAIN down /\ DOMAIN up = DOMAIN dialled /\ DOMAIN down = DOMAIN dialled
  BY DEF TypeOK
<1> QED BY <1>1 DEF ServeHello, clientVars, overlayVars

(* The pump ends the connection, drops an envelope, or takes one and sends
   it on.                                                                  *)
Ended(c) ==
    /\ open' = open \ {c} /\ slots' = slots \ {c} /\ up'[c] = <<>>
    /\ UNCHANGED <<ledger, down>>
Dropped(c, e) ==
    /\ ~ (AcceptsRelayed(ledger, e) /\ ~ Holds(ledger, e))
    /\ up'[c] = Tail(up[c])
    /\ UNCHANGED <<ledger, open, slots, down>>
Taken(c, e, g) ==
    /\ AcceptsRelayed(ledger, e) /\ ~ Holds(ledger, e)
    /\ up'[c] = Tail(up[c])
    /\ ledger' = ledger \cup {e}
    /\ \A d \in DOMAIN dialled :
        down'[d] = IF d \in slots \ {c} /\ Attended(d) THEN Append(down[d], g) ELSE down[d]
    /\ UNCHANGED <<open, slots>>

LEMMA EndedEffect ==
    ASSUME TypeOK, NEW c \in open, Deregister(c), UNCHANGED <<ledger, down>>
    PROVE  Ended(c) /\ (\A d \in DOMAIN dialled : d # c => up'[d] = up[d])
BY DEF Deregister, TypeOK, Ended

LEMMA PumpEffect ==
    ASSUME TypeOK, NEW c \in open, PumpEnvelope(c)
    PROVE  LET f == Head(up[c])
               e == f.envelope
               g == FanoutFrame(e, f.type = "Publish")
           IN  /\ c \in slots /\ up[c] # <<>> /\ f \in UpFrames
               /\ \A d \in DOMAIN dialled : d # c => up'[d] = up[d]
               /\ UNCHANGED <<dialled, conn, phase, replica, nextSeq, discard, reoffer,
                              queue, observed, live>>
               /\ \/ Ended(c) /\ (f.type = "Hello" \/ e.producer # dialled[c])
                  \/ /\ f.type \in {"Publish", "Recover"} /\ e \in Envelopes /\ Carried(f) = {e}
                     /\ g \in DownFrames /\ Carried(g) = {e} /\ g.type \in {"Relayed", "Recovered"}
                     /\ g.envelope = e /\ (g.type = "Relayed" <=> f.type = "Publish")
                     /\ Dropped(c, e) \/ Taken(c, e, g)
<1> DEFINE f == Head(up[c])
           e == f.envelope
           g == FanoutFrame(e, f.type = "Publish")
<1>1. c \in DOMAIN up /\ DOMAIN up = DOMAIN dialled /\ DOMAIN down = DOMAIN dialled
  BY DEF TypeOK
<1>2. c \in slots /\ up[c] # <<>> /\ f \in UpFrames
  <2>1. up[c] \in Seq(UpFrames) /\ up[c] # <<>> /\ c \in slots
    BY <1>1 DEF TypeOK, PumpEnvelope
  <2> QED BY <2>1, InTransitTail
<1>3. UNCHANGED <<dialled, conn, phase, replica, nextSeq, discard, reoffer, queue, observed, live>>
  BY DEF PumpEnvelope, clientVars, overlayVars
<1>4. CASE f.type = "Hello" \/ (f.type = "Publish" /\ e.producer # dialled[c])
  <2>1. Deregister(c) /\ UNCHANGED <<ledger, down>>
    BY <1>4 DEF PumpEnvelope
  <2> QED BY <2>1, <1>2, <1>3, <1>4, EndedEffect
<1>5. CASE ~ (f.type = "Hello" \/ (f.type = "Publish" /\ e.producer # dialled[c]))
  <2>1. f.type \in {"Publish", "Recover"} /\ e \in Envelopes
    BY <1>2, <1>5 DEF UpFrames
  <2>2. Carried(f) = {e}
    BY <2>1 DEF Carried
  <2>3. /\ g \in DownFrames /\ Carried(g) = {e} /\ g.type \in {"Relayed", "Recovered"}
        /\ g.envelope = e /\ (g.type = "Relayed" <=> f.type = "Publish")
    BY <2>1 DEF FanoutFrame, Relayed, Recovered, DownFrames, Carried
  <2>4. /\ up' = [up EXCEPT ![c] = Tail(@)]
        /\ IF AcceptsRelayed(ledger, e) /\ ~ Holds(ledger, e)
           THEN ledger' = Insert(ledger, e) /\ down' = Fanout(c, g)
           ELSE UNCHANGED <<ledger, down>>
        /\ UNCHANGED <<open, slots>>
    BY <1>5 DEF PumpEnvelope
  <2> HIDE DEF f, e, g
  <2>5. Dropped(c, e) \/ Taken(c, e, g)
    BY <2>4, <1>1 DEF Dropped, Taken, Insert, Fanout
  <2>6. \A d \in DOMAIN dialled : d # c => up'[d] = up[d]
    BY <2>4, <1>1
  <2> QED BY <1>2, <1>3, <2>1, <2>2, <2>3, <2>5, <2>6 DEF f, e, g
<1> QED BY <1>4, <1>5

LEMMA SendEffect ==
    ASSUME TypeOK, NEW m \in Members, NEW f \in UpFrames, Send(m, f)
    PROVE  /\ \A c \in DOMAIN dialled : c # conn[m] => up'[c] = up[c]
           /\ conn[m] \in open => up'[conn[m]] = Append(up[conn[m]], f)
           /\ conn[m] \in DOMAIN dialled \ open => up'[conn[m]] = up[conn[m]]
BY DEF TypeOK, Send

LEMMA ObserveEffect ==
    ASSUME TypeOK, NEW m \in Members, NEW kind \in Kinds, Observe(m, kind)
    PROVE  /\ m \in Producers
           /\ \A x \in Members : x # m => queue'[x] = queue[x] /\ observed'[x] = observed[x]
           /\ observed'[m] = observed[m] + 1
           /\ \E b : /\ queue'[m] = Append(queue[m], b)
                     /\ phase[m] = "caught_up" => b.during = conn[m]
           /\ UNCHANGED <<ledger, open, slots, dialled, up, down, conn, phase, replica, nextSeq,
                          discard, reoffer, live>>
<1> DEFINE b == [by |-> m, n |-> observed[m] + 1, kind |-> kind,
                 during |-> IF phase[m] = "caught_up" THEN conn[m] ELSE 0]
<1>1. queue' = [queue EXCEPT ![m] = Append(@, b)] /\ observed' = [observed EXCEPT ![m] = @ + 1]
  BY DEF Observe
<1>2. phase[m] = "caught_up" => b.during = conn[m]
  OBVIOUS
<1> HIDE DEF b
<1>3. /\ queue'[m] = Append(queue[m], b) /\ observed'[m] = observed[m] + 1
      /\ \A x \in Members : x # m => queue'[x] = queue[x] /\ observed'[x] = observed[x]
  BY <1>1 DEF TypeOK
<1> QED BY <1>2, <1>3 DEF Observe, relayVars, wireVars, clientVars

LEMMA DialEffect ==
    ASSUME TypeOK, NEW m \in Members, Dial(m)
    PROVE  LET k == Len(dialled) + 1
           IN  /\ conn[m] = 0 /\ k \notin DOMAIN dialled /\ k # 0
               /\ DOMAIN dialled' = DOMAIN dialled \cup {k}
               /\ \A c \in DOMAIN dialled :
                    dialled'[c] = dialled[c] /\ up'[c] = up[c] /\ down'[c] = down[c]
               /\ dialled'[k] = m /\ up'[k] = <<Hello(Tips(replica[m]))>> /\ down'[k] = <<>>
               /\ open' = open \cup {k}
               /\ \A x \in Members : x # m =>
                    /\ conn'[x] = conn[x] /\ phase'[x] = phase[x]
                    /\ nextSeq'[x] = nextSeq[x] /\ discard'[x] = discard[x]
               /\ conn'[m] = k /\ phase'[m] = "joining" /\ discard'[m]
               /\ nextSeq'[m] = NextSeq(replica[m], m)
               /\ UNCHANGED <<ledger, slots, replica, reoffer, queue, observed, live>>
<1> DEFINE k == Len(dialled) + 1
           first == <<Hello(Tips(replica[m]))>>
<1>1. /\ dialled' = Append(dialled, m) /\ up' = Append(up, first) /\ down' = Append(down, <<>>)
      /\ open' = open \cup {k} /\ conn' = [conn EXCEPT ![m] = k] /\ conn[m] = 0
  BY DEF Dial
<1>2. first \in Seq(UpFrames) /\ InTransit(first) = {}
  <2>1. Hello(Tips(replica[m])) \in UpFrames /\ Carried(Hello(Tips(replica[m]))) = {}
    BY TipsType DEF TypeOK, Hello, UpFrames, Carried
  <2> QED BY <2>1, InTransitOne
<1> HIDE DEF first
<1>3. /\ dialled \in Seq(Members) /\ up \in [DOMAIN dialled -> Seq(UpFrames)]
      /\ down \in [DOMAIN dialled -> Seq(DownFrames)] /\ <<>> \in Seq(DownFrames)
  BY DEF TypeOK
<1>4. /\ DOMAIN dialled' = DOMAIN dialled \cup {k}
      /\ \A c \in DOMAIN dialled : dialled'[c] = dialled[c]
      /\ dialled'[k] = m
  BY <1>1, <1>3, NewConnection
<1>5. (\A c \in DOMAIN dialled : up'[c] = up[c]) /\ up'[k] = first
  BY <1>1, <1>2, <1>3, NewConnection
<1>6. (\A c \in DOMAIN dialled : down'[c] = down[c]) /\ down'[k] = <<>>
  BY <1>1, <1>3, NewConnection
<1>7. k \notin DOMAIN dialled /\ k # 0
  BY Basics
<1>8. /\ \A x \in Members : x # m =>
            /\ conn'[x] = conn[x] /\ phase'[x] = phase[x]
            /\ nextSeq'[x] = nextSeq[x] /\ discard'[x] = discard[x]
      /\ conn'[m] = k /\ phase'[m] = "joining" /\ discard'[m]
      /\ nextSeq'[m] = NextSeq(replica[m], m)
      /\ UNCHANGED <<ledger, slots, replica, reoffer, queue, observed, live>>
  BY DEF Dial, TypeOK, overlayVars
<1> QED BY <1>1, <1>4, <1>5, <1>6, <1>7, <1>8 DEF first

(* What the publish channel holds is dropped, or stamped, kept and sent.   *)
LEMMA PublishEffect ==
    ASSUME TypeOK, NEW m \in Members, PublishNext(m)
    PROVE  LET b == Head(queue[m])
               e == [producer |-> m, seq |-> nextSeq[m], body |-> b]
           IN  /\ phase[m] = "caught_up" /\ reoffer[m] = {} /\ queue[m] # <<>> /\ b \in Bodies
               /\ queue'[m] = Tail(queue[m])
               /\ \A x \in Members : x # m => /\ queue'[x] = queue[x] /\ nextSeq'[x] = nextSeq[x]
                                              /\ replica'[x] = replica[x]
               /\ UNCHANGED <<ledger, open, slots, dialled, down, conn, phase, discard, reoffer,
                              observed, live>>
               /\ \/ UNCHANGED <<nextSeq, replica, up>>
                  \/ /\ ~ (discard[m] /\ b.kind = "pit_write")
                     /\ e \in Envelopes /\ Publish(e) \in UpFrames /\ Carried(Publish(e)) = {e}
                     /\ nextSeq'[m] = nextSeq[m] + 1
                     /\ replica'[m] = Insert(replica[m], e)
                     /\ Send(m, Publish(e))
<1> DEFINE b == Head(queue[m])
           e == [producer |-> m, seq |-> nextSeq[m], body |-> b]
<1>1. /\ phase[m] = "caught_up" /\ reoffer[m] = {} /\ queue[m] # <<>>
      /\ queue[m] \in Seq(Bodies) /\ nextSeq[m] \in Nat \ {0}
  BY DEF PublishNext, TypeOK
<1>2. b \in Bodies
  BY <1>1
<1>3. e \in Envelopes /\ Publish(e) \in UpFrames /\ Carried(Publish(e)) = {e}
  BY <1>1, <1>2 DEF Envelopes, Publish, UpFrames, Carried
<1>4. /\ queue'[m] = Tail(queue[m])
      /\ \A x \in Members : x # m => queue'[x] = queue[x]
      /\ UNCHANGED <<ledger, open, slots, dialled, down, conn, phase, discard, reoffer, observed, live>>
  BY DEF PublishNext, TypeOK, relayVars
<1>5. CASE discard[m] /\ b.kind = "pit_write"
  <2>1. UNCHANGED <<nextSeq, replica, up>>
    BY <1>5 DEF PublishNext
  <2> QED BY <1>1, <1>2, <1>4, <2>1
<1>6. CASE ~ (discard[m] /\ b.kind = "pit_write")
  <2>1. /\ nextSeq' = [nextSeq EXCEPT ![m] = @ + 1]
        /\ replica' = [replica EXCEPT ![m] = Insert(@, e)]
        /\ Send(m, Publish(e))
    BY <1>6 DEF PublishNext
  <2> HIDE DEF b, e
  <2>2. /\ nextSeq'[m] = nextSeq[m] + 1 /\ replica'[m] = Insert(replica[m], e)
        /\ \A x \in Members : x # m => nextSeq'[x] = nextSeq[x] /\ replica'[x] = replica[x]
    BY <2>1 DEF TypeOK
  <2> QED BY <1>1, <1>2, <1>3, <1>4, <1>6, <2>1, <2>2 DEF b, e
<1> QED BY <1>5, <1>6

LEMMA DrainEffect ==
    ASSUME TypeOK, NEW m \in Members, DrainEmpty(m)
    PROVE  /\ phase[m] = "caught_up" /\ queue[m] = <<>>
           /\ discard'[m] = FALSE /\ \A x \in Members : x # m => discard'[x] = discard[x]
           /\ UNCHANGED <<ledger, open, slots, dialled, up, down, conn, phase, replica, nextSeq,
                          reoffer, queue, observed, live>>
BY DEF TypeOK, DrainEmpty, relayVars, wireVars, overlayVars

LEMMA ReadEffect ==
    ASSUME TypeOK, NEW m \in Members, ReadFrame(m)
    PROVE  LET c == conn[m]
               f == Head(down[c])
           IN  /\ c \in DOMAIN dialled /\ c # 0 /\ down[c] # <<>> /\ reoffer[m] = {}
               /\ f \in DownFrames /\ f = down[c][1]
               /\ phase[m] = "caught_up" => queue[m] = <<>>
               /\ Absorb(m, f)
               /\ down'[c] = Tail(down[c]) /\ \A d \in DOMAIN dialled : d # c => down'[d] = down[d]
               /\ \A x \in Members : x # m =>
                    /\ phase'[x] = phase[x] /\ replica'[x] = replica[x] /\ nextSeq'[x] = nextSeq[x]
                    /\ discard'[x] = discard[x] /\ reoffer'[x] = reoffer[x] /\ live'[x] = live[x]
               /\ phase'[m] = IF f.type = "Welcome" THEN "welcomed"
                              ELSE IF f.type = "CaughtUp" /\ phase[m] = "welcomed" THEN "caught_up"
                              ELSE phase[m]
               /\ reoffer'[m] = IF f.type = "Welcome" THEN After(replica[m], f.have) ELSE {}
               /\ discard'[m] = (discard[m] /\ phase[m] # "caught_up")
               /\ live'[m] = IF f.type = "Relayed" /\ f.envelope.body.kind = "pit_write"
                             THEN Append(live[m], f.envelope) ELSE live[m]
               /\ UNCHANGED <<ledger, open, slots, dialled, up, conn, queue, observed>>
<1> DEFINE c == conn[m]
           f == Head(down[c])
<1>1. c \in DOMAIN dialled /\ c # 0 /\ down[c] # <<>> /\ f \in DownFrames /\ f = down[c][1]
  <2>1. c # 0 /\ down[c] # <<>>
    BY DEF ReadFrame
  <2>2. c \in DOMAIN dialled /\ down[c] \in Seq(DownFrames)
    BY <2>1, Basics
  <2> HIDE DEF c
  <2> QED BY <2>1, <2>2
<1>2. /\ Absorb(m, f) /\ down' = [down EXCEPT ![c] = Tail(@)]
      /\ reoffer[m] = {} /\ (phase[m] = "caught_up" => queue[m] = <<>>)
      /\ UNCHANGED <<ledger, open, slots, dialled, up, conn, queue, observed>>
  BY DEF ReadFrame, relayVars
<1>3. /\ phase' = [phase EXCEPT ![m] = IF f.type = "Welcome" THEN "welcomed"
                                       ELSE IF f.type = "CaughtUp" /\ @ = "welcomed" THEN "caught_up"
                                       ELSE @]
      /\ reoffer' = [reoffer EXCEPT ![m] = IF f.type = "Welcome" THEN After(replica[m], f.have) ELSE {}]
      /\ discard' = [discard EXCEPT ![m] = @ /\ phase[m] # "caught_up"]
      /\ live' = [live EXCEPT ![m] = IF f.type = "Relayed" /\ f.envelope.body.kind = "pit_write"
                                     THEN Append(@, f.envelope) ELSE @]
  BY DEF ReadFrame
<1> HIDE DEF c, f
<1>4. \A x \in Members : x # m => replica'[x] = replica[x] /\ nextSeq'[x] = nextSeq[x]
  BY <1>2 DEF Absorb, TypeOK
<1>5. DOMAIN down = DOMAIN dialled
  BY DEF TypeOK
<1>6. /\ down'[c] = Tail(down[c]) /\ \A d \in DOMAIN dialled : d # c => down'[d] = down[d]
  BY <1>1, <1>2, <1>5
<1>7. /\ \A x \in Members : x # m => /\ phase'[x] = phase[x] /\ discard'[x] = discard[x]
                                     /\ reoffer'[x] = reoffer[x] /\ live'[x] = live[x]
      /\ phase'[m] = IF f.type = "Welcome" THEN "welcomed"
                     ELSE IF f.type = "CaughtUp" /\ phase[m] = "welcomed" THEN "caught_up"
                     ELSE phase[m]
      /\ reoffer'[m] = IF f.type = "Welcome" THEN After(replica[m], f.have) ELSE {}
      /\ discard'[m] = (discard[m] /\ phase[m] # "caught_up")
      /\ live'[m] = IF f.type = "Relayed" /\ f.envelope.body.kind = "pit_write"
                    THEN Append(live[m], f.envelope) ELSE live[m]
  BY <1>3 DEF TypeOK
<1> QED BY <1>1, <1>2, <1>4, <1>6, <1>7 DEF c, f

LEMMA ReofferEffect ==
    ASSUME TypeOK, NEW m \in Members, ReofferNext(m)
    PROVE  /\ \E e \in reoffer[m] :
                /\ \A d \in reoffer[m] \ {e} : Precedes(e, d)
                /\ reoffer'[m] = reoffer[m] \ {e}
                /\ e \in Envelopes /\ Recover(e) \in UpFrames /\ Carried(Recover(e)) = {e}
                /\ Send(m, Recover(e))
           /\ \A x \in Members : x # m => reoffer'[x] = reoffer[x]
           /\ UNCHANGED <<ledger, open, slots, dialled, down, conn, phase, replica, nextSeq, discard,
                          queue, observed, live>>
<1>1. PICK e \in reoffer[m] : /\ \A d \in reoffer[m] \ {e} : Precedes(e, d)
                              /\ reoffer' = [reoffer EXCEPT ![m] = @ \ {e}]
                              /\ Send(m, Recover(e))
  BY DEF ReofferNext
<1>2. e \in Envelopes /\ Recover(e) \in UpFrames /\ Carried(Recover(e)) = {e}
  BY DEF TypeOK, Recover, UpFrames, Carried
<1>3. reoffer'[m] = reoffer[m] \ {e} /\ \A x \in Members : x # m => reoffer'[x] = reoffer[x]
  BY <1>1 DEF TypeOK
<1>4. UNCHANGED <<ledger, open, slots, dialled, down, conn, phase, replica, nextSeq, discard,
                  queue, observed, live>>
  BY DEF ReofferNext, relayVars, overlayVars
<1> QED BY <1>1, <1>2, <1>3, <1>4

LEMMA DisconnectEffect ==
    ASSUME TypeOK, NEW m \in Members, Disconnect(m)
    PROVE  /\ conn[m] # 0 /\ conn[m] \in DOMAIN dialled
           /\ down'[conn[m]] = <<>> /\ \A d \in DOMAIN dialled : d # conn[m] => down'[d] = down[d]
           /\ conn'[m] = 0 /\ phase'[m] = "offline" /\ reoffer'[m] = {}
           /\ \A x \in Members : x # m =>
                conn'[x] = conn[x] /\ phase'[x] = phase[x] /\ reoffer'[x] = reoffer[x]
           /\ UNCHANGED <<ledger, open, slots, dialled, up, replica, nextSeq, discard, queue,
                          observed, live>>
<1>1. conn[m] # 0 /\ conn[m] \in DOMAIN dialled
  BY Basics DEF Disconnect
<1> QED BY <1>1 DEF TypeOK, Disconnect, relayVars, overlayVars

(* A crash of m's overlay, which closes the connections `cut`. *)
CrashCuts(m, cut) ==
    /\ m = Host => DOMAIN dialled \subseteq cut
    /\ open' = open \ cut /\ slots' = slots \ cut
    /\ \A c \in DOMAIN dialled :
        /\ up'[c] = IF c \in cut THEN <<>> ELSE up[c]
        /\ down'[c] = IF dialled[c] = m THEN <<>> ELSE down[c]
    /\ ledger' = IF m = Host THEN {} ELSE ledger
    /\ \A x \in Members : x # m =>
        /\ conn'[x] = conn[x] /\ phase'[x] = phase[x] /\ replica'[x] = replica[x]
        /\ nextSeq'[x] = nextSeq[x] /\ discard'[x] = discard[x]
        /\ reoffer'[x] = reoffer[x] /\ queue'[x] = queue[x]
    /\ m \in Members =>
        /\ conn'[m] = 0 /\ phase'[m] = "offline" /\ replica'[m] = {} /\ nextSeq'[m] = 1
        /\ discard'[m] /\ reoffer'[m] = {} /\ queue'[m] = <<>>
    /\ UNCHANGED <<dialled, observed, live>>

LEMMA CrashEffect ==
    ASSUME TypeOK, NEW m \in Crashable, Crash(m)
    PROVE  \E cut \in SUBSET Nat : CrashCuts(m, cut)
<1> DEFINE cut == IF m = Host THEN Conns
                  ELSE IF Lingering THEN {}
                  ELSE {c \in DOMAIN dialled : dialled[c] = m}
<1>1. cut \in SUBSET Nat /\ (m = Host => DOMAIN dialled \subseteq cut)
  <2>1. Len(dialled) \in Nat /\ DOMAIN dialled = 1 .. Len(dialled) /\ Len(dialled) <= MaxConns
    BY DEF TypeOK
  <2>2. Conns \subseteq Nat /\ DOMAIN dialled \subseteq Conns
    BY <2>1, BoundsAssumption DEF Conns
  <2> QED BY <2>2
<1>2. /\ open' = open \ cut /\ slots' = slots \ cut
      /\ up' = [c \in DOMAIN up |-> IF c \in cut THEN <<>> ELSE up[c]]
      /\ down' = [c \in DOMAIN down |-> IF dialled[c] = m THEN <<>> ELSE down[c]]
  BY DEF Crash
<1> HIDE DEF cut
<1>3. \A c \in DOMAIN dialled : /\ up'[c] = IF c \in cut THEN <<>> ELSE up[c]
                                /\ down'[c] = IF dialled[c] = m THEN <<>> ELSE down[c]
  BY <1>2 DEF TypeOK
<1>4. /\ ledger' = IF m = Host THEN {} ELSE ledger
      /\ \A x \in Members : x # m =>
            /\ conn'[x] = conn[x] /\ phase'[x] = phase[x] /\ replica'[x] = replica[x]
            /\ nextSeq'[x] = nextSeq[x] /\ discard'[x] = discard[x]
            /\ reoffer'[x] = reoffer[x] /\ queue'[x] = queue[x]
      /\ m \in Members =>
            /\ conn'[m] = 0 /\ phase'[m] = "offline" /\ replica'[m] = {} /\ nextSeq'[m] = 1
            /\ discard'[m] /\ reoffer'[m] = {} /\ queue'[m] = <<>>
      /\ UNCHANGED <<dialled, observed, live>>
  BY DEF Crash
<1> QED BY <1>1, <1>2, <1>3, <1>4 DEF CrashCuts

LEMMA HangupEffect ==
    ASSUME TypeOK, NEW c \in open, Hangup(c)
    PROVE  /\ Ended(c) /\ (\A d \in DOMAIN dialled : d # c => up'[d] = up[d])
           /\ UNCHANGED <<dialled, conn, phase, replica, nextSeq, discard, reoffer, queue, observed, live>>
BY EndedEffect DEF Hangup, clientVars, overlayVars

(* A step of the room is one of these, or changes nothing. *)
LEMMA StepCases ==
    ASSUME TypeOK, [Next]_teamVars
    PROVE  \/ \E c \in open : ServeHello(c) \/ PumpEnvelope(c) \/ Hangup(c)
           \/ \E m \in Members : \/ Dial(m) \/ PublishNext(m) \/ DrainEmpty(m) \/ ReadFrame(m)
                                 \/ ReofferNext(m) \/ Disconnect(m)
                                 \/ \E kind \in Kinds : Observe(m, kind)
           \/ \E m \in Crashable : Crash(m)
           \/ UNCHANGED vars
<1>1. CASE Fault
  BY <1>1 DEF Fault, RelayLosesLink, ClientLosesLink
<1>2. CASE \E c \in open : Serve(c)
  BY <1>2 DEF Serve, RelaySeesEnd
<1>3. CASE \E m \in Members : Dial(m) \/ Pump(m)
  BY <1>3 DEF Pump, ClientSeesEnd
<1>4. CASE UNCHANGED teamVars
  BY <1>4 DEF teamVars
<1> QED BY <1>1, <1>2, <1>3, <1>4 DEF Next

-------------------------------------------------------------------------------
(* Channels and the handshake.                                             *)

LEMMA AppendShape ==
    ASSUME NEW F, NEW s \in Seq(F), NEW g \in F
    PROVE  /\ s # <<>> => Append(s, g)[1] = s[1]
           /\ Append(s, g) # <<>> /\ Append(s, g) \in Seq(F)
           /\ \A i \in DOMAIN Append(s, g) : (i \in DOMAIN s /\ Append(s, g)[i] = s[i])
                                             \/ (i = Len(s) + 1 /\ Append(s, g)[i] = g)
           /\ \A i \in DOMAIN s : i \in DOMAIN Append(s, g) /\ Append(s, g)[i] = s[i]
           /\ Len(s) + 1 \in DOMAIN Append(s, g) /\ Append(s, g)[Len(s) + 1] = g
<1>1. /\ Append(s, g) \in Seq(F) /\ Len(Append(s, g)) = Len(s) + 1 /\ Len(s) \in Nat
      /\ DOMAIN s = 1 .. Len(s) /\ DOMAIN Append(s, g) = 1 .. Len(s) + 1
  OBVIOUS
<1>2. /\ \A i \in 1 .. Len(s) : Append(s, g)[i] = s[i]
      /\ Append(s, g)[Len(s) + 1] = g
  OBVIOUS
<1>3. s # <<>> => 1 \in DOMAIN s
  OBVIOUS
<1>4. Append(s, g) # <<>>
  BY <1>1
<1> QED BY <1>1, <1>2, <1>3, <1>4

(* What the relay answers to a Hello. *)
Reply(S) == <<Welcome(Tips(ledger))>> \o Chunks(S) \o <<CaughtUp>>

LEMMA ReplyShape ==
    ASSUME TypeOK, NEW S \in EnvelopeSets
    PROVE  /\ Reply(S) \in Seq(DownFrames) /\ Reply(S) # <<>>
           /\ Reply(S) = <<>> \o <<Welcome(Tips(ledger))>> \o Chunks(S) \o <<CaughtUp>>
           /\ Chunks(S) \in Seq(DownFrames)
           /\ DOMAIN Reply(S) = 1 .. Len(Chunks(S)) + 2
           /\ Reply(S)[1] = Welcome(Tips(ledger))
           /\ \A i \in DOMAIN Chunks(S) : Reply(S)[i + 1] = Chunks(S)[i] /\ Chunks(S)[i].type = "Backlog"
           /\ Reply(S)[Len(Chunks(S)) + 2] = CaughtUp
           /\ \A i \in DOMAIN Reply(S) : Reply(S)[i].type = "Welcome" => i = 1
<1> DEFINE w == Welcome(Tips(ledger))
           C == Chunks(S)
<1>1. w \in DownFrames /\ CaughtUp \in DownFrames /\ CaughtUp.type # "Welcome"
  <2>1. Tips(ledger) \in Haves
    BY TipsType DEF TypeOK
  <2> QED BY <2>1 DEF Welcome, CaughtUp, DownFrames
<1>2. C \in Seq(DownFrames)
  BY ChunksCarry
<1>3. \A i \in DOMAIN C : C[i].type = "Backlog"
  BY DEF Chunks, Backlog
<1> HIDE DEF w, C
<1> DEFINE r == <<w>> \o C \o <<CaughtUp>>
<1>4. r = <<>> \o <<w>> \o C \o <<CaughtUp>>
  <2>1. <<>> \o <<w>> = <<w>>
    BY <1>1
  <2> QED BY <2>1
<1>5. /\ r \in Seq(DownFrames) /\ Len(r) = Len(C) + 2 /\ DOMAIN r = 1 .. Len(C) + 2 /\ Len(C) \in Nat
      /\ r[1] = w /\ r[Len(C) + 2] = CaughtUp
  BY <1>1, <1>2
<1>6. \A i \in DOMAIN C : r[i + 1] = C[i]
  BY <1>1, <1>2
<1>7. \A i \in DOMAIN r : i # 1 /\ i # Len(C) + 2 => i - 1 \in DOMAIN C /\ r[i] = C[i - 1]
  BY <1>1, <1>2
<1>8. \A i \in DOMAIN r : r[i].type = "Welcome" => i = 1
  BY <1>1, <1>3, <1>5, <1>7
<1>9. r # <<>>
  BY <1>5
<1> HIDE DEF r
<1> QED BY <1>2, <1>3, <1>4, <1>5, <1>6, <1>8, <1>9 DEF r, w, C, Reply

LEMMA LinksInit == TeamInit => LinksInv
BY DEF TeamInit, Init, LinksInv, Wired, Handshake

LEMMA LinksStep ==
    ASSUME TypeOK, TypeOK', LinksInv, [Next]_teamVars
    PROVE  LinksInv'
<1> USE DEF LinksInv, Attended
<1>a. Wired /\ \A x \in Members : Handshake(x)
  OBVIOUS
<1>1. ASSUME NEW c \in open, ServeHello(c) PROVE LinksInv'
  <2>1. /\ c \in DOMAIN dialled /\ c \notin slots
        /\ slots' = slots \cup {c} /\ UNCHANGED <<open, dialled, conn, phase, replica, reoffer, discard>>
        /\ \A d \in DOMAIN dialled : d # c => up'[d] = up[d] /\ down'[d] = down[d]
        /\ ~ Attended(c) => down'[c] = down[c]
    BY <1>1, ServeEffect, Basics
  <2>2. CASE Attended(c)
    <3> DEFINE x == dialled[c]
               S == After(ledger, Head(up[c]).have)
    <3>1. x \in Members /\ conn[x] = c /\ c # 0
      BY <2>1, <2>2, Basics
    <3>2. down[c] = <<>> /\ phase[x] = "joining"
      BY <2>1, <3>1, <1>a DEF Handshake
    <3>3. S \in EnvelopeSets
      BY FS_Subset DEF After, EnvelopeSets, TypeOK
    <3>4. down'[c] = Reply(S)
      <4>1. Reply(S) = <<>> \o <<Welcome(Tips(ledger))>> \o Chunks(S) \o <<CaughtUp>>
        BY <3>3, ReplyShape
      <4>2. down'[c] = down[c] \o <<Welcome(Tips(ledger))>> \o Chunks(S) \o <<CaughtUp>>
        BY <1>1, <2>2, ServeEffect
      <4> HIDE DEF S
      <4> QED BY <3>2, <4>1, <4>2
    <3>5. /\ down'[c] # <<>> /\ down'[c][1].type = "Welcome"
          /\ \A i \in DOMAIN down'[c] : down'[c][i].type = "Welcome" => i = 1
      <4>1. Welcome(Tips(ledger)).type = "Welcome"
        BY DEF Welcome
      <4> QED BY <3>3, <3>4, <4>1, ReplyShape
    <3>6. Wired'
      BY <1>a, <2>1, <2>2, <3>1 DEF Wired
    <3>7. ASSUME NEW y \in Members PROVE Handshake(y)'
      <4>1. Handshake(y)
        BY <1>a
      <4>2. CASE conn[y] = c
        <5>1. dialled[c] = y
          BY <1>a, <4>2, <3>1 DEF Wired
        <5> QED BY <2>1, <3>2, <3>5, <4>1, <4>2, <5>1 DEF Handshake
      <4>3. CASE conn[y] # c /\ conn[y] # 0
        <5>1. conn[y] \in DOMAIN dialled
          BY <4>3, Basics
        <5> QED BY <2>1, <4>1, <4>3, <5>1 DEF Handshake
      <4>4. CASE conn[y] = 0
        <5>1. phase[y] = "offline" /\ conn[y] \notin open
          BY <1>a, <4>4, Basics DEF Wired
        <5> QED BY <2>1, <4>1, <4>4, <5>1, Basics DEF Handshake
      <4> QED BY <4>2, <4>3, <4>4
    <3> QED BY <3>6, <3>7
  <2>3. CASE ~ Attended(c)
    <3>1. Wired'
      BY <1>a, <2>1, <2>3 DEF Wired
    <3>2. ASSUME NEW y \in Members PROVE Handshake(y)'
      <4>1. Handshake(y) /\ conn[y] # c
        BY <1>a, <2>1, <2>3, Basics DEF Wired
      <4>2. conn[y] # 0 => conn[y] \in DOMAIN dialled
        BY Basics
      <4>3. conn[y] = 0 => phase[y] = "offline" /\ conn[y] \notin open
        BY <1>a, Basics DEF Wired
      <4> QED BY <2>1, <4>1, <4>2, <4>3 DEF Handshake
    <3> QED BY <3>1, <3>2
  <2> QED BY <2>2, <2>3
<1>2. ASSUME NEW c \in open, Ended(c), \A d \in DOMAIN dialled : d # c => up'[d] = up[d],
             UNCHANGED <<dialled, conn, phase, replica, discard, reoffer>>
      PROVE  LinksInv'
  <2>1. Wired'
    BY <1>a, <1>2 DEF Wired, Ended
  <2>2. ASSUME NEW y \in Members PROVE Handshake(y)'
    <3>1. Handshake(y) /\ (conn[y] # 0 => conn[y] \in DOMAIN dialled)
      BY <1>a, Basics
    <3> QED BY <1>2, <3>1, Basics DEF Handshake, Ended
  <2> QED BY <2>1, <2>2
<1>3. ASSUME NEW c \in open, PumpEnvelope(c) PROVE LinksInv'
  <2> DEFINE f == Head(up[c])
             e == f.envelope
             g == FanoutFrame(e, f.type = "Publish")
  <2>1. /\ c \in slots /\ \A d \in DOMAIN dialled : d # c => up'[d] = up[d]
        /\ UNCHANGED <<dialled, conn, phase, replica, reoffer, discard>>
        /\ \/ Ended(c)
           \/ Dropped(c, e)
           \/ Taken(c, e, g) /\ g \in DownFrames /\ g.type # "Welcome"
    BY <1>3, PumpEffect
  <2> HIDE DEF f, e, g
  <2>2. CASE Ended(c)
    BY <1>2, <2>1, <2>2
  <2>3. CASE Dropped(c, e)
    <3>1. Wired'
      BY <1>a, <2>1, <2>3 DEF Wired, Dropped
    <3>2. ASSUME NEW y \in Members PROVE Handshake(y)'
      <4>1. Handshake(y) /\ (conn[y] # 0 => conn[y] \in DOMAIN dialled) /\ 0 \notin open
        BY <1>a, Basics
      <4> QED BY <2>1, <2>3, <4>1 DEF Handshake, Dropped
    <3> QED BY <3>1, <3>2
  <2>4. CASE Taken(c, e, g) /\ g \in DownFrames /\ g.type # "Welcome"
    <3>1. /\ UNCHANGED <<open, slots>>
          /\ \A d \in DOMAIN dialled :
                \/ down'[d] = down[d]
                \/ down'[d] = Append(down[d], g) /\ d \in slots /\ Attended(d)
      BY <2>4 DEF Taken
    <3>2. Wired'
      BY <1>a, <2>1, <3>1 DEF Wired
    <3>3. ASSUME NEW y \in Members PROVE Handshake(y)'
      <4>1. Handshake(y) /\ (conn[y] # 0 => conn[y] \in DOMAIN dialled) /\ 0 \notin open
        BY <1>a, Basics
      <4>2. CASE conn[y] = 0 \/ down'[conn[y]] = down[conn[y]]
        BY <1>a, <2>1, <3>1, <4>1, <4>2 DEF Handshake, Wired
      <4>3. CASE conn[y] # 0 /\ down'[conn[y]] = Append(down[conn[y]], g) /\ conn[y] \in slots
        <5> DEFINE s == down[conn[y]]
        <5>1. s \in Seq(DownFrames)
          BY <4>1, <4>3, Basics
        <5> HIDE DEF s
        <5>2. /\ s # <<>> => Append(s, g)[1] = s[1]
              /\ Append(s, g) # <<>>
              /\ \A i \in DOMAIN Append(s, g) : (i \in DOMAIN s /\ Append(s, g)[i] = s[i])
                                                \/ Append(s, g)[i] = g
          BY <5>1, <2>4, AppendShape
        <5>3. \A i \in DOMAIN Append(s, g) : Append(s, g)[i].type = "Welcome" => i \in DOMAIN s /\ s[i].type = "Welcome"
          BY <5>2, <2>4
        <5> QED BY <2>1, <3>1, <4>1, <4>3, <5>2, <5>3 DEF Handshake, s
      <4> QED BY <3>1, <4>1, <4>2, <4>3
    <3> QED BY <3>2, <3>3
  <2> QED BY <2>1, <2>2, <2>3, <2>4
<1>4. ASSUME NEW m \in Members, Dial(m) PROVE LinksInv'
  <2> DEFINE k == Len(dialled) + 1
  <2>1. /\ conn[m] = 0 /\ k \notin DOMAIN dialled /\ k # 0
        /\ DOMAIN dialled' = DOMAIN dialled \cup {k}
        /\ \A c \in DOMAIN dialled : dialled'[c] = dialled[c] /\ up'[c] = up[c] /\ down'[c] = down[c]
        /\ dialled'[k] = m /\ up'[k] = <<Hello(Tips(replica[m]))>> /\ down'[k] = <<>>
        /\ open' = open \cup {k}
        /\ \A x \in Members : x # m => conn'[x] = conn[x] /\ phase'[x] = phase[x] /\ discard'[x] = discard[x]
        /\ conn'[m] = k /\ phase'[m] = "joining" /\ discard'[m]
        /\ UNCHANGED <<slots, replica, reoffer>>
    BY <1>4, DialEffect
  <2>2. \A x \in Members : conn[x] # k /\ (conn[x] # 0 => conn[x] \in DOMAIN dialled)
    BY <2>1, Basics
  <2>3. open \subseteq DOMAIN dialled /\ slots \subseteq open /\ \A c \in DOMAIN dialled : dialled[c] \in Members
    BY Basics
  <2> HIDE DEF k
  <2>4. Wired'
    <3>1. \A c \in DOMAIN dialled : dialled[c] # m => (Attended(c)' <=> Attended(c))
      BY <2>1, <2>3
    <3>2. \A c \in DOMAIN dialled : dialled[c] = m => ~ Attended(c)
      BY <2>1, Basics
    <3> QED BY <1>a, <2>1, <2>2, <2>3, <3>1, <3>2 DEF Wired
  <2>5. ASSUME NEW y \in Members PROVE Handshake(y)'
    <3>1. CASE y = m
      BY <1>a, <2>1, <2>3, <3>1 DEF Handshake, Wired
    <3>2. CASE y # m
      <4>1. Handshake(y)
        BY <1>a
      <4>2. conn[y] = 0 => phase[y] = "offline" /\ conn[y] \notin open
        BY <1>a, Basics DEF Wired
      <4> QED BY <2>1, <2>2, <3>2, <4>1, <4>2 DEF Handshake
    <3> QED BY <3>1, <3>2
  <2> QED BY <2>4, <2>5
<1>5. ASSUME NEW m \in Members, phase[m] = "caught_up" \/ reoffer[m] # {}, NEW f \in UpFrames, Send(m, f),
             \A x \in Members : (x = m \/ replica'[x] = replica[x]) /\ reoffer'[x] \subseteq reoffer[x],
             UNCHANGED <<open, slots, dialled, down, conn, phase, discard>>
      PROVE  LinksInv'
  <2>1. phase[m] # "joining" /\ conn[m] # 0 /\ conn[m] \in DOMAIN dialled
    BY <1>a, <1>5, Basics DEF Wired, Handshake
  <2>2. Wired'
    BY <1>a, <1>5, <2>1, SendEffect DEF Wired
  <2>3. ASSUME NEW y \in Members PROVE Handshake(y)'
    <3>1. Handshake(y) /\ (conn[y] # 0 => conn[y] \in DOMAIN dialled) /\ 0 \notin open
      BY <1>a, Basics
    <3>2. CASE y = m
      BY <1>5, <2>1, <3>1, <3>2 DEF Handshake
    <3>3. CASE y # m
      <4>1. conn[y] # 0 => conn[y] # conn[m]
        BY <1>a, <3>3, <2>1 DEF Wired
      <4>2. conn[y] # 0 => up'[conn[y]] = up[conn[y]]
        BY <1>5, <3>1, <4>1, SendEffect
      <4>3. replica'[y] = replica[y]
        BY <1>5, <3>3
      <4> QED BY <1>5, <3>1, <4>2, <4>3 DEF Handshake
    <3> QED BY <3>2, <3>3
  <2> QED BY <2>2, <2>3
<1>6. ASSUME NEW m \in Members, PublishNext(m) PROVE LinksInv'
  <2> DEFINE e == [producer |-> m, seq |-> nextSeq[m], body |-> Head(queue[m])]
  <2>1. /\ phase[m] = "caught_up"
        /\ \A x \in Members : x # m => replica'[x] = replica[x]
        /\ UNCHANGED <<open, slots, dialled, down, conn, phase, discard, reoffer>>
    BY <1>6, PublishEffect DEF PublishNext, relayVars
  <2>4. UNCHANGED <<replica, up>> \/ (Publish(e) \in UpFrames /\ Send(m, Publish(e)))
    BY <1>6, PublishEffect
  <2> HIDE DEF e
  <2>2. CASE UNCHANGED <<replica, up>>
    BY <1>a, <2>1, <2>2 DEF Wired, Handshake
  <2>3. CASE Publish(e) \in UpFrames /\ Send(m, Publish(e))
    BY <1>5, <2>1, <2>3
  <2> QED BY <2>2, <2>3, <2>4
<1>7. ASSUME NEW m \in Members, DrainEmpty(m) PROVE LinksInv'
  <2>1. /\ phase[m] = "caught_up" /\ \A x \in Members : x # m => discard'[x] = discard[x]
        /\ UNCHANGED <<open, slots, dialled, up, down, conn, phase, replica, reoffer>>
    BY <1>7, DrainEffect
  <2> QED BY <1>a, <2>1 DEF Wired, Handshake
<1>8. ASSUME NEW m \in Members, ReadFrame(m) PROVE LinksInv'
  <2> DEFINE c == conn[m]
             f == Head(down[c])
             s == down[c]
  <2>1. /\ c \in DOMAIN dialled /\ c # 0 /\ s # <<>> /\ f \in DownFrames /\ f = s[1]
        /\ down'[c] = Tail(s) /\ \A d \in DOMAIN dialled : d # c => down'[d] = down[d]
        /\ \A x \in Members : x # m =>
                /\ phase'[x] = phase[x] /\ replica'[x] = replica[x]
                /\ discard'[x] = discard[x] /\ reoffer'[x] = reoffer[x]
        /\ phase'[m] = IF f.type = "Welcome" THEN "welcomed"
                       ELSE IF f.type = "CaughtUp" /\ phase[m] = "welcomed" THEN "caught_up"
                       ELSE phase[m]
        /\ discard'[m] = (discard[m] /\ phase[m] # "caught_up")
        /\ UNCHANGED <<open, slots, dialled, up, conn>>
    BY <1>8, ReadEffect
  <2>2. /\ s \in Seq(DownFrames)
        /\ \A i \in DOMAIN Tail(s) : i + 1 \in DOMAIN s /\ Tail(s)[i] = s[i + 1] /\ i + 1 # 1
        /\ 1 \in DOMAIN s
    <3>1. s \in Seq(DownFrames)
      BY <2>1, Basics
    <3> QED BY <2>1, <3>1
  <2>3. /\ Handshake(m) /\ phase[m] # "offline" /\ phase[m] \in Phases
        /\ phase[m] = "joining" => f.type = "Welcome"
        /\ f.type = "Welcome" => phase[m] = "joining" /\ discard[m]
        /\ \A i \in DOMAIN s : s[i].type = "Welcome" => i = 1
        /\ c \notin open \ slots
    <3>1. Handshake(m)
      BY <1>a
    <3> QED BY <2>1, <2>2, <3>1, Basics DEF Handshake
  <2>4. \A i \in DOMAIN Tail(s) : Tail(s)[i].type # "Welcome"
    BY <2>2, <2>3
  <2>5. discard[m] \in BOOLEAN
    BY Basics
  <2> HIDE DEF c, f, s
  <2>6. phase'[m] # "joining" /\ phase'[m] # "offline" /\ (phase'[m] = "welcomed" => discard'[m])
    BY <2>1, <2>3, <2>5 DEF Phases, Handshake
  <2>7. Wired'
    <3>1. Attended(c)
      BY <1>a, <2>1 DEF Wired, c
    <3> QED BY <1>a, <2>1, <3>1 DEF Wired, c
  <2>8. ASSUME NEW y \in Members PROVE Handshake(y)'
    <3>1. Handshake(y) /\ (conn[y] # 0 => conn[y] \in DOMAIN dialled) /\ 0 \notin open
      BY <1>a, Basics
    <3>2. CASE y = m
      BY <2>1, <2>3, <2>4, <2>6, <3>2 DEF Handshake, c
    <3>3. CASE y # m
      <4>1. conn[y] # 0 => conn[y] # c
        BY <1>a, <3>3, <2>1 DEF Wired, c
      <4>2. conn[y] = 0 => phase[y] = "offline"
        BY <1>a DEF Wired
      <4> QED BY <2>1, <3>1, <3>3, <4>1, <4>2 DEF Handshake
    <3> QED BY <3>2, <3>3
  <2> QED BY <2>7, <2>8
<1>9. ASSUME NEW m \in Members, ReofferNext(m) PROVE LinksInv'
  <2>1. PICK e \in reoffer[m] :
            reoffer'[m] = reoffer[m] \ {e} /\ Recover(e) \in UpFrames /\ Send(m, Recover(e))
    BY <1>9, ReofferEffect
  <2> QED BY <1>5, <1>9, <2>1, ReofferEffect
<1>10. ASSUME NEW m \in Members, Disconnect(m) PROVE LinksInv'
  <2>1. /\ conn[m] # 0 /\ conn[m] \in DOMAIN dialled
        /\ down'[conn[m]] = <<>> /\ \A d \in DOMAIN dialled : d # conn[m] => down'[d] = down[d]
        /\ conn'[m] = 0 /\ phase'[m] = "offline" /\ reoffer'[m] = {}
        /\ \A x \in Members : x # m => conn'[x] = conn[x] /\ phase'[x] = phase[x] /\ reoffer'[x] = reoffer[x]
        /\ UNCHANGED <<open, slots, dialled, up, replica, discard>>
    BY <1>10, DisconnectEffect
  <2>2. dialled[conn[m]] = m
    BY <1>a, <2>1 DEF Wired
  <2>3. Wired'
    <3>1. \A c \in DOMAIN dialled : dialled[c] # m => (Attended(c)' <=> Attended(c)) /\ down'[c] = down[c]
      BY <2>1, <2>2, Basics
    <3>2. \A c \in DOMAIN dialled : dialled[c] = m => down'[c] = <<>>
      BY <1>a, <2>1, <2>2 DEF Wired
    <3>3. \A x \in Members : /\ conn'[x] # 0 => dialled'[conn'[x]] = x
                             /\ conn'[x] = 0 => phase'[x] = "offline" /\ reoffer'[x] = {}
      BY <1>a, <2>1 DEF Wired
    <3>4. \A c \in DOMAIN dialled : c \notin open' => up'[c] = <<>>
      BY <1>a, <2>1 DEF Wired
    <3> QED BY <1>a, <2>1, <3>1, <3>2, <3>3, <3>4 DEF Wired
  <2>4. ASSUME NEW y \in Members PROVE Handshake(y)'
    <3>1. Handshake(y) /\ (conn[y] # 0 => conn[y] \in DOMAIN dialled) /\ 0 \notin open
      BY <1>a, Basics
    <3>2. CASE y = m
      BY <2>1, <3>1, <3>2 DEF Handshake
    <3>3. CASE y # m
      <4>1. conn[y] # 0 => conn[y] # conn[m]
        BY <1>a, <3>3, <2>1 DEF Wired
      <4>2. conn[y] = 0 => phase[y] = "offline"
        BY <1>a DEF Wired
      <4> QED BY <2>1, <3>1, <3>3, <4>1, <4>2 DEF Handshake
    <3> QED BY <3>2, <3>3
  <2> QED BY <2>3, <2>4
<1>11. ASSUME NEW m \in Crashable, Crash(m) PROVE LinksInv'
  <2>0. PICK cut \in SUBSET Nat : CrashCuts(m, cut)
    BY <1>11, CrashEffect
  <2>1. /\ open' = open \ cut /\ slots' = slots \ cut
        /\ \A c \in DOMAIN dialled :
            /\ up'[c] = IF c \in cut THEN <<>> ELSE up[c]
            /\ down'[c] = IF dialled[c] = m THEN <<>> ELSE down[c]
        /\ \A x \in Members : x # m =>
            /\ conn'[x] = conn[x] /\ phase'[x] = phase[x] /\ replica'[x] = replica[x]
            /\ discard'[x] = discard[x] /\ reoffer'[x] = reoffer[x]
        /\ m \in Members => /\ conn'[m] = 0 /\ phase'[m] = "offline" /\ replica'[m] = {}
                            /\ discard'[m] /\ reoffer'[m] = {}
        /\ UNCHANGED dialled
    BY <2>0 DEF CrashCuts
  <2>2. Wired'
    <3>1. \A c \in DOMAIN dialled : Attended(c)' => Attended(c) /\ dialled[c] # m
      BY <2>1, Basics
    <3>2. \A c \in DOMAIN dialled : dialled[c] # m /\ Attended(c) => Attended(c)'
      BY <2>1, Basics
    <3> QED BY <1>a, <2>1, <3>1, <3>2, Basics DEF Wired
  <2>3. ASSUME NEW y \in Members PROVE Handshake(y)'
    <3>1. Handshake(y) /\ (conn[y] # 0 => conn[y] \in DOMAIN dialled) /\ 0 \notin open
      BY <1>a, Basics
    <3>2. CASE y = m
      BY <2>1, <3>1, <3>2 DEF Handshake
    <3>3. CASE y # m
      <4>1. conn[y] # 0 => dialled[conn[y]] = y
        BY <1>a DEF Wired
      <4>2. conn[y] = 0 => phase[y] = "offline"
        BY <1>a DEF Wired
      <4> QED BY <2>1, <3>1, <3>3, <4>1, <4>2 DEF Handshake
    <3> QED BY <3>2, <3>3
  <2> QED BY <2>2, <2>3
<1>12. ASSUME NEW m \in Members, NEW kind \in Kinds, Observe(m, kind) PROVE LinksInv'
  <2>1. UNCHANGED <<open, slots, dialled, up, down, conn, phase, replica, discard, reoffer>>
    BY <1>12 DEF Observe, relayVars, wireVars, clientVars
  <2> QED BY <1>a, <2>1 DEF Wired, Handshake
<1>13. ASSUME NEW c \in open, Hangup(c) PROVE LinksInv'
  BY <1>2, <1>13, HangupEffect
<1>14. CASE UNCHANGED vars
  BY <1>a, <1>14 DEF vars, relayVars, wireVars, clientVars, Wired, Handshake
<1> QED BY <1>1, <1>3, <1>4, <1>6, <1>7, <1>8, <1>9, <1>10, <1>11, <1>12, <1>13, <1>14, StepCases

LEMMA TailShape ==
    ASSUME NEW F, NEW s \in Seq(F), s # <<>>
    PROVE  /\ Tail(s) \in Seq(F) /\ Head(s) = s[1] /\ 1 \in DOMAIN s /\ s[1] \in F
           /\ Len(Tail(s)) + 1 = Len(s) /\ Len(Tail(s)) \in Nat
           /\ \A i \in DOMAIN Tail(s) : i + 1 \in DOMAIN s /\ Tail(s)[i] = s[i + 1]
           /\ \A i \in DOMAIN s : i = 1 \/ (i - 1 \in DOMAIN Tail(s) /\ s[i] = Tail(s)[i - 1])
OBVIOUS

-------------------------------------------------------------------------------
(* Pit writes.                                                             *)

OnTime(c, s) ==
    \A i \in DOMAIN s :
        s[i].type = "Publish" /\ s[i].envelope.body.kind = "pit_write" => s[i].envelope.body.during = c
During(c, q) == \A i \in DOMAIN q : q[i].during = c

PitsInv == FreshPitWrites /\ NoDelayedPitWrites

LEMMA PitsAlternative ==
    PitsInv <=> /\ \A c \in DOMAIN up : OnTime(c, up[c])
                /\ \A m \in Members : phase[m] = "caught_up" /\ ~ discard[m] => During(conn[m], queue[m])
BY DEF PitsInv, FreshPitWrites, NoDelayedPitWrites, OnTime, During

LEMMA OnTimeKept ==
    ASSUME NEW c, NEW s \in Seq(UpFrames), OnTime(c, s)
    PROVE  /\ OnTime(c, <<>>)
           /\ s # <<>> => OnTime(c, Tail(s))
           /\ \A f \in UpFrames :
                (f.type = "Publish" /\ f.envelope.body.kind = "pit_write" => f.envelope.body.during = c)
                    => OnTime(c, Append(s, f))
<1>1. s # <<>> => OnTime(c, Tail(s))
  BY TailShape DEF OnTime
<1>2. ASSUME NEW f \in UpFrames,
             f.type = "Publish" /\ f.envelope.body.kind = "pit_write" => f.envelope.body.during = c
      PROVE  OnTime(c, Append(s, f))
  BY <1>2, AppendShape DEF OnTime
<1> QED BY <1>1, <1>2 DEF OnTime

LEMMA PitsInit == TeamInit => PitsInv
BY DEF TeamInit, Init, PitsInv, FreshPitWrites, NoDelayedPitWrites

LEMMA PitsStep ==
    ASSUME TypeOK, TypeOK', LinksInv, PitsInv, [Next]_teamVars
    PROVE  PitsInv'
<1>a. /\ \A c \in DOMAIN dialled : OnTime(c, up[c]) /\ up[c] \in Seq(UpFrames)
      /\ DOMAIN up = DOMAIN dialled /\ DOMAIN up' = DOMAIN dialled'
  BY PitsAlternative, Basics DEF TypeOK
<1>b. \A m \in Members : phase[m] = "caught_up" /\ ~ discard[m] => During(conn[m], queue[m])
  BY PitsAlternative
<1> SUFFICES /\ \A c \in DOMAIN dialled' : OnTime(c, up'[c])
             /\ \A m \in Members : phase'[m] = "caught_up" /\ ~ discard'[m] => During(conn'[m], queue'[m])
  BY <1>a DEF PitsInv, FreshPitWrites, NoDelayedPitWrites, OnTime, During
<1> DEFINE Goal == /\ \A c \in DOMAIN dialled' : OnTime(c, up'[c])
                   /\ \A m \in Members :
                        phase'[m] = "caught_up" /\ ~ discard'[m] => During(conn'[m], queue'[m])
<1>1. ASSUME NEW c \in open,
             up'[c] = <<>> \/ (up[c] # <<>> /\ up'[c] = Tail(up[c])),
             \A d \in DOMAIN dialled : d # c => up'[d] = up[d],
             UNCHANGED <<dialled, conn, phase, queue>>, UNCHANGED discard
      PROVE  Goal
  BY <1>1, <1>a, <1>b, OnTimeKept
<1>2. ASSUME NEW c \in open, ServeHello(c) PROVE Goal
  <2>1. /\ up'[c] = <<>> \/ (up[c] # <<>> /\ up'[c] = Tail(up[c]))
        /\ \A d \in DOMAIN dialled : d # c => up'[d] = up[d]
        /\ UNCHANGED <<dialled, conn, phase, queue>>
    BY <1>2, ServeEffect
  <2>2. UNCHANGED discard
    BY <1>2 DEF ServeHello, clientVars
  <2> QED BY <1>1, <2>1, <2>2
<1>3. ASSUME NEW c \in open, PumpEnvelope(c) PROVE Goal
  <2>1. /\ up'[c] = <<>> \/ (up[c] # <<>> /\ up'[c] = Tail(up[c]))
        /\ \A d \in DOMAIN dialled : d # c => up'[d] = up[d]
        /\ UNCHANGED <<dialled, conn, phase, queue>>
    BY <1>3, PumpEffect DEF Ended, Dropped, Taken
  <2>2. UNCHANGED discard
    BY <1>3 DEF PumpEnvelope, clientVars
  <2> QED BY <1>1, <2>1, <2>2
<1>4. ASSUME NEW c \in open, Hangup(c) PROVE Goal
  <2>1. /\ up'[c] = <<>> /\ \A d \in DOMAIN dialled : d # c => up'[d] = up[d]
        /\ UNCHANGED <<dialled, conn, phase, queue>>
    BY <1>4, HangupEffect DEF Ended
  <2>2. UNCHANGED discard
    BY <1>4 DEF Hangup, clientVars
  <2> QED BY <1>1, <2>1, <2>2
<1>5. ASSUME NEW m \in Members, Dial(m) PROVE Goal
  <2> DEFINE k == Len(dialled) + 1
  <2>1. /\ DOMAIN dialled' = DOMAIN dialled \cup {k}
        /\ \A c \in DOMAIN dialled : up'[c] = up[c]
        /\ up'[k] = <<Hello(Tips(replica[m]))>>
        /\ \A x \in Members : x # m => conn'[x] = conn[x] /\ phase'[x] = phase[x] /\ discard'[x] = discard[x]
        /\ phase'[m] = "joining" /\ UNCHANGED queue
    BY <1>5, DialEffect
  <2>2. OnTime(k, up'[k])
    BY <2>1 DEF OnTime, Hello
  <2> QED BY <1>a, <1>b, <2>1, <2>2
<1>6. ASSUME NEW m \in Members, NEW f \in UpFrames, Send(m, f),
             f.type = "Publish" /\ f.envelope.body.kind = "pit_write" => f.envelope.body.during = conn[m]
      PROVE  \A c \in DOMAIN dialled : OnTime(c, up'[c])
  <2> SUFFICES ASSUME NEW c \in DOMAIN dialled PROVE OnTime(c, up'[c])
    OBVIOUS
  <2>1. up'[c] = up[c] \/ (c = conn[m] /\ up'[c] = Append(up[c], f))
    BY <1>6, SendEffect
  <2>2. OnTime(c, up[c]) /\ up[c] \in Seq(UpFrames)
    BY <1>a
  <2> QED BY <1>6, <2>1, <2>2, OnTimeKept
<1>7. ASSUME NEW m \in Members, PublishNext(m) PROVE Goal
  <2> DEFINE b == Head(queue[m])
             e == [producer |-> m, seq |-> nextSeq[m], body |-> b]
  <2>1. /\ phase[m] = "caught_up" /\ queue[m] # <<>> /\ queue'[m] = Tail(queue[m])
        /\ \A x \in Members : x # m => queue'[x] = queue[x]
    BY <1>7, PublishEffect
  <2>2. UNCHANGED <<dialled, conn, phase>> /\ UNCHANGED discard
    BY <1>7 DEF PublishNext
  <2>3. UNCHANGED up \/ (~ (discard[m] /\ b.kind = "pit_write")
                          /\ Publish(e) \in UpFrames /\ Send(m, Publish(e)))
    BY <1>7, PublishEffect
  <2>4. queue[m] \in Seq(Bodies)
    BY Basics
  <2>5. During(conn[m], queue[m]) => During(conn[m], Tail(queue[m])) /\ b.during = conn[m]
    BY <2>1, <2>4, TailShape DEF During
  <2>6. Publish(e).envelope.body = b
    BY DEF Publish
  <2> HIDE DEF b, e
  <2>7. \A c \in DOMAIN dialled : OnTime(c, up'[c])
    BY <1>a, <1>b, <1>6, <2>1, <2>3, <2>5, <2>6
  <2>8. \A x \in Members : phase'[x] = "caught_up" /\ ~ discard'[x] => During(conn'[x], queue'[x])
    BY <1>b, <2>1, <2>2, <2>5
  <2> QED BY <2>2, <2>7, <2>8
<1>8. ASSUME NEW m \in Members, DrainEmpty(m) PROVE Goal
  <2>1. /\ queue[m] = <<>> /\ \A x \in Members : x # m => discard'[x] = discard[x]
        /\ UNCHANGED <<dialled, up, conn, phase, queue>>
    BY <1>8, DrainEffect
  <2> QED BY <1>a, <1>b, <2>1 DEF During
<1>9. ASSUME NEW m \in Members, ReadFrame(m) PROVE Goal
  <2> DEFINE f == Head(down[conn[m]])
  <2>1. /\ \A x \in Members : x # m => phase'[x] = phase[x] /\ discard'[x] = discard[x]
        /\ phase'[m] = IF f.type = "Welcome" THEN "welcomed"
                       ELSE IF f.type = "CaughtUp" /\ phase[m] = "welcomed" THEN "caught_up"
                       ELSE phase[m]
        /\ discard'[m] = (discard[m] /\ phase[m] # "caught_up")
        /\ phase[m] = "caught_up" => queue[m] = <<>>
        /\ UNCHANGED <<dialled, up, conn, queue>>
    BY <1>9, ReadEffect
  <2>2. phase[m] = "welcomed" => discard[m]
    BY DEF LinksInv, Handshake
  <2> HIDE DEF f
  <2>3. phase'[m] = "caught_up" /\ ~ discard'[m] => queue[m] = <<>>
    BY <2>1, <2>2
  <2> QED BY <1>a, <1>b, <2>1, <2>3 DEF During
<1>10. ASSUME NEW m \in Members, ReofferNext(m) PROVE Goal
  <2>1. PICK e \in reoffer[m] : Recover(e) \in UpFrames /\ Send(m, Recover(e))
    BY <1>10, ReofferEffect
  <2>2. UNCHANGED <<dialled, conn, phase, queue>> /\ UNCHANGED discard
    BY <1>10 DEF ReofferNext, overlayVars
  <2>3. \A c \in DOMAIN dialled : OnTime(c, up'[c])
    <3>1. Recover(e).type # "Publish"
      BY DEF Recover
    <3> QED BY <1>6, <2>1, <3>1
  <2> QED BY <1>b, <2>2, <2>3
<1>11. ASSUME NEW m \in Members, Disconnect(m) PROVE Goal
  <2>1. /\ phase'[m] = "offline" /\ \A x \in Members : x # m => conn'[x] = conn[x] /\ phase'[x] = phase[x]
        /\ UNCHANGED <<dialled, up, queue>>
    BY <1>11, DisconnectEffect
  <2>2. UNCHANGED discard
    BY <1>11 DEF Disconnect
  <2> QED BY <1>a, <1>b, <2>1, <2>2
<1>12. ASSUME NEW m \in Crashable, Crash(m) PROVE Goal
  <2>1. PICK cut \in SUBSET Nat : CrashCuts(m, cut)
    BY <1>12, CrashEffect
  <2>2. /\ UNCHANGED dialled
        /\ \A c \in DOMAIN dialled : OnTime(c, up'[c])
    BY <1>a, <2>1, OnTimeKept DEF CrashCuts
  <2>3. /\ m \in Members => phase'[m] = "offline"
        /\ \A x \in Members : x # m => conn'[x] = conn[x] /\ phase'[x] = phase[x]
                                       /\ discard'[x] = discard[x] /\ queue'[x] = queue[x]
    BY <2>1 DEF CrashCuts
  <2> QED BY <1>b, <2>2, <2>3
<1>13. ASSUME NEW m \in Members, NEW kind \in Kinds, Observe(m, kind) PROVE Goal
  <2>1. PICK b : queue'[m] = Append(queue[m], b) /\ (phase[m] = "caught_up" => b.during = conn[m])
    BY <1>13, ObserveEffect
  <2>2. /\ \A x \in Members : x # m => queue'[x] = queue[x]
        /\ UNCHANGED <<dialled, up, conn, phase>> /\ UNCHANGED discard
    BY <1>13, ObserveEffect DEF Observe, clientVars, wireVars
  <2>3. ASSUME During(conn[m], queue[m]), b.during = conn[m] PROVE During(conn[m], Append(queue[m], b))
    <3>1. queue[m] \in Seq({queue[m][i] : i \in DOMAIN queue[m]} \cup {b})
      <4>1. queue[m] \in Seq(Bodies)
        BY Basics
      <4> QED BY <4>1
    <3> QED BY <2>3, <3>1, AppendShape DEF During
  <2>4. ASSUME phase'[m] = "caught_up", ~ discard'[m] PROVE During(conn'[m], queue'[m])
    BY <1>b, <2>1, <2>2, <2>3, <2>4
  <2>5. ASSUME NEW x \in Members, x # m, phase'[x] = "caught_up", ~ discard'[x]
        PROVE  During(conn'[x], queue'[x])
    BY <1>b, <2>2, <2>5
  <2>6. \A c \in DOMAIN dialled' : OnTime(c, up'[c])
    BY <1>a, <2>2
  <2> QED BY <2>4, <2>5, <2>6
<1>14. ASSUME UNCHANGED vars PROVE Goal
  <2>1. dialled' = dialled /\ up' = up /\ conn' = conn /\ phase' = phase /\ queue' = queue
    BY <1>14 DEF vars, wireVars, clientVars, overlayVars
  <2>2. discard' = discard
    BY <1>14 DEF vars, clientVars
  <2>3. \A c \in DOMAIN dialled' : OnTime(c, up'[c])
    BY <1>a, <2>1
  <2>4. \A m \in Members : phase'[m] = "caught_up" /\ ~ discard'[m] => During(conn'[m], queue'[m])
    <3> SUFFICES ASSUME NEW m \in Members, phase'[m] = "caught_up", ~ discard'[m]
                 PROVE  During(conn'[m], queue'[m])
      OBVIOUS
    <3>1. phase[m] = "caught_up" /\ ~ discard[m]
      BY <2>1, <2>2
    <3> QED BY <1>b, <2>1, <3>1
  <2> QED BY <2>3, <2>4
<1> HIDE DEF Goal
<1>15. ASSUME \E c \in open : ServeHello(c) \/ PumpEnvelope(c) \/ Hangup(c) PROVE Goal
  BY <1>2, <1>3, <1>4, <1>15
<1>16. ASSUME \E m \in Members : \/ Dial(m) \/ PublishNext(m) \/ DrainEmpty(m) \/ ReadFrame(m)
                                 \/ ReofferNext(m) \/ Disconnect(m)
                                 \/ \E kind \in Kinds : Observe(m, kind)
       PROVE  Goal
  BY <1>5, <1>7, <1>8, <1>9, <1>10, <1>11, <1>13, <1>16
<1>17. Goal
  BY <1>12, <1>14, <1>15, <1>16, StepCases
<1> QED BY <1>17 DEF Goal

(* A pit write goes out live only on the connection that was caught up when
   it was asked for, however the publish channel, the handshake, drops and
   crashes interleave (client.rs, discard_buffered_pit_writes).            *)
THEOREM PitWritesAreNeverDelayed == Spec => []NoDelayedPitWrites
<1> DEFINE Inv == TypeOK /\ LinksInv /\ PitsInv
<1>1. TeamInit => Inv
  BY TypeInit, LinksInit, PitsInit
<1>2. Inv /\ [Next]_teamVars => Inv'
  BY TypeStep, LinksStep, PitsStep
<1>3. Inv => NoDelayedPitWrites
  BY DEF PitsInv
<1> QED BY <1>1, <1>2, <1>3, PTL DEF Spec

-------------------------------------------------------------------------------
(* Order in the channels.                                                  *)

LEMMA DivMonotone ==
    ASSUME NEW a \in Nat, NEW b \in Nat, NEW k \in Nat \ {0}, a <= b
    PROVE  a \div k \in Nat /\ a \div k <= b \div k
<1> DEFINE q == a \div k
           r == b \div k
<1>1. q \in Int /\ r \in Int /\ k * q <= a /\ a < k * q + k /\ k * r <= b /\ b < k * r + k
  BY Z3
<1> HIDE DEF q, r
<1>2. q <= r
  <2>1. SUFFICES ASSUME r + 1 <= q PROVE FALSE
    BY <1>1
  <2>2. k * (r + 1) <= k * q
    BY <1>1, <2>1, Z3
  <2>3. k * (r + 1) = k * r + k
    BY <1>1, Z3
  <2> QED BY <1>1, <2>2, <2>3, Z3
<1>3. 0 <= q
  <2>1. SUFFICES ASSUME q + 1 <= 0 PROVE FALSE
    BY <1>1
  <2>2. k * (q + 1) <= 0
    BY <1>1, <2>1, Z3
  <2>3. k * (q + 1) = k * q + k
    BY <1>1, Z3
  <2> QED BY <1>1, <2>2, <2>3, Z3
<1> QED BY <1>1, <1>2, <1>3 DEF q, r

LEMMA SupportsMore ==
    ASSUME NEW H, NEW K, H \subseteq K, NEW e, Supports(H, e)
    PROVE  Supports(K, e)
BY DEF Supports

(* The frames up to one of them, as the channel changes. *)
LEMMA UptoWhole ==
    ASSUME NEW s
    PROVE  \A i : Upto(s, i) \subseteq InTransit(s)
BY DEF Upto, InTransit

LEMMA ChainMore ==
    ASSUME NEW H, NEW K, H \subseteq K, NEW s, Chain(H, s)
    PROVE  Chain(K, s)
BY SupportsMore DEF Chain

LEMMA ChainEmpty == \A H : Chain(H, <<>>)
BY DEF Chain

LEMMA ChainHead ==
    ASSUME NEW F, NEW s \in Seq(F), s # <<>>, NEW H, Chain(H, s)
    PROVE  /\ \A e \in Carried(Head(s)) : Supports(H \cup Carried(Head(s)), e)
           /\ Chain(H \cup Carried(Head(s)), Tail(s))
<1>1. /\ Tail(s) \in Seq(F) /\ Head(s) = s[1] /\ 1 \in DOMAIN s
      /\ \A i \in DOMAIN Tail(s) : i + 1 \in DOMAIN s /\ Tail(s)[i] = s[i + 1]
      /\ \A i \in DOMAIN s : i = 1 \/ (i - 1 \in DOMAIN Tail(s) /\ s[i] = Tail(s)[i - 1])
      /\ DOMAIN s \subseteq Nat \ {0} /\ DOMAIN Tail(s) \subseteq Nat \ {0}
  BY TailShape
<1>2. Upto(s, 1) \subseteq Carried(Head(s))
  BY <1>1 DEF Upto
<1>3. \A e \in Carried(Head(s)) : Supports(H \cup Carried(Head(s)), e)
  <2> SUFFICES ASSUME NEW e \in Carried(Head(s)) PROVE Supports(H \cup Carried(Head(s)), e)
    OBVIOUS
  <2>1. Supports(H \cup Upto(s, 1), e)
    BY <1>1 DEF Chain
  <2>2. H \cup Upto(s, 1) \subseteq H \cup Carried(Head(s))
    BY <1>2
  <2> QED BY <2>1, <2>2, SupportsMore
<1>4. ASSUME NEW i \in DOMAIN Tail(s), NEW e \in Carried(Tail(s)[i])
      PROVE  Supports((H \cup Carried(Head(s))) \cup Upto(Tail(s), i), e)
  <2>1. Supports(H \cup Upto(s, i + 1), e)
    BY <1>1 DEF Chain
  <2>2. Upto(s, i + 1) \subseteq Carried(Head(s)) \cup Upto(Tail(s), i)
    <3> SUFFICES ASSUME NEW j \in DOMAIN s, j <= i + 1, NEW x \in Carried(s[j])
                 PROVE  x \in Carried(Head(s)) \cup Upto(Tail(s), i)
      BY DEF Upto
    <3>1. CASE j = 1
      BY <1>1, <3>1
    <3>2. CASE j # 1
      <4> DEFINE h == j - 1
      <4>1. h \in DOMAIN Tail(s) /\ s[j] = Tail(s)[h] /\ h <= i
        BY <1>1, <3>2
      <4> HIDE DEF h
      <4> QED BY <4>1 DEF Upto
    <3> QED BY <3>1, <3>2
  <2>3. H \cup Upto(s, i + 1) \subseteq (H \cup Carried(Head(s))) \cup Upto(Tail(s), i)
    BY <2>2
  <2> QED BY <2>1, <2>3, SupportsMore
<1> QED BY <1>3, <1>4 DEF Chain

LEMMA ChainConcat ==
    ASSUME NEW F, NEW s \in Seq(F), NEW t \in Seq(F), NEW H,
           Chain(H, s), Chain(H \cup InTransit(s), t)
    PROVE  Chain(H, s \o t)
<1>1. /\ \A i \in DOMAIN s : i \in DOMAIN (s \o t) /\ (s \o t)[i] = s[i]
      /\ \A i \in DOMAIN t : i + Len(s) \in DOMAIN (s \o t) /\ (s \o t)[i + Len(s)] = t[i]
      /\ \A i \in DOMAIN (s \o t) : \/ i \in DOMAIN s
                                    \/ i - Len(s) \in DOMAIN t /\ i = (i - Len(s)) + Len(s)
      /\ DOMAIN s = 1 .. Len(s) /\ Len(s) \in Nat /\ DOMAIN t \subseteq Nat \ {0}
      /\ DOMAIN (s \o t) \subseteq Nat
  OBVIOUS
<1> DEFINE u == s \o t
<1> HIDE DEF u
<1> SUFFICES ASSUME NEW i \in DOMAIN u, NEW e \in Carried(u[i])
             PROVE  Supports(H \cup Upto(u, i), e)
  BY DEF Chain, u
<1>2. CASE i \in DOMAIN s
  <2>1. Supports(H \cup Upto(s, i), e)
    BY <1>1, <1>2 DEF Chain, u
  <2>2. Upto(s, i) \subseteq Upto(u, i)
    BY <1>1 DEF Upto, u
  <2>3. H \cup Upto(s, i) \subseteq H \cup Upto(u, i)
    BY <2>2
  <2> QED BY <2>1, <2>3, SupportsMore
<1>3. CASE i - Len(s) \in DOMAIN t /\ i = (i - Len(s)) + Len(s)
  <2> DEFINE j == i - Len(s)
  <2>1. j \in DOMAIN t /\ j \in Nat /\ i = j + Len(s) /\ u[i] = t[j]
    BY <1>1, <1>3 DEF u
  <2> HIDE DEF j
  <2>2. Supports((H \cup InTransit(s)) \cup Upto(t, j), e)
    BY <2>1 DEF Chain
  <2>3. InTransit(s) \subseteq Upto(u, i)
    <3> SUFFICES ASSUME NEW k \in DOMAIN s, NEW x \in Carried(s[k]) PROVE x \in Upto(u, i)
      BY DEF InTransit
    <3>1. k \in DOMAIN u /\ u[k] = s[k] /\ k <= i
      BY <1>1, <2>1 DEF u
    <3> QED BY <3>1 DEF Upto
  <2>4. Upto(t, j) \subseteq Upto(u, i)
    <3> SUFFICES ASSUME NEW k \in DOMAIN t, k <= j, NEW x \in Carried(t[k]) PROVE x \in Upto(u, i)
      BY DEF Upto
    <3> DEFINE h == k + Len(s)
    <3>1. h \in DOMAIN u /\ u[h] = t[k] /\ h <= i
      BY <1>1, <2>1 DEF u
    <3> HIDE DEF h
    <3> QED BY <3>1 DEF Upto
  <2>5. (H \cup InTransit(s)) \cup Upto(t, j) \subseteq H \cup Upto(u, i)
    BY <2>3, <2>4
  <2> QED BY <2>2, <2>5, SupportsMore
<1> QED BY <1>1, <1>2, <1>3 DEF u

LEMMA ChainOne ==
    ASSUME NEW H, NEW f, \A e \in Carried(f) : Supports(H \cup Carried(f), e)
    PROVE  Chain(H, <<f>>)
<1>1. DOMAIN <<f>> = {1} /\ <<f>>[1] = f
  OBVIOUS
<1>2. Upto(<<f>>, 1) = Carried(f)
  BY <1>1 DEF Upto
<1> QED BY <1>1, <1>2 DEF Chain

LEMMA ChainAppend ==
    ASSUME NEW F, NEW s \in Seq(F), NEW f \in F, NEW H, Chain(H, s),
           \A e \in Carried(f) : Supports(H \cup InTransit(s) \cup Carried(f), e)
    PROVE  Chain(H, Append(s, f))
<1>1. <<f>> \in Seq(F) /\ Append(s, f) = s \o <<f>>
  OBVIOUS
<1>2. Chain(H \cup InTransit(s), <<f>>)
  BY ChainOne
<1> QED BY <1>1, <1>2, ChainConcat

(* Chunks hold everything there was to send, in an order without holes. *)
LEMMA ChunksComplete ==
    ASSUME NEW S \in EnvelopeSets, NEW H, \A e \in S : Supports(H \cup S, e)
    PROVE  InTransit(Chunks(S)) = S /\ Chain(H, Chunks(S))
<1> DEFINE last == IF S = {} THEN 0 ELSE (Cardinality(S) - 1) \div ChunkEvents
           place(e) == Rank(e, S) \div ChunkEvents
           chunk(i) == {e \in S : Rank(e, S) \div ChunkEvents = i - 1}
<1>1. IsFiniteSet(S) /\ Cardinality(S) \in Nat /\ ChunkEvents \in Nat \ {0}
  BY FS_CardinalityType, BoundsAssumption DEF EnvelopeSets
<1>2. ASSUME NEW e \in S PROVE Rank(e, S) \in Nat /\ Rank(e, S) <= Cardinality(S) - 1 /\ S # {}
  <2> DEFINE B == {d \in S : Precedes(d, e)}
  <2>1. e.producer \in Nat /\ e.seq \in Nat
    BY EnvelopeSeq, MembersAssumption DEF EnvelopeSets
  <2>2. B \subseteq S \ {e}
    BY <2>1 DEF Precedes
  <2>3. IsFiniteSet(S \ {e}) /\ Cardinality(S \ {e}) = Cardinality(S) - 1
    BY <1>1, FS_RemoveElement
  <2>4. IsFiniteSet(B) /\ Cardinality(B) <= Cardinality(S \ {e}) /\ Cardinality(B) \in Nat
    BY <2>2, <2>3, FS_Subset, FS_CardinalityType
  <2> QED BY <2>3, <2>4 DEF Rank
<1>3. ASSUME NEW e \in S PROVE place(e) \in Nat /\ place(e) <= last /\ last \in Nat
  <2>1. last = (Cardinality(S) - 1) \div ChunkEvents /\ Cardinality(S) - 1 \in Nat
    BY <1>2, <1>1
  <2> QED BY <1>1, <1>2, <2>1, DivMonotone
<1>4. last \in Nat
  BY <1>3
<1>5. ASSUME NEW d \in S, NEW e \in S, Precedes(d, e) PROVE place(d) <= place(e)
  <2> DEFINE A == {x \in S : Precedes(x, d)}
             B == {x \in S : Precedes(x, e)}
  <2>1. \A x \in S : x.producer \in Nat /\ x.seq \in Nat
    BY EnvelopeSeq, MembersAssumption DEF EnvelopeSets
  <2>2. A \subseteq B
    BY <1>5, <2>1 DEF Precedes
  <2>3. IsFiniteSet(B) /\ Cardinality(A) <= Cardinality(B)
    BY <1>1, <2>2, FS_Subset
  <2>4. Rank(d, S) <= Rank(e, S)
    BY <2>3 DEF Rank
  <2> QED BY <1>1, <1>2, <2>4, DivMonotone
<1>6. Chunks(S) = [i \in 1 .. last + 1 |-> Backlog(chunk(i))]
  BY DEF Chunks
<1>7. \A e \in S, i \in Nat : e \in chunk(i) <=> place(e) = i - 1
  OBVIOUS
<1>8. \A i : chunk(i) \subseteq S
  OBVIOUS
<1> HIDE DEF last, place, chunk
<1>9. \A i \in 1 .. last + 1 : Carried(Chunks(S)[i]) = chunk(i)
  BY <1>6 DEF Carried, Backlog
<1>10. DOMAIN Chunks(S) = 1 .. last + 1
  BY <1>6
<1>11. ASSUME NEW e \in S
       PROVE  /\ place(e) + 1 \in DOMAIN Chunks(S)
              /\ e \in Carried(Chunks(S)[place(e) + 1])
  <2>1. place(e) + 1 \in 1 .. last + 1 /\ place(e) + 1 \in Nat
    BY <1>3
  <2>2. (place(e) + 1) - 1 = place(e)
    BY <1>3
  <2>3. e \in chunk(place(e) + 1)
    BY <1>7, <2>1, <2>2
  <2> QED BY <1>9, <1>10, <2>1, <2>3
<1>12. InTransit(Chunks(S)) = S
  BY <1>8, <1>9, <1>10, <1>11 DEF InTransit
<1>13. ASSUME NEW i \in DOMAIN Chunks(S), NEW e \in Carried(Chunks(S)[i])
       PROVE  Supports(H \cup Upto(Chunks(S), i), e)
  <2>1. i \in Nat /\ e \in S /\ place(e) = i - 1
    BY <1>4, <1>7, <1>8, <1>9, <1>10
  <2> SUFFICES ASSUME NEW s \in 1 .. e.seq - 1
               PROVE  \E d \in H \cup Upto(Chunks(S), i) : d.producer = e.producer /\ d.seq = s
    BY DEF Supports
  <2>2. PICK d \in H \cup S : d.producer = e.producer /\ d.seq = s
    BY <2>1 DEF Supports
  <2>3. CASE d \in H
    BY <2>2, <2>3
  <2>4. CASE d \in S
    <3>1. Precedes(d, e)
      <4>1. e.seq \in Nat
        BY <2>1, EnvelopeSeq DEF EnvelopeSets
      <4> QED BY <2>2, <4>1 DEF Precedes
    <3>2. place(d) + 1 <= i
      BY <1>3, <1>5, <2>1, <2>4, <3>1
    <3>3. d \in Upto(Chunks(S), i)
      BY <1>11, <2>4, <3>2 DEF Upto
    <3> QED BY <2>2, <3>3
  <2> QED BY <2>3, <2>4
<1> QED BY <1>12, <1>13 DEF Chain

-------------------------------------------------------------------------------
(* What members hold and are sent.                                         *)

(* No two events bear one name, so a ledger takes in whatever it is given. *)
LEMMA NamesAreUnique ==
    ASSUME TypeOK, NumberingInv, NEW d \in Produced, NEW e \in Produced,
           d.producer = e.producer, d.seq = e.seq
    PROVE  d = e
<1>1. d.producer \in Producers /\ d \in replica[d.producer] /\ e \in replica[d.producer]
  BY ProducedMember
<1> QED BY <1>1 DEF NumberingInv, Numbered

LEMMA InsertTakesAll ==
    ASSUME TypeOK, NumberingInv, NEW L \in SUBSET Produced
    PROVE  /\ \A e \in Produced : Insert(L, e) = L \cup {e}
           /\ \A S \in SUBSET Produced : InsertAll(L, S) = L \cup S
<1>1. ASSUME NEW e \in Produced, Holds(L, e) PROVE e \in L
  BY <1>1, NamesAreUnique DEF Holds
<1>2. ASSUME NEW e \in Produced PROVE Insert(L, e) = L \cup {e}
  BY <1>1 DEF Insert
<1>3. ASSUME NEW S \in SUBSET Produced PROVE InsertAll(L, S) = L \cup S
  <2>1. \A e \in S : e \in L \/ ~ Holds(L, e)
    BY <1>1
  <2> QED BY <2>1 DEF InsertAll
<1> QED BY <1>2, <1>3

(* What a tip says is held is held. *)
LEMMA TipCovers ==
    ASSUME TypeOK, NumberingInv, NEW L \in EnvelopeSets, L \subseteq Produced,
           NEW e \in Produced, e \in Envelopes, e.seq <= Tips(L)[e.producer]
    PROVE  e \in L
<1>1. e.producer \in Members /\ e.seq \in Nat \ {0}
  BY EnvelopeSeq
<1>2. Tips(L)[e.producer] = Tip(L, e.producer)
  BY <1>1 DEF Tips
<1>3. Tip(L, e.producer) \in Nat /\ 1 .. Tip(L, e.producer) \subseteq Seqs(L, e.producer)
  BY TipIsContiguous, EnvelopeSeq DEF EnvelopeSets
<1>4. e.seq \in Seqs(L, e.producer)
  BY <1>1, <1>2, <1>3
<1>5. PICK d \in L : d.producer = e.producer /\ d.seq = e.seq
  BY <1>4 DEF Seqs
<1> QED BY <1>5, NamesAreUnique

(* The next number of a ledger without holes follows all it holds. *)
LEMMA NextSeqFollows ==
    ASSUME NEW L \in EnvelopeSets, Gapless(L), NEW p
    PROVE  \A s \in 1 .. NextSeq(L, p) - 1 : \E d \in L : d.producer = p /\ d.seq = s
<1>0. IsFiniteSet(L) /\ \A e \in L : e.seq \in Nat \ {0}
  BY EnvelopeSeq DEF EnvelopeSets
<1>1. CASE p \in ProducersIn(L)
  <2>1. Seqs(L, p) # {}
    BY <1>1 DEF ProducersIn, Seqs
  <2>2. LastSeq(L, p) \in Seqs(L, p)
    BY <1>0, <2>1, LastSeqIsMax
  <2>3. PICK e \in L : e.producer = p /\ e.seq = LastSeq(L, p)
    BY <2>2 DEF Seqs
  <2>4. NextSeq(L, p) - 1 = e.seq /\ e.seq \in Nat
    BY <1>0, <1>1, <2>3 DEF NextSeq
  <2>5. \A s \in 1 .. e.seq - 1 : \E d \in L : d.producer = p /\ d.seq = s
    BY <2>3 DEF Gapless
  <2>6. \A s \in 1 .. e.seq : s = e.seq \/ s \in 1 .. e.seq - 1
    BY <2>4
  <2> QED BY <2>3, <2>4, <2>5, <2>6
<1>2. CASE p \notin ProducersIn(L)
  BY <1>2 DEF NextSeq
<1> QED BY <1>1, <1>2

(* What a relay takes in follows all it holds of the producer. *)
LEMMA AcceptedFollows ==
    ASSUME NEW L \in EnvelopeSets, Gapless(L), NEW e \in Envelopes,
           AcceptsRelayed(L, e), ~ Holds(L, e)
    PROVE  Supports(L, e)
<1>0. e.seq \in Nat
  BY EnvelopeSeq
<1>1. CASE e.producer \notin ProducersIn(L)
  <2>1. e.seq = 1
    BY <1>1 DEF AcceptsRelayed
  <2> QED BY <2>1 DEF Supports
<1>2. CASE e.producer \in ProducersIn(L)
  <2>1. e.seq = LastSeq(L, e.producer) + 1
    BY <1>2 DEF AcceptsRelayed
  <2>2. NextSeq(L, e.producer) = e.seq
    BY <1>2, <2>1 DEF NextSeq
  <2> QED BY <2>2, NextSeqFollows DEF Supports
<1> QED BY <1>1, <1>2

LEMMA GaplessMore ==
    ASSUME NEW L, Gapless(L), NEW S, \A e \in S : Supports(L \cup S, e)
    PROVE  Gapless(L \cup S)
<1>1. \A e \in L : Supports(L, e)
  BY DEF Gapless, Supports
<1>2. \A e \in L \cup S : Supports(L \cup S, e)
  BY <1>1, SupportsMore
<1> QED BY <1>2 DEF Gapless, Supports

(* A member learns what the frame it reads carries. *)
LEMMA ReadLearns ==
    ASSUME TypeOK, NumberingInv, NEW m \in Members, ReadFrame(m)
    PROVE  LET f == Head(down[conn[m]])
           IN  /\ replica'[m] = replica[m] \cup Carried(f)
               /\ InTransit(down[conn[m]]) = Carried(f) \cup InTransit(Tail(down[conn[m]]))
               /\ Carried(f) \subseteq Produced
<1> DEFINE c == conn[m]
           f == Head(down[c])
<1>1. c \in DOMAIN dialled /\ down[c] # <<>> /\ f \in DownFrames /\ Absorb(m, f)
  BY ReadEffect
<1>2. down[c] \in Seq(DownFrames)
  BY <1>1, Basics
<1>3. InTransit(down[c]) = Carried(f) \cup InTransit(Tail(down[c]))
  BY <1>1, <1>2, InTransitTail
<1>4. InTransit(down[c]) \subseteq Produced /\ replica[m] \subseteq Produced
  BY <1>1 DEF NumberingInv, Authentic
<1> HIDE DEF c, f
<1>5. replica \in [Members -> EnvelopeSets] /\ replica[m] \in SUBSET Produced
  BY <1>4 DEF TypeOK
<1>6. ASSUME f.type = "Welcome", UNCHANGED replica
      PROVE  replica'[m] = replica[m] \cup Carried(f)
  BY <1>6 DEF Carried
<1>7. ASSUME f.type = "Backlog", replica' = [replica EXCEPT ![m] = InsertAll(@, f.envelopes)]
      PROVE  replica'[m] = replica[m] \cup Carried(f)
  <2>1. f.envelopes \in SUBSET Produced /\ Carried(f) = f.envelopes
    BY <1>3, <1>4, <1>7 DEF Carried
  <2>2. InsertAll(replica[m], f.envelopes) = replica[m] \cup f.envelopes
    BY <1>5, <2>1, InsertTakesAll
  <2> QED BY <1>5, <1>7, <2>1, <2>2
<1>8. ASSUME f.type \in {"Relayed", "Recovered"}, replica' = [replica EXCEPT ![m] = Insert(@, f.envelope)]
      PROVE  replica'[m] = replica[m] \cup Carried(f)
  <2>1. f.envelope \in Produced /\ Carried(f) = {f.envelope}
    BY <1>3, <1>4, <1>8 DEF Carried
  <2>2. Insert(replica[m], f.envelope) = replica[m] \cup {f.envelope}
    BY <1>5, <2>1, InsertTakesAll
  <2> QED BY <1>5, <1>8, <2>1, <2>2
<1>9. ASSUME f.type = "CaughtUp", UNCHANGED <<replica, nextSeq>>
      PROVE  replica'[m] = replica[m] \cup Carried(f)
  BY <1>9 DEF Carried
<1>10. replica'[m] = replica[m] \cup Carried(f)
  BY <1>1, <1>6, <1>7, <1>8, <1>9 DEF Absorb
<1> QED BY <1>3, <1>4, <1>10 DEF c, f

(* A producer keeps the event it stamps, a new one. *)
LEMMA PublishKeeps ==
    ASSUME TypeOK, NumberingInv, LinksInv, NEW m \in Members, PublishNext(m)
    PROVE  LET e == [producer |-> m, seq |-> nextSeq[m], body |-> Head(queue[m])]
           IN  /\ m \in Producers /\ conn[m] # 0
               /\ \/ UNCHANGED <<nextSeq, replica, up>>
                  \/ /\ nextSeq'[m] = nextSeq[m] + 1
                     /\ replica'[m] = replica[m] \cup {e} /\ e \notin Produced /\ e \in Envelopes
                     /\ Publish(e) \in UpFrames /\ Carried(Publish(e)) = {e}
                     /\ Send(m, Publish(e))
<1> DEFINE e == [producer |-> m, seq |-> nextSeq[m], body |-> Head(queue[m])]
<1>1. phase[m] = "caught_up" /\ queue[m] # <<>>
  BY PublishEffect
<1>2. m \in Producers
  BY <1>1 DEF NumberingInv
<1>3. conn[m] # 0
  BY <1>1 DEF LinksInv, Wired
<1>4. e.producer = m /\ e.seq = nextSeq[m]
  OBVIOUS
<1>5. \/ UNCHANGED <<nextSeq, replica, up>>
      \/ /\ e \in Envelopes /\ Publish(e) \in UpFrames /\ Carried(Publish(e)) = {e}
         /\ nextSeq'[m] = nextSeq[m] + 1
         /\ replica'[m] = Insert(replica[m], e)
         /\ Send(m, Publish(e))
  BY PublishEffect
<1> HIDE DEF e
<1>6. \A d \in replica[m] : d.producer = m => d.seq < nextSeq[m] /\ d.seq \in Nat
  <2>1. \A d \in replica[m] : d.producer = m => d.seq < nextSeq[m]
    BY <1>2, <1>3 DEF NumberingInv, Numbered
  <2>2. replica[m] \subseteq Envelopes
    BY Basics DEF EnvelopeSets
  <2> QED BY <2>1, <2>2, EnvelopeSeq
<1>7. nextSeq[m] \in Nat
  BY Basics
<1>8. ~ Holds(replica[m], e)
  BY <1>4, <1>6, <1>7 DEF Holds
<1>9. e \notin Produced
  <2>1. \A d \in Produced : d \in replica[d.producer]
    BY ProducedMember
  <2> QED BY <1>4, <1>6, <1>7, <2>1
<1>10. Insert(replica[m], e) = replica[m] \cup {e}
  BY <1>8 DEF Insert
<1> QED BY <1>2, <1>3, <1>5, <1>9, <1>10 DEF e

(* The relay's answer to a Hello, frame by frame. *)
LEMMA ReplyOrder ==
    ASSUME TypeOK, NEW S \in EnvelopeSets, NEW H, \A e \in S : Supports(H \cup S, e)
    PROVE  InTransit(Reply(S)) = S /\ Chain(H, Reply(S))
<1> DEFINE w == Welcome(Tips(ledger))
           one == <<w>>
           end == <<CaughtUp>>
           C == Chunks(S)
<1>1. Carried(w) = {} /\ Carried(CaughtUp) = {} /\ w \in DownFrames /\ CaughtUp \in DownFrames
  <2>1. Tips(ledger) \in Haves
    BY TipsType DEF TypeOK
  <2> QED BY <2>1 DEF Welcome, CaughtUp, DownFrames, Carried
<1>2. C \in Seq(DownFrames) /\ one \in Seq(DownFrames) /\ end \in Seq(DownFrames)
  BY <1>1, ChunksCarry
<1>3. InTransit(one) = {} /\ InTransit(end) = {} /\ InTransit(C) = S /\ Chain(H, C)
  BY <1>1, InTransitOne, ChunksComplete
<1>4. \A K : Chain(K, one) /\ Chain(K, end)
  BY <1>1, ChainOne
<1> HIDE DEF w, one, end, C
<1>5. InTransit(one \o C) = S /\ one \o C \in Seq(DownFrames) /\ Chain(H, one \o C)
  <2>1. H \cup InTransit(one) = H
    BY <1>3
  <2>2. InTransit(one \o C) = InTransit(one) \cup InTransit(C) /\ one \o C \in Seq(DownFrames)
    BY <1>2, InTransitConcat
  <2>3. Chain(H, one)
    BY <1>4
  <2>4. Chain(H \cup InTransit(one), C)
    BY <1>3, <2>1
  <2>5. Chain(H, one \o C)
    BY ONLY <1>2, <2>3, <2>4, ChainConcat
  <2> QED BY <1>3, <2>2, <2>5
<1> DEFINE first == one \o C
<1>6. InTransit(first) = S /\ first \in Seq(DownFrames) /\ Chain(H, first)
  BY <1>5
<1> HIDE DEF first
<1>7. InTransit(first \o end) = S
  <2>1. InTransit(first \o end) = InTransit(first) \cup InTransit(end)
    BY <1>2, <1>6, InTransitConcat
  <2> QED BY <1>3, <1>6, <2>1
<1>8. Chain(H, first \o end)
  <2>1. Chain(H \cup InTransit(first), end)
    BY <1>4
  <2> QED BY <1>2, <1>6, <2>1, ChainConcat
<1>9. Reply(S) = first \o end
  BY DEF Reply, first, one, C, end, w
<1> QED BY <1>7, <1>8, <1>9

-------------------------------------------------------------------------------
(* What the channels make of the ledgers of a room: no relay or member     *)
(* ever has a hole in the numbers of a producer, nothing slips between a   *)
(* joiner's backlog and the live frames after it, and the room implements  *)
(* TeamLog.                                                                *)

-------------------------------------------------------------------------------
(* SyncInv, step by step.                                                  *)

LEMMA SyncInit == TeamInit => SyncInv
<1> SUFFICES ASSUME TeamInit PROVE SyncInv
  OBVIOUS
<1>1. Offered /\ NoHoles
  BY DEF TeamInit, Init, Offered, NoHoles, Gapless
<1>2. DOMAIN dialled = {} /\ slots = {}
  BY DEF TeamInit, Init
<1>3. SenderHolds /\ NothingSlips /\ DownInOrder
  BY <1>2 DEF SenderHolds, NothingSlips, DownInOrder
<1>4. StampsNext
  BY ProducersAssumption DEF TeamInit, Init, StampsNext
<1> QED BY <1>1, <1>3, <1>4 DEF SyncInv

(* The relay never reports more of a producer than the producer stamped. *)
LEMMA TipBelow ==
    ASSUME TypeOK, NumberingInv, NEW p \in Producers, conn[p] # 0
    PROVE  Tips(ledger)[p] < nextSeq[p]
<1> DEFINE t == Tip(ledger, p)
<1>1. p \in Members /\ nextSeq[p] \in Nat \ {0}
  BY Basics, ProducersAssumption
<1>2. Tips(ledger)[p] = t
  BY <1>1 DEF Tips
<1>3. t \in Nat /\ 1 .. t \subseteq Seqs(ledger, p)
  BY Basics, EnvelopeSeq, TipIsContiguous DEF EnvelopeSets
<1> HIDE DEF t
<1>4. CASE t # 0
  <2>1. t \in Seqs(ledger, p)
    BY <1>3, <1>4
  <2>2. PICK e \in ledger : e.producer = p /\ e.seq = t
    BY <2>1 DEF Seqs
  <2>3. e \in replica[p]
    BY <2>2, ProducedMember DEF NumberingInv, Authentic
  <2> QED BY <1>2, <2>2, <2>3 DEF NumberingInv, Numbered
<1> QED BY <1>1, <1>2, <1>4

LEMMA ServeKeepsSync ==
    ASSUME TypeOK, LinksInv, NumberingInv, SyncInv, NEW c \in open, ServeHello(c)
    PROVE  SyncInv'
<1> USE DEF Attended
<1>a. /\ Offered /\ SenderHolds /\ NothingSlips /\ NoHoles /\ DownInOrder /\ StampsNext
      /\ Wired /\ \A m \in Members : Handshake(m)
  BY DEF SyncInv, LinksInv
<1>1. /\ c \in DOMAIN dialled /\ c \notin slots /\ up[c] # <<>>
      /\ slots' = slots \cup {c}
      /\ up'[c] = Tail(up[c])
      /\ \A d \in DOMAIN dialled : d # c => up'[d] = up[d] /\ down'[d] = down[d]
      /\ ~ Attended(c) => down'[c] = down[c]
      /\ UNCHANGED <<ledger, open, dialled, conn, phase, replica, nextSeq, reoffer>>
  BY ServeEffect, Basics
<1>2. InTransit(Tail(up[c])) \subseteq InTransit(up[c])
  BY <1>1, Basics, InTransitTail
<1> DEFINE x == dialled[c]
           S == After(ledger, Tips(replica[x]))
<1>3. x \in Members
  BY <1>1, Basics
<1>4. S \in EnvelopeSets /\ S \subseteq ledger
  BY FS_Subset DEF After, EnvelopeSets, TypeOK
<1>5. ASSUME Attended(c)
      PROVE  down'[c] = Reply(S)
  <2>1. conn[x] = c /\ c # 0
    BY <1>1, <1>5, Basics
  <2>2. down[c] = <<>> /\ up[c] = <<Hello(Tips(replica[x]))>>
    BY <1>1, <1>3, <1>a, <2>1 DEF Handshake
  <2>3. Head(up[c]).have = Tips(replica[x])
    BY <2>2 DEF Hello
  <2>4. down'[c] = down[c] \o <<Welcome(Tips(ledger))>> \o Chunks(S) \o <<CaughtUp>>
    BY <1>5, <2>3, ServeEffect
  <2>5. Reply(S) = <<>> \o <<Welcome(Tips(ledger))>> \o Chunks(S) \o <<CaughtUp>>
    BY <1>4, ReplyShape
  <2> HIDE DEF S, x
  <2> QED BY <2>2, <2>4, <2>5
<1>6. ledger \subseteq replica[x] \cup S
  <2> SUFFICES ASSUME NEW e \in ledger, e \notin S PROVE e \in replica[x]
    OBVIOUS
  <2>1. replica[x] \in EnvelopeSets /\ replica[x] \subseteq Produced /\ e \in Produced /\ e \in Envelopes
    BY <1>3, Basics DEF NumberingInv, Authentic, EnvelopeSets
  <2>2. e.seq \in Nat /\ Tips(replica[x])[e.producer] \in Nat
    BY <2>1, EnvelopeSeq, TipsType DEF Haves
  <2>3. e.seq <= Tips(replica[x])[e.producer]
    BY <2>2 DEF After
  <2> QED BY <2>1, <2>3, TipCovers
<1>7. ASSUME NEW e \in S PROVE Supports(replica[x] \cup S, e)
  <2>1. Supports(ledger, e)
    BY <1>4, <1>a DEF NoHoles, Gapless, Supports
  <2> QED BY <1>6, <2>1, SupportsMore
<1>8. InTransit(Reply(S)) = S /\ Chain(replica[x], Reply(S))
  <2> HIDE DEF S, x
  <2> QED BY <1>4, <1>7, ReplyOrder
<1>9. ASSUME NEW p \in Producers, conn[p] # 0, conn[p] = c, NEW i \in DOMAIN down'[c],
             down'[c][i].type = "Welcome"
      PROVE  down'[c][i].have[p] < nextSeq[p]
  <2>1. Attended(c)
    BY <1>9, <1>a, ProducersAssumption DEF Wired
  <2>2. down'[c] = Reply(S)
    BY <1>5, <2>1
  <2> HIDE DEF S
  <2>3. down'[c][i] = Welcome(Tips(ledger))
    BY <1>4, <1>9, <2>2, ReplyShape
  <2>4. Tips(ledger)[p] < nextSeq[p]
    BY <1>9, TipBelow
  <2> QED BY <2>3, <2>4 DEF Welcome
<1> HIDE DEF S
<1>10. Offered' /\ NoHoles'
  BY <1>a, <1>1 DEF Offered, NoHoles, Gapless
<1>11. SenderHolds'
  BY <1>a, <1>1, <1>2 DEF SenderHolds
<1>12. NothingSlips'
  <2>0. slots \subseteq DOMAIN dialled
    BY Basics
  <2> SUFFICES ASSUME NEW d \in slots', conn[dialled[d]] = d
               PROVE  ledger \subseteq replica[dialled[d]] \cup InTransit(down'[d])
    BY <1>1 DEF NothingSlips
  <2>1. CASE d = c
    BY <1>5, <1>6, <1>8, <2>1
  <2>2. CASE d # c
    BY <1>a, <1>1, <2>0, <2>2 DEF NothingSlips
  <2> QED BY <2>1, <2>2
<1>13. DownInOrder'
  <2> SUFFICES ASSUME NEW d \in DOMAIN dialled PROVE Chain(replica[dialled[d]], down'[d])
    BY <1>1 DEF DownInOrder
  <2>1. CASE d = c /\ Attended(c)
    BY <1>5, <1>8, <2>1
  <2>2. CASE d # c \/ ~ Attended(c)
    BY <1>a, <1>1, <2>2 DEF DownInOrder
  <2> QED BY <2>1, <2>2
<1>14. StampsNext'
  <2> SUFFICES ASSUME NEW p \in Producers, conn[p] # 0
               PROVE  /\ \A s \in 1 .. nextSeq[p] - 1 : \E d \in replica[p] : d.producer = p /\ d.seq = s
                      /\ \A i \in DOMAIN down'[conn[p]] :
                            down'[conn[p]][i].type = "Welcome" => down'[conn[p]][i].have[p] < nextSeq[p]
    BY <1>1 DEF StampsNext
  <2>1. CASE conn[p] = c
    BY <1>9, <1>a, <2>1 DEF StampsNext
  <2>2. CASE conn[p] # c
    <3>1. conn[p] \in DOMAIN dialled
      BY Basics, ProducersAssumption
    <3> QED BY <1>1, <1>a, <2>2, <3>1 DEF StampsNext
  <2> QED BY <2>1, <2>2
<1> QED BY <1>10, <1>11, <1>12, <1>13, <1>14 DEF SyncInv

(* The relay reads, drops or loses frames of one connection. *)
LEMMA LessUpKeepsSync ==
    ASSUME TypeOK, SyncInv, NEW c \in open,
           up'[c] = <<>> \/ (up[c] # <<>> /\ up'[c] = Tail(up[c])),
           \A d \in DOMAIN dialled : d # c => up'[d] = up[d],
           slots' \subseteq slots,
           UNCHANGED <<ledger, down, dialled, conn, phase, replica, nextSeq, reoffer>>
    PROVE  SyncInv'
<1>a. Offered /\ SenderHolds /\ NothingSlips /\ NoHoles /\ DownInOrder /\ StampsNext
  BY DEF SyncInv
<1>1. c \in DOMAIN dialled /\ up[c] \in Seq(UpFrames)
  BY Basics
<1>2. InTransit(up'[c]) \subseteq InTransit(up[c])
  BY <1>1, InTransitTail, InTransitEmpty
<1>3. SenderHolds'
  BY <1>a, <1>2 DEF SenderHolds, Attended
<1>4. NothingSlips'
  BY <1>a DEF NothingSlips, Attended
<1>5. Offered' /\ NoHoles' /\ DownInOrder' /\ StampsNext'
  BY <1>a DEF Offered, NoHoles, Gapless, DownInOrder, StampsNext
<1> QED BY <1>3, <1>4, <1>5 DEF SyncInv

(* What the relay takes in it owes to all it serves; who sent it has it. *)
LEMMA TakenKeepsSync ==
    ASSUME TypeOK, SyncInv, NEW c \in open, NEW e \in Envelopes, NEW g \in DownFrames,
           c \in slots, e \in InTransit(up[c]), Carried(g) = {e}, g.type # "Welcome",
           up[c] # <<>>, Taken(c, e, g),
           \A d \in DOMAIN dialled : d # c => up'[d] = up[d],
           UNCHANGED <<dialled, conn, phase, replica, nextSeq, reoffer>>
    PROVE  SyncInv'
<1>a. Offered /\ SenderHolds /\ NothingSlips /\ NoHoles /\ DownInOrder /\ StampsNext
  BY DEF SyncInv
<1>1. /\ c \in DOMAIN dialled /\ slots \subseteq DOMAIN dialled
      /\ ledger \in EnvelopeSets
      /\ \A d \in DOMAIN dialled : up[d] \in Seq(UpFrames) /\ down[d] \in Seq(DownFrames)
  BY Basics
<1>2. /\ up'[c] = Tail(up[c]) /\ ledger' = ledger \cup {e} /\ UNCHANGED <<open, slots>>
      /\ \A d \in DOMAIN dialled :
            down'[d] = IF d \in slots \ {c} /\ Attended(d) THEN Append(down[d], g) ELSE down[d]
  BY DEF Taken
<1>3. Supports(ledger, e)
  BY <1>a, <1>1, AcceptedFollows DEF Taken, NoHoles
<1>4. InTransit(up'[c]) \subseteq InTransit(up[c])
  BY <1>1, <1>2, InTransitTail
<1>5. Offered' /\ SenderHolds'
  BY <1>a, <1>2, <1>4 DEF Offered, SenderHolds, Attended
<1>6. NothingSlips'
  <2> SUFFICES ASSUME NEW d \in slots, Attended(d)
               PROVE  ledger \cup {e} \subseteq replica[dialled[d]] \cup InTransit(down'[d])
    BY <1>2 DEF NothingSlips, Attended
  <2>1. ledger \subseteq replica[dialled[d]] \cup InTransit(down[d])
    BY <1>a DEF NothingSlips
  <2>2. CASE d = c
    <3>1. e \in replica[dialled[d]]
      BY <1>a, <1>1, <2>2 DEF SenderHolds
    <3> QED BY <1>1, <1>2, <2>1, <2>2, <3>1
  <2>3. CASE d # c
    <3>1. down'[d] = Append(down[d], g)
      BY <1>1, <1>2, <2>3
    <3>2. InTransit(down'[d]) = InTransit(down[d]) \cup {e}
      BY <1>1, <3>1, InTransitAppend
    <3> QED BY <2>1, <3>2
  <2> QED BY <2>2, <2>3
<1>7. NoHoles'
  <2>1. Gapless(ledger \cup {e})
    <3>1. Supports(ledger \cup {e}, e)
      BY <1>3, SupportsMore
    <3> QED BY <1>a, <3>1, GaplessMore DEF NoHoles
  <2> QED BY <1>a, <1>2, <2>1 DEF NoHoles, Gapless
<1>8. DownInOrder'
  <2> SUFFICES ASSUME NEW d \in DOMAIN dialled PROVE Chain(replica[dialled[d]], down'[d])
    BY DEF DownInOrder
  <2>1. Chain(replica[dialled[d]], down[d])
    BY <1>a DEF DownInOrder
  <2>2. CASE d \in slots \ {c} /\ Attended(d)
    <3>1. ledger \subseteq replica[dialled[d]] \cup InTransit(down[d])
      BY <1>a, <2>2 DEF NothingSlips
    <3>2. Supports(replica[dialled[d]] \cup InTransit(down[d]) \cup {e}, e)
      BY <1>3, <3>1, SupportsMore
    <3>3. Chain(replica[dialled[d]], Append(down[d], g))
      BY <1>1, <2>1, <3>2, ChainAppend
    <3> QED BY <1>2, <2>2, <3>3
  <2> QED BY <1>2, <2>1, <2>2
<1>9. StampsNext'
  <2> SUFFICES ASSUME NEW p \in Producers, conn[p] # 0
               PROVE  /\ \A s \in 1 .. nextSeq[p] - 1 : \E d \in replica[p] : d.producer = p /\ d.seq = s
                      /\ \A i \in DOMAIN down'[conn[p]] :
                            down'[conn[p]][i].type = "Welcome" => down'[conn[p]][i].have[p] < nextSeq[p]
    BY DEF StampsNext
  <2> DEFINE d == conn[p]
  <2>1. d \in DOMAIN dialled
    BY Basics, ProducersAssumption
  <2>2. \A i \in DOMAIN down[d] : down[d][i].type = "Welcome" => down[d][i].have[p] < nextSeq[p]
    BY <1>a DEF StampsNext
  <2> HIDE DEF d
  <2>3. \A i \in DOMAIN down'[d] : down'[d][i].type = "Welcome" =>
            i \in DOMAIN down[d] /\ down'[d][i] = down[d][i]
    <3>1. \A i \in DOMAIN Append(down[d], g) : Append(down[d], g)[i].type = "Welcome" =>
            i \in DOMAIN down[d] /\ Append(down[d], g)[i] = down[d][i]
      BY <1>1, <2>1, AppendShape
    <3> QED BY <1>2, <2>1, <3>1
  <2>4. \A i \in DOMAIN down'[d] : down'[d][i].type = "Welcome" => down'[d][i].have[p] < nextSeq[p]
    BY <2>2, <2>3
  <2> QED BY <1>a, <2>4 DEF StampsNext, d
<1> QED BY <1>5, <1>6, <1>7, <1>8, <1>9 DEF SyncInv

LEMMA PumpKeepsSync ==
    ASSUME TypeOK, SyncInv, NEW c \in open, PumpEnvelope(c)
    PROVE  SyncInv'
<1> DEFINE f == Head(up[c])
           e == f.envelope
           g == FanoutFrame(e, f.type = "Publish")
<1>1. /\ c \in slots /\ up[c] # <<>>
      /\ \A d \in DOMAIN dialled : d # c => up'[d] = up[d]
      /\ UNCHANGED <<dialled, conn, phase, replica, nextSeq, reoffer>>
      /\ \/ Ended(c)
         \/ /\ e \in Envelopes /\ Carried(f) = {e}
            /\ g \in DownFrames /\ Carried(g) = {e} /\ g.type \in {"Relayed", "Recovered"}
            /\ Dropped(c, e) \/ Taken(c, e, g)
  BY PumpEffect
<1>2. InTransit(up[c]) = Carried(f) \cup InTransit(Tail(up[c]))
  BY <1>1, Basics, InTransitTail
<1> HIDE DEF f, e, g
<1>3. CASE Ended(c)
  <2>1. slots' \subseteq slots /\ up'[c] = <<>> /\ UNCHANGED <<ledger, down>>
    BY <1>3 DEF Ended
  <2> QED BY <1>1, <2>1, LessUpKeepsSync
<1>4. CASE Dropped(c, e)
  <2>1. slots' \subseteq slots /\ up'[c] = Tail(up[c]) /\ UNCHANGED <<ledger, down>>
    BY <1>4 DEF Dropped
  <2> QED BY <1>1, <2>1, LessUpKeepsSync
<1>5. ASSUME Taken(c, e, g), e \in Envelopes, Carried(f) = {e}, g \in DownFrames,
             Carried(g) = {e}, g.type \in {"Relayed", "Recovered"}
      PROVE  SyncInv'
  BY <1>1, <1>2, <1>5, TakenKeepsSync
<1> QED BY <1>1, <1>3, <1>4, <1>5

(* A step that touches none of it. *)
LEMMA IdleKeepsSync ==
    ASSUME SyncInv,
           UNCHANGED <<ledger, slots, dialled, up, down, conn, replica, nextSeq, reoffer>>
    PROVE  SyncInv'
<1>a. Offered /\ SenderHolds /\ NothingSlips /\ NoHoles /\ DownInOrder /\ StampsNext
  BY DEF SyncInv
<1>1. Offered' /\ SenderHolds' /\ NothingSlips'
  BY <1>a DEF Offered, SenderHolds, NothingSlips, Attended
<1>2. NoHoles' /\ DownInOrder' /\ StampsNext'
  BY <1>a DEF NoHoles, Gapless, DownInOrder, StampsNext
<1> QED BY <1>1, <1>2 DEF SyncInv

LEMMA DialKeepsSync ==
    ASSUME TypeOK, SyncInv, NEW m \in Members, Dial(m)
    PROVE  SyncInv'
<1> DEFINE k == Len(dialled) + 1
           first == <<Hello(Tips(replica[m]))>>
<1>a. Offered /\ SenderHolds /\ NothingSlips /\ NoHoles /\ DownInOrder /\ StampsNext
  BY DEF SyncInv
<1>1. /\ k \notin DOMAIN dialled /\ k # 0
      /\ DOMAIN dialled' = DOMAIN dialled \cup {k}
      /\ \A c \in DOMAIN dialled :
            dialled'[c] = dialled[c] /\ up'[c] = up[c] /\ down'[c] = down[c]
      /\ dialled'[k] = m /\ up'[k] = first /\ down'[k] = <<>>
      /\ \A x \in Members : x # m => conn'[x] = conn[x] /\ nextSeq'[x] = nextSeq[x]
      /\ conn'[m] = k /\ nextSeq'[m] = NextSeq(replica[m], m)
      /\ UNCHANGED <<ledger, slots, replica, reoffer>>
  BY DialEffect
<1>2. InTransit(first) = {}
  BY InTransitOne DEF Hello, Carried
<1>3. replica[m] \in EnvelopeSets /\ slots \subseteq DOMAIN dialled
      /\ \A c \in DOMAIN dialled : dialled[c] \in Members
  BY Basics
<1> HIDE DEF k, first
<1>4. \A c \in DOMAIN dialled : Attended(c)' => Attended(c)
  BY <1>1, <1>3 DEF Attended
<1>5. Offered' /\ NoHoles'
  BY <1>a, <1>1 DEF Offered, NoHoles, Gapless
<1>6. SenderHolds'
  BY <1>a, <1>1, <1>2, <1>4 DEF SenderHolds
<1>7. NothingSlips'
  BY <1>a, <1>1, <1>3, <1>4 DEF NothingSlips
<1>8. DownInOrder'
  BY <1>a, <1>1, ChainEmpty DEF DownInOrder
<1>9. StampsNext'
  <2>1. \A s \in 1 .. nextSeq'[m] - 1 : \E d \in replica[m] : d.producer = m /\ d.seq = s
    BY <1>a, <1>1, <1>3, NextSeqFollows DEF NoHoles
  <2>2. ASSUME NEW p \in Producers, p # m, conn'[p] # 0
        PROVE  conn[p] \in DOMAIN dialled /\ conn'[p] = conn[p] /\ nextSeq'[p] = nextSeq[p]
    BY <1>1, <2>2, Basics, ProducersAssumption
  <2> QED BY <1>a, <1>1, <2>1, <2>2 DEF StampsNext
<1> QED BY <1>5, <1>6, <1>7, <1>8, <1>9 DEF SyncInv

(* Whatever a member sends it holds. *)
LEMMA SentIsHeld ==
    ASSUME TypeOK, LinksInv, SenderHolds, NEW m \in Members, NEW f \in UpFrames, Send(m, f),
           Carried(f) \subseteq replica'[m], replica[m] \subseteq replica'[m],
           \A x \in Members : x # m => replica'[x] = replica[x],
           UNCHANGED <<dialled, conn>>
    PROVE  SenderHolds'
<1>1. ASSUME NEW c \in DOMAIN dialled, Attended(c)
      PROVE  InTransit(up'[c]) \subseteq replica'[dialled[c]]
  <2>1. c # 0 /\ dialled[c] \in Members /\ up[c] \in Seq(UpFrames)
    BY Basics
  <2>2. InTransit(up[c]) \subseteq replica'[dialled[c]]
    BY <1>1, <2>1 DEF SenderHolds
  <2>3. CASE c = conn[m]
    <3>1. dialled[c] = m
      BY <2>1, <2>3 DEF LinksInv, Wired
    <3>2. up'[c] = up[c] \/ up'[c] = Append(up[c], f)
      BY <2>3, SendEffect
    <3>3. InTransit(Append(up[c], f)) = InTransit(up[c]) \cup Carried(f)
      BY <2>1, InTransitAppend
    <3> QED BY <2>2, <3>1, <3>2, <3>3
  <2>4. CASE c # conn[m]
    BY <2>2, <2>4, SendEffect
  <2> QED BY <2>3, <2>4
<1> QED BY <1>1 DEF SenderHolds, Attended

LEMMA PublishKeepsSync ==
    ASSUME TypeOK, LinksInv, NumberingInv, SyncInv, NEW m \in Members, PublishNext(m)
    PROVE  SyncInv'
<1> DEFINE e == [producer |-> m, seq |-> nextSeq[m], body |-> Head(queue[m])]
<1>a. Offered /\ SenderHolds /\ NothingSlips /\ NoHoles /\ DownInOrder /\ StampsNext
  BY DEF SyncInv
<1>1. /\ \A x \in Members : x # m => nextSeq'[x] = nextSeq[x] /\ replica'[x] = replica[x]
      /\ UNCHANGED <<ledger, slots, dialled, down, conn, reoffer>>
  BY PublishEffect
<1>2. /\ m \in Producers /\ conn[m] # 0
      /\ \/ UNCHANGED <<nextSeq, replica, up>>
         \/ /\ nextSeq'[m] = nextSeq[m] + 1
            /\ replica'[m] = replica[m] \cup {e}
            /\ Publish(e) \in UpFrames /\ Carried(Publish(e)) = {e}
            /\ Send(m, Publish(e))
  BY PublishKeeps
<1>3. e.producer = m /\ e.seq = nextSeq[m] /\ nextSeq[m] \in Nat \ {0}
  BY Basics
<1>4. \A c \in DOMAIN dialled : dialled[c] \in Members
  BY Basics
<1> HIDE DEF e
<1>5. CASE UNCHANGED <<nextSeq, replica, up>>
  BY <1>1, <1>5, IdleKeepsSync
<1>6. ASSUME nextSeq'[m] = nextSeq[m] + 1, replica'[m] = replica[m] \cup {e},
             Publish(e) \in UpFrames, Carried(Publish(e)) = {e}, Send(m, Publish(e))
      PROVE  SyncInv'
  <2>1. \A x \in Members : replica[x] \subseteq replica'[x]
    BY <1>1, <1>6
  <2>2. Offered'
    BY <1>a, <1>1, <2>1 DEF Offered
  <2>3. SenderHolds'
    BY <1>a, <1>1, <1>6, SentIsHeld
  <2>4. NothingSlips'
    <3>1. slots \subseteq DOMAIN dialled
      BY Basics
    <3> QED BY <1>a, <1>1, <1>4, <2>1, <3>1 DEF NothingSlips, Attended
  <2>5. Supports(replica[m], e)
    BY <1>a, <1>2, <1>3 DEF StampsNext, Supports
  <2>6. Gapless(replica[m] \cup {e})
    <3>1. Supports(replica[m] \cup {e}, e)
      BY <2>5, SupportsMore
    <3> QED BY <1>a, <3>1, GaplessMore DEF NoHoles
  <2>7. NoHoles'
    <3>1. Gapless(ledger')
      BY <1>a, <1>1 DEF NoHoles
    <3>2. \A x \in Members : Gapless(replica'[x])
      BY <1>a, <1>1, <1>6, <2>6 DEF NoHoles
    <3> QED BY <3>1, <3>2 DEF NoHoles, Gapless
  <2>8. DownInOrder'
    BY <1>a, <1>1, <1>4, <2>1, ChainMore DEF DownInOrder
  <2>9. StampsNext'
    <3>1. \A s \in 1 .. nextSeq'[m] - 1 : \E d \in replica'[m] : d.producer = m /\ d.seq = s
      <4>1. \A s \in 1 .. nextSeq'[m] - 1 : s = nextSeq[m] \/ s \in 1 .. nextSeq[m] - 1
        BY <1>3, <1>6
      <4>2. \A s \in 1 .. nextSeq[m] - 1 : \E d \in replica[m] : d.producer = m /\ d.seq = s
        BY <1>a, <1>2 DEF StampsNext
      <4> QED BY <1>3, <1>6, <4>1, <4>2
    <3>2. \A i \in DOMAIN down[conn[m]] :
            down[conn[m]][i].type = "Welcome" => down[conn[m]][i].have[m] < nextSeq'[m]
      <4> SUFFICES ASSUME NEW i \in DOMAIN down[conn[m]], down[conn[m]][i].type = "Welcome"
                   PROVE  down[conn[m]][i].have[m] < nextSeq'[m]
        OBVIOUS
      <4>1. down[conn[m]][i].have[m] < nextSeq[m]
        BY <1>a, <1>2 DEF StampsNext
      <4>2. down[conn[m]][i].have[m] \in Nat
        <5>1. conn[m] \in DOMAIN dialled /\ down[conn[m]] \in Seq(DownFrames)
          BY <1>2, Basics
        <5>2. down[conn[m]][i] \in DownFrames
          BY <5>1
        <5> QED BY <5>2 DEF DownFrames, Haves
      <4> QED BY <1>3, <1>6, <4>1, <4>2
    <3>3. ASSUME NEW p \in Producers, p # m PROVE nextSeq'[p] = nextSeq[p] /\ replica'[p] = replica[p]
      BY <1>1, <3>3, ProducersAssumption
    <3> QED BY <1>a, <1>1, <3>1, <3>2, <3>3 DEF StampsNext
  <2> QED BY <2>2, <2>3, <2>4, <2>7, <2>8, <2>9 DEF SyncInv
<1> QED BY <1>2, <1>5, <1>6

LEMMA ReofferKeepsSync ==
    ASSUME TypeOK, LinksInv, SyncInv, NEW m \in Members, ReofferNext(m)
    PROVE  SyncInv'
<1>a. Offered /\ SenderHolds /\ NothingSlips /\ NoHoles /\ DownInOrder /\ StampsNext
  BY DEF SyncInv
<1>1. PICK e \in reoffer[m] : /\ reoffer'[m] = reoffer[m] \ {e}
                              /\ Recover(e) \in UpFrames /\ Carried(Recover(e)) = {e}
                              /\ Send(m, Recover(e))
  BY ReofferEffect
<1>2. /\ \A x \in Members : x # m => reoffer'[x] = reoffer[x]
      /\ UNCHANGED <<ledger, slots, dialled, down, conn, replica, nextSeq>>
  BY ReofferEffect
<1>3. Offered'
  BY <1>a, <1>1, <1>2 DEF Offered
<1>4. SenderHolds'
  <2>1. e \in replica[m]
    BY <1>a DEF Offered
  <2> QED BY <1>a, <1>1, <1>2, <2>1, SentIsHeld
<1>5. NothingSlips' /\ NoHoles' /\ DownInOrder' /\ StampsNext'
  BY <1>a, <1>2 DEF NothingSlips, Attended, NoHoles, Gapless, DownInOrder, StampsNext
<1> QED BY <1>3, <1>4, <1>5 DEF SyncInv

(* The connections whose reader goes are attended no more. *)
LEMMA DisconnectKeepsSync ==
    ASSUME TypeOK, LinksInv, SyncInv, NEW m \in Members, Disconnect(m)
    PROVE  SyncInv'
<1>a. /\ Offered /\ SenderHolds /\ NothingSlips /\ NoHoles /\ DownInOrder /\ StampsNext
      /\ \A x \in Members : conn[x] # 0 => dialled[conn[x]] = x
  BY DEF SyncInv, LinksInv, Wired
<1>1. /\ conn[m] # 0 /\ conn[m] \in DOMAIN dialled
      /\ down'[conn[m]] = <<>> /\ \A d \in DOMAIN dialled : d # conn[m] => down'[d] = down[d]
      /\ conn'[m] = 0 /\ reoffer'[m] = {}
      /\ \A x \in Members : x # m => conn'[x] = conn[x] /\ reoffer'[x] = reoffer[x]
      /\ UNCHANGED <<ledger, slots, dialled, up, replica, nextSeq>>
  BY DisconnectEffect
<1>2. slots \subseteq DOMAIN dialled
      /\ \A c \in DOMAIN dialled : dialled[c] \in Members /\ c # 0
  BY Basics
<1>3. \A c \in DOMAIN dialled : Attended(c)' => Attended(c) /\ c # conn[m]
  BY <1>a, <1>1, <1>2 DEF Attended
<1>4. Offered' /\ NoHoles'
  BY <1>a, <1>1 DEF Offered, NoHoles, Gapless
<1>5. SenderHolds'
  BY <1>a, <1>1, <1>3 DEF SenderHolds
<1>6. NothingSlips'
  BY <1>a, <1>1, <1>2, <1>3 DEF NothingSlips
<1>7. DownInOrder'
  BY <1>a, <1>1, ChainEmpty DEF DownInOrder
<1>8. StampsNext'
  <2>1. ASSUME NEW p \in Producers, conn'[p] # 0
        PROVE  conn'[p] = conn[p] /\ down'[conn[p]] = down[conn[p]] /\ conn[p] # 0
    <3>1. p \in Members /\ p # m /\ conn'[p] = conn[p]
      BY <1>1, <2>1, ProducersAssumption
    <3>2. conn[p] # conn[m] /\ conn[p] \in DOMAIN dialled
      BY <1>a, <1>1, <2>1, <3>1, Basics
    <3> QED BY <1>1, <2>1, <3>1, <3>2
  <2> QED BY <1>a, <1>1, <2>1 DEF StampsNext
<1> QED BY <1>4, <1>5, <1>6, <1>7, <1>8 DEF SyncInv

LEMMA CrashKeepsSync ==
    ASSUME StableProducers, TypeOK, LinksInv, SyncInv, NEW m \in Crashable, Crash(m)
    PROVE  SyncInv'
<1>a. /\ Offered /\ SenderHolds /\ NothingSlips /\ NoHoles /\ DownInOrder /\ StampsNext
      /\ \A x \in Members : conn[x] # 0 => dialled[conn[x]] = x
  BY DEF SyncInv, LinksInv, Wired
<1>1. PICK cut \in SUBSET Nat : CrashCuts(m, cut)
  BY CrashEffect
<1>2. /\ slots' \subseteq slots /\ ledger' \in {ledger, {}} /\ UNCHANGED dialled
      /\ \A c \in DOMAIN dialled : /\ up'[c] = IF c \in cut THEN <<>> ELSE up[c]
                                   /\ down'[c] = IF dialled[c] = m THEN <<>> ELSE down[c]
      /\ \A x \in Members : x # m =>
            /\ conn'[x] = conn[x] /\ replica'[x] = replica[x]
            /\ nextSeq'[x] = nextSeq[x] /\ reoffer'[x] = reoffer[x]
      /\ m \in Members => conn'[m] = 0 /\ replica'[m] = {} /\ reoffer'[m] = {}
  BY <1>1 DEF CrashCuts
<1>3. slots \subseteq DOMAIN dialled
      /\ \A c \in DOMAIN dialled : dialled[c] \in Members /\ c # 0
  BY Basics
<1>4. \A c \in DOMAIN dialled : Attended(c)' => Attended(c) /\ dialled[c] # m
  BY <1>2, <1>3 DEF Attended
<1>5. Offered'
  BY <1>a, <1>2 DEF Offered
<1>6. NoHoles'
  <2>1. Gapless({})
    BY DEF Gapless
  <2>2. Gapless(ledger')
    BY <1>a, <1>2, <2>1 DEF NoHoles
  <2>3. \A x \in Members : Gapless(replica'[x])
    BY <1>a, <1>2, <2>1 DEF NoHoles
  <2> QED BY <2>2, <2>3 DEF NoHoles, Gapless
<1>7. SenderHolds'
  BY <1>a, <1>2, <1>3, <1>4, InTransitEmpty DEF SenderHolds
<1>8. NothingSlips'
  BY <1>a, <1>2, <1>3, <1>4 DEF NothingSlips
<1>9. DownInOrder'
  <2> SUFFICES ASSUME NEW c \in DOMAIN dialled PROVE Chain(replica'[dialled[c]], down'[c])
    BY <1>2 DEF DownInOrder
  <2>1. CASE dialled[c] = m
    BY <1>2, <2>1, ChainEmpty
  <2>2. CASE dialled[c] # m
    BY <1>a, <1>2, <1>3, <2>2 DEF DownInOrder
  <2> QED BY <2>1, <2>2
<1>10. StampsNext'
  <2>1. ASSUME NEW p \in Producers, conn'[p] # 0
        PROVE  /\ conn'[p] = conn[p] /\ down'[conn[p]] = down[conn[p]] /\ conn[p] # 0
               /\ nextSeq'[p] = nextSeq[p] /\ replica'[p] = replica[p]
    <3>1. p \in Members /\ p # m
      BY ProducersAssumption DEF StableProducers
    <3>2. conn'[p] = conn[p] /\ conn[p] # 0
      BY <1>2, <2>1, <3>1
    <3>3. dialled[conn[p]] = p /\ conn[p] \in DOMAIN dialled
      BY <1>a, <3>1, <3>2, Basics
    <3> QED BY <1>2, <3>1, <3>2, <3>3
  <2> QED BY <1>a, <2>1 DEF StampsNext
<1> QED BY <1>5, <1>6, <1>7, <1>8, <1>9, <1>10 DEF SyncInv

(* A member's next number is taken from its replica, or stays. *)
LEMMA ReadNumbers ==
    ASSUME TypeOK, TypeOK', SyncInv, NEW m \in Producers, ReadFrame(m)
    PROVE  /\ nextSeq'[m] = nextSeq[m] \/ nextSeq'[m] = NextSeq(replica'[m], m)
           /\ nextSeq[m] <= nextSeq'[m]
<1> DEFINE c == conn[m]
           f == Head(down[c])
<1>1. /\ m \in Members /\ nextSeq \in [Members -> Nat \ {0}]
  BY ProducersAssumption DEF TypeOK
<1>2. c \in DOMAIN dialled /\ c # 0 /\ down[c] # <<>> /\ f \in DownFrames /\ f = down[c][1]
      /\ Absorb(m, f)
  BY <1>1, ReadEffect
<1>3. down[c] \in Seq(DownFrames)
  BY <1>2, Basics
<1>4. 1 \in DOMAIN down[c]
  BY <1>2, <1>3, TailShape
<1>5. f.type = "Welcome" => f.have[m] < nextSeq[m]
  BY <1>2, <1>4 DEF SyncInv, StampsNext
<1>6. f.type = "Welcome" => f.have[m] \in Nat
  BY <1>1, <1>2 DEF DownFrames, Haves
<1> HIDE DEF c, f
<1>7. ASSUME f.type = "Welcome",
             nextSeq' = [nextSeq EXCEPT ![m] = IF @ <= f.have[m] THEN f.have[m] + 1 ELSE @]
      PROVE  nextSeq'[m] = nextSeq[m]
  <2>1. nextSeq'[m] = IF nextSeq[m] <= f.have[m] THEN f.have[m] + 1 ELSE nextSeq[m]
    BY <1>1, <1>7
  <2>2. ~ (nextSeq[m] <= f.have[m])
    BY <1>1, <1>5, <1>6, <1>7
  <2> QED BY <2>1, <2>2
<1> DEFINE end == NextSeq(replica'[m], m)
<1>8. ASSUME nextSeq' = [nextSeq EXCEPT ![m] = IF @ < end THEN end ELSE @]
      PROVE  nextSeq'[m] \in {nextSeq[m], end} /\ (nextSeq'[m] # nextSeq[m] => nextSeq[m] < end)
  <2> HIDE DEF end
  <2> QED BY <1>1, <1>8
<1>9. \/ UNCHANGED nextSeq
      \/ nextSeq' = [nextSeq EXCEPT ![m] = IF @ < end THEN end ELSE @]
      \/ /\ f.type = "Welcome"
         /\ nextSeq' = [nextSeq EXCEPT ![m] = IF @ <= f.have[m] THEN f.have[m] + 1 ELSE @]
  BY <1>2 DEF Absorb
<1> HIDE DEF end
<1>10. nextSeq'[m] \in {nextSeq[m], end} /\ (nextSeq'[m] # nextSeq[m] => nextSeq[m] < end)
  BY <1>7, <1>8, <1>9
<1>11. nextSeq[m] \in Nat /\ nextSeq'[m] \in Nat
  BY <1>1 DEF TypeOK
<1> QED BY <1>10, <1>11 DEF end

LEMMA ReadKeepsSync ==
    ASSUME TypeOK, TypeOK', LinksInv, NumberingInv, SyncInv, NEW m \in Members, ReadFrame(m)
    PROVE  SyncInv'
<1> DEFINE c == conn[m]
           f == Head(down[c])
<1>a. /\ Offered /\ SenderHolds /\ NothingSlips /\ NoHoles /\ DownInOrder /\ StampsNext
      /\ \A x \in Members : conn[x] # 0 => dialled[conn[x]] = x
  BY DEF SyncInv, LinksInv, Wired
<1>1. /\ c \in DOMAIN dialled /\ c # 0 /\ down[c] # <<>>
      /\ down'[c] = Tail(down[c]) /\ \A d \in DOMAIN dialled : d # c => down'[d] = down[d]
      /\ \A x \in Members : x # m =>
            replica'[x] = replica[x] /\ nextSeq'[x] = nextSeq[x] /\ reoffer'[x] = reoffer[x]
      /\ reoffer'[m] = IF f.type = "Welcome" THEN After(replica[m], f.have) ELSE {}
      /\ UNCHANGED <<ledger, open, slots, dialled, up, conn>>
  BY ReadEffect
<1>2. /\ replica'[m] = replica[m] \cup Carried(f)
      /\ InTransit(down[c]) = Carried(f) \cup InTransit(Tail(down[c]))
  BY ReadLearns
<1>3. down[c] \in Seq(DownFrames) /\ dialled[c] = m /\ slots \subseteq DOMAIN dialled
      /\ \A d \in DOMAIN dialled : dialled[d] \in Members /\ d # 0
  BY <1>a, <1>1, Basics
<1>4. /\ \A e \in Carried(f) : Supports(replica[m] \cup Carried(f), e)
      /\ Chain(replica[m] \cup Carried(f), Tail(down[c]))
  <2>1. Chain(replica[m], down[c])
    BY <1>a, <1>1, <1>3 DEF DownInOrder
  <2> QED BY <1>1, <1>3, <2>1, ChainHead
<1>5. After(replica[m], f.have) \subseteq replica[m]
  BY DEF After
<1>6. ASSUME NEW p \in Producers, conn[p] # 0
      PROVE  \A i \in DOMAIN down'[conn[p]] : down'[conn[p]][i].type = "Welcome" =>
                down'[conn[p]][i].have[p] < nextSeq[p] /\ down'[conn[p]][i].have[p] \in Nat
  <2> DEFINE d == conn[p]
  <2>1. p \in Members /\ d \in DOMAIN dialled /\ down[d] \in Seq(DownFrames)
    BY <1>6, Basics, ProducersAssumption
  <2>2. \A i \in DOMAIN down[d] : down[d][i].type = "Welcome" =>
            down[d][i].have[p] < nextSeq[p] /\ down[d][i].have[p] \in Nat
    <3> SUFFICES ASSUME NEW i \in DOMAIN down[d], down[d][i].type = "Welcome"
                 PROVE  down[d][i].have[p] < nextSeq[p] /\ down[d][i].have[p] \in Nat
      OBVIOUS
    <3>1. down[d][i] \in DownFrames
      BY <2>1
    <3>2. down[d][i].have[p] \in Nat
      BY <2>1, <3>1 DEF DownFrames, Haves
    <3> QED BY <1>a, <1>6, <3>2 DEF StampsNext
  <2> HIDE DEF d
  <2>3. CASE d = c
    <3>1. \A i \in DOMAIN Tail(down[c]) : i + 1 \in DOMAIN down[c] /\ Tail(down[c])[i] = down[c][i + 1]
      BY <1>1, <1>3, TailShape
    <3>2. \A i \in DOMAIN Tail(down[c]) : Tail(down[c])[i].type = "Welcome" =>
            Tail(down[c])[i].have[p] < nextSeq[p] /\ Tail(down[c])[i].have[p] \in Nat
      BY <2>2, <2>3, <3>1
    <3>3. down'[d] = Tail(down[c])
      BY <1>1, <2>3
    <3> HIDE DEF c
    <3> QED BY <3>2, <3>3 DEF d
  <2>4. CASE d # c
    BY <1>1, <2>1, <2>2, <2>4 DEF d
  <2> QED BY <2>3, <2>4
<1> HIDE DEF c, f
<1>7. \A x \in Members : replica[x] \subseteq replica'[x]
  BY <1>1, <1>2
<1>8. Offered'
  <2>1. reoffer'[m] \subseteq replica[m]
    BY <1>1, <1>5
  <2> QED BY <1>a, <1>1, <1>7, <2>1 DEF Offered
<1>9. SenderHolds'
  BY <1>a, <1>1, <1>3, <1>7 DEF SenderHolds, Attended
<1>10. NothingSlips'
  <2> SUFFICES ASSUME NEW d \in slots, Attended(d)
               PROVE  ledger \subseteq replica'[dialled[d]] \cup InTransit(down'[d])
    BY <1>1 DEF NothingSlips, Attended
  <2>1. ledger \subseteq replica[dialled[d]] \cup InTransit(down[d])
    BY <1>a DEF NothingSlips
  <2>2. CASE d = c
    BY <1>1, <1>2, <1>3, <2>1, <2>2
  <2>3. CASE d # c
    BY <1>1, <1>3, <1>7, <2>1, <2>3
  <2> QED BY <2>2, <2>3
<1>11. NoHoles'
  <2>1. Gapless(replica[m] \cup Carried(f))
    BY <1>a, <1>4, GaplessMore DEF NoHoles
  <2>2. Gapless(ledger')
    BY <1>a, <1>1 DEF NoHoles
  <2>3. \A x \in Members : Gapless(replica'[x])
    BY <1>a, <1>1, <1>2, <2>1 DEF NoHoles
  <2> QED BY <2>2, <2>3 DEF NoHoles, Gapless
<1>12. DownInOrder'
  <2> SUFFICES ASSUME NEW d \in DOMAIN dialled PROVE Chain(replica'[dialled[d]], down'[d])
    BY <1>1 DEF DownInOrder
  <2>1. CASE d = c
    BY <1>1, <1>2, <1>3, <1>4, <2>1
  <2>2. CASE d # c
    BY <1>a, <1>1, <1>3, <1>7, <2>2, ChainMore DEF DownInOrder
  <2> QED BY <2>1, <2>2
<1>13. StampsNext'
  <2> SUFFICES ASSUME NEW p \in Producers, conn[p] # 0
               PROVE  /\ \A s \in 1 .. nextSeq'[p] - 1 : \E d \in replica'[p] : d.producer = p /\ d.seq = s
                      /\ \A i \in DOMAIN down'[conn[p]] :
                            down'[conn[p]][i].type = "Welcome" => down'[conn[p]][i].have[p] < nextSeq'[p]
    BY <1>1 DEF StampsNext
  <2>1. \A s \in 1 .. nextSeq[p] - 1 : \E d \in replica'[p] : d.producer = p /\ d.seq = s
    BY <1>a, <1>7, ProducersAssumption DEF StampsNext
  <2>2. /\ nextSeq'[p] = nextSeq[p] \/ nextSeq'[p] = NextSeq(replica'[p], p)
        /\ nextSeq[p] <= nextSeq'[p] /\ nextSeq[p] \in Nat /\ nextSeq'[p] \in Nat
    <3>1. p \in Members /\ nextSeq[p] \in Nat /\ nextSeq'[p] \in Nat
      BY ProducersAssumption DEF TypeOK
    <3>2. CASE p = m
      BY <3>1, <3>2, ReadNumbers
    <3>3. CASE p # m
      BY <1>1, <3>1, <3>3
    <3> QED BY <3>2, <3>3
  <2>3. \A s \in 1 .. NextSeq(replica'[p], p) - 1 : \E d \in replica'[p] : d.producer = p /\ d.seq = s
    <3>1. replica'[p] \in EnvelopeSets /\ Gapless(replica'[p])
      BY <1>11, ProducersAssumption DEF NoHoles, Gapless, TypeOK
    <3> QED BY <3>1, NextSeqFollows
  <2>4. \A s \in 1 .. nextSeq'[p] - 1 : \E d \in replica'[p] : d.producer = p /\ d.seq = s
    BY <2>1, <2>2, <2>3
  <2>5. \A i \in DOMAIN down'[conn[p]] :
            down'[conn[p]][i].type = "Welcome" => down'[conn[p]][i].have[p] < nextSeq'[p]
    BY <1>6, <2>2
  <2> QED BY <2>4, <2>5
<1> QED BY <1>8, <1>9, <1>10, <1>11, <1>12, <1>13 DEF SyncInv

LEMMA SyncStep ==
    ASSUME StableProducers, TypeOK, TypeOK', LinksInv, NumberingInv, SyncInv, [Next]_teamVars
    PROVE  SyncInv'
<1>1. ASSUME NEW c \in open, ServeHello(c) \/ PumpEnvelope(c) \/ Hangup(c) PROVE SyncInv'
  <2>1. CASE Hangup(c)
    <3>1. /\ up'[c] = <<>> /\ (\A d \in DOMAIN dialled : d # c => up'[d] = up[d])
          /\ slots' \subseteq slots
          /\ UNCHANGED <<ledger, down, dialled, conn, phase, replica, nextSeq, reoffer>>
      BY <2>1, HangupEffect DEF Ended
    <3> QED BY <3>1, LessUpKeepsSync
  <2> QED BY <1>1, <2>1, ServeKeepsSync, PumpKeepsSync
<1>2. ASSUME NEW m \in Members, Dial(m) \/ PublishNext(m) \/ ReadFrame(m) \/ ReofferNext(m) \/ Disconnect(m)
      PROVE  SyncInv'
  BY <1>2, DialKeepsSync, PublishKeepsSync, ReadKeepsSync, ReofferKeepsSync, DisconnectKeepsSync
<1>3. ASSUME NEW m \in Members, DrainEmpty(m) \/ (\E kind \in Kinds : Observe(m, kind)) PROVE SyncInv'
  BY <1>3, DrainEffect, ObserveEffect, IdleKeepsSync
<1>4. CASE UNCHANGED vars
  BY <1>4, IdleKeepsSync DEF vars, relayVars, wireVars, clientVars
<1> QED BY <1>1, <1>2, <1>3, <1>4, CrashKeepsSync, StepCases

(* All that is known of a room without crashing producers. *)
RoomInv == TypeOK /\ LinksInv /\ NumberingInv /\ SyncInv

LEMMA RoomStep ==
    ASSUME StableProducers
    PROVE  /\ TeamInit => RoomInv
           /\ RoomInv /\ [Next]_teamVars => RoomInv'
<1>1. TeamInit => RoomInv
  BY TypeInit, LinksInit, NumberingInit, SyncInit DEF RoomInv
<1>2. ASSUME RoomInv, [Next]_teamVars PROVE RoomInv'
  <2>1. TypeOK /\ LinksInv /\ NumberingInv /\ SyncInv
    BY <1>2 DEF RoomInv
  <2>2. TypeOK'
    BY <1>2, <2>1, TypeStep
  <2>3. LinksInv' /\ NumberingInv' /\ SyncInv'
    BY <1>2, <2>1, <2>2, LinksStep, NumberingStep, SyncStep
  <2> QED BY <2>2, <2>3 DEF RoomInv
<1> QED BY <1>1, <1>2

(* Once a connection is registered, its member holds or is being sent all
   that the room's ledger holds: registration, Welcome, backlog and CaughtUp
   are one hold of the lock (relay.rs, serve_connection), and every later
   event goes out to every registered connection.                          *)
THEOREM NothingEverSlips ==
    ASSUME StableProducers
    PROVE  Spec => []NothingSlips
<1>1. TeamInit => RoomInv
  BY RoomStep
<1>2. RoomInv /\ [Next]_teamVars => RoomInv'
  BY RoomStep
<1>3. RoomInv => NothingSlips
  BY DEF RoomInv, SyncInv
<1> QED BY <1>1, <1>2, <1>3, PTL DEF Spec

(* No holder ever has a hole in a producer's numbers, whatever was lost or
   re-offered, so a tip says all there is to say (Ledger::accepts_relayed). *)
THEOREM LedgersHaveNoHoles ==
    ASSUME StableProducers
    PROVE  Spec => []NoHoles
<1>1. TeamInit => RoomInv
  BY RoomStep
<1>2. RoomInv /\ [Next]_teamVars => RoomInv'
  BY RoomStep
<1>3. RoomInv => NoHoles
  BY DEF RoomInv, SyncInv
<1> QED BY <1>1, <1>2, <1>3, PTL DEF Spec

-------------------------------------------------------------------------------
(* The room implements TeamLog.                                            *)

(* As many as their numbers say. *)
LEMMA Counted ==
    ASSUME NEW S, NEW n \in Nat,
           \A d \in S : d.seq \in 1 .. n,
           \A d, e \in S : d.seq = e.seq => d = e,
           \A s \in 1 .. n : \E d \in S : d.seq = s
    PROVE  Cardinality(S) = n
<1> DEFINE f == [s \in 1 .. n |-> CHOOSE d \in S : d.seq = s]
<1>1. \A s \in 1 .. n : f[s] \in S /\ f[s].seq = s
  OBVIOUS
<1>2. f \in [1 .. n -> S]
  BY <1>1
<1>3. \A d \in S : d.seq \in 1 .. n /\ f[d.seq] = d
  BY <1>1
<1> HIDE DEF f
<1>4. f \in Bijection(1 .. n, S)
  BY <1>1, <1>2, <1>3 DEF Bijection, Injection, Surjection, IsInjective
<1> QED BY <1>4, FS_CountingElements DEF ExistsBijection

LEMMA SameLog ==
    ASSUME \A p \in Producers : \A e : e.producer = p => (e \in replica'[p] <=> e \in replica[p])
    PROVE  Produced' = Produced
BY DEF Produced

(* A producer stamps the number after all it ever produced. *)
Made(p) == {d \in Produced : d.producer = p}

LEMMA StampIsNext ==
    ASSUME TypeOK, NumberingInv, StampsNext, NEW p \in Producers, conn[p] # 0
    PROVE  Cardinality(Made(p)) = nextSeq[p] - 1
<1> DEFINE S == Made(p)
<1>1. p \in Members /\ nextSeq[p] \in Nat \ {0} /\ replica[p] \in EnvelopeSets
  BY Basics, ProducersAssumption
<1>2. \A d : d \in S <=> d \in replica[p] /\ d.producer = p
  BY ProducedMember DEF Made
<1> HIDE DEF S
<1>3. \A d \in S : d.seq \in 1 .. nextSeq[p] - 1
  <2> SUFFICES ASSUME NEW d \in S PROVE d.seq \in 1 .. nextSeq[p] - 1
    OBVIOUS
  <2>1. d.seq < nextSeq[p]
    BY <1>2 DEF NumberingInv, Numbered
  <2>2. d.seq \in Nat \ {0}
    BY <1>1, <1>2, EnvelopeSeq DEF EnvelopeSets
  <2> QED BY <1>1, <2>1, <2>2
<1>4. \A d, e \in S : d.seq = e.seq => d = e
  BY <1>2 DEF NumberingInv, Numbered
<1>5. \A s \in 1 .. nextSeq[p] - 1 : \E d \in S : d.seq = s
  BY <1>2 DEF StampsNext
<1>6. nextSeq[p] - 1 \in Nat
  BY <1>1
<1> QED BY <1>3, <1>4, <1>5, <1>6, Counted DEF S

(* The abstract steps, of this room. *)
LEMMA LearnStep ==
    ASSUME TypeOK, NEW x \in Members \cup {0}, NEW S \in SUBSET Produced, Produced' = Produced,
           x = 0 => ledger' = ledger \cup S /\ UNCHANGED replica /\ Gapless(ledger'),
           x # 0 => /\ replica'[x] = replica[x] \cup S /\ Gapless(replica'[x])
                    /\ \A y \in Members : y # x => replica'[y] = replica[y]
                    /\ UNCHANGED ledger
    PROVE  Log!LogNext
<1>1. 0 \notin Members
  BY MembersAssumption
<1>2. Log!Learn(x, S)
  <2> DEFINE H == [y \in Members \cup {0} |-> IF y = 0 THEN ledger ELSE replica[y]]
             G == [y \in Members \cup {0} |-> IF y = 0 THEN ledger' ELSE replica'[y]]
  <2>1. \A y \in Members \cup {0} : G[y] = IF y = x THEN H[y] \cup S ELSE H[y]
    BY <1>1
  <2>2. G = [H EXCEPT ![x] = @ \cup S]
    BY <2>1
  <2>3. Gapless(G[x])
    BY <1>1
  <2> QED BY <2>2, <2>3 DEF Log!Learn, Log!Prefixes, Gapless
<1> QED BY <1>2 DEF Log!LogNext

LEMMA ProduceStep ==
    ASSUME TypeOK, NEW p \in Producers, NEW e, e \notin Produced, e.producer = p,
           e.seq = Cardinality(Made(p)) + 1,
           replica'[p] = replica[p] \cup {e}, Produced' = Produced \cup {e},
           \A y \in Members : y # p => replica'[y] = replica[y],
           UNCHANGED ledger
    PROVE  Log!LogNext
<1>1. p \in Members /\ 0 \notin Members
  BY MembersAssumption, ProducersAssumption
<1>2. Log!Produce(p, e)
  <2> DEFINE H == [y \in Members \cup {0} |-> IF y = 0 THEN ledger ELSE replica[y]]
             G == [y \in Members \cup {0} |-> IF y = 0 THEN ledger' ELSE replica'[y]]
  <2>1. \A y \in Members \cup {0} : G[y] = IF y = p THEN H[y] \cup {e} ELSE H[y]
    BY <1>1
  <2>2. G = [H EXCEPT ![p] = @ \cup {e}]
    BY <1>1, <2>1
  <2>3. Log!Cardinality(Made(p)) = Cardinality(Made(p))
    BY Zenon DEF Log!Cardinality, Cardinality
  <2> QED BY <2>2, <2>3, Zenon DEF Log!Produce, Made
<1>3. e \in Produced' \ Produced
  OBVIOUS
<1> QED BY <1>2, <1>3 DEF Log!LogNext

LEMMA ForgetStep ==
    ASSUME TypeOK, StableProducers, NEW m \in Crashable, Produced' = Produced,
           ledger' = IF m = Host THEN {} ELSE ledger,
           m \in Members => replica'[m] = {},
           \A y \in Members : y # m => replica'[y] = replica[y]
    PROVE  Log!LogNext
<1>1. 0 \notin Members
  BY MembersAssumption
<1> DEFINE Y == {x \in Members : x = m} \cup {x \in {0} : m = Host}
<1>2. Y \in SUBSET ((Members \cup {0}) \ Producers)
  BY <1>1, ProducersAssumption DEF StableProducers
<1>3. \A x \in Members : x \in Y <=> x = m
  BY <1>1
<1>4. 0 \in Y <=> m = Host
  BY <1>1
<1> HIDE DEF Y
<1>5. Log!Forget(Y)
  <2> DEFINE H == [y \in Members \cup {0} |-> IF y = 0 THEN ledger ELSE replica[y]]
             G == [y \in Members \cup {0} |-> IF y = 0 THEN ledger' ELSE replica'[y]]
  <2>1. \A y \in Members \cup {0} : G[y] = IF y \in Y THEN {} ELSE H[y]
    BY <1>1, <1>3, <1>4
  <2>2. G = [y \in Members \cup {0} |-> IF y \in Y THEN {} ELSE H[y]]
    BY <2>1
  <2> QED BY <2>2 DEF Log!Forget
<1> QED BY <1>2, <1>5 DEF Log!LogNext

LEMMA LogStutters ==
    ASSUME UNCHANGED <<ledger, replica>>
    PROVE  UNCHANGED Log!logVars
BY DEF Log!logVars, Produced

LEMMA LogInits == TeamInit => Log!LogInit
<1> SUFFICES ASSUME TeamInit PROVE Log!LogInit
  OBVIOUS
<1>1. ledger = {} /\ \A m \in Members : replica[m] = {}
  BY DEF TeamInit, Init
<1>2. Produced = {}
  BY <1>1, ProducersAssumption DEF Produced
<1> QED BY <1>1, <1>2, MembersAssumption DEF Log!LogInit

(* Every step of the room is a step of TeamLog, or leaves it as it is. *)
LEMMA LogStep ==
    ASSUME StableProducers, RoomInv, RoomInv', [Next]_teamVars
    PROVE  [Log!LogNext]_(Log!logVars)
<1>a. /\ TypeOK /\ LinksInv /\ NumberingInv /\ SyncInv
      /\ NoHoles /\ NoHoles' /\ StampsNext
  BY DEF RoomInv, SyncInv
<1> DEFINE Goal == Log!LogNext \/ UNCHANGED <<ledger, replica>>
<1>1. ASSUME NEW c \in open, PumpEnvelope(c) PROVE Goal
  <2> DEFINE f == Head(up[c])
             e == f.envelope
             g == FanoutFrame(e, f.type = "Publish")
  <2>1. /\ UNCHANGED replica /\ up[c] # <<>>
        /\ \/ Ended(c)
           \/ Carried(f) = {e} /\ (Dropped(c, e) \/ Taken(c, e, g))
    BY <1>1, <1>a, PumpEffect
  <2>2. InTransit(up[c]) = Carried(f) \cup InTransit(Tail(up[c])) /\ c \in DOMAIN dialled
    BY <1>a, <2>1, Basics, InTransitTail
  <2> HIDE DEF f, e, g
  <2>3. CASE Carried(f) = {e} /\ Taken(c, e, g)
    <3>1. {e} \in SUBSET Produced
      BY <1>a, <2>2, <2>3 DEF NumberingInv, Authentic
    <3>2. Produced' = Produced
      BY <2>1 DEF Produced
    <3>3. ledger' = ledger \cup {e} /\ Gapless(ledger')
      BY <1>a, <2>3 DEF Taken, NoHoles, Gapless
    <3> QED BY <1>a, <2>1, <3>1, <3>2, <3>3, LearnStep
  <2> QED BY <2>1, <2>3 DEF Ended, Dropped
<1>2. ASSUME NEW m \in Members, PublishNext(m) PROVE Goal
  <2> DEFINE e == [producer |-> m, seq |-> nextSeq[m], body |-> Head(queue[m])]
  <2>1. /\ m \in Producers /\ conn[m] # 0
        /\ \/ UNCHANGED <<nextSeq, replica, up>>
           \/ replica'[m] = replica[m] \cup {e} /\ e \notin Produced
    BY <1>2, <1>a, PublishKeeps
  <2>2. e.producer = m /\ e.seq = nextSeq[m] /\ nextSeq[m] \in Nat
    BY <1>a, Basics
  <2>3. UNCHANGED ledger /\ \A x \in Members : x # m => replica'[x] = replica[x]
    BY <1>2, <1>a, PublishEffect
  <2> HIDE DEF e
  <2>4. CASE replica'[m] = replica[m] \cup {e} /\ e \notin Produced
    <3>1. \A d : d \in Produced' <=> d.producer \in Producers /\ d \in replica'[d.producer]
      BY DEF Produced
    <3>2. Produced' = Produced \cup {e}
      <4>1. ASSUME NEW d PROVE d \in Produced' <=> d \in Produced \/ d = e
        <5>1. CASE d.producer = m
          BY <2>1, <2>2, <2>4, <3>1, <5>1, ProducedMember
        <5>2. CASE d.producer # m
          BY <2>2, <2>3, <3>1, <5>2, ProducedMember, ProducersAssumption
        <5> QED BY <5>1, <5>2
      <4> QED BY <4>1
    <3>3. e.seq = Cardinality(Made(m)) + 1
      BY <1>a, <2>1, <2>2, StampIsNext
    <3> QED BY <1>a, <2>1, <2>2, <2>3, <2>4, <3>2, <3>3, ProduceStep
  <2> QED BY <2>1, <2>3, <2>4
<1>3. ASSUME NEW m \in Members, ReadFrame(m) PROVE Goal
  <2> DEFINE f == Head(down[conn[m]])
  <2>1. replica'[m] = replica[m] \cup Carried(f) /\ Carried(f) \subseteq Produced
    BY <1>3, <1>a, ReadLearns
  <2>2. UNCHANGED ledger /\ \A x \in Members : x # m => replica'[x] = replica[x]
    BY <1>3, <1>a, ReadEffect
  <2> HIDE DEF f
  <2>3. Produced' = Produced
    <3>1. ASSUME NEW p \in Producers, NEW e, e.producer = p
          PROVE  e \in replica'[p] <=> e \in replica[p]
      BY <2>1, <2>2, <3>1, ProducedMember, ProducersAssumption
    <3> QED BY <3>1, SameLog
  <2>4. Gapless(replica'[m]) /\ m # 0
    BY <1>a, MembersAssumption DEF NoHoles, Gapless
  <2> QED BY <1>a, <2>1, <2>2, <2>3, <2>4, LearnStep
<1>4. ASSUME NEW m \in Crashable, Crash(m) PROVE Goal
  <2>1. PICK cut \in SUBSET Nat : CrashCuts(m, cut)
    BY <1>4, <1>a, CrashEffect
  <2>2. /\ ledger' = IF m = Host THEN {} ELSE ledger
        /\ m \in Members => replica'[m] = {}
        /\ \A y \in Members : y # m => replica'[y] = replica[y]
    BY <2>1 DEF CrashCuts
  <2>3. Produced' = Produced
    BY <2>2, SameLog, ProducersAssumption DEF StableProducers
  <2> QED BY <1>a, <2>2, <2>3, ForgetStep
<1>5. ASSUME NEW c \in open, ServeHello(c) \/ Hangup(c) PROVE Goal
  BY <1>5, <1>a, ServeEffect, HangupEffect DEF Ended
<1>6. ASSUME NEW m \in Members, \/ Dial(m) \/ DrainEmpty(m) \/ ReofferNext(m) \/ Disconnect(m)
                                \/ \E kind \in Kinds : Observe(m, kind)
      PROVE  Goal
  BY <1>6, <1>a, DialEffect, DrainEffect, ReofferEffect, DisconnectEffect, ObserveEffect
<1>7. ASSUME UNCHANGED vars PROVE Goal
  BY <1>7 DEF vars, relayVars, clientVars
<1> HIDE DEF Goal
<1>8. Goal
  BY <1>a, <1>1, <1>2, <1>3, <1>4, <1>5, <1>6, <1>7, StepCases
<1> QED BY <1>8, LogStutters DEF Goal

(* The room implements the abstract log: producers append to their own logs,
   the relay and the members learn parts of them without holes, and only a
   crash makes them forget (sync/mod.rs: "every party keeps the same
   append-only Ledger").                                                   *)
THEOREM RoomImplementsLog ==
    ASSUME StableProducers
    PROVE  Spec => ImplementsLog
<1>1. TeamInit => RoomInv
  BY RoomStep
<1>2. RoomInv /\ [Next]_teamVars => RoomInv'
  BY RoomStep
<1>3. RoomInv /\ RoomInv' /\ [Next]_teamVars => [Log!LogNext]_(Log!logVars)
  BY LogStep
<1>4. TeamInit => Log!LogInit
  BY LogInits
<1> QED BY <1>1, <1>2, <1>3, <1>4, PTL DEF Spec, ImplementsLog, Log!LogSpec

-------------------------------------------------------------------------------
(* A relay whose budget is not used up takes in all it is offered.         *)

LEMMA BudgetInit == TeamInit => WithinBudget
BY ProducersAssumption DEF TeamInit, Init, WithinBudget

LEMMA NextWithinBudget ==
    ASSUME TypeOK, WithinBudget, NEW p \in Producers
    PROVE  NextSeq(replica[p], p) \in Nat \ {0} /\ NextSeq(replica[p], p) - 1 + Len(queue[p]) <= observed[p]
<1>0. p \in Members /\ observed[p] \in Nat /\ Len(queue[p]) \in Nat
  BY Basics, ProducersAssumption
<1>1. IsFiniteSet(replica[p]) /\ \A e \in replica[p] : e.seq \in Nat \ {0}
  BY <1>0, Basics, EnvelopeSeq DEF EnvelopeSets
<1>2. CASE p \in ProducersIn(replica[p])
  <2>1. Seqs(replica[p], p) # {}
    BY <1>2 DEF ProducersIn, Seqs
  <2>2. LastSeq(replica[p], p) \in Seqs(replica[p], p)
    BY <1>1, <2>1, LastSeqIsMax
  <2>3. PICK e \in replica[p] : e.producer = p /\ e.seq = LastSeq(replica[p], p)
    BY <2>2 DEF Seqs
  <2>4. NextSeq(replica[p], p) = e.seq + 1 /\ e.seq \in Nat
    BY <1>1, <1>2, <2>3 DEF NextSeq
  <2>5. e.seq + Len(queue[p]) <= observed[p]
    BY <2>3 DEF WithinBudget
  <2> QED BY <1>0, <2>4, <2>5
<1>3. CASE p \notin ProducersIn(replica[p])
  BY <1>0, <1>3 DEF NextSeq, WithinBudget
<1> QED BY <1>2, <1>3

LEMMA BudgetStep ==
    ASSUME StableProducers, TypeOK, TypeOK', LinksInv, NumberingInv, SyncInv, WithinBudget,
           [Next]_teamVars
    PROVE  WithinBudget'
<1>0. \A p \in Producers : /\ p \in Members /\ nextSeq[p] \in Nat \ {0} /\ observed[p] \in Nat
                           /\ queue[p] \in Seq(Bodies) /\ Len(queue[p]) \in Nat
                           /\ \A e \in replica[p] : e.seq \in Nat
  BY Basics, ProducersAssumption, EnvelopeSeq DEF EnvelopeSets
<1>1. ASSUME UNCHANGED <<conn, replica, nextSeq, queue, observed>> PROVE WithinBudget'
  BY <1>1 DEF WithinBudget
<1>2. ASSUME NEW c \in open, ServeHello(c) \/ PumpEnvelope(c) \/ Hangup(c) PROVE WithinBudget'
  <2>1. UNCHANGED <<conn, replica, nextSeq, queue, observed>>
    BY <1>2, ServeEffect, PumpEffect, HangupEffect
  <2> QED BY <1>1, <2>1
<1>3. ASSUME NEW m \in Members, DrainEmpty(m) \/ ReofferNext(m) PROVE WithinBudget'
  <2>1. UNCHANGED <<conn, replica, nextSeq, queue, observed>>
    BY <1>3, DrainEffect, ReofferEffect
  <2> QED BY <1>1, <2>1
<1>4. ASSUME NEW m \in Members, Dial(m) PROVE WithinBudget'
  <2>1. /\ \A x \in Members : x # m => conn'[x] = conn[x] /\ nextSeq'[x] = nextSeq[x]
        /\ nextSeq'[m] = NextSeq(replica[m], m) /\ UNCHANGED <<replica, queue, observed>>
    BY <1>4, DialEffect
  <2> QED BY <1>0, <2>1, NextWithinBudget DEF WithinBudget
<1>5. ASSUME NEW m \in Members, PublishNext(m) PROVE WithinBudget'
  <2> DEFINE e == [producer |-> m, seq |-> nextSeq[m], body |-> Head(queue[m])]
  <2>1. /\ queue[m] # <<>> /\ queue'[m] = Tail(queue[m])
        /\ \A x \in Members : x # m => /\ queue'[x] = queue[x] /\ nextSeq'[x] = nextSeq[x]
                                       /\ replica'[x] = replica[x]
        /\ UNCHANGED <<conn, observed>>
    BY <1>5, PublishEffect
  <2>2. /\ m \in Producers /\ conn[m] # 0
        /\ \/ UNCHANGED <<nextSeq, replica, up>>
           \/ nextSeq'[m] = nextSeq[m] + 1 /\ replica'[m] = replica[m] \cup {e}
    BY <1>5, PublishKeeps
  <2>3. Len(queue'[m]) + 1 = Len(queue[m]) /\ Len(queue'[m]) \in Nat
    <3>1. queue[m] \in Seq(Bodies)
      BY <1>0, <2>2
    <3> QED BY <2>1, <3>1, TailShape
  <2>4. e.seq = nextSeq[m]
    OBVIOUS
  <2> HIDE DEF e
  <2>5. /\ Len(queue'[m]) <= observed[m]
        /\ nextSeq'[m] - 1 + Len(queue'[m]) <= observed[m]
        /\ \A d \in replica'[m] : d.producer = m => d.seq + Len(queue'[m]) <= observed[m]
    <3>1. /\ nextSeq[m] - 1 + Len(queue[m]) <= observed[m]
          /\ \A d \in replica[m] : d.producer = m => d.seq + Len(queue[m]) <= observed[m]
      BY <2>2 DEF WithinBudget
    <3>0. /\ Len(queue[m]) \in Nat /\ Len(queue'[m]) \in Nat /\ observed[m] \in Nat
          /\ nextSeq[m] \in Nat /\ nextSeq'[m] \in {nextSeq[m], nextSeq[m] + 1}
      BY <1>0, <2>2, <2>3
    <3>2. ASSUME NEW d \in replica'[m], d.producer = m PROVE d.seq + Len(queue'[m]) <= observed[m]
      <4>1. CASE d \in replica[m]
        <5>1. d.seq + Len(queue[m]) <= observed[m] /\ d.seq \in Nat
          BY <1>0, <2>2, <3>1, <3>2, <4>1
        <5> QED BY <2>3, <3>0, <5>1
      <4>2. ASSUME d = e, replica'[m] # replica[m] PROVE d.seq + Len(queue'[m]) <= observed[m]
        <5>1. d.seq = nextSeq[m]
          BY <2>4, <4>2
        <5> HIDE DEF e
        <5> QED BY <2>3, <3>0, <3>1, <5>1
      <4> QED BY <2>2, <3>2, <4>1, <4>2
    <3>3. Len(queue'[m]) <= observed[m]
      <4>1. Len(queue[m]) <= observed[m]
        BY <2>2 DEF WithinBudget
      <4> QED BY <2>3, <3>0, <4>1
    <3>4. nextSeq'[m] - 1 + Len(queue'[m]) <= observed[m]
      BY <2>3, <3>0, <3>1
    <3> QED BY <3>2, <3>3, <3>4
  <2>6. ASSUME NEW p \in Producers, p # m
        PROVE  p \in Members /\ queue'[p] = queue[p] /\ nextSeq'[p] = nextSeq[p] /\ replica'[p] = replica[p]
    BY <1>0, <2>1, <2>6
  <2> QED BY <2>1, <2>5, <2>6 DEF WithinBudget
<1>6. ASSUME NEW m \in Members, ReadFrame(m) PROVE WithinBudget'
  <2> DEFINE f == Head(down[conn[m]])
  <2>1. /\ \A x \in Members : x # m => replica'[x] = replica[x] /\ nextSeq'[x] = nextSeq[x]
        /\ UNCHANGED <<conn, queue, observed>>
    BY <1>6, ReadEffect
  <2>2. replica'[m] = replica[m] \cup Carried(f) /\ Carried(f) \subseteq Produced
    BY <1>6, ReadLearns
  <2> HIDE DEF f
  <2>3. \A p \in Producers : \A e \in replica'[p] : e.producer = p => e \in replica[p]
    BY <1>0, <2>1, <2>2, ProducedMember
  <2>4. (\A p \in Producers : \A e \in replica'[p] : e.producer = p => e.seq + Len(queue'[p]) <= observed'[p])
    BY <2>1, <2>3 DEF WithinBudget
  <2>5. ASSUME NEW p \in Producers, conn[p] # 0
        PROVE  nextSeq'[p] - 1 + Len(queue[p]) <= observed[p]
    <3>1. CASE nextSeq'[p] = nextSeq[p]
      BY <2>5, <3>1 DEF WithinBudget
    <3>2. CASE p = m /\ nextSeq'[p] = NextSeq(replica'[p], p)
      <4>1. IsFiniteSet(replica'[p]) /\ \A e \in replica'[p] : e.seq \in Nat \ {0}
        BY <1>0, EnvelopeSeq DEF TypeOK, EnvelopeSets
      <4>2. CASE p \in ProducersIn(replica'[p])
        <5>1. Seqs(replica'[p], p) # {}
          BY <4>2 DEF ProducersIn, Seqs
        <5>2. LastSeq(replica'[p], p) \in Seqs(replica'[p], p)
          BY <4>1, <5>1, LastSeqIsMax
        <5>3. PICK e \in replica'[p] : e.producer = p /\ e.seq = LastSeq(replica'[p], p)
          BY <5>2 DEF Seqs
        <5>4. nextSeq'[p] = e.seq + 1 /\ e.seq \in Nat
          BY <3>2, <4>1, <4>2, <5>3 DEF NextSeq
        <5>5. e.seq + Len(queue[p]) <= observed[p]
          BY <2>1, <2>4, <5>3
        <5> QED BY <1>0, <5>4, <5>5
      <4>3. CASE p \notin ProducersIn(replica'[p])
        BY <1>0, <3>2, <4>3 DEF NextSeq, WithinBudget
      <4> QED BY <4>2, <4>3
    <3> QED BY <1>0, <1>6, <2>1, <3>1, <3>2, ReadNumbers
  <2> QED BY <2>1, <2>4, <2>5 DEF WithinBudget
<1>7. ASSUME NEW m \in Members, Disconnect(m) PROVE WithinBudget'
  <2>1. /\ conn'[m] = 0 /\ \A x \in Members : x # m => conn'[x] = conn[x]
        /\ UNCHANGED <<replica, nextSeq, queue, observed>>
    BY <1>7, DisconnectEffect
  <2> QED BY <1>0, <2>1 DEF WithinBudget
<1>8. ASSUME NEW m \in Members, NEW kind \in Kinds, Observe(m, kind) PROVE WithinBudget'
  <2>1. PICK b : queue'[m] = Append(queue[m], b)
    BY <1>8, ObserveEffect
  <2>2. /\ observed'[m] = observed[m] + 1 /\ m \in Producers
        /\ \A x \in Members : x # m => queue'[x] = queue[x] /\ observed'[x] = observed[x]
        /\ UNCHANGED <<conn, replica, nextSeq>>
    BY <1>8, ObserveEffect
  <2>3. Len(queue'[m]) = Len(queue[m]) + 1
    BY <1>0, <2>1, <2>2
  <2>4. \A p \in Producers : /\ p # m => queue'[p] = queue[p] /\ observed'[p] = observed[p]
                             /\ replica'[p] = replica[p] /\ conn'[p] = conn[p] /\ nextSeq'[p] = nextSeq[p]
    BY <1>0, <2>2
  <2>5. ASSUME NEW p \in Producers, NEW n \in Nat, n + Len(queue[p]) <= observed[p]
        PROVE  n + Len(queue'[p]) <= observed'[p]
    <3>1. Len(queue[p]) \in Nat /\ observed[p] \in Nat
      BY <1>0
    <3>2. CASE p = m
      <4>1. observed'[p] = observed[p] + 1 /\ Len(queue'[p]) = Len(queue[p]) + 1
        BY <2>2, <2>3, <3>2
      <4> QED BY <2>5, <3>1, <4>1
    <3>3. CASE p # m
      BY <2>4, <2>5, <3>3
    <3> QED BY <3>2, <3>3
  <2>6. \A p \in Producers : Len(queue[p]) <= observed[p] => Len(queue'[p]) <= observed'[p]
    <3> SUFFICES ASSUME NEW p \in Producers, Len(queue[p]) <= observed[p]
                 PROVE  Len(queue'[p]) <= observed'[p]
      OBVIOUS
    <3>1. Len(queue[p]) \in Nat /\ observed[p] \in Nat
      BY <1>0
    <3>2. CASE p = m
      <4>1. observed'[p] = observed[p] + 1 /\ Len(queue'[p]) = Len(queue[p]) + 1
        BY <2>2, <2>3, <3>2
      <4> QED BY <3>1, <4>1
    <3>3. CASE p # m
      BY <2>4, <3>3
    <3> QED BY <3>2, <3>3
  <2>7. \A p \in Producers : nextSeq[p] - 1 \in Nat /\ \A e \in replica[p] : e.seq \in Nat
    BY <1>0
  <2>8. UNCHANGED <<conn, replica, nextSeq>>
    BY <2>2
  <2> QED BY <2>5, <2>6, <2>7, <2>8 DEF WithinBudget
<1>9. ASSUME NEW m \in Crashable, Crash(m) PROVE WithinBudget'
  <2>1. PICK cut \in SUBSET Nat : CrashCuts(m, cut)
    BY <1>9, CrashEffect
  <2>2. /\ UNCHANGED observed
        /\ \A p \in Producers : conn'[p] = conn[p] /\ replica'[p] = replica[p]
                                /\ nextSeq'[p] = nextSeq[p] /\ queue'[p] = queue[p]
    BY <1>0, <2>1 DEF CrashCuts, StableProducers
  <2> QED BY <2>2 DEF WithinBudget
<1>10. ASSUME UNCHANGED vars PROVE WithinBudget'
  BY <1>1, <1>10 DEF vars, clientVars, overlayVars
<1> QED BY <1>2, <1>3, <1>4, <1>5, <1>6, <1>7, <1>8, <1>9, <1>10, StepCases

(* What follows all the relay holds of its producer, within the budget, the
   relay takes, unless it has it.                                          *)
LEMMA RelayTakesNext ==
    ASSUME TypeOK, NumberingInv, WithinBudget, Gapless(ledger), MaxObserved <= MaxEventsPerProducer,
           NEW e \in Produced, e \in Envelopes, Supports(ledger \cup {e}, e)
    PROVE  e \in ledger \/ (AcceptsRelayed(ledger, e) /\ ~ Holds(ledger, e))
<1> DEFINE p == e.producer
           S == Seqs(ledger, p)
<1>1. e.seq \in Nat \ {0} /\ p \in Producers /\ e \in replica[p] /\ p \in Members
  BY EnvelopeSeq, ProducedMember
<1>2. ledger \subseteq Produced /\ IsFiniteSet(ledger) /\ \A d \in ledger : d.seq \in Nat \ {0}
  BY EnvelopeSeq DEF NumberingInv, Authentic, TypeOK, EnvelopeSets
<1>3. CASE Holds(ledger, e)
  <2>1. PICK d \in ledger : d.producer = e.producer /\ d.seq = e.seq
    BY <1>3 DEF Holds
  <2> QED BY <1>2, <2>1, NamesAreUnique
<1>4. ASSUME ~ Holds(ledger, e) PROVE AcceptsRelayed(ledger, e)
  <2>1. \A s \in 1 .. e.seq - 1 : s \in S
    <3> SUFFICES ASSUME NEW s \in 1 .. e.seq - 1 PROVE s \in S
      OBVIOUS
    <3>1. PICK d \in ledger \cup {e} : d.producer = p /\ d.seq = s
      BY DEF Supports
    <3>2. d \in ledger
      BY <1>1, <3>1
    <3> QED BY <3>1, <3>2 DEF Seqs
  <2>2. ASSUME NEW t \in S PROVE t \in 1 .. e.seq - 1
    <3>1. PICK d \in ledger : d.producer = p /\ d.seq = t
      BY DEF Seqs
    <3>2. t \in Nat \ {0} /\ t # e.seq
      BY <1>2, <1>4, <3>1 DEF Holds
    <3>3. ASSUME t > e.seq PROVE FALSE
      <4>1. e.seq \in 1 .. d.seq - 1
        BY <1>1, <3>1, <3>2, <3>3
      <4> QED BY <1>4, <3>1, <4>1 DEF Gapless, Holds
    <3> QED BY <1>1, <3>2, <3>3
  <2>3. S = 1 .. e.seq - 1
    BY <2>1, <2>2
  <2>4. CASE p \notin ProducersIn(ledger)
    <3>1. S = {}
      BY <2>4 DEF Seqs, ProducersIn
    <3>2. ~ (1 \in 1 .. e.seq - 1)
      BY <2>3, <3>1
    <3>3. e.seq = 1
      BY <1>1, <3>2
    <3> QED BY <2>4, <3>3 DEF AcceptsRelayed
  <2>5. CASE p \in ProducersIn(ledger)
    <3>1. S # {}
      BY <2>5 DEF Seqs, ProducersIn
    <3>2. LastSeq(ledger, p) \in S /\ \A t \in S : t <= LastSeq(ledger, p)
      BY <1>2, <3>1, LastSeqIsMax
    <3> HIDE DEF S
    <3>3. LastSeq(ledger, p) \in 1 .. e.seq - 1 /\ \A t \in 1 .. e.seq - 1 : t <= LastSeq(ledger, p)
      BY <2>3, <3>2
    <3>4. e.seq - 1 \in 1 .. e.seq - 1
      BY <1>1, <3>3
    <3>5. e.seq = LastSeq(ledger, p) + 1
      BY <1>1, <3>3, <3>4
    <3>6. Cardinality(S) < MaxEventsPerProducer
      <4>1. Cardinality(S) = e.seq - 1
        <5>1. e.seq - 1 \in Nat /\ 1 \in Int /\ e.seq - 1 \in Int /\ ~ (1 > e.seq - 1)
          BY <1>1, <3>4
        <5>2. Cardinality(1 .. e.seq - 1) = (e.seq - 1) - 1 + 1
          BY <5>1, FS_Interval
        <5> QED BY <2>3, <5>1, <5>2
      <4>2. e.seq + Len(queue[p]) <= observed[p]
        BY <1>1 DEF WithinBudget
      <4>3. observed[p] <= MaxObserved /\ observed[p] \in Nat /\ Len(queue[p]) \in Nat
        BY <1>1, BoundsAssumption DEF TypeOK
      <4> QED BY <1>1, <4>1, <4>2, <4>3, BoundsAssumption, BudgetAssumption
    <3> QED BY <1>1, <2>5, <3>5, <3>6 DEF AcceptsRelayed, S
  <2> QED BY <2>4, <2>5
<1> QED BY <1>3, <1>4

LEMMA OffersInit == TeamInit => OffersInv
<1> SUFFICES ASSUME TeamInit PROVE OffersInv
  OBVIOUS
<1>1. DOMAIN dialled = {} /\ open = {} /\ slots = {}
  BY DEF TeamInit, Init
<1> QED BY <1>1 DEF OffersInv, Offering, TipsAreTrue, RelayHolds, UpInOrder

(* A step that touches none of it. *)
LEMMA IdleKeepsOffers ==
    ASSUME OffersInv, UNCHANGED <<ledger, open, slots, dialled, up, down, conn, phase, replica, reoffer>>
    PROVE  OffersInv'
<1>1. Offering' /\ TipsAreTrue'
  BY DEF OffersInv, Offering, TipsAreTrue
<1>2. RelayHolds' /\ UpInOrder'
  BY DEF OffersInv, RelayHolds, UpInOrder
<1> QED BY <1>1, <1>2 DEF OffersInv

(* The answer to a Hello carries what the joiner lacked. *)
LEMMA ReplyCarries ==
    ASSUME TypeOK, NEW S \in EnvelopeSets
    PROVE  InTransit(Reply(S)) \subseteq S
<1> DEFINE C == Chunks(S)
           r == Reply(S)
<1>1. /\ DOMAIN r = 1 .. Len(C) + 2 /\ r[1] = Welcome(Tips(ledger)) /\ r[Len(C) + 2] = CaughtUp
      /\ \A i \in DOMAIN C : r[i + 1] = C[i]
      /\ C \in Seq(DownFrames)
  BY ReplyShape
<1>2. InTransit(C) \subseteq S
  BY ChunksCarry
<1>3. Carried(r[1]) = {} /\ Carried(r[Len(C) + 2]) = {}
  BY <1>1 DEF Welcome, CaughtUp, Carried
<1> HIDE DEF C, r
<1>4. ASSUME NEW i \in DOMAIN r, NEW e \in Carried(r[i]) PROVE e \in S
  <2>1. i - 1 \in DOMAIN C /\ (i - 1) + 1 = i
    BY <1>1, <1>3, <1>4
  <2>2. r[i] = C[i - 1]
    BY <1>1, <2>1
  <2> QED BY <1>2, <1>4, <2>1, <2>2 DEF InTransit
<1>5. InTransit(r) \subseteq S
  BY <1>4 DEF InTransit
<1> QED BY <1>5 DEF r

LEMMA ServeKeepsOffers ==
    ASSUME TypeOK, LinksInv, NumberingInv, OffersInv, NEW c \in open, ServeHello(c)
    PROVE  OffersInv'
<1>a. /\ Offering /\ TipsAreTrue /\ RelayHolds /\ UpInOrder
      /\ \A y \in Members : Handshake(y) /\ (conn[y] # 0 => dialled[conn[y]] = y)
  BY DEF OffersInv, LinksInv, Wired
<1>1. /\ c \in DOMAIN dialled /\ c \notin slots /\ up[c] # <<>> /\ Head(up[c]).type = "Hello"
      /\ slots' = slots \cup {c}
      /\ up'[c] = Tail(up[c])
      /\ \A d \in DOMAIN dialled : d # c => up'[d] = up[d] /\ down'[d] = down[d]
      /\ ~ Attended(c) => down'[c] = down[c]
      /\ UNCHANGED <<ledger, open, dialled, conn, phase, replica, reoffer>>
  BY ServeEffect, Basics
<1> DEFINE S == After(ledger, Head(up[c]).have)
<1>2. S \in EnvelopeSets /\ S \subseteq ledger
  BY FS_Subset DEF After, EnvelopeSets, TypeOK
<1>3. /\ open \subseteq DOMAIN dialled /\ slots \subseteq open /\ 0 \notin DOMAIN dialled
      /\ up[c] \in Seq(UpFrames)
      /\ \A y \in Members : conn[y] # 0 => conn[y] \in DOMAIN dialled
  BY <1>1, Basics
<1>4. ASSUME NEW y \in Members, conn[y] = c
      PROVE  /\ phase[y] = "joining"
             /\ down'[c] = Reply(S)
  <2>1. phase[y] = "joining" /\ down[c] = <<>> /\ c # 0
    BY <1>1, <1>3, <1>4, <1>a DEF Handshake
  <2>2. Attended(c)
    BY <1>4, <1>a, <2>1 DEF Attended
  <2>3. down'[c] = down[c] \o <<Welcome(Tips(ledger))>> \o Chunks(S) \o <<CaughtUp>>
    BY <2>2, ServeEffect
  <2>4. Reply(S) = <<>> \o <<Welcome(Tips(ledger))>> \o Chunks(S) \o <<CaughtUp>>
    BY <1>2, ReplyShape
  <2> HIDE DEF S
  <2> QED BY <2>1, <2>3, <2>4
<1> HIDE DEF S
<1>5. Offering'
  <2> SUFFICES ASSUME NEW y \in Members, conn[y] \in open, phase[y] \in {"welcomed", "caught_up"}
               PROVE  replica[y] \subseteq ledger \cup InTransit(up'[conn[y]]) \cup reoffer[y]
    BY <1>1 DEF Offering
  <2>1. conn[y] # c /\ conn[y] \in DOMAIN dialled
    BY <1>3, <1>4
  <2> QED BY <1>a, <1>1, <2>1 DEF Offering
<1>6. TipsAreTrue'
  <2> SUFFICES ASSUME NEW y \in Members, conn[y] \in slots', phase[y] = "joining",
                      NEW e \in replica[y], e.seq <= down'[conn[y]][1].have[e.producer]
               PROVE  e \in ledger
    BY <1>1 DEF TipsAreTrue
  <2>1. CASE conn[y] = c
    <3>1. down'[c][1] = Welcome(Tips(ledger))
      BY <1>2, <1>4, <2>1, ReplyShape
    <3>2. e.seq <= Tips(ledger)[e.producer]
      BY <2>1, <3>1 DEF Welcome
    <3>3. e \in Produced /\ e \in Envelopes /\ ledger \subseteq Produced /\ ledger \in EnvelopeSets
      BY Basics DEF NumberingInv, Authentic, EnvelopeSets
    <3> QED BY <3>2, <3>3, TipCovers
  <2>2. CASE conn[y] # c
    BY <1>a, <1>1, <1>3, <2>2 DEF TipsAreTrue
  <2> QED BY <2>1, <2>2
<1>7. RelayHolds'
  <2> SUFFICES ASSUME NEW d \in open PROVE InTransit(down'[d]) \subseteq ledger
    BY <1>1 DEF RelayHolds
  <2>1. CASE d = c /\ Attended(c)
    <3>1. conn[dialled[c]] = c /\ dialled[c] \in Members
      BY <1>1, <2>1, Basics DEF Attended
    <3>2. down'[c] = Reply(S)
      BY <1>4, <3>1
    <3>3. InTransit(Reply(S)) \subseteq S
      BY <1>2, ReplyCarries
    <3> QED BY <1>2, <2>1, <3>2, <3>3
  <2>2. CASE d # c \/ ~ Attended(c)
    BY <1>a, <1>1, <1>3, <2>2 DEF RelayHolds
  <2> QED BY <2>1, <2>2
<1>8. UpInOrder'
  <2> SUFFICES ASSUME NEW d \in DOMAIN dialled PROVE Chain(ledger, up'[d])
    BY <1>1 DEF UpInOrder
  <2>1. CASE d = c
    <3>1. Carried(Head(up[c])) = {}
      BY <1>1 DEF Carried
    <3>2. Chain(ledger \cup Carried(Head(up[c])), Tail(up[c]))
      BY <1>a, <1>1, <1>3, ChainHead DEF UpInOrder
    <3>3. ledger \cup Carried(Head(up[c])) = ledger
      BY <3>1
    <3> QED BY <1>1, <2>1, <3>2, <3>3
  <2>2. CASE d # c
    BY <1>a, <1>1, <2>2 DEF UpInOrder
  <2> QED BY <2>1, <2>2
<1> QED BY <1>5, <1>6, <1>7, <1>8 DEF OffersInv

(* The relay loses a connection with all that was on its way to it. *)
LEMMA EndedKeepsOffers ==
    ASSUME TypeOK, OffersInv, NEW c \in open, Ended(c),
           \A d \in DOMAIN dialled : d # c => up'[d] = up[d],
           UNCHANGED <<dialled, conn, phase, replica, reoffer>>
    PROVE  OffersInv'
<1>1. /\ open' = open \ {c} /\ slots' = slots \ {c} /\ up'[c] = <<>> /\ UNCHANGED <<ledger, down>>
      /\ open \subseteq DOMAIN dialled
  BY Basics DEF Ended
<1>2. Offering' /\ TipsAreTrue'
  BY <1>1 DEF OffersInv, Offering, TipsAreTrue
<1>3. RelayHolds' /\ UpInOrder'
  BY <1>1, ChainEmpty DEF OffersInv, RelayHolds, UpInOrder
<1> QED BY <1>2, <1>3 DEF OffersInv

(* The relay takes the event it reads, or has it. *)
LEMMA PumpKeepsOffers ==
    ASSUME TypeOK, LinksInv, NumberingInv, SyncInv, WithinBudget, OffersInv,
           MaxObserved <= MaxEventsPerProducer,
           NEW c \in open, PumpEnvelope(c)
    PROVE  OffersInv'
<1> DEFINE f == Head(up[c])
           e == f.envelope
           g == FanoutFrame(e, f.type = "Publish")
<1>a. /\ Offering /\ TipsAreTrue /\ RelayHolds /\ UpInOrder /\ NoHoles
      /\ \A y \in Members : Handshake(y) /\ (conn[y] # 0 => dialled[conn[y]] = y)
  BY DEF OffersInv, SyncInv, LinksInv, Wired
<1>1. /\ up[c] # <<>> /\ f \in UpFrames
      /\ \A d \in DOMAIN dialled : d # c => up'[d] = up[d]
      /\ UNCHANGED <<dialled, conn, phase, replica, reoffer>>
      /\ \/ Ended(c)
         \/ /\ e \in Envelopes /\ Carried(f) = {e}
            /\ g \in DownFrames /\ Carried(g) = {e}
            /\ Dropped(c, e) \/ Taken(c, e, g)
  BY PumpEffect
<1>2. /\ c \in DOMAIN dialled /\ up[c] \in Seq(UpFrames)
      /\ open \subseteq DOMAIN dialled /\ slots \subseteq open /\ 0 \notin DOMAIN dialled
      /\ \A d \in DOMAIN dialled : down[d] \in Seq(DownFrames)
      /\ InTransit(up[c]) = Carried(f) \cup InTransit(Tail(up[c]))
  BY <1>1, Basics, InTransitTail
<1>3. /\ \A x \in Carried(f) : Supports(ledger \cup Carried(f), x)
      /\ Chain(ledger \cup Carried(f), Tail(up[c]))
  BY <1>1, <1>2, <1>a, ChainHead DEF UpInOrder
<1> HIDE DEF f, e, g
<1>4. ASSUME e \in Envelopes, Carried(f) = {e}, g \in DownFrames, Carried(g) = {e},
             Dropped(c, e) \/ Taken(c, e, g)
      PROVE  OffersInv'
  <2>1. e \in Produced /\ Supports(ledger \cup {e}, e)
    BY <1>2, <1>3, <1>4 DEF NumberingInv, Authentic
  <2>2. e \in ledger \/ (AcceptsRelayed(ledger, e) /\ ~ Holds(ledger, e))
    BY <1>a, <1>4, <2>1, RelayTakesNext DEF NoHoles
  <2>3. ledger' = ledger \cup {e}
    BY <1>4, <2>2 DEF Dropped, Taken
  <2>4. /\ up'[c] = Tail(up[c]) /\ UNCHANGED <<open, slots>>
        /\ \A d \in DOMAIN dialled : down'[d] = down[d] \/ down'[d] = Append(down[d], g)
    BY <1>4 DEF Dropped, Taken
  <2>5. Offering'
    <3> SUFFICES ASSUME NEW y \in Members, conn[y] \in open, phase[y] \in {"welcomed", "caught_up"}
                 PROVE  replica[y] \subseteq ledger' \cup InTransit(up'[conn[y]]) \cup reoffer[y]
      BY <1>1, <2>4 DEF Offering
    <3>1. replica[y] \subseteq ledger \cup InTransit(up[conn[y]]) \cup reoffer[y]
      BY <1>a DEF Offering
    <3>2. InTransit(up[conn[y]]) \subseteq {e} \cup InTransit(up'[conn[y]])
      BY <1>1, <1>2, <1>4, <2>4
    <3> QED BY <2>3, <3>1, <3>2
  <2>6. TipsAreTrue'
    <3> SUFFICES ASSUME NEW y \in Members, conn[y] \in slots, phase[y] = "joining",
                        NEW d \in replica[y], d.seq <= down'[conn[y]][1].have[d.producer]
                 PROVE  d \in ledger'
      BY <1>1, <2>4 DEF TipsAreTrue
    <3>1. down[conn[y]] # <<>> /\ conn[y] \in DOMAIN dialled
      BY <1>2, <1>a DEF Handshake
    <3>2. Append(down[conn[y]], g)[1] = down[conn[y]][1]
      BY <1>2, <1>4, <3>1, AppendShape
    <3>3. down'[conn[y]][1] = down[conn[y]][1]
      BY <2>4, <3>1, <3>2
    <3> QED BY <1>a, <2>3, <3>3 DEF TipsAreTrue
  <2>7. RelayHolds'
    <3> SUFFICES ASSUME NEW d \in open PROVE InTransit(down'[d]) \subseteq ledger'
      BY <2>4 DEF RelayHolds
    <3>1. InTransit(down[d]) \subseteq ledger /\ d \in DOMAIN dialled
      BY <1>2, <1>a DEF RelayHolds
    <3>2. InTransit(Append(down[d], g)) = InTransit(down[d]) \cup {e}
      BY <1>2, <1>4, <3>1, InTransitAppend
    <3> QED BY <2>3, <2>4, <3>1, <3>2
  <2>8. UpInOrder'
    <3> SUFFICES ASSUME NEW d \in DOMAIN dialled PROVE Chain(ledger', up'[d])
      BY <1>1 DEF UpInOrder
    <3>1. CASE d = c
      BY <1>3, <1>4, <2>3, <2>4, <3>1
    <3>2. CASE d # c
      <4>1. Chain(ledger, up[d]) /\ up'[d] = up[d] /\ ledger \subseteq ledger'
        BY <1>1, <1>a, <2>3, <3>2 DEF UpInOrder
      <4> QED BY <4>1, ChainMore
    <3> QED BY <3>1, <3>2
  <2> QED BY <2>5, <2>6, <2>7, <2>8 DEF OffersInv
<1> QED BY <1>1, <1>4, EndedKeepsOffers

LEMMA DialKeepsOffers ==
    ASSUME TypeOK, LinksInv, OffersInv, NEW m \in Members, Dial(m)
    PROVE  OffersInv'
<1> DEFINE k == Len(dialled) + 1
           first == <<Hello(Tips(replica[m]))>>
<1>a. Offering /\ TipsAreTrue /\ RelayHolds /\ UpInOrder
  BY DEF OffersInv
<1>1. /\ k \notin DOMAIN dialled /\ k # 0
      /\ DOMAIN dialled' = DOMAIN dialled \cup {k}
      /\ \A c \in DOMAIN dialled : up'[c] = up[c] /\ down'[c] = down[c]
      /\ up'[k] = first /\ down'[k] = <<>> /\ open' = open \cup {k}
      /\ \A x \in Members : x # m => conn'[x] = conn[x] /\ phase'[x] = phase[x]
      /\ conn'[m] = k /\ phase'[m] = "joining"
      /\ UNCHANGED <<ledger, slots, replica, reoffer>>
  BY DialEffect
<1>2. Carried(Hello(Tips(replica[m]))) = {}
  BY DEF Hello, Carried
<1>3. Chain(ledger, first)
  BY <1>2, ChainOne
<1>4. /\ open \subseteq DOMAIN dialled /\ slots \subseteq open
      /\ \A x \in Members : conn[x] # 0 => conn[x] \in DOMAIN dialled
      /\ \A x \in Members : conn[x] \in Nat
  BY Basics
<1> HIDE DEF k, first
<1>5. Offering'
  <2> SUFFICES ASSUME NEW y \in Members, conn'[y] \in open', phase'[y] \in {"welcomed", "caught_up"}
               PROVE  replica[y] \subseteq ledger \cup InTransit(up'[conn'[y]]) \cup reoffer[y]
    BY <1>1 DEF Offering
  <2>1. y # m /\ conn'[y] = conn[y] /\ phase'[y] = phase[y]
    BY <1>1
  <2>2. conn[y] \in open
    <3>1. conn[y] \in DOMAIN dialled \/ conn[y] = 0
      BY <1>4
    <3> QED BY <1>1, <2>1, <3>1
  <2>3. up'[conn[y]] = up[conn[y]]
    BY <1>1, <1>4, <2>2
  <2> QED BY <1>a, <2>1, <2>2, <2>3 DEF Offering
<1>6. TipsAreTrue'
  <2> SUFFICES ASSUME NEW y \in Members, conn'[y] \in slots, phase'[y] = "joining",
                      NEW e \in replica[y], e.seq <= down'[conn'[y]][1].have[e.producer]
               PROVE  e \in ledger
    BY <1>1 DEF TipsAreTrue
  <2>1. y # m /\ conn'[y] = conn[y] /\ phase'[y] = phase[y]
    BY <1>1, <1>4
  <2>2. down'[conn[y]] = down[conn[y]]
    BY <1>1, <1>4, <2>1
  <2> QED BY <1>a, <2>1, <2>2 DEF TipsAreTrue
<1>7. RelayHolds'
  BY <1>a, <1>1, <1>4, InTransitEmpty DEF RelayHolds
<1>8. UpInOrder'
  BY <1>a, <1>1, <1>3 DEF UpInOrder
<1> QED BY <1>5, <1>6, <1>7, <1>8 DEF OffersInv

(* A member sends what follows all it sent. *)
LEMMA SentInOrder ==
    ASSUME TypeOK, UpInOrder, NEW m \in Members, NEW f \in UpFrames, Send(m, f),
           conn[m] \in open =>
                \A e \in Carried(f) : Supports(ledger \cup InTransit(up[conn[m]]) \cup Carried(f), e),
           UNCHANGED <<dialled, ledger>>
    PROVE  UpInOrder'
<1> SUFFICES ASSUME NEW d \in DOMAIN dialled PROVE Chain(ledger, up'[d])
  BY DEF UpInOrder
<1>1. Chain(ledger, up[d]) /\ up[d] \in Seq(UpFrames)
  BY Basics DEF UpInOrder
<1>2. CASE d = conn[m] /\ conn[m] \in open
  <2>1. up'[d] = Append(up[d], f)
    BY <1>2, SendEffect
  <2>2. Chain(ledger, Append(up[d], f))
    BY <1>1, <1>2, ChainAppend
  <2> QED BY <2>1, <2>2
<1>3. CASE ~ (d = conn[m] /\ conn[m] \in open)
  BY <1>1, <1>3, SendEffect
<1> QED BY <1>2, <1>3

LEMMA PublishKeepsOffers ==
    ASSUME TypeOK, LinksInv, NumberingInv, SyncInv, OffersInv, NEW m \in Members, PublishNext(m)
    PROVE  OffersInv'
<1> DEFINE e == [producer |-> m, seq |-> nextSeq[m], body |-> Head(queue[m])]
<1>a. /\ Offering /\ TipsAreTrue /\ RelayHolds /\ UpInOrder /\ StampsNext
      /\ \A y \in Members : conn[y] # 0 => dialled[conn[y]] = y
  BY DEF OffersInv, SyncInv, LinksInv, Wired
<1>1. /\ phase[m] = "caught_up" /\ reoffer[m] = {}
      /\ \A x \in Members : x # m => replica'[x] = replica[x]
      /\ UNCHANGED <<ledger, open, slots, dialled, down, conn, phase, reoffer>>
  BY PublishEffect
<1>2. /\ m \in Producers /\ conn[m] # 0
      /\ \/ UNCHANGED <<nextSeq, replica, up>>
         \/ /\ replica'[m] = replica[m] \cup {e}
            /\ Publish(e) \in UpFrames /\ Carried(Publish(e)) = {e}
            /\ Send(m, Publish(e))
  BY PublishKeeps
<1>3. e.producer = m /\ e.seq = nextSeq[m] /\ nextSeq[m] \in Nat \ {0}
  BY Basics
<1>4. /\ open \subseteq DOMAIN dialled /\ slots \subseteq open /\ 0 \notin DOMAIN dialled
      /\ \A c \in DOMAIN dialled : up[c] \in Seq(UpFrames)
  BY Basics
<1> HIDE DEF e
<1>5. CASE UNCHANGED <<nextSeq, replica, up>>
  BY <1>1, <1>5, IdleKeepsOffers
<1>6. ASSUME replica'[m] = replica[m] \cup {e}, Publish(e) \in UpFrames, Carried(Publish(e)) = {e},
             Send(m, Publish(e))
      PROVE  OffersInv'
  <2>1. conn[m] \in open => replica[m] \subseteq ledger \cup InTransit(up[conn[m]])
    BY <1>a, <1>1 DEF Offering
  <2>2. conn[m] \in open => InTransit(up'[conn[m]]) = InTransit(up[conn[m]]) \cup {e}
    <3> SUFFICES ASSUME conn[m] \in open
                 PROVE  InTransit(up'[conn[m]]) = InTransit(up[conn[m]]) \cup {e}
      OBVIOUS
    <3>1. up'[conn[m]] = Append(up[conn[m]], Publish(e)) /\ up[conn[m]] \in Seq(UpFrames)
      BY <1>4, <1>6, SendEffect
    <3> QED BY <1>6, <3>1, InTransitAppend
  <2>3. Offering'
    <3> SUFFICES ASSUME NEW y \in Members, conn[y] \in open, phase[y] \in {"welcomed", "caught_up"}
                 PROVE  replica'[y] \subseteq ledger \cup InTransit(up'[conn[y]]) \cup reoffer[y]
      BY <1>1 DEF Offering
    <3>1. CASE y = m
      BY <1>6, <2>1, <2>2, <3>1
    <3>2. CASE y # m
      <4>1. conn[y] # conn[m] /\ conn[y] \in DOMAIN dialled
        BY <1>2, <1>4, <1>a, <3>2
      <4>2. up'[conn[y]] = up[conn[y]]
        BY <1>6, <4>1, SendEffect
      <4> QED BY <1>a, <1>1, <3>2, <4>2 DEF Offering
    <3> QED BY <3>1, <3>2
  <2>4. TipsAreTrue'
    BY <1>a, <1>1 DEF TipsAreTrue
  <2>5. RelayHolds'
    BY <1>a, <1>1 DEF RelayHolds
  <2>6. UpInOrder'
    <3>1. Supports(replica[m], e)
      BY <1>a, <1>2, <1>3 DEF StampsNext, Supports
    <3>2. conn[m] \in open => Supports(ledger \cup InTransit(up[conn[m]]) \cup {e}, e)
      BY <2>1, <3>1, SupportsMore
    <3> QED BY <1>a, <1>1, <1>6, <3>2, SentInOrder
  <2> QED BY <2>3, <2>4, <2>5, <2>6 DEF OffersInv
<1> QED BY <1>2, <1>5, <1>6

LEMMA ReofferKeepsOffers ==
    ASSUME TypeOK, LinksInv, SyncInv, OffersInv, NEW m \in Members, ReofferNext(m)
    PROVE  OffersInv'
<1>a. /\ Offering /\ TipsAreTrue /\ RelayHolds /\ UpInOrder /\ Offered /\ NoHoles
      /\ \A y \in Members : conn[y] # 0 => dialled[conn[y]] = y
      /\ \A y \in Members : Handshake(y) /\ (conn[y] = 0 => reoffer[y] = {})
  BY DEF OffersInv, SyncInv, LinksInv, Wired
<1>1. PICK e \in reoffer[m] : /\ \A d \in reoffer[m] \ {e} : Precedes(e, d)
                              /\ reoffer'[m] = reoffer[m] \ {e}
                              /\ e \in Envelopes /\ Recover(e) \in UpFrames /\ Carried(Recover(e)) = {e}
                              /\ Send(m, Recover(e))
  BY ReofferEffect
<1>2. /\ \A x \in Members : x # m => reoffer'[x] = reoffer[x]
      /\ UNCHANGED <<ledger, open, slots, dialled, down, conn, phase, replica>>
  BY ReofferEffect
<1>3. /\ open \subseteq DOMAIN dialled /\ slots \subseteq open /\ 0 \notin DOMAIN dialled
      /\ \A c \in DOMAIN dialled : up[c] \in Seq(UpFrames)
      /\ phase[m] \in Phases /\ replica[m] \in EnvelopeSets
  BY Basics
<1>4. conn[m] # 0 /\ phase[m] \in {"welcomed", "caught_up"}
  BY <1>a, <1>3 DEF Handshake, Phases
<1>5. conn[m] \in open => InTransit(up'[conn[m]]) = InTransit(up[conn[m]]) \cup {e}
  <2> SUFFICES ASSUME conn[m] \in open
               PROVE  InTransit(up'[conn[m]]) = InTransit(up[conn[m]]) \cup {e}
    OBVIOUS
  <2>1. up'[conn[m]] = Append(up[conn[m]], Recover(e)) /\ up[conn[m]] \in Seq(UpFrames)
    BY <1>1, <1>3, SendEffect
  <2> QED BY <1>1, <2>1, InTransitAppend
<1>6. Offering'
  <2> SUFFICES ASSUME NEW y \in Members, conn[y] \in open, phase[y] \in {"welcomed", "caught_up"}
               PROVE  replica[y] \subseteq ledger \cup InTransit(up'[conn[y]]) \cup reoffer'[y]
    BY <1>2 DEF Offering
  <2>0. replica[y] \subseteq ledger \cup InTransit(up[conn[y]]) \cup reoffer[y]
    BY <1>a DEF Offering
  <2>1. CASE y = m
    BY <1>1, <1>5, <2>0, <2>1
  <2>2. CASE y # m
    <3>1. conn[y] # conn[m] /\ conn[y] \in DOMAIN dialled
      BY <1>3, <1>4, <1>a, <2>2
    <3>2. up'[conn[y]] = up[conn[y]]
      BY <1>1, <3>1, SendEffect
    <3> QED BY <1>2, <2>0, <2>2, <3>2
  <2> QED BY <2>1, <2>2
<1>7. TipsAreTrue'
  BY <1>a, <1>2 DEF TipsAreTrue
<1>8. RelayHolds'
  BY <1>a, <1>2 DEF RelayHolds
<1>9. ASSUME conn[m] \in open PROVE Supports(ledger \cup InTransit(up[conn[m]]) \cup {e}, e)
  <2> SUFFICES ASSUME NEW s \in 1 .. e.seq - 1
               PROVE  \E d \in ledger \cup InTransit(up[conn[m]]) \cup {e} : d.producer = e.producer /\ d.seq = s
    BY DEF Supports
  <2>1. e \in replica[m] /\ e.seq \in Nat /\ e.producer \in Nat
    BY <1>a, <1>1, EnvelopeSeq, MembersAssumption DEF Offered
  <2>2. PICK d \in replica[m] : d.producer = e.producer /\ d.seq = s
    BY <1>a, <2>1 DEF NoHoles, Gapless
  <2>3. replica[m] \subseteq ledger \cup InTransit(up[conn[m]]) \cup reoffer[m]
    BY <1>a, <1>4, <1>9 DEF Offering
  <2>4. d \notin reoffer[m]
    <3> SUFFICES ASSUME d \in reoffer[m] PROVE FALSE
      OBVIOUS
    <3>1. d # e /\ s < e.seq /\ s \in Nat
      BY <2>1, <2>2
    <3>2. Precedes(e, d)
      BY <1>1, <3>1
    <3> QED BY <2>1, <2>2, <3>1, <3>2 DEF Precedes
  <2> QED BY <2>2, <2>3, <2>4
<1>10. UpInOrder'
  BY <1>a, <1>1, <1>2, <1>9, SentInOrder
<1> QED BY <1>6, <1>7, <1>8, <1>10 DEF OffersInv

(* What the Welcome says the relay lacks is re-offered; the rest it sends. *)
LEMMA ReadKeepsOffers ==
    ASSUME TypeOK, LinksInv, NumberingInv, OffersInv, NEW m \in Members, ReadFrame(m)
    PROVE  OffersInv'
<1> DEFINE c == conn[m]
           f == Head(down[c])
<1>a. /\ Offering /\ TipsAreTrue /\ RelayHolds /\ UpInOrder
      /\ \A y \in Members : conn[y] # 0 => dialled[conn[y]] = y
      /\ \A y \in Members : Handshake(y)
  BY DEF OffersInv, LinksInv, Wired
<1>1. /\ c \in DOMAIN dialled /\ c # 0 /\ down[c] # <<>> /\ reoffer[m] = {}
      /\ f \in DownFrames /\ f = down[c][1]
      /\ down'[c] = Tail(down[c]) /\ \A d \in DOMAIN dialled : d # c => down'[d] = down[d]
      /\ \A x \in Members : x # m =>
            phase'[x] = phase[x] /\ replica'[x] = replica[x] /\ reoffer'[x] = reoffer[x]
      /\ phase'[m] = IF f.type = "Welcome" THEN "welcomed"
                     ELSE IF f.type = "CaughtUp" /\ phase[m] = "welcomed" THEN "caught_up"
                     ELSE phase[m]
      /\ reoffer'[m] = IF f.type = "Welcome" THEN After(replica[m], f.have) ELSE {}
      /\ UNCHANGED <<ledger, open, slots, dialled, up, conn>>
  BY ReadEffect
<1>2. /\ replica'[m] = replica[m] \cup Carried(f)
      /\ InTransit(down[c]) = Carried(f) \cup InTransit(Tail(down[c]))
  BY ReadLearns
<1>3. /\ down[c] \in Seq(DownFrames) /\ open \subseteq DOMAIN dialled /\ slots \subseteq open
      /\ replica[m] \subseteq Envelopes /\ phase[m] \in Phases
      /\ \A y \in Members : conn[y] # 0 => conn[y] \in DOMAIN dialled
  BY <1>1, Basics DEF EnvelopeSets
<1>4. f.type = "Welcome" => phase[m] = "joining"
  <2>1. 1 \in DOMAIN down[c]
    BY <1>1, <1>3, TailShape
  <2> QED BY <1>1, <1>a, <2>1 DEF Handshake
<1>5. phase[m] = "joining" => (c \in open => c \in slots) /\ f.type = "Welcome"
  BY <1>1, <1>a DEF Handshake
<1>6. \A y \in Members : y # m => conn[y] # c \/ conn[y] = 0
  BY <1>1, <1>a
<1> HIDE DEF c, f
<1>7. Offering'
  <2> SUFFICES ASSUME NEW y \in Members, conn[y] \in open, phase'[y] \in {"welcomed", "caught_up"}
               PROVE  replica'[y] \subseteq ledger \cup InTransit(up[conn[y]]) \cup reoffer'[y]
    BY <1>1 DEF Offering
  <2>1. CASE y # m
    BY <1>1, <1>a, <2>1 DEF Offering
  <2>2. CASE y = m /\ f.type = "Welcome"
    <3>1. c \in slots /\ phase[m] = "joining"
      BY <1>4, <1>5, <2>2 DEF c
    <3>2. replica'[m] = replica[m]
      BY <1>2, <2>2 DEF Carried
    <3>3. ASSUME NEW e \in replica[m] PROVE e \in ledger \/ e \in After(replica[m], f.have)
      <4>1. e.seq \in Nat /\ e.producer \in Members
        BY <1>3, EnvelopeSeq
      <4>2. f.have[e.producer] \in Nat
        BY <1>1, <2>2, <4>1 DEF DownFrames, Haves
      <4>3. CASE e.seq <= f.have[e.producer]
        BY <1>1, <1>a, <3>1, <4>3 DEF TipsAreTrue, c
      <4>4. CASE e.seq > f.have[e.producer]
        BY <4>4 DEF After
      <4> QED BY <4>1, <4>2, <4>3, <4>4
    <3> QED BY <1>1, <2>2, <3>2, <3>3
  <2>3. CASE y = m /\ f.type # "Welcome"
    <3>1. phase[m] \in {"welcomed", "caught_up"}
      BY <1>1, <1>3, <2>3 DEF Phases
    <3>2. replica[m] \subseteq ledger \cup InTransit(up[conn[m]]) \cup reoffer[m]
      BY <1>a, <2>3, <3>1 DEF Offering
    <3>3. Carried(f) \subseteq ledger
      BY <1>2, <1>a, <2>3 DEF RelayHolds, c
    <3> QED BY <1>1, <1>2, <2>3, <3>2, <3>3
  <2> QED BY <2>1, <2>2, <2>3
<1>8. TipsAreTrue'
  <2> SUFFICES ASSUME NEW y \in Members, conn[y] \in slots, phase'[y] = "joining",
                      NEW e \in replica'[y], e.seq <= down'[conn[y]][1].have[e.producer]
               PROVE  e \in ledger
    BY <1>1 DEF TipsAreTrue
  <2>1. y # m
    BY <1>1, <1>5
  <2>2. conn[y] \in DOMAIN dialled /\ conn[y] # c
    BY <1>3, <1>6, <2>1, Basics
  <2> QED BY <1>1, <1>a, <2>1, <2>2 DEF TipsAreTrue
<1>9. RelayHolds'
  <2> SUFFICES ASSUME NEW d \in open PROVE InTransit(down'[d]) \subseteq ledger
    BY <1>1 DEF RelayHolds
  <2>1. InTransit(down[d]) \subseteq ledger
    BY <1>a DEF RelayHolds
  <2>2. CASE d = c
    BY <1>1, <1>2, <2>1, <2>2
  <2>3. CASE d # c
    BY <1>1, <1>3, <2>1, <2>3
  <2> QED BY <2>2, <2>3
<1>10. UpInOrder'
  BY <1>a, <1>1 DEF UpInOrder
<1> QED BY <1>7, <1>8, <1>9, <1>10 DEF OffersInv

LEMMA DisconnectKeepsOffers ==
    ASSUME TypeOK, LinksInv, OffersInv, NEW m \in Members, Disconnect(m)
    PROVE  OffersInv'
<1>a. /\ Offering /\ TipsAreTrue /\ RelayHolds /\ UpInOrder
      /\ \A x \in Members : conn[x] # 0 => dialled[conn[x]] = x
  BY DEF OffersInv, LinksInv, Wired
<1>1. /\ conn[m] # 0 /\ conn[m] \in DOMAIN dialled
      /\ down'[conn[m]] = <<>> /\ \A d \in DOMAIN dialled : d # conn[m] => down'[d] = down[d]
      /\ conn'[m] = 0 /\ phase'[m] = "offline"
      /\ \A x \in Members : x # m =>
            conn'[x] = conn[x] /\ phase'[x] = phase[x] /\ reoffer'[x] = reoffer[x]
      /\ UNCHANGED <<ledger, open, slots, dialled, up, replica>>
  BY DisconnectEffect
<1>2. open \subseteq DOMAIN dialled /\ slots \subseteq open /\ 0 \notin DOMAIN dialled
  BY Basics
<1>3. Offering'
  BY <1>a, <1>1, <1>2 DEF Offering
<1>4. TipsAreTrue'
  <2> SUFFICES ASSUME NEW y \in Members, conn'[y] \in slots, phase'[y] = "joining",
                      NEW e \in replica[y], e.seq <= down'[conn'[y]][1].have[e.producer]
               PROVE  e \in ledger
    BY <1>1 DEF TipsAreTrue
  <2>1. y # m /\ conn'[y] = conn[y] /\ phase'[y] = phase[y]
    BY <1>1
  <2>2. conn[y] # conn[m] /\ conn[y] \in DOMAIN dialled
    BY <1>1, <1>2, <1>a, <2>1
  <2>3. down'[conn[y]] = down[conn[y]]
    BY <1>1, <2>2
  <2> QED BY <1>a, <2>1, <2>3 DEF TipsAreTrue
<1>5. RelayHolds'
  BY <1>a, <1>1, <1>2, InTransitEmpty DEF RelayHolds
<1>6. UpInOrder'
  BY <1>a, <1>1 DEF UpInOrder
<1> QED BY <1>3, <1>4, <1>5, <1>6 DEF OffersInv

LEMMA CrashKeepsOffers ==
    ASSUME TypeOK, LinksInv, OffersInv, NEW m \in Crashable, Crash(m)
    PROVE  OffersInv'
<1>a. /\ Offering /\ TipsAreTrue /\ RelayHolds /\ UpInOrder
      /\ \A x \in Members : conn[x] # 0 => dialled[conn[x]] = x
  BY DEF OffersInv, LinksInv, Wired
<1>1. PICK cut \in SUBSET Nat : CrashCuts(m, cut)
  BY CrashEffect
<1>2. /\ m = Host => DOMAIN dialled \subseteq cut
      /\ open' = open \ cut /\ slots' = slots \ cut
      /\ \A c \in DOMAIN dialled : /\ up'[c] = IF c \in cut THEN <<>> ELSE up[c]
                                   /\ down'[c] = IF dialled[c] = m THEN <<>> ELSE down[c]
      /\ ledger' = IF m = Host THEN {} ELSE ledger
      /\ \A x \in Members : x # m =>
            /\ conn'[x] = conn[x] /\ phase'[x] = phase[x]
            /\ replica'[x] = replica[x] /\ reoffer'[x] = reoffer[x]
      /\ m \in Members => conn'[m] = 0
      /\ UNCHANGED dialled
  BY <1>1 DEF CrashCuts
<1>3. open \subseteq DOMAIN dialled /\ slots \subseteq open /\ 0 \notin DOMAIN dialled
  BY Basics
<1>4. m = Host => open' = {} /\ slots' = {}
  BY <1>2, <1>3
<1>5. ASSUME NEW y \in Members, conn'[y] \in open'
      PROVE  /\ m # Host /\ y # m /\ conn'[y] = conn[y] /\ conn[y] \in open
             /\ up'[conn[y]] = up[conn[y]] /\ down'[conn[y]] = down[conn[y]]
  <2>1. m # Host /\ y # m /\ conn'[y] = conn[y] /\ conn[y] \in open \ cut
    BY <1>2, <1>3, <1>4, <1>5
  <2>2. dialled[conn[y]] = y /\ conn[y] \in DOMAIN dialled
    BY <1>a, <1>3, <2>1
  <2> QED BY <1>2, <2>1, <2>2
<1>6. Offering'
  <2> SUFFICES ASSUME NEW y \in Members, conn'[y] \in open', phase'[y] \in {"welcomed", "caught_up"}
               PROVE  replica'[y] \subseteq ledger' \cup InTransit(up'[conn'[y]]) \cup reoffer'[y]
    BY DEF Offering
  <2> QED BY <1>a, <1>2, <1>5 DEF Offering
<1>7. TipsAreTrue'
  <2> SUFFICES ASSUME NEW y \in Members, conn'[y] \in slots', phase'[y] = "joining",
                      NEW e \in replica'[y], e.seq <= down'[conn'[y]][1].have[e.producer]
               PROVE  e \in ledger'
    BY DEF TipsAreTrue
  <2>1. conn'[y] \in open' /\ conn'[y] \in slots
    BY <1>2, <1>3
  <2> QED BY <1>a, <1>2, <1>5, <2>1 DEF TipsAreTrue
<1>8. RelayHolds'
  <2> SUFFICES ASSUME NEW d \in open' PROVE InTransit(down'[d]) \subseteq ledger'
    BY DEF RelayHolds
  <2>1. d \in open /\ d \in DOMAIN dialled /\ ledger' = ledger
    BY <1>2, <1>3, <1>4
  <2> QED BY <1>a, <1>2, <2>1, InTransitEmpty DEF RelayHolds
<1>9. UpInOrder'
  <2> SUFFICES ASSUME NEW d \in DOMAIN dialled PROVE Chain(ledger', up'[d])
    BY <1>2 DEF UpInOrder
  <2>1. CASE d \in cut
    BY <1>2, <2>1, ChainEmpty
  <2>2. CASE d \notin cut
    BY <1>a, <1>2, <2>2 DEF UpInOrder
  <2> QED BY <2>1, <2>2
<1> QED BY <1>6, <1>7, <1>8, <1>9 DEF OffersInv

LEMMA OffersStep ==
    ASSUME MaxObserved <= MaxEventsPerProducer,
           TypeOK, LinksInv, NumberingInv, SyncInv, WithinBudget, OffersInv, [Next]_teamVars
    PROVE  OffersInv'
<1>1. ASSUME NEW c \in open, ServeHello(c) \/ PumpEnvelope(c) \/ Hangup(c) PROVE OffersInv'
  BY <1>1, ServeKeepsOffers, PumpKeepsOffers, EndedKeepsOffers, HangupEffect
<1>2. ASSUME NEW m \in Members, Dial(m) \/ PublishNext(m) \/ ReadFrame(m) \/ ReofferNext(m) \/ Disconnect(m)
      PROVE  OffersInv'
  BY <1>2, DialKeepsOffers, PublishKeepsOffers, ReadKeepsOffers, ReofferKeepsOffers, DisconnectKeepsOffers
<1>3. ASSUME NEW m \in Members, DrainEmpty(m) \/ (\E kind \in Kinds : Observe(m, kind)) PROVE OffersInv'
  BY <1>3, DrainEffect, ObserveEffect, IdleKeepsOffers
<1>4. CASE UNCHANGED vars
  BY <1>4, IdleKeepsOffers DEF vars, relayVars, wireVars, clientVars
<1> QED BY <1>1, <1>2, <1>3, <1>4, CrashKeepsOffers, StepCases

(* While no producer's process crashes and the relay's budget is not used
   up, what a live member holds and the relay lacks is on its way up: the
   re-offer after a Welcome sends all that an earlier link lost, in an order
   in which the relay takes all of it (client.rs, replica.after(have)).    *)
THEOREM NothingIsStranded ==
    ASSUME StableProducers, MaxObserved <= MaxEventsPerProducer
    PROVE  Spec => []NothingStranded
<1> DEFINE Inv == RoomInv /\ WithinBudget /\ OffersInv
<1>1. TeamInit => Inv
  BY RoomStep, BudgetInit, OffersInit
<1>2. ASSUME Inv, [Next]_teamVars PROVE Inv'
  <2>1. RoomInv'
    BY <1>2, RoomStep
  <2>2. WithinBudget' /\ OffersInv'
    BY <1>2, <2>1, BudgetStep, OffersStep DEF RoomInv
  <2> QED BY <2>1, <2>2
<1>3. Inv => NothingStranded
  BY DEF OffersInv, Offering, NothingStranded
<1>4. Inv /\ [Next]_teamVars => Inv'
  BY <1>2
<1> QED BY <1>1, <1>3, <1>4, PTL DEF Spec

-------------------------------------------------------------------------------
(* No pit write is handed over live twice.                                 *)

(* The frames that are news, one per event. *)
IsNews(f) == f.type \in {"Publish", "Relayed"}

LEMMA NewsFrames ==
    /\ \A f, h \in UpFrames : IsNews(f) /\ IsNews(h) /\ f.envelope = h.envelope => f = h
    /\ \A f, h \in DownFrames : IsNews(f) /\ IsNews(h) /\ f.envelope = h.envelope => f = h
BY DEF IsNews, UpFrames, DownFrames

LEMMA NewsOfNone == News(<<>>) = {} /\ OneNews(<<>>)
BY DEF News, OneNews

LEMMA NewsTail ==
    ASSUME NEW F, NEW s \in Seq(F), s # <<>>, OneNews(s),
           \A f, h \in F : IsNews(f) /\ IsNews(h) /\ f.envelope = h.envelope => f = h
    PROVE  /\ News(Tail(s)) \subseteq News(s) /\ OneNews(Tail(s))
           /\ IsNews(Head(s)) => Head(s).envelope \in News(s) \ News(Tail(s))
<1>1. /\ Tail(s) \in Seq(F) /\ Head(s) = s[1] /\ 1 \in DOMAIN s
      /\ \A i \in DOMAIN Tail(s) : i + 1 \in DOMAIN s /\ Tail(s)[i] = s[i + 1] /\ i \in Nat \ {0}
      /\ \A i \in DOMAIN s : s[i] \in F
  BY TailShape
<1>2. News(Tail(s)) \subseteq News(s)
  BY <1>1 DEF News
<1>3. OneNews(Tail(s))
  <2> SUFFICES ASSUME NEW i \in DOMAIN Tail(s), NEW j \in DOMAIN Tail(s),
                      Tail(s)[i].type \in {"Publish", "Relayed"}, Tail(s)[j] = Tail(s)[i]
               PROVE  i = j
    BY DEF OneNews
  <2>1. i + 1 = j + 1
    BY <1>1 DEF OneNews
  <2> QED BY <1>1, <2>1
<1>4. ASSUME IsNews(Head(s)) PROVE Head(s).envelope \in News(s) \ News(Tail(s))
  <2>1. Head(s).envelope \in News(s)
    BY <1>1, <1>4 DEF News, IsNews
  <2>2. ASSUME NEW i \in DOMAIN Tail(s), IsNews(Tail(s)[i]), Tail(s)[i].envelope = Head(s).envelope
        PROVE  FALSE
    <3>1. Tail(s)[i] = Head(s)
      BY <1>1, <1>4, <2>2
    <3>2. s[i + 1] = s[1] /\ s[1].type \in {"Publish", "Relayed"}
      BY <1>1, <1>4, <3>1 DEF IsNews
    <3>3. i + 1 = 1
      BY <1>1, <3>2 DEF OneNews
    <3> QED BY <1>1, <3>3
  <2> QED BY <2>1, <2>2 DEF News, IsNews
<1> QED BY <1>2, <1>3, <1>4

LEMMA NewsAppend ==
    ASSUME NEW F, NEW s \in Seq(F), NEW f \in F, OneNews(s)
    PROVE  /\ IsNews(f) => News(Append(s, f)) = News(s) \cup {f.envelope}
           /\ ~ IsNews(f) => News(Append(s, f)) = News(s)
           /\ ~ IsNews(f) \/ f.envelope \notin News(s) => OneNews(Append(s, f))
<1> DEFINE t == Append(s, f)
           n == Len(s) + 1
<1>1. /\ \A i \in DOMAIN t : (i \in DOMAIN s /\ t[i] = s[i]) \/ (i = n /\ t[i] = f)
      /\ \A i \in DOMAIN s : i \in DOMAIN t /\ t[i] = s[i]
      /\ n \in DOMAIN t /\ t[n] = f
  BY AppendShape
<1> HIDE DEF t, n
<1>2. IsNews(f) => News(t) = News(s) \cup {f.envelope}
  BY <1>1 DEF News, IsNews
<1>3. ~ IsNews(f) => News(t) = News(s)
  BY <1>1 DEF News, IsNews
<1>4. ASSUME ~ IsNews(f) \/ f.envelope \notin News(s),
             NEW i \in DOMAIN t, NEW j \in DOMAIN t, IsNews(t[i]), t[j] = t[i]
      PROVE  i = j
  <2>1. CASE i \in DOMAIN s /\ j \in DOMAIN s
    BY <1>1, <1>4, <2>1 DEF OneNews, IsNews
  <2>2. ASSUME NEW h \in DOMAIN s, s[h] = f, IsNews(f) PROVE FALSE
    BY <1>4, <2>2 DEF News, IsNews
  <2> QED BY <1>1, <1>4, <2>1, <2>2
<1>5. ~ IsNews(f) \/ f.envelope \notin News(s) => OneNews(t)
  BY <1>4 DEF OneNews, IsNews
<1> QED BY <1>2, <1>3, <1>5 DEF t

LEMMA NewsCarried ==
    ASSUME NEW s
    PROVE  News(s) \subseteq InTransit(s)
<1> SUFFICES ASSUME NEW i \in DOMAIN s, s[i].type \in {"Publish", "Relayed"}
             PROVE  s[i].envelope \in InTransit(s)
  BY DEF News
<1>1. s[i].envelope \in Carried(s[i])
  BY DEF Carried
<1> QED BY <1>1 DEF InTransit

(* The answer to a Hello is no news. *)
LEMMA ReplyIsHistory ==
    ASSUME TypeOK, NEW S \in EnvelopeSets
    PROVE  News(Reply(S)) = {} /\ OneNews(Reply(S))
<1> DEFINE C == Chunks(S)
           r == Reply(S)
<1>1. /\ DOMAIN r = 1 .. Len(C) + 2 /\ r[1] = Welcome(Tips(ledger)) /\ r[Len(C) + 2] = CaughtUp
      /\ \A i \in DOMAIN C : r[i + 1] = C[i] /\ C[i].type = "Backlog"
      /\ C \in Seq(DownFrames)
  BY ReplyShape
<1>2. r[1].type = "Welcome" /\ r[Len(C) + 2].type = "CaughtUp"
  BY <1>1 DEF Welcome, CaughtUp
<1> HIDE DEF C, r
<1>3. ASSUME NEW i \in DOMAIN r PROVE r[i].type \notin {"Publish", "Relayed"}
  <2>1. CASE i = 1 \/ i = Len(C) + 2
    BY <1>2, <2>1
  <2>2. CASE i # 1 /\ i # Len(C) + 2
    <3>1. i - 1 \in DOMAIN C /\ (i - 1) + 1 = i
      BY <1>1, <2>2
    <3>2. r[i].type = "Backlog"
      BY <1>1, <3>1
    <3> QED BY <3>2
  <2> QED BY <2>1, <2>2
<1>4. News(r) = {} /\ OneNews(r)
  BY <1>3 DEF News, OneNews
<1> QED BY <1>4 DEF r

LEMMA NewsInit == TeamInit => NewsInv
<1> SUFFICES ASSUME TeamInit PROVE NewsInv
  OBVIOUS
<1>1. DOMAIN dialled = {} /\ \A m \in Members : conn[m] = 0 /\ live[m] = <<>>
  BY DEF TeamInit, Init
<1>2. \A m \in Members : Heard(m) = {}
  BY <1>1 DEF Heard
<1> QED BY <1>1, <1>2 DEF NewsInv, LiveAtMostOnce

(* A step that brings no news. *)
LEMMA NoNews ==
    ASSUME TypeOK, NewsInv,
           \A c \in DOMAIN dialled' :
                /\ OneNews(up'[c]) /\ OneNews(down'[c])
                /\ \/ News(up'[c]) = {} /\ News(down'[c]) = {}
                   \/ /\ c \in DOMAIN dialled
                      /\ News(up'[c]) \subseteq News(up[c]) /\ News(down'[c]) \subseteq News(down[c]),
           \A m \in Members : conn'[m] \in {0, conn[m]} \/ News(down'[conn'[m]]) = {},
           \A m \in Members : conn[m] # 0 => DOMAIN dialled \subseteq DOMAIN dialled',
           UNCHANGED live, Produced \subseteq Produced'
    PROVE  NewsInv'
<1>1. \A m \in Members : Heard(m)' = Heard(m)
  BY DEF Heard
<1>2. \A c \in DOMAIN dialled' : OneNews(up'[c]) /\ OneNews(down'[c])
  OBVIOUS
<1>3. \A c, d \in DOMAIN dialled' : c # d => News(up'[c]) \cap News(up'[d]) = {}
  BY DEF NewsInv
<1>4. \A c, d \in DOMAIN dialled' : News(up'[c]) \cap News(down'[d]) = {}
  BY DEF NewsInv
<1>5. \A c \in DOMAIN dialled', m \in Members : News(up'[c]) \cap Heard(m)' = {}
  BY <1>1 DEF NewsInv
<1>6. \A m \in Members : conn'[m] # 0 => News(down'[conn'[m]]) \cap Heard(m)' = {}
  <2> SUFFICES ASSUME NEW m \in Members, conn'[m] # 0, conn'[m] = conn[m]
               PROVE  News(down'[conn[m]]) \cap Heard(m) = {}
    BY <1>1
  <2>1. News(down[conn[m]]) \cap Heard(m) = {}
    BY DEF NewsInv
  <2>2. conn[m] \in DOMAIN dialled'
    BY Basics
  <2> QED BY <2>1, <2>2
<1>7. (\A m \in Members : Heard(m)' \subseteq Produced') /\ LiveAtMostOnce'
  BY <1>1 DEF NewsInv, LiveAtMostOnce
<1> QED BY <1>2, <1>3, <1>4, <1>5, <1>6, <1>7 DEF NewsInv

(* The event goes out to the others, and is on its way up no more. *)
LEMMA TakenKeepsNews ==
    ASSUME TypeOK, NewsInv, NEW c \in DOMAIN dialled, NEW e, NEW g \in DownFrames,
           up[c] # <<>>, IsNews(Head(up[c])), Head(up[c]).envelope = e, IsNews(g), g.envelope = e,
           up'[c] = Tail(up[c]), \A d \in DOMAIN dialled : d # c => up'[d] = up[d],
           \A d \in DOMAIN dialled : down'[d] = down[d] \/ down'[d] = Append(down[d], g),
           UNCHANGED <<dialled, conn, live>>, Produced \subseteq Produced'
    PROVE  NewsInv'
<1>1. /\ \A d \in DOMAIN dialled : up[d] \in Seq(UpFrames) /\ down[d] \in Seq(DownFrames)
      /\ \A m \in Members : conn[m] # 0 => conn[m] \in DOMAIN dialled
  BY Basics
<1>2. \A m \in Members : Heard(m)' = Heard(m)
  BY DEF Heard
<1>3. /\ News(up'[c]) \subseteq News(up[c]) /\ OneNews(up'[c])
      /\ e \in News(up[c]) /\ e \notin News(up'[c])
  <2>1. OneNews(up[c])
    BY DEF NewsInv
  <2> QED BY <1>1, <2>1, NewsTail, NewsFrames
<1>4. \A d \in DOMAIN dialled : News(up'[d]) \subseteq News(up[d]) /\ e \notin News(up'[d])
  <2> SUFFICES ASSUME NEW d \in DOMAIN dialled, d # c PROVE e \notin News(up[d])
    BY <1>3
  <2> QED BY <1>3 DEF NewsInv
<1>5. \A d \in DOMAIN dialled : News(down'[d]) \subseteq News(down[d]) \cup {e} /\ OneNews(down'[d])
  <2> SUFFICES ASSUME NEW d \in DOMAIN dialled
               PROVE  News(down'[d]) \subseteq News(down[d]) \cup {e} /\ OneNews(down'[d])
    OBVIOUS
  <2>1. OneNews(down[d]) /\ e \notin News(down[d])
    BY <1>3 DEF NewsInv
  <2>2. News(Append(down[d], g)) = News(down[d]) \cup {e} /\ OneNews(Append(down[d], g))
    BY <1>1, <2>1, NewsAppend
  <2> QED BY <2>1, <2>2
<1>6. \A m \in Members : e \notin Heard(m)
  BY <1>3 DEF NewsInv
<1>7. \A d \in DOMAIN dialled : OneNews(up'[d]) /\ OneNews(down'[d])
  BY <1>3, <1>5 DEF NewsInv
<1>8. \A b, d \in DOMAIN dialled : b # d => News(up'[b]) \cap News(up'[d]) = {}
  BY <1>4 DEF NewsInv
<1>9. \A b, d \in DOMAIN dialled : News(up'[b]) \cap News(down'[d]) = {}
  <2> SUFFICES ASSUME NEW b \in DOMAIN dialled, NEW d \in DOMAIN dialled
               PROVE  News(up'[b]) \cap News(down'[d]) = {}
    OBVIOUS
  <2>1. News(up[b]) \cap News(down[d]) = {}
    BY DEF NewsInv
  <2> QED BY <1>4, <1>5, <2>1
<1>10. \A b \in DOMAIN dialled, m \in Members : News(up'[b]) \cap Heard(m)' = {}
  <2> SUFFICES ASSUME NEW b \in DOMAIN dialled, NEW m \in Members
               PROVE  News(up'[b]) \cap Heard(m) = {}
    BY <1>2
  <2>1. News(up[b]) \cap Heard(m) = {}
    BY DEF NewsInv
  <2> QED BY <1>4, <2>1
<1>11. \A m \in Members : conn[m] # 0 => News(down'[conn[m]]) \cap Heard(m)' = {}
  <2> SUFFICES ASSUME NEW m \in Members, conn[m] # 0
               PROVE  News(down'[conn[m]]) \cap Heard(m) = {}
    BY <1>2
  <2>1. News(down[conn[m]]) \cap Heard(m) = {}
    BY DEF NewsInv
  <2> QED BY <1>1, <1>5, <1>6, <2>1
<1>12. (\A m \in Members : Heard(m)' \subseteq Produced') /\ LiveAtMostOnce'
  BY <1>2 DEF NewsInv, LiveAtMostOnce
<1> QED BY <1>7, <1>8, <1>9, <1>10, <1>11, <1>12 DEF NewsInv

(* A producer sends a new event. *)
LEMMA PublishKeepsNews ==
    ASSUME TypeOK, LinksInv, NumberingInv, NewsInv, NEW m \in Members, PublishNext(m)
    PROVE  NewsInv'
<1> DEFINE e == [producer |-> m, seq |-> nextSeq[m], body |-> Head(queue[m])]
           c == conn[m]
<1>1. /\ \A x \in Members : x # m => replica'[x] = replica[x]
      /\ UNCHANGED <<dialled, down, conn, live>>
  BY PublishEffect
<1>2. /\ m \in Producers /\ c # 0
      /\ \/ UNCHANGED <<nextSeq, replica, up>>
         \/ /\ replica'[m] = replica[m] \cup {e} /\ e \notin Produced
            /\ Publish(e) \in UpFrames /\ Send(m, Publish(e))
  BY PublishKeeps
<1>3. /\ \A d \in DOMAIN dialled : up[d] \in Seq(UpFrames) /\ down[d] \in Seq(DownFrames)
      /\ c \in DOMAIN dialled
  BY <1>2, Basics
<1>4. IsNews(Publish(e)) /\ Publish(e).envelope = e
  BY DEF Publish, IsNews
<1> HIDE DEF e, c
<1>5. Produced \subseteq Produced'
  <2>1. \A p \in Producers : replica[p] \subseteq replica'[p]
    BY <1>1, <1>2, ProducersAssumption
  <2> QED BY <2>1 DEF Produced
<1>6. \A x \in Members : Heard(x)' = Heard(x)
  BY <1>1 DEF Heard
<1>7. CASE UNCHANGED <<nextSeq, replica, up>>
  <2>1. \A d \in DOMAIN dialled' : /\ OneNews(up'[d]) /\ OneNews(down'[d])
                                   /\ d \in DOMAIN dialled
                                   /\ News(up'[d]) \subseteq News(up[d])
                                   /\ News(down'[d]) \subseteq News(down[d])
    BY <1>1, <1>7 DEF NewsInv
  <2>2. \A x \in Members : conn'[x] = conn[x]
    BY <1>1
  <2> QED BY <1>1, <1>5, <2>1, <2>2, NoNews
<1>8. ASSUME e \notin Produced, Publish(e) \in UpFrames, Send(m, Publish(e)) PROVE NewsInv'
  <2>1. \A d \in DOMAIN dialled : e \notin News(up[d]) /\ e \notin News(down[d])
    BY <1>8, NewsCarried DEF NumberingInv, Authentic
  <2>2. \A x \in Members : e \notin Heard(x)
    BY <1>8 DEF NewsInv
  <2>3. \A d \in DOMAIN dialled : d # c => up'[d] = up[d]
    BY <1>8, SendEffect DEF c
  <2>4. up'[c] = up[c] \/ up'[c] = Append(up[c], Publish(e))
    BY <1>3, <1>8, SendEffect DEF c
  <2>5. OneNews(up'[c]) /\ News(up'[c]) \subseteq News(up[c]) \cup {e}
    <3>1. OneNews(up[c]) /\ e \notin News(up[c])
      BY <1>3, <2>1 DEF NewsInv
    <3>2. News(Append(up[c], Publish(e))) = News(up[c]) \cup {e} /\ OneNews(Append(up[c], Publish(e)))
      BY <1>3, <1>4, <1>8, <3>1, NewsAppend
    <3> QED BY <2>4, <3>1, <3>2
  <2>6. \A d \in DOMAIN dialled : OneNews(up'[d]) /\ OneNews(down'[d])
    BY <1>1, <2>3, <2>5 DEF NewsInv
  <2>7. \A b, d \in DOMAIN dialled : b # d => News(up'[b]) \cap News(up'[d]) = {}
    <3> SUFFICES ASSUME NEW b \in DOMAIN dialled, NEW d \in DOMAIN dialled, b # d
                 PROVE  News(up'[b]) \cap News(up'[d]) = {}
      OBVIOUS
    <3>1. News(up[b]) \cap News(up[d]) = {}
      BY DEF NewsInv
    <3>2. e \notin News(up[b]) /\ e \notin News(up[d])
      BY <2>1
    <3> QED BY <2>3, <2>5, <3>1, <3>2
  <2>8. \A b, d \in DOMAIN dialled : News(up'[b]) \cap News(down'[d]) = {}
    <3> SUFFICES ASSUME NEW b \in DOMAIN dialled, NEW d \in DOMAIN dialled
                 PROVE  News(up'[b]) \cap News(down[d]) = {}
      BY <1>1
    <3>1. News(up[b]) \cap News(down[d]) = {} /\ e \notin News(down[d])
      BY <2>1 DEF NewsInv
    <3> QED BY <2>3, <2>5, <3>1
  <2>9. \A b \in DOMAIN dialled, x \in Members : News(up'[b]) \cap Heard(x)' = {}
    <3> SUFFICES ASSUME NEW b \in DOMAIN dialled, NEW x \in Members
                 PROVE  News(up'[b]) \cap Heard(x) = {}
      BY <1>6
    <3>1. News(up[b]) \cap Heard(x) = {} /\ e \notin Heard(x)
      BY <2>2 DEF NewsInv
    <3> QED BY <2>3, <2>5, <3>1
  <2>10. \A x \in Members : conn[x] # 0 => News(down'[conn[x]]) \cap Heard(x)' = {}
    BY <1>1, <1>6 DEF NewsInv
  <2>11. (\A x \in Members : Heard(x)' \subseteq Produced') /\ LiveAtMostOnce'
    BY <1>1, <1>5, <1>6 DEF NewsInv, LiveAtMostOnce
  <2> QED BY <1>1, <2>6, <2>7, <2>8, <2>9, <2>10, <2>11 DEF NewsInv
<1> QED BY <1>2, <1>7, <1>8

(* A frame is read; a pit write that is news is handed over. *)
LEMMA ReadKeepsNews ==
    ASSUME TypeOK, LinksInv, NumberingInv, NewsInv, NEW m \in Members, ReadFrame(m)
    PROVE  NewsInv'
<1> DEFINE c == conn[m]
           f == Head(down[c])
           e == f.envelope
<1>1. /\ c \in DOMAIN dialled /\ c # 0 /\ down[c] # <<>> /\ f \in DownFrames
      /\ down'[c] = Tail(down[c]) /\ \A d \in DOMAIN dialled : d # c => down'[d] = down[d]
      /\ \A x \in Members : x # m => replica'[x] = replica[x] /\ live'[x] = live[x]
      /\ live'[m] = IF f.type = "Relayed" /\ f.envelope.body.kind = "pit_write"
                    THEN Append(live[m], f.envelope) ELSE live[m]
      /\ UNCHANGED <<dialled, up, conn>>
  BY ReadEffect
<1>2. /\ \A d \in DOMAIN dialled : up[d] \in Seq(UpFrames) /\ down[d] \in Seq(DownFrames)
      /\ \A x \in Members : conn[x] # 0 => conn[x] \in DOMAIN dialled
      /\ live[m] \in Seq(Envelopes)
  BY Basics
<1>3. \A x \in Members : x # m => conn[x] # c
  BY <1>1 DEF LinksInv, Wired
<1>4. Produced \subseteq Produced'
  <2>1. replica'[m] = replica[m] \cup Carried(Head(down[conn[m]]))
    BY ReadLearns
  <2>2. \A p \in Producers : replica[p] \subseteq replica'[p]
    BY <1>1, <2>1, ProducersAssumption
  <2> QED BY <2>2 DEF Produced
<1>5. /\ News(down'[c]) \subseteq News(down[c]) /\ OneNews(down'[c])
      /\ IsNews(f) => e \in News(down[c]) \ News(down'[c])
  <2>1. OneNews(down[c]) /\ down[c] \in Seq(DownFrames)
    BY <1>1, <1>2 DEF NewsInv
  <2> HIDE DEF c
  <2> QED BY <1>1, <2>1, NewsTail, NewsFrames
<1> HIDE DEF c, f, e
<1>6. \A d \in DOMAIN dialled : News(down'[d]) \subseteq News(down[d])
  BY <1>1, <1>5
<1>7. CASE UNCHANGED live
  <2>1. \A d \in DOMAIN dialled : OneNews(up'[d]) /\ OneNews(down'[d])
    BY <1>1, <1>5 DEF NewsInv
  <2>2. DOMAIN dialled' = DOMAIN dialled /\ up' = up /\ conn' = conn
    BY <1>1
  <2> QED BY <1>4, <1>6, <1>7, <2>1, <2>2, NoNews
<1>8. ASSUME IsNews(f), live'[m] = Append(live[m], e) PROVE NewsInv'
  <2>1. e \in News(down[c]) /\ e \notin News(down'[c]) /\ e \in Produced
    <3>1. InTransit(down[c]) \subseteq Produced /\ News(down[c]) \subseteq InTransit(down[c])
      BY <1>1, NewsCarried DEF NumberingInv, Authentic
    <3> QED BY <1>5, <1>8, <3>1
  <2>2. e \in Envelopes
    BY <1>1, <1>8 DEF DownFrames, IsNews, e
  <2>3. Heard(m)' = Heard(m) \cup {e}
    <3>1. /\ \A i \in DOMAIN live'[m] : (i \in DOMAIN live[m] /\ live'[m][i] = live[m][i])
                                         \/ (i = Len(live[m]) + 1 /\ live'[m][i] = e)
          /\ \A i \in DOMAIN live[m] : i \in DOMAIN live'[m] /\ live'[m][i] = live[m][i]
          /\ Len(live[m]) + 1 \in DOMAIN live'[m] /\ live'[m][Len(live[m]) + 1] = e
      BY <1>2, <1>8, <2>2, AppendShape
    <3> QED BY <3>1 DEF Heard
  <2>4. \A x \in Members : x # m => Heard(x)' = Heard(x)
    BY <1>1 DEF Heard
  <2>5. e \notin Heard(m)
    BY <1>1, <2>1 DEF NewsInv, c
  <2>6. \A d \in DOMAIN dialled' : OneNews(up'[d]) /\ OneNews(down'[d])
    BY <1>1, <1>5 DEF NewsInv
  <2>7. \A b, d \in DOMAIN dialled' : b # d => News(up'[b]) \cap News(up'[d]) = {}
    BY <1>1 DEF NewsInv
  <2>8. \A b, d \in DOMAIN dialled' : News(up'[b]) \cap News(down'[d]) = {}
    <3> SUFFICES ASSUME NEW b \in DOMAIN dialled, NEW d \in DOMAIN dialled
                 PROVE  News(up[b]) \cap News(down'[d]) = {}
      BY <1>1
    <3>1. News(up[b]) \cap News(down[d]) = {}
      BY DEF NewsInv
    <3> QED BY <1>6, <3>1
  <2>9. \A b \in DOMAIN dialled', x \in Members : News(up'[b]) \cap Heard(x)' = {}
    <3> SUFFICES ASSUME NEW b \in DOMAIN dialled, NEW x \in Members
                 PROVE  News(up[b]) \cap Heard(x)' = {}
      BY <1>1
    <3>1. News(up[b]) \cap Heard(x) = {} /\ News(up[b]) \cap News(down[c]) = {}
      BY <1>1 DEF NewsInv
    <3> QED BY <2>1, <2>3, <2>4, <3>1
  <2>10. \A x \in Members : conn'[x] # 0 => News(down'[conn'[x]]) \cap Heard(x)' = {}
    <3> SUFFICES ASSUME NEW x \in Members, conn[x] # 0
                 PROVE  News(down'[conn[x]]) \cap Heard(x)' = {}
      BY <1>1
    <3>1. News(down[conn[x]]) \cap Heard(x) = {} /\ conn[x] \in DOMAIN dialled
      BY <1>2 DEF NewsInv
    <3>2. CASE x = m
      BY <1>6, <2>1, <2>3, <3>1, <3>2 DEF c
    <3>3. CASE x # m
      BY <1>6, <2>4, <3>1, <3>3
    <3> QED BY <3>2, <3>3
  <2>11. \A x \in Members : Heard(x)' \subseteq Produced'
    <3> SUFFICES ASSUME NEW x \in Members PROVE Heard(x)' \subseteq Produced'
      OBVIOUS
    <3>1. Heard(x) \subseteq Produced
      BY DEF NewsInv
    <3> QED BY <1>4, <2>1, <2>3, <2>4, <3>1
  <2>12. LiveAtMostOnce'
    <3> SUFFICES ASSUME NEW x \in Members, NEW i \in DOMAIN live'[x], NEW j \in DOMAIN live'[x],
                        live'[x][i] = live'[x][j]
                 PROVE  i = j
      BY DEF LiveAtMostOnce
    <3>1. \A k, l \in DOMAIN live[x] : live[x][k] = live[x][l] => k = l
      BY DEF NewsInv, LiveAtMostOnce
    <3>2. CASE x # m
      BY <1>1, <3>1, <3>2
    <3>3. CASE x = m
      <4>1. \A k \in DOMAIN live'[m] : (k \in DOMAIN live[m] /\ live'[m][k] = live[m][k])
                                       \/ (k = Len(live[m]) + 1 /\ live'[m][k] = e)
        BY <1>2, <1>8, <2>2, AppendShape
      <4>2. \A k \in DOMAIN live[m] : live[m][k] # e
        BY <2>5 DEF Heard
      <4> QED BY <3>1, <3>3, <4>1, <4>2
    <3> QED BY <3>2, <3>3
  <2> QED BY <2>6, <2>7, <2>8, <2>9, <2>10, <2>11, <2>12 DEF NewsInv
<1>9. UNCHANGED live \/ (IsNews(f) /\ live'[m] = Append(live[m], e))
  <2>1. CASE f.type = "Relayed" /\ f.envelope.body.kind = "pit_write"
    BY <1>1, <2>1 DEF IsNews, e
  <2>2. CASE ~ (f.type = "Relayed" /\ f.envelope.body.kind = "pit_write")
    <3>1. live \in [Members -> Seq(Envelopes)] /\ DOMAIN live' = Members
      BY DEF TypeOK, ReadFrame
    <3>2. live' = [live EXCEPT ![m] = live'[m]]
      BY <3>1 DEF ReadFrame
    <3> QED BY <1>1, <2>2, <3>1, <3>2
  <2> QED BY <2>1, <2>2
<1> QED BY <1>7, <1>8, <1>9

(* Channels that lose frames or stay as they are bring no news. *)
LEMMA LessKeepsNews ==
    ASSUME TypeOK, NewsInv,
           \A c \in DOMAIN dialled :
                /\ up'[c] \in {up[c], <<>>} \/ (up[c] # <<>> /\ up'[c] = Tail(up[c]))
                /\ down'[c] \in {down[c], <<>>},
           \A m \in Members : conn'[m] \in {0, conn[m]},
           UNCHANGED <<dialled, live>>, Produced \subseteq Produced'
    PROVE  NewsInv'
<1>1. ASSUME NEW c \in DOMAIN dialled
      PROVE  /\ OneNews(up'[c]) /\ OneNews(down'[c])
             /\ News(up'[c]) \subseteq News(up[c]) /\ News(down'[c]) \subseteq News(down[c])
  <2>1. OneNews(up[c]) /\ OneNews(down[c]) /\ up[c] \in Seq(UpFrames)
    BY Basics DEF NewsInv
  <2>2. OneNews(down'[c]) /\ News(down'[c]) \subseteq News(down[c])
    BY <2>1, NewsOfNone
  <2>3. OneNews(up'[c]) /\ News(up'[c]) \subseteq News(up[c])
    <3>1. up[c] # <<>> => OneNews(Tail(up[c])) /\ News(Tail(up[c])) \subseteq News(up[c])
      BY <2>1, NewsTail, NewsFrames
    <3> QED BY <2>1, <3>1, NewsOfNone
  <2> QED BY <2>2, <2>3
<1> QED BY <1>1, NoNews

LEMMA SameProduced == ASSUME UNCHANGED replica PROVE Produced \subseteq Produced'
BY DEF Produced

LEMMA PumpKeepsNews ==
    ASSUME TypeOK, NewsInv, NEW c \in open, PumpEnvelope(c)
    PROVE  NewsInv'
<1> DEFINE f == Head(up[c])
           e == f.envelope
           g == FanoutFrame(e, f.type = "Publish")
<1>1. /\ c \in slots /\ up[c] # <<>> /\ f \in UpFrames
      /\ \A d \in DOMAIN dialled : d # c => up'[d] = up[d]
      /\ UNCHANGED <<dialled, conn, replica, live>>
      /\ \/ Ended(c)
         \/ /\ g \in DownFrames /\ g.type \in {"Relayed", "Recovered"}
            /\ g.envelope = e /\ (g.type = "Relayed" <=> f.type = "Publish")
            /\ Dropped(c, e) \/ Taken(c, e, g)
  BY PumpEffect
<1>2. c \in DOMAIN dialled /\ Produced \subseteq Produced'
  BY <1>1, Basics, SameProduced
<1> HIDE DEF e, g
<1>3. CASE Ended(c) \/ Dropped(c, e)
  <2>1. up'[c] \in {Tail(up[c]), <<>>} /\ UNCHANGED down
    BY <1>3 DEF Ended, Dropped
  <2> HIDE DEF f
  <2> QED BY <1>1, <1>2, <2>1, LessKeepsNews
<1>4. ASSUME Taken(c, e, g), g \in DownFrames, g.envelope = e, g.type \in {"Relayed", "Recovered"},
             g.type = "Relayed" <=> f.type = "Publish"
      PROVE  NewsInv'
  <2>1. /\ up'[c] = Tail(up[c])
        /\ \A d \in DOMAIN dialled : down'[d] = down[d] \/ down'[d] = Append(down[d], g)
    BY <1>4 DEF Taken
  <2>2. CASE f.type = "Publish"
    <3>1. IsNews(Head(up[c])) /\ IsNews(g) /\ Head(up[c]).envelope = e
      BY <1>4, <2>2 DEF IsNews, e
    <3> HIDE DEF f
    <3> QED BY <1>1, <1>2, <1>4, <2>1, <3>1, TakenKeepsNews
  <2>3. CASE f.type # "Publish"
    <3>1. ~ IsNews(g)
      BY <1>4, <2>3 DEF IsNews
    <3> HIDE DEF f
    <3>2. ASSUME NEW d \in DOMAIN dialled
          PROVE  /\ OneNews(up'[d]) /\ OneNews(down'[d])
                 /\ News(up'[d]) \subseteq News(up[d]) /\ News(down'[d]) \subseteq News(down[d])
      <4>1. /\ OneNews(up[d]) /\ OneNews(down[d])
            /\ up[d] \in Seq(UpFrames) /\ down[d] \in Seq(DownFrames)
        BY Basics DEF NewsInv
      <4>2. News(Append(down[d], g)) = News(down[d]) /\ OneNews(Append(down[d], g))
        BY <1>4, <3>1, <4>1, NewsAppend
      <4>3. up[d] # <<>> => OneNews(Tail(up[d])) /\ News(Tail(up[d])) \subseteq News(up[d])
        BY <4>1, NewsTail, NewsFrames
      <4>4. up'[d] = up[d] \/ (up[d] # <<>> /\ up'[d] = Tail(up[d]))
        BY <1>1, <2>1
      <4> QED BY <2>1, <4>1, <4>2, <4>3, <4>4
    <3> QED BY <1>1, <1>2, <3>2, NoNews
  <2> QED BY <2>2, <2>3
<1> QED BY <1>1, <1>3, <1>4

LEMMA ServeKeepsNews ==
    ASSUME TypeOK, LinksInv, NewsInv, NEW c \in open, ServeHello(c)
    PROVE  NewsInv'
<1>1. /\ c \in DOMAIN dialled /\ c \notin slots /\ up[c] # <<>>
      /\ up'[c] = Tail(up[c])
      /\ \A d \in DOMAIN dialled : d # c => up'[d] = up[d] /\ down'[d] = down[d]
      /\ Attended(c) => down'[c] = down[c] \o <<Welcome(Tips(ledger))>>
                           \o Chunks(After(ledger, Head(up[c]).have)) \o <<CaughtUp>>
      /\ ~ Attended(c) => down'[c] = down[c]
      /\ UNCHANGED <<dialled, conn, replica, live>>
  BY ServeEffect, Basics
<1>2. Produced \subseteq Produced'
  BY <1>1, SameProduced
<1>3. ASSUME Attended(c)
      PROVE  OneNews(down'[c]) /\ News(down'[c]) = {}
  <2> DEFINE x == dialled[c]
             S == After(ledger, Head(up[c]).have)
  <2>1. x \in Members /\ conn[x] = c /\ c # 0
    BY <1>1, <1>3, Basics DEF Attended
  <2>2. down[c] = <<>>
    BY <1>1, <2>1 DEF LinksInv, Handshake
  <2>3. S \in EnvelopeSets
    BY FS_Subset DEF After, EnvelopeSets, TypeOK
  <2>4. Reply(S) = <<>> \o <<Welcome(Tips(ledger))>> \o Chunks(S) \o <<CaughtUp>>
    BY <2>3, ReplyShape
  <2>5. down'[c] = down[c] \o <<Welcome(Tips(ledger))>> \o Chunks(S) \o <<CaughtUp>>
    BY <1>1, <1>3
  <2> HIDE DEF S
  <2>6. down'[c] = Reply(S)
    BY <2>2, <2>4, <2>5
  <2> QED BY <2>3, <2>6, ReplyIsHistory
<1>4. ASSUME NEW d \in DOMAIN dialled
      PROVE  /\ OneNews(up'[d]) /\ OneNews(down'[d])
             /\ News(up'[d]) \subseteq News(up[d]) /\ News(down'[d]) \subseteq News(down[d])
  <2>1. OneNews(up[d]) /\ OneNews(down[d]) /\ up[d] \in Seq(UpFrames)
    BY Basics DEF NewsInv
  <2>2. up[d] # <<>> => OneNews(Tail(up[d])) /\ News(Tail(up[d])) \subseteq News(up[d])
    BY <2>1, NewsTail, NewsFrames
  <2>3. OneNews(up'[d]) /\ News(up'[d]) \subseteq News(up[d])
    BY <1>1, <2>1, <2>2
  <2>4. OneNews(down'[d]) /\ News(down'[d]) \subseteq News(down[d])
    BY <1>1, <1>3, <2>1
  <2> QED BY <2>3, <2>4
<1> QED BY <1>1, <1>2, <1>4, NoNews

LEMMA DialKeepsNews ==
    ASSUME TypeOK, NewsInv, NEW m \in Members, Dial(m)
    PROVE  NewsInv'
<1> DEFINE k == Len(dialled) + 1
           h == Hello(Tips(replica[m]))
<1>1. /\ k \notin DOMAIN dialled
      /\ DOMAIN dialled' = DOMAIN dialled \cup {k}
      /\ \A c \in DOMAIN dialled : up'[c] = up[c] /\ down'[c] = down[c]
      /\ up'[k] = <<h>> /\ down'[k] = <<>>
      /\ \A x \in Members : x # m => conn'[x] = conn[x]
      /\ conn'[m] = k
      /\ UNCHANGED <<replica, live>>
  BY DialEffect
<1>2. h.type = "Hello"
  BY DEF Hello
<1> HIDE DEF k, h
<1>3. News(<<h>>) = {} /\ OneNews(<<h>>)
  BY <1>2 DEF News, OneNews
<1>4. \A c \in DOMAIN dialled : OneNews(up[c]) /\ OneNews(down[c])
  BY DEF NewsInv
<1>5. \A c \in DOMAIN dialled' :
        /\ OneNews(up'[c]) /\ OneNews(down'[c])
        /\ \/ News(up'[c]) = {} /\ News(down'[c]) = {}
           \/ /\ c \in DOMAIN dialled
              /\ News(up'[c]) \subseteq News(up[c]) /\ News(down'[c]) \subseteq News(down[c])
  BY <1>1, <1>3, <1>4, NewsOfNone
<1>6. \A x \in Members : conn'[x] \in {0, conn[x]} \/ News(down'[conn'[x]]) = {}
  BY <1>1, NewsOfNone
<1>7. Produced \subseteq Produced' /\ DOMAIN dialled \subseteq DOMAIN dialled'
  BY <1>1, SameProduced
<1> QED BY <1>1, <1>5, <1>6, <1>7, NoNews

LEMMA ReofferKeepsNews ==
    ASSUME TypeOK, NewsInv, NEW m \in Members, ReofferNext(m)
    PROVE  NewsInv'
<1>1. UNCHANGED <<dialled, down, conn, replica, live>>
  BY ReofferEffect
<1>2. PICK e \in reoffer[m] : Recover(e) \in UpFrames /\ Send(m, Recover(e))
  BY ReofferEffect
<1>3. ~ IsNews(Recover(e))
  BY DEF Recover, IsNews
<1>4. ASSUME NEW c \in DOMAIN dialled
      PROVE  OneNews(up'[c]) /\ OneNews(down'[c]) /\ News(up'[c]) \subseteq News(up[c])
  <2>1. OneNews(up[c]) /\ OneNews(down[c]) /\ up[c] \in Seq(UpFrames)
    BY Basics DEF NewsInv
  <2>2. up'[c] = up[c] \/ up'[c] = Append(up[c], Recover(e))
    BY <1>2, SendEffect
  <2>3. News(Append(up[c], Recover(e))) = News(up[c]) /\ OneNews(Append(up[c], Recover(e)))
    BY <1>2, <1>3, <2>1, NewsAppend
  <2> QED BY <1>1, <2>1, <2>2, <2>3
<1>5. Produced \subseteq Produced'
  BY <1>1, SameProduced
<1> QED BY <1>1, <1>4, <1>5, NoNews

LEMMA CrashKeepsNews ==
    ASSUME StableProducers, TypeOK, NewsInv, NEW m \in Crashable, Crash(m)
    PROVE  NewsInv'
<1>1. PICK cut \in SUBSET Nat : CrashCuts(m, cut)
  BY CrashEffect
<1>2. /\ \A c \in DOMAIN dialled : up'[c] \in {up[c], <<>>} /\ down'[c] \in {down[c], <<>>}
      /\ \A x \in Members : x # m => conn'[x] = conn[x] /\ replica'[x] = replica[x]
      /\ m \in Members => conn'[m] = 0
      /\ UNCHANGED <<dialled, live>>
  BY <1>1 DEF CrashCuts
<1>3. Produced \subseteq Produced'
  <2>1. \A p \in Producers : replica'[p] = replica[p]
    BY <1>2, ProducersAssumption DEF StableProducers
  <2> QED BY <2>1 DEF Produced
<1> QED BY <1>2, <1>3, LessKeepsNews

LEMMA NewsStep ==
    ASSUME StableProducers, TypeOK, LinksInv, NumberingInv, NewsInv, [Next]_teamVars
    PROVE  NewsInv'
<1>1. ASSUME NEW c \in open, ServeHello(c) \/ PumpEnvelope(c) PROVE NewsInv'
  BY <1>1, ServeKeepsNews, PumpKeepsNews
<1>2. ASSUME NEW c \in open, Hangup(c) PROVE NewsInv'
  <2>1. /\ up'[c] = <<>> /\ (\A d \in DOMAIN dialled : d # c => up'[d] = up[d])
        /\ UNCHANGED <<down, dialled, conn, replica, live>>
    BY <1>2, HangupEffect DEF Ended
  <2> QED BY <2>1, LessKeepsNews, SameProduced
<1>3. ASSUME NEW m \in Members, Dial(m) \/ PublishNext(m) \/ ReadFrame(m) \/ ReofferNext(m)
      PROVE  NewsInv'
  BY <1>3, DialKeepsNews, PublishKeepsNews, ReadKeepsNews, ReofferKeepsNews
<1>4. ASSUME NEW m \in Members, Disconnect(m) PROVE NewsInv'
  <2>1. /\ \A d \in DOMAIN dialled : down'[d] \in {down[d], <<>>}
        /\ \A x \in Members : conn'[x] \in {0, conn[x]}
        /\ UNCHANGED <<up, dialled, replica, live>>
    BY <1>4, DisconnectEffect
  <2> QED BY <2>1, LessKeepsNews, SameProduced
<1>5. ASSUME UNCHANGED <<up, down, dialled, conn, replica, live>> PROVE NewsInv'
  BY <1>5, LessKeepsNews, SameProduced
<1>6. ASSUME NEW m \in Members, DrainEmpty(m) \/ (\E kind \in Kinds : Observe(m, kind)) PROVE NewsInv'
  BY <1>5, <1>6, DrainEffect, ObserveEffect
<1>7. CASE UNCHANGED vars
  BY <1>5, <1>7 DEF vars, wireVars, clientVars, overlayVars
<1> QED BY <1>1, <1>2, <1>3, <1>4, <1>6, <1>7, CrashKeepsNews, StepCases

(* No overlay is handed the same pit write as live twice: the relay fans a
   publish out as news once, a re-offer as history, and a replica is never
   replayed as news, however the connections of a member overlap (relay.rs
   fanout_frame, client.rs absorb).                                        *)
THEOREM LiveIsLiveOnce ==
    ASSUME StableProducers
    PROVE  Spec => []LiveAtMostOnce
<1> DEFINE Inv == RoomInv /\ NewsInv
<1>1. TeamInit => Inv
  BY RoomStep, NewsInit
<1>2. ASSUME Inv, [Next]_teamVars PROVE Inv'
  BY <1>2, RoomStep, NewsStep DEF RoomInv
<1>3. Inv => LiveAtMostOnce
  BY DEF NewsInv
<1>4. Inv /\ [Next]_teamVars => Inv'
  BY <1>2
<1> QED BY <1>1, <1>3, <1>4, PTL DEF Spec
===============================================================================
