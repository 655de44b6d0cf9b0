----------------------------- MODULE StintProofs -----------------------------
(* That the overlay's books of pit stops balance, whatever the car does and   *)
(* the scorer publishes (StintState, StintTracking).  Every stage of a sample *)
(* keeps them balanced but one: the stop that ends a visit is counted, and    *)
(* RecordLaneOutcome makes up for it.                                         *)
EXTENDS StintTracking, TLAPS

\* Books in order.
Sound(b) == b \in Books /\ BooksBalance(b)

\* The scorer's count, first seen or risen.
LEMMA ObserveOfficialStopsSound ==
    ASSUME NEW b, Sound(b), NEW n \in Nat \cup {None}
    PROVE  Sound(ObserveOfficialStops(b, n))
<1>1. b \in Books /\ BooksBalance(b)
  BY DEF Sound
<1>2. CASE n = None
  BY <1>2 DEF ObserveOfficialStops
<1>3. CASE n # None /\ b.official_stops_seen = None
  <2>1. n \in Nat /\ AtLeast0(n - b.pit_count) \in Nat /\ AtLeast0(b.pit_count - n) \in Nat
    BY <1>1, <1>3 DEF Books, AtLeast0
  <2>2. ObserveOfficialStops(b, n) \in Books
    BY <1>1, <1>3, <2>1 DEF ObserveOfficialStops, Books
  <2>3. BooksBalance(ObserveOfficialStops(b, n))
    BY <1>1, <1>3, <2>1, StintAssumption DEF ObserveOfficialStops, Books, BooksBalance, AtLeast0
  <2>4. QED
    BY <2>2, <2>3 DEF Sound
<1>4. CASE n # None /\ b.official_stops_seen # None
  <2>1. n \in Nat /\ b.official_stops_seen \in Nat
    BY <1>1, <1>4 DEF Books
  <2>2. /\ b.official_unmatched + AtLeast0(n - b.official_stops_seen) \in Nat
        /\ Greater(b.official_stops_seen, n) \in Nat
    BY <1>1, <2>1 DEF Books, AtLeast0, Greater
  <2>3. ObserveOfficialStops(b, n) \in Books
    BY <1>1, <1>4, <2>2 DEF ObserveOfficialStops, Books
  <2>4. BooksBalance(ObserveOfficialStops(b, n))
    BY <1>1, <1>4, <2>1, StintAssumption DEF ObserveOfficialStops, Books, BooksBalance, AtLeast0, Greater
  <2>5. QED
    BY <2>3, <2>4 DEF Sound
<1>5. QED
  BY <1>2, <1>3, <1>4

\* The overlay's own stops, matched with the scorer's.
LEMMA MatchLocalSound ==
    ASSUME NEW b, Sound(b)
    PROVE  Sound(MatchLocal(b))
<1> DEFINE n == Lesser(b.official_unmatched, b.local_unscored)
<1>1. b \in Books /\ BooksBalance(b)
  BY DEF Sound
<1>2. n \in Nat /\ b.official_unmatched - n \in Nat /\ b.local_unscored - n \in Nat
  BY <1>1 DEF Books, Lesser
<1>3. MatchLocal(b) \in Books
  BY <1>1, <1>2 DEF MatchLocal, Books
<1>4. BooksBalance(MatchLocal(b))
  BY <1>1, StintAssumption DEF MatchLocal, Books, BooksBalance, Lesser
<1>5. QED
  BY <1>3, <1>4 DEF Sound

\* What is conceded moves from one account of the scorer's stops to another.
LEMMA ConcedeSound ==
    ASSUME NEW b, Sound(b), NEW n \in 0..b.official_unmatched
    PROVE  Sound(Concede(b, n))
<1>1. b \in Books /\ BooksBalance(b)
  BY DEF Sound
<1>2. n \in Nat /\ b.official_unmatched - n \in Nat /\ b.official_offset + n \in Nat
  BY <1>1 DEF Books
<1>3. Concede(b, n) \in Books
  BY <1>1, <1>2 DEF Concede, Books
<1>4. CASE b.official_stops_seen = None
  BY <1>1, <1>3, <1>4, StintAssumption DEF Concede, Books, BooksBalance, Sound
<1>5. CASE b.official_stops_seen \in Nat
  BY <1>1, <1>3, <1>5, StintAssumption DEF Concede, Books, BooksBalance, Sound
<1>6. QED
  BY <1>1, <1>4, <1>5 DEF Books

\* Drive-throughs that await a count are not part of the balance.
LEMMA PendingDriveThroughsSound ==
    ASSUME NEW b, Sound(b), NEW n \in Nat
    PROVE  Sound([b EXCEPT !.pending_drive_throughs = n])
BY DEF Sound, Books, BooksBalance

LEMMA MatchDriveThroughsSound ==
    ASSUME NEW b, Sound(b)
    PROVE  Sound(MatchDriveThroughs(b))
<1> DEFINE n == Lesser(b.official_unmatched, b.pending_drive_throughs)
<1>1. b \in Books
  BY DEF Sound
<1>2. n \in 0..b.official_unmatched /\ b.pending_drive_throughs - n \in Nat
  BY <1>1 DEF Books, Lesser
<1>3. Sound(Concede(b, n))
  BY <1>2, ConcedeSound
<1>4. Concede(b, n).pending_drive_throughs = b.pending_drive_throughs
  BY <1>1 DEF Concede, Books
<1>5. QED
  BY <1>2, <1>3, <1>4, PendingDriveThroughsSound DEF MatchDriveThroughs

LEMMA MatchUncertainExitSound ==
    ASSUME NEW b, Sound(b), NEW pending
    PROVE  Sound(MatchUncertainExit(b, pending))
<1>1. CASE b.official_unmatched > 0 /\ pending # None
  <2>1. 1 \in 0..b.official_unmatched
    BY <1>1 DEF Sound, Books
  <2>2. QED
    BY <1>1, <2>1, ConcedeSound DEF MatchUncertainExit
<1>2. CASE ~(b.official_unmatched > 0 /\ pending # None)
  BY <1>2 DEF MatchUncertainExit
<1>3. QED
  BY <1>1, <1>2

LEMMA MatchUnseenSound ==
    ASSUME NEW b, Sound(b), NEW lane_visit_active \in BOOLEAN
    PROVE  Sound(MatchUnseen(b, lane_visit_active))
<1>1. b.official_unmatched \in 0..b.official_unmatched
  BY DEF Sound, Books
<1>2. QED
  BY <1>1, ConcedeSound DEF MatchUnseen

\* A visit closed as a stop is counted, and is the scorer's or is yet to be.
LEMMA RecordLaneOutcomeSound ==
    ASSUME NEW b, Sound(b), NEW outcome
    PROVE  Sound(RecordLaneOutcome([b EXCEPT !.pit_count = IF outcome = "stop" THEN @ + 1 ELSE @], outcome))
<1> DEFINE counted == [b EXCEPT !.pit_count = IF outcome = "stop" THEN @ + 1 ELSE @]
           recorded == RecordLaneOutcome(counted, outcome)
<1>1. b \in Books /\ BooksBalance(b)
  BY DEF Sound
<1>2. b.pit_count + 1 \in Nat /\ b.local_unscored + 1 \in Nat /\ b.pending_drive_throughs + 1 \in Nat
  BY <1>1 DEF Books
<1>3. CASE outcome = "stop" /\ b.official_unmatched > 0
  <2>1. b.official_unmatched - 1 \in Nat
    BY <1>1, <1>3 DEF Books
  <2>2. recorded = [b EXCEPT !.pit_count = @ + 1, !.official_unmatched = @ - 1]
    BY <1>1, <1>3 DEF RecordLaneOutcome, Books
  <2>3. recorded \in Books
    BY <1>1, <1>2, <2>1, <2>2 DEF Books
  <2>4. /\ recorded.pit_count = b.pit_count + 1
        /\ recorded.official_unmatched = b.official_unmatched - 1
        /\ recorded.official_stops_seen = b.official_stops_seen
        /\ recorded.official_offset = b.official_offset
        /\ recorded.local_unscored = b.local_unscored
    BY <1>1, <2>2 DEF Books
  <2>5. BooksBalance(recorded)
    <3> HIDE DEF recorded
    <3>1. b.official_stops_seen \in Nat
      BY <1>1, <1>3 DEF Books, BooksBalance
    <3>2. QED
      BY <1>1, <2>4, <3>1, StintAssumption DEF Books, BooksBalance
  <2>6. QED
    BY <2>3, <2>5 DEF Sound
<1>4. CASE outcome = "stop" /\ b.official_unmatched = 0
  <2>1. recorded = [b EXCEPT !.pit_count = @ + 1, !.local_unscored = @ + 1]
    BY <1>1, <1>4 DEF RecordLaneOutcome, Books
  <2>2. recorded \in Books
    BY <1>1, <1>2, <2>1 DEF Books
  <2>3. /\ recorded.pit_count = b.pit_count + 1
        /\ recorded.local_unscored = b.local_unscored + 1
        /\ recorded.official_stops_seen = b.official_stops_seen
        /\ recorded.official_offset = b.official_offset
        /\ recorded.official_unmatched = b.official_unmatched
    BY <1>1, <2>1 DEF Books
  <2>4. BooksBalance(recorded)
    <3> HIDE DEF recorded
    <3>1. CASE b.official_stops_seen = None
      BY <1>1, <1>4, <2>3, <3>1 DEF BooksBalance
    <3>2. CASE b.official_stops_seen \in Nat
      BY <1>1, <2>3, <3>2, StintAssumption DEF Books, BooksBalance
    <3>3. QED
      BY <1>1, <3>1, <3>2 DEF Books
  <2>5. QED
    BY <2>2, <2>4 DEF Sound
<1>5. CASE outcome # "stop"
  <2>1. counted = b
    BY <1>1, <1>5 DEF Books
  <2>2. recorded = b \/ recorded = [b EXCEPT !.pending_drive_throughs = b.pending_drive_throughs + 1]
    BY <1>5, <2>1 DEF RecordLaneOutcome
  <2>3. QED
    BY <1>2, <2>2, PendingDriveThroughsSound
<1>6. QED
  BY <1>1, <1>3, <1>4, <1>5 DEF Books

LEMMA ReconcileSound ==
    ASSUME NEW t, Sound(t.books), NEW r, NEW lane_visit_active \in BOOLEAN, NEW just_reset, NEW returned
    PROVE  Sound(ReconcileOfficialStops(t, r, lane_visit_active, just_reset, returned).books)
<1>1. Sound(MatchDriveThroughs(MatchLocal(t.books)))
  BY MatchLocalSound, MatchDriveThroughsSound
<1>2. Sound(MatchUncertainExit(MatchDriveThroughs(MatchLocal(t.books)), t.stint.pending_uncertain_exit))
  BY <1>1, MatchUncertainExitSound
<1>3. QED
  BY <1>2, MatchUnseenSound DEF ReconcileOfficialStops

-----------------------------------------------------------------------------
\* The end of a visit.
LEMMA CloseLaneVisitSound ==
    ASSUME NEW t, Sound(t.books), NEW r, NEW resumed
    PROVE  Sound(CloseLaneVisit(t, r, resumed).books)
<1> DEFINE outcome == Outcome(Bank(t.lane, r.now), t.stint)
           counted == [t.books EXCEPT !.pit_count = IF outcome = "stop" THEN @ + 1 ELSE @]
<1>1. Sound(RecordLaneOutcome(counted, outcome))
  BY RecordLaneOutcomeSound
<1>2. QED
  BY <1>1, ReconcileSound DEF CloseLaneVisit

\* A sample of a car in the world: the books are reconciled, whether the car
\* comes into the lane or not, and again when it leaves it.
LEMMA InWorldSound ==
    ASSUME NEW t, Sound(t.books), NEW r
    PROVE  Sound(InWorld(t, r).books)
<1> DEFINE resumed == t.lane.observation_interrupted
           returned == IF resumed /\ ~r.in_lane THEN [secs |-> r.now, lap |-> r.lap]
                       ELSE t.stint.returned_after_gap
           recent == IF returned # None /\ r.now - returned.secs > ReturnGrace THEN None ELSE returned
           entering == r.in_lane /\ ~t.lane.was_in_pit_lane
           noted == [books |-> [t.books EXCEPT !.pending_drive_throughs = IF entering THEN 0 ELSE @],
                     lane |-> [t.lane EXCEPT !.observation_interrupted = FALSE],
                     stint |-> [t.stint EXCEPT !.returned_after_gap = recent]]
           active == r.in_lane \/ t.lane.was_in_pit_lane
           matched == ReconcileOfficialStops(noted, r, active, FALSE, resumed)
<1>1. Sound(noted.books)
  <2>1. 0 \in Nat /\ t.books.pending_drive_throughs \in Nat
    BY DEF Sound, Books
  <2>2. QED
    BY <2>1, PendingDriveThroughsSound
<1>2. active \in BOOLEAN
  OBVIOUS
<1>3. Sound(matched.books)
  <2> HIDE DEF noted, active, resumed
  <2>1. QED
    BY <1>1, <1>2, ReconcileSound
<1>4. Sound(InLane(matched, r, resumed).books)
  BY <1>3 DEF InLane
<1>5. Sound(OffLane(matched, r, resumed).books)
  <2> HIDE DEF matched, resumed
  <2>1. QED
    BY <1>3, CloseLaneVisitSound DEF OffLane
<1>6. QED
  BY <1>4, <1>5 DEF InWorld

\* A sample.
LEMMA UpdateSound ==
    ASSUME NEW t, Sound(t.books), NEW r, r.official \in Nat \cup {None}
    PROVE  Sound(UpdateWithOfficial(t, r).books)
<1> DEFINE scoredBooks == [books |-> ObserveOfficialStops(t.books, r.official), lane |-> t.lane, stint |-> t.stint]
<1>1. Sound(scoredBooks.books)
  BY ObserveOfficialStopsSound
<1>2. Sound(InWorld(scoredBooks, r).books)
  BY <1>1, InWorldSound
<1>3. Sound(NotInWorld(scoredBooks, r).books)
  BY <1>1, PendingDriveThroughsSound DEF NotInWorld
<1>4. QED
  BY <1>2, <1>3 DEF UpdateWithOfficial

-----------------------------------------------------------------------------
\* The inductive invariant: the scorer counts up from nought and publishes
\* nothing else, and the books are in order.
BooksInv ==
    /\ scored \in Nat
    /\ board \in Nat \cup {None}
    /\ Sound(s.books)

LEMMA BooksInit == Init => BooksInv
<1> SUFFICES ASSUME Init PROVE BooksInv
  OBVIOUS
<1>1. scored \in Nat /\ board \in Nat \cup {None}
  BY DEF Init
<1>2. Sound(Fresh.books)
  BY StintAssumption DEF Fresh, Sound, Books, BooksBalance
<1>3. Row(0, car, TRUE, TRUE, board).official = board
  BY DEF Row
<1>4. Sound(s.books)
  BY <1>1, <1>2, <1>3, UpdateSound DEF Init
<1>5. QED
  BY <1>1, <1>4 DEF BooksInv

LEMMA BooksNext == BooksInv /\ [Next]_vars => BooksInv'
<1> SUFFICES ASSUME BooksInv, [Next]_vars PROVE BooksInv'
  OBVIOUS
<1>1. CASE UNCHANGED vars
  BY <1>1 DEF BooksInv, vars, carVars
<1>2. CASE Second
  <2>1. scored' \in Nat
    <3>1. scored' = scored \/ scored' = scored + 1
      <4>1. KeepRacing \/ EnterLane \/ Tow \/ StandStill \/ Roll \/ Leave
        BY <1>2 DEF Second
      <4>2. CASE KeepRacing \/ EnterLane \/ Tow \/ Roll
        BY <4>2 DEF KeepRacing, EnterLane, Tow, Roll
      <4>3. CASE StandStill
        BY <4>3 DEF StandStill
      <4>4. CASE Leave
        BY <4>4 DEF Leave
      <4>5. QED
        BY <4>1, <4>2, <4>3, <4>4
    <3>2. QED
      BY <3>1 DEF BooksInv
  <2>2. board' \in Nat \cup {None}
    BY <1>2, <2>1 DEF BooksInv, Second, Publish
  <2>3. PICK shown \in BOOLEAN : Sample(shown)
    BY <1>2 DEF Second
  <2>4. Row(now', car', missing' = None, shown, board').official = board'
    BY DEF Row
  <2>5. Sound(UpdateWithOfficial(s, Row(now', car', missing' = None, shown, board')).books)
    BY <2>2, <2>4, UpdateSound DEF BooksInv
  <2>6. Sound(s'.books)
    BY <2>3, <2>5 DEF Sample, Vouched
  <2>7. QED
    BY <2>1, <2>2, <2>6 DEF BooksInv
<1>3. QED
  BY <1>1, <1>2 DEF Next

\* In every run the scorer's count and the overlay's own are reconciled without
\* a stop lost or made up (update_with_official, session.rs).
THEOREM StintBooksBalance == Spec => []BooksBalanced
<1>1. BooksInv => BooksBalanced
  BY DEF BooksInv, Sound, BooksBalanced
<1>2. QED
  BY BooksInit, BooksNext, <1>1, PTL DEF Spec


-----------------------------------------------------------------------------
(* Types.                                                                    *)

Samples ==
    [now : Nat, lap : Nat, official : Nat \cup {None}, in_world : BOOLEAN,
     in_lane : BOOLEAN, in_stall : BOOLEAN, pct : Nat \cup {None}]

LEMMA AtLeast0Type == ASSUME NEW n \in Int PROVE AtLeast0(n) \in Nat /\ AtLeast0(n) >= n
BY DEF AtLeast0

\* A history keeps to its bound.
LEMMA RememberType ==
    ASSUME NEW S, NEW history \in Seq(S), Len(history) <= StintSamples, NEW x \in S
    PROVE  Remember(history, x) \in Seq(S) /\ Len(Remember(history, x)) <= StintSamples
<1>1. StintSamples \in Nat \ {0}
  BY StintAssumption
<1>2. CASE Len(history) >= StintSamples
  <2>1. Tail(history) \in Seq(S) /\ Len(Tail(history)) = Len(history) - 1
    BY <1>1, <1>2
  <2> DEFINE t == Tail(history)
  <2>2. Remember(history, x) = Append(t, x)
    BY <1>2 DEF Remember
  <2> HIDE DEF t
  <2>3. Append(t, x) \in Seq(S) /\ Len(Append(t, x)) = Len(t) + 1
    BY <2>1 DEF t
  <2> QED BY <1>1, <1>2, <2>1, <2>2, <2>3 DEF t
<1>3. CASE ~(Len(history) >= StintSamples)
  <2>1. Remember(history, x) = Append(history, x)
    BY <1>3 DEF Remember
  <2> QED BY <1>1, <1>3, <2>1
<1> QED BY <1>2, <1>3

LEMMA BankType ==
    ASSUME NEW l \in Lanes, NEW until \in Nat
    PROVE  Bank(l, until) \in Lanes
<1>1. CASE l.stopped_since = None
  BY <1>1 DEF Bank
<1>2. CASE l.stopped_since # None
  <2>1. until - l.stopped_since \in Int
    BY <1>2 DEF Lanes
  <2>2. AtLeast0(until - l.stopped_since) \in Nat
    BY <2>1, AtLeast0Type
  <2>3. l.stopped_total_secs + AtLeast0(until - l.stopped_since) \in Nat
    BY <2>2 DEF Lanes
  <2> QED BY <1>2, <2>3 DEF Bank, Lanes
<1> QED BY <1>1, <1>2

LEMMA EnterOrResumeType ==
    ASSUME NEW l \in Lanes, NEW r \in Samples, NEW resumed \in BOOLEAN
    PROVE  EnterOrResume(l, r, resumed) \in Lanes
<1>1. r.now \in Nat /\ r.pct \in Nat \cup {None} /\ r.in_stall \in BOOLEAN
  BY DEF Samples
<1>2. (l.seen_in_world /\ ~resumed) \in BOOLEAN
  OBVIOUS
<1> DEFINE obs == l.seen_in_world /\ ~resumed
           stall == r.in_stall
<1> HIDE DEF obs, stall
<1>3. obs \in BOOLEAN /\ stall \in BOOLEAN
  BY <1>1, <1>2 DEF obs, stall
<1>4. CASE ~l.was_in_pit_lane
  <2>1. EnterOrResume(l, r, resumed) =
          [l EXCEPT !.lane_entered = r.now, !.anchor_pct = r.pct, !.last_moved_secs = r.now,
                    !.stopped_since = None, !.stopped_total_secs = 0,
                    !.lane_visit_observed = obs,
                    !.blind_secs = 0, !.stall_observed = stall,
                    !.lane_visit_interrupted = FALSE]
    BY <1>4 DEF EnterOrResume, obs, stall
  <2> DEFINE e == EnterOrResume(l, r, resumed)
  <2> HIDE DEF e
  <2>2. e = [was_in_pit_lane |-> l.was_in_pit_lane, seen_in_world |-> l.seen_in_world,
             observation_interrupted |-> l.observation_interrupted,
             lane_entered |-> r.now, anchor_pct |-> r.pct, last_moved_secs |-> r.now,
             stopped_since |-> None, stopped_total_secs |-> 0, last_tick_secs |-> l.last_tick_secs,
             lane_visit_observed |-> obs, blind_secs |-> 0, stall_observed |-> stall,
             lane_visit_interrupted |-> FALSE]
    BY <2>1 DEF Lanes, e
  <2>3. e \in Lanes
    BY <1>1, <1>3, <2>2 DEF Lanes
  <2> QED BY <2>3 DEF e
<1>5. CASE l.was_in_pit_lane /\ resumed
  BY <1>1, <1>5 DEF EnterOrResume, Lanes
<1>6. CASE l.was_in_pit_lane /\ ~resumed
  BY <1>6 DEF EnterOrResume
<1> QED BY <1>4, <1>5, <1>6

LEMMA WatchType ==
    ASSUME NEW l \in Lanes, NEW r \in Samples, NEW resumed \in BOOLEAN
    PROVE  Watch(l, r, resumed) \in Lanes
<1> DEFINE moved == r.pct # None /\ r.pct # l.anchor_pct
           tick == IF l.was_in_pit_lane THEN AtLeast0(r.now - l.last_tick_secs) ELSE 0
           stall == l.stall_observed \/ r.in_stall
           blind == IF r.pct = None /\ ~resumed THEN l.blind_secs + tick ELSE l.blind_secs
           w == Watch(l, r, resumed)
<1>1. r.now \in Nat /\ r.pct \in Nat \cup {None}
  BY DEF Samples
<1>2. l.last_tick_secs \in Nat /\ l.blind_secs \in Nat /\ l.anchor_pct \in Nat \cup {None} /\ l.last_moved_secs \in Nat
  BY DEF Lanes
<1>3. tick \in Nat
  <2>1. AtLeast0(r.now - l.last_tick_secs) \in Nat
    BY <1>1, <1>2, AtLeast0Type
  <2> QED BY <2>1
<1>4. blind \in Nat
  <2> HIDE DEF tick
  <2> QED BY <1>2, <1>3
<1>5. stall \in BOOLEAN
  OBVIOUS
<1>6. (IF moved THEN r.pct ELSE l.anchor_pct) \in Nat \cup {None} /\ (IF moved THEN r.now ELSE l.last_moved_secs) \in Nat
  BY <1>1, <1>2
<1> DEFINE anchor == IF moved THEN r.pct ELSE l.anchor_pct
           last == IF moved THEN r.now ELSE l.last_moved_secs
<1>7. w = [l EXCEPT !.last_tick_secs = r.now, !.blind_secs = blind, !.stall_observed = stall,
                    !.anchor_pct = anchor, !.last_moved_secs = last]
  BY DEF Watch, Lanes
<1>8. anchor \in Nat \cup {None} /\ last \in Nat
  BY <1>6
<1> HIDE DEF moved, tick, stall, blind, w, anchor, last
<1>9. w = [was_in_pit_lane |-> l.was_in_pit_lane, seen_in_world |-> l.seen_in_world,
           observation_interrupted |-> l.observation_interrupted,
           lane_entered |-> l.lane_entered, anchor_pct |-> anchor, last_moved_secs |-> last,
           stopped_since |-> l.stopped_since, stopped_total_secs |-> l.stopped_total_secs,
           last_tick_secs |-> r.now, lane_visit_observed |-> l.lane_visit_observed,
           blind_secs |-> blind, stall_observed |-> stall,
           lane_visit_interrupted |-> l.lane_visit_interrupted]
  BY <1>7 DEF Lanes
<1>10. w \in Lanes
  BY <1>1, <1>4, <1>5, <1>8, <1>9 DEF Lanes
<1> QED BY <1>10 DEF w

LEMMA StandType ==
    ASSUME NEW l \in Lanes, NEW r \in Samples
    PROVE  Stand(l, r) \in Lanes
<1>1. r.now \in Nat
  BY DEF Samples
<1>2. CASE ~Frozen(l, r) /\ ~r.in_stall
  BY <1>1, <1>2, BankType DEF Stand
<1>3. CASE ~(~Frozen(l, r) /\ ~r.in_stall)
  <2>1. l.last_moved_secs \in Nat
    BY DEF Lanes
  <2> DEFINE since == IF Frozen(l, r) THEN l.last_moved_secs ELSE r.now
  <2>2. since \in Nat
    BY <1>1, <2>1
  <2>3. Stand(l, r) = l \/ Stand(l, r) = [l EXCEPT !.stopped_since = since]
    BY <1>3 DEF Stand
  <2> HIDE DEF since
  <2>4. [l EXCEPT !.stopped_since = since] \in Lanes
    BY <2>2 DEF Lanes
  <2> QED BY <2>3, <2>4
<1> QED BY <1>2, <1>3

\* A car in the lane has entered it at some time.
Visits == {l \in Lanes : l.was_in_pit_lane => l.lane_entered \in Nat}

LEMMA EntryKept ==
    ASSUME NEW l \in Lanes, NEW r \in Samples, NEW resumed \in BOOLEAN, NEW until \in Nat
    PROVE  /\ Bank(l, until).lane_entered = l.lane_entered
           /\ Watch(l, r, resumed).lane_entered = l.lane_entered
           /\ Stand(l, r).lane_entered = l.lane_entered
<1>1. \A u : Bank(l, u).lane_entered = l.lane_entered
  BY DEF Bank, Lanes
<1>2. Watch(l, r, resumed).lane_entered = l.lane_entered
  BY DEF Watch, Lanes
<1>3. Stand(l, r).lane_entered = l.lane_entered
  <2> DEFINE f == Frozen(l, r)
  <2>1. Stand(l, r) = Bank(l, r.now) \/ Stand(l, r) = l
           \/ Stand(l, r) = [l EXCEPT !.stopped_since = IF f THEN l.last_moved_secs ELSE r.now]
    BY DEF Stand
  <2> HIDE DEF f
  <2> QED BY <1>1, <2>1 DEF Lanes
<1> QED BY <1>1, <1>2, <1>3

LEMMA InLaneVisits ==
    ASSUME NEW t, t.lane \in Visits, NEW r \in Samples, NEW resumed \in BOOLEAN
    PROVE  InLane(t, r, resumed).lane \in Visits
<1> DEFINE e == EnterOrResume(t.lane, r, resumed)
           w == Watch(e, r, resumed)
           d == Stand(w, r)
<1>1. t.lane \in Lanes
  BY DEF Visits
<1>2. e \in Lanes
  BY <1>1, EnterOrResumeType
<1>3. e.lane_entered \in Nat
  BY <1>1 DEF EnterOrResume, Visits, Lanes, Samples
<1> HIDE DEF e
<1>4. w \in Lanes /\ w.lane_entered = e.lane_entered
  <2>1. 0 \in Nat
    OBVIOUS
  <2> QED BY <1>2, <2>1, WatchType, EntryKept
<1> HIDE DEF w
<1>5. d \in Lanes /\ d.lane_entered = w.lane_entered
  <2>1. TRUE \in BOOLEAN /\ 0 \in Nat
    OBVIOUS
  <2> QED BY <1>4, <2>1, StandType, EntryKept
<1>6. InLane(t, r, resumed).lane = [d EXCEPT !.was_in_pit_lane = TRUE, !.seen_in_world = TRUE]
  BY DEF InLane, d, w, e
<1> HIDE DEF d
<1>7. [d EXCEPT !.was_in_pit_lane = TRUE, !.seen_in_world = TRUE] \in Lanes
  BY <1>5 DEF Lanes
<1>8. [d EXCEPT !.was_in_pit_lane = TRUE, !.seen_in_world = TRUE].lane_entered = d.lane_entered
  BY <1>5 DEF Lanes
<1> QED BY <1>3, <1>4, <1>5, <1>6, <1>7, <1>8 DEF Visits

LEMMA OffLaneVisits ==
    ASSUME NEW t, t.lane \in Lanes, NEW r \in Samples, NEW resumed
    PROVE  /\ OffLane(t, r, resumed).lane \in Visits
           /\ t.lane.was_in_pit_lane \/ OffLane(t, r, resumed).lane = [t.lane EXCEPT !.seen_in_world = TRUE]
           /\ ~OffLane(t, r, resumed).lane.was_in_pit_lane
<1>1. CASE t.lane.was_in_pit_lane
  <2> DEFINE b == Bank(t.lane, r.now)
             c == [b EXCEPT !.lane_entered = None, !.stopped_total_secs = 0,
                            !.anchor_pct = None, !.blind_secs = 0]
             d == [c EXCEPT !.was_in_pit_lane = FALSE, !.seen_in_world = TRUE]
  <2>1. b \in Lanes
    BY BankType DEF Samples
  <2>2. OffLane(t, r, resumed).lane = d
    BY <1>1 DEF OffLane, CloseLaneVisit, ReconcileOfficialStops
  <2> HIDE DEF b
  <2>3. c \in Lanes
    BY <2>1 DEF Lanes
  <2> HIDE DEF c
  <2>4. d \in Lanes /\ ~d.was_in_pit_lane
    BY <2>3 DEF Lanes
  <2> QED BY <1>1, <2>2, <2>4 DEF Visits
<1>2. CASE ~t.lane.was_in_pit_lane
  <2>1. OffLane(t, r, resumed).lane = [t.lane EXCEPT !.seen_in_world = TRUE]
    BY <1>2 DEF OffLane
  <2>2. [t.lane EXCEPT !.seen_in_world = TRUE] \in Lanes /\ ~[t.lane EXCEPT !.seen_in_world = TRUE].was_in_pit_lane
    BY <1>2 DEF Lanes
  <2> QED BY <2>1, <2>2 DEF Visits
<1> QED BY <1>1, <1>2

LEMMA NotInWorldVisits ==
    ASSUME NEW t, t.lane \in Visits, NEW r \in Samples
    PROVE  NotInWorld(t, r).lane \in Visits
<1> DEFINE l == t.lane
           b == IF l.was_in_pit_lane THEN Bank(l, l.last_tick_secs) ELSE l
           x == b.observation_interrupted \/ l.seen_in_world
           y == b.lane_visit_interrupted \/ l.was_in_pit_lane
<1>1. l \in Lanes /\ l.last_tick_secs \in Nat
  BY DEF Visits, Lanes
<1>2. b \in Lanes /\ b.lane_entered = l.lane_entered /\ b.was_in_pit_lane = l.was_in_pit_lane
  <2> HIDE DEF l
  <2>1. Bank(l, l.last_tick_secs) \in Lanes
    BY <1>1, BankType
  <2>2. Bank(l, l.last_tick_secs).lane_entered = l.lane_entered
        /\ Bank(l, l.last_tick_secs).was_in_pit_lane = l.was_in_pit_lane
    BY <1>1 DEF Bank, Lanes
  <2> QED BY <1>1, <2>1, <2>2
<1>3. x \in BOOLEAN /\ y \in BOOLEAN
  OBVIOUS
<1>4. NotInWorld(t, r).lane = [b EXCEPT !.observation_interrupted = x, !.lane_visit_interrupted = y,
                                        !.last_tick_secs = r.now]
  <2>1. NotInWorld(t, r).lane = [b EXCEPT !.observation_interrupted = @ \/ l.seen_in_world,
                                   !.lane_visit_interrupted = @ \/ l.was_in_pit_lane, !.last_tick_secs = r.now]
    BY DEF NotInWorld
  <2> QED BY <2>1, <1>2 DEF Lanes
<1>5. r.now \in Nat
  BY DEF Samples
<1> HIDE DEF b, x, y
<1>6. [b EXCEPT !.observation_interrupted = x, !.lane_visit_interrupted = y, !.last_tick_secs = r.now] \in Lanes
  BY <1>2, <1>3, <1>5 DEF Lanes
<1>7. LET e == [b EXCEPT !.observation_interrupted = x, !.lane_visit_interrupted = y, !.last_tick_secs = r.now]
      IN  e.lane_entered = b.lane_entered /\ e.was_in_pit_lane = b.was_in_pit_lane
  BY <1>2 DEF Lanes
<1> QED BY <1>2, <1>4, <1>6, <1>7 DEF Visits

\* A stint whose histories keep to their bound.
Kept(st) == st \in Stints /\ Len(st.completed) <= StintSamples /\ Len(st.pit_secs) <= StintSamples

LEMMA ResetKept ==
    ASSUME NEW st, Kept(st), NEW exit, exit.secs \in Nat, exit.lap \in Nat, NEW observed \in BOOLEAN
    PROVE  Kept(ResetFromOfficial(st, exit, observed))
<1>1. [secs |-> exit.secs, lap |-> exit.lap] \in Exits
  BY DEF Exits
<1> DEFINE e == [secs |-> exit.secs, lap |-> exit.lap]
           ob == observed
           n == [st EXCEPT !.current_start = e, !.current_start_observed = ob, !.last_pit_secs = None]
<1> HIDE DEF e, ob
<1>2. e \in Exits /\ ob \in BOOLEAN
  BY <1>1 DEF e, ob
<1>3. n \in Stints
  BY <1>2 DEF Kept, Stints
<1>4. n.completed = st.completed /\ n.pit_secs = st.pit_secs
  BY DEF Kept, Stints
<1>5. ResetFromOfficial(st, exit, observed) = n
  BY DEF ResetFromOfficial, e, ob
<1> HIDE DEF n
<1> QED BY <1>3, <1>4, <1>5 DEF Kept

\* A stint is kept when what is remembered of exits changes.
LEMMA MemoKept ==
    ASSUME NEW st, Kept(st)
    PROVE  /\ Kept([st EXCEPT !.pending_uncertain_exit = None])
           /\ Kept([st EXCEPT !.returned_after_gap = None])
           /\ \A x \in Exits \cup {None} : Kept([st EXCEPT !.returned_after_gap = x])
           /\ \A b \in BOOLEAN : Kept([st EXCEPT !.current_start_observed = b])
           /\ \A x \in [secs : Nat, lap : Nat, reset_boundary : BOOLEAN] : Kept([st EXCEPT !.pending_uncertain_exit = x])
           /\ \A x \in Exits, b \in BOOLEAN : Kept([st EXCEPT !.current_start = x, !.current_start_observed = b])
<1>1. Kept([st EXCEPT !.pending_uncertain_exit = None])
  BY DEF Kept, Stints
<1>2. \A x \in Exits \cup {None} : Kept([st EXCEPT !.returned_after_gap = x])
  BY DEF Kept, Stints
<1>3. ASSUME NEW b \in BOOLEAN PROVE Kept([st EXCEPT !.current_start_observed = b])
  BY <1>3 DEF Kept, Stints
<1>4. ASSUME NEW x \in [secs : Nat, lap : Nat, reset_boundary : BOOLEAN]
      PROVE  Kept([st EXCEPT !.pending_uncertain_exit = x])
  BY <1>4 DEF Kept, Stints
<1>5. ASSUME NEW x \in Exits, NEW b \in BOOLEAN
      PROVE  Kept([st EXCEPT !.current_start = x, !.current_start_observed = b])
  BY <1>5 DEF Kept, Stints
<1> QED BY <1>1, <1>2, <1>3, <1>4, <1>5

LEMMA ReconcileKept ==
    ASSUME NEW t, Kept(t.stint), NEW r \in Samples, NEW active,
           NEW just_reset \in BOOLEAN, NEW returned \in BOOLEAN
    PROVE  Kept(ReconcileOfficialStops(t, r, active, just_reset, returned).stint)
<1> DEFINE unmatched == MatchDriveThroughs(MatchLocal(t.books)).official_unmatched
           c == ConfirmExit(t.stint, unmatched, just_reset)
<1>1. Kept(c)
  <2> DEFINE exit == t.stint.pending_uncertain_exit
             taken == [t.stint EXCEPT !.pending_uncertain_exit = None]
  <2>1. Kept(taken)
    BY MemoKept
  <2>2. ASSUME exit # None PROVE Kept(ResetFromOfficial(taken, exit, TRUE))
    <3>1. exit.secs \in Nat /\ exit.lap \in Nat
      BY <2>2 DEF Kept, Stints
    <3> HIDE DEF taken, exit
    <3> QED BY <2>1, <3>1, ResetKept
  <2>3. c = t.stint \/ c = taken \/ (exit # None /\ c = ResetFromOfficial(taken, exit, TRUE))
    <3> HIDE DEF unmatched
    <3> QED BY DEF ConfirmExit
  <2> HIDE DEF c, taken, exit
  <2> QED BY <2>1, <2>2, <2>3
<1> HIDE DEF c, unmatched
<1>2. ASSUME NEW u PROVE Kept(PutUnseen(c, r, u, just_reset, returned))
  <2> DEFINE put == PutUnseen(c, r, u, just_reset, returned)
             forgot == [c EXCEPT !.returned_after_gap = None]
             here == [secs |-> r.now, lap |-> r.lap]
  <2>1. Kept(forgot)
    BY <1>1, MemoKept
  <2>2. ASSUME c.returned_after_gap # None PROVE Kept(ResetFromOfficial(forgot, c.returned_after_gap, FALSE))
    <3>1. c.returned_after_gap.secs \in Nat /\ c.returned_after_gap.lap \in Nat
      BY <1>1, <2>2 DEF Kept, Stints, Exits
    <3> HIDE DEF forgot
    <3> QED BY <2>1, <3>1, ResetKept
  <2>3. Kept(ResetFromOfficial(c, here, FALSE))
    <3>1. here.secs \in Nat /\ here.lap \in Nat
      BY DEF Samples
    <3> HIDE DEF here
    <3> QED BY <1>1, <3>1, ResetKept
  <2>4. \/ put = c
        \/ c.returned_after_gap # None /\ put = ResetFromOfficial(forgot, c.returned_after_gap, FALSE)
        \/ put = ResetFromOfficial(c, here, FALSE)
    <3>1. CASE u = 0 \/ just_reset
      <4>1. u = 0 => ~(u > 0)
        OBVIOUS
      <4> QED BY <3>1, <4>1, Zenon DEF PutUnseen
    <3>2. CASE ~(u = 0 \/ just_reset) /\ u > 0 /\ c.returned_after_gap # None
      BY <3>2 DEF PutUnseen
    <3>3. CASE ~(u = 0 \/ just_reset) /\ u > 0 /\ c.returned_after_gap = None /\ returned
      BY <3>3 DEF PutUnseen
    <3>4. CASE ~(u = 0 \/ just_reset) /\ ~(u > 0 /\ (c.returned_after_gap # None \/ returned))
      BY <3>4 DEF PutUnseen
    <3> QED BY <3>1, <3>2, <3>3, <3>4
  <2> HIDE DEF put, forgot, here
  <2>5. Kept(put)
    BY <1>1, <2>2, <2>3, <2>4
  <2> QED BY <2>5 DEF put
<1>3. ReconcileOfficialStops(t, r, active, just_reset, returned).stint = c
      \/ \E u : ReconcileOfficialStops(t, r, active, just_reset, returned).stint = PutUnseen(c, r, u, just_reset, returned)
  BY DEF ReconcileOfficialStops, c, unmatched
<1> QED BY <1>1, <1>2, <1>3

\* A visit makes a stop only of a stint that has begun.
LEMMA StopEndsAStint ==
    ASSUME NEW l, NEW st, Outcome(l, st) = "stop"
    PROVE  st.current_start # None /\ l.lane_visit_observed /\ (ServiceObserved(l) \/ BlindStopInferred(l))
<1>1. CASE ~l.lane_visit_observed
  BY <1>1 DEF Outcome
<1>2. CASE l.lane_visit_observed /\ ~ServiceObserved(l) /\ ~BlindStopInferred(l)
  BY <1>2 DEF Outcome
<1>3. CASE l.lane_visit_observed /\ (ServiceObserved(l) \/ BlindStopInferred(l))
  BY <1>3 DEF Outcome
<1> QED BY <1>1, <1>2, <1>3

LEMMA EndStintKept ==
    ASSUME NEW st, Kept(st), st.current_start # None, NEW l \in Lanes, l.lane_entered \in Nat, NEW r \in Samples
    PROVE  Kept(EndStint(st, l, r))
<1> DEFINE laps == AtLeast0(r.lap - st.current_start.lap)
           secs == AtLeast0(l.lane_entered - st.current_start.secs)
           measured == ~l.lane_visit_interrupted /\ st.current_start_observed /\ laps >= MinFuelStintLaps
           timed == ServiceObserved(l) /\ ~ServiceTimeUncertain(l)
           done == IF measured THEN Remember(st.completed, [laps |-> laps, secs |-> secs]) ELSE st.completed
           last == IF timed THEN l.stopped_total_secs ELSE None
           pits == IF timed THEN Remember(st.pit_secs, l.stopped_total_secs) ELSE st.pit_secs
           start == [secs |-> r.now, lap |-> r.lap]
           doubt == IF st.pending_uncertain_exit = None THEN st.pending_uncertain_exit
                    ELSE [st.pending_uncertain_exit EXCEPT !.reset_boundary = FALSE]
           n == EndStint(st, l, r)
<1>1. st \in Stints /\ Len(st.completed) <= StintSamples /\ Len(st.pit_secs) <= StintSamples
  BY DEF Kept
<1>2. st.current_start.lap \in Nat /\ st.current_start.secs \in Nat
  BY <1>1 DEF Stints, Exits
<1>3. laps \in Nat /\ secs \in Nat
  <2>1. r.lap - st.current_start.lap \in Int /\ l.lane_entered - st.current_start.secs \in Int
    BY <1>2 DEF Samples
  <2> QED BY <2>1, AtLeast0Type
<1>4. l.stopped_total_secs \in Nat
  BY DEF Lanes
<1>5. done \in Seq([laps : Nat, secs : Nat]) /\ Len(done) <= StintSamples
  <2> HIDE DEF measured, laps, secs
  <2> DEFINE S == [laps : Nat, secs : Nat]
             x == [laps |-> laps, secs |-> secs]
             h == st.completed
  <2>1. x \in S
    BY <1>3
  <2>2. h \in Seq(S) /\ Len(h) <= StintSamples
    BY <1>1 DEF Stints
  <2>a. done = (IF measured THEN Remember(h, x) ELSE h)
    OBVIOUS
  <2> HIDE DEF S, x, h, done
  <2>3. Remember(h, x) \in Seq(S) /\ Len(Remember(h, x)) <= StintSamples
    BY <2>1, <2>2, RememberType
  <2>4. done \in Seq(S) /\ Len(done) <= StintSamples
    BY <2>a, <2>2, <2>3
  <2> QED BY <2>4 DEF S
<1>6. pits \in Seq(Nat) /\ Len(pits) <= StintSamples
  <2> HIDE DEF timed
  <2> DEFINE h == st.pit_secs
             x == l.stopped_total_secs
  <2>2. h \in Seq(Nat) /\ Len(h) <= StintSamples
    BY <1>1 DEF Stints
  <2>a. pits = IF timed THEN Remember(h, x) ELSE h
    OBVIOUS
  <2> HIDE DEF x, h, pits
  <2>b. x \in Nat
    BY <1>4 DEF x
  <2>3. Remember(h, x) \in Seq(Nat) /\ Len(Remember(h, x)) <= StintSamples
    BY <2>b, <2>2, RememberType
  <2> QED BY <2>a, <2>2, <2>3
<1>7. last \in Nat \cup {None} /\ start \in Exits
  BY <1>4 DEF Samples, Exits
<1>8. doubt \in [secs : Nat, lap : Nat, reset_boundary : BOOLEAN] \cup {None}
  BY <1>1 DEF Stints
<1>9. n = [st EXCEPT !.completed = done, !.last_pit_secs = last, !.pit_secs = pits, !.current_start = start,
                     !.current_start_observed = TRUE, !.returned_after_gap = None,
                     !.pending_uncertain_exit = doubt]
  BY <1>1 DEF EndStint, Stints
<1> HIDE DEF laps, secs, measured, timed, done, last, pits, start, doubt, n
<1>10. n = [current_start |-> start, current_start_observed |-> TRUE, completed |-> done,
            pit_secs |-> pits, last_pit_secs |-> last, returned_after_gap |-> None, pending_uncertain_exit |-> doubt]
  BY <1>1, <1>9 DEF Stints
<1>11. n \in Stints
  BY <1>5, <1>6, <1>7, <1>8, <1>10 DEF Stints
<1>12. n.completed = done /\ n.pit_secs = pits
  BY <1>10
<1>13. Kept(n)
  BY <1>5, <1>6, <1>11, <1>12 DEF Kept
<1> QED BY <1>13 DEF n

LEMMA BeginStintKept ==
    ASSUME NEW st, Kept(st), NEW r \in Samples, NEW exited \in BOOLEAN
    PROVE  Kept(BeginStint(st, r, exited))
<1> DEFINE start == [secs |-> r.now, lap |-> r.lap]
           seen == r.lap <= 0 \/ exited
<1>1. start \in Exits
  BY DEF Samples, Exits
<1>2. seen \in BOOLEAN
  OBVIOUS
<1>3. BeginStint(st, r, exited) = st
      \/ BeginStint(st, r, exited) = [st EXCEPT !.current_start = start, !.current_start_observed = seen]
  BY DEF BeginStint
<1> HIDE DEF start, seen
<1>4. Kept([st EXCEPT !.current_start = start, !.current_start_observed = seen])
  BY <1>1, <1>2, MemoKept
<1> QED BY <1>3, <1>4

LEMMA NoteUncertainKept ==
    ASSUME NEW st, Kept(st), NEW r \in Samples
    PROVE  Kept(NoteUncertain(st, r))
<1> DEFINE x == [secs |-> r.now, lap |-> r.lap, reset_boundary |-> TRUE]
<1>1. x \in [secs : Nat, lap : Nat, reset_boundary : BOOLEAN]
  BY DEF Samples
<1> HIDE DEF x
<1>2. Kept([st EXCEPT !.pending_uncertain_exit = x])
  BY <1>1, MemoKept
<1> QED BY <1>2 DEF NoteUncertain, x

\* A state the overlay may hold of a car.
Wellformed(t) ==
    /\ t = [books |-> t.books, lane |-> t.lane, stint |-> t.stint]
    /\ Sound(t.books) /\ t.lane \in Visits /\ Kept(t.stint)

LEMMA OffLaneKept ==
    ASSUME NEW t, t.lane \in Visits, Kept(t.stint), NEW r \in Samples, NEW resumed \in BOOLEAN
    PROVE  Kept(OffLane(t, r, resumed).stint)
<1>1. CASE t.lane.was_in_pit_lane
  <2> DEFINE banked == Bank(t.lane, r.now)
             outcome == Outcome(banked, t.stint)
             closed == [banked EXCEPT !.lane_entered = None, !.stopped_total_secs = 0,
                                      !.anchor_pct = None, !.blind_secs = 0]
             stint == CASE outcome = "stop" -> EndStint(t.stint, banked, r)
                        [] outcome = "uncertain" -> NoteUncertain(t.stint, r)
                        [] OTHER -> t.stint
             counted == [t.books EXCEPT !.pit_count = IF outcome = "stop" THEN @ + 1 ELSE @]
             settled == [books |-> RecordLaneOutcome(counted, outcome),
                         lane |-> [closed EXCEPT !.was_in_pit_lane = FALSE, !.seen_in_world = TRUE],
                         stint |-> BeginStint(stint, r, ~resumed)]
  <2>1. OffLane(t, r, resumed) = ReconcileOfficialStops(settled, r, FALSE, outcome = "stop", FALSE)
    BY <1>1 DEF OffLane, CloseLaneVisit
  <2>2. banked \in Lanes /\ banked.lane_entered \in Nat
    <3>1. t.lane \in Lanes /\ r.now \in Nat
      BY DEF Visits, Samples
    <3>2. banked \in Lanes
      BY <3>1, BankType
    <3>3. banked.lane_entered = t.lane.lane_entered
      <4>1. TRUE \in BOOLEAN
        OBVIOUS
      <4> QED BY <3>1, <4>1, EntryKept
    <3> QED BY <1>1, <3>2, <3>3 DEF Visits
  <2> HIDE DEF banked
  <2>3. outcome = "stop" => t.stint.current_start # None
    BY StopEndsAStint
  <2>4. ASSUME outcome = "stop" PROVE Kept(EndStint(t.stint, banked, r))
    <3>1. t.stint.current_start # None
      BY <2>3, <2>4
    <3> QED BY <2>2, <3>1, EndStintKept
  <2>5. Kept(NoteUncertain(t.stint, r))
    BY NoteUncertainKept
  <2> HIDE DEF outcome
  <2>6. Kept(stint)
    BY <2>4, <2>5
  <2> HIDE DEF stint
  <2>7. Kept(BeginStint(stint, r, ~resumed))
    <3>1. (~resumed) \in BOOLEAN
      OBVIOUS
    <3> QED BY <2>6, <3>1, BeginStintKept
  <2>8. Kept(settled.stint)
    BY <2>7
  <2>9. (outcome = "stop") \in BOOLEAN /\ FALSE \in BOOLEAN
    OBVIOUS
  <2> HIDE DEF settled
  <2>10. Kept(ReconcileOfficialStops(settled, r, FALSE, outcome = "stop", FALSE).stint)
    BY <2>8, <2>9, ReconcileKept
  <2> QED BY <2>1, <2>10
<1>2. CASE ~t.lane.was_in_pit_lane
  <2>1. OffLane(t, r, resumed).stint = BeginStint(t.stint, r, FALSE)
    BY <1>2 DEF OffLane
  <2>2. FALSE \in BOOLEAN
    OBVIOUS
  <2> QED BY <2>1, <2>2, BeginStintKept
<1> QED BY <1>1, <1>2

LEMMA InLaneKept ==
    ASSUME NEW t, Kept(t.stint), NEW r, NEW resumed
    PROVE  Kept(InLane(t, r, resumed).stint)
<1> DEFINE b == t.stint.current_start_observed /\ (t.lane.was_in_pit_lane \/ ~resumed)
<1>1. b \in BOOLEAN
  OBVIOUS
<1>2. InLane(t, r, resumed).stint = [t.stint EXCEPT !.current_start_observed = b]
  BY DEF InLane, Kept, Stints
<1> HIDE DEF b
<1> QED BY <1>1, <1>2, MemoKept

LEMMA InWorldWellformed ==
    ASSUME NEW t, Sound(t.books), t.lane \in Visits, Kept(t.stint), NEW r \in Samples
    PROVE  Wellformed(InWorld(t, r))
<1> DEFINE resumed == t.lane.observation_interrupted
           returned == IF resumed /\ ~r.in_lane THEN [secs |-> r.now, lap |-> r.lap]
                       ELSE t.stint.returned_after_gap
           recent == IF returned # None /\ r.now - returned.secs > ReturnGrace THEN None ELSE returned
           entering == r.in_lane /\ ~t.lane.was_in_pit_lane
           noted == [books |-> [t.books EXCEPT !.pending_drive_throughs = IF entering THEN 0 ELSE @],
                     lane |-> [t.lane EXCEPT !.observation_interrupted = FALSE],
                     stint |-> [t.stint EXCEPT !.returned_after_gap = recent]]
           active == r.in_lane \/ t.lane.was_in_pit_lane
           matched == ReconcileOfficialStops(noted, r, active, FALSE, resumed)
<1>1. resumed \in BOOLEAN
  BY DEF Visits, Lanes
<1>2. recent \in Exits \cup {None}
  <2>1. t.stint.returned_after_gap \in Exits \cup {None}
    BY DEF Kept, Stints
  <2>2. [secs |-> r.now, lap |-> r.lap] \in Exits
    BY DEF Samples, Exits
  <2>3. returned \in Exits \cup {None}
    BY <2>1, <2>2
  <2> HIDE DEF returned
  <2> QED BY <2>3
<1> HIDE DEF recent
<1>3. noted.lane \in Visits
  <2>1. [t.lane EXCEPT !.observation_interrupted = FALSE] \in Lanes
    BY DEF Visits, Lanes
  <2>2. /\ [t.lane EXCEPT !.observation_interrupted = FALSE].lane_entered = t.lane.lane_entered
        /\ [t.lane EXCEPT !.observation_interrupted = FALSE].was_in_pit_lane = t.lane.was_in_pit_lane
    BY DEF Visits, Lanes
  <2> QED BY <2>1, <2>2 DEF Visits
<1>4. Kept(noted.stint)
  <2>1. Kept([t.stint EXCEPT !.returned_after_gap = recent])
    BY <1>2, MemoKept
  <2> QED BY <2>1
<1>5. InWorld(t, r) = IF r.in_lane THEN InLane(matched, r, resumed) ELSE OffLane(matched, r, resumed)
  BY DEF InWorld, recent
<1> HIDE DEF noted, resumed
<1>6. matched.lane \in Visits /\ Kept(matched.stint)
  <2>1. FALSE \in BOOLEAN
    OBVIOUS
  <2>2. Kept(matched.stint)
    BY <1>1, <1>4, <2>1, ReconcileKept
  <2>3. matched.lane = noted.lane
    BY DEF ReconcileOfficialStops
  <2> QED BY <1>3, <2>2, <2>3
<1> HIDE DEF matched
<1>7. InLane(matched, r, resumed).lane \in Visits /\ Kept(InLane(matched, r, resumed).stint)
  BY <1>1, <1>6, InLaneVisits, InLaneKept
<1>8. OffLane(matched, r, resumed).lane \in Visits /\ Kept(OffLane(matched, r, resumed).stint)
  <2>1. matched.lane \in Lanes
    BY <1>6 DEF Visits
  <2> QED BY <1>1, <1>6, <2>1, OffLaneVisits, OffLaneKept
<1>9. /\ LET n == InLane(matched, r, resumed) IN n = [books |-> n.books, lane |-> n.lane, stint |-> n.stint]
      /\ LET n == OffLane(matched, r, resumed) IN n = [books |-> n.books, lane |-> n.lane, stint |-> n.stint]
  BY DEF InLane, OffLane, CloseLaneVisit, ReconcileOfficialStops
<1>10. Sound(InWorld(t, r).books)
  BY InWorldSound
<1> QED BY <1>5, <1>7, <1>8, <1>9, <1>10 DEF Wellformed

LEMMA UpdateWellformed ==
    ASSUME NEW t, Sound(t.books), t.lane \in Visits, Kept(t.stint), NEW r \in Samples
    PROVE  Wellformed(UpdateWithOfficial(t, r))
<1> DEFINE u == [books |-> ObserveOfficialStops(t.books, r.official), lane |-> t.lane, stint |-> t.stint]
<1>1. Sound(u.books)
  <2>1. r.official \in Nat \cup {None}
    BY DEF Samples
  <2> QED BY <2>1, ObserveOfficialStopsSound
<1>2. u.lane \in Visits /\ Kept(u.stint)
  OBVIOUS
<1>3. UpdateWithOfficial(t, r) = IF r.in_world THEN InWorld(u, r) ELSE NotInWorld(u, r)
  BY DEF UpdateWithOfficial
<1> HIDE DEF u
<1>4. Wellformed(InWorld(u, r))
  BY <1>1, <1>2, InWorldWellformed
<1>5. Wellformed(NotInWorld(u, r))
  <2>1. Sound(NotInWorld(u, r).books)
    BY <1>1, PendingDriveThroughsSound DEF NotInWorld
  <2>2. NotInWorld(u, r).lane \in Visits
    BY <1>2, NotInWorldVisits
  <2>3. NotInWorld(u, r).stint = u.stint
        /\ LET n == NotInWorld(u, r) IN n = [books |-> n.books, lane |-> n.lane, stint |-> n.stint]
    BY DEF NotInWorld
  <2> QED BY <1>2, <2>1, <2>2, <2>3 DEF Wellformed
<1> QED BY <1>3, <1>4, <1>5

VisitTypes == [stood : Nat, spells : Nat, spell : Nat, served : BOOLEAN, garaged : BOOLEAN, blinds : Nat]

WorldTypes ==
    /\ world \in Worlds /\ now \in 0..world.secs
    /\ gaps \in Nat /\ blinds \in Nat
    /\ car \in [at : {"track", "lane", "box"}, lap : 0..MaxLap, pos : Nat]
    /\ missing \in [since : Nat, from : {"track", "lane", "box"}] \cup {None} /\ board \in 0..scored \cup {None}
    /\ {stops, countable, last_stop, last_departure, scored} \subseteq Nat
    /\ visit \in VisitTypes

\* The inductive invariant of the types.
TypesInv == WorldTypes /\ Wellformed(s)

Acts == KeepRacing \/ EnterLane \/ Tow \/ StandStill \/ Roll \/ Leave

LEMMA WorldFields ==
    ASSUME world \in Worlds
    PROVE  world \in WorldType /\ world.gaps \in Nat /\ world.blinds \in Nat /\ world.flag \in BOOLEAN /\ world.secs \in Nat
<1>1. world \in WorldType
  BY WorldAssumption
<1> QED BY <1>1 DEF WorldType

LEMMA ActsKeepTypes ==
    ASSUME WorldTypes, Acts, now' \in Nat
    PROVE  /\ car' \in [at : {"track", "lane", "box"}, lap : 0..MaxLap, pos : Nat]
           /\ {stops', countable', last_stop', last_departure', scored'} \subseteq Nat
           /\ visit' \in VisitTypes
           /\ scored' >= scored
<1> DEFINE Cars == [at : {"track", "lane", "box"}, lap : 0..MaxLap, pos : Nat]
<1>1. /\ car \in Cars /\ car.lap \in 0..MaxLap
      /\ stops \in Nat /\ countable \in Nat /\ last_stop \in Nat /\ last_departure \in Nat /\ scored \in Nat
      /\ MaxLap \in Nat /\ blinds \in Nat /\ visit \in VisitTypes
  BY WorldAssumption DEF WorldTypes
<1>a. /\ visit.stood \in Nat /\ visit.spells \in Nat /\ visit.spell \in Nat /\ visit.served \in BOOLEAN
      /\ visit.garaged \in BOOLEAN
  BY <1>1 DEF VisitTypes
<1>c. \A at \in {"track", "lane", "box"}, p \in Nat : [car EXCEPT !.at = at, !.pos = p] \in Cars
  BY <1>1
<1>d. car.pos \in Nat /\ car.pos + 1 \in Nat
  BY <1>1
<1>b. scored + 1 \in Nat /\ countable + 1 \in Nat /\ stops + 1 \in Nat /\ scored + 1 >= scored /\ scored >= scored
  BY <1>1
<1>2. CASE KeepRacing
  <2>1. PICK crosses \in {0, 1} : car.lap + crosses <= MaxLap /\ car' = [car EXCEPT !.lap = @ + crosses]
    BY <1>2 DEF KeepRacing
  <2>2. car.lap + crosses \in 0..MaxLap
    BY <1>1, <2>1
  <2>3. car' \in Cars
    BY <1>1, <2>1, <2>2
  <2>4. visit' = visit /\ stops' = stops /\ countable' = countable /\ last_stop' = last_stop
        /\ last_departure' = last_departure /\ scored' = scored
    BY <1>2 DEF KeepRacing
  <2> QED BY <1>1, <1>b, <2>3, <2>4
<1>3. CASE EnterLane \/ Tow
  <2>1. \A g \in BOOLEAN : NewVisit(g) \in VisitTypes
    BY <1>1 DEF NewVisit, VisitTypes
  <2>2. visit' \in VisitTypes
    <3>1. TRUE \in BOOLEAN /\ FALSE \in BOOLEAN
      OBVIOUS
    <3> QED BY <1>3, <2>1, <3>1 DEF EnterLane, Tow
  <2>3. car' = [car EXCEPT !.at = "lane", !.pos = 1] \/ car' = [car EXCEPT !.at = "box", !.pos = 0]
    BY <1>3 DEF EnterLane, Tow
  <2>4. car' \in Cars
    <3>1. 0 \in Nat /\ 1 \in Nat /\ "lane" \in {"track", "lane", "box"} /\ "box" \in {"track", "lane", "box"}
      OBVIOUS
    <3> HIDE DEF Cars
    <3> QED BY <1>c, <2>3, <3>1, Zenon
  <2>5. stops' = stops /\ countable' = countable /\ last_stop' = last_stop
        /\ last_departure' = last_departure /\ scored' = scored
    BY <1>3 DEF EnterLane, Tow
  <2> QED BY <1>1, <1>b, <2>2, <2>4, <2>5
<1>4. CASE StandStill
  <2> DEFINE served == visit.served \/ (visit.spell + 1 >= Service /\ ~visit.garaged)
             spells == IF visit.spell = 0 /\ car.at = "lane" THEN visit.spells + 1 ELSE visit.spells
  <2>1. served \in BOOLEAN
    BY <1>a
  <2>2. spells \in Nat
    BY <1>a
  <2>3. visit' = [visit EXCEPT !.stood = visit.stood + 1, !.spell = visit.spell + 1, !.spells = spells, !.served = served]
    BY <1>1, <1>4 DEF StandStill, VisitTypes
  <2> HIDE DEF served, spells
  <2>a. visit' = [stood |-> visit.stood + 1, spells |-> spells, spell |-> visit.spell + 1, served |-> served,
                  garaged |-> visit.garaged, blinds |-> visit.blinds]
    BY <1>1, <2>3 DEF VisitTypes
  <2>b. visit.stood + 1 \in Nat /\ visit.spell + 1 \in Nat /\ visit.blinds \in Nat
    BY <1>1 DEF VisitTypes
  <2>4. visit' \in VisitTypes
    BY <1>a, <2>1, <2>2, <2>a, <2>b DEF VisitTypes
  <2>5. scored' \in {scored, scored + 1} /\ countable' \in {countable, countable + 1}
        /\ car' = car /\ stops' = stops /\ last_stop' = last_stop /\ last_departure' = last_departure
    BY <1>4 DEF StandStill
  <2> QED BY <1>1, <1>b, <2>4, <2>5
<1>5. CASE Roll
  <2>1. PICK at \in {"lane", "box"} :
          /\ car' = [car EXCEPT !.at = at, !.pos = @ + 1]
          /\ visit' = [visit EXCEPT !.spell = 0, !.spells = IF at = "box" THEN @ + 1 ELSE @]
    BY <1>5 DEF Roll
  <2> DEFINE spells == IF at = "box" THEN visit.spells + 1 ELSE visit.spells
  <2>2. spells \in Nat
    BY <1>a
  <2>3. visit' = [visit EXCEPT !.spell = 0, !.spells = spells]
    BY <1>1, <2>1 DEF VisitTypes
  <2> HIDE DEF spells
  <2>4. visit' \in VisitTypes
    BY <1>1, <2>2, <2>3 DEF VisitTypes
  <2>5. car' \in Cars
    <3>1. car' = [car EXCEPT !.at = at, !.pos = car.pos + 1]
      BY <1>1, <2>1
    <3>2. at \in {"track", "lane", "box"}
      OBVIOUS
    <3> HIDE DEF Cars
    <3> QED BY <1>c, <1>d, <3>1, <3>2
  <2>6. stops' = stops /\ countable' = countable /\ last_stop' = last_stop
        /\ last_departure' = last_departure /\ scored' = scored
    BY <1>5 DEF Roll
  <2> QED BY <1>1, <1>b, <2>4, <2>5, <2>6
<1>6. CASE Leave
  <2>1. car' = [car EXCEPT !.at = "track"]
    BY <1>6 DEF Leave
  <2>2. car' \in Cars
    BY <1>1, <2>1
  <2>3. scored' \in {scored, scored + 1} /\ countable' \in {countable, countable + 1}
        /\ last_departure' \in {now', last_departure} /\ stops' \in {stops, stops + 1} /\ last_stop' \in {now', last_stop}
        /\ visit' = visit
    BY <1>6 DEF Leave
  <2> QED BY <1>1, <1>b, <2>2, <2>3
<1> QED BY <1>2, <1>3, <1>4, <1>5, <1>6 DEF Acts

LEMMA RowType ==
    ASSUME world \in Worlds, NEW time \in Nat, NEW where, where.lap \in Nat, where.pos \in Nat,
           NEW seen \in BOOLEAN, NEW shown \in BOOLEAN, NEW count \in Nat \cup {None}
    PROVE  Row(time, where, seen, shown, count) \in Samples
<1> DEFINE in == seen /\ where.at # "track"
           stall == seen /\ where.at = "box" /\ world.flag
           pct == IF seen /\ shown THEN where.pos ELSE None
           sn == seen
<1>1. in \in BOOLEAN /\ stall \in BOOLEAN /\ sn \in BOOLEAN
  BY WorldFields
<1>2. pct \in Nat \cup {None}
  OBVIOUS
<1>3. Row(time, where, seen, shown, count) =
        [now |-> time, lap |-> where.lap, official |-> count, in_world |-> sn,
         in_lane |-> in, in_stall |-> stall, pct |-> pct]
  BY DEF Row
<1> HIDE DEF in, stall, pct, sn
<1> QED BY <1>1, <1>2, <1>3 DEF Samples

LEMMA TypesInit == Init => TypesInv
<1> SUFFICES ASSUME Init PROVE TypesInv
  OBVIOUS
<1>1. /\ world \in Worlds /\ now = 0 /\ gaps = world.gaps /\ blinds = world.blinds /\ missing = None
      /\ visit = NewVisit(TRUE) /\ stops = 0 /\ countable = 0 /\ last_stop = 0 /\ last_departure = 0 /\ scored = 0
      /\ s = UpdateWithOfficial(Fresh, Row(0, car, TRUE, TRUE, board))
  BY DEF Init
<1>2. board \in {0, None}
  BY DEF Init
<1>3. car \in [at : {"track", "lane", "box"}, lap : 0..MaxLap, pos : Nat]
  <2>1. 0 \in 0..MaxLap /\ 1 \in 0..MaxLap /\ 0 \in Nat
    BY WorldAssumption
  <2>2. car \in {[at |-> "track", lap |-> 0, pos |-> 0], [at |-> "track", lap |-> 1, pos |-> 0],
                 [at |-> "box", lap |-> 0, pos |-> 0]}
    BY DEF Init
  <2> QED BY <2>1, <2>2
<1>4. gaps \in Nat /\ blinds \in Nat /\ now \in 0..world.secs
  BY <1>1, WorldFields
<1>5. visit \in VisitTypes
  BY <1>1, <1>4 DEF NewVisit, VisitTypes
<1>6. WorldTypes
  <2>1. scored = 0 /\ 0 \in Nat
    BY <1>1
  <2>2. board \in 0..scored \cup {None}
    BY <1>2, <2>1
  <2>3. {stops, countable, last_stop, last_departure, scored} \subseteq Nat
    BY <1>1
  <2>4. missing \in [since : Nat, from : {"track", "lane", "box"}] \cup {None} /\ world \in Worlds
    BY <1>1
  <2> QED BY <1>3, <1>4, <1>5, <2>2, <2>3, <2>4 DEF WorldTypes
<1>7. Row(0, car, TRUE, TRUE, board) \in Samples
  <2>1. car.lap \in Nat /\ car.pos \in Nat
    BY <1>3, WorldAssumption
  <2>2. board \in Nat \cup {None}
    BY <1>2
  <2>3. TRUE \in BOOLEAN /\ 0 \in Nat
    OBVIOUS
  <2>4. world \in Worlds
    BY <1>1
  <2> QED BY <2>1, <2>2, <2>3, <2>4, RowType
<1>8. Sound(Fresh.books)
  BY StintAssumption DEF Fresh, Sound, Books, BooksBalance
<1>9. Fresh.lane \in Visits
  BY DEF Fresh, Visits, Lanes
<1>10. Kept(Fresh.stint)
  <2>1. Fresh.stint \in Stints
    BY DEF Fresh, Stints
  <2>2. Fresh.stint.completed = <<>> /\ Fresh.stint.pit_secs = <<>>
    BY DEF Fresh
  <2>3. StintSamples \in Nat
    BY StintAssumption
  <2> QED BY <2>1, <2>2, <2>3 DEF Kept
<1>11. Wellformed(s)
  BY <1>1, <1>7, <1>8, <1>9, <1>10, UpdateWellformed
<1> QED BY <1>6, <1>11 DEF TypesInv

\* A second, whatever happens in it: what is sampled, and what the sample does.
LEMMA SecondFacts ==
    ASSUME Second
    PROVE  /\ now < world.secs /\ now' = now + 1 /\ world' = world /\ Acts /\ Publish
           /\ \E seen, shown \in BOOLEAN : Visibility(seen) /\ Position(shown) /\ Sample(shown)
BY DEF Second, Acts

LEMMA TypesNext == TypesInv /\ [Next]_vars => TypesInv'
<1> SUFFICES ASSUME TypesInv, [Next]_vars PROVE TypesInv'
  OBVIOUS
<1>1. CASE UNCHANGED vars
  BY <1>1 DEF TypesInv, WorldTypes, vars, carVars
<1>2. CASE Second
  <2>1. WorldTypes /\ Wellformed(s)
    BY DEF TypesInv
  <2>2. now < world.secs /\ now' = now + 1 /\ world' = world /\ Acts /\ Publish
    BY <1>2, SecondFacts
  <2>3. PICK seen \in BOOLEAN, shown \in BOOLEAN : Visibility(seen) /\ Position(shown) /\ Sample(shown)
    BY <1>2, SecondFacts
  <2>4. world \in Worlds /\ world.secs \in Nat /\ now \in 0..world.secs
    BY <2>1, WorldFields DEF WorldTypes
  <2>5. now' \in Nat /\ now' \in 0..world'.secs
    BY <2>2, <2>4
  <2>6. /\ car' \in [at : {"track", "lane", "box"}, lap : 0..MaxLap, pos : Nat]
        /\ {stops', countable', last_stop', last_departure', scored'} \subseteq Nat
        /\ visit' \in VisitTypes /\ scored' >= scored
    BY <2>1, <2>2, <2>5, ActsKeepTypes
  <2>7. gaps' \in Nat
    BY <2>1, <2>3 DEF Visibility, WorldTypes
  <2>8. blinds' \in Nat
    BY <2>1, <2>3 DEF Position, WorldTypes
  <2>9. missing' \in [since : Nat, from : {"track", "lane", "box"}] \cup {None}
    <3>1. car.at \in {"track", "lane", "box"} /\ missing \in [since : Nat, from : {"track", "lane", "box"}] \cup {None}
      BY <2>1 DEF WorldTypes
    <3>2. [since |-> now', from |-> car.at] \in [since : Nat, from : {"track", "lane", "box"}]
      BY <2>5, <3>1
    <3>3. missing' \in {None, [since |-> now', from |-> car.at], missing}
      BY <2>3 DEF Visibility
    <3> QED BY <3>1, <3>2, <3>3
  <2>10. board' \in 0..scored' \cup {None}
    <3>1. board' = board \/ board' \in 0..scored'
      BY <2>2 DEF Publish
    <3>2. board \in 0..scored \cup {None} /\ scored \in Nat
      BY <2>1 DEF WorldTypes
    <3> QED BY <2>6, <3>1, <3>2
  <2>11. WorldTypes'
    BY <2>2, <2>4, <2>5, <2>6, <2>7, <2>8, <2>9, <2>10 DEF WorldTypes
  <2> DEFINE r == Row(now', car', missing' = None, shown, board')
             u == UpdateWithOfficial(s, r)
  <2>12. r \in Samples
    <3>1. car'.lap \in Nat /\ car'.pos \in Nat
      BY <2>6, WorldAssumption
    <3>2. board' \in Nat \cup {None}
      BY <2>6, <2>10
    <3>3. (missing' = None) \in BOOLEAN
      OBVIOUS
    <3> QED BY <2>4, <2>5, <3>1, <3>2, <3>3, RowType
  <2>13. s' = Vouched(u)
    BY <2>3 DEF Sample
  <2> HIDE DEF r
  <2>14. Wellformed(u)
    BY <2>1, <2>12, UpdateWellformed DEF Wellformed
  <2> HIDE DEF u
  <2>15. Wellformed(s')
    <3> DEFINE b == u.stint.current_start_observed /\ ~(missing' # None /\ now' - missing'.since >= PitLoss)
    <3>1. b \in BOOLEAN
      OBVIOUS
    <3>2. Vouched(u) = [books |-> u.books, lane |-> u.lane, stint |-> [u.stint EXCEPT !.current_start_observed = b]]
      BY <2>14 DEF Vouched, Wellformed, Kept, Stints
    <3> HIDE DEF b
    <3>3. Kept([u.stint EXCEPT !.current_start_observed = b])
      BY <2>14, <3>1, MemoKept DEF Wellformed
    <3> QED BY <2>13, <2>14, <3>2, <3>3 DEF Wellformed
  <2> QED BY <2>11, <2>15 DEF TypesInv
<1> QED BY <1>1, <1>2 DEF Next

\* In every run what the overlay holds of the car is a StintState, and the
\* samples a car's averages are taken from are no more than it keeps
\* (STINT_SAMPLES, session.rs).
THEOREM StintTypeCorrect == Spec => []TypeOK
<1>1. TypesInv => TypeOK
  <2> SUFFICES ASSUME TypesInv PROVE TypeOK
    OBVIOUS
  <2>1. s \in StintStates /\ Len(s.stint.completed) <= StintSamples /\ Len(s.stint.pit_secs) <= StintSamples
    BY DEF TypesInv, Wellformed, Sound, Visits, Kept, StintStates
  <2> QED BY <2>1 DEF TypesInv, WorldTypes, TypeOK
<1> QED BY TypesInit, TypesNext, <1>1, PTL DEF Spec

-----------------------------------------------------------------------------
(* What a sample does to the visit.                                          *)

\* Of a car out of the world: a visit is interrupted.
LEMMA LaneUnseen ==
    ASSUME NEW t, t.lane \in Lanes, NEW r \in Samples, ~r.in_world,
           NEW u, u = UpdateWithOfficial(t, r)
    PROVE  /\ u.lane.was_in_pit_lane <=> t.lane.was_in_pit_lane
           /\ u.lane.seen_in_world <=> t.lane.seen_in_world
           /\ t.lane.seen_in_world => u.lane.observation_interrupted
           /\ u.lane.was_in_pit_lane => u.lane.lane_visit_interrupted
           /\ u.books.pit_count = ObserveOfficialStops(t.books, r.official).pit_count
<1> DEFINE l == t.lane
           b == IF l.was_in_pit_lane THEN Bank(l, l.last_tick_secs) ELSE l
           x == b.observation_interrupted \/ l.seen_in_world
           y == b.lane_visit_interrupted \/ l.was_in_pit_lane
           o == ObserveOfficialStops(t.books, r.official)
<1>1. l.last_tick_secs \in Nat
  BY DEF Lanes
<1>2. b \in Lanes /\ b.was_in_pit_lane = l.was_in_pit_lane /\ b.seen_in_world = l.seen_in_world
  <2> HIDE DEF l
  <2>0. l \in Lanes
    BY DEF l
  <2>1. Bank(l, l.last_tick_secs) \in Lanes
    BY <2>0, <1>1, BankType
  <2>2. Bank(l, l.last_tick_secs).seen_in_world = l.seen_in_world
        /\ Bank(l, l.last_tick_secs).was_in_pit_lane = l.was_in_pit_lane
    BY <2>0 DEF Bank, Lanes
  <2> QED BY <2>0, <2>1, <2>2
<1>3. u.lane = [b EXCEPT !.observation_interrupted = x, !.lane_visit_interrupted = y, !.last_tick_secs = r.now]
  <2>1. u.lane = [b EXCEPT !.observation_interrupted = @ \/ l.seen_in_world,
                           !.lane_visit_interrupted = @ \/ l.was_in_pit_lane, !.last_tick_secs = r.now]
    BY DEF UpdateWithOfficial, NotInWorld
  <2> QED BY <2>1, <1>2 DEF Lanes
<1>4. (l.seen_in_world => x) /\ (l.was_in_pit_lane => y) /\ x \in BOOLEAN /\ y \in BOOLEAN
  OBVIOUS
<1> HIDE DEF b, x, y
<1>5. /\ u.lane.was_in_pit_lane = b.was_in_pit_lane /\ u.lane.seen_in_world = b.seen_in_world
      /\ u.lane.observation_interrupted = x /\ u.lane.lane_visit_interrupted = y
  BY <1>2, <1>3 DEF Lanes
<1>6. u.books = [o EXCEPT !.pending_drive_throughs = 0]
  BY DEF UpdateWithOfficial, NotInWorld
<1>7. u.books.pit_count = o.pit_count
  <2>1. o.pit_count = [o EXCEPT !.pending_drive_throughs = 0].pit_count
    OBVIOUS
  <2> QED BY <1>6, <2>1
<1> QED BY <1>2, <1>4, <1>5, <1>7

\* What InLane and OffLane are given of the lane.
Noted(l) == [l EXCEPT !.observation_interrupted = FALSE]

LEMMA LaneInLane ==
    ASSUME NEW t, NEW r, r.in_world, r.in_lane
    PROVE  LET resumed == t.lane.observation_interrupted
           IN  UpdateWithOfficial(t, r).lane =
                 [Stand(Watch(EnterOrResume(Noted(t.lane), r, resumed), r, resumed), r) EXCEPT
                    !.was_in_pit_lane = TRUE, !.seen_in_world = TRUE]
BY DEF UpdateWithOfficial, InWorld, InLane, ReconcileOfficialStops, Noted

\* What standing does: the spell under way is kept, begun or banked.
LEMMA StandFields ==
    ASSUME NEW l \in Lanes, NEW r \in Samples, NEW d, d = Stand(l, r)
    PROVE  /\ d \in Lanes
           /\ d.was_in_pit_lane = l.was_in_pit_lane /\ d.seen_in_world = l.seen_in_world
           /\ d.observation_interrupted = l.observation_interrupted
           /\ d.anchor_pct = l.anchor_pct /\ d.last_moved_secs = l.last_moved_secs
           /\ d.last_tick_secs = l.last_tick_secs /\ d.lane_visit_observed = l.lane_visit_observed
           /\ d.blind_secs = l.blind_secs /\ d.lane_visit_interrupted = l.lane_visit_interrupted
           /\ ~Frozen(l, r) /\ ~r.in_stall =>
                /\ d.stopped_since = None
                /\ l.stopped_since = None => d.stopped_total_secs = l.stopped_total_secs
                /\ l.stopped_since # None =>
                     d.stopped_total_secs = l.stopped_total_secs + AtLeast0(r.now - l.stopped_since)
           /\ Frozen(l, r) \/ r.in_stall =>
                /\ d.stopped_total_secs = l.stopped_total_secs
                /\ l.stopped_since # None => d.stopped_since = l.stopped_since
                /\ l.stopped_since = None =>
                     d.stopped_since = IF Frozen(l, r) THEN l.last_moved_secs ELSE r.now
<1> DEFINE f == Frozen(l, r)
           n == AtLeast0(r.now - l.stopped_since)
           since == IF f THEN l.last_moved_secs ELSE r.now
<1>1. CASE ~f /\ ~r.in_stall /\ l.stopped_since = None
  <2>1. d = l
    BY <1>1 DEF Stand, Bank
  <2> HIDE DEF f, n
  <2> QED BY <1>1, <2>1 DEF f
<1>2. CASE ~f /\ ~r.in_stall /\ l.stopped_since # None
  <2>1. d = [l EXCEPT !.stopped_since = None, !.stopped_total_secs = l.stopped_total_secs + n]
    BY <1>2 DEF Stand, Bank, Lanes
  <2>2. d \in Lanes
    BY StandType
  <2> HIDE DEF f, n
  <2>3. /\ d.was_in_pit_lane = l.was_in_pit_lane /\ d.seen_in_world = l.seen_in_world
        /\ d.observation_interrupted = l.observation_interrupted
        /\ d.anchor_pct = l.anchor_pct /\ d.last_moved_secs = l.last_moved_secs
        /\ d.last_tick_secs = l.last_tick_secs /\ d.lane_visit_observed = l.lane_visit_observed
        /\ d.blind_secs = l.blind_secs /\ d.lane_visit_interrupted = l.lane_visit_interrupted
    BY <2>1 DEF Lanes
  <2>4. d.stopped_since = None /\ d.stopped_total_secs = l.stopped_total_secs + n
    BY <2>1 DEF Lanes
  <2> QED BY <1>2, <2>2, <2>3, <2>4 DEF f, n
<1>3. CASE (f \/ r.in_stall) /\ l.stopped_since # None
  <2>1. d = l
    BY <1>3 DEF Stand
  <2> HIDE DEF f, n
  <2> QED BY <1>3, <2>1 DEF f
<1>4. CASE (f \/ r.in_stall) /\ l.stopped_since = None
  <2>1. d = [l EXCEPT !.stopped_since = since]
    BY <1>4 DEF Stand
  <2>2. d \in Lanes
    BY StandType
  <2> HIDE DEF f, n, since
  <2>3. /\ d.was_in_pit_lane = l.was_in_pit_lane /\ d.seen_in_world = l.seen_in_world
        /\ d.observation_interrupted = l.observation_interrupted
        /\ d.anchor_pct = l.anchor_pct /\ d.last_moved_secs = l.last_moved_secs
        /\ d.last_tick_secs = l.last_tick_secs /\ d.lane_visit_observed = l.lane_visit_observed
        /\ d.blind_secs = l.blind_secs /\ d.lane_visit_interrupted = l.lane_visit_interrupted
    BY <2>1 DEF Lanes
  <2>4. d.stopped_since = since /\ d.stopped_total_secs = l.stopped_total_secs
    BY <2>1 DEF Lanes
  <2> QED BY <1>4, <2>2, <2>3, <2>4 DEF f, since
<1> QED BY <1>1, <1>2, <1>3, <1>4

\* What watching does.
LEMMA WatchFields ==
    ASSUME NEW l \in Lanes, NEW r \in Samples, NEW resumed \in BOOLEAN, NEW w, w = Watch(l, r, resumed)
    PROVE  /\ w \in Lanes
           /\ w.was_in_pit_lane = l.was_in_pit_lane /\ w.seen_in_world = l.seen_in_world
           /\ w.observation_interrupted = l.observation_interrupted
           /\ w.lane_visit_observed = l.lane_visit_observed
           /\ w.lane_visit_interrupted = l.lane_visit_interrupted
           /\ w.stopped_since = l.stopped_since /\ w.stopped_total_secs = l.stopped_total_secs
           /\ w.last_tick_secs = r.now
           /\ r.pct # None => w.anchor_pct = r.pct
           /\ r.pct = None => w.anchor_pct = l.anchor_pct
           /\ r.pct # None /\ r.pct # l.anchor_pct => w.last_moved_secs = r.now
           /\ ~(r.pct # None /\ r.pct # l.anchor_pct) => w.last_moved_secs = l.last_moved_secs
           /\ r.pct # None \/ resumed \/ ~l.was_in_pit_lane => w.blind_secs = l.blind_secs
           /\ r.pct = None /\ ~resumed /\ l.was_in_pit_lane =>
                w.blind_secs = l.blind_secs + AtLeast0(r.now - l.last_tick_secs)
<1> DEFINE moved == r.pct # None /\ r.pct # l.anchor_pct
           n == AtLeast0(r.now - l.last_tick_secs)
           tick == IF l.was_in_pit_lane THEN n ELSE 0
           stall == l.stall_observed \/ r.in_stall
           blind == IF r.pct = None /\ ~resumed THEN l.blind_secs + tick ELSE l.blind_secs
           anchor == IF moved THEN r.pct ELSE l.anchor_pct
           last == IF moved THEN r.now ELSE l.last_moved_secs
<1>1. w = [l EXCEPT !.last_tick_secs = r.now, !.blind_secs = blind, !.stall_observed = stall,
                    !.anchor_pct = anchor, !.last_moved_secs = last]
  BY DEF Watch, Lanes
<1>2. w \in Lanes
  BY WatchType
<1>3. l.blind_secs \in Nat
  BY DEF Lanes
<1> HIDE DEF moved, n, tick, stall, blind, anchor, last
<1>4. /\ w.was_in_pit_lane = l.was_in_pit_lane /\ w.seen_in_world = l.seen_in_world
      /\ w.observation_interrupted = l.observation_interrupted
      /\ w.lane_visit_observed = l.lane_visit_observed
      /\ w.lane_visit_interrupted = l.lane_visit_interrupted
      /\ w.stopped_since = l.stopped_since /\ w.stopped_total_secs = l.stopped_total_secs
      /\ w.last_tick_secs = r.now
  BY <1>1 DEF Lanes
<1>5. w.anchor_pct = anchor /\ w.last_moved_secs = last /\ w.blind_secs = blind
  BY <1>1 DEF Lanes
<1>6. /\ r.pct # None => anchor = r.pct
      /\ r.pct = None => anchor = l.anchor_pct
      /\ r.pct # None /\ r.pct # l.anchor_pct => last = r.now
      /\ ~(r.pct # None /\ r.pct # l.anchor_pct) => last = l.last_moved_secs
  BY DEF anchor, last, moved
<1>7. /\ r.pct # None \/ resumed \/ ~l.was_in_pit_lane => blind = l.blind_secs
      /\ r.pct = None /\ ~resumed /\ l.was_in_pit_lane => blind = l.blind_secs + n
  BY <1>3 DEF blind, tick
<1> QED BY <1>2, <1>4, <1>5, <1>6, <1>7 DEF n

LEMMA NotedFields ==
    ASSUME NEW l \in Lanes, NEW m, m = Noted(l)
    PROVE  /\ m \in Lanes /\ ~m.observation_interrupted
           /\ m.was_in_pit_lane = l.was_in_pit_lane /\ m.seen_in_world = l.seen_in_world
           /\ m.anchor_pct = l.anchor_pct /\ m.last_moved_secs = l.last_moved_secs
           /\ m.stopped_since = l.stopped_since /\ m.stopped_total_secs = l.stopped_total_secs
           /\ m.last_tick_secs = l.last_tick_secs /\ m.lane_visit_observed = l.lane_visit_observed
           /\ m.blind_secs = l.blind_secs /\ m.lane_visit_interrupted = l.lane_visit_interrupted
BY DEF Noted, Lanes

LEMMA EndLane ==
    ASSUME NEW d \in Lanes, NEW e, e = [d EXCEPT !.was_in_pit_lane = TRUE, !.seen_in_world = TRUE]
    PROVE  /\ e \in Lanes /\ e.was_in_pit_lane /\ e.seen_in_world
           /\ e.observation_interrupted = d.observation_interrupted
           /\ e.anchor_pct = d.anchor_pct /\ e.last_moved_secs = d.last_moved_secs
           /\ e.stopped_since = d.stopped_since /\ e.stopped_total_secs = d.stopped_total_secs
           /\ e.last_tick_secs = d.last_tick_secs /\ e.lane_visit_observed = d.lane_visit_observed
           /\ e.blind_secs = d.blind_secs /\ e.lane_visit_interrupted = d.lane_visit_interrupted
BY DEF Lanes

\* Of a car seen in the lane that was not: a visit begins.
LEMMA LaneEnters ==
    ASSUME NEW t, t.lane \in Lanes, NEW r \in Samples, r.in_world, r.in_lane, ~t.lane.was_in_pit_lane,
           NEW e, e = UpdateWithOfficial(t, r).lane
    PROVE  /\ e \in Lanes /\ e.was_in_pit_lane /\ e.seen_in_world /\ ~e.observation_interrupted
           /\ e.lane_visit_observed <=> (t.lane.seen_in_world /\ ~t.lane.observation_interrupted)
           /\ ~e.lane_visit_interrupted
           /\ e.last_tick_secs = r.now /\ e.blind_secs = 0 /\ e.stopped_total_secs = 0
           /\ e.anchor_pct = r.pct /\ e.last_moved_secs = r.now
           /\ ~r.in_stall => e.stopped_since = None
<1> DEFINE resumed == t.lane.observation_interrupted
           m == Noted(t.lane)
           n == EnterOrResume(m, r, resumed)
           w == Watch(n, r, resumed)
           d == Stand(w, r)
<1>1. resumed \in BOOLEAN
  BY DEF Lanes
<1>2. e = [d EXCEPT !.was_in_pit_lane = TRUE, !.seen_in_world = TRUE]
  BY LaneInLane
<1>3. m \in Lanes /\ ~m.was_in_pit_lane /\ m.seen_in_world = t.lane.seen_in_world /\ ~m.observation_interrupted
  BY NotedFields
<1> HIDE DEF resumed, m
<1>4. n \in Lanes
  BY <1>1, <1>3, EnterOrResumeType
<1>5. /\ ~n.was_in_pit_lane /\ ~n.observation_interrupted /\ (n.lane_visit_observed <=> (m.seen_in_world /\ ~resumed))
      /\ ~n.lane_visit_interrupted /\ n.blind_secs = 0 /\ n.stopped_total_secs = 0 /\ n.anchor_pct = r.pct
      /\ n.last_moved_secs = r.now /\ n.stopped_since = None
  <2> DEFINE obs == m.seen_in_world /\ ~resumed
             stall == r.in_stall
  <2>1. n = [m EXCEPT !.lane_entered = r.now, !.anchor_pct = r.pct, !.last_moved_secs = r.now,
                      !.stopped_since = None, !.stopped_total_secs = 0,
                      !.lane_visit_observed = obs,
                      !.blind_secs = 0, !.stall_observed = stall, !.lane_visit_interrupted = FALSE]
    BY <1>3 DEF EnterOrResume
  <2> HIDE DEF obs, stall, n
  <2>2. /\ n.was_in_pit_lane = m.was_in_pit_lane /\ n.observation_interrupted = m.observation_interrupted
        /\ n.lane_visit_observed = obs
        /\ n.lane_visit_interrupted = FALSE /\ n.blind_secs = 0 /\ n.stopped_total_secs = 0 /\ n.anchor_pct = r.pct
        /\ n.last_moved_secs = r.now /\ n.stopped_since = None
    BY <1>3, <2>1 DEF Lanes
  <2>3. obs <=> (m.seen_in_world /\ ~resumed)
    BY DEF obs
  <2> QED BY <1>3, <2>2, <2>3
<1> HIDE DEF n
<1>6. /\ w \in Lanes
      /\ w.observation_interrupted = n.observation_interrupted
      /\ w.lane_visit_observed = n.lane_visit_observed
      /\ w.lane_visit_interrupted = n.lane_visit_interrupted
      /\ w.stopped_since = n.stopped_since /\ w.stopped_total_secs = n.stopped_total_secs
      /\ w.last_tick_secs = r.now
      /\ w.anchor_pct = r.pct /\ w.last_moved_secs = r.now /\ w.blind_secs = 0
  <2>1. r.pct # None \/ r.pct = None
    OBVIOUS
  <2> HIDE DEF w
  <2>2. w = Watch(n, r, resumed)
    BY DEF w
  <2> QED BY <1>1, <1>4, <1>5, <2>1, <2>2, WatchFields
<1> HIDE DEF w
<1>7. ~Frozen(w, r)
  <2>1. r.now \in Nat
    BY DEF Samples
  <2>2. StoppedConfirm \in Nat /\ StoppedConfirm # 0
    BY StintAssumption
  <2> QED BY <1>6, <2>1, <2>2 DEF Frozen
<1>8. /\ d \in Lanes
      /\ d.observation_interrupted = w.observation_interrupted
      /\ d.anchor_pct = w.anchor_pct /\ d.last_moved_secs = w.last_moved_secs
      /\ d.last_tick_secs = w.last_tick_secs /\ d.lane_visit_observed = w.lane_visit_observed
      /\ d.blind_secs = w.blind_secs /\ d.lane_visit_interrupted = w.lane_visit_interrupted
      /\ d.stopped_total_secs = w.stopped_total_secs
      /\ ~r.in_stall => d.stopped_since = None
  <2>2. d = Stand(w, r)
    BY DEF d
  <2> HIDE DEF d
  <2> QED BY <1>5, <1>6, <1>7, <2>2, StandFields
<1> HIDE DEF d
<1>9. /\ e \in Lanes /\ e.was_in_pit_lane /\ e.seen_in_world
      /\ e.observation_interrupted = d.observation_interrupted
      /\ e.anchor_pct = d.anchor_pct /\ e.last_moved_secs = d.last_moved_secs
      /\ e.stopped_since = d.stopped_since /\ e.stopped_total_secs = d.stopped_total_secs
      /\ e.last_tick_secs = d.last_tick_secs /\ e.lane_visit_observed = d.lane_visit_observed
      /\ e.blind_secs = d.blind_secs /\ e.lane_visit_interrupted = d.lane_visit_interrupted
  <2>1. d \in Lanes
    BY <1>8
  <2> QED BY <1>2, <2>1, EndLane, Zenon
<1>10. e.lane_visit_observed <=> (t.lane.seen_in_world /\ ~t.lane.observation_interrupted)
  <2>1. e.lane_visit_observed = n.lane_visit_observed
    BY <1>6, <1>8, <1>9
  <2>2. n.lane_visit_observed <=> (t.lane.seen_in_world /\ ~resumed)
    BY <1>3, <1>5
  <2> QED BY <2>1, <2>2, Zenon DEF resumed
<1>11. ~e.observation_interrupted /\ ~e.lane_visit_interrupted
  BY <1>3, <1>5, <1>6, <1>8, <1>9
<1>12. /\ e.last_tick_secs = r.now /\ e.blind_secs = 0 /\ e.stopped_total_secs = 0
       /\ e.anchor_pct = r.pct /\ e.last_moved_secs = r.now
       /\ ~r.in_stall => e.stopped_since = None
  BY <1>5, <1>6, <1>8, <1>9
<1> QED BY <1>9, <1>10, <1>11, <1>12

\* Of a car seen in the lane as it was before: the visit goes on.
LEMMA LaneContinues ==
    ASSUME NEW t, t.lane \in Lanes, NEW r \in Samples, r.in_world, r.in_lane, t.lane.was_in_pit_lane,
           NEW e, e = UpdateWithOfficial(t, r).lane
    PROVE  /\ e \in Lanes /\ e.was_in_pit_lane /\ e.seen_in_world /\ ~e.observation_interrupted
           /\ e.lane_visit_observed = t.lane.lane_visit_observed
           /\ e.lane_visit_interrupted = t.lane.lane_visit_interrupted
           /\ e.last_tick_secs = r.now
           /\ ~t.lane.observation_interrupted =>
                \E w \in Lanes :
                    /\ w.stopped_since = t.lane.stopped_since /\ w.stopped_total_secs = t.lane.stopped_total_secs
                    /\ r.pct # None => w.anchor_pct = r.pct
                    /\ r.pct = None => w.anchor_pct = t.lane.anchor_pct
                    /\ r.pct # None /\ r.pct # t.lane.anchor_pct => w.last_moved_secs = r.now
                    /\ ~(r.pct # None /\ r.pct # t.lane.anchor_pct) => w.last_moved_secs = t.lane.last_moved_secs
                    /\ r.pct # None => w.blind_secs = t.lane.blind_secs
                    /\ r.pct = None => w.blind_secs = t.lane.blind_secs + AtLeast0(r.now - t.lane.last_tick_secs)
                    /\ e.anchor_pct = w.anchor_pct /\ e.last_moved_secs = w.last_moved_secs
                    /\ e.blind_secs = w.blind_secs
                    /\ e.stopped_total_secs = Stand(w, r).stopped_total_secs
                    /\ e.stopped_since = Stand(w, r).stopped_since
<1> DEFINE resumed == t.lane.observation_interrupted
           m == Noted(t.lane)
           n == EnterOrResume(m, r, resumed)
           w == Watch(n, r, resumed)
           d == Stand(w, r)
<1>1. resumed \in BOOLEAN
  BY DEF Lanes
<1>2. e = [d EXCEPT !.was_in_pit_lane = TRUE, !.seen_in_world = TRUE]
  BY LaneInLane
<1>3. /\ m \in Lanes /\ m.was_in_pit_lane /\ ~m.observation_interrupted
      /\ m.anchor_pct = t.lane.anchor_pct /\ m.last_moved_secs = t.lane.last_moved_secs
      /\ m.stopped_since = t.lane.stopped_since /\ m.stopped_total_secs = t.lane.stopped_total_secs
      /\ m.last_tick_secs = t.lane.last_tick_secs /\ m.lane_visit_observed = t.lane.lane_visit_observed
      /\ m.blind_secs = t.lane.blind_secs /\ m.lane_visit_interrupted = t.lane.lane_visit_interrupted
  BY NotedFields
<1> HIDE DEF m
<1>4. n \in Lanes
  BY <1>1, <1>3, EnterOrResumeType
<1>5. /\ ~resumed => n = m
      /\ n.was_in_pit_lane = m.was_in_pit_lane /\ n.observation_interrupted = m.observation_interrupted
      /\ n.lane_visit_observed = m.lane_visit_observed /\ n.lane_visit_interrupted = m.lane_visit_interrupted
  <2>1. n = m \/ n = [m EXCEPT !.anchor_pct = r.pct, !.last_moved_secs = r.now]
    BY <1>3 DEF EnterOrResume
  <2>2. ~resumed => n = m
    BY <1>3 DEF EnterOrResume
  <2> HIDE DEF n
  <2> QED BY <1>3, <2>1, <2>2 DEF Lanes
<1> HIDE DEF n
<1>6. /\ w \in Lanes
      /\ w.observation_interrupted = n.observation_interrupted
      /\ w.lane_visit_observed = n.lane_visit_observed
      /\ w.lane_visit_interrupted = n.lane_visit_interrupted
      /\ w.stopped_since = n.stopped_since /\ w.stopped_total_secs = n.stopped_total_secs
      /\ w.last_tick_secs = r.now
      /\ r.pct # None => w.anchor_pct = r.pct
      /\ r.pct = None => w.anchor_pct = n.anchor_pct
      /\ r.pct # None /\ r.pct # n.anchor_pct => w.last_moved_secs = r.now
      /\ ~(r.pct # None /\ r.pct # n.anchor_pct) => w.last_moved_secs = n.last_moved_secs
      /\ r.pct # None \/ resumed \/ ~n.was_in_pit_lane => w.blind_secs = n.blind_secs
      /\ r.pct = None /\ ~resumed /\ n.was_in_pit_lane =>
           w.blind_secs = n.blind_secs + AtLeast0(r.now - n.last_tick_secs)
  <2> HIDE DEF resumed
  <2>2. w = Watch(n, r, resumed)
    BY DEF w
  <2> HIDE DEF w
  <2> QED BY <1>1, <1>4, <2>2, WatchFields
<1> HIDE DEF w
<1>8. /\ d \in Lanes
      /\ d.observation_interrupted = w.observation_interrupted
      /\ d.anchor_pct = w.anchor_pct /\ d.last_moved_secs = w.last_moved_secs
      /\ d.last_tick_secs = w.last_tick_secs /\ d.lane_visit_observed = w.lane_visit_observed
      /\ d.blind_secs = w.blind_secs /\ d.lane_visit_interrupted = w.lane_visit_interrupted
  <2>1. w \in Lanes
    BY <1>6
  <2>2. d = Stand(w, r)
    BY DEF d
  <2> HIDE DEF d
  <2> QED BY <2>1, <2>2, StandFields
<1>9. d = Stand(w, r)
  OBVIOUS
<1> HIDE DEF d
<1>10. /\ e \in Lanes /\ e.was_in_pit_lane /\ e.seen_in_world
       /\ e.observation_interrupted = d.observation_interrupted
       /\ e.anchor_pct = d.anchor_pct /\ e.last_moved_secs = d.last_moved_secs
       /\ e.stopped_since = d.stopped_since /\ e.stopped_total_secs = d.stopped_total_secs
       /\ e.last_tick_secs = d.last_tick_secs /\ e.lane_visit_observed = d.lane_visit_observed
       /\ e.blind_secs = d.blind_secs /\ e.lane_visit_interrupted = d.lane_visit_interrupted
  <2>1. d \in Lanes
    BY <1>8
  <2> QED BY <1>2, <2>1, EndLane, Zenon
<1>11. /\ ~e.observation_interrupted /\ e.lane_visit_observed = t.lane.lane_visit_observed
       /\ e.lane_visit_interrupted = t.lane.lane_visit_interrupted /\ e.last_tick_secs = r.now
  BY <1>3, <1>5, <1>6, <1>8, <1>10
<1>12. ASSUME ~resumed
       PROVE \E x \in Lanes :
                    /\ x.stopped_since = t.lane.stopped_since /\ x.stopped_total_secs = t.lane.stopped_total_secs
                    /\ r.pct # None => x.anchor_pct = r.pct
                    /\ r.pct = None => x.anchor_pct = t.lane.anchor_pct
                    /\ r.pct # None /\ r.pct # t.lane.anchor_pct => x.last_moved_secs = r.now
                    /\ ~(r.pct # None /\ r.pct # t.lane.anchor_pct) => x.last_moved_secs = t.lane.last_moved_secs
                    /\ r.pct # None => x.blind_secs = t.lane.blind_secs
                    /\ r.pct = None => x.blind_secs = t.lane.blind_secs + AtLeast0(r.now - t.lane.last_tick_secs)
                    /\ e.anchor_pct = x.anchor_pct /\ e.last_moved_secs = x.last_moved_secs
                    /\ e.blind_secs = x.blind_secs
                    /\ e.stopped_total_secs = Stand(x, r).stopped_total_secs
                    /\ e.stopped_since = Stand(x, r).stopped_since
  <2>1. n = m
    BY <1>5, <1>12
  <2> HIDE DEF resumed
  <2>2. w \in Lanes
    BY <1>6
  <2> USE <2>2
  <2>3. WITNESS w \in Lanes
  <2> QED BY <1>3, <1>6, <1>8, <1>9, <1>10, <1>12, <2>1
<1> QED BY <1>10, <1>11, <1>12

-----------------------------------------------------------------------------
(* What a sample does to the count and to the stint.                         *)

LEMMA ConcedeCount ==
    ASSUME NEW b \in Books, NEW n
    PROVE  Concede(b, n).pit_count = b.pit_count
BY DEF Concede, Books

LEMMA ObserveCount ==
    ASSUME NEW b \in Books, NEW n
    PROVE  ObserveOfficialStops(b, n).pit_count = b.pit_count
<1>1. CASE n = None
  BY <1>1 DEF ObserveOfficialStops
<1>2. CASE n # None /\ b.official_stops_seen = None
  <2> DEFINE x == AtLeast0(n - b.pit_count)
             y == AtLeast0(b.pit_count - n)
  <2>1. ObserveOfficialStops(b, n) = [b EXCEPT !.official_offset = x, !.local_unscored = y, !.official_stops_seen = n]
    BY <1>2 DEF ObserveOfficialStops
  <2> HIDE DEF x, y
  <2> QED BY <2>1 DEF Books
<1>3. CASE n # None /\ b.official_stops_seen # None
  <2> DEFINE x == b.official_unmatched + AtLeast0(n - b.official_stops_seen)
             y == Greater(b.official_stops_seen, n)
  <2>1. ObserveOfficialStops(b, n) = [b EXCEPT !.official_unmatched = x, !.official_stops_seen = y]
    BY <1>3 DEF ObserveOfficialStops, Books
  <2> HIDE DEF x, y
  <2> QED BY <2>1 DEF Books
<1> QED BY <1>1, <1>2, <1>3

\* Reconciling counts no stop.
LEMMA ReconcileCount ==
    ASSUME NEW t, Sound(t.books), NEW r, NEW active \in BOOLEAN, NEW just_reset, NEW returned
    PROVE  ReconcileOfficialStops(t, r, active, just_reset, returned).books.pit_count = t.books.pit_count
<1> DEFINE a == MatchLocal(t.books)
           b == MatchDriveThroughs(a)
           c == MatchUncertainExit(b, t.stint.pending_uncertain_exit)
           d == MatchUnseen(c, active)
<1>1. a \in Books /\ a.pit_count = t.books.pit_count
  <2>1. Sound(a)
    BY MatchLocalSound
  <2> DEFINE n == Lesser(t.books.official_unmatched, t.books.local_unscored)
  <2>2. a = [t.books EXCEPT !.official_unmatched = @ - n, !.local_unscored = @ - n]
    BY DEF MatchLocal
  <2> HIDE DEF n, a
  <2>3. t.books \in Books
    BY DEF Sound
  <2>4. a.pit_count = t.books.pit_count
    BY <2>2, <2>3 DEF Books
  <2> QED BY <2>1, <2>4 DEF Sound
<1>s. Sound(a)
  BY MatchLocalSound
<1> HIDE DEF a
<1>2. Sound(b) /\ b.pit_count = a.pit_count
  <2>1. Sound(b)
    BY <1>s, MatchDriveThroughsSound
  <2> DEFINE n == Lesser(a.official_unmatched, a.pending_drive_throughs)
             x == Concede(a, n)
  <2>2. b = [x EXCEPT !.pending_drive_throughs = @ - n]
    BY DEF MatchDriveThroughs
  <2>3. x.pit_count = a.pit_count
    BY <1>1, ConcedeCount
  <2> HIDE DEF x, b, n
  <2>4. b.pit_count = x.pit_count
    BY <2>2
  <2> QED BY <2>1, <2>3, <2>4
<1> HIDE DEF b
<1>3. Sound(c) /\ c.pit_count = b.pit_count
  <2>1. b \in Books
    BY <1>2 DEF Sound
  <2>2. c = b \/ c = Concede(b, 1)
    BY DEF MatchUncertainExit
  <2>3. Sound(c)
    BY <1>2, MatchUncertainExitSound
  <2> HIDE DEF c
  <2> QED BY <2>1, <2>2, <2>3, ConcedeCount
<1> HIDE DEF c
<1>4. d.pit_count = c.pit_count
  <2>1. c \in Books
    BY <1>3 DEF Sound
  <2>2. d = c \/ d = Concede(c, c.official_unmatched)
    BY DEF MatchUnseen
  <2> QED BY <2>1, <2>2, ConcedeCount
<1>5. ReconcileOfficialStops(t, r, active, just_reset, returned).books = d
  BY DEF ReconcileOfficialStops, a, b, c
<1> QED BY <1>1, <1>2, <1>3, <1>4, <1>5

LEMMA RecordCount ==
    ASSUME NEW b \in Books, NEW outcome
    PROVE  RecordLaneOutcome(b, outcome).pit_count = b.pit_count
<1>1. \/ RecordLaneOutcome(b, outcome) = [b EXCEPT !.official_unmatched = @ - 1]
      \/ RecordLaneOutcome(b, outcome) = [b EXCEPT !.local_unscored = @ + 1]
      \/ RecordLaneOutcome(b, outcome) = [b EXCEPT !.pending_drive_throughs = @ + 1]
      \/ RecordLaneOutcome(b, outcome) = b
  <2>1. b.official_unmatched \in Nat
    BY DEF Books
  <2>2. CASE outcome = "stop" /\ b.official_unmatched > 0
    BY <2>1, <2>2 DEF RecordLaneOutcome
  <2>3. CASE outcome = "stop" /\ b.official_unmatched = 0
    BY <2>1, <2>3 DEF RecordLaneOutcome
  <2>4. CASE outcome # "stop"
    BY <2>4 DEF RecordLaneOutcome
  <2> QED BY <2>1, <2>2, <2>3, <2>4
<1> QED BY <1>1 DEF Books

\* With no exit in doubt and no return remembered reconciling leaves the stint
\* alone, and after a reset it does not move the stint's start.
LEMMA ReconcileStint ==
    ASSUME NEW t, Kept(t.stint), NEW r, NEW active \in BOOLEAN, NEW just_reset \in BOOLEAN, NEW returned \in BOOLEAN,
           NEW st, st = ReconcileOfficialStops(t, r, active, just_reset, returned).stint
    PROVE  /\ /\ t.stint.pending_uncertain_exit = None /\ t.stint.returned_after_gap = None /\ ~returned
              => st = t.stint
           /\ just_reset => st = t.stint \/ st = [t.stint EXCEPT !.pending_uncertain_exit = None]
<1> DEFINE n == MatchDriveThroughs(MatchLocal(t.books)).official_unmatched
           c == ConfirmExit(t.stint, n, just_reset)
           taken == [t.stint EXCEPT !.pending_uncertain_exit = None]
<1>1. /\ t.stint.pending_uncertain_exit = None => c = t.stint
      /\ just_reset => c = t.stint \/ c = taken
  <2> HIDE DEF n
  <2> QED BY DEF ConfirmExit
<1> HIDE DEF c, n
<1>2. ASSUME NEW u
      PROVE /\ c.returned_after_gap = None /\ ~returned => PutUnseen(c, r, u, just_reset, returned) = c
            /\ just_reset => PutUnseen(c, r, u, just_reset, returned) = c
  <2>1. u = 0 => ~(u > 0)
    OBVIOUS
  <2>2. CASE u = 0 \/ just_reset
    BY <2>1, <2>2, Zenon DEF PutUnseen
  <2>3. CASE ~(u = 0 \/ just_reset) /\ c.returned_after_gap = None /\ ~returned
    BY <2>3, Zenon DEF PutUnseen
  <2> QED BY <2>2, <2>3
<1>3. \E u : st = c \/ st = PutUnseen(c, r, u, just_reset, returned)
  BY DEF ReconcileOfficialStops, c, n
<1> QED BY <1>1, <1>2, <1>3

\* No exit in doubt, and no return from a gap remembered.
Settling(st) == st.pending_uncertain_exit = None /\ st.returned_after_gap = None

\* What a sample of a car in the world notes and reconciles first.
MatchedOf(t, m, r) ==
    /\ Sound(m.books) /\ m.books.pit_count = t.books.pit_count
    /\ m.lane = Noted(t.lane) /\ Kept(m.stint)
    /\ ~t.lane.observation_interrupted /\ Settling(t.stint) => m.stint = t.stint

LEMMA InWorldMatches ==
    ASSUME NEW t, Sound(t.books), t.lane \in Visits, Kept(t.stint), NEW r \in Samples, r.in_world
    PROVE  \E m : /\ MatchedOf(t, m, r)
                  /\ UpdateWithOfficial(t, r) =
                        IF r.in_lane THEN InLane(m, r, t.lane.observation_interrupted)
                        ELSE OffLane(m, r, t.lane.observation_interrupted)
<1> DEFINE o == ObserveOfficialStops(t.books, r.official)
           resumed == t.lane.observation_interrupted
           returned == IF resumed /\ ~r.in_lane THEN [secs |-> r.now, lap |-> r.lap]
                       ELSE t.stint.returned_after_gap
           recent == IF returned # None /\ r.now - returned.secs > ReturnGrace THEN None ELSE returned
           entering == r.in_lane /\ ~t.lane.was_in_pit_lane
           noted == [books |-> [o EXCEPT !.pending_drive_throughs = IF entering THEN 0 ELSE @],
                     lane |-> [t.lane EXCEPT !.observation_interrupted = FALSE],
                     stint |-> [t.stint EXCEPT !.returned_after_gap = recent]]
           active == r.in_lane \/ t.lane.was_in_pit_lane
           no == FALSE
           m == ReconcileOfficialStops(noted, r, active, no, resumed)
<1>1. resumed \in BOOLEAN /\ active \in BOOLEAN
  BY DEF Visits, Lanes
<1>2. Sound(o) /\ o.pit_count = t.books.pit_count
  <2>1. r.official \in Nat \cup {None} /\ t.books \in Books
    BY DEF Samples, Sound
  <2> QED BY <2>1, ObserveOfficialStopsSound, ObserveCount
<1>3. UpdateWithOfficial(t, r) = IF r.in_lane THEN InLane(m, r, resumed) ELSE OffLane(m, r, resumed)
  BY DEF UpdateWithOfficial, InWorld
<1>4. recent \in Exits \cup {None}
  <2>1. t.stint.returned_after_gap \in Exits \cup {None}
    BY DEF Kept, Stints
  <2>2. [secs |-> r.now, lap |-> r.lap] \in Exits
    BY DEF Samples, Exits
  <2>3. returned \in Exits \cup {None}
    BY <2>1, <2>2
  <2> HIDE DEF returned
  <2> QED BY <2>3
<1>5. ~resumed /\ t.stint.returned_after_gap = None => recent = None
  OBVIOUS
<1> HIDE DEF recent, o
<1>6. Sound(noted.books) /\ noted.books.pit_count = o.pit_count
  <2> DEFINE k == IF entering THEN 0 ELSE o.pending_drive_throughs
             x == [o EXCEPT !.pending_drive_throughs = k]
  <2>1. o \in Books
    BY <1>2 DEF Sound
  <2>2. k \in Nat
    BY <2>1 DEF Books
  <2>3. noted.books = x
    OBVIOUS
  <2> HIDE DEF k
  <2>4. Sound(x)
    BY <1>2, <2>2, PendingDriveThroughsSound
  <2>5. x.pit_count = o.pit_count
    BY <2>1 DEF Books
  <2> QED BY <2>3, <2>4, <2>5
<1>7. Kept(noted.stint) /\ noted.lane = Noted(t.lane)
  <2>1. Kept([t.stint EXCEPT !.returned_after_gap = recent])
    BY <1>4, MemoKept
  <2> QED BY <2>1 DEF Noted
<1>8. ~resumed /\ Settling(t.stint) => noted.stint = t.stint
  BY <1>5 DEF Settling, Kept, Stints
<1>11. no \in BOOLEAN
  OBVIOUS
<1> HIDE DEF noted, resumed, active, no
<1>9. Sound(m.books) /\ m.books.pit_count = noted.books.pit_count
  <2>1. Sound(m.books)
    BY <1>1, <1>6, ReconcileSound
  <2>2. m.books.pit_count = noted.books.pit_count
    <3>1. Sound(noted.books) /\ active \in BOOLEAN
      BY <1>1, <1>6
    <3>2. \A a \in BOOLEAN : ReconcileOfficialStops(noted, r, a, no, resumed).books.pit_count = noted.books.pit_count
      BY <3>1, ReconcileCount
    <3> QED BY <3>1, <3>2
  <2> QED BY <2>1, <2>2
<1>10. m.lane = noted.lane
  BY DEF ReconcileOfficialStops
<1>12. Kept(m.stint)
  BY <1>1, <1>7, <1>11, ReconcileKept
<1>13. ~resumed /\ Settling(noted.stint) => m.stint = noted.stint
  <2> DEFINE st == m.stint
  <2>1. st = ReconcileOfficialStops(noted, r, active, no, resumed).stint
    OBVIOUS
  <2> HIDE DEF st
  <2>2. noted.stint.pending_uncertain_exit = None /\ noted.stint.returned_after_gap = None /\ ~resumed => st = noted.stint
    <3>1. Kept(noted.stint) /\ active \in BOOLEAN /\ resumed \in BOOLEAN
      BY <1>1, <1>7
    <3>2. \A a \in BOOLEAN, b \in BOOLEAN, c \in BOOLEAN :
             noted.stint.pending_uncertain_exit = None /\ noted.stint.returned_after_gap = None /\ ~c
             => ReconcileOfficialStops(noted, r, a, b, c).stint = noted.stint
      BY <3>1, ReconcileStint
    <3> QED BY <1>11, <2>1, <3>1, <3>2
  <2> QED BY <2>2 DEF Settling, st
<1> HIDE DEF m
<1>14. MatchedOf(t, m, r)
  BY <1>2, <1>6, <1>7, <1>8, <1>9, <1>10, <1>12, <1>13 DEF MatchedOf, resumed
<1> QED BY <1>3, <1>14 DEF resumed

LEMMA InLaneCounts ==
    ASSUME NEW t, Sound(t.books), t.lane \in Visits, Kept(t.stint), NEW r \in Samples, r.in_world, r.in_lane,
           NEW u, u = UpdateWithOfficial(t, r)
    PROVE  /\ u.books.pit_count = t.books.pit_count
           /\ ~t.lane.observation_interrupted /\ Settling(t.stint) =>
                \E b \in BOOLEAN : u.stint = [t.stint EXCEPT !.current_start_observed = b]
<1>1. PICK m : MatchedOf(t, m, r) /\ u = InLane(m, r, t.lane.observation_interrupted)
  BY InWorldMatches
<1>2. u.books = m.books
  BY <1>1 DEF InLane
<1> DEFINE b == m.stint.current_start_observed /\ (m.lane.was_in_pit_lane \/ ~t.lane.observation_interrupted)
<1>3. b \in BOOLEAN
  OBVIOUS
<1>4. u.stint = [m.stint EXCEPT !.current_start_observed = b]
  BY <1>1 DEF InLane, MatchedOf, Kept, Stints
<1> HIDE DEF b
<1> QED BY <1>1, <1>2, <1>3, <1>4 DEF MatchedOf

\* Of a car seen off the lane, as before: its first stint begins.
LEMMA OffLaneCounts ==
    ASSUME NEW t, Sound(t.books), t.lane \in Visits, Kept(t.stint), NEW r \in Samples, r.in_world, ~r.in_lane,
           ~t.lane.was_in_pit_lane, NEW u, u = UpdateWithOfficial(t, r)
    PROVE  /\ u.books.pit_count = t.books.pit_count
           /\ ~u.lane.was_in_pit_lane /\ u.lane.seen_in_world /\ ~u.lane.observation_interrupted
           /\ ~u.lane.lane_visit_interrupted <=> ~t.lane.lane_visit_interrupted
           /\ ~t.lane.observation_interrupted /\ Settling(t.stint) =>
                u.stint = BeginStint(t.stint, r, FALSE)
<1>1. PICK m : MatchedOf(t, m, r) /\ u = OffLane(m, r, t.lane.observation_interrupted)
  BY InWorldMatches
<1>2. t.lane \in Lanes
  BY DEF Visits
<1>3. m.lane \in Lanes /\ ~m.lane.was_in_pit_lane /\ ~m.lane.observation_interrupted
      /\ m.lane.lane_visit_interrupted = t.lane.lane_visit_interrupted
  <2>1. m.lane = Noted(t.lane)
    BY <1>1 DEF MatchedOf
  <2> QED BY <1>2, <2>1, NotedFields
<1>4. u.books = m.books /\ u.lane = [m.lane EXCEPT !.seen_in_world = TRUE] /\ u.stint = BeginStint(m.stint, r, FALSE)
  BY <1>1, <1>3 DEF OffLane
<1>5. ~u.lane.was_in_pit_lane /\ u.lane.seen_in_world /\ ~u.lane.observation_interrupted
      /\ u.lane.lane_visit_interrupted = m.lane.lane_visit_interrupted
  BY <1>3, <1>4 DEF Lanes
<1> QED BY <1>1, <1>3, <1>4, <1>5 DEF MatchedOf

\* What becomes of u of a visit's end: the stint m it is the end of, the visit b
\* with its last spell banked, and its outcome o.
Leaves(t, r, u, m, b, o) ==
    /\ Kept(m) /\ (~t.lane.observation_interrupted /\ Settling(t.stint) => m = t.stint)
    /\ b = Bank(Noted(t.lane), r.now) /\ b \in Lanes /\ o = Outcome(b, m)
    /\ ~u.lane.was_in_pit_lane /\ u.lane.seen_in_world /\ ~u.lane.observation_interrupted
    /\ u.lane.lane_visit_interrupted = t.lane.lane_visit_interrupted
    /\ u.books.pit_count = t.books.pit_count + (IF o = "stop" THEN 1 ELSE 0)
    /\ o = "stop" =>
         /\ u.stint.current_start = [secs |-> r.now, lap |-> r.lap]
         /\ u.stint.last_pit_secs = IF ServiceObserved(b) /\ ~ServiceTimeUncertain(b)
                                    THEN b.stopped_total_secs ELSE None
         /\ Settling(m) => Settling(u.stint)
    /\ o \in {"ignored", "drive_through"} /\ Settling(m) =>
         u.stint = BeginStint(m, r, ~t.lane.observation_interrupted)

\* Of a car seen to have left the lane: its visit ends, as a stop or not.
LEMMA LeavingCounts ==
    ASSUME NEW t, Sound(t.books), t.lane \in Visits, Kept(t.stint), NEW r \in Samples, r.in_world, ~r.in_lane,
           t.lane.was_in_pit_lane, NEW u, u = UpdateWithOfficial(t, r)
    PROVE  \E m, b, o : Leaves(t, r, u, m, b, o)
<1> DEFINE resumed == t.lane.observation_interrupted
<1>1. PICK n : MatchedOf(t, n, r) /\ u = OffLane(n, r, resumed)
  BY InWorldMatches
<1>2. t.lane \in Lanes /\ resumed \in BOOLEAN
  BY DEF Visits, Lanes
<1>3. n.lane \in Lanes /\ n.lane.was_in_pit_lane /\ ~n.lane.observation_interrupted
      /\ n.lane.lane_visit_interrupted = t.lane.lane_visit_interrupted
      /\ n.lane = Noted(t.lane) /\ n.lane.lane_entered = t.lane.lane_entered
  <2>1. n.lane = Noted(t.lane)
    BY <1>1 DEF MatchedOf
  <2>2. Noted(t.lane).lane_entered = t.lane.lane_entered
    BY <1>2 DEF Noted, Lanes
  <2> QED BY <1>2, <2>1, <2>2, NotedFields
<1> DEFINE m == n.stint
           b == Bank(n.lane, r.now)
           o == Outcome(b, m)
           closed == [b EXCEPT !.lane_entered = None, !.stopped_total_secs = 0,
                               !.anchor_pct = None, !.blind_secs = 0]
           stint == CASE o = "stop" -> EndStint(m, b, r)
                      [] o = "uncertain" -> NoteUncertain(m, r)
                      [] OTHER -> m
           counted == [n.books EXCEPT !.pit_count = IF o = "stop" THEN @ + 1 ELSE @]
           begun == BeginStint(stint, r, ~resumed)
           settled == [books |-> RecordLaneOutcome(counted, o),
                       lane |-> [closed EXCEPT !.was_in_pit_lane = FALSE, !.seen_in_world = TRUE],
                       stint |-> begun]
           no == FALSE
           stopped == o = "stop"
<1>4. u = ReconcileOfficialStops(settled, r, no, stopped, no)
  BY <1>1, <1>3 DEF OffLane, CloseLaneVisit
<1>5. no \in BOOLEAN /\ stopped \in BOOLEAN /\ ~no
  OBVIOUS
<1>6. r.now \in Nat
  BY DEF Samples
<1>7. b \in Lanes /\ b.lane_entered \in Nat
      /\ b.lane_visit_interrupted = t.lane.lane_visit_interrupted
      /\ ~b.observation_interrupted
  <2>1. b \in Lanes
    BY <1>3, <1>6, BankType
  <2>2. b.lane_entered = n.lane.lane_entered /\ b.lane_visit_interrupted = n.lane.lane_visit_interrupted
        /\ b.observation_interrupted = n.lane.observation_interrupted
    BY <1>3 DEF Bank, Lanes
  <2> QED BY <1>3, <2>1, <2>2 DEF Visits
<1>8. Kept(m) /\ (~resumed /\ Settling(t.stint) => m = t.stint)
  BY <1>1 DEF MatchedOf
<1>9. stopped => m.current_start # None
  BY StopEndsAStint
<1>10. settled.lane = [closed EXCEPT !.was_in_pit_lane = FALSE, !.seen_in_world = TRUE]
       /\ settled.stint = begun /\ settled.books = RecordLaneOutcome(counted, o)
  OBVIOUS
<1> HIDE DEF b, m
<1>11. ~u.lane.was_in_pit_lane /\ u.lane.seen_in_world /\ ~u.lane.observation_interrupted
       /\ u.lane.lane_visit_interrupted = t.lane.lane_visit_interrupted
  <2>1. u.lane = settled.lane
    BY <1>4 DEF ReconcileOfficialStops
  <2> HIDE DEF settled, closed, o
  <2>2. closed \in Lanes /\ closed.observation_interrupted = b.observation_interrupted
        /\ closed.lane_visit_interrupted = b.lane_visit_interrupted
    BY <1>7 DEF closed, Lanes
  <2>3. ~u.lane.was_in_pit_lane /\ u.lane.seen_in_world /\ u.lane.observation_interrupted = closed.observation_interrupted
       /\ u.lane.lane_visit_interrupted = closed.lane_visit_interrupted
    BY <1>10, <2>1, <2>2 DEF Lanes
  <2> QED BY <1>7, <2>2, <2>3
<1>12. u.books.pit_count = t.books.pit_count + (IF o = "stop" THEN 1 ELSE 0)
  <2>1. Sound(n.books) /\ n.books.pit_count = t.books.pit_count /\ n.books \in Books
    BY <1>1 DEF MatchedOf, Sound
  <2>2. Sound(settled.books)
    BY <1>10, <2>1, RecordLaneOutcomeSound
  <2> HIDE DEF o, stint
  <2>3. counted \in Books /\ counted.pit_count = n.books.pit_count + (IF o = "stop" THEN 1 ELSE 0)
    BY <2>1 DEF Books
  <2> HIDE DEF counted
  <2>4. settled.books.pit_count = counted.pit_count
    BY <1>10, <2>3, RecordCount
  <2> HIDE DEF settled, stopped, no
  <2>5. \A a \in BOOLEAN : ReconcileOfficialStops(settled, r, a, stopped, no).books.pit_count = settled.books.pit_count
    BY <2>2, ReconcileCount
  <2> QED BY <1>4, <1>5, <2>1, <2>3, <2>4, <2>5
<1>13. Kept(begun)
  <2>1. stopped => Kept(EndStint(m, b, r))
    BY <1>7, <1>8, <1>9, EndStintKept
  <2>2. Kept(NoteUncertain(m, r))
    BY <1>8, NoteUncertainKept
  <2>3. (stopped /\ stint = EndStint(m, b, r)) \/ stint = NoteUncertain(m, r) \/ stint = m
    OBVIOUS
  <2> HIDE DEF stint, stopped
  <2>4. Kept(stint)
    BY <1>8, <2>1, <2>2, <2>3
  <2> HIDE DEF stint
  <2>5. (~resumed) \in BOOLEAN
    BY <1>2
  <2> QED BY <2>4, <2>5, BeginStintKept
<1>14. u.stint = ReconcileOfficialStops(settled, r, no, stopped, no).stint /\ Kept(settled.stint)
  BY <1>4, <1>10, <1>13
<1>15. /\ Settling(begun) => u.stint = begun
       /\ stopped => u.stint = begun \/ u.stint = [begun EXCEPT !.pending_uncertain_exit = None]
  <2> HIDE DEF settled, stopped, no, begun
  <2>1. \A a \in BOOLEAN, j \in BOOLEAN, c \in BOOLEAN : \A st :
          st = ReconcileOfficialStops(settled, r, a, j, c).stint =>
            /\ settled.stint.pending_uncertain_exit = None /\ settled.stint.returned_after_gap = None /\ ~c
               => st = settled.stint
            /\ j => st = settled.stint \/ st = [settled.stint EXCEPT !.pending_uncertain_exit = None]
    BY <1>14, ReconcileStint
  <2> QED BY <1>5, <1>10, <1>14, <2>1 DEF Settling
<1>16. ASSUME o = "stop"
       PROVE  /\ u.stint.current_start = [secs |-> r.now, lap |-> r.lap]
              /\ u.stint.last_pit_secs = IF ServiceObserved(b) /\ ~ServiceTimeUncertain(b)
                                         THEN b.stopped_total_secs ELSE None
              /\ Settling(m) => Settling(u.stint)
  <2> DEFINE e == EndStint(m, b, r)
             start == [secs |-> r.now, lap |-> r.lap]
             last == IF ServiceObserved(b) /\ ~ServiceTimeUncertain(b) THEN b.stopped_total_secs ELSE None
             laps == AtLeast0(r.lap - m.current_start.lap)
             measured == ~b.lane_visit_interrupted /\ m.current_start_observed /\ laps >= MinFuelStintLaps
             done == IF measured
                     THEN Remember(m.completed, [laps |-> laps, secs |-> AtLeast0(b.lane_entered - m.current_start.secs)])
                     ELSE m.completed
             pits == IF ServiceObserved(b) /\ ~ServiceTimeUncertain(b)
                     THEN Remember(m.pit_secs, b.stopped_total_secs) ELSE m.pit_secs
             doubt == IF m.pending_uncertain_exit = None THEN m.pending_uncertain_exit
                      ELSE [m.pending_uncertain_exit EXCEPT !.reset_boundary = FALSE]
  <2>1. m \in Stints
    BY <1>8 DEF Kept
  <2>2. e = [m EXCEPT !.completed = done, !.last_pit_secs = last, !.pit_secs = pits, !.current_start = start,
                      !.current_start_observed = TRUE, !.returned_after_gap = None,
                      !.pending_uncertain_exit = doubt]
    BY <2>1 DEF EndStint, Stints
  <2>3. m.pending_uncertain_exit = None => doubt = None
    OBVIOUS
  <2>4. start # None
    <3>1. start \in Exits
      BY DEF Samples, Exits
    <3> QED BY <3>1, StintAssumption DEF Exits
  <2>5. stint = e
    BY <1>16
  <2> HIDE DEF start, last, done, pits, doubt, e, stint
  <2>6. e.current_start = start /\ e.last_pit_secs = last /\ e.returned_after_gap = None
        /\ e.pending_uncertain_exit = doubt
    BY <2>1, <2>2 DEF Stints
  <2>7. begun = e
    BY <2>4, <2>5, <2>6 DEF BeginStint
  <2>8. u.stint = e \/ u.stint = [e EXCEPT !.pending_uncertain_exit = None]
    BY <1>15, <1>16, <2>7
  <2>9. e \in Stints
    BY <1>13, <2>7 DEF Kept
  <2>10. u.stint.current_start = start /\ u.stint.last_pit_secs = last /\ u.stint.returned_after_gap = None
         /\ u.stint.pending_uncertain_exit \in {doubt, None}
    BY <2>6, <2>8, <2>9 DEF Stints
  <2>11. Settling(m) => Settling(u.stint)
    BY <2>3, <2>10 DEF Settling
  <2> QED BY <2>10, <2>11 DEF start, last
<1>17. ASSUME o \in {"ignored", "drive_through"}, Settling(m) PROVE u.stint = BeginStint(m, r, ~resumed)
  <2>1. stint = m
    BY <1>17
  <2> HIDE DEF stint
  <2>2. Settling(begun)
    BY <1>8, <1>17, <2>1 DEF BeginStint, Settling, Kept, Stints
  <2> QED BY <1>15, <2>1, <2>2
<1>18. b = Bank(Noted(t.lane), r.now) /\ o = Outcome(b, m)
  BY <1>3 DEF b
<1> HIDE DEF o
<1> SUFFICES Leaves(t, r, u, m, b, o)
  OBVIOUS
<1> QED BY <1>7, <1>8, <1>11, <1>12, <1>16, <1>17, <1>18 DEF Leaves

-----------------------------------------------------------------------------
(* What the overlay makes of the world.                                      *)

\* A second, and the sample it ends with.
SampledAs(seen, shown, r, u) ==
    /\ Visibility(seen) /\ Position(shown) /\ (seen <=> missing' = None)
    /\ u = UpdateWithOfficial(s, r)
    /\ s'.lane = u.lane /\ s'.books = u.books
    /\ s'.stint.current_start = u.stint.current_start
    /\ s'.stint.last_pit_secs = u.stint.last_pit_secs
    /\ (Settling(u.stint) => Settling(s'.stint))
    /\ r.now = now' /\ r.lap = car'.lap /\ (r.in_world <=> seen)
    /\ (r.in_lane <=> (seen /\ car'.at # "track"))
    /\ (r.in_stall <=> (seen /\ car'.at = "box" /\ world.flag))
    /\ r.pct = (IF seen /\ shown THEN car'.pos ELSE None)

LEMMA SecondIsSampled ==
    ASSUME TypesInv, TypesInv', Second
    PROVE  \E seen, shown \in BOOLEAN : \E r \in Samples : \E u : SampledAs(seen, shown, r, u)
<1>1. PICK seen \in BOOLEAN, shown \in BOOLEAN : Visibility(seen) /\ Position(shown) /\ Sample(shown)
  BY SecondFacts
<1>2. now < world.secs /\ now' = now + 1 /\ world' = world
  BY SecondFacts
<1>3. /\ world \in Worlds /\ now' \in Nat /\ car'.lap \in Nat /\ car'.pos \in Nat /\ board' \in Nat \cup {None}
      /\ missing \in [since : Nat, from : {"track", "lane", "box"}] \cup {None} /\ car.at \in {"track", "lane", "box"}
  <2>1. WorldTypes /\ WorldTypes'
    BY DEF TypesInv
  <2>2. world \in Worlds /\ now \in Nat /\ world.secs \in Nat
    BY <2>1, WorldFields DEF WorldTypes
  <2>3. scored' \in Nat /\ board' \in 0..scored' \cup {None}
    BY <2>1 DEF WorldTypes
  <2>4. board' \in Nat \cup {None}
    BY <2>3
  <2>5. car' \in [at : {"track", "lane", "box"}, lap : 0..MaxLap, pos : Nat]
    BY <2>1 DEF WorldTypes
  <2>6. car'.lap \in Nat /\ car'.pos \in Nat
    BY <2>5, WorldAssumption
  <2> QED BY <1>2, <2>1, <2>2, <2>4, <2>6 DEF WorldTypes
<1>4. seen <=> missing' = None
  <2>1. [since |-> now', from |-> car.at] # None
    BY <1>3, WorldAssumption
  <2>2. CASE seen
    BY <1>1, <2>2 DEF Visibility
  <2>3. CASE ~seen /\ missing = None
    BY <1>1, <2>1, <2>3 DEF Visibility
  <2>4. CASE ~seen /\ missing # None
    BY <1>1, <2>4 DEF Visibility
  <2> QED BY <2>2, <2>3, <2>4
<1> DEFINE there == missing' = None
           r == Row(now', car', there, shown, board')
           u == UpdateWithOfficial(s, r)
<1>5. there \in BOOLEAN /\ (there <=> seen)
  BY <1>4
<1>6. r \in Samples
  BY <1>3, <1>5, RowType
<1>7. s' = Vouched(u)
  BY <1>1 DEF Sample
<1>8. /\ r.now = now' /\ r.lap = car'.lap /\ (r.in_world <=> there)
      /\ (r.in_lane <=> (there /\ car'.at # "track"))
      /\ (r.in_stall <=> (there /\ car'.at = "box" /\ world.flag))
      /\ r.pct = (IF there /\ shown THEN car'.pos ELSE None)
  BY DEF Row
<1> HIDE DEF r, there
<1>9. Wellformed(u)
  BY <1>6, UpdateWellformed DEF TypesInv, Wellformed
<1>10. u = UpdateWithOfficial(s, r)
  OBVIOUS
<1> HIDE DEF u
<1>11. /\ s'.lane = u.lane /\ s'.books = u.books
       /\ s'.stint.current_start = u.stint.current_start
       /\ s'.stint.last_pit_secs = u.stint.last_pit_secs
       /\ (Settling(u.stint) => Settling(s'.stint))
  <2> DEFINE b == u.stint.current_start_observed /\ ~(missing' # None /\ now' - missing'.since >= PitLoss)
  <2>1. s' = [books |-> u.books, lane |-> u.lane, stint |-> [u.stint EXCEPT !.current_start_observed = b]]
    BY <1>7, <1>9 DEF Vouched, Wellformed, Kept, Stints
  <2> HIDE DEF b
  <2>2. u.stint \in Stints
    BY <1>9 DEF Wellformed, Kept
  <2> QED BY <2>1, <2>2 DEF Settling, Stints
<1>12. SampledAs(seen, shown, r, u)
  BY <1>1, <1>4, <1>5, <1>8, <1>10, <1>11 DEF SampledAs
<1> QED BY <1>6, <1>12

-----------------------------------------------------------------------------
(* The inductive invariant of the visits.                                    *)

\* A visit the overlay has seen from its beginning, without a gap.
Witnessed == s.lane.was_in_pit_lane /\ s.lane.lane_visit_observed /\ ~s.lane.lane_visit_interrupted

\* The overlay takes the car to be standing, and for how long it takes it to have stood.
Standing == s.lane.stopped_since # None
Reckoned == IF Standing THEN s.lane.stopped_total_secs + (now - s.lane.stopped_since) ELSE s.lane.stopped_total_secs

\* The overlay has the car where it is.
Placed == s.lane.anchor_pct = car.pos

\* The visit is to be given a second for the spell under way.
Due == IF car.at = "box" \/ visit.spell > 0 THEN 1 ELSE 0

\* The overlay knows whether the car is there, and whether it is in the lane.
Tracks ==
    /\ gaps <= world.gaps
    /\ s.lane.seen_in_world
    /\ s.lane.observation_interrupted <=> missing # None
    /\ missing = None => (s.lane.was_in_pit_lane <=> car.at # "track")
    /\ missing # None /\ s.lane.was_in_pit_lane => s.lane.lane_visit_interrupted
    /\ Witnessed => ~visit.garaged /\ s.lane.last_tick_secs = now

\* What a visit is.
Visiting ==
    /\ visit.spell <= visit.stood
    /\ blinds <= visit.blinds
    /\ visit.served => ~visit.garaged
    /\ Due <= visit.spells \/ visit.garaged

\* The overlay takes the car to have stood for no longer than it has, by the
\* slack of a second for each time, or its position has been missing and it
\* has stood for as long as makes a stop.
AtMost ==
    Witnessed =>
        /\ Placed => s.lane.last_moved_secs <= now /\ now - s.lane.last_moved_secs <= visit.spell
        /\ Standing =>
             /\ s.lane.stopped_since <= now
             /\ \/ Placed /\ now - s.lane.last_moved_secs >= StoppedConfirm
                \/ car.at = "box" /\ world.flag
        /\ s.lane.blind_secs <= visit.blinds - blinds
        /\ blinds = visit.blinds => Placed
        /\ s.lane.anchor_pct = None \/ s.lane.anchor_pct <= car.pos
        /\ \/ Standing /\ Reckoned + 1 <= visit.stood + visit.spells /\ (visit.spell > 0 \/ car.at = "box")
           \/ ~Standing /\ Reckoned + visit.spell + Due <= visit.stood + visit.spells
           \/ visit.stood + visit.spells >= StoppedConfirm + 1 /\ blinds < visit.blinds

\* It takes the car to have stood for long enough for a stop when it has, or
\* its position has been missing for longer than is tolerated.
AtLeast ==
    Witnessed =>
        /\ car.at = "box" /\ world.flag => Standing
        /\ Placed => s.lane.last_moved_secs + visit.spell <= now + s.lane.blind_secs + 1
        /\ ~Placed => visit.spell <= s.lane.blind_secs
        /\ Standing => visit.spell <= Reckoned + s.lane.blind_secs + 1
        /\ ~Standing => \/ visit.spell <= Reckoned + s.lane.blind_secs
                        \/ visit.spell <= StoppedConfirm + s.lane.blind_secs
        /\ visit.served /\ s.lane.blind_secs <= BlindTolerance =>
             IF Standing THEN MinStop <= Reckoned + 1 ELSE MinStop <= Reckoned

\* Of a car that never left the world nothing is in doubt: a visit was observed
\* from its beginning but for the one it began in its garage with, every stop
\* was counted, and the stint began where the property says.
Settles ==
    AlwaysSeen =>
        /\ missing = None /\ ~s.lane.lane_visit_interrupted /\ Settling(s.stint)
        /\ car.at # "track" =>
             /\ visit.garaged <=> s.stint.current_start = None
             /\ s.lane.lane_visit_observed <=> ~visit.garaged
        /\ car.at = "track" => s.stint.current_start # None
        /\ stops <= s.books.pit_count
        /\ s.stint.current_start = None => stops = 0 /\ last_stop = 0
        /\ s.stint.current_start # None =>
             /\ last_stop <= s.stint.current_start.secs
             /\ s.stint.current_start.secs <= last_departure /\ last_departure <= now

\* The actions, told apart by where the car is.
LEMMA ActsByPlace ==
    ASSUME TypesInv, Acts
    PROVE  /\ car.at = "track" /\ car'.at = "track" => KeepRacing
           /\ car.at = "track" /\ car'.at # "track" => EnterLane \/ Tow
           /\ car.at # "track" /\ car'.at = "track" => Leave /\ car.at = "lane"
           /\ car.at # "track" /\ car'.at # "track" => StandStill \/ Roll
<1>1. car \in [at : {"track", "lane", "box"}, lap : 0..MaxLap, pos : Nat]
  BY DEF TypesInv, WorldTypes
<1>2. CASE KeepRacing
  BY <1>1, <1>2 DEF KeepRacing
<1>3. CASE EnterLane \/ Tow
  BY <1>1, <1>3 DEF EnterLane, Tow
<1>4. CASE StandStill
  BY <1>1, <1>4 DEF StandStill
<1>5. CASE Roll
  BY <1>1, <1>5 DEF Roll
<1>6. CASE Leave
  BY <1>1, <1>6 DEF Leave
<1> QED BY <1>2, <1>3, <1>4, <1>5, <1>6 DEF Acts

\* The truth about a visit.
LEMMA VisitingNext ==
    ASSUME TypesInv, Acts, Visiting, blinds' <= blinds, blinds' \in Nat
    PROVE  Visiting'
<1>1. /\ visit \in VisitTypes /\ visit.stood \in Nat /\ visit.spells \in Nat /\ visit.spell \in Nat
      /\ visit.served \in BOOLEAN /\ visit.garaged \in BOOLEAN /\ visit.blinds \in Nat /\ blinds \in Nat
      /\ car \in [at : {"track", "lane", "box"}, lap : 0..MaxLap, pos : Nat]
  BY DEF TypesInv, WorldTypes, VisitTypes
<1>2. CASE KeepRacing
  <2>1. PICK crosses \in {0, 1} : car' = [car EXCEPT !.lap = @ + crosses]
    BY <1>2 DEF KeepRacing
  <2>2. car'.at = car.at /\ visit' = visit
    BY <1>1, <1>2, <2>1 DEF KeepRacing
  <2> QED BY <1>1, <2>2 DEF Visiting, Due
<1>3. CASE EnterLane
  <2>1. car'.at = "lane" /\ visit' = NewVisit(FALSE)
    BY <1>1, <1>3 DEF EnterLane
  <2> QED BY <1>1, <2>1 DEF Visiting, Due, NewVisit
<1>4. CASE Tow
  <2>1. visit' = NewVisit(TRUE)
    BY <1>1, <1>4 DEF Tow
  <2> QED BY <1>1, <2>1 DEF Visiting, Due, NewVisit
<1>5. CASE StandStill
  <2> DEFINE served == visit.served \/ (visit.spell + 1 >= Service /\ ~visit.garaged)
             spells == IF visit.spell = 0 /\ car.at = "lane" THEN visit.spells + 1 ELSE visit.spells
  <2>1. visit' = [visit EXCEPT !.stood = visit.stood + 1, !.spell = visit.spell + 1, !.spells = spells, !.served = served]
        /\ car' = car /\ car.at # "track"
    BY <1>1, <1>5 DEF StandStill, VisitTypes
  <2>2. served => ~visit.garaged
    BY DEF Visiting
  <2>3. spells \in Nat /\ (1 <= spells \/ visit.garaged)
    BY <1>1, <2>1 DEF Visiting, Due
  <2> HIDE DEF served, spells
  <2>4. visit'.stood = visit.stood + 1 /\ visit'.spell = visit.spell + 1 /\ visit'.spells = spells /\ visit'.served = served
        /\ visit'.garaged = visit.garaged /\ visit'.blinds = visit.blinds
    BY <1>1, <2>1 DEF VisitTypes
  <2> QED BY <1>1, <2>2, <2>3, <2>4 DEF Visiting, Due
<1>6. CASE Roll
  <2>1. PICK at \in {"lane", "box"} :
          /\ car' = [car EXCEPT !.at = at, !.pos = @ + 1]
          /\ visit' = [visit EXCEPT !.spell = 0, !.spells = IF at = "box" THEN @ + 1 ELSE @]
    BY <1>6 DEF Roll
  <2>2. /\ car'.at = at /\ visit'.stood = visit.stood /\ visit'.spell = 0 /\ visit'.served = visit.served
        /\ visit'.garaged = visit.garaged /\ visit'.blinds = visit.blinds
        /\ visit'.spells = IF at = "box" THEN visit.spells + 1 ELSE visit.spells
    BY <1>1, <2>1 DEF VisitTypes
  <2> QED BY <1>1, <2>2 DEF Visiting, Due
<1>7. CASE Leave
  <2>1. car'.at = "track" /\ visit' = visit
    BY <1>1, <1>7 DEF Leave
  <2> QED BY <1>1, <2>1 DEF Visiting, Due
<1> QED BY <1>2, <1>3, <1>4, <1>5, <1>6, <1>7 DEF Acts

\* What a second shows and hides.
LEMMA ShownFacts ==
    ASSUME TypesInv, NEW seen \in BOOLEAN, NEW shown \in BOOLEAN, NEW r, NEW u, SampledAs(seen, shown, r, u)
    PROVE  /\ shown => blinds' = blinds
           /\ ~shown => blinds' = blinds - 1 /\ car'.at # "track" /\ missing' = None
           /\ seen => gaps' = gaps
           /\ ~seen /\ missing = None => gaps' = gaps - 1
           /\ gaps' <= gaps /\ blinds' <= blinds
           /\ ~seen /\ missing # None => gaps' = gaps
<1>1. gaps \in Nat /\ blinds \in Nat
  BY DEF TypesInv, WorldTypes
<1> QED BY <1>1 DEF SampledAs, Visibility, Position

LEMMA TracksNext ==
    ASSUME TypesInv, TypesInv', Second, Tracks
    PROVE  Tracks'
<1>1. PICK seen \in BOOLEAN, shown \in BOOLEAN : \E r \in Samples : \E u : SampledAs(seen, shown, r, u)
  BY SecondIsSampled
<1>1a. PICK r \in Samples : \E u : SampledAs(seen, shown, r, u)
  BY <1>1
<1>2. PICK u : SampledAs(seen, shown, r, u)
  BY <1>1a
<1>3. /\ Sound(s.books) /\ s.lane \in Visits /\ s.lane \in Lanes /\ Kept(s.stint)
      /\ now \in Nat /\ gaps \in Nat /\ world.gaps \in Nat /\ now' = now + 1 /\ world' = world /\ Acts
  <2>1. world \in Worlds /\ now \in 0..world.secs
    BY DEF TypesInv, WorldTypes
  <2>2. world.gaps \in Nat /\ world.secs \in Nat
    BY <2>1, WorldFields
  <2> QED BY <2>1, <2>2, SecondFacts DEF TypesInv, WorldTypes, Wellformed, Visits
<1>4. /\ s'.lane = u.lane /\ u = UpdateWithOfficial(s, r) /\ r.now = now' /\ (seen <=> missing' = None)
      /\ (r.in_world <=> seen) /\ (r.in_lane <=> (seen /\ car'.at # "track"))
  BY <1>2 DEF SampledAs
<1>5. gaps' <= world'.gaps
  <2>1. gaps' <= gaps /\ gaps' \in Nat
    BY <1>2, ShownFacts DEF TypesInv, WorldTypes
  <2> QED BY <1>3, <2>1 DEF Tracks
<1>6. CASE ~seen
  <2>1. /\ u.lane.was_in_pit_lane <=> s.lane.was_in_pit_lane
        /\ u.lane.seen_in_world <=> s.lane.seen_in_world
        /\ s.lane.seen_in_world => u.lane.observation_interrupted
        /\ u.lane.was_in_pit_lane => u.lane.lane_visit_interrupted
    BY <1>3, <1>4, <1>6, LaneUnseen
  <2>2. missing' # None
    BY <1>4, <1>6
  <2> QED BY <1>4, <1>5, <2>1, <2>2 DEF Tracks, Witnessed
<1>7. CASE seen /\ car'.at = "track"
  <2>1. ~u.lane.was_in_pit_lane /\ u.lane.seen_in_world /\ ~u.lane.observation_interrupted
    <3>1. CASE s.lane.was_in_pit_lane
      BY <1>3, <1>4, <1>7, <3>1, LeavingCounts DEF Leaves
    <3>2. CASE ~s.lane.was_in_pit_lane
      BY <1>3, <1>4, <1>7, <3>2, OffLaneCounts
    <3> QED BY <3>1, <3>2
  <2>2. missing' = None
    BY <1>4, <1>7
  <2> QED BY <1>4, <1>5, <1>7, <2>1, <2>2 DEF Tracks, Witnessed
<1>8. CASE seen /\ car'.at # "track" /\ ~s.lane.was_in_pit_lane
  <2>1. /\ u.lane.was_in_pit_lane /\ u.lane.seen_in_world /\ ~u.lane.observation_interrupted
        /\ u.lane.lane_visit_observed <=> (s.lane.seen_in_world /\ ~s.lane.observation_interrupted)
        /\ u.lane.last_tick_secs = r.now
    BY <1>3, <1>4, <1>8, LaneEnters
  <2>2. missing' = None
    BY <1>4, <1>8
  <2>3. Witnessed' => ~visit'.garaged
    <3> SUFFICES ASSUME Witnessed' PROVE ~visit'.garaged
      OBVIOUS
    <3>1. missing = None
      BY <1>4, <2>1 DEF Tracks, Witnessed
    <3>2. car.at = "track"
      BY <1>8, <3>1 DEF Tracks
    <3>3. EnterLane
      <4>1. EnterLane \/ Tow
        BY <1>3, <1>8, <3>2, ActsByPlace
      <4> QED BY <2>2, <4>1 DEF Tow
    <3> QED BY <3>3 DEF EnterLane, NewVisit
  <2> QED BY <1>4, <1>5, <1>8, <2>1, <2>2, <2>3 DEF Tracks
<1>9. CASE seen /\ car'.at # "track" /\ s.lane.was_in_pit_lane
  <2>1. /\ u.lane.was_in_pit_lane /\ u.lane.seen_in_world /\ ~u.lane.observation_interrupted
        /\ u.lane.lane_visit_observed = s.lane.lane_visit_observed
        /\ u.lane.lane_visit_interrupted = s.lane.lane_visit_interrupted
        /\ u.lane.last_tick_secs = r.now
    BY <1>3, <1>4, <1>9, LaneContinues
  <2>2. missing' = None
    BY <1>4, <1>9
  <2>3. Witnessed' => ~visit'.garaged
    <3> SUFFICES ASSUME Witnessed' PROVE ~visit'.garaged
      OBVIOUS
    <3>1. Witnessed
      BY <1>4, <1>9, <2>1 DEF Witnessed
    <3>2. missing = None
      BY <3>1 DEF Tracks, Witnessed
    <3>3. car.at # "track" /\ ~visit.garaged
      BY <1>9, <3>1, <3>2 DEF Tracks
    <3>4. StandStill \/ Roll
      BY <1>3, <1>9, <3>3, ActsByPlace
    <3>5. visit'.garaged = visit.garaged
      <4>1. visit \in VisitTypes
        BY DEF TypesInv, WorldTypes
      <4>2. CASE StandStill
        BY <4>1, <4>2 DEF StandStill, VisitTypes
      <4>3. CASE Roll
        BY <4>1, <4>3 DEF Roll, VisitTypes
      <4> QED BY <3>4, <4>2, <4>3
    <3> QED BY <3>3, <3>5
  <2> QED BY <1>4, <1>5, <1>9, <2>1, <2>2, <2>3 DEF Tracks
<1> QED BY <1>6, <1>7, <1>8, <1>9

\* A second at the end of which a visit is witnessed begins it ...
Enters ==
    /\ visit' = NewVisit(FALSE) /\ car'.at = "lane" /\ car'.pos = 1
    /\ s'.lane.stopped_since = None /\ s'.lane.stopped_total_secs = 0 /\ s'.lane.blind_secs = 0
    /\ s'.lane.last_moved_secs = now'
    /\ blinds' = blinds => s'.lane.anchor_pct = 1
    /\ s'.lane.anchor_pct \in {1, None}

\* ... or goes on with it: what is known of the car's place and movement, and
\* whether it is taken to stand.
Moved(shown) == shown /\ car'.pos # s.lane.anchor_pct
Still(shown) == shown /\ now' - s'.lane.last_moved_secs >= StoppedConfirm
InBox == car'.at = "box" /\ world.flag

Continues(shown) ==
    /\ Witnessed /\ (StandStill \/ Roll)
    /\ shown => blinds' = blinds /\ s'.lane.anchor_pct = car'.pos /\ s'.lane.blind_secs = s.lane.blind_secs
    /\ ~shown => /\ blinds' = blinds - 1 /\ s'.lane.anchor_pct = s.lane.anchor_pct
                 /\ s'.lane.blind_secs = s.lane.blind_secs + 1
    /\ Moved(shown) => s'.lane.last_moved_secs = now'
    /\ ~Moved(shown) => s'.lane.last_moved_secs = s.lane.last_moved_secs
    /\ ~Still(shown) /\ ~InBox =>
         /\ s'.lane.stopped_since = None
         /\ s.lane.stopped_since = None => s'.lane.stopped_total_secs = s.lane.stopped_total_secs
         /\ s.lane.stopped_since # None =>
              s'.lane.stopped_total_secs = s.lane.stopped_total_secs + AtLeast0(now' - s.lane.stopped_since)
    /\ Still(shown) \/ InBox =>
         /\ s'.lane.stopped_total_secs = s.lane.stopped_total_secs
         /\ s.lane.stopped_since # None => s'.lane.stopped_since = s.lane.stopped_since
         /\ s.lane.stopped_since = None =>
              s'.lane.stopped_since = IF Still(shown) THEN s'.lane.last_moved_secs ELSE now'

LEMMA WitnessedSecond ==
    ASSUME TypesInv, TypesInv', Second, Tracks, Witnessed'
    PROVE  Enters \/ \E shown \in BOOLEAN : Continues(shown)
<1>1. PICK seen \in BOOLEAN, shown \in BOOLEAN : \E r \in Samples : \E u : SampledAs(seen, shown, r, u)
  BY SecondIsSampled
<1>1a. PICK r \in Samples : \E u : SampledAs(seen, shown, r, u)
  BY <1>1
<1>2. PICK u : SampledAs(seen, shown, r, u)
  BY <1>1a
<1>3. /\ Sound(s.books) /\ s.lane \in Visits /\ s.lane \in Lanes /\ Kept(s.stint)
      /\ now \in Nat /\ now' = now + 1 /\ world' = world /\ Acts /\ blinds \in Nat
      /\ car' \in [at : {"track", "lane", "box"}, lap : 0..MaxLap, pos : Nat]
      /\ car \in [at : {"track", "lane", "box"}, lap : 0..MaxLap, pos : Nat]
  <2>1. world \in Worlds /\ now \in 0..world.secs
    BY DEF TypesInv, WorldTypes
  <2>2. world.secs \in Nat
    BY <2>1, WorldFields
  <2> QED BY <2>1, <2>2, SecondFacts DEF TypesInv, WorldTypes, Wellformed, Visits
<1>4. /\ s'.lane = u.lane /\ u = UpdateWithOfficial(s, r) /\ r.now = now' /\ (seen <=> missing' = None)
      /\ (r.in_world <=> seen) /\ (r.in_lane <=> (seen /\ car'.at # "track"))
      /\ (r.in_stall <=> (seen /\ car'.at = "box" /\ world.flag))
      /\ r.pct = (IF seen /\ shown THEN car'.pos ELSE None)
  BY <1>2 DEF SampledAs
<1>5. seen /\ car'.at # "track"
  <2>1. ASSUME ~seen PROVE FALSE
    <3>1. u.lane.was_in_pit_lane => u.lane.lane_visit_interrupted
      BY <1>3, <1>4, <2>1, LaneUnseen
    <3> QED BY <1>4, <3>1 DEF Witnessed
  <2>2. ASSUME seen, car'.at = "track" PROVE FALSE
    <3>1. ~u.lane.was_in_pit_lane
      <4>1. CASE s.lane.was_in_pit_lane
        BY <1>3, <1>4, <2>2, <4>1, LeavingCounts DEF Leaves
      <4>2. CASE ~s.lane.was_in_pit_lane
        BY <1>3, <1>4, <2>2, <4>2, OffLaneCounts
      <4> QED BY <4>1, <4>2
    <3> QED BY <1>4, <3>1 DEF Witnessed
  <2> QED BY <2>1, <2>2
<1>6. missing' = None /\ r.in_world /\ r.in_lane /\ (r.in_stall <=> InBox)
  BY <1>4, <1>5 DEF InBox
<1>7. /\ shown => blinds' = blinds
      /\ ~shown => blinds' = blinds - 1
  BY <1>2, ShownFacts
<1>8. (shown => r.pct = car'.pos /\ r.pct # None) /\ (~shown => r.pct = None)
  <2>1. car'.pos \in Nat
    BY <1>3
  <2>2. car'.pos # None
    BY <2>1, StintAssumption
  <2> QED BY <1>4, <1>5, <2>2
<1>9. CASE ~s.lane.was_in_pit_lane
  <2>1. /\ u.lane.lane_visit_observed <=> (s.lane.seen_in_world /\ ~s.lane.observation_interrupted)
        /\ u.lane.last_tick_secs = r.now /\ u.lane.blind_secs = 0 /\ u.lane.stopped_total_secs = 0
        /\ u.lane.anchor_pct = r.pct /\ u.lane.last_moved_secs = r.now
        /\ ~r.in_stall => u.lane.stopped_since = None
    BY <1>3, <1>4, <1>6, <1>9, LaneEnters
  <2>2. missing = None
    BY <1>4, <2>1 DEF Tracks, Witnessed
  <2>3. car.at = "track"
    BY <1>9, <2>2 DEF Tracks
  <2>4. EnterLane
    <3>1. EnterLane \/ Tow
      BY <1>3, <1>5, <2>3, ActsByPlace
    <3> QED BY <1>6, <3>1 DEF Tow
  <2>5. visit' = NewVisit(FALSE) /\ car'.at = "lane" /\ car'.pos = 1
    BY <1>3, <2>4 DEF EnterLane
  <2>6. blinds' = blinds => shown
    BY <1>3, <1>7
  <2>7. ~r.in_stall
    BY <1>6, <2>5 DEF InBox
  <2>8. r.pct \in {1, None} /\ (shown => r.pct = 1)
    BY <1>8, <2>5
  <2>9. Enters
    BY <1>4, <2>1, <2>5, <2>6, <2>7, <2>8 DEF Enters
  <2> QED BY <2>9
<1>10. CASE s.lane.was_in_pit_lane
  <2>1. /\ u.lane.lane_visit_observed = s.lane.lane_visit_observed
        /\ u.lane.lane_visit_interrupted = s.lane.lane_visit_interrupted
        /\ ~s.lane.observation_interrupted =>
             \E w \in Lanes :
                    /\ w.stopped_since = s.lane.stopped_since /\ w.stopped_total_secs = s.lane.stopped_total_secs
                    /\ r.pct # None => w.anchor_pct = r.pct
                    /\ r.pct = None => w.anchor_pct = s.lane.anchor_pct
                    /\ r.pct # None /\ r.pct # s.lane.anchor_pct => w.last_moved_secs = r.now
                    /\ ~(r.pct # None /\ r.pct # s.lane.anchor_pct) => w.last_moved_secs = s.lane.last_moved_secs
                    /\ r.pct # None => w.blind_secs = s.lane.blind_secs
                    /\ r.pct = None => w.blind_secs = s.lane.blind_secs + AtLeast0(r.now - s.lane.last_tick_secs)
                    /\ u.lane.anchor_pct = w.anchor_pct /\ u.lane.last_moved_secs = w.last_moved_secs
                    /\ u.lane.blind_secs = w.blind_secs
                    /\ u.lane.stopped_total_secs = Stand(w, r).stopped_total_secs
                    /\ u.lane.stopped_since = Stand(w, r).stopped_since
    BY <1>3, <1>4, <1>6, <1>10, LaneContinues
  <2>2. Witnessed
    BY <1>4, <1>10, <2>1 DEF Witnessed
  <2>3. missing = None /\ ~s.lane.observation_interrupted /\ s.lane.last_tick_secs = now
    BY <2>2 DEF Tracks, Witnessed
  <2>4. car.at # "track"
    BY <1>10, <2>3 DEF Tracks
  <2>5. StandStill \/ Roll
    BY <1>3, <1>5, <2>4, ActsByPlace
  <2>6. PICK w \in Lanes :
                    /\ w.stopped_since = s.lane.stopped_since /\ w.stopped_total_secs = s.lane.stopped_total_secs
                    /\ r.pct # None => w.anchor_pct = r.pct
                    /\ r.pct = None => w.anchor_pct = s.lane.anchor_pct
                    /\ r.pct # None /\ r.pct # s.lane.anchor_pct => w.last_moved_secs = r.now
                    /\ ~(r.pct # None /\ r.pct # s.lane.anchor_pct) => w.last_moved_secs = s.lane.last_moved_secs
                    /\ r.pct # None => w.blind_secs = s.lane.blind_secs
                    /\ r.pct = None => w.blind_secs = s.lane.blind_secs + AtLeast0(r.now - s.lane.last_tick_secs)
                    /\ u.lane.anchor_pct = w.anchor_pct /\ u.lane.last_moved_secs = w.last_moved_secs
                    /\ u.lane.blind_secs = w.blind_secs
                    /\ u.lane.stopped_total_secs = Stand(w, r).stopped_total_secs
                    /\ u.lane.stopped_since = Stand(w, r).stopped_since
    BY <2>1, <2>3
  <2>7. AtLeast0(r.now - s.lane.last_tick_secs) = 1
    BY <1>3, <1>4, <2>3 DEF AtLeast0
  <2>8. Frozen(w, r) <=> Still(shown)
    BY <1>4, <1>8, <2>6 DEF Frozen, Still
  <2>9. Moved(shown) <=> (r.pct # None /\ r.pct # s.lane.anchor_pct)
    BY <1>8 DEF Moved
  <2> DEFINE d == Stand(w, r)
  <2>10. /\ ~Frozen(w, r) /\ ~r.in_stall =>
                /\ d.stopped_since = None
                /\ w.stopped_since = None => d.stopped_total_secs = w.stopped_total_secs
                /\ w.stopped_since # None =>
                     d.stopped_total_secs = w.stopped_total_secs + AtLeast0(r.now - w.stopped_since)
         /\ Frozen(w, r) \/ r.in_stall =>
                /\ d.stopped_total_secs = w.stopped_total_secs
                /\ w.stopped_since # None => d.stopped_since = w.stopped_since
                /\ w.stopped_since = None =>
                     d.stopped_since = IF Frozen(w, r) THEN w.last_moved_secs ELSE r.now
    BY StandFields
  <2>11. u.lane.stopped_total_secs = d.stopped_total_secs /\ u.lane.stopped_since = d.stopped_since
    BY <2>6
  <2> HIDE DEF d
  <2>12. /\ shown => blinds' = blinds /\ s'.lane.anchor_pct = car'.pos /\ s'.lane.blind_secs = s.lane.blind_secs
         /\ ~shown => /\ blinds' = blinds - 1 /\ s'.lane.anchor_pct = s.lane.anchor_pct
                      /\ s'.lane.blind_secs = s.lane.blind_secs + 1
    BY <1>4, <1>7, <1>8, <2>6, <2>7
  <2>13. /\ Moved(shown) => s'.lane.last_moved_secs = now'
         /\ ~Moved(shown) => s'.lane.last_moved_secs = s.lane.last_moved_secs
    BY <1>4, <2>6, <2>9
  <2>14. ~Still(shown) /\ ~InBox =>
           /\ s'.lane.stopped_since = None
           /\ s.lane.stopped_since = None => s'.lane.stopped_total_secs = s.lane.stopped_total_secs
           /\ s.lane.stopped_since # None =>
                s'.lane.stopped_total_secs = s.lane.stopped_total_secs + AtLeast0(now' - s.lane.stopped_since)
    <3> SUFFICES ASSUME ~Still(shown), ~InBox
                 PROVE  /\ s'.lane.stopped_since = None
                        /\ s.lane.stopped_since = None => s'.lane.stopped_total_secs = s.lane.stopped_total_secs
                        /\ s.lane.stopped_since # None =>
                             s'.lane.stopped_total_secs = s.lane.stopped_total_secs + AtLeast0(now' - s.lane.stopped_since)
      OBVIOUS
    <3>1. ~Frozen(w, r) /\ ~r.in_stall
      BY <1>6, <2>8
    <3> QED BY <1>4, <2>6, <2>10, <2>11, <3>1
  <2>15. Still(shown) \/ InBox =>
           /\ s'.lane.stopped_total_secs = s.lane.stopped_total_secs
           /\ s.lane.stopped_since # None => s'.lane.stopped_since = s.lane.stopped_since
           /\ s.lane.stopped_since = None =>
                s'.lane.stopped_since = IF Still(shown) THEN s'.lane.last_moved_secs ELSE now'
    <3> SUFFICES ASSUME Still(shown) \/ InBox
                 PROVE  /\ s'.lane.stopped_total_secs = s.lane.stopped_total_secs
                        /\ s.lane.stopped_since # None => s'.lane.stopped_since = s.lane.stopped_since
                        /\ s.lane.stopped_since = None =>
                             s'.lane.stopped_since = IF Still(shown) THEN s'.lane.last_moved_secs ELSE now'
      OBVIOUS
    <3>1. Frozen(w, r) \/ r.in_stall
      BY <1>6, <2>8
    <3> QED BY <1>4, <2>6, <2>8, <2>10, <2>11, <3>1
  <2>16. Continues(shown)
    BY <2>2, <2>5, <2>12, <2>13, <2>14, <2>15 DEF Continues
  <2> QED BY <2>16
<1> QED BY <1>9, <1>10

\* What standing still and rolling do to the truth of a visit.
LEMMA StandStillFacts ==
    ASSUME TypesInv, StandStill
    PROVE  /\ car' = car /\ visit'.spell = visit.spell + 1 /\ visit'.stood = visit.stood + 1
           /\ visit'.spells = IF visit.spell = 0 /\ car.at = "lane" THEN visit.spells + 1 ELSE visit.spells
           /\ visit'.served <=> (visit.served \/ (visit.spell + 1 >= Service /\ ~visit.garaged))
           /\ visit'.garaged = visit.garaged /\ visit'.blinds = visit.blinds
           /\ car.at \in {"lane", "box"}
<1>1. visit \in VisitTypes /\ car.at \in {"track", "lane", "box"}
  BY DEF TypesInv, WorldTypes
<1> DEFINE served == visit.served \/ (visit.spell + 1 >= Service /\ ~visit.garaged)
           spells == IF visit.spell = 0 /\ car.at = "lane" THEN visit.spells + 1 ELSE visit.spells
<1>2. visit' = [visit EXCEPT !.stood = visit.stood + 1, !.spell = visit.spell + 1, !.spells = spells, !.served = served]
      /\ car' = car /\ car.at # "track"
  BY <1>1 DEF StandStill, VisitTypes
<1>3. served <=> (visit.served \/ (visit.spell + 1 >= Service /\ ~visit.garaged))
  OBVIOUS
<1> HIDE DEF served
<1>4. visit'.stood = visit.stood + 1 /\ visit'.spell = visit.spell + 1 /\ visit'.spells = spells /\ visit'.served = served
      /\ visit'.garaged = visit.garaged /\ visit'.blinds = visit.blinds
  BY <1>1, <1>2 DEF VisitTypes
<1> QED BY <1>1, <1>2, <1>3, <1>4

LEMMA RollFacts ==
    ASSUME TypesInv, Roll
    PROVE  /\ car'.pos = car.pos + 1 /\ visit'.spell = 0 /\ visit'.stood = visit.stood
           /\ visit'.served = visit.served /\ visit'.garaged = visit.garaged /\ visit'.blinds = visit.blinds
           /\ car.at \in {"lane", "box"} /\ car'.at \in {"lane", "box"}
           /\ car'.at = "box" => car.at = "lane" /\ visit'.spells = visit.spells + 1
           /\ car'.at = "lane" => visit'.spells = visit.spells
           /\ car.at = "box" => visit.spell > 0
<1>1. visit \in VisitTypes /\ car \in [at : {"track", "lane", "box"}, lap : 0..MaxLap, pos : Nat]
  BY DEF TypesInv, WorldTypes
<1>2. PICK at \in {"lane", "box"} :
          /\ at = "box" => car.at = "lane"
          /\ car.at = "box" => visit.spell > 0
          /\ car' = [car EXCEPT !.at = at, !.pos = @ + 1]
          /\ visit' = [visit EXCEPT !.spell = 0, !.spells = IF at = "box" THEN @ + 1 ELSE @]
  BY DEF Roll
<1>3. car.at # "track"
  BY DEF Roll
<1>4. car'.at = at /\ car'.pos = car.pos + 1
  BY <1>1, <1>2
<1>5. /\ visit'.stood = visit.stood /\ visit'.spell = 0 /\ visit'.served = visit.served
      /\ visit'.garaged = visit.garaged /\ visit'.blinds = visit.blinds
      /\ visit'.spells = IF at = "box" THEN visit.spells + 1 ELSE visit.spells
  BY <1>1, <1>2 DEF VisitTypes
<1> QED BY <1>1, <1>2, <1>3, <1>4, <1>5

\* The types of what the arithmetic below is about.
LEMMA FiguresOfVisit ==
    ASSUME TypesInv
    PROVE  /\ now \in Nat /\ blinds \in Nat /\ car.pos \in Nat /\ car.at \in {"track", "lane", "box"}
           /\ visit.spell \in Nat /\ visit.stood \in Nat /\ visit.spells \in Nat /\ visit.blinds \in Nat
           /\ visit.served \in BOOLEAN /\ visit.garaged \in BOOLEAN
           /\ s.lane.anchor_pct \in Nat \cup {None} /\ s.lane.last_moved_secs \in Nat
           /\ s.lane.stopped_since \in Nat \cup {None} /\ s.lane.stopped_total_secs \in Nat
           /\ s.lane.blind_secs \in Nat /\ s.lane.last_tick_secs \in Nat
<1>1. world \in Worlds /\ now \in 0..world.secs
  BY DEF TypesInv, WorldTypes
<1>2. now \in Nat
  BY <1>1, WorldFields
<1>3. s.lane \in Lanes
  BY DEF TypesInv, Wellformed, Visits
<1>4. visit \in VisitTypes /\ car \in [at : {"track", "lane", "box"}, lap : 0..MaxLap, pos : Nat] /\ blinds \in Nat
  BY DEF TypesInv, WorldTypes
<1> QED BY <1>2, <1>3, <1>4 DEF Lanes, VisitTypes

LEMMA AtMostEnters ==
    ASSUME TypesInv, TypesInv', Second, blinds' <= blinds, Enters
    PROVE  AtMost'
<1>1. /\ visit'.stood = 0 /\ visit'.spells = 0 /\ visit'.spell = 0 /\ visit'.blinds = blinds
      /\ now' \in Nat /\ blinds \in Nat /\ blinds' \in Nat
  BY FiguresOfVisit DEF Enters, NewVisit, TypesInv, WorldTypes
<1>1a. now' \in Nat
  <2>1. now \in Nat /\ now' = now + 1
    BY FiguresOfVisit, SecondFacts
  <2> QED BY <2>1
<1>2. /\ car'.at = "lane" /\ car'.pos = 1
      /\ s'.lane.stopped_since = None /\ s'.lane.stopped_total_secs = 0 /\ s'.lane.blind_secs = 0
      /\ s'.lane.last_moved_secs = now'
      /\ blinds' = blinds => s'.lane.anchor_pct = 1
      /\ s'.lane.anchor_pct \in {1, None}
  BY DEF Enters
<1>3. ~Standing' /\ Reckoned' = 0 /\ Due' = 0
  BY <1>1, <1>2 DEF Standing, Reckoned, Due
<1>4. blinds' = visit'.blinds => Placed'
  BY <1>1, <1>2 DEF Placed
<1>5. Placed' => s'.lane.last_moved_secs <= now' /\ now' - s'.lane.last_moved_secs <= visit'.spell
  <2> DEFINE m == s'.lane.last_moved_secs
             n == now'
             sp == visit'.spell
  <2>1. m = n /\ n \in Nat /\ sp = 0
    BY <1>1, <1>1a, <1>2
  <2> HIDE DEF m, n, sp
  <2>2. m <= n /\ n - m <= sp
    BY <2>1
  <2> QED BY <2>2 DEF m, n, sp
<1>6. s'.lane.blind_secs <= visit'.blinds - blinds'
  <2> DEFINE bs == s'.lane.blind_secs
             vb == visit'.blinds
             B == blinds
             B1 == blinds'
  <2>1. bs = 0 /\ vb = B /\ B \in Nat /\ B1 \in Nat /\ B1 <= B
    BY <1>1, <1>2
  <2> HIDE DEF bs, vb, B, B1
  <2>2. bs <= vb - B1
    BY <2>1
  <2> QED BY <2>2 DEF bs, vb, B1
<1>8. s'.lane.anchor_pct = None \/ s'.lane.anchor_pct <= car'.pos
  BY <1>2
<1>7. ~Standing' /\ Reckoned' + visit'.spell + Due' <= visit'.stood + visit'.spells
  BY <1>1, <1>3
<1> HIDE DEF Enters
<1> QED BY <1>3, <1>4, <1>5, <1>6, <1>7, <1>8 DEF AtMost

LEMMA AtMostContinues ==
    ASSUME TypesInv, TypesInv', Second, Visiting, AtMost, NEW shown \in BOOLEAN, Continues(shown)
    PROVE  AtMost'
<1> DEFINE n == now
           B == blinds
           p == car.pos
           a == s.lane.anchor_pct
           m == s.lane.last_moved_secs
           d == s.lane.stopped_since
           tot == s.lane.stopped_total_secs
           bs == s.lane.blind_secs
           sp == visit.spell
           st == visit.stood
           sl == visit.spells
           vb == visit.blinds
           B1 == blinds'
           p1 == car'.pos
           a1 == s'.lane.anchor_pct
           m1 == s'.lane.last_moved_secs
           d1 == s'.lane.stopped_since
           tot1 == s'.lane.stopped_total_secs
           bs1 == s'.lane.blind_secs
           sp1 == visit'.spell
           st1 == visit'.stood
           sl1 == visit'.spells
           box == car.at = "box"
           box1 == car'.at = "box"
           flag == world.flag
           n1 == now'
<1>1. /\ n \in Nat /\ B \in Nat /\ p \in Nat /\ sp \in Nat /\ st \in Nat /\ sl \in Nat /\ vb \in Nat
      /\ a \in Nat \cup {None} /\ m \in Nat /\ d \in Nat \cup {None} /\ tot \in Nat /\ bs \in Nat
  BY FiguresOfVisit
<1>2. /\ n1 = n + 1 /\ world' = world /\ visit'.blinds = vb
  BY SecondFacts, StandStillFacts, RollFacts DEF Continues
<1>3. /\ B1 \in Nat /\ p1 \in Nat /\ sp1 \in Nat /\ st1 \in Nat /\ sl1 \in Nat
      /\ a1 \in Nat \cup {None} /\ m1 \in Nat /\ d1 \in Nat \cup {None} /\ tot1 \in Nat /\ bs1 \in Nat
  <2>1. visit' \in VisitTypes /\ car' \in [at : {"track", "lane", "box"}, lap : 0..MaxLap, pos : Nat] /\ B1 \in Nat
    BY DEF TypesInv, WorldTypes
  <2>2. s'.lane \in Lanes
    BY DEF TypesInv, Wellformed, Visits
  <2> QED BY <2>1, <2>2 DEF Lanes, VisitTypes
<1>4. /\ \/ p1 = p /\ sp1 = sp + 1 /\ st1 = st + 1 /\ (box1 <=> box)
            /\ (sp = 0 /\ ~box => sl1 = sl + 1) /\ (~(sp = 0 /\ ~box) => sl1 = sl)
         \/ p1 = p + 1 /\ sp1 = 0 /\ st1 = st /\ (box1 => ~box /\ sl1 = sl + 1) /\ (~box1 => sl1 = sl)
            /\ (box => sp > 0)
  <2>1. CASE StandStill
    BY <2>1, StandStillFacts
  <2>2. CASE Roll
    BY <2>2, RollFacts
  <2> QED BY <2>1, <2>2 DEF Continues
<1>5. /\ shown => B1 = B /\ a1 = p1 /\ bs1 = bs
      /\ ~shown => B1 = B - 1 /\ a1 = a /\ bs1 = bs + 1
      /\ shown /\ p1 # a => m1 = n1
      /\ ~(shown /\ p1 # a) => m1 = m
  BY DEF Continues, Moved
<1> DEFINE still == shown /\ n1 - m1 >= StoppedConfirm
<1>6. /\ ~still /\ ~(box1 /\ flag) =>
            d1 = None /\ (d = None => tot1 = tot) /\ (d # None => tot1 = tot + AtLeast0(n1 - d))
      /\ still \/ (box1 /\ flag) =>
            tot1 = tot /\ (d # None => d1 = d) /\ (d = None => d1 = IF still THEN m1 ELSE n1)
  <2>1. (Still(shown) <=> still) /\ (InBox <=> (box1 /\ flag))
    BY DEF Still, InBox
  <2> HIDE DEF still, box1, flag
  <2> QED BY <2>1 DEF Continues
<1>7. /\ Placed <=> a = p
      /\ Standing <=> d # None
      /\ d # None => Reckoned = tot + (n - d)
      /\ d = None => Reckoned = tot
      /\ Due = IF box \/ sp > 0 THEN 1 ELSE 0
  BY DEF Placed, Standing, Reckoned, Due
<1>8. /\ Placed' <=> a1 = p1
      /\ Standing' <=> d1 # None
      /\ d1 # None => Reckoned' = tot1 + (n1 - d1)
      /\ d1 = None => Reckoned' = tot1
      /\ Due' = IF box1 \/ sp1 > 0 THEN 1 ELSE 0
  BY DEF Placed, Standing, Reckoned, Due
<1>9. /\ a = p => m <= n /\ n - m <= sp
      /\ d # None => d <= n /\ ((a = p /\ n - m >= StoppedConfirm) \/ (box /\ flag))
      /\ bs <= vb - B
      /\ a = None \/ a <= p
      /\ B = vb => a = p
      /\ \/ d # None /\ tot + (n - d) + 1 <= st + sl /\ (sp > 0 \/ box)
         \/ d = None /\ tot + sp + (IF box \/ sp > 0 THEN 1 ELSE 0) <= st + sl
         \/ st + sl >= StoppedConfirm + 1 /\ B < vb
  <2>1. Witnessed
    BY DEF Continues
  <2> QED BY <1>7, <2>1 DEF AtMost
<1>10. sp <= st /\ B <= vb
  BY DEF Visiting
<1>11. StoppedConfirm \in Nat /\ StoppedConfirm # 0 /\ None \notin Int
  BY StintAssumption
<1> HIDE DEF n, B, p, a, m, d, tot, bs, sp, st, sl, vb, B1, p1, a1, m1, d1, tot1, bs1, sp1, st1, sl1, box, box1, flag, n1
<1>12. a1 = p1 => m1 <= n1 /\ n1 - m1 <= sp1
  BY <1>1, <1>2, <1>3, <1>4, <1>5, <1>9, <1>11
<1>13. bs1 <= vb - B1 /\ (B1 = vb => a1 = p1)
  BY <1>1, <1>3, <1>5, <1>9, <1>10
<1>a. a1 = None \/ a1 <= p1
  BY <1>1, <1>4, <1>5, <1>9, <1>11
<1>14. d1 # None => d1 <= n1 /\ ((a1 = p1 /\ n1 - m1 >= StoppedConfirm) \/ (box1 /\ flag))
  BY <1>1, <1>2, <1>3, <1>5, <1>6, <1>9, <1>11
<1>15. \/ d1 # None /\ tot1 + (n1 - d1) + 1 <= st1 + sl1 /\ (sp1 > 0 \/ box1)
       \/ d1 = None /\ tot1 + sp1 + (IF box1 \/ sp1 > 0 THEN 1 ELSE 0) <= st1 + sl1
       \/ st1 + sl1 >= StoppedConfirm + 1 /\ B1 < vb
  BY <1>1, <1>2, <1>3, <1>4, <1>5, <1>6, <1>9, <1>10, <1>11, <1>12, SMTT(60) DEF AtLeast0
<1>16. /\ Placed' => s'.lane.last_moved_secs <= now' /\ now' - s'.lane.last_moved_secs <= visit'.spell
       /\ Standing' =>
             /\ s'.lane.stopped_since <= now'
             /\ \/ Placed' /\ now' - s'.lane.last_moved_secs >= StoppedConfirm
                \/ car'.at = "box" /\ world'.flag
  BY <1>2, <1>8, <1>12, <1>14 DEF m1, n1, sp1, d1, box1, flag
<1>17. /\ s'.lane.blind_secs <= visit'.blinds - blinds' /\ (blinds' = visit'.blinds => Placed')
       /\ s'.lane.anchor_pct = None \/ s'.lane.anchor_pct <= car'.pos
  BY <1>2, <1>8, <1>a, <1>13 DEF bs1, B1, a1, p1
<1>18. \/ Standing' /\ Reckoned' + 1 <= visit'.stood + visit'.spells /\ (visit'.spell > 0 \/ car'.at = "box")
       \/ ~Standing' /\ Reckoned' + visit'.spell + Due' <= visit'.stood + visit'.spells
       \/ visit'.stood + visit'.spells >= StoppedConfirm + 1 /\ blinds' < visit'.blinds
  BY <1>2, <1>8, <1>15 DEF st1, sl1, sp1, box1, B1
<1> QED BY <1>16, <1>17, <1>18 DEF AtMost

\* The code's limits, 2, 3 and 1, and a service the overlay cannot miss.
CodeLimits ==
    /\ MinStop <= StoppedConfirm + 1
    /\ Service >= MinStop + BlindTolerance /\ Service > StoppedConfirm + BlindTolerance

LEMMA AtLeastEnters ==
    ASSUME TypesInv, TypesInv', Second, Enters
    PROVE  AtLeast'
<1>1. /\ visit'.spell = 0 /\ ~visit'.served
  BY DEF Enters, NewVisit
<1>1a. now' \in Nat
  <2>1. now \in Nat /\ now' = now + 1
    BY FiguresOfVisit, SecondFacts
  <2> QED BY <2>1
<1>2. /\ car'.at = "lane"
      /\ s'.lane.stopped_since = None /\ s'.lane.stopped_total_secs = 0 /\ s'.lane.blind_secs = 0
      /\ s'.lane.last_moved_secs = now'
  BY DEF Enters
<1>3. ~Standing' /\ Reckoned' = 0
  BY <1>2 DEF Standing, Reckoned
<1> DEFINE m == s'.lane.last_moved_secs
           bs == s'.lane.blind_secs
           sp == visit'.spell
           n == now'
           re == Reckoned'
<1>4. m = n /\ n \in Nat /\ bs = 0 /\ sp = 0 /\ re = 0
  BY <1>1, <1>1a, <1>2, <1>3
<1> HIDE DEF m, bs, sp, n, re
<1>5. m + sp <= n + bs + 1 /\ sp <= bs /\ sp <= re + bs
  BY <1>4
<1>6. /\ Placed' => s'.lane.last_moved_secs + visit'.spell <= now' + s'.lane.blind_secs + 1
      /\ visit'.spell <= s'.lane.blind_secs /\ visit'.spell <= Reckoned' + s'.lane.blind_secs
  BY <1>5 DEF m, sp, n, bs, re
<1> QED BY <1>1, <1>2, <1>3, <1>6 DEF AtLeast

LEMMA AtLeastContinues ==
    ASSUME TypesInv, TypesInv', Second, Visiting, AtMost, AtLeast,
           CodeLimits, NEW shown \in BOOLEAN, Continues(shown)
    PROVE  AtLeast'
<1> DEFINE n == now
           B == blinds
           p == car.pos
           a == s.lane.anchor_pct
           m == s.lane.last_moved_secs
           d == s.lane.stopped_since
           tot == s.lane.stopped_total_secs
           bs == s.lane.blind_secs
           sp == visit.spell
           st == visit.stood
           sl == visit.spells
           vb == visit.blinds
           B1 == blinds'
           p1 == car'.pos
           a1 == s'.lane.anchor_pct
           m1 == s'.lane.last_moved_secs
           d1 == s'.lane.stopped_since
           tot1 == s'.lane.stopped_total_secs
           bs1 == s'.lane.blind_secs
           sp1 == visit'.spell
           st1 == visit'.stood
           sl1 == visit'.spells
           box == car.at = "box"
           box1 == car'.at = "box"
           flag == world.flag
           n1 == now'
           sv == visit.served
           sv1 == visit'.served
           g == visit.garaged
<1>1. /\ n \in Nat /\ B \in Nat /\ p \in Nat /\ sp \in Nat /\ st \in Nat /\ sl \in Nat /\ vb \in Nat
      /\ a \in Nat \cup {None} /\ m \in Nat /\ d \in Nat \cup {None} /\ tot \in Nat /\ bs \in Nat
  BY FiguresOfVisit
<1>2. /\ n1 = n + 1 /\ world' = world /\ visit'.blinds = vb
  BY SecondFacts, StandStillFacts, RollFacts DEF Continues
<1>3. /\ B1 \in Nat /\ p1 \in Nat /\ sp1 \in Nat /\ st1 \in Nat /\ sl1 \in Nat
      /\ a1 \in Nat \cup {None} /\ m1 \in Nat /\ d1 \in Nat \cup {None} /\ tot1 \in Nat /\ bs1 \in Nat
  <2>1. visit' \in VisitTypes /\ car' \in [at : {"track", "lane", "box"}, lap : 0..MaxLap, pos : Nat] /\ B1 \in Nat
    BY DEF TypesInv, WorldTypes
  <2>2. s'.lane \in Lanes
    BY DEF TypesInv, Wellformed, Visits
  <2> QED BY <2>1, <2>2 DEF Lanes, VisitTypes
<1>4. /\ \/ p1 = p /\ sp1 = sp + 1 /\ st1 = st + 1 /\ (box1 <=> box)
            /\ (sp = 0 /\ ~box => sl1 = sl + 1) /\ (~(sp = 0 /\ ~box) => sl1 = sl)
         \/ p1 = p + 1 /\ sp1 = 0 /\ st1 = st /\ (box1 => ~box /\ sl1 = sl + 1) /\ (~box1 => sl1 = sl)
            /\ (box => sp > 0)
  <2>1. CASE StandStill
    BY <2>1, StandStillFacts
  <2>2. CASE Roll
    BY <2>2, RollFacts
  <2> QED BY <2>1, <2>2 DEF Continues
<1>5. /\ shown => B1 = B /\ a1 = p1 /\ bs1 = bs
      /\ ~shown => B1 = B - 1 /\ a1 = a /\ bs1 = bs + 1
      /\ shown /\ p1 # a => m1 = n1
      /\ ~(shown /\ p1 # a) => m1 = m
  BY DEF Continues, Moved
<1> DEFINE still == shown /\ n1 - m1 >= StoppedConfirm
<1>6. /\ ~still /\ ~(box1 /\ flag) =>
            d1 = None /\ (d = None => tot1 = tot) /\ (d # None => tot1 = tot + AtLeast0(n1 - d))
      /\ still \/ (box1 /\ flag) =>
            tot1 = tot /\ (d # None => d1 = d) /\ (d = None => d1 = IF still THEN m1 ELSE n1)
  <2>1. (Still(shown) <=> still) /\ (InBox <=> (box1 /\ flag))
    BY DEF Still, InBox
  <2> HIDE DEF still, box1, flag
  <2> QED BY <2>1 DEF Continues
<1>7. /\ Placed <=> a = p
      /\ Standing <=> d # None
      /\ d # None => Reckoned = tot + (n - d)
      /\ d = None => Reckoned = tot
      /\ Due = IF box \/ sp > 0 THEN 1 ELSE 0
  BY DEF Placed, Standing, Reckoned, Due
<1>8. /\ Placed' <=> a1 = p1
      /\ Standing' <=> d1 # None
      /\ d1 # None => Reckoned' = tot1 + (n1 - d1)
      /\ d1 = None => Reckoned' = tot1
      /\ Due' = IF box1 \/ sp1 > 0 THEN 1 ELSE 0
  BY DEF Placed, Standing, Reckoned, Due
<1>9. /\ a = p => m <= n /\ n - m <= sp
      /\ d # None => d <= n /\ ((a = p /\ n - m >= StoppedConfirm) \/ (box /\ flag))
      /\ a = None \/ a <= p
  <2>1. Witnessed
    BY DEF Continues
  <2> QED BY <1>7, <2>1 DEF AtMost
<1>a. /\ box /\ flag => d # None
      /\ a = p => m + sp <= n + bs + 1
      /\ a # p => sp <= bs
      /\ d # None => sp <= tot + (n - d) + bs + 1
      /\ d = None => sp <= tot + bs \/ sp <= StoppedConfirm + bs
      /\ sv /\ bs <= BlindTolerance => (d # None => MinStop <= tot + (n - d) + 1) /\ (d = None => MinStop <= tot)
  <2>1. Witnessed
    BY DEF Continues
  <2> QED BY <1>7, <2>1 DEF AtLeast
<1>b. /\ StoppedConfirm \in Nat /\ StoppedConfirm # 0 /\ None \notin Int
      /\ BlindTolerance \in Nat /\ MinStop \in Nat /\ Service \in Nat
  BY StintAssumption, WorldAssumption
<1>c. /\ MinStop <= StoppedConfirm + 1
      /\ Service >= MinStop + BlindTolerance /\ Service > StoppedConfirm + BlindTolerance
  BY DEF CodeLimits
<1>d. sv1 => sv \/ (sp1 = sp + 1 /\ sp1 >= Service)
  <2>1. CASE StandStill
    BY <2>1, StandStillFacts
  <2>2. CASE Roll
    BY <2>2, RollFacts
  <2> QED BY <2>1, <2>2 DEF Continues
<1> HIDE DEF n, B, p, a, m, d, tot, bs, sp, st, sl, vb, B1, p1, a1, m1, d1, tot1, bs1, sp1, st1, sl1, box, box1, flag, n1,
             sv, sv1, g
<1>12. box1 /\ flag => d1 # None
  BY <1>1, <1>2, <1>3, <1>6, <1>b
<1>13. a1 = p1 => m1 + sp1 <= n1 + bs1 + 1
  BY <1>1, <1>2, <1>3, <1>4, <1>5, <1>9, <1>a, <1>b
<1>14. a1 # p1 => sp1 <= bs1
  BY <1>1, <1>2, <1>3, <1>4, <1>5, <1>9, <1>a, <1>b
<1>15. d1 # None => sp1 <= tot1 + (n1 - d1) + bs1 + 1
  BY <1>1, <1>2, <1>3, <1>4, <1>5, <1>6, <1>9, <1>a, <1>b, <1>12, <1>13, <1>14, SMTT(60) DEF AtLeast0
<1>16. d1 = None => sp1 <= tot1 + bs1 \/ sp1 <= StoppedConfirm + bs1
  BY <1>1, <1>2, <1>3, <1>4, <1>5, <1>6, <1>9, <1>a, <1>b, <1>12, <1>13, <1>14, SMTT(60) DEF AtLeast0
<1>17. sv1 /\ bs1 <= BlindTolerance =>
         (d1 # None => MinStop <= tot1 + (n1 - d1) + 1) /\ (d1 = None => MinStop <= tot1)
  BY <1>1, <1>2, <1>3, <1>4, <1>5, <1>6, <1>9, <1>a, <1>b, <1>c, <1>d, <1>12, <1>13, <1>14, <1>15, <1>16, SMTT(60) DEF AtLeast0
<1>18. /\ car'.at = "box" /\ world'.flag => Standing'
       /\ Placed' => s'.lane.last_moved_secs + visit'.spell <= now' + s'.lane.blind_secs + 1
       /\ ~Placed' => visit'.spell <= s'.lane.blind_secs
  BY <1>2, <1>8, <1>12, <1>13, <1>14 DEF m1, n1, sp1, bs1, box1, flag
<1>19. /\ Standing' => visit'.spell <= Reckoned' + s'.lane.blind_secs + 1
       /\ ~Standing' => \/ visit'.spell <= Reckoned' + s'.lane.blind_secs
                        \/ visit'.spell <= StoppedConfirm + s'.lane.blind_secs
  BY <1>8, <1>15, <1>16 DEF sp1, bs1
<1>20. visit'.served /\ s'.lane.blind_secs <= BlindTolerance =>
             IF Standing' THEN MinStop <= Reckoned' + 1 ELSE MinStop <= Reckoned'
  BY <1>8, <1>17 DEF sv1, bs1
<1> QED BY <1>18, <1>19, <1>20 DEF AtLeast

\* What closing a visit takes of it.
LEMMA BankedFields ==
    ASSUME NEW l \in Lanes, NEW until \in Nat, NEW b, b = Bank(Noted(l), until)
    PROVE  /\ b.lane_visit_observed = l.lane_visit_observed
           /\ b.lane_visit_interrupted = l.lane_visit_interrupted
           /\ b.blind_secs = l.blind_secs
           /\ l.stopped_since = None => b.stopped_total_secs = l.stopped_total_secs
           /\ l.stopped_since # None =>
                b.stopped_total_secs = l.stopped_total_secs + AtLeast0(until - l.stopped_since)
<1> DEFINE m == Noted(l)
<1>1. /\ m \in Lanes /\ m.stopped_since = l.stopped_since /\ m.stopped_total_secs = l.stopped_total_secs
      /\ m.lane_visit_observed = l.lane_visit_observed
      /\ m.blind_secs = l.blind_secs /\ m.lane_visit_interrupted = l.lane_visit_interrupted
  BY NotedFields
<1> DEFINE x == AtLeast0(until - m.stopped_since)
<1>2. \/ m.stopped_since = None /\ b = m
      \/ m.stopped_since # None /\ b = [m EXCEPT !.stopped_since = None, !.stopped_total_secs = m.stopped_total_secs + x]
  <2>1. m.stopped_since = None => b = m
    BY DEF Bank
  <2>2. m.stopped_since # None =>
          b = [m EXCEPT !.stopped_since = None, !.stopped_total_secs = m.stopped_total_secs + x]
    <3> HIDE DEF m
    <3>1. b = Bank(m, until)
      BY DEF m
    <3> QED BY <1>1, <3>1 DEF Bank, Lanes
  <2> QED BY <2>1, <2>2
<1>3. x = AtLeast0(until - l.stopped_since)
  BY <1>1
<1> HIDE DEF m, x
<1>4. CASE m.stopped_since = None
  BY <1>1, <1>2, <1>4
<1>5. CASE m.stopped_since # None
  <2>1. /\ b.lane_visit_observed = m.lane_visit_observed
        /\ b.lane_visit_interrupted = m.lane_visit_interrupted
        /\ b.blind_secs = m.blind_secs
        /\ b.stopped_total_secs = m.stopped_total_secs + x
    BY <1>1, <1>2, <1>5 DEF Lanes
  <2> QED BY <1>1, <1>3, <1>5, <2>1
<1> QED BY <1>4, <1>5

\* The figures a witnessed visit ends with: the overlay adds the second in which
\* the car left.
LEMMA WitnessedEnd ==
    ASSUME TypesInv, AtMost, Witnessed, NEW b, b = Bank(Noted(s.lane), now + 1)
    PROVE  /\ b.lane_visit_observed /\ ~b.lane_visit_interrupted /\ b.blind_secs = s.lane.blind_secs
           /\ Standing => b.stopped_total_secs = Reckoned + 1
           /\ ~Standing => b.stopped_total_secs = Reckoned
           /\ Reckoned \in Nat
           /\ b.stopped_total_secs <= visit.stood + visit.spells
                \/ (visit.stood + visit.spells >= StoppedConfirm + 1 /\ blinds < visit.blinds)
<1>1. s.lane \in Lanes
  BY DEF TypesInv, Wellformed, Visits
<1> DEFINE n == now
           d == s.lane.stopped_since
           tot == s.lane.stopped_total_secs
           sp == visit.spell
           T == visit.stood + visit.spells
           bt == b.stopped_total_secs
           re == Reckoned
           stand == Standing
           due == Due
<1>2. n \in Nat /\ n + 1 \in Nat /\ d \in Nat \cup {None} /\ tot \in Nat /\ sp \in Nat /\ T \in Nat /\ due \in Nat
  BY FiguresOfVisit DEF Due
<1>3. /\ b.lane_visit_observed = s.lane.lane_visit_observed
      /\ b.lane_visit_interrupted = s.lane.lane_visit_interrupted
      /\ b.blind_secs = s.lane.blind_secs
      /\ d = None => bt = tot
      /\ d # None => bt = tot + AtLeast0((n + 1) - d)
  BY <1>1, <1>2, BankedFields
<1>4. /\ stand <=> d # None
      /\ d # None => re = tot + (n - d)
      /\ d = None => re = tot
  BY DEF Standing, Reckoned
<1>5. /\ d # None => d <= n
      /\ \/ stand /\ re + 1 <= T
         \/ ~stand /\ re + sp + due <= T
         \/ T >= StoppedConfirm + 1 /\ blinds < visit.blinds
  BY DEF AtMost, Standing
<1> HIDE DEF n, d, tot, sp, T, bt, re, stand, due
<1>6. (stand => bt = re + 1) /\ (~stand => bt = re) /\ re \in Nat
  BY <1>2, <1>3, <1>4, <1>5, StintAssumption DEF AtLeast0
<1>7. bt <= T \/ (T >= StoppedConfirm + 1 /\ blinds < visit.blinds)
  BY <1>2, <1>5, <1>6
<1> QED BY <1>3, <1>6, <1>7 DEF Witnessed, bt, re, stand, T

LEMMA ServiceStep ==
    ASSUME TypesInv, TypesInv', Second, Tracks, AtMost,
           s'.books.pit_count > s.books.pit_count, s'.stint.last_pit_secs # None, visit.blinds = blinds'
    PROVE  s'.stint.last_pit_secs <= visit.stood + visit.spells
<1>1. PICK seen \in BOOLEAN, shown \in BOOLEAN : \E r \in Samples : \E u : SampledAs(seen, shown, r, u)
  BY SecondIsSampled
<1>1a. PICK r \in Samples : \E u : SampledAs(seen, shown, r, u)
  BY <1>1
<1>2. PICK u : SampledAs(seen, shown, r, u)
  BY <1>1a
<1>3. /\ Sound(s.books) /\ s.lane \in Visits /\ s.lane \in Lanes /\ Kept(s.stint)
      /\ s.books \in Books /\ s.books.pit_count \in Nat
  BY DEF TypesInv, Wellformed, Visits, Sound, Books
<1>4. /\ s'.lane = u.lane /\ s'.books = u.books /\ u = UpdateWithOfficial(s, r)
      /\ s'.stint.last_pit_secs = u.stint.last_pit_secs
      /\ r.now = now' /\ (r.in_world <=> seen)
      /\ (r.in_lane <=> (seen /\ car'.at # "track"))
  BY <1>2 DEF SampledAs
<1>5. u.books.pit_count # s.books.pit_count
  <2>1. u.books.pit_count > s.books.pit_count
    BY <1>4
  <2> QED BY <1>3, <2>1
<1>6. seen /\ car'.at = "track" /\ s.lane.was_in_pit_lane
  <2>1. ASSUME ~seen PROVE FALSE
    <3>1. u.books.pit_count = ObserveOfficialStops(s.books, r.official).pit_count
      BY <1>3, <1>4, <2>1, LaneUnseen
    <3> QED BY <1>3, <1>5, <3>1, ObserveCount
  <2>2. ASSUME seen, car'.at # "track" PROVE FALSE
    BY <1>3, <1>4, <1>5, <2>2, InLaneCounts
  <2>3. ASSUME seen, car'.at = "track", ~s.lane.was_in_pit_lane PROVE FALSE
    BY <1>3, <1>4, <1>5, <2>3, OffLaneCounts
  <2> QED BY <2>1, <2>2, <2>3
<1>6a. r.in_world /\ ~r.in_lane /\ r \in Samples
  BY <1>4, <1>6
<1>6b. \E m, b, o : Leaves(s, r, u, m, b, o)
  BY <1>3, <1>4, <1>6, <1>6a, LeavingCounts
<1>6c. PICK m, b, o : Leaves(s, r, u, m, b, o)
  BY <1>6b
<1>7. /\ b = Bank(Noted(s.lane), r.now) /\ o = Outcome(b, m)
      /\ u.books.pit_count = s.books.pit_count + (IF o = "stop" THEN 1 ELSE 0)
      /\ o = "stop" => u.stint.last_pit_secs = IF ServiceObserved(b) /\ ~ServiceTimeUncertain(b)
                                               THEN b.stopped_total_secs ELSE None
  BY <1>6c DEF Leaves
<1>8. o = "stop"
  BY <1>3, <1>5, <1>7
<1>9. s'.stint.last_pit_secs = b.stopped_total_secs /\ ~ServiceTimeUncertain(b)
  BY <1>4, <1>7, <1>8
<1>10. b = Bank(Noted(s.lane), now + 1) /\ now + 1 \in Nat
  BY <1>4, <1>7, FiguresOfVisit, SecondFacts
<1>11. Witnessed
  <2>1. b.lane_visit_observed = s.lane.lane_visit_observed /\ b.lane_visit_interrupted = s.lane.lane_visit_interrupted
    BY <1>3, <1>10, BankedFields
  <2>2. b.lane_visit_observed
    BY <1>7, <1>8, StopEndsAStint
  <2>3. ~b.lane_visit_interrupted
    BY <1>9 DEF ServiceTimeUncertain
  <2> QED BY <1>6, <2>1, <2>2, <2>3 DEF Witnessed
<1>12. b.stopped_total_secs <= visit.stood + visit.spells
         \/ (visit.stood + visit.spells >= StoppedConfirm + 1 /\ blinds < visit.blinds)
  BY <1>10, <1>11, WitnessedEnd
<1>13. blinds' = blinds
  BY <1>2, <1>6, ShownFacts
<1>14. ~(blinds < visit.blinds)
  BY <1>13, FiguresOfVisit
<1> QED BY <1>9, <1>12, <1>14

-----------------------------------------------------------------------------
(* The beginning.                                                            *)

LEMMA VisitsInit ==
    ASSUME Init
    PROVE  Tracks /\ Visiting /\ AtMost /\ AtLeast /\ Settles
<1>1. TypesInv
  BY TypesInit
<1>2. /\ world \in Worlds /\ now = 0 /\ gaps = world.gaps /\ blinds = world.blinds /\ missing = None
      /\ visit = NewVisit(TRUE) /\ stops = 0 /\ countable = 0 /\ last_stop = 0 /\ last_departure = 0 /\ scored = 0
      /\ s = UpdateWithOfficial(Fresh, Row(0, car, TRUE, TRUE, board))
  BY DEF Init
<1>3. board \in {0, None}
  BY DEF Init
<1>4. car.at \in {"track", "box"} /\ car.lap \in Nat /\ car.pos \in Nat
  BY DEF Init
<1> DEFINE yes == TRUE
           r == Row(0, car, yes, yes, board)
<1>5. yes \in BOOLEAN /\ yes
  OBVIOUS
<1>6. r.now = 0 /\ r.in_world /\ (r.in_lane <=> car.at # "track")
  BY <1>5 DEF Row
<1>7. s = UpdateWithOfficial(Fresh, r)
  BY <1>2
<1> HIDE DEF yes
<1>8. r \in Samples
  <2>1. board \in Nat \cup {None} /\ 0 \in Nat
    BY <1>3
  <2> QED BY <1>2, <1>4, <1>5, <2>1, RowType
<1> HIDE DEF r
<1>9. /\ ~Fresh.lane.was_in_pit_lane /\ ~Fresh.lane.seen_in_world /\ ~Fresh.lane.observation_interrupted
      /\ ~Fresh.lane.lane_visit_interrupted /\ Fresh.books.pit_count = 0 /\ Fresh.stint.current_start = None
      /\ Settling(Fresh.stint)
  BY DEF Fresh, Settling
<1>10. Sound(Fresh.books)
  BY StintAssumption DEF Fresh, Sound, Books, BooksBalance
<1>11. Fresh.lane \in Visits /\ Fresh.lane \in Lanes
  BY DEF Fresh, Visits, Lanes
<1>12. Kept(Fresh.stint)
  <2>1. Fresh.stint \in Stints
    BY DEF Fresh, Stints
  <2>2. Fresh.stint.completed = <<>> /\ Fresh.stint.pit_secs = <<>>
    BY DEF Fresh
  <2>3. StintSamples \in Nat
    BY StintAssumption
  <2> QED BY <2>1, <2>2, <2>3 DEF Kept
<1>13. Visiting
  BY <1>1, <1>2, FiguresOfVisit DEF Visiting, NewVisit
<1>14. visit.garaged
  BY <1>2 DEF NewVisit
<1>15. gaps \in Nat
  BY <1>1 DEF TypesInv, WorldTypes
<1>15a. gaps <= world.gaps
  BY <1>2, <1>15
<1>15b. ASSUME s.books.pit_count = 0 PROVE stops <= s.books.pit_count
  <2> DEFINE n == stops
             c == s.books.pit_count
  <2>1. n = 0 /\ c = 0
    BY <1>2, <1>15b
  <2> HIDE DEF n, c
  <2>2. n <= c
    BY <2>1
  <2> QED BY <2>2 DEF n, c
<1>16. CASE car.at # "track"
  <2>1. /\ s.lane.was_in_pit_lane /\ s.lane.seen_in_world /\ ~s.lane.observation_interrupted
        /\ ~s.lane.lane_visit_observed /\ ~s.lane.lane_visit_interrupted
    BY <1>6, <1>7, <1>8, <1>9, <1>11, <1>16, LaneEnters
  <2>2. PICK b \in BOOLEAN : s.stint = [Fresh.stint EXCEPT !.current_start_observed = b]
    BY <1>6, <1>7, <1>8, <1>9, <1>10, <1>11, <1>12, <1>16, InLaneCounts
  <2>3. s.books.pit_count = 0
    BY <1>6, <1>7, <1>8, <1>9, <1>10, <1>11, <1>12, <1>16, InLaneCounts
  <2>4. s.stint.current_start = None /\ Settling(s.stint)
    BY <1>9, <1>12, <2>2 DEF Settling, Kept, Stints
  <2>5. ~Witnessed
    BY <2>1 DEF Witnessed
  <2>6. Tracks
    BY <1>2, <1>15a, <1>16, <2>1, <2>5, Zenon DEF Tracks
  <2>7. Settles
    <3>1. stops <= s.books.pit_count
      BY <1>15b, <2>3
    <3>2. stops = 0 /\ last_stop = 0
      BY <1>2
    <3> QED BY <1>2, <1>14, <1>16, <2>1, <2>4, <3>1, <3>2, Zenon DEF Settles
  <2> QED BY <1>13, <2>5, <2>6, <2>7 DEF AtMost, AtLeast
<1>17. CASE car.at = "track"
  <2>1. /\ ~s.lane.was_in_pit_lane /\ s.lane.seen_in_world /\ ~s.lane.observation_interrupted
        /\ ~s.lane.lane_visit_interrupted /\ s.books.pit_count = 0
        /\ s.stint = BeginStint(Fresh.stint, r, FALSE)
    BY <1>6, <1>7, <1>8, <1>9, <1>10, <1>11, <1>12, <1>17, OffLaneCounts
  <2> DEFINE start == [secs |-> r.now, lap |-> r.lap]
  <2>2. start # None /\ start.secs = 0
    <3>1. start \in [secs : Nat, lap : Nat]
      BY <1>8 DEF Samples
    <3> QED BY <1>6, <3>1, StintAssumption
  <2>3. s.stint.current_start = start /\ Settling(s.stint)
    BY <1>9, <1>12, <2>1 DEF Settling, Kept, Stints, BeginStint
  <2>5. ~Witnessed
    BY <2>1 DEF Witnessed
  <2>6. Tracks
    BY <1>2, <1>15a, <1>17, <2>1, <2>5, Zenon DEF Tracks
  <2> HIDE DEF start
  <2>7. Settles
    <3>1. stops <= s.books.pit_count
      BY <1>15b, <2>1
    <3>2. s.stint.current_start # None
      BY <2>2, <2>3
    <3> DEFINE l == last_stop
               c == s.stint.current_start.secs
               d == last_departure
               n == now
    <3>3a. l = 0 /\ c = 0 /\ d = 0 /\ n = 0
      BY <1>2, <2>2, <2>3
    <3> HIDE DEF l, c, d, n
    <3>3b. l <= c /\ c <= d /\ d <= n
      BY <3>3a
    <3>3. last_stop <= s.stint.current_start.secs /\ s.stint.current_start.secs <= last_departure /\ last_departure <= now
      BY <3>3b DEF l, c, d, n
    <3> QED BY <1>2, <1>17, <2>1, <2>3, <3>1, <3>2, <3>3, Zenon DEF Settles
  <2> QED BY <1>13, <2>5, <2>6, <2>7 DEF AtMost, AtLeast
<1> QED BY <1>16, <1>17

-----------------------------------------------------------------------------
(* The theorem of what a stop is said to have taken.                         *)

\* The figures that hold without more about the code's limits.
SeenInv == TypesInv /\ Tracks /\ Visiting /\ AtMost

LEMMA BlindsNext ==
    ASSUME TypesInv, TypesInv', Second
    PROVE  blinds' <= blinds /\ blinds' \in Nat
<1>1. PICK seen \in BOOLEAN, shown \in BOOLEAN : \E r \in Samples : \E u : SampledAs(seen, shown, r, u)
  BY SecondIsSampled
<1>1a. PICK r \in Samples : \E u : SampledAs(seen, shown, r, u)
  BY <1>1
<1>2. PICK u : SampledAs(seen, shown, r, u)
  BY <1>1a
<1>3. blinds' <= blinds
  BY <1>2, ShownFacts
<1>4. blinds' \in Nat
  BY DEF TypesInv, WorldTypes
<1> QED BY <1>3, <1>4

LEMMA AtMostNext ==
    ASSUME TypesInv, TypesInv', Second, Tracks, Visiting, AtMost
    PROVE  AtMost'
<1>1. CASE ~Witnessed'
  BY <1>1 DEF AtMost
<1>2. CASE Witnessed'
  <2>1. CASE Enters
    BY <2>1, BlindsNext, AtMostEnters
  <2>2. CASE \E shown \in BOOLEAN : Continues(shown)
    BY <2>2, AtMostContinues
  <2> QED BY <1>2, <2>1, <2>2, WitnessedSecond
<1> QED BY <1>1, <1>2

LEMMA SeenInit == Init => SeenInv
BY TypesInit, VisitsInit DEF SeenInv

LEMMA SeenNext == SeenInv /\ [Next]_vars => SeenInv'
<1> SUFFICES ASSUME SeenInv, [Next]_vars PROVE SeenInv'
  OBVIOUS
<1>1. TypesInv'
  BY TypesNext DEF SeenInv
<1>2. CASE UNCHANGED vars
  <2>1. Tracks'
    BY <1>2 DEF SeenInv, Tracks, Witnessed, vars, carVars
  <2>2. Visiting'
    BY <1>2 DEF SeenInv, Visiting, Due, vars, carVars
  <2>3. AtMost'
    BY <1>2 DEF SeenInv, AtMost, Witnessed, Standing, Reckoned, Placed, Due, vars, carVars
  <2> QED BY <1>1, <2>1, <2>2, <2>3 DEF SeenInv
<1>3. CASE Second
  <2>1. TypesInv /\ Tracks /\ Visiting /\ AtMost
    BY DEF SeenInv
  <2>2. Tracks'
    BY <1>1, <1>3, <2>1, TracksNext
  <2>3. Visiting'
    BY <1>1, <1>3, <2>1, SecondFacts, BlindsNext, VisitingNext
  <2>4. AtMost'
    BY <1>1, <1>3, <2>1, AtMostNext
  <2> QED BY <1>1, <2>2, <2>3, <2>4 DEF SeenInv
<1> QED BY <1>2, <1>3 DEF Next

\* The time the overlay says a stop has taken (last_pit_secs, EndStint of
\* session.rs) is time the car was standing, by a second for each time it
\* stood, whatever the world does to the car and whatever the limits, when its
\* position was published throughout the visit.
THEOREM StopsTakeTheTimeStood == Spec => SeenServiceIsStanding
<1>1. SeenInv /\ SeenInv' /\ [Next]_vars =>
        [s'.books.pit_count > s.books.pit_count /\ s'.stint.last_pit_secs # None /\ visit.blinds = blinds'
          => s'.stint.last_pit_secs <= visit.stood + visit.spells]_vars
  <2> SUFFICES ASSUME SeenInv, SeenInv', Second,
                      s'.books.pit_count > s.books.pit_count, s'.stint.last_pit_secs # None, visit.blinds = blinds'
               PROVE  s'.stint.last_pit_secs <= visit.stood + visit.spells
    BY DEF Next
  <2> QED BY ServiceStep DEF SeenInv
<1> QED BY SeenInit, SeenNext, <1>1, PTL DEF Spec, SeenServiceIsStanding

-----------------------------------------------------------------------------
(* A car that never left the world.                                          *)

LEMMA NeverMissing ==
    ASSUME TypesInv, TypesInv', Second, Tracks, Settles, AlwaysSeen'
    PROVE  /\ AlwaysSeen /\ missing = None /\ missing' = None
           /\ ~s.lane.observation_interrupted /\ Settling(s.stint)
           /\ \E seen, shown \in BOOLEAN : seen /\ \E r \in Samples : \E u : SampledAs(seen, shown, r, u)
<1>1. PICK seen \in BOOLEAN, shown \in BOOLEAN : \E r \in Samples : \E u : SampledAs(seen, shown, r, u)
  BY SecondIsSampled
<1>1a. PICK r \in Samples : \E u : SampledAs(seen, shown, r, u)
  BY <1>1
<1>2. PICK u : SampledAs(seen, shown, r, u)
  BY <1>1a
<1>3. world' = world /\ world.gaps \in Nat /\ gaps \in Nat
  BY SecondFacts, WorldFields DEF TypesInv, WorldTypes
<1>4. gaps' = world.gaps
  BY <1>3 DEF AlwaysSeen
<1>5. gaps <= world.gaps
  BY DEF Tracks
<1>6. gaps = world.gaps
  <2>1. gaps' <= gaps
    BY <1>2, ShownFacts
  <2> DEFINE p == gaps'
             w == world.gaps
             g == gaps
  <2>2. p = w /\ g <= w /\ p <= g /\ w \in Nat /\ g \in Nat
    BY <1>3, <1>4, <1>5, <2>1
  <2> HIDE DEF p, w, g
  <2>3. g = w
    BY <2>2
  <2> QED BY <2>3 DEF g, w
<1>7. AlwaysSeen
  BY <1>6 DEF AlwaysSeen
<1>8. missing = None /\ Settling(s.stint)
  BY <1>7 DEF Settles
<1>9. ~s.lane.observation_interrupted
  BY <1>8 DEF Tracks
<1>10. seen
  <2>1. ASSUME ~seen PROVE FALSE
    <3>1. gaps' = gaps - 1
      BY <1>2, <1>8, <2>1, ShownFacts
    <3> DEFINE p == gaps'
               g == gaps
    <3>2. p = g /\ p = g - 1 /\ g \in Nat
      BY <1>3, <1>4, <1>6, <3>1
    <3> HIDE DEF p, g
    <3> QED BY <3>2
  <2> QED BY <2>1
<1>11. missing' = None
  BY <1>2, <1>10 DEF SampledAs
<1> QED BY <1>1, <1>7, <1>8, <1>9, <1>10, <1>11

\* The stint goes on.
LEMMA StintGoesOn ==
    ASSUME TypesInv, TypesInv', Second, Settles, AlwaysSeen,
           s'.stint.current_start = s.stint.current_start, s'.books.pit_count = s.books.pit_count,
           UNCHANGED <<stops, last_stop, last_departure>>
    PROVE  /\ stops' <= s'.books.pit_count
           /\ s'.stint.current_start = None => stops' = 0 /\ last_stop' = 0
           /\ s'.stint.current_start # None =>
                /\ last_stop' <= s'.stint.current_start.secs
                /\ s'.stint.current_start.secs <= last_departure' /\ last_departure' <= now'
<1>1. stops' <= s'.books.pit_count
  <2>1. stops <= s.books.pit_count
    BY DEF Settles
  <2> QED BY <2>1
<1>2. s'.stint.current_start = None => stops' = 0 /\ last_stop' = 0
  BY DEF Settles
<1>3. ASSUME s'.stint.current_start # None
      PROVE  /\ last_stop' <= s'.stint.current_start.secs
             /\ s'.stint.current_start.secs <= last_departure' /\ last_departure' <= now'
  <2>1. s.stint.current_start # None
    BY <1>3
  <2>2. last_stop <= s.stint.current_start.secs /\ s.stint.current_start.secs <= last_departure /\ last_departure <= now
    BY <2>1 DEF Settles
  <2>3. now \in Nat /\ now' = now + 1 /\ last_departure \in Nat
    BY FiguresOfVisit, SecondFacts DEF TypesInv, WorldTypes
  <2> DEFINE d == last_departure
             n == now
             p == now'
  <2>4. d <= n /\ p = n + 1 /\ n \in Nat /\ d \in Nat
    BY <2>2, <2>3
  <2> HIDE DEF d, n, p
  <2>5. d <= p
    BY <2>4
  <2>6. last_departure' <= now'
    BY <2>5 DEF d, p
  <2> QED BY <2>2, <2>6
<1> QED BY <1>1, <1>2, <1>3

LEMMA OutcomeOfSeen ==
    ASSUME NEW l, NEW st
    PROVE  /\ ~l.lane_visit_observed /\ st.current_start = None => Outcome(l, st) = "ignored"
           /\ l.lane_visit_observed /\ ~l.lane_visit_interrupted /\ ~ServiceObserved(l) /\ ~BlindStopInferred(l) =>
                Outcome(l, st) = "drive_through"
           /\ l.lane_visit_observed /\ (ServiceObserved(l) \/ BlindStopInferred(l)) /\ st.current_start # None =>
                Outcome(l, st) = "stop"
<1>1. CASE ~l.lane_visit_observed
  BY <1>1 DEF Outcome
<1>2. CASE l.lane_visit_observed /\ ~ServiceObserved(l) /\ ~BlindStopInferred(l)
  BY <1>2 DEF Outcome
<1>3. CASE l.lane_visit_observed /\ (ServiceObserved(l) \/ BlindStopInferred(l))
  BY <1>3 DEF Outcome
<1> QED BY <1>1, <1>2, <1>3

\* A second in which the car does not leave the lane.
LEMMA SettlesOn ==
    ASSUME TypesInv, TypesInv', Second, Tracks, Settles, AlwaysSeen', car.at = "track" \/ car'.at # "track"
    PROVE  Settles'
<1>1. /\ AlwaysSeen /\ missing = None /\ missing' = None
      /\ ~s.lane.observation_interrupted /\ Settling(s.stint)
  BY NeverMissing
<1>2. PICK seen \in BOOLEAN, shown \in BOOLEAN : seen /\ \E r \in Samples : \E u : SampledAs(seen, shown, r, u)
  BY NeverMissing
<1>2a. PICK r \in Samples : \E u : SampledAs(seen, shown, r, u)
  BY <1>2
<1>3. PICK u : SampledAs(seen, shown, r, u)
  BY <1>2a
<1>4. /\ Sound(s.books) /\ s.lane \in Visits /\ s.lane \in Lanes /\ Kept(s.stint) /\ s.stint \in Stints
      /\ car.at \in {"track", "lane", "box"}
  BY FiguresOfVisit DEF TypesInv, Wellformed, Visits, Kept
<1>5. /\ u = UpdateWithOfficial(s, r) /\ s'.lane = u.lane /\ s'.books = u.books
      /\ s'.stint.current_start = u.stint.current_start
      /\ (Settling(u.stint) => Settling(s'.stint))
      /\ r.now = now' /\ r.in_world /\ (r.in_lane <=> car'.at # "track")
  BY <1>2, <1>3 DEF SampledAs
<1>6. /\ ~s.lane.lane_visit_interrupted
      /\ s.lane.was_in_pit_lane <=> car.at # "track"
      /\ s.lane.seen_in_world
  BY <1>1 DEF Settles, Tracks
<1>7. Acts
  BY SecondFacts
<1>8. /\ s'.books.pit_count = s.books.pit_count /\ s'.stint.current_start = s.stint.current_start
      /\ Settling(s'.stint) /\ UNCHANGED <<stops, last_stop, last_departure>>
      /\ ~s'.lane.lane_visit_interrupted
      /\ car'.at # "track" =>
           /\ visit'.garaged <=> s'.stint.current_start = None
           /\ s'.lane.lane_visit_observed <=> ~visit'.garaged
      /\ car'.at = "track" => s'.stint.current_start # None
  <2>1. CASE car.at = "track" /\ car'.at = "track"
    <3>1. KeepRacing
      BY <1>7, <2>1, ActsByPlace
    <3>2. ~s.lane.was_in_pit_lane /\ ~r.in_lane
      BY <1>5, <1>6, <2>1
    <3>3. /\ u.books.pit_count = s.books.pit_count
          /\ ~u.lane.lane_visit_interrupted
          /\ u.stint = BeginStint(s.stint, r, FALSE)
      BY <1>1, <1>4, <1>5, <1>6, <3>2, OffLaneCounts
    <3>4. s.stint.current_start # None
      BY <1>1, <2>1 DEF Settles
    <3>5. u.stint = s.stint
      BY <3>3, <3>4 DEF BeginStint
    <3> QED BY <1>1, <1>5, <2>1, <3>1, <3>3, <3>4, <3>5 DEF KeepRacing
  <2>2. CASE car'.at # "track"
    <3>0. r.in_lane
      BY <1>5, <2>2
    <3>1a. u.books.pit_count = s.books.pit_count
      BY <1>4, <1>5, <3>0, InLaneCounts
    <3>1b. ~s.lane.observation_interrupted /\ Settling(s.stint) =>
             \E b \in BOOLEAN : u.stint = [s.stint EXCEPT !.current_start_observed = b]
      BY <1>4, <1>5, <3>0, InLaneCounts
    <3>1. /\ u.books.pit_count = s.books.pit_count
          /\ \E b \in BOOLEAN : u.stint = [s.stint EXCEPT !.current_start_observed = b]
      BY <1>1, <3>1a, <3>1b
    <3>2. u.stint.current_start = s.stint.current_start /\ Settling(u.stint)
      BY <1>1, <1>4, <3>1 DEF Settling, Stints
    <3>3. CASE car.at = "track"
      <4>1. EnterLane
        BY <1>1, <1>7, <2>2, <3>3, ActsByPlace DEF Tow
      <4>2. visit' = NewVisit(FALSE) /\ UNCHANGED <<stops, last_stop, last_departure>>
        BY <4>1 DEF EnterLane
      <4>3. ~visit'.garaged
        BY <4>2 DEF NewVisit
      <4>4. s.stint.current_start # None
        BY <1>1, <3>3 DEF Settles
      <4>5. ~s.lane.was_in_pit_lane
        BY <1>6, <3>3
      <4>6. u.lane.lane_visit_observed /\ ~u.lane.lane_visit_interrupted
        BY <1>1, <1>4, <1>5, <1>6, <2>2, <4>5, LaneEnters
      <4> QED BY <1>5, <2>2, <3>1, <3>2, <4>2, <4>3, <4>4, <4>6
    <3>4. CASE car.at # "track"
      <4>1. StandStill \/ Roll
        BY <1>7, <2>2, <3>4, ActsByPlace
      <4>2. visit'.garaged = visit.garaged /\ UNCHANGED <<stops, last_stop, last_departure>>
        BY <4>1, StandStillFacts, RollFacts DEF StandStill, Roll
      <4>3. /\ visit.garaged <=> s.stint.current_start = None
            /\ s.lane.lane_visit_observed <=> ~visit.garaged
        BY <1>1, <3>4 DEF Settles
      <4>4. s.lane.was_in_pit_lane
        BY <1>6, <3>4
      <4>5. /\ u.lane.lane_visit_observed = s.lane.lane_visit_observed
            /\ u.lane.lane_visit_interrupted = s.lane.lane_visit_interrupted
        BY <1>4, <1>5, <2>2, <4>4, LaneContinues
      <4> QED BY <1>5, <1>6, <2>2, <3>1, <3>2, <4>2, <4>3, <4>5
    <3> QED BY <3>3, <3>4
  <2> QED BY <2>1, <2>2
<1>9. /\ stops' <= s'.books.pit_count
      /\ s'.stint.current_start = None => stops' = 0 /\ last_stop' = 0
      /\ s'.stint.current_start # None =>
           /\ last_stop' <= s'.stint.current_start.secs
           /\ s'.stint.current_start.secs <= last_departure' /\ last_departure' <= now'
  BY <1>1, <1>8, StintGoesOn
<1> QED BY <1>1, <1>8, <1>9 DEF Settles

\* What the overlay makes of a visit it has seen: a stop of one with a service,
\* and a stop of none that could not be taken for one.
LEMMA VisitIsJudged ==
    ASSUME TypesInv, TypesInv', Second, Visiting, AtMost, AtLeast, CodeLimits, Witnessed, Leave,
           blinds' = blinds, NEW b, b = Bank(Noted(s.lane), now')
    PROVE  /\ visit.served => ServiceObserved(b) \/ BlindStopInferred(b)
           /\ ServiceObserved(b) \/ BlindStopInferred(b) =>
                visit.stood + visit.spells >= MinStop \/ visit.blinds - blinds > BlindTolerance
<1>1. b = Bank(Noted(s.lane), now + 1)
  BY SecondFacts
<1>2. /\ b.lane_visit_observed /\ ~b.lane_visit_interrupted /\ b.blind_secs = s.lane.blind_secs
      /\ Standing => b.stopped_total_secs = Reckoned + 1
      /\ ~Standing => b.stopped_total_secs = Reckoned
      /\ Reckoned \in Nat
      /\ b.stopped_total_secs <= visit.stood + visit.spells
           \/ (visit.stood + visit.spells >= StoppedConfirm + 1 /\ blinds < visit.blinds)
  BY <1>1, WitnessedEnd
<1> DEFINE bt == b.stopped_total_secs
           re == Reckoned
           bs == s.lane.blind_secs
           T == visit.stood + visit.spells
           V == visit.blinds - blinds
           stand == Standing
<1>3. re \in Nat /\ bs \in Nat /\ T \in Nat /\ V \in Int
  BY <1>2, FiguresOfVisit
<1>4. (stand => bt = re + 1) /\ (~stand => bt = re) /\ stand \in BOOLEAN
  BY <1>2 DEF Standing
<1>5. bt <= T \/ T >= StoppedConfirm + 1
  BY <1>2
<1>6. bs <= V
  BY DEF AtMost
<1>7. visit.served /\ bs <= BlindTolerance => (stand => MinStop <= re + 1) /\ (~stand => MinStop <= re)
  BY DEF AtLeast
<1>8. ServiceObserved(b) <=> bt >= MinStop
  BY DEF ServiceObserved
<1>9. BlindStopInferred(b) <=> bs > BlindTolerance
  BY <1>2 DEF BlindStopInferred
<1> HIDE DEF bt, re, bs, T, V, stand
<1>10. MinStop \in Nat /\ BlindTolerance \in Nat /\ StoppedConfirm \in Nat /\ MinStop <= StoppedConfirm + 1
  BY StintAssumption DEF CodeLimits
<1>11. ASSUME visit.served PROVE bt >= MinStop \/ bs > BlindTolerance
  BY <1>3, <1>4, <1>7, <1>10, <1>11
<1>12. bt >= MinStop \/ bs > BlindTolerance => T >= MinStop \/ V > BlindTolerance
  <2>1. bt \in Nat
    BY <1>3, <1>4
  <2> QED BY <2>1, <1>3, <1>5, <1>6, <1>10
<1> QED BY <1>8, <1>9, <1>11, <1>12 DEF T, V

\* A second in which it does.
LEMMA SettlesOff ==
    ASSUME TypesInv, TypesInv', Second, Tracks, Visiting, AtMost, AtLeast, CodeLimits, Settles, AlwaysSeen',
           car.at # "track", car'.at = "track"
    PROVE  Settles'
<1>1. /\ AlwaysSeen /\ missing = None /\ missing' = None
      /\ ~s.lane.observation_interrupted /\ Settling(s.stint)
  BY NeverMissing
<1>2. PICK seen \in BOOLEAN, shown \in BOOLEAN : seen /\ \E r \in Samples : \E u : SampledAs(seen, shown, r, u)
  BY NeverMissing
<1>2a. PICK r \in Samples : \E u : SampledAs(seen, shown, r, u)
  BY <1>2
<1>3. PICK u : SampledAs(seen, shown, r, u)
  BY <1>2a
<1>4. /\ Sound(s.books) /\ s.lane \in Visits /\ s.lane \in Lanes /\ Kept(s.stint) /\ s.stint \in Stints
      /\ now \in Nat /\ now' = now + 1 /\ s.books.pit_count \in Nat
  BY FiguresOfVisit, SecondFacts DEF TypesInv, Wellformed, Visits, Kept, Sound, Books
<1>5. /\ u = UpdateWithOfficial(s, r) /\ s'.lane = u.lane /\ s'.books = u.books
      /\ s'.stint.current_start = u.stint.current_start
      /\ (Settling(u.stint) => Settling(s'.stint))
      /\ r.now = now' /\ r.in_world /\ ~r.in_lane
  BY <1>2, <1>3 DEF SampledAs
<1>6. /\ ~s.lane.lane_visit_interrupted /\ s.lane.was_in_pit_lane
      /\ visit.garaged <=> s.stint.current_start = None
      /\ s.lane.lane_visit_observed <=> ~visit.garaged
  BY <1>1 DEF Settles, Tracks
<1>7. Leave /\ blinds' = blinds
  BY <1>2, <1>3, ActsByPlace, SecondFacts, ShownFacts
<1>8. \E m, b, o : Leaves(s, r, u, m, b, o)
  BY <1>4, <1>5, <1>6, LeavingCounts
<1>9. PICK m, b, o : Leaves(s, r, u, m, b, o)
  BY <1>8
<1>10. /\ m = s.stint /\ b = Bank(Noted(s.lane), now') /\ o = Outcome(b, m)
       /\ u.lane.lane_visit_interrupted = s.lane.lane_visit_interrupted
       /\ u.books.pit_count = s.books.pit_count + (IF o = "stop" THEN 1 ELSE 0)
       /\ o = "stop" => u.stint.current_start = [secs |-> r.now, lap |-> r.lap] /\ Settling(u.stint)
       /\ o \in {"ignored", "drive_through"} => \E e \in BOOLEAN : u.stint = BeginStint(m, r, e)
  <2>1. (~s.lane.observation_interrupted) \in BOOLEAN
    OBVIOUS
  <2> QED BY <1>1, <1>5, <1>9, <2>1 DEF Leaves
<1>11. b.lane_visit_observed = s.lane.lane_visit_observed
       /\ b.lane_visit_interrupted = s.lane.lane_visit_interrupted
  <2>1. now' \in Nat
    BY <1>4
  <2> QED BY <1>4, <1>10, <2>1, BankedFields
<1> DEFINE start == [secs |-> r.now, lap |-> r.lap]
<1>12. start # None /\ start.secs = now'
  <2>1. start \in [secs : Nat, lap : Nat]
    BY DEF Samples
  <2> QED BY <1>5, <2>1, StintAssumption
<1> HIDE DEF start
<1>13. /\ stops' = (IF visit.served THEN stops + 1 ELSE stops)
       /\ last_stop' = (IF visit.served THEN now' ELSE last_stop)
       /\ last_departure' = (IF visit.served \/ visit.garaged \/ MayBeTakenForAStop THEN now' ELSE last_departure)
  BY <1>7 DEF Leave
<1>14. stops \in Nat /\ last_stop \in Nat /\ last_departure \in Nat /\ stops <= s.books.pit_count
  BY <1>1 DEF TypesInv, WorldTypes, Settles
<1>15. s.stint.current_start = None => stops = 0 /\ last_stop = 0
  BY <1>1 DEF Settles
<1>16. s.stint.current_start # None =>
         last_stop <= s.stint.current_start.secs /\ s.stint.current_start.secs <= last_departure /\ last_departure <= now
  BY <1>1 DEF Settles
<1>17. s.stint.current_start # None => s.stint.current_start.secs \in Nat
  BY <1>4 DEF Stints, Exits
<1> DEFINE c == s.stint.current_start.secs
           c1 == s'.stint.current_start.secs
           p == s.books.pit_count
           p1 == s'.books.pit_count
           k == stops
           k1 == stops'
           l == last_stop
           l1 == last_stop'
           d == last_departure
           d1 == last_departure'
           n == now
           n1 == now'
           taken == MayBeTakenForAStop
           served == visit.served
           Well == k1 <= p1 /\ l1 <= c1 /\ c1 <= d1 /\ d1 <= n1
<1>18. /\ n \in Nat /\ n1 = n + 1 /\ p \in Nat /\ k \in Nat /\ l \in Nat /\ d \in Nat /\ k <= p
       /\ taken \in BOOLEAN /\ served \in BOOLEAN
       /\ k1 = (IF served THEN k + 1 ELSE k) /\ l1 = (IF served THEN n1 ELSE l)
  BY <1>4, <1>13, <1>14, FiguresOfVisit DEF MayBeTakenForAStop
<1>19. Settling(s'.stint) /\ s'.stint.current_start # None /\ Well
  <2>1. CASE visit.garaged
    <3>1. s.stint.current_start = None /\ ~s.lane.lane_visit_observed
      BY <1>6, <2>1
    <3>2. o = "ignored"
      BY <1>10, <1>11, <3>1, OutcomeOfSeen
    <3>3. PICK e \in BOOLEAN : u.stint = BeginStint(s.stint, r, e)
      BY <1>10, <3>2
    <3>4. u.stint.current_start = start /\ Settling(u.stint)
      BY <1>1, <1>4, <3>1, <3>3 DEF start, BeginStint, Stints, Settling
    <3>5. ~served
      BY <2>1 DEF Visiting
    <3>6. c1 = n1 /\ d1 = n1 /\ p1 = p /\ k1 = 0 /\ l1 = 0
      BY <1>5, <1>10, <1>12, <1>13, <1>15, <1>18, <2>1, <3>1, <3>2, <3>4, <3>5
    <3> HIDE DEF c, c1, p, p1, k, k1, l, l1, d, d1, n, n1
    <3>7. Well
      BY <1>18, <3>6
    <3> QED BY <1>5, <1>12, <3>4, <3>7
  <2>2. CASE ~visit.garaged
    <3>1. s.stint.current_start # None /\ s.lane.lane_visit_observed
      BY <1>6, <2>2
    <3>2. Witnessed
      BY <1>6, <3>1 DEF Witnessed
    <3>3. /\ served => ServiceObserved(b) \/ BlindStopInferred(b)
          /\ ServiceObserved(b) \/ BlindStopInferred(b) => taken
      BY <1>7, <1>10, <2>2, <3>2, VisitIsJudged DEF MayBeTakenForAStop
    <3>4. b.lane_visit_observed /\ ~b.lane_visit_interrupted
      BY <1>6, <1>11, <3>1
    <3>5. CASE ServiceObserved(b) \/ BlindStopInferred(b)
      <4>1. o = "stop"
        BY <1>10, <3>1, <3>4, <3>5, OutcomeOfSeen
      <4>2. u.stint.current_start = start /\ Settling(u.stint)
        BY <1>10, <4>1 DEF start
      <4>3. c1 = n1 /\ d1 = n1 /\ p1 = p + 1
        BY <1>5, <1>10, <1>12, <1>13, <3>3, <3>5, <4>1, <4>2
      <4>4. l <= c /\ c <= d /\ d <= n /\ c \in Nat
        BY <1>16, <1>17, <3>1
      <4> HIDE DEF c, c1, p, p1, k, k1, l, l1, d, d1, n, n1, served
      <4>5. Well
        <5>1. CASE served
          BY <1>18, <4>3, <4>4, <5>1
        <5>2. CASE ~served
          BY <1>18, <4>3, <4>4, <5>2
        <5> QED BY <5>1, <5>2
      <4> QED BY <1>5, <1>12, <4>2, <4>5
    <3>6. CASE ~ServiceObserved(b) /\ ~BlindStopInferred(b)
      <4>1. o = "drive_through" /\ ~served
        BY <1>10, <3>3, <3>4, <3>6, OutcomeOfSeen
      <4>2. PICK e \in BOOLEAN : u.stint = BeginStint(s.stint, r, e)
        BY <1>10, <4>1
      <4>3. u.stint = s.stint
        BY <3>1, <4>2 DEF BeginStint
      <4>4. c1 = c /\ p1 = p /\ (d1 = n1 \/ d1 = d) /\ k1 = k /\ l1 = l
        BY <1>5, <1>10, <1>13, <1>18, <4>1, <4>3
      <4>5. l <= c /\ c <= d /\ d <= n /\ c \in Nat
        BY <1>16, <1>17, <3>1
      <4> HIDE DEF c, c1, p, p1, k, k1, l, l1, d, d1, n, n1
      <4>6. Well
        BY <1>18, <4>4, <4>5
      <4> QED BY <1>1, <1>5, <3>1, <4>3, <4>6
    <3> QED BY <3>5, <3>6
  <2> QED BY <2>1, <2>2
<1>20. ~s'.lane.lane_visit_interrupted
  BY <1>5, <1>6, <1>10
<1> QED BY <1>1, <1>19, <1>20 DEF Settles

LEMMA AtLeastNext ==
    ASSUME TypesInv, TypesInv', Second, Tracks, Visiting, AtMost, AtLeast, CodeLimits
    PROVE  AtLeast'
<1>1. CASE ~Witnessed'
  BY <1>1 DEF AtLeast
<1>2. CASE Witnessed'
  <2>1. CASE Enters
    BY <2>1, AtLeastEnters
  <2>2. CASE \E shown \in BOOLEAN : Continues(shown)
    BY <2>2, AtLeastContinues
  <2> QED BY <1>2, <2>1, <2>2, WitnessedSecond
<1> QED BY <1>1, <1>2

\* The inductive invariant of the visits, under the code's limits.
VisitsInv == SeenInv /\ AtLeast /\ Settles

LEMMA VisitsNext ==
    ASSUME CodeLimits
    PROVE  VisitsInv /\ [Next]_vars => VisitsInv'
<1> SUFFICES ASSUME VisitsInv, [Next]_vars PROVE VisitsInv'
  OBVIOUS
<1>1. SeenInv'
  BY SeenNext DEF VisitsInv
<1>2. CASE UNCHANGED vars
  <2>1. AtLeast'
    BY <1>2 DEF VisitsInv, AtLeast, Witnessed, Standing, Reckoned, Placed, vars, carVars
  <2>2. Settles'
    BY <1>2 DEF VisitsInv, Settles, AlwaysSeen, vars, carVars
  <2> QED BY <1>1, <2>1, <2>2 DEF VisitsInv
<1>3. CASE Second
  <2>1. TypesInv /\ TypesInv' /\ Tracks /\ Visiting /\ AtMost /\ AtLeast /\ Settles
    BY <1>1 DEF VisitsInv, SeenInv
  <2>2. AtLeast'
    BY <1>3, <2>1, AtLeastNext
  <2>3. ASSUME AlwaysSeen' PROVE Settles'
    BY <1>3, <2>1, <2>3, SettlesOn, SettlesOff
  <2>4. Settles'
    <3>1. ~AlwaysSeen' => Settles'
      BY DEF Settles
    <3> QED BY <2>3, <3>1
  <2> QED BY <1>1, <2>2, <2>4 DEF VisitsInv
<1> QED BY <1>2, <1>3 DEF Next

LEMMA VisitsSettle == VisitsInv => WitnessedStopsSettle
<1> SUFFICES ASSUME VisitsInv, AlwaysSeen, car.at = "track"
             PROVE  /\ CompletedStopCount(s.books) >= stops
                    /\ last_stop <= s.stint.current_start.secs /\ s.stint.current_start.secs <= last_departure
  BY DEF WitnessedStopsSettle
<1>1. /\ s.stint.current_start # None /\ stops <= s.books.pit_count
      /\ last_stop <= s.stint.current_start.secs /\ s.stint.current_start.secs <= last_departure
  BY DEF VisitsInv, Settles
<1>2. s.books \in Books /\ stops \in Nat
  BY DEF VisitsInv, SeenInv, TypesInv, WorldTypes, Wellformed, Sound
<1> DEFINE b == s.books
           k == stops
<1>3. b \in Books /\ k \in Nat /\ k <= b.pit_count
  BY <1>1, <1>2
<1> HIDE DEF b, k
<1>4. CompletedStopCount(b) >= k
  <2>1. b.official_offset \in Nat /\ b.pit_count \in Nat /\ b.official_stops_seen \in Nat \cup {None}
    BY <1>3 DEF Books
  <2> DEFINE local == b.official_offset + b.pit_count
             official == b.official_stops_seen
  <2>2. local \in Nat /\ local >= k /\ official \in Nat \cup {None}
    BY <1>3, <2>1
  <2>3. CompletedStopCount(b) = IF official = None THEN local ELSE Greater(official, local)
    BY DEF CompletedStopCount
  <2> HIDE DEF local, official
  <2> QED BY <1>3, <2>2, <2>3, StintAssumption DEF Greater
<1>5. CompletedStopCount(s.books) >= stops
  BY <1>4 DEF b, k
<1> QED BY <1>1, <1>5

\* Of a car that never left the world every stop is counted when it leaves the
\* lane and its stint runs from the exit of its latest stop or of a later visit
\* that looked like one, whatever is missing of its position and whenever the
\* scorer publishes (close_lane_visit and what leads to it, session.rs).  Of the
\* limits it needs what is so of the code's: a stop (MIN_STOP_SECS) is at most a
\* second longer than it takes to see that a car stands (STOPPED_CONFIRM_SECS),
\* and of a car, that a service outlasts either by the seconds that may be
\* missed of it (POSITION_BLIND_TOLERANCE_SECS).
THEOREM StopsSettle == CodeLimits => (Spec => []WitnessedStopsSettle)
<1> SUFFICES ASSUME CodeLimits PROVE Spec => []WitnessedStopsSettle
  OBVIOUS
<1>1. Init => VisitsInv
  BY SeenInit, VisitsInit DEF VisitsInv
<1>2. VisitsInv /\ [Next]_vars => VisitsInv'
  BY VisitsNext
<1> QED BY <1>1, <1>2, VisitsSettle, PTL DEF Spec
===============================================================================
