---------------------------- MODULE StintTracking ----------------------------
(***************************************************************************)
(* One car in a race, the scorer, and what the overlay makes of them.      *)
(* Every second the car does something, the scorer may publish a count,    *)
(* and a row of telemetry is folded into the car's StintState              *)
(* (build_standings); then estimate_stint_ages has a say in what the stint *)
(* may teach.  Both are in telemetry/session.rs.                           *)
(*                                                                         *)
(* A second of the car is the unit.  At this grain a row after a car has   *)
(* rolled off cannot tell when within the second it did, so each time it   *)
(* stands may be taken for a second longer than it was: "spells" counts    *)
(* these, and is the slack the properties give.                            *)
(***************************************************************************)
EXTENDS StintState

CONSTANTS
    Worlds,             \* what may go wrong in a run; see WorldType
    Service,            \* for how long a car stands, at least, when it is serviced
    PitLoss,            \* the estimator's pit_loss_secs for this car
    MaxLap, MaxPos      \* bounds: laps, seconds of rolling in the lane

(* gaps: how often the car may leave the world; blinds: for how many seconds  *)
(* its position in the lane may be missing; flag: is its stall flag published; *)
(* scorer: are counts published never, only while the car races ("late", and   *)
(* "first" if there is none to begin with) or at any time; drives: may the     *)
(* scorer count a drive-through; secs: for how many seconds it is watched, a  *)
(* bound.                                                                      *)
WorldType == [gaps : Nat, blinds : Nat, flag : BOOLEAN, scorer : {"none", "first", "late", "any"},
              drives : BOOLEAN, secs : Nat]

ASSUME WorldAssumption ==
    /\ Worlds \subseteq WorldType
    /\ Service >= MinStop /\ {Service, PitLoss} \subseteq Nat \ {0} /\ {MaxLap, MaxPos} \subseteq Nat
    /\ MaxLap # 0
    /\ None \notin [since : Nat, from : {"track", "lane", "box"}]

VARIABLES
    now,
    world,              \* one of Worlds
    gaps, blinds,       \* how much of it is left
    car,                \* where it is, what lap it is on, how far down the lane
    missing,            \* since when and from where it has left the world, None if it is there
    visit,              \* the truth about the current or latest visit to the lane
    stops,              \* exits from visits that were stops
    countable,          \* visits that were stops or may be taken for one
    last_stop,          \* the latest exit from a stop
    last_departure,     \* the latest exit that may begin a stint
    scored, board,      \* the scorer's count, and the one he publishes
    s                   \* the overlay's StintState of the car

carVars == <<car, visit, stops, countable, last_stop, last_departure, scored>>
vars == <<now, world, gaps, blinds, missing, carVars, board, s>>

\* A visit just begun; a garaged one began without a drive into the lane.
NewVisit(garaged) ==
    [stood |-> 0, spells |-> 0, spell |-> 0, served |-> FALSE, garaged |-> garaged, blinds |-> blinds]

Row(time, where, seen, shown, count) ==
    [now |-> time, lap |-> where.lap, official |-> count, in_world |-> seen,
     in_lane |-> seen /\ where.at # "track",
     in_stall |-> seen /\ where.at = "box" /\ world.flag,
     pct |-> IF seen /\ shown THEN where.pos ELSE None]

\* The overlay is started with the car on the grid, in its garage or racing.
Init ==
    /\ now = 0
    /\ world \in Worlds
    /\ gaps = world.gaps /\ blinds = world.blinds
    /\ car \in {[at |-> "track", lap |-> 0, pos |-> 0], [at |-> "track", lap |-> 1, pos |-> 0],
                [at |-> "box", lap |-> 0, pos |-> 0]}
    /\ missing = None
    /\ visit = NewVisit(TRUE)
    /\ stops = 0 /\ countable = 0 /\ last_stop = 0 /\ last_departure = 0
    /\ scored = 0
    /\ board = IF world.scorer \in {"late", "any"} THEN 0 ELSE None
    /\ s = UpdateWithOfficial(Fresh, Row(0, car, TRUE, TRUE, board))

-----------------------------------------------------------------------------
(* What the car does in a second.                                           *)

KeepRacing ==
    /\ car.at = "track"
    /\ \E crosses \in {0, 1} : car.lap + crosses <= MaxLap /\ car' = [car EXCEPT !.lap = @ + crosses]
    /\ UNCHANGED <<visit, stops, countable, last_stop, last_departure, scored>>

\* (Not while it is missing from the lane: the overlay, by intent, takes what it
\* sees before and after for one visit.)
EnterLane ==
    /\ car.at = "track"
    /\ missing # None => missing.from = "track"
    /\ car' = [car EXCEPT !.at = "lane", !.pos = 1]
    /\ visit' = NewVisit(FALSE)
    /\ UNCHANGED <<stops, countable, last_stop, last_departure, scored>>

\* Only a car that has left the world can be put back into its garage.
Tow ==
    /\ car.at = "track" /\ missing' # None /\ missing'.from = "track"
    /\ car' = [car EXCEPT !.at = "box", !.pos = 0]
    /\ visit' = NewVisit(TRUE)
    /\ UNCHANGED <<stops, countable, last_stop, last_departure, scored>>

\* The scorer takes a visit for a stop once the car has stood for long enough at a time.
StandStill ==
    /\ car.at # "track"
    /\ visit' = [visit EXCEPT !.stood = @ + 1, !.spell = @ + 1,
                              !.spells = IF visit.spell = 0 /\ car.at = "lane" THEN @ + 1 ELSE @,
                              !.served = @ \/ (visit.spell + 1 >= Service /\ ~visit.garaged)]
    /\ scored' = IF visit'.served /\ ~visit.served THEN scored + 1 ELSE scored
    /\ countable' = IF visit'.served /\ ~visit.served THEN countable + 1 ELSE countable
    /\ UNCHANGED <<car, stops, last_stop, last_departure>>

\* Down the lane, into the box or out of it.
Roll ==
    /\ car.at # "track" /\ car.pos < MaxPos
    /\ \E at \in {"lane", "box"} :
        /\ at = "box" => car.at = "lane"
        /\ car.at = "box" => visit.spell > 0
        /\ car' = [car EXCEPT !.at = at, !.pos = @ + 1]
        /\ visit' = [visit EXCEPT !.spell = 0, !.spells = IF at = "box" THEN @ + 1 ELSE @]
    /\ UNCHANGED <<stops, countable, last_stop, last_departure, scored>>

MayBeTakenForAStop ==
    /\ ~visit.garaged
    /\ \/ visit.stood + visit.spells >= MinStop
       \/ visit.blinds - blinds > BlindTolerance

Leave ==
    /\ car.at = "lane"
    /\ car' = [car EXCEPT !.at = "track"]
    /\ \E drive_counts \in {FALSE, world.drives /\ ~visit.garaged /\ ~visit.served} :
        /\ scored' = IF drive_counts THEN scored + 1 ELSE scored
        /\ countable' = IF ~visit.served /\ (drive_counts \/ MayBeTakenForAStop) THEN countable + 1 ELSE countable
    /\ last_departure' = IF visit.served \/ visit.garaged \/ MayBeTakenForAStop THEN now' ELSE last_departure
    /\ stops' = IF visit.served THEN stops + 1 ELSE stops
    /\ last_stop' = IF visit.served THEN now' ELSE last_stop
    /\ UNCHANGED visit

-----------------------------------------------------------------------------
(* What is published of it, and what the overlay makes of that.             *)

\* The car leaves the world for a while.
Visibility(seen) ==
    /\ missing' = CASE seen -> None
                    [] ~seen /\ missing = None -> [since |-> now', from |-> car.at]
                    [] OTHER -> missing
    /\ gaps' = IF ~seen /\ missing = None THEN gaps - 1 ELSE gaps
    /\ gaps' >= 0

\* A second without a position, of a car that is in the lane.
Position(shown) ==
    /\ ~shown => car'.at # "track" /\ missing' = None
    /\ blinds' = IF shown THEN blinds ELSE blinds - 1
    /\ blinds' >= 0

Publish ==
    LET open == \/ world.scorer = "any"
                \/ world.scorer \in {"first", "late"} /\ car.at = "track" /\ car'.at = "track"
    IN  board' \in {board} \cup
            (IF open THEN {n \in 0..scored' : board # None => n >= board} ELSE {})

\* Mutant: the estimator vouches for every age.
VouchedAlways(state) == state

\* estimate_stint_ages: the estimator does not vouch for the age of a car that
\* has been missing for as long as a stop takes, and its stint shall not teach.
Vouched(state) ==
    LET lost == missing' # None /\ now' - missing'.since >= PitLoss
    IN  [books |-> state.books, lane |-> state.lane,
         stint |-> [state.stint EXCEPT !.current_start_observed = @ /\ ~lost]]

Sample(shown) == s' = Vouched(UpdateWithOfficial(s, Row(now', car', missing' = None, shown, board')))

Second ==
    /\ now < world.secs
    /\ now' = now + 1
    /\ UNCHANGED world
    /\ \E seen, shown \in BOOLEAN :
        /\ Visibility(seen)
        /\ KeepRacing \/ EnterLane \/ Tow \/ StandStill \/ Roll \/ Leave
        /\ Position(shown)
        /\ Publish
        /\ Sample(shown)

Next == Second

Spec == Init /\ [][Next]_vars

-----------------------------------------------------------------------------
(* Properties.                                                              *)

TypeOK ==
    /\ world \in Worlds /\ now \in 0..world.secs
    /\ gaps \in Nat /\ blinds \in Nat
    /\ car \in [at : {"track", "lane", "box"}, lap : 0..MaxLap, pos : Nat]
    /\ missing \in [since : Nat, from : {"track", "lane", "box"}] \cup {None} /\ board \in 0..scored \cup {None}
    /\ {stops, countable, last_stop, last_departure, scored} \subseteq Nat
    /\ s \in StintStates
    /\ Len(s.stint.completed) <= StintSamples /\ Len(s.stint.pit_secs) <= StintSamples

\* The scorer's count and the overlay's own are reconciled without a stop lost or
\* made up, in whatever order visits end, counts are published and gaps occur.
BooksBalanced == BooksBalance(s.books)

\* No visit is counted twice, once for what was seen of it and once for the
\* scorer's count, and no departure from the garage is counted at all.
NoVisitCountedTwice == CompletedStopCount(s.books) <= countable

AlwaysSeen == gaps = world.gaps

\* Of a car that never left the world every stop is counted when it leaves the
\* lane, and its stint runs from the exit of its latest stop or a later visit
\* that looked like one, whatever is missing of its position and whenever the
\* scorer publishes.
WitnessedStopsSettle ==
    AlwaysSeen /\ car.at = "track" =>
        /\ CompletedStopCount(s.books) >= stops
        /\ last_stop <= s.stint.current_start.secs /\ s.stint.current_start.secs <= last_departure

\* When the scorer catches up, the stint does not include a stop he has counted,
\* though the car was out of the world when it was made.  (Of cars that never
\* looked like stopping when they did not, when no drive-through can explain the
\* count, and within the time a return is remembered.)
ConfirmedStopEndsStint ==
    [][ /\ board # None /\ board' > board /\ board' = scored' /\ car.at = "track" /\ car'.at = "track"
        /\ missing' = None
        /\ countable' = stops' /\ s.books.pending_drive_throughs = 0 /\ now' - last_stop' <= ReturnGrace
        => s'.stint.current_start.secs >= last_stop' ]_vars

\* A stint the overlay learns the car's range from has no stop within it that
\* went unseen, when no exit from an interrupted visit is still in doubt.
SettledRangeSpansNoStop ==
    [][s'.stint.completed # s.stint.completed /\ s.stint.pending_uncertain_exit = None
        => last_stop <= s.stint.current_start.secs]_vars

\* The time a stop is said to have taken is time the car was standing.
ServiceIsStanding ==
    [][s'.books.pit_count > s.books.pit_count /\ s'.stint.last_pit_secs # None
        => s'.stint.last_pit_secs <= visit.stood + visit.spells]_vars

\* The same, of visits during which the car's position was always published.
SeenServiceIsStanding ==
    [][s'.books.pit_count > s.books.pit_count /\ s'.stint.last_pit_secs # None /\ visit.blinds = blinds'
        => s'.stint.last_pit_secs <= visit.stood + visit.spells]_vars

=============================================================================
