------------------------------ MODULE Standings ------------------------------
(***************************************************************************)
(* The Standings rows of one client over a race event: qualifying, the     *)
(* field forming up, the race (build_standings, telemetry/session.rs).     *)
(* Rows are built on every row of telemetry from two sources that disagree *)
(* most of the time: the results in the session YAML, published now and    *)
(* then, and the per-car arrays, live but empty for a car this client does *)
(* not render or that is out of the world.                                 *)
(*                                                                         *)
(* Cars are their CarIdx; a lap is Steps steps of the way round.           *)
(***************************************************************************)
EXTENDS Integers, FiniteSets, FiniteSetsExt

CONSTANTS
    Cars,           \* the competitors
    Class,          \* the class of each
    Steps,          \* steps of a lap
    Times,          \* what a lap may take
    MaxLaps,        \* bound: laps of each session that is driven
    MaxUpsets       \* bound: cars lost from view or from the world

ASSUME StandingsAssumption ==
    /\ Cars \subseteq Nat /\ IsFiniteSet(Cars) /\ Class \in [Cars -> Nat]
    /\ Steps \in Nat \ {0} /\ MaxLaps \in [{"qualifying", "race"} -> Nat \ {0}] /\ Times \subseteq Nat \ {0} /\ MaxUpsets \in Nat

VARIABLES
    session,        \* "qualifying", "forming" (the race's grid), "race"
    way,            \* steps each car has driven in this session
    best,           \* its best lap of the session, 0 for none
    score,          \* the place the scorer gives each car, 0 for none yet
    away,           \* cars out of the world: towed, between drivers, not gridded yet
    hidden,         \* cars this client does not render
    paper,          \* ResultsPositions, as last published: a set of rows
    grid,           \* qualify_grid: the slot of each car that qualified
    shown,          \* the Standings rows: car, position, laps
    latch,          \* LapLatch
    met,            \* laps of each car that were in view or in the results (history)
    upsets          \* lost cars so far

vars == <<session, way, best, score, away, hidden, paper, grid, shown, latch, met, upsets>>

None == -1
Unplaced == 1000    \* i32::MAX, f32::MAX: behind everybody
Completed(c) == way[c] \div Steps

(* The order of two sort keys: by the first part that tells them apart.    *)
Before(k, l) ==
    \/ k[1] < l[1]
    \/ k[1] = l[1] /\ k[2] < l[2]
    \/ k[1] = l[1] /\ k[2] = l[2] /\ k[3] < l[3]

-------------------------------------------------------------------------------
(* The arrays, as a client that does not render unseen reads them.         *)
InWorld(c, unseen) == c \notin away \cup unseen
Lap(c, unseen) == IF InWorld(c, unseen) THEN Completed(c) + 1 ELSE None
Position(c, unseen) == IF InWorld(c, unseen) THEN score[c] ELSE 0
BestLap(c, unseen) == IF InWorld(c, unseen) THEN best[c] ELSE 0

-------------------------------------------------------------------------------
(* The classification: rows [car, position, laps, fastest, official].      *)
(* Results rows without a position are left out.                           *)
Official == {row \in paper : row.position > 0}
Scored == {row.car : row \in Official}

(* The place of one of several keyed things.                               *)
Place(things, t) == Cardinality({u \in things : Before(u.key, t.key)}) + 1

(* live_classification: by live position, then way driven, then number.    *)
TrackKey(c) == <<IF score[c] > 0 THEN score[c] ELSE Unplaced, - way[c], c>>

(* append_unscored: behind the scored cars. A slip: the results are taken  *)
(* whole as soon as they have a row.                                       *)
Behind(cars) ==
    LET last == Max({0} \cup {row.position : row \in Official})
        order == {[car |-> c, key |-> TrackKey(c)] : c \in cars}
    IN {[car |-> t.car, position |-> last + Place(order, t), laps |-> Completed(t.car), fastest |-> 0, official |-> FALSE] :
            t \in order}
ScoredOnly(unseen) == IF Official # {} THEN Official ELSE Behind({c \in Cars : InWorld(c, unseen)})
Merged(unseen) == Official \cup Behind({c \in Cars \ Scored : InWorld(c, unseen)})

(* What each order sorts by. A slip: a car with no live position is last.  *)
LiveOrLast(row, unseen) == IF Position(row.car, unseen) > 0 THEN Position(row.car, unseen) ELSE Unplaced
LivePosition(row, unseen) ==
    IF Position(row.car, unseen) > 0 THEN Position(row.car, unseen)
    ELSE IF row.official THEN row.position ELSE Unplaced
Quickest(row, unseen) ==
    IF BestLap(row.car, unseen) > 0 THEN BestLap(row.car, unseen)
    ELSE IF row.fastest > 0 THEN row.fastest ELSE Unplaced
GridSlot(row) == IF grid[row.car] > 0 THEN grid[row.car] ELSE Unplaced

StandingsOrder ==
    IF session = "forming" /\ \E c \in Cars : grid[c] > 0 THEN "Grid"
    ELSE IF session = "qualifying" THEN "Quickest" ELSE "Scored"

(* apply_..._order and renumber: a row's index is its position.            *)
RowKey(row, unseen) ==
    <<CASE StandingsOrder = "Grid" -> GridSlot(row)
        [] StandingsOrder = "Quickest" -> Quickest(row, unseen)
        [] StandingsOrder = "Scored" -> LivePosition(row, unseen),
      row.position, row.car>>
Classified(unseen) ==
    LET rows == {[of |-> row, key |-> RowKey(row, unseen)] : row \in Merged(unseen)}
    IN {[car |-> r.of.car, position |-> Place(rows, r), laps |-> r.of.laps] : r \in rows}

-------------------------------------------------------------------------------
(* LapLatch::resolve, for a car whose results row says so many laps. A     *)
(* slip: the latest figure, whatever is known already.                     *)
LatestLap(known, live, fallback) == Max({IF live >= 0 THEN live ELSE fallback, fallback, 0})
Resolve(known, live, fallback) == Max({known, IF live >= 0 THEN live ELSE fallback, fallback, 0})
CompletedLive(c) == IF Lap(c, hidden) >= 0 THEN Max({Lap(c, hidden) - 1, 0}) ELSE None

(* A row of telemetry: the rows it shows, and what that leaves behind.     *)
LapsOf(c, rows) == (CHOOSE row \in rows : row.car = c).laps
Present(rows) == {row.car : row \in rows}
Watched(c) ==
    Max({0} \cup {row.laps : row \in {r \in Official : r.car = c}}
            \cup IF InWorld(c, hidden) THEN {Completed(c)} ELSE {})
Row(known, seen) ==
    \E rows \in {Classified(hidden)'} :
       /\ shown' = rows
       /\ latch' = [c \in Cars |-> IF c \in Present(rows) THEN Resolve(known[c], CompletedLive(c)', LapsOf(c, rows))
                                  ELSE known[c]]
       /\ met' = [c \in Cars |-> Max({seen[c], Watched(c)'})]

(* annotate_classes: laps behind the class leader's.                       *)
Classmates(c) == {d \in Cars : Class[d] = Class[c]}
LapsDown(c) == Max({latch[d] : d \in Classmates(c) \cap Present(shown)}) - latch[c]

-------------------------------------------------------------------------------
Nothing == [c \in Cars |-> 0]
Forgotten == [c \in Cars |-> None]
Init ==
    /\ session = "qualifying" /\ way = Nothing /\ best = Nothing
    /\ score = Nothing /\ away = Cars /\ hidden = {} /\ paper = {} /\ grid = Nothing
    /\ shown = {} /\ latch = Forgotten /\ met = Nothing /\ upsets = 0

(* The scorer: a race is scored as cars cross the line, practice whenever  *)
(* the results are worked out.                                             *)
Crossed(c) ==
    LET Laps(d) == IF d = c THEN Completed(c) + 1 ELSE Completed(d)
        others == {d \in Cars \ {c} : score[d] > 0}
        ahead == {d \in others : Laps(d) >= Laps(c)}
        UpTo(d, cars) == Cardinality({e \in cars : score[e] <= score[d]})
    IN [d \in Cars |-> CASE d = c -> Cardinality(ahead) + 1
                         [] d \in ahead -> UpTo(d, ahead)
                         [] d \in others \ ahead -> Cardinality(ahead) + 1 + UpTo(d, others \ ahead)
                         [] OTHER -> 0]
ByBest ==
    LET timed == {c \in Cars : best[c] > 0}
        Ahead(d, c) == Before(<<best[d], score[d], d>>, <<best[c], score[c], c>>)
    IN [c \in Cars |-> IF c \in timed THEN Cardinality({d \in timed : Ahead(d, c)}) + 1 ELSE 0]

Drive(c) ==
    /\ session # "forming" /\ c \notin away /\ Completed(c) < MaxLaps[session]
    /\ way' = [way EXCEPT ![c] = @ + 1]
    /\ IF (way[c] + 1) % Steps # 0 THEN UNCHANGED <<best, score>>
       ELSE IF session = "race" THEN score' = Crossed(c) /\ UNCHANGED best
       ELSE /\ \E t \in Times : best' = [best EXCEPT ![c] = IF @ = 0 THEN t ELSE Min({@, t})]
            /\ UNCHANGED score
    /\ UNCHANGED <<session, away, hidden, paper, grid, upsets>>
    /\ Row(latch, met)

(* Cars not scored yet are listed without a position.                      *)
Publish ==
    /\ session # "forming" /\ score' = IF session = "qualifying" THEN ByBest ELSE score
    /\ score' # Nothing
    /\ paper' = {[car |-> c, position |-> score'[c], laps |-> Completed(c), fastest |-> best[c], official |-> TRUE] :
                     c \in Cars}
    /\ UNCHANGED <<session, way, best, away, hidden, grid, upsets>>
    /\ Row(latch, met)

(* A car is towed, or leaves between drivers, and comes back.              *)
Leave(c) ==
    /\ session # "forming" /\ c \notin away /\ upsets < MaxUpsets /\ upsets' = upsets + 1
    /\ away' = away \cup {c}
    /\ UNCHANGED <<session, way, best, score, hidden, paper, grid>>
    /\ Row(latch, met)
Return(c) ==
    /\ session # "forming" /\ c \in away
    /\ away' = away \ {c}
    /\ UNCHANGED <<session, way, best, score, hidden, paper, grid, upsets>>
    /\ Row(latch, met)

(* The client comes to render another subset of the field.                 *)
Render(unseen) ==
    /\ unseen # hidden /\ upsets < MaxUpsets /\ upsets' = upsets + 1
    /\ hidden' = unseen
    /\ UNCHANGED <<session, way, best, score, away, paper, grid>>
    /\ Row(latch, met)

(* The race session loads: sync_to_session drops the latch with the rest,  *)
(* qualifying's result is the grid, and nobody is on it yet.               *)
LoadRace ==
    /\ session = "qualifying" /\ session' = "forming"
    /\ grid' = [c \in Cars |-> Max({0} \cup {row.position : row \in {r \in Official : r.car = c}})]
    /\ way' = Nothing /\ best' = Nothing /\ score' = Nothing /\ paper' = {} /\ away' = Cars
    /\ UNCHANGED <<hidden, upsets>>
    /\ Row(Forgotten, Nothing)
(* Positions are handed out as cars grid up.                               *)
GridUp(c) ==
    /\ session = "forming" /\ c \in away
    /\ away' = away \ {c} /\ score' = [score EXCEPT ![c] = Max({score[d] : d \in Cars}) + 1]
    /\ UNCHANGED <<session, way, best, hidden, paper, grid, upsets>>
    /\ Row(latch, met)
Green ==
    /\ session = "forming" /\ score # Nothing /\ session' = "race"
    /\ UNCHANGED <<way, best, score, away, hidden, paper, grid, upsets>>
    /\ Row(latch, met)

Next ==
    \/ \E c \in Cars : Drive(c) \/ Leave(c) \/ Return(c) \/ GridUp(c)
    \/ \E unseen \in {{}} \cup {{c} : c \in Cars} : Render(unseen)
    \/ Publish \/ LoadRace \/ Green

Spec == Init /\ [][Next]_vars

-------------------------------------------------------------------------------
TypeOK ==
    /\ session \in {"qualifying", "forming", "race"} /\ upsets \in 0..MaxUpsets
    /\ {way, best, score, grid, met} \subseteq [Cars -> Nat] /\ latch \in [Cars -> Nat \cup {None}]
    /\ away \subseteq Cars /\ hidden \subseteq Cars
    /\ paper \subseteq [car : Cars, position : Nat, laps : Nat, fastest : Nat, official : {TRUE}]
    /\ Present(shown) \subseteq Cars /\ \A c \in Present(shown) : latch[c] # None

(* Nobody is dropped and nobody is shown twice: a car in view or in the    *)
(* results has one row (build_standings, session.rs 4167-4189).            *)
EveryCarHasItsRow ==
    /\ Present(shown) = {c \in Cars : InWorld(c, hidden)} \cup Scored
    /\ {row.position : row \in shown} = 1..Cardinality(Present(shown))
    /\ Cardinality(shown) = Cardinality(Present(shown))

(* The results in hand are the scorer's latest.                            *)
ResultsAreLatest ==
    Scored = Cars /\ \A row \in paper : row.position = score[row.car] /\ row.fastest = best[row.car]

(* Two clients that render different parts of the field show the same      *)
(* order, once the results in hand are the scorer's latest                 *)
(* (apply_live_order, session.rs 4016-4044).                               *)
TeamSeesOneOrder ==
    ResultsAreLatest => shown = Classified({})

(* Every lap of the car was in view or in the results when it was done,    *)
(* and the car has a row if it has done any.                               *)
Followed(c) == met[c] = Completed(c) /\ (c \in Present(shown) \/ met[c] = 0)

(* Laps down are real for a car that is out of the world too: while every  *)
(* lap of the class was in view or in the results when it was done, and    *)
(* every classmate that has done one has a row, what is shown is how far   *)
(* the car is behind (LapLatch, session.rs 4085-4109). Exempt is a leader  *)
(* gone before any results list him: his row goes, and his laps with it.   *)
LapsDownAreReal ==
    \A c \in Present(shown) :
       (\A d \in Classmates(c) : Followed(d)) => LapsDown(c) = Max({Completed(d) : d \in Classmates(c)}) - Completed(c)
===============================================================================
