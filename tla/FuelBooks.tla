------------------------------ MODULE FuelBooks ------------------------------
(***************************************************************************)
(* What a lap burnt, as three pieces of code measure it on the driver's    *)
(* own overlay: FuelTracker, whose highest recent lap plans the fuel, and  *)
(* LapFuelUse, the lap under way (both telemetry/session.rs, once per      *)
(* telemetry row), and EventSource (sync/feed.rs), which once per frame    *)
(* turns the latest snapshot into the lap records the whole team averages. *)
(* Rows go missing, frames come late, the driver gets out and in again,    *)
(* and the tank is filled in the pit lane.                                 *)
(***************************************************************************)
EXTENDS Integers, Sequences

CONSTANTS
    Sectors,        \* steps of a lap
    Burns, Fills,   \* litres a step burns, and a fill adds
    Window,         \* FUEL_WINDOW
    Full,           \* a full tank
    MaxLap,         \* bound: laps driven
    MaxSlow,        \* bound: extra steps a lap may take
    MaxUpsets,      \* bound: missing rows and departures of the driver
    MaxHitch        \* bound: steps between two frames

ASSUME FuelBooksAssumption ==
    /\ {Sectors, Window, Full, MaxLap, MaxHitch} \subseteq Nat \ {0}
    /\ Burns \subseteq Nat /\ Fills \subseteq Nat /\ {MaxSlow, MaxUpsets} \subseteq Nat

VARIABLES
    car,        \* where the player's car is, what it holds; burnt and pitted describe this lap
    seat,       \* is this overlay's driver in it, with a valid fuel reading?
    gap,        \* is a row missing since the last one the telemetry thread saw?
    tracker,    \* FuelTracker
    live,       \* LapFuelUse, and what it last reported
    snap,       \* the latest snapshot; stale when rows go missing
    source,     \* EventSource, the part that closes laps
    record,     \* the last LapClosed published
    driven,     \* since the tracker (by), and since the source (told), began to measure
    late, hidden,   \* did a frame come late to a line the source measures by;
                    \* did a visit to the pits fall between two frames?
    roads,      \* was the car on pit road at the last frame, and since?
    latest,     \* the last lap that was fit to be measured
    hitch, upsets

vars == <<car, seat, gap, tracker, live, snap, source, record, driven, late, hidden, roads, latest, hitch, upsets>>

None == -1
Lap0 == [lap |-> 0, pos |-> 0, steps |-> 0, secs |-> 0, tank |-> Full, road |-> FALSE, burnt |-> 0]
NoTracker == [last_lap |-> 0, last_level |-> 0, touched |-> FALSE, sampled |-> FALSE,
              recent |-> <<>>, streak |-> 0]
NoLive == [at |-> None, smoothed |-> None, last_lap |-> None, used |-> None, whole |-> FALSE]
NoSource == [lap |-> None, start |-> None, crossing |-> FALSE, had_stop |-> FALSE]
NothingDriven == [steps |-> 0, added |-> 0, pits |-> FALSE]
NoRecord == [kind |-> "none", laps |-> 0, used |-> 0, truth |-> NothingDriven, late |-> FALSE]

Least(S) == CHOOSE x \in S : \A y \in S : x <= y
Most(S) == CHOOSE x \in S : \A y \in S : x >= y
NotNegative(n) == IF n < 0 THEN 0 ELSE n

-------------------------------------------------------------------------------
(* FuelTracker.                                                            *)
Timed(recent) == {recent[i].secs : i \in DOMAIN recent} \ {0}
Measured(recent) == {recent[i].burn : i \in DOMAIN recent}
Figure(recent) == IF recent = <<>> THEN None ELSE Most(Measured(recent))

(* record: a lap slower than the quickest and thriftier than the figure is *)
(* no guide, until a window's worth of them in a row is the new pace.      *)
(* A slip: the clock alone rejects a lap. *)
SlowIsOffPace(recent, lap) == Timed(recent) # {} /\ lap.secs > Least(Timed(recent))
OffPace(recent, lap) ==
    /\ lap.secs > 0 /\ Timed(recent) # {}
    /\ lap.secs > Least(Timed(recent)) /\ lap.burn < Figure(recent)
Admit(t, lap) ==
    IF ~ OffPace(t.recent, lap)
    THEN [t EXCEPT !.streak = 0,
                   !.recent = Append(IF Len(@) >= Window THEN Tail(@) ELSE @, lap)]
    ELSE IF t.streak + 1 < Window THEN [t EXCEPT !.streak = @ + 1]
    ELSE [t EXCEPT !.streak = 0, !.recent = <<lap>>]

Interrupted(t) == [t EXCEPT !.last_lap = 0, !.last_level = 0, !.touched = TRUE, !.sampled = FALSE]

NextLap(t, c) == t.last_lap > 0 /\ c.lap = t.last_lap + 1
Eligible(t, c) == NextLap(t, c) /\ ~ t.touched /\ ~ c.road /\ t.last_level > c.tank

(* update and observe, for a row with a reading: what was measured since   *)
(* the last crossing is judged, and a tracker that joins halfway round     *)
(* waits for the next.                                                     *)
Counted(t, c, truth) ==
    IF c.lap = t.last_lap THEN [t EXCEPT !.touched = @ \/ c.road]
    ELSE [(IF Eligible(t, c)
           THEN Admit(t, [burn |-> t.last_level - c.tank, secs |-> c.secs, truth |-> truth])
           ELSE t) EXCEPT !.last_lap = c.lap, !.last_level = c.tank, !.touched = c.road]
(* A slip: a resumed tracker measures from where it resumed. *)
TrustPartial(t, c, truth) == [Counted(t, c, truth) EXCEPT !.sampled = TRUE]
Observed(t, c, truth) == [Counted(t, c, truth) EXCEPT !.touched = @ \/ ~ t.sampled, !.sampled = TRUE]

(* LapFuelUse::update.  A step of the car is thousands of rows, so over    *)
(* rows that are all seen the smoothed level is the tank: the lag of half  *)
(* a second is left out.  After missing rows it starts from what it was    *)
(* before them, and may be anywhere between that and the tank.  whole,     *)
(* which the code does not keep, tells whether every row from just before  *)
(* the line on was seen.                                                   *)
Smoothed(l, c) ==
    IF gap /\ l.smoothed # None
    THEN Least({l.smoothed, c.tank})..Most({l.smoothed, c.tank})
    ELSE {c.tank}
(* A slip: a fill in the pit lane does not spoil the lap. *)
KeepLine(l, c) == l.at
LineLevel(l, c) == IF c.road THEN None ELSE l.at
LiveUse(l, c, level) ==
    LET at == LineLevel(l, c)
    IN IF l.last_lap # c.lap
       THEN [at |-> IF c.road THEN at ELSE level, smoothed |-> level, last_lap |-> c.lap, used |-> None,
             whole |-> c.pos = 0 /\ ~ gap]
       ELSE [l EXCEPT !.at = at, !.smoothed = level, !.whole = @ /\ ~ gap,
                      !.used = IF at = None THEN None ELSE NotNegative(at - level)]

-------------------------------------------------------------------------------
(* EventSource::observe, up to the lap records.                            *)
(* A slip: only a stop still going on at the line counts. *)
StopAtLine(s, o) == o.road
StoppedOn(s, o) == s.had_stop \/ o.road

Closes(s, o) == s.lap # None /\ o.lap > s.lap /\ s.crossing
LapRecord(s, o, truth) ==
    LET burned == s.start - o.tank
        kind == IF ~ (StoppedOn(s, o) \/ burned < 0) THEN "delta"
                ELSE IF o.avg # None THEN "average" ELSE "guess"
    IN [kind |-> kind, laps |-> o.lap - s.lap, truth |-> truth, late |-> late \/ o.pos # 0,
        used |-> CASE kind = "delta" -> burned      \* divided by laps
                   [] kind = "average" -> o.avg
                   [] OTHER -> NotNegative(burned)]
Followed(s, o) ==
    IF s.lap = o.lap THEN [s EXCEPT !.had_stop = @ \/ o.road]
    ELSE [lap |-> o.lap, start |-> o.tank, had_stop |-> o.road, crossing |-> s.lap # None /\ o.lap > s.lap]

-------------------------------------------------------------------------------
Init ==
    /\ car = Lap0 /\ seat \in BOOLEAN /\ gap = FALSE
    /\ tracker = NoTracker /\ live = NoLive
    /\ snap = [lap |-> 0, pos |-> 0, tank |-> Full, road |-> FALSE, avg |-> None, mine |-> FALSE, stale |-> TRUE]
    /\ source = NoSource /\ record = NoRecord
    /\ driven = [by |-> NothingDriven, told |-> NothingDriven] /\ latest = None
    /\ late = FALSE /\ hidden = FALSE /\ roads = [then |-> FALSE, since |-> FALSE]
    /\ hitch = 0 /\ upsets = 0

More(d, c, added, moved) ==
    [steps |-> d.steps + moved, added |-> d.added + added, pits |-> d.pits \/ c.road]
Truth(d, burn) == [whole |-> d.steps = Sectors /\ ~ d.pits, burnt |-> burn + d.added]

(* The telemetry thread's row for the car as it is now.                    *)
Row(c, added, moved, here) ==
    LET t == IF gap \/ ~ here THEN Interrupted(tracker) ELSE tracker
        d == More(driven.by, c, added, moved)
        t1 == Observed(t, c, Truth(d, t.last_level - c.tank))
    IN /\ tracker' = IF here THEN t1 ELSE t
       /\ latest' = IF here /\ Eligible(t, c) THEN t.last_level - c.tank ELSE latest
       /\ \E level \in Smoothed(live, c) : live' = IF here THEN LiveUse(live, c, level) ELSE NoLive
       /\ snap' = [lap |-> c.lap, pos |-> c.pos, tank |-> c.tank, road |-> c.road, mine |-> here,
                   stale |-> FALSE, avg |-> IF here THEN Figure(t1.recent) ELSE None]
       /\ driven' = [by |-> IF here /\ t.last_lap # c.lap
                            THEN [NothingDriven EXCEPT !.pits = c.road] ELSE d,
                     told |-> More(driven.told, c, added, moved)]
       /\ gap' = FALSE

(* A row nobody saw.                                                       *)
Missed(c, added, moved) ==
    /\ upsets < MaxUpsets /\ upsets' = upsets + 1
    /\ gap' = TRUE /\ snap' = [snap EXCEPT !.stale = TRUE]
    /\ driven' = [by |-> More(driven.by, c, added, moved), told |-> More(driven.told, c, added, moved)]
    /\ UNCHANGED <<tracker, live, latest>>

Step(c, added, moved) ==
    /\ hitch < MaxHitch /\ hitch' = hitch + 1
    /\ car' = c /\ record' = NoRecord
    /\ roads' = [roads EXCEPT !.since = @ \/ c.road]
    /\ \/ Row(c, added, moved, seat) /\ UNCHANGED upsets
       \/ Missed(c, added, moved)
    /\ UNCHANGED <<seat, source, late, hidden>>

(* The car drives a sector; at the line the lap is counted and timed, or   *)
(* left untimed.                                                           *)
(* Laps differ in what their first sector burns and in a step lost later.  *)
Drive(b) ==
    /\ car.lap < MaxLap /\ car.tank >= b
    /\ car.pos = 0 \/ b = Least(Burns)
    /\ \E secs \in {0, car.steps + 1} :
       LET line == car.pos + 1 = Sectors
       IN Step([car EXCEPT !.pos = IF line THEN 0 ELSE @ + 1, !.lap = IF line THEN @ + 1 ELSE @,
                           !.tank = @ - b, !.steps = IF line THEN 0 ELSE @ + 1,
                           !.secs = IF line THEN secs ELSE @,
                           !.burnt = IF line THEN 0 ELSE @ + b], 0, 1)

Linger ==
    /\ car.pos > 0 /\ car.steps < car.pos + MaxSlow
    /\ Step([car EXCEPT !.steps = @ + 1], 0, 0)

Fill(a) ==
    /\ car.road /\ car.tank + a <= Full
    /\ Step([car EXCEPT !.tank = @ + a], a, 0)

(* In off the track, or out again; the crew changes the driver too.        *)
Pits ==
    /\ car.road \/ car.lap < MaxLap
    /\ Step([car EXCEPT !.road = ~ @], 0, 0)

(* The driver gets out or in, or the fuel reading comes and goes.          *)
Swap ==
    /\ seat => upsets < MaxUpsets
    /\ upsets' = (IF seat THEN upsets + 1 ELSE upsets)
    /\ seat' = ~ seat /\ record' = NoRecord
    /\ Row(car, 0, 0, ~ seat)
    /\ UNCHANGED <<car, source, hitch, late, hidden, roads>>

(* A frame: TeamSync::update forgets what it saw of the lap when it has no *)
(* current snapshot of this driver driving; publish_if_driving otherwise.  *)
Frame ==
    /\ hitch > 0 /\ hitch' = 0
    /\ roads' = [then |-> snap.road, since |-> FALSE]
    /\ LET visit == roads.since /\ ~ roads.then /\ ~ snap.road
           crossed == source.lap # None /\ snap.lap > source.lap
       IN IF snap.stale \/ ~ snap.mine
          THEN /\ source' = NoSource /\ record' = NoRecord
               /\ late' = FALSE /\ hidden' = FALSE /\ UNCHANGED driven
          ELSE /\ source' = Followed(source, snap)
               /\ record' = IF Closes(source, snap)
                            THEN LapRecord(source, snap, [driven.told EXCEPT !.pits = hidden \/ visit])
                            ELSE NoRecord
               /\ IF source.lap = snap.lap THEN UNCHANGED <<driven, late>> /\ hidden' = (hidden \/ visit)
                  ELSE /\ driven' = [driven EXCEPT !.told = NothingDriven]
                       /\ late' = (crossed /\ snap.pos # 0) /\ hidden' = FALSE
    /\ UNCHANGED <<car, seat, gap, tracker, live, snap, latest, upsets>>

Next ==
    \/ \E b \in Burns : Drive(b)
    \/ Linger \/ Pits \/ Swap \/ Frame
    \/ \E a \in Fills : Fill(a)

Spec == Init /\ [][Next]_vars

-------------------------------------------------------------------------------
TypeOK ==
    /\ car.pos \in 0..(Sectors - 1) /\ car.lap \in 0..MaxLap /\ car.tank \in 0..Full
    /\ {seat, gap, late, hidden} \subseteq BOOLEAN
    /\ Len(tracker.recent) <= Window /\ tracker.streak \in 0..(Window - 1)
    /\ tracker.last_lap <= car.lap /\ (~ tracker.sampled => tracker.last_lap = 0)
    /\ tracker.streak > 0 => tracker.recent # <<>>
    /\ {live.at, live.smoothed, live.used} \subseteq None..Full
    /\ source.lap \in None..car.lap /\ (source.lap = None => source = NoSource)
    /\ record.kind \in {"none", "delta", "average", "guess"}

(* Every burn the fuel plan rests on is what the car burnt on one whole    *)
(* lap, none of it in the pit lane, whatever rows went missing and         *)
(* whoever drove between (FuelTracker::observe, session.rs 1207-1262).     *)
PlanFromWholeLaps ==
    \A i \in DOMAIN tracker.recent :
        /\ tracker.recent[i].truth.whole
        /\ tracker.recent[i].burn = tracker.recent[i].truth.burnt

(* The plan never carries less than the last lap fit to be measured took:  *)
(* turning a lap away as off pace must not lose one that burnt more        *)
(* (FuelTracker::record, session.rs 1264-1298).                            *)
PlanCoversLastLap == latest # None => Figure(tracker.recent) >= latest

(* A lap record measured from the tank is the fall over that many whole    *)
(* laps and no fill: exempt are a frame so late that it missed the line,   *)
(* and a visit to the pits between two frames, which EventSource cannot    *)
(* see (EventSource::observe, feed.rs 119-155).                            *)
RecordsFromWholeLaps ==
    record.kind = "delta" /\ ~ record.late /\ ~ record.truth.pits
        => record.truth.added = 0 /\ record.truth.steps = record.laps * Sectors

(* The burn shown for the lap under way is what was burnt since the line,  *)
(* when the rows up to the crossing and every row since were seen: the     *)
(* smoothed level is carried over missing rows, so a lap whose crossing    *)
(* ends a gap is exempt (LapFuelUse::update, session.rs 1144-1165).        *)
LiveFromTheLine == live.used # None /\ live.whole /\ ~ gap => live.used = car.burnt
===============================================================================
