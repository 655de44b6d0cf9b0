------------------------------- MODULE AutoFuel -------------------------------
(***************************************************************************)
(* Auto Fuel of the black box: on track it works out how much must be on   *)
(* board to finish, in the pit lane it arms the load that takes the tank   *)
(* there, and once the rig has been it asks for nothing more until the car *)
(* is out again (BlackBox::auto_fuel_request, ui/blackbox/mod.rs). What it *)
(* knows of the rig is one row of telemetry a second, some of them lost;   *)
(* what it asks for reaches the sim a row later. Beside it RefuelWatch     *)
(* (telemetry/pit.rs) says where a running rig will stop.                  *)
(*                                                                         *)
(* Fuel is counted in units, Litre of them to a litre; a unit takes the    *)
(* car the Steps-th part of a lap.                                         *)
(***************************************************************************)
EXTENDS Integers, Sequences, FiniteSetsExt

CONSTANTS
    Litre,          \* units in a litre, the finest the sim accepts
    Steps,          \* units of a lap
    Size,           \* the tank
    Margin,         \* fuel_margin_laps, in units
    Pump,           \* units the rig delivers in a second
    Gain,           \* FUEL_SERVED_LITRES, in units
    Interval,       \* AUTO_FUEL_MIN_INTERVAL
    Stale,          \* SNAPSHOT_STALE
    Patience,       \* the longest a request waits for a row
    Error,          \* what the distance left is out by, as read in the lane
    MaxLeft, MaxCrawl, MaxIdle,             \* bounds: the race, burns in lane and box
    MaxUpsets                               \* bound: presses, lapses of telemetry, swaps

ASSUME AutoFuelAssumption ==
    /\ {Litre, Steps, Size, Pump, Gain, Interval, Stale, Patience, MaxLeft} \subseteq Nat \ {0}
    /\ {Margin, MaxCrawl, MaxIdle, MaxUpsets} \subseteq Nat
    /\ Error \in Int

VARIABLES
    car,        \* place, tank, distance left; burns of the last seconds in the pits
    sim,        \* the pit menu's fuel box and amount, the level the rig goes to
    seat,       \* is this overlay's driver in the car?
    auto,       \* settings.auto_fuel
    snap,       \* the latest row, and its age
    box,        \* the part of BlackBox that Auto Fuel keeps
    watch,      \* RefuelWatch
    pit_requests,   \* requests on their way to the telemetry thread
    visit,      \* the truth about this visit to the pits, or the last
    upsets      \* how many of MaxUpsets there have been

autoFuelVars == <<car, sim, seat, auto, snap, box, watch, pit_requests, visit, upsets>>

None == -1
Lesser(a, b) == IF a < b THEN a ELSE b
NotNegative(n) == IF n < 0 THEN 0 ELSE n
Litres(units) == (units + Litre - 1) \div Litre

-------------------------------------------------------------------------------
(* The sums. laps counts crossings, driven what is done of the lap at hand. *)
FuelToFinish(laps, driven) ==
    IF laps = None THEN None ELSE NotNegative(laps * Steps - driven) + Margin

FuelToAdd(needed, tank) == Litres(Lesser(NotNegative(needed - tank), NotNegative(Size - tank)))

(* RefuelWatch::update; 0.3 litres is less than the rig's first second.    *)
NoWatch == [lowest |-> None, target |-> None, armed |-> 0]
(* A slip: what the tank holds now and the load, as before the fill. *)
SlidingEdge(w, on_pit_road, tank, armed) ==
    IF ~ on_pit_road THEN NoWatch
    ELSE [lowest |-> tank, armed |-> armed, target |-> IF w.lowest # None /\ tank > w.lowest THEN tank + armed ELSE w.target]
Watched(w, on_pit_road, tank, armed) ==
    IF ~ on_pit_road THEN NoWatch
    ELSE LET low == IF w.lowest = None THEN tank ELSE Lesser(w.lowest, tank)
         IN CASE w.target = None /\ tank > low -> [lowest |-> low, target |-> low + armed, armed |-> armed]
              [] w.target # None /\ armed > w.armed ->
                    [lowest |-> low, armed |-> armed,
                     target |-> IF w.target < tank + armed THEN tank + armed ELSE w.target]
              [] OTHER -> [w EXCEPT !.lowest = low]

-------------------------------------------------------------------------------
(* BlackBox.                                                               *)
NewBox == [latched |-> None, display |-> None, wait |-> 0, pit_lane |-> "Pending",
           armed_in_lane |-> FALSE, on_entry |-> None]

(* Slips: a lane left keeps its verdict; only the level tells. *)
KeepVerdict(b, s) == [b EXCEPT !.armed_in_lane = FALSE, !.on_entry = None]
OutOfLane(b, s) == [b EXCEPT !.pit_lane = "Pending", !.armed_in_lane = FALSE, !.on_entry = None]
LevelTells(b, s) == b.on_entry # None /\ s.tank > b.on_entry + Gain
RigHasBeen(b, s) ==
    \/ b.on_entry # None /\ s.tank > b.on_entry + Gain
    \/ b.armed_in_lane /\ ~ s.armed
TrackPitLane(b, s) ==
    IF ~ s.road THEN OutOfLane(b, s)
    ELSE LET served == RigHasBeen(b, s)
         IN [b EXCEPT !.on_entry = IF @ = None THEN s.tank ELSE @,
                      !.armed_in_lane = @ \/ s.armed,
                      !.pit_lane = IF served THEN "Served" ELSE @,
                      !.latched = IF served THEN None ELSE @]

(* fuel_request_for: a request for no fuel is to untick the box.           *)
FuelRequestFor(wanted, s) ==
    IF wanted <= 0 THEN (IF s.armed THEN "ClearFuel" ELSE "none")
    ELSE IF s.armed /\ wanted = s.amount THEN "none" ELSE "SetFuel"

(* A slip: worked out afresh in the lane. *)
TargetNow(b, s) == s.fresh
Target(b, s) == IF b.latched # None THEN b.latched ELSE s.fresh

AskFor(kind, n) == [box |-> n, request |-> kind]
Armed(b, s) ==
    LET wanted == FuelToAdd(Target(b, s), s.tank)
        kind == FuelRequestFor(wanted, s)
        shown == [b EXCEPT !.display = wanted]
    IN IF kind = "none" \/ b.wait > 0 THEN AskFor("none", shown)
       ELSE AskFor(kind, [shown EXCEPT !.wait = Interval])

AutoFuelRequest(b, s) ==
    IF ~ auto THEN AskFor("none", [b EXCEPT !.latched = None, !.wait = 0])
    ELSE IF s.age >= Stale \/ ~ s.in_car THEN AskFor("none", b)
    ELSE LET t == TrackPitLane(b, s)
         IN IF t.pit_lane = "Served" THEN AskFor("none", t)
            ELSE IF ~ s.road
                 THEN AskFor("none", [t EXCEPT !.latched = s.fresh,
                                             !.display = IF s.fresh = None THEN None ELSE FuelToAdd(s.fresh, s.tank)])
            ELSE IF Target(t, s) = None THEN AskFor("none", t)
            ELSE Armed(t, s)

-------------------------------------------------------------------------------
(* The sim, of the requests heard: the last decides. A fuel amount of zero *)
(* means the amount already set; pit commands of a driver out of the car,  *)
(* or while the rig runs, are ignored.                                     *)
BoxTicked(m, heard) == IF heard = {} THEN m.armed ELSE pit_requests[Max(heard)].what = "SetFuel"
Amount(m, heard) ==
    LET set == {i \in heard : pit_requests[i].what = "SetFuel" /\ pit_requests[i].litres # 0}
    IN IF set = {} THEN m.amount ELSE pit_requests[Max(set)].litres
Delivered(m, heard) ==
    IF ~ seat \/ m.rig # None THEN m
    ELSE [m EXCEPT !.armed = BoxTicked(m, heard), !.amount = Amount(m, heard)]

(* A visit as it was. What rows showed Auto Fuel is kept beside it:        *)
(* sighted, the car in the lane before the rig worked; told, that there    *)
(* was a load to go in, by the ticked box or the level; reticked, that it  *)
(* was off while the box was ticked again.                                 *)
Visit(goal, met, c, m) ==
    [goal |-> goal, met |-> met, tracked |-> FALSE, entry |-> c.tank, ticked |-> m.armed, worked |-> FALSE, done |-> FALSE,
     sighted |-> FALSE, told |-> FALSE, reticked |-> FALSE,
     result |-> None, late |-> 0, pressed |-> pit_requests # <<>>, away |-> ~ (auto /\ seat), blind |-> FALSE]
Burnt(c) == c.lately[1] + c.lately[2] + c.lately[3]
Burns(c, b) == [c EXCEPT !.tank = @ - b, !.lately = <<b, c.lately[1], c.lately[2]>>]

AutoFuelInit ==
    /\ car \in [place : {"track"}, tank : {Size}, left : {MaxLeft}, secs : {0}, crawled : {0}, lately : {<<0, 0, 0>>}]
    /\ sim \in [armed : BOOLEAN, amount : {1}, rig : {None}]
    /\ seat = TRUE /\ auto \in BOOLEAN
    /\ snap = [tank |-> 0, armed |-> FALSE, amount |-> 0, road |-> FALSE, in_car |-> FALSE, fresh |-> None, age |-> Stale]
    /\ box = NewBox /\ watch = NoWatch /\ pit_requests = <<>>
    /\ visit = Visit(None, FALSE, car, sim)
    /\ upsets = 0

(* A row of telemetry. What is left of the race is known from the first    *)
(* measured lap on, and read from a lap that is part pit lane.             *)
Read(c, m, error) ==
    LET left == NotNegative(c.left + error)
        laps == IF c.left = MaxLeft THEN None ELSE (left + Steps - 1) \div Steps
    IN [tank |-> c.tank, armed |-> m.armed, amount |-> m.amount, road |-> c.place # "track",
        in_car |-> seat, age |-> 0, fresh |-> FuelToFinish(laps, laps * Steps - left)]

Waiting == [i \in DOMAIN pit_requests |-> [pit_requests[i] EXCEPT !.age = @ + 1]]
Current == {i \in DOMAIN pit_requests : Waiting[i].age < Patience}

(* A second: the world has moved on to car c and menu m; a row or none     *)
(* comes, with it what was asked for goes out, and a frame is drawn.       *)
SecondPasses(c, m, v) ==
    /\ car' = c
    /\ \/ /\ snap' = Read(c, m, IF c.place = "track" THEN 0 ELSE Error)
          /\ sim' = Delivered(m, Current)
          /\ watch' = Watched(watch, c.place # "track", c.tank, IF m.armed THEN m.amount * Litre ELSE 0)
          /\ UNCHANGED upsets
       \/ /\ upsets < MaxUpsets /\ upsets' = upsets + 1
          /\ snap' = [snap EXCEPT !.age = Lesser(@ + 1, Stale)]
          /\ sim' = m /\ UNCHANGED watch
    /\ LET b == AutoFuelRequest([box EXCEPT !.wait = NotNegative(@ - 1)], snap')
           left == IF snap'.age = 0 THEN <<>> ELSE Waiting
       IN /\ box' = b.box
          /\ pit_requests' = IF b.request = "none" THEN left
                      ELSE Append(left, [what |-> b.request, litres |-> b.box.display, age |-> 0, own |-> FALSE])
    /\ LET watching == auto /\ seat /\ snap'.age = 0 /\ snap'.road
           full == v.met /\ v.sighted /\ snap'.tank > v.entry + Gain
       IN visit' = [v EXCEPT !.blind = @ \/ snap'.age > 0,
                             !.worked = @ \/ (snap.armed /\ ~ m.armed),
                             !.sighted = @ \/ (watching /\ ~ v.worked),
                             !.told = @ \/ (watching /\ ((~ v.done /\ snap'.armed) \/ full)),
                             !.reticked = @ \/ (v.done /\ ~ auto /\ sim'.armed),
                             !.tracked = auto /\ seat /\ snap'.age = 0 /\ ~ snap'.road]
    /\ UNCHANGED <<seat, auto>>

-------------------------------------------------------------------------------
(* The car.                                                                *)
Drive ==
    /\ car.place = "track" /\ car.left > 0 /\ car.tank > 0
    /\ LET c == [car EXCEPT !.tank = @ - 1, !.left = @ - 1] IN SecondPasses(c, sim, Visit(None, FALSE, c, sim))

EnterLane ==
    /\ car.place = "track" /\ car.left < MaxLeft
    /\ LET c == [car EXCEPT !.place = "lane"]
       IN SecondPasses(c, sim, Visit(box.latched, visit.tracked, c, sim))

Crawl(b) ==
    /\ car.place = "lane" /\ car.tank >= b /\ car.crawled + b <= MaxCrawl /\ car.secs < 4
    /\ SecondPasses([Burns(car, b) EXCEPT !.secs = @ + 1, !.crawled = @ + b], sim, visit)

(* The lane is long enough for a request to be answered.                   *)
StopInBox ==
    /\ car.place = "lane" /\ car.secs >= 3
    /\ SecondPasses([Burns(car, 0) EXCEPT !.place = "box"], sim, [visit EXCEPT !.late = Burnt(car)])

(* The rig starts, delivers, and unticks the box when it is done.          *)
Fuel ==
    /\ car.place = "box" /\ (sim.armed \/ sim.rig # None)
    /\ LET goal == IF sim.rig # None THEN sim.rig ELSE Lesser(car.tank + sim.amount * Litre, Size)
           tank == Lesser(car.tank + Pump, goal)
       IN SecondPasses([car EXCEPT !.tank = tank, !.lately = <<0, 0, 0>>],
                 IF tank < goal THEN [sim EXCEPT !.rig = goal] ELSE [sim EXCEPT !.rig = None, !.armed = FALSE],
                 [visit EXCEPT !.worked = TRUE, !.done = @ \/ tank = goal,
                               !.result = IF tank = goal /\ ~ visit.done THEN tank ELSE @])

Wait(b) ==
    /\ car.place = "box" /\ ~ sim.armed /\ sim.rig = None
    /\ car.tank >= b /\ car.crawled + b <= MaxCrawl + MaxIdle
    /\ SecondPasses([Burns(car, b) EXCEPT !.crawled = @ + b], sim, visit)

Leave ==
    /\ car.place # "track" /\ sim.rig = None /\ (car.place = "box" => ~ sim.armed)
    /\ SecondPasses([car EXCEPT !.place = "track", !.secs = 0, !.crawled = 0, !.lately = <<0, 0, 0>>], sim,
              [visit EXCEPT !.result = IF @ = None /\ car.place = "box" THEN car.tank ELSE @,
                            !.late = IF visit.result = None THEN Burnt(car) ELSE @])

-------------------------------------------------------------------------------
(* The driver: the Fuel page's one press, and the switch.                  *)
PressFuel ==
    /\ upsets < MaxUpsets /\ upsets' = upsets + 1
    /\ snap.age < Stale /\ snap.in_car
    /\ pit_requests' = Append(pit_requests, [what |-> IF snap.armed THEN "ClearFuel" ELSE "SetFuel", age |-> 0, own |-> TRUE,
                               litres |-> IF auto /\ box.display # None THEN box.display ELSE snap.amount])
    /\ visit' = [visit EXCEPT !.pressed = TRUE]
    /\ UNCHANGED <<car, sim, seat, auto, snap, box, watch>>

ToggleAuto ==
    /\ upsets < MaxUpsets /\ upsets' = upsets + 1
    /\ auto' = ~ auto /\ visit' = [visit EXCEPT !.away = TRUE]
    /\ UNCHANGED <<car, sim, seat, snap, box, watch, pit_requests>>

(* The driver gets out in the box, a team mate drives a stint and stops    *)
(* for service, and the driver gets in again.                              *)
SwapOut ==
    /\ car.place = "box" /\ seat /\ sim.rig = None
    /\ upsets < MaxUpsets /\ upsets' = upsets + 1
    /\ seat' = FALSE /\ visit' = [visit EXCEPT !.away = TRUE]
    /\ UNCHANGED <<car, sim, auto, snap, box, watch, pit_requests>>

SwapIn ==
    /\ ~ seat /\ sim.rig = None /\ seat' = TRUE
    /\ \E stint \in {s \in 0..2 : s <= car.left /\ s <= car.tank}, armed \in BOOLEAN :
        LET c == [car EXCEPT !.left = @ - stint, !.tank = @ - stint]
            m == [sim EXCEPT !.armed = armed]
        IN IF stint = 0 THEN UNCHANGED <<car, sim, visit, pit_requests, watch>>
           ELSE /\ car' = c /\ sim' = m /\ pit_requests' = <<>> /\ watch' = [NoWatch EXCEPT !.lowest = c.tank]
                /\ visit' = Visit(None, FALSE, c, m)
    /\ snap' = [snap EXCEPT !.in_car = FALSE]
    /\ UNCHANGED <<auto, box, upsets>>

AutoFuelNext ==
    \/ Drive \/ EnterLane \/ StopInBox \/ Fuel \/ Leave
    \/ \E b \in {0, 1} : Crawl(b) \/ Wait(b)
    \/ PressFuel \/ ToggleAuto \/ SwapOut \/ SwapIn

AutoFuelSpec == AutoFuelInit /\ [][AutoFuelNext]_autoFuelVars

-------------------------------------------------------------------------------
AutoFuelTypeOK ==
    /\ car.place \in {"track", "lane", "box"} /\ car.tank \in 0..Size /\ car.left \in 0..MaxLeft
    /\ car.crawled \in 0..(MaxCrawl + MaxIdle) /\ (car.place = "track" => car.crawled = 0)
    /\ sim.armed \in BOOLEAN /\ sim.amount \in Nat \ {0} /\ sim.rig \in (0..Size) \cup {None}
    /\ sim.rig # None => car.place = "box" /\ car.tank < sim.rig
    /\ {seat, auto} \subseteq BOOLEAN /\ upsets \in 0..MaxUpsets
    /\ snap.tank \in 0..Size /\ snap.age \in 0..Stale /\ snap.fresh \in Nat \cup {None}
    /\ box.pit_lane \in {"Pending", "Served"} /\ box.wait \in 0..Interval
    /\ {box.latched, box.display} \subseteq Nat \cup {None} /\ box.on_entry \in (0..Size) \cup {None}
    /\ watch.target # None => watch.lowest # None
    /\ \A i \in DOMAIN pit_requests : /\ pit_requests[i].what \in {"SetFuel", "ClearFuel"}
                                /\ pit_requests[i].age \in Nat /\ pit_requests[i].litres \in Nat

(* A stop leaves the tank at what was worked out before the lane: no litre *)
(* more, and no less but for what was burnt too late to be asked for.      *)
(* Exempt is a box ticked for a load that was not needed at entry, or had  *)
(* no room: Auto Fuel unticks it, takes that for a stop served, and what   *)
(* the lane burns is not replaced (auto_fuel_request, 1155-1223).          *)
TankMeetsTarget ==
    visit.result # None /\ visit.goal # None /\ visit.met /\ ~ (visit.pressed \/ visit.away \/ visit.blind)
      /\ (visit.ticked => Lesser(visit.goal, Size) > visit.entry)
    => /\ visit.result + visit.late >= Lesser(visit.goal, Size)
       /\ visit.done => visit.result < visit.goal + Litre

(* Once the rig has been, Auto Fuel asks for nothing more on this visit,   *)
(* however long the car stands and burns, whatever rows are lost, and      *)
(* though it is switched off and on or the driver gets out and in          *)
(* (track_pit_lane, 1236-1257). It must have been told: by a row in the    *)
(* lane with the box ticked, while it was on, or by a level that rose more *)
(* than FUEL_SERVED_LITRES since a row it saw before the rig; and it must  *)
(* not have been off while the box was ticked again afterwards. A frame    *)
(* drawn without a row of its own is exempt.                               *)
NothingAfterService ==
    visit.done /\ visit.told /\ ~ visit.reticked /\ snap.age = 0
        => \A i \in DOMAIN pit_requests : pit_requests[i].own \/ pit_requests[i].age > 0

(* A stop is taken for served only because of what happened on this visit: *)
(* exempt are visits before which Auto Fuel had no sight of the car on     *)
(* track, being off, out of the car or blind (track_pit_lane, 1233).       *)
VerdictIsOfThisVisit ==
    box.pit_lane = "Served" /\ visit.met /\ car.place # "track" /\ ~ visit.blind => visit.worked

(* The far edge of the fuel gauge is where the rig stops, all through the  *)
(* first fill of a visit (RefuelWatch, telemetry/pit.rs 389-424).          *)
EdgeIsWhereRigStops ==
    sim.rig # None /\ watch.target # None /\ visit.met /\ ~ (visit.done \/ visit.blind) => Lesser(watch.target, Size) = sim.rig
===============================================================================
