------------------------------- MODULE TeamState ------------------------------
(***************************************************************************)
(* What an overlay makes of the ledger's events (sync/store.rs): for each  *)
(* replaceable field the value of its latest event, and the history of     *)
(* recent laps.                                                            *)
(*                                                                         *)
(* An event is a record with producer, seq, time, kind, lap and n; n tells *)
(* its content from every other event's.  A field holds the envelope that  *)
(* set it, which is its value and its Version at once.                     *)
(***************************************************************************)
EXTENDS Naturals, FiniteSets

CONSTANTS
    Overlays,       \* the members' customer ids
    LapHistory      \* LAP_HISTORY, 32 in the code

ASSUME OverlaysAssumption == Overlays \subseteq Nat \ {0}
ASSUME WindowAssumption == LapHistory \in Nat \ {0}

(* The fields of the car's picture, of the room's settings, and one
   acknowledgement per driver.                                             *)
CarFields == {"fuel", "car_idx", "service", "tyre_readings", "driver"} \X {0}
Settings == ({"fuel_target", "tyre_policy"} \X {0}) \cup ({"readiness"} \X Overlays)
Fields == CarFields \cup Settings

(* A StintBoundary is of the car too; so far only main.rs's probe sends one. *)
Measurements == {"LapClosed", "DriverScalars", "TyreReadings", "StintBoundary"}
Directives == {"FuelTarget", "TyrePolicySet", "HandoverReady"}

(* Which fields an event offers a value for: the arms of TeamState::apply.
   A driver acknowledges only for himself.                                 *)
Sets(e) ==
    CASE e.kind = "LapClosed" -> {<<"fuel", 0>>}
      [] e.kind = "DriverScalars" -> {"fuel", "car_idx", "service"} \X {0}
      [] e.kind = "TyreReadings" -> {<<"tyre_readings", 0>>}
      [] e.kind = "StintBoundary" -> {<<"driver", 0>>}
      [] e.kind = "FuelTarget" -> {<<"fuel_target", 0>>}
      [] e.kind = "TyrePolicySet" -> {<<"tyre_policy", 0>>}
      [] e.kind = "HandoverReady" -> {<<"readiness", e.producer>>}
      [] OTHER -> {}

Nothing == [producer |-> 0, seq |-> 0, time |-> 0, kind |-> "nothing", lap |-> 0, n |-> 0]

(* The order of versions that came over the wire. *)
NotBefore(e, d) ==
    \/ e.time > d.time
    \/ e.time = d.time /\ e.producer > d.producer
    \/ e.time = d.time /\ e.producer = d.producer /\ e.seq >= d.seq

(* Version::advance.  An overlay folds its own writes before they have a
   number, as seq 0: against those only the session clock counts.          *)
(* A slip: the last to arrive wins. *)
LastArrival(held, e) == TRUE
Advances(held, e) ==
    \/ held = Nothing
    \/ IF e.seq = 0 \/ held.seq = 0 THEN e.time >= held.time ELSE NotBefore(e, held)

(* The n laps of the highest numbers. *)
Newest(laps, n) == {l \in laps : Cardinality({k \in laps : k.lap > l.lap}) < n}

(* TeamState::record_lap: one record per lap, the last one folded, and the
   oldest laps go when there are too many.                                 *)
(* A slip: a full history takes no more. *)
KeepFirst(laps, e) == IF Cardinality(laps) < LapHistory THEN laps \cup {e} ELSE laps
RecordLap(laps, e) == Newest({l \in laps : l.lap # e.lap} \cup {e}, LapHistory)

(* TeamState::apply. *)
Empty == [field |-> [f \in Fields |-> Nothing], laps |-> {}]
Apply(state, e) ==
    [field |-> [f \in Fields |->
        IF f \in Sets(e) /\ Advances(state.field[f], e) THEN e ELSE state.field[f]],
     laps |-> IF e.kind = "LapClosed" THEN RecordLap(state.laps, e) ELSE state.laps]
===============================================================================
