------------------------------ MODULE StintState ------------------------------
(***************************************************************************)
(* What the overlay believes of one car's stint: StintState of             *)
(* telemetry/session.rs, folded over one sample of the car per row of      *)
(* telemetry (update_with_official).  A sample r has the session time      *)
(* (now), the completed laps (lap), the scorer's stop count if the row     *)
(* publishes one (official), whether the car is in the world (in_world),   *)
(* in the pit lane (in_lane), flagged in its stall (in_stall), and its lap *)
(* position if published (pct).                                            *)
(*                                                                         *)
(* The fields are kept in three groups: books (the scorer's count against   *)
(* the overlay's), lane (the visit to the pit lane under way) and stint.    *)
(* Seconds are whole, and two positions differ by more than PIT_MOVED_PCT  *)
(* when they differ at all.  The out-lap mark and the medians, which only  *)
(* present what is here, are left out.                                     *)
(***************************************************************************)
EXTENDS Integers, Sequences

CONSTANTS
    StoppedConfirm,     \* STOPPED_CONFIRM_SECS, 2
    MinStop,            \* MIN_STOP_SECS, 3
    BlindTolerance,     \* POSITION_BLIND_TOLERANCE_SECS, 1
    ReturnGrace,        \* RETURNED_AFTER_GAP_GRACE_SECS, 45
    MinFuelStintLaps,   \* MIN_FUEL_STINT_LAPS, 5
    StintSamples,       \* STINT_SAMPLES, 8
    None

ASSUME StintAssumption ==
    /\ {StoppedConfirm, MinStop, BlindTolerance, ReturnGrace, MinFuelStintLaps} \subseteq Nat
    /\ StoppedConfirm # 0 /\ StintSamples \in Nat \ {0}
    /\ None \notin Int /\ None \notin [secs : Nat, lap : Nat]

AtLeast0(n) == IF n > 0 THEN n ELSE 0
Lesser(m, n) == IF m < n THEN m ELSE n
Greater(m, n) == IF m < n THEN n ELSE m

\* push_back on a history bounded to StintSamples.
Remember(history, x) ==
    Append(IF Len(history) >= StintSamples THEN Tail(history) ELSE history, x)

Exits == [secs : Nat, lap : Nat]

Books ==
    [official_stops_seen : Nat \cup {None}, official_offset : Nat, official_unmatched : Nat,
     local_unscored : Nat, pending_drive_throughs : Nat, pit_count : Nat]

Lanes ==
    [was_in_pit_lane : BOOLEAN, seen_in_world : BOOLEAN, observation_interrupted : BOOLEAN,
     lane_entered : Nat \cup {None}, anchor_pct : Nat \cup {None}, last_moved_secs : Nat,
     stopped_since : Nat \cup {None}, stopped_total_secs : Nat, last_tick_secs : Nat,
     lane_visit_observed : BOOLEAN, blind_secs : Nat, stall_observed : BOOLEAN,
     lane_visit_interrupted : BOOLEAN]

Stints ==
    [current_start : Exits \cup {None}, current_start_observed : BOOLEAN,
     completed : Seq([laps : Nat, secs : Nat]), pit_secs : Seq(Nat), last_pit_secs : Nat \cup {None},
     returned_after_gap : Exits \cup {None},
     pending_uncertain_exit : [secs : Nat, lap : Nat, reset_boundary : BOOLEAN] \cup {None}]

StintStates == [books : Books, lane : Lanes, stint : Stints]

\* StintState::default().
Fresh ==
    [books |-> [official_stops_seen |-> None, official_offset |-> 0, official_unmatched |-> 0,
                local_unscored |-> 0, pending_drive_throughs |-> 0, pit_count |-> 0],
     lane |-> [was_in_pit_lane |-> FALSE, seen_in_world |-> FALSE, observation_interrupted |-> FALSE,
               lane_entered |-> None, anchor_pct |-> None, last_moved_secs |-> 0,
               stopped_since |-> None, stopped_total_secs |-> 0, last_tick_secs |-> 0,
               lane_visit_observed |-> FALSE, blind_secs |-> 0, stall_observed |-> FALSE,
               lane_visit_interrupted |-> FALSE],
     stint |-> [current_start |-> None, current_start_observed |-> FALSE, completed |-> <<>>,
                pit_secs |-> <<>>, last_pit_secs |-> None, returned_after_gap |-> None,
                pending_uncertain_exit |-> None]]

-----------------------------------------------------------------------------
(* The books.  The scorer's count is a baseline when first seen; what it    *)
(* rises by afterwards is to be matched with what was seen of the car.      *)

CompletedStopCount(b) ==
    LET local == b.official_offset + b.pit_count
    IN  IF b.official_stops_seen = None THEN local ELSE Greater(b.official_stops_seen, local)

ObserveOfficialStops(b, stops) ==
    IF stops = None THEN b
    ELSE IF b.official_stops_seen = None
    THEN [b EXCEPT !.official_offset = AtLeast0(stops - b.pit_count),
                   !.local_unscored = AtLeast0(b.pit_count - stops),
                   !.official_stops_seen = stops]
    ELSE [b EXCEPT !.official_unmatched = @ + AtLeast0(stops - b.official_stops_seen),
                   !.official_stops_seen = Greater(@, stops)]

\* Mutant: the overlay's own stops are never taken off.
MatchLocalNever(b) == b

MatchLocal(b) ==
    LET n == Lesser(b.official_unmatched, b.local_unscored)
    IN  [b EXCEPT !.official_unmatched = @ - n, !.local_unscored = @ - n]

\* n of the scorer's stops are none the overlay has seen as stops.
Concede(b, n) == [b EXCEPT !.official_unmatched = @ - n, !.official_offset = @ + n]

MatchDriveThroughs(b) ==
    LET n == Lesser(b.official_unmatched, b.pending_drive_throughs)
    IN  [Concede(b, n) EXCEPT !.pending_drive_throughs = @ - n]

MatchUncertainExit(b, pending) ==
    IF b.official_unmatched > 0 /\ pending # None THEN Concede(b, 1) ELSE b

MatchUnseen(b, lane_visit_active) ==
    IF lane_visit_active THEN b ELSE Concede(b, b.official_unmatched)

\* Mutant: a stop the scorer has yet to count is not noted.
RecordLaneOutcomeUnnoted(b, outcome) ==
    CASE outcome = "stop" /\ b.official_unmatched > 0 -> [b EXCEPT !.official_unmatched = @ - 1]
      [] outcome = "drive_through" -> [b EXCEPT !.pending_drive_throughs = @ + 1]
      [] OTHER -> b

\* The outcome of a visit to the lane; a stop is in pit_count already.
RecordLaneOutcome(b, outcome) ==
    CASE outcome = "stop" /\ b.official_unmatched > 0 -> [b EXCEPT !.official_unmatched = @ - 1]
      [] outcome = "stop" /\ b.official_unmatched = 0 -> [b EXCEPT !.local_unscored = @ + 1]
      [] outcome = "drive_through" -> [b EXCEPT !.pending_drive_throughs = @ + 1]
      [] OTHER -> b

ResetFromOfficial(st, exit, exit_observed) ==
    [st EXCEPT !.current_start = [secs |-> exit.secs, lap |-> exit.lap],
               !.current_start_observed = exit_observed,
               !.last_pit_secs = None]

\* What the scorer's confirmation of an uncertain exit does to the stint...
ConfirmExit(st, unmatched, just_reset) ==
    LET exit == st.pending_uncertain_exit
        taken == [st EXCEPT !.pending_uncertain_exit = None]
    IN  IF unmatched = 0 \/ exit = None THEN st
        ELSE IF exit.reset_boundary /\ ~just_reset THEN ResetFromOfficial(taken, exit, TRUE)
        ELSE taken

\* Mutant: the return is forgotten once its sample is over.
PutUnseenAtOnce(st, r, unmatched, just_reset, returned_after_gap) ==
    IF unmatched > 0 /\ ~just_reset /\ returned_after_gap
    THEN ResetFromOfficial(st, [secs |-> r.now, lap |-> r.lap], FALSE)
    ELSE st

\* ... and a stop nothing accounts for, which is put at the return from a gap.
PutUnseen(st, r, unmatched, just_reset, returned_after_gap) ==
    CASE unmatched = 0 \/ just_reset -> st
      [] unmatched > 0 /\ ~just_reset /\ st.returned_after_gap # None ->
            ResetFromOfficial([st EXCEPT !.returned_after_gap = None], st.returned_after_gap, FALSE)
      [] unmatched > 0 /\ ~just_reset /\ st.returned_after_gap = None /\ returned_after_gap ->
            ResetFromOfficial(st, [secs |-> r.now, lap |-> r.lap], FALSE)
      [] OTHER -> st

ReconcileOfficialStops(s, r, lane_visit_active, just_reset, returned_after_gap) ==
    LET matched == MatchDriveThroughs(MatchLocal(s.books))
        confirmed == MatchUncertainExit(matched, s.stint.pending_uncertain_exit)
        stint == ConfirmExit(s.stint, matched.official_unmatched, just_reset)
    IN  [books |-> MatchUnseen(confirmed, lane_visit_active),
         lane |-> s.lane,
         stint |-> IF lane_visit_active THEN stint
                   ELSE PutUnseen(stint, r, confirmed.official_unmatched, just_reset, returned_after_gap)]

-----------------------------------------------------------------------------
(* A visit to the pit lane.                                                 *)

\* The stationary spell under way, if any, ends and is added to the visit's.
Bank(l, until) ==
    IF l.stopped_since = None THEN l
    ELSE [l EXCEPT !.stopped_since = None,
                   !.stopped_total_secs = @ + AtLeast0(until - l.stopped_since)]

\* Mutant: the last movement is not reset on entry.
EnterUnreset(l, r, resumed) ==
    IF ~l.was_in_pit_lane
    THEN [l EXCEPT !.lane_entered = r.now, !.anchor_pct = r.pct,
                   !.stopped_since = None, !.stopped_total_secs = 0,
                   !.lane_visit_observed = l.seen_in_world /\ ~resumed,
                   !.blind_secs = 0, !.stall_observed = r.in_stall,
                   !.lane_visit_interrupted = FALSE]
    ELSE IF resumed THEN [l EXCEPT !.anchor_pct = r.pct, !.last_moved_secs = r.now]
    ELSE l

EnterOrResume(l, r, resumed) ==
    IF ~l.was_in_pit_lane
    THEN [l EXCEPT !.lane_entered = r.now, !.anchor_pct = r.pct, !.last_moved_secs = r.now,
                   !.stopped_since = None, !.stopped_total_secs = 0,
                   !.lane_visit_observed = l.seen_in_world /\ ~resumed,
                   !.blind_secs = 0, !.stall_observed = r.in_stall,
                   !.lane_visit_interrupted = FALSE]
    ELSE IF resumed THEN [l EXCEPT !.anchor_pct = r.pct, !.last_moved_secs = r.now]
    ELSE l

\* The last position the car was seen to move past, and time spent without one.
Watch(l, r, resumed) ==
    LET since_last_tick == IF l.was_in_pit_lane THEN AtLeast0(r.now - l.last_tick_secs) ELSE 0
        moved == r.pct # None /\ r.pct # l.anchor_pct
    IN  [l EXCEPT !.last_tick_secs = r.now,
                  !.blind_secs = IF r.pct = None /\ ~resumed THEN @ + since_last_tick ELSE @,
                  !.stall_observed = @ \/ r.in_stall,
                  !.anchor_pct = IF moved THEN r.pct ELSE @,
                  !.last_moved_secs = IF moved THEN r.now ELSE @]

Frozen(l, r) == r.pct # None /\ r.now - l.last_moved_secs >= StoppedConfirm

\* A car seen frozen has stood since it last moved, one in its stall since now.
Stand(l, r) ==
    IF ~Frozen(l, r) /\ ~r.in_stall THEN Bank(l, r.now)
    ELSE IF l.stopped_since # None THEN l
    ELSE [l EXCEPT !.stopped_since = IF Frozen(l, r) THEN l.last_moved_secs ELSE r.now]

InLane(s, r, resumed) ==
    [books |-> s.books,
     lane |-> [Stand(Watch(EnterOrResume(s.lane, r, resumed), r, resumed), r) EXCEPT
                !.was_in_pit_lane = TRUE, !.seen_in_world = TRUE],
     stint |-> [s.stint EXCEPT !.current_start_observed = @ /\ (s.lane.was_in_pit_lane \/ ~resumed)]]

ServiceObserved(l) == l.stopped_total_secs >= MinStop
BlindStopInferred(l) == l.blind_secs > BlindTolerance /\ ~l.lane_visit_interrupted
ServiceTimeUncertain(l) ==
    l.lane_visit_interrupted \/ (l.blind_secs > BlindTolerance /\ ~l.stall_observed)

\* Mutant: only standing that was seen makes a stop.
OutcomeSeen(l, st) ==
    CASE ~l.lane_visit_observed -> IF st.current_start = None THEN "ignored" ELSE "uncertain"
      [] l.lane_visit_observed /\ ~ServiceObserved(l) ->
            IF l.lane_visit_interrupted THEN "uncertain" ELSE "drive_through"
      [] OTHER -> IF st.current_start = None THEN "uncertain" ELSE "stop"

Outcome(l, st) ==
    CASE ~l.lane_visit_observed -> IF st.current_start = None THEN "ignored" ELSE "uncertain"
      [] l.lane_visit_observed /\ ~ServiceObserved(l) /\ ~BlindStopInferred(l) ->
            IF l.lane_visit_interrupted THEN "uncertain" ELSE "drive_through"
      [] OTHER -> IF st.current_start = None THEN "uncertain" ELSE "stop"

\* A stop ends the stint and may teach its length and the time it took.
EndStint(st, l, r) ==
    LET laps == AtLeast0(r.lap - st.current_start.lap)
        measured == ~l.lane_visit_interrupted /\ st.current_start_observed /\ laps >= MinFuelStintLaps
        timed == ServiceObserved(l) /\ ~ServiceTimeUncertain(l)
    IN  [st EXCEPT
            !.completed = IF measured
                THEN Remember(@, [laps |-> laps, secs |-> AtLeast0(l.lane_entered - st.current_start.secs)])
                ELSE @,
            !.last_pit_secs = IF timed THEN l.stopped_total_secs ELSE None,
            !.pit_secs = IF timed THEN Remember(@, l.stopped_total_secs) ELSE @,
            !.current_start = [secs |-> r.now, lap |-> r.lap],
            !.current_start_observed = TRUE,
            !.returned_after_gap = None,
            !.pending_uncertain_exit = IF @ = None THEN @ ELSE [@ EXCEPT !.reset_boundary = FALSE]]

NoteUncertain(st, r) ==
    [st EXCEPT !.pending_uncertain_exit = [secs |-> r.now, lap |-> r.lap, reset_boundary |-> TRUE]]

\* The first time a car is seen off the lane its stint begins, wherever that is.
BeginStint(st, r, exited) ==
    IF st.current_start # None THEN st
    ELSE [st EXCEPT !.current_start = [secs |-> r.now, lap |-> r.lap],
                    !.current_start_observed = r.lap <= 0 \/ exited]

\* close_lane_visit, and what record_lane_outcome notes of it.
CloseLaneVisit(s, r, resumed) ==
    LET banked == Bank(s.lane, r.now)
        outcome == Outcome(banked, s.stint)
        closed == [banked EXCEPT !.lane_entered = None, !.stopped_total_secs = 0,
                                 !.anchor_pct = None, !.blind_secs = 0]
        stint == CASE outcome = "stop" -> EndStint(s.stint, banked, r)
                   [] outcome = "uncertain" -> NoteUncertain(s.stint, r)
                   [] OTHER -> s.stint
        counted == [s.books EXCEPT !.pit_count = IF outcome = "stop" THEN @ + 1 ELSE @]
        settled == [books |-> RecordLaneOutcome(counted, outcome),
                    lane |-> [closed EXCEPT !.was_in_pit_lane = FALSE, !.seen_in_world = TRUE],
                    stint |-> BeginStint(stint, r, ~resumed)]
    IN  ReconcileOfficialStops(settled, r, FALSE, outcome = "stop", FALSE)

OffLane(s, r, resumed) ==
    IF s.lane.was_in_pit_lane THEN CloseLaneVisit(s, r, resumed)
    ELSE [books |-> s.books,
          lane |-> [s.lane EXCEPT !.seen_in_world = TRUE],
          stint |-> BeginStint(s.stint, r, FALSE)]

-----------------------------------------------------------------------------
(* One sample.                                                              *)

NotInWorld(s, r) ==
    LET banked == IF s.lane.was_in_pit_lane THEN Bank(s.lane, s.lane.last_tick_secs) ELSE s.lane
    IN  [books |-> [s.books EXCEPT !.pending_drive_throughs = 0],
         lane |-> [banked EXCEPT !.observation_interrupted = @ \/ s.lane.seen_in_world,
                                 !.lane_visit_interrupted = @ \/ s.lane.was_in_pit_lane,
                                 !.last_tick_secs = r.now],
         stint |-> s.stint]

InWorld(s, r) ==
    LET resumed == s.lane.observation_interrupted
        returned == IF resumed /\ ~r.in_lane THEN [secs |-> r.now, lap |-> r.lap]
                    ELSE s.stint.returned_after_gap
        recent == IF returned # None /\ r.now - returned.secs > ReturnGrace THEN None ELSE returned
        entering == r.in_lane /\ ~s.lane.was_in_pit_lane
        noted == [books |-> [s.books EXCEPT !.pending_drive_throughs = IF entering THEN 0 ELSE @],
                  lane |-> [s.lane EXCEPT !.observation_interrupted = FALSE],
                  stint |-> [s.stint EXCEPT !.returned_after_gap = recent]]
        matched == ReconcileOfficialStops(noted, r, r.in_lane \/ s.lane.was_in_pit_lane, FALSE, resumed)
    IN  IF r.in_lane THEN InLane(matched, r, resumed) ELSE OffLane(matched, r, resumed)

UpdateWithOfficial(s, r) ==
    LET scored == [books |-> ObserveOfficialStops(s.books, r.official), lane |-> s.lane, stint |-> s.stint]
    IN  IF r.in_world THEN InWorld(scored, r) ELSE NotInWorld(scored, r)

-----------------------------------------------------------------------------
\* Every stop the scorer has counted is in the overlay's count or yet to be
\* matched, and what the overlay has beyond that is yet to be scored.
BooksBalance(b) ==
    IF b.official_stops_seen = None THEN b.official_unmatched = 0
    ELSE b.official_offset + b.pit_count + b.official_unmatched = b.official_stops_seen + b.local_unscored

=============================================================================
