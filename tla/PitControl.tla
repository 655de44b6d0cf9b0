------------------------------ MODULE PitControl ------------------------------
(***************************************************************************)
(* How a tyre request becomes ticks in iRacing's pit menu: the crew's      *)
(* writes come over the room, the driver's own from his black box, the     *)
(* standing tyre policy adds one at pit entry; the frame loop (app.rs,     *)
(* sync/runtime.rs) queues them for the telemetry thread                   *)
(* (telemetry/session.rs), which turns each into broadcast commands        *)
(* (telemetry/pit.rs) that the sim carries out when it gets to them.       *)
(*                                                                         *)
(* This is the driver's machine.  Fuel, tear-off and repair requests are   *)
(* one command each and travel the same way; only tyres are modelled, and  *)
(* of a tyre only its tick, not the pressure it is to have.  The driver has *)
(* given allow_team_pit_control; without it apply_team_writes drops all.   *)
(***************************************************************************)
EXTENDS Integers, FiniteSets, SequencesExt

CONSTANTS
    Corners,
    Asks,               \* bound: the requests there are in a run
    Policy,             \* the standing tyre policy's answer: "take", "keep" or "none"
    WriteMaxAge,        \* LIVE_PIT_WRITE_MAX_AGE_SECS, 2
    QueueLife,          \* QueuedPitRequest::is_current, 2 seconds
    SnapshotStale,      \* SNAPSHOT_STALE, 2 seconds
    MaxClock,           \* bound: seconds
    MaxAsked            \* bound: requests made and visits to the pits

TyreRequests == [op : {"arm", "untick"}, corner : Corners] \cup [op : {"arm_all", "clear_all"}]

ASSUME PitAssumption ==
    /\ IsFiniteSet(Corners)
    /\ Asks \subseteq TyreRequests
    /\ Policy \in {"take", "keep", "none"}
    /\ {WriteMaxAge, QueueLife, SnapshotStale} \subseteq Nat \ {0}
    /\ {MaxClock, MaxAsked} \subseteq Nat

VARIABLES
    clock, session, began,  \* seconds; the race phase, and when it began
    seated, on_pit_road,    \* the player is in the car; the car is on pit road
    armed,                  \* the corners ticked in the sim
    posted,                 \* pit commands the sim has yet to carry out
    requests,               \* pit_requests, from the frame loop to the thread
    row,                    \* the snapshot on its way to the frame loop
    latest, latest_at,      \* the snapshot the frame loop has, and since when
    room,                   \* the phase whose room the client is in, 0 if none
    incoming,               \* crew writes on their way to the frame loop
    last_session_time, was_on_pit_road,
    asked,                  \* requests and visits so far
    intended,               \* what the requests carried out one by one ask for
    overlapped              \* was a request carried out before an earlier one was?

simVars == <<armed, posted, intended, overlapped>>
frameVars == <<latest, latest_at, room, last_session_time, was_on_pit_road>>
worldVars == <<clock, session, began, seated, on_pit_road>>
vars == <<worldVars, simVars, frameVars, requests, row, incoming, asked>>

\* The members of a sequence that pass, in order.  (SelectSeq, in a form that
\* can be proved about.)
Kept(s, Passes(_)) == FlattenSeq([i \in DOMAIN s |-> IF Passes(s[i]) THEN <<s[i]>> ELSE <<>>])

NoSnapshot == [session |-> 0]
SessionTime == clock - began

Init ==
    /\ clock = 0 /\ session = 1 /\ began = 0
    /\ seated = TRUE /\ on_pit_road = FALSE
    /\ armed \in SUBSET Corners /\ intended = armed /\ posted = <<>> /\ overlapped = FALSE
    /\ requests = <<>> /\ row = NoSnapshot /\ incoming = <<>>
    /\ latest = NoSnapshot /\ latest_at = 0 /\ room = 0
    /\ last_session_time = 0 /\ was_on_pit_road = FALSE
    /\ asked = 0

-------------------------------------------------------------------------------
(* The world.  A second may pass over anything: a frame loop or a           *)
(* telemetry thread that does nothing in it has stalled.                    *)
Second ==
    /\ clock < MaxClock
    /\ clock' = clock + 1
    /\ UNCHANGED <<session, began, seated, on_pit_road, simVars, frameVars,
                   requests, row, incoming, asked>>

PitEntry ==
    /\ ~ on_pit_road /\ on_pit_road' = TRUE
    /\ asked < MaxAsked /\ asked' = asked + 1
    /\ UNCHANGED <<clock, session, began, seated, simVars, frameVars,
                   requests, row, incoming>>

PitExit ==
    /\ on_pit_road /\ on_pit_road' = FALSE
    /\ UNCHANGED <<clock, session, began, seated, simVars, frameVars,
                   requests, row, incoming, asked>>

SwapDriver ==
    /\ seated' = ~ seated
    /\ UNCHANGED <<clock, session, began, on_pit_road, simVars, frameVars,
                   requests, row, incoming, asked>>

(* The next phase of the weekend: its clock starts at zero. *)
NewPhase ==
    /\ session = 1 /\ session' = 2 /\ began' = clock
    /\ UNCHANGED <<clock, seated, on_pit_road, simVars, frameVars,
                   requests, row, incoming, asked>>

(* The sim carries out one command. *)
CarryOut(command, ticks) ==
    CASE command.op = "tick" -> ticks \cup {command.corner}
      [] command.op = "ClearTires" -> {}
Sim ==
    /\ posted # <<>>
    /\ armed' = CarryOut(Head(posted), armed)
    /\ posted' = Tail(posted)
    /\ UNCHANGED <<worldVars, frameVars, requests, row, incoming, asked, intended,
                   overlapped>>

-------------------------------------------------------------------------------
(* The telemetry thread. *)

(* commands_for and rebuild_tyres_without: iRacing cannot untick one tyre,
   so all are cleared and those the sim reported armed are ticked again.   *)
TickEach(S) == LET order == SetToSeq(S)
               IN  [i \in DOMAIN order |-> [op |-> "tick", corner |-> order[i]]]
(* A slip: the dropped corner is ticked again with the others. *)
RebuildAll(request, current) ==
    CASE request.op = "arm" -> TickEach({request.corner})
      [] request.op = "untick" -> <<[op |-> "ClearTires"]>> \o TickEach(current)
      [] request.op = "arm_all" -> TickEach(Corners)
      [] request.op = "clear_all" -> <<[op |-> "ClearTires"]>>
CommandsFor(request, current) ==
    CASE request.op = "arm" -> TickEach({request.corner})
      [] request.op = "untick" -> <<[op |-> "ClearTires"]>>
                                    \o TickEach(current \ {request.corner})
      [] request.op = "arm_all" -> TickEach(Corners)
      [] request.op = "clear_all" -> <<[op |-> "ClearTires"]>>

(* What the request says it does (PitRequest). *)
Meaning(request, ticks) ==
    CASE request.op = "arm" -> ticks \cup {request.corner}
      [] request.op = "untick" -> ticks \ {request.corner}
      [] request.op = "arm_all" -> Corners
      [] request.op = "clear_all" -> {}

(* QueuedPitRequest::is_current. *)
(* Slips: one of the two conditions only. *)
IsCurrentByPhase(queued) == queued.session = session
IsCurrentByAge(queued) == clock - queued.created_at < QueueLife
IsCurrent(queued) ==
    /\ clock - queued.created_at < QueueLife
    /\ queued.session = session

(* What is posted for one queued request. *)
Commands(q) ==
    LET commands == CommandsFor(q.request, armed)
    IN  [i \in DOMAIN commands |->
            [op |-> commands[i].op, of |-> q, at |-> clock, in |-> session,
             corner |-> IF commands[i].op = "tick" THEN commands[i].corner ELSE "all"]]

(* A row of telemetry: the snapshot goes to the frame loop and the queued
   requests are carried out against the pit menu as that row has it
   (run_session, send_pit_requests).  A frame takes the last of the rows
   that wait for it; read, which the code does not keep, tells their age.  *)
Telemetry ==
    /\ row' = [session |-> session, seated |-> seated, on_pit_road |-> on_pit_road,
               time |-> SessionTime, read |-> clock]
    /\ LET current == Kept(requests, IsCurrent)
       IN  /\ posted' = posted \o FlattenSeq([i \in DOMAIN current |-> Commands(current[i])])
           /\ intended' = IF current = <<>> THEN intended ELSE Meaning(current[1].request, intended)
           /\ overlapped' = (overlapped \/ Len(current) > 1 \/ (current # <<>> /\ posted # <<>>))
    /\ requests' = <<>>
    /\ UNCHANGED <<worldVars, armed, frameVars, incoming, asked>>

-------------------------------------------------------------------------------
(* The frame loop. *)

(* fresh_snapshot *)
Fresh(snap, at) == snap # NoSnapshot /\ clock - at < SnapshotStale

(* send_local_pit_request: asked and askedIn tell where a request began,
   waited how long its snapshot had waited for the frame that took it.     *)
Queued(request, snap, at, made, madeIn) ==
    [request |-> request, created_at |-> clock, session |-> snap.session,
     asked |-> made, askedIn |-> madeIn, waited |-> at - snap.read]

(* live_pit_write_is_fresh *)
(* A slip: however old. *)
AnyAge(write, last) == TRUE
WriteIsFresh(write, last) == write.stamp >= last \/ last - write.stamp <= WriteMaxAge

(* The driver's black box asks (dispatch_pit_request). *)
Press(request) ==
    /\ asked < MaxAsked /\ asked' = asked + 1
    /\ Fresh(latest, latest_at) /\ latest.seated
    /\ requests' = Append(requests, Queued(request, latest, latest_at, clock, latest.session))
    /\ UNCHANGED <<worldVars, simVars, frameVars, row, incoming>>

(* A crew member's overlay publishes a PitWrite in the room of the phase. *)
CrewWrites(request) ==
    /\ asked < MaxAsked /\ asked' = asked + 1
    /\ incoming' = IF room = session
                   THEN Append(incoming, [request |-> request, stamp |-> SessionTime,
                                          asked |-> clock, askedIn |-> session])
                   ELSE incoming
    /\ UNCHANGED <<worldVars, simVars, frameVars, requests, row>>

(* ensure_connected: a new phase is a new room. *)
(* A slip: a client stays in its first room. *)
NeverRejoins(snap) == room = 0
MustJoin(snap) == snap.session # room

(* apply_tyre_policy, as the driver enters pit road. *)
PolicyWrites(entering, snap) ==
    IF entering /\ Policy # "none"
    THEN <<[request |-> [op |-> IF Policy = "take" THEN "arm_all" ELSE "clear_all"],
            asked |-> clock, askedIn |-> snap.session]>>
    ELSE <<>>

(* One frame: the waiting snapshot is taken, then TeamSync::update drops what
   lost its authority, joins, drains the first n writes to have arrived and
   applies the policy; apply_team_writes queues what came of it.           *)
Frame(n) ==
    /\ n <= Len(incoming)
    /\ LET snap == IF row = NoSnapshot THEN latest ELSE row
           at == IF row = NoSnapshot THEN latest_at ELSE clock
           fresh == Fresh(snap, at)
           driving == fresh /\ snap.seated
           joining == fresh /\ MustJoin(snap)
           last == IF fresh THEN snap.time ELSE last_session_time
           live == IF driving /\ ~ joining
                   THEN Kept(SubSeq(incoming, 1, n), LAMBDA w : WriteIsFresh(w, last))
                   ELSE <<>>
           entering == driving /\ snap.on_pit_road /\ (joining \/ ~ was_on_pit_road)
           writes == live \o PolicyWrites(entering, snap)
       IN  /\ latest' = snap /\ latest_at' = at /\ row' = NoSnapshot
           /\ last_session_time' = last
           /\ was_on_pit_road' = (fresh /\ snap.on_pit_road)
           /\ room' = IF joining THEN snap.session ELSE room
           /\ incoming' = IF joining THEN <<>> ELSE SubSeq(incoming, n + 1, Len(incoming))
           /\ requests' = requests \o
                [i \in DOMAIN writes |->
                    Queued(writes[i].request, snap, at, writes[i].asked, writes[i].askedIn)]
    /\ UNCHANGED <<worldVars, simVars, asked>>

Next ==
    \/ Second \/ PitEntry \/ PitExit \/ SwapDriver \/ NewPhase \/ Sim \/ Telemetry
    \/ \E request \in Asks : Press(request) \/ CrewWrites(request)
    \/ \E n \in 0 .. MaxAsked : Frame(n)

Spec == Init /\ [][Next]_vars

-------------------------------------------------------------------------------

Requests == [request : TyreRequests, created_at : 0 .. MaxClock, session : 1 .. 2,
             asked : 0 .. MaxClock, askedIn : 1 .. 2, waited : 0 .. MaxClock]
Snapshots == [session : 1 .. 2, seated : BOOLEAN, on_pit_road : BOOLEAN,
              time : 0 .. MaxClock, read : 0 .. MaxClock]

(* The state is well formed: no request is of the future, no session time is
   negative. *)
TypeOK ==
    /\ clock \in 0 .. MaxClock /\ session \in 1 .. 2 /\ began \in 0 .. clock
    /\ {seated, on_pit_road, was_on_pit_road, overlapped} \subseteq BOOLEAN
    /\ armed \subseteq Corners /\ intended \subseteq Corners
    /\ posted \in Seq([op : {"tick", "ClearTires"}, corner : Corners \cup {"all"},
                        of : Requests, at : 0 .. MaxClock, in : 1 .. 2])
    /\ requests \in Seq(Requests)
    /\ row \in Snapshots \cup {NoSnapshot} /\ latest \in Snapshots \cup {NoSnapshot}
    /\ latest_at \in 0 .. clock /\ room \in 0 .. 2
    /\ incoming \in Seq([request : TyreRequests, stamp : 0 .. MaxClock,
                          asked : 0 .. MaxClock, askedIn : 1 .. 2])
    /\ last_session_time \in 0 .. MaxClock /\ asked \in 0 .. MaxAsked

(* A command is sent to the sim no later after it was asked for than the
   three limits allow together and the time its snapshot waited for a frame,
   however the network, the frame loop and the telemetry thread stall: the
   write's age by the clock of that snapshot, the age of the snapshot since
   a frame took it, and the time in the queue (LIVE_PIT_WRITE_MAX_AGE_SECS,
   SNAPSHOT_STALE, QueuedPitRequest).  The wait of the snapshot is counted
   by none of the three: it is stamped on receipt (app.rs 1227-1231).       *)
NeverLate ==
    \A i \in DOMAIN posted :
        posted[i].at - posted[i].of.asked <=
            posted[i].of.waited + WriteMaxAge + (SnapshotStale - 1) + (QueueLife - 1)

(* A request made in one phase of the weekend never reaches the pit menu of
   the next, wherever it was when the phase changed: in the room, in the
   frame loop or in the queue ("phase isolation").                          *)
NeverAcrossPhases == \A i \in DOMAIN posted : posted[i].in = posted[i].of.askedIn

(* While requests come one at a time, each carried out before the next is
   looked at, the pit menu ends up as they say: one corner, "leaving the
   other three as they are" (PitRequest::SetTyre).                          *)
CarriedOut == posted = <<>> /\ ~ overlapped => armed = intended
===============================================================================
