------------------------------ MODULE SyncRuntime -----------------------------
(***************************************************************************)
(* The overlays' side of team sync (sync/runtime.rs): each overlay folds   *)
(* what its client hands up, and what it published itself, into its own    *)
(* TeamState.  The room between them is what SyncTeam establishes of it:   *)
(* every overlay is handed every other's events in the order of their      *)
(* numbers, producers interleaved in any way, some of them again when a    *)
(* restarted relay is repaired, and all of them when it starts anew.       *)
(***************************************************************************)
EXTENDS TeamState, Sequences, SequencesExt

CONSTANTS
    Occurring,      \* bound: the kinds of events there are in a run
    Ties,           \* may two choices be made at one instant of the clock?
    MaxTime,        \* bound: the session clock
    MaxEvents,      \* bound: events in the room
    MaxReplays,     \* bound: events handed up a second time
    MaxRebuilds     \* bound: overlays started anew

ASSUME RuntimeAssumption ==
    /\ Occurring \subseteq Measurements \cup Directives
    /\ Ties \in BOOLEAN
    /\ {MaxTime, MaxEvents, MaxReplays, MaxRebuilds} \subseteq Nat
    /\ MaxTime # 0

VARIABLES
    time,           \* iRacing's session clock, common to all
    driver,         \* the overlay of the seated driver
    lap,            \* the lap the car is on
    sent,           \* sent[m]: the events of m in the room, in order
    handed,         \* handed[m][p]: how many of p's m's client has handed up
    own,            \* own[m]: how many of m's own its replica began without
    incoming,       \* incoming[m]: the channel from m's client
    self_published, \* self_published[m]: choices not yet folded by m itself
    state,          \* state[m]: m's TeamState
    known,          \* known[m]: the events folded into it (for the properties)
    replays, rebuilds   \* counters

roomVars == <<time, driver, lap, sent>>
overlayVars == <<handed, own, incoming, self_published, state, known>>
vars == <<roomVars, overlayVars, replays, rebuilds>>

Init ==
    /\ time = 1 /\ lap = 1 /\ driver \in Overlays
    /\ sent = [m \in Overlays |-> <<>>]
    /\ handed = [m \in Overlays |-> [p \in Overlays |-> 0]]
    /\ own = [m \in Overlays |-> 0]
    /\ incoming = [m \in Overlays |-> <<>>]
    /\ self_published = [m \in Overlays |-> <<>>]
    /\ state = [m \in Overlays |-> Empty]
    /\ known = [m \in Overlays |-> {}]
    /\ replays = 0 /\ rebuilds = 0

Tick ==
    /\ time < MaxTime /\ time' = time + 1
    /\ UNCHANGED <<driver, lap, sent, overlayVars, replays, rebuilds>>

(* Another driver takes the wheel. *)
Swap ==
    /\ driver' \in Overlays \ {driver}
    /\ UNCHANGED <<time, lap, sent, overlayVars, replays, rebuilds>>

Event(m, kind) ==
    [producer |-> m, seq |-> Len(sent[m]) + 1, time |-> time, kind |-> kind,
     lap |-> IF kind = "LapClosed" THEN lap ELSE 0, n |-> Len(sent[m]) + 1]

AllSent == UNION {ToSet(sent[m]) : m \in Overlays}
RoomForOne == Cardinality(AllSent) < MaxEvents

(* publish: a choice made in the overlay's user interface goes to the room
   and is kept for its own state.                                          *)
Choose(m, kind) ==
    /\ RoomForOne
    /\ Ties \/ \A e \in AllSent : e.kind \in Directives => e.time # time
    /\ sent' = [sent EXCEPT ![m] = Append(@, Event(m, kind))]
    /\ self_published' = [self_published EXCEPT ![m] = Append(@, Event(m, kind))]
    /\ UNCHANGED <<time, driver, lap, handed, own, incoming, state, known,
                   replays, rebuilds>>

(* publish_if_driving: what the driver's own overlay measures goes to the
   room only.                                                              *)
Measure(m, kind) ==
    /\ m = driver /\ RoomForOne
    /\ lap' = IF kind = "LapClosed" THEN lap + 1 ELSE lap
    /\ sent' = [sent EXCEPT ![m] = Append(@, Event(m, kind))]
    /\ UNCHANGED <<time, driver, overlayVars, replays, rebuilds>>

(* m's client hands up the next event of p.  Its own are nowhere beyond its
   replica, except those of before it was started anew.                    *)
HandUp(m, p) ==
    /\ handed[m][p] < IF p = m THEN own[m] ELSE Len(sent[p])
    /\ handed' = [handed EXCEPT ![m][p] = @ + 1]
    /\ incoming' = [incoming EXCEPT ![m] = Append(@, sent[p][handed[m][p] + 1])]
    /\ UNCHANGED <<roomVars, own, self_published, state, known, replays, rebuilds>>

(* A repaired relay passes on, as Recovered, what some other overlay q still
   held; m may hold it too.                                                *)
HandUpAgain(m) ==
    /\ replays < MaxReplays /\ replays' = replays + 1
    /\ \E q \in Overlays \ {m}, p \in Overlays : \E i \in DOMAIN sent[p] :
        /\ i <= IF p = m THEN handed[q][m] ELSE handed[m][p]
        /\ incoming' = [incoming EXCEPT ![m] = Append(@, sent[p][i])]
    /\ UNCHANGED <<roomVars, handed, own, self_published, state, known, rebuilds>>

(* update: drain_incoming, then fold_own_writes under seq 0. *)
FoldAll(st, events) ==
    LET upto[i \in 0 .. Len(events)] ==
            IF i = 0 THEN st ELSE Apply(upto[i - 1], events[i])
    IN  upto[Len(events)]
Unnumbered(e) == [e EXCEPT !.seq = 0]
Update(m) ==
    /\ incoming[m] # <<>> \/ self_published[m] # <<>>
    /\ state' = [state EXCEPT ![m] =
        FoldAll(FoldAll(@, incoming[m]),
                [i \in DOMAIN self_published[m] |-> Unnumbered(self_published[m][i])])]
    /\ known' = [known EXCEPT ![m] = @ \cup ToSet(incoming[m]) \cup ToSet(self_published[m])]
    /\ incoming' = [incoming EXCEPT ![m] = <<>>]
    /\ self_published' = [self_published EXCEPT ![m] = <<>>]
    /\ UNCHANGED <<roomVars, handed, own, replays, rebuilds>>

(* ensure_connected_with: a restarted overlay, or one whose sync was turned
   off and on or given a new invite, starts from nothing with a new client. *)
Rebuild(m) ==
    /\ rebuilds < MaxRebuilds /\ rebuilds' = rebuilds + 1
    /\ state' = [state EXCEPT ![m] = Empty]
    /\ known' = [known EXCEPT ![m] = {}]
    /\ incoming' = [incoming EXCEPT ![m] = <<>>]
    /\ self_published' = [self_published EXCEPT ![m] = <<>>]
    /\ handed' = [handed EXCEPT ![m] = [p \in Overlays |-> 0]]
    /\ own' = [own EXCEPT ![m] = Len(sent[m])]
    /\ UNCHANGED <<roomVars, replays>>

Next ==
    \/ Tick \/ Swap
    \/ \E m \in Overlays :
        \/ \E kind \in Directives \cap Occurring : Choose(m, kind)
        \/ \E kind \in Measurements \cap Occurring : Measure(m, kind)
        \/ \E p \in Overlays : HandUp(m, p)
        \/ HandUpAgain(m) \/ Update(m) \/ Rebuild(m)

Spec == Init /\ [][Next]_vars

-------------------------------------------------------------------------------

Events == [producer : Overlays, seq : 0 .. MaxEvents, time : 1 .. MaxTime,
           kind : Directives \cup Measurements, lap : Nat, n : 1 .. MaxEvents]

(* The state is well formed, and no history of laps outgrows LAP_HISTORY. *)
TypeOK ==
    /\ time \in 1 .. MaxTime /\ driver \in Overlays /\ lap \in Nat
    /\ sent \in [Overlays -> Seq(Events)]
    /\ handed \in [Overlays -> [Overlays -> 0 .. MaxEvents]]
    /\ own \in [Overlays -> 0 .. MaxEvents]
    /\ incoming \in [Overlays -> Seq(Events)]
    /\ self_published \in [Overlays -> Seq(Events)]
    /\ state \in [Overlays -> [field : [Fields -> Events \cup {Nothing}],
                               laps : SUBSET Events]]
    /\ \A m \in Overlays : Cardinality(state[m].laps) <= LapHistory
    /\ known \in [Overlays -> SUBSET Events]
    /\ replays \in 0 .. MaxReplays /\ rebuilds \in 0 .. MaxRebuilds

(* The reference: the latest by session clock, producer and number of the
   events known that set a field.                                          *)
Candidates(m, f) == {e \in known[m] : f \in Sets(e)}
Latest(S) == IF S = {} THEN Nothing ELSE CHOOSE e \in S : \A d \in S : NotBefore(e, d)

SameContent(d, e) == d.producer = e.producer /\ d.n = e.n

(* In whatever order events arrived, however often, before or after the
   overlay's own choices, each field has the value of the latest event that
   sets it: "live delivery and replay pick the same latest value" (store.rs).
   While no two choices are made at one instant.                           *)
FieldsAreLatest ==
    \A m \in Overlays, f \in Fields :
        SameContent(state[m].field[f], Latest(Candidates(m, f)))

(* Laps arrive grouped by producer and may overflow the history on the way:
   what is kept is always the newest of the laps known (record_lap).       *)
LapsAreNewest ==
    \A m \in Overlays :
        state[m].laps = Newest({e \in known[m] : e.kind = "LapClosed"}, LapHistory)
===============================================================================
