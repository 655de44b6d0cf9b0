------------------------------- MODULE SyncWire -------------------------------
(***************************************************************************)
(* The state of one team-sync room and the frames that cross it            *)
(* (sync/protocol.rs).  SyncRelay and SyncClient give the two sides their  *)
(* steps; SyncTeam composes them.                                          *)
(*                                                                         *)
(* A connection is numbered by the order in which it was dialled.  Its     *)
(* `up` queue is the socket from client to relay; its `down` queue is the  *)
(* relay's outbox channel followed by the socket back, which one thread    *)
(* drains in order.                                                        *)
(***************************************************************************)
EXTENDS Ledger, Sequences

CONSTANTS
    Producers,          \* the members whose overlays queue observations
    ChunkEvents,        \* BACKLOG_CHUNK_EVENTS, 10000 in the code
    MaxConns,           \* bound: connections ever dialled
    MaxObserved         \* bound: observations a member's overlay queues

ASSUME ProducersAssumption == Producers \subseteq Members
ASSUME BoundsAssumption ==
    /\ ChunkEvents \in Nat \ {0}
    /\ MaxConns \in Nat
    /\ MaxObserved \in Nat

VARIABLES
    ledger,     \* the room's ledger, in the relay
    open,       \* connections a relay thread is still serving
    slots,      \* connections registered in the room (Room::clients)
    dialled,    \* dialled[c]: the member at the client end of connection c
    up,         \* up[c]: frames on their way from the client to the relay
    down,       \* down[c]: frames on their way from the relay to the client
    conn,       \* conn[m]: the connection m's thread pumps, 0 while it has none
    phase,      \* phase[m]: how far m's handshake has got (welcomed, caught_up)
    replica,    \* replica[m]: the Ledger of m's client thread
    nextSeq,    \* nextSeq[m]: next_seq of m's connect_once
    discard,    \* discard[m]: discard_buffered_pit_writes
    reoffer,    \* reoffer[m]: what is left of the re-offer loop after a Welcome
    queue,      \* queue[m]: the publish channel into m's client thread
    observed,   \* observed[m]: observations m has queued so far
    live        \* live[m]: pit writes handed to m's overlay as live, in order

relayVars == <<ledger, open, slots>>
wireVars == <<dialled, up, down>>
clientVars == <<conn, phase, replica, nextSeq, discard, reoffer>>
overlayVars == <<queue, observed, live>>
vars == <<relayVars, wireVars, clientVars, overlayVars>>

Phases == {"offline", "joining", "welcomed", "caught_up"}
Kinds == {"measurement", "pit_write"}
Conns == 1 .. MaxConns

(***************************************************************************)
(* An Outgoing and, stamped with producer and seq, an Envelope.  `by` and  *)
(* `n` tell one observation from every other; `during` is the connection   *)
(* that was caught up when the overlay queued it, 0 if there was none.     *)
(***************************************************************************)
Bodies == [by : Members, n : 1 .. MaxObserved, kind : Kinds, during : 0 .. MaxConns]
Envelopes == [producer : Members, seq : Nat \ {0}, body : Bodies]
EnvelopeSets == {S \in SUBSET Envelopes : IsFiniteSet(S)}

(* FromClient *)
Hello(have) == [type |-> "Hello", have |-> have]
Publish(e) == [type |-> "Publish", envelope |-> e]
Recover(e) == [type |-> "Recover", envelope |-> e]

(* FromRelay.  Roster frames only refresh the list of names on screen, and
   Refused belongs to the join (SyncJoin): neither is in this model.       *)
Welcome(have) == [type |-> "Welcome", have |-> have]
Backlog(S) == [type |-> "Backlog", envelopes |-> S]
CaughtUp == [type |-> "CaughtUp"]
Relayed(e) == [type |-> "Relayed", envelope |-> e]
Recovered(e) == [type |-> "Recovered", envelope |-> e]

Haves == [Members -> Nat]
UpFrames ==
    [type : {"Hello"}, have : Haves]
      \cup [type : {"Publish", "Recover"}, envelope : Envelopes]
DownFrames ==
    [type : {"Welcome"}, have : Haves]
      \cup [type : {"Backlog"}, envelopes : EnvelopeSets]
      \cup [type : {"CaughtUp"}]
      \cup [type : {"Relayed", "Recovered"}, envelope : Envelopes]

(* The envelopes a frame carries. *)
Carried(f) ==
    IF f.type = "Backlog" THEN f.envelopes
    ELSE IF f.type \in {"Publish", "Recover", "Relayed", "Recovered"} THEN {f.envelope}
    ELSE {}
InTransit(channel) == UNION {Carried(channel[i]) : i \in DOMAIN channel}

(* The connections a client is still reading: what the relay sends to any
   other connection is read by nobody.                                     *)
Attended(c) == conn[dialled[c]] = c

Init ==
    /\ ledger = {} /\ open = {} /\ slots = {}
    /\ dialled = <<>> /\ up = <<>> /\ down = <<>>
    /\ conn = [m \in Members |-> 0]
    /\ phase = [m \in Members |-> "offline"]
    /\ replica = [m \in Members |-> {}]
    /\ nextSeq = [m \in Members |-> 1]
    /\ discard = [m \in Members |-> TRUE]
    /\ reoffer = [m \in Members |-> {}]
    /\ queue = [m \in Members |-> <<>>]
    /\ observed = [m \in Members |-> 0]
    /\ live = [m \in Members |-> <<>>]
===============================================================================
