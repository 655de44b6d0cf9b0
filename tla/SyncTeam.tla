------------------------------- MODULE SyncTeam -------------------------------
(***************************************************************************)
(* One team-sync room: the relay inside the hosting overlay, the members'  *)
(* client threads, the sockets between them and the processes' crashes.    *)
(***************************************************************************)
EXTENDS SyncRelay, SyncClient

CONSTANTS
    Host,           \* the overlay that runs the relay; `--sync-host` has no member
    Crashable,      \* the overlays that may crash and be started again
    Lingering,      \* may frames of a crashed process still reach the relay?
    MaxFaults       \* bound: broken links and crashes in a behaviour

ASSUME TeamAssumption ==
    /\ Host \in Nat /\ Crashable \subseteq Members \cup {Host}
    /\ Lingering \in BOOLEAN /\ MaxFaults \in Nat

VARIABLE faults     \* faults so far

teamVars == <<vars, faults>>

TeamInit == Init /\ faults = 0

(* An overlay dies and is started again: its client thread begins with an
   empty replica and empty channels.  With the host's dies the relay, whose
   ledger is in memory only; what it had sent may still arrive.            *)
Crash(m) ==
    /\ LET cut == IF m = Host THEN Conns
                  ELSE IF Lingering THEN {}
                  ELSE {c \in DOMAIN dialled : dialled[c] = m}
           Anew(f, fresh) == [x \in Members |-> IF x = m THEN fresh ELSE f[x]]
       IN  /\ open' = open \ cut
           /\ slots' = slots \ cut
           /\ up' = [c \in DOMAIN up |-> IF c \in cut THEN <<>> ELSE up[c]]
           /\ down' = [c \in DOMAIN down |-> IF dialled[c] = m THEN <<>> ELSE down[c]]
           /\ ledger' = IF m = Host THEN {} ELSE ledger
           /\ conn' = Anew(conn, 0)
           /\ phase' = Anew(phase, "offline")
           /\ replica' = Anew(replica, {})
           /\ nextSeq' = Anew(nextSeq, 1)
           /\ discard' = Anew(discard, TRUE)
           /\ reoffer' = Anew(reoffer, {})
           /\ queue' = Anew(queue, <<>>)
    /\ UNCHANGED <<dialled, observed, live>>

(* A link breaks and one end of it finds out, by a failed send or read. *)
RelayLosesLink(c) == Attended(c) /\ Hangup(c)
ClientLosesLink(m) == conn[m] # 0 /\ Disconnect(m)

Fault ==
    /\ faults < MaxFaults /\ faults' = faults + 1
    /\ \/ \E c \in open : RelayLosesLink(c)
       \/ \E m \in Members : ClientLosesLink(m)
       \/ \E m \in Crashable : Crash(m)

(* The other end reads what is left in the socket and then its end. *)
RelaySeesEnd(c) == ~ Attended(c) /\ up[c] = <<>> /\ Hangup(c)
ClientSeesEnd(m) ==
    conn[m] \notin open \cup {0} /\ down[conn[m]] = <<>> /\ Disconnect(m)

Serve(c) == ServeHello(c) \/ PumpEnvelope(c) \/ RelaySeesEnd(c)
Pump(m) ==
    \/ PublishNext(m) \/ DrainEmpty(m) \/ ReadFrame(m) \/ ReofferNext(m)
    \/ ClientSeesEnd(m)

Next ==
    \/ Fault
    \/ /\ UNCHANGED faults
       /\ \/ \E c \in open : Serve(c)
          \/ \E m \in Members : Dial(m) \/ Pump(m)
          \/ \E m \in Members, kind \in Kinds : Observe(m, kind)

Spec == TeamInit /\ [][Next]_teamVars

(* Every connection thread of the relay and every client thread is a loop
   that keeps running; nothing is promised of the network, of crashes or of
   what the overlays observe.                                              *)
Fairness ==
    /\ \A c \in Conns : WF_teamVars(c \in open /\ Serve(c) /\ UNCHANGED faults)
    /\ \A m \in Members :
        /\ WF_teamVars(Dial(m) /\ UNCHANGED faults)
        /\ WF_teamVars(Pump(m) /\ UNCHANGED faults)

FairSpec == Spec /\ Fairness

-------------------------------------------------------------------------------

(* The state is well formed: every channel holds frames of its direction
   only, a registered connection is open, and no envelope is unnumbered.   *)
TypeOK ==
    /\ ledger \in EnvelopeSets
    /\ dialled \in Seq(Members) /\ Len(dialled) <= MaxConns
    /\ open \subseteq DOMAIN dialled /\ slots \subseteq open
    /\ up \in [DOMAIN dialled -> Seq(UpFrames)]
    /\ down \in [DOMAIN dialled -> Seq(DownFrames)]
    /\ conn \in [Members -> 0 .. Len(dialled)]
    /\ phase \in [Members -> Phases]
    /\ replica \in [Members -> EnvelopeSets]
    /\ nextSeq \in [Members -> Nat \ {0}]
    /\ discard \in [Members -> BOOLEAN]
    /\ reoffer \in [Members -> SUBSET Envelopes]
    /\ queue \in [Members -> Seq(Bodies)]
    /\ observed \in [Members -> 0 .. MaxObserved]
    /\ live \in [Members -> Seq(Envelopes)]
    /\ faults \in 0 .. MaxFaults

(* Every copy of an event: in a ledger, or on its way to one. *)
Copies ==
    ledger
      \cup (UNION {replica[m] \cup reoffer[m] : m \in Members})
      \cup (UNION {InTransit(up[c]) \cup InTransit(down[c]) : c \in DOMAIN dialled})

(* A producer never numbers two events alike, whatever connections were
   dropped and dialled between them: the pair (producer, seq) names ONE event
   on every machine (protocol.rs Envelope, client.rs "a reconnect can never
   fork its numbering").                                                   *)
OneEventPerNumber ==
    \A d, e \in Copies : d.producer = e.producer /\ d.seq = e.seq => d = e

(* Why it holds while no producer's own process crashes: a producer holds
   everything it ever produced, nothing is anywhere that its producer does
   not hold, and the number a connected producer stamps next is beyond all
   that it holds of its own.                                               *)
StableProducers == Crashable \cap Producers = {}

Produced == UNION {{e \in replica[p] : e.producer = p} : p \in Producers}

Authentic ==
    /\ ledger \subseteq Produced
    /\ \A m \in Members : replica[m] \subseteq Produced /\ reoffer[m] \subseteq Produced
    /\ \A c \in DOMAIN dialled :
        InTransit(up[c]) \subseteq Produced /\ InTransit(down[c]) \subseteq Produced

Numbered(p) ==
    /\ \A d, e \in replica[p] :
        d.producer = p /\ e.producer = p /\ d.seq = e.seq => d = e
    /\ \A e \in replica[p] : conn[p] # 0 /\ e.producer = p => e.seq < nextSeq[p]
    /\ conn[p] = 0 => phase[p] = "offline"

(* The inductive strengthening of OneEventPerNumber, while no producer's
   process crashes (StableProducers).                                      *)
NumberingInv ==
    /\ Authentic
    /\ \A p \in Producers : Numbered(p)
    /\ \A m \in Members \ Producers : queue[m] = <<>>

Ledgers == ledger \cup (UNION {replica[m] : m \in Members})

(* The same of the ledgers alone: "every party keeps the same append-only
   Ledger" (sync/mod.rs).                                                  *)
LedgersAgree ==
    \A d, e \in Ledgers : d.producer = e.producer /\ d.seq = e.seq => d = e

Gapless(L) ==
    \A e \in L : \A s \in 1 .. e.seq - 1 :
        \E d \in L : d.producer = e.producer /\ d.seq = s

(* Neither the relay nor any replica ever has a hole in a producer's
   numbers, so a tip says all there is to say of what its holder lacks
   (Ledger::accepts_relayed, Ledger::tips).                                *)
NoHoles == Gapless(ledger) /\ \A m \in Members : Gapless(replica[m])

(* Nothing slips between the backlog a joiner is sent and the live frames
   that follow it: once a connection is registered, whatever the room's
   ledger holds its member has, or is already on its way down to it
   (serve_connection's one hold of the lock).                              *)
NothingSlips ==
    \A c \in slots : Attended(c) => ledger \subseteq replica[dialled[c]] \cup InTransit(down[c])

(* An event of its own that a member holds and the relay lacks is on its
   way up whenever the member is live: replica.after(have) re-offers what an
   earlier link lost, and the publish path sends the rest.                 *)
NothingStranded ==
    \A m \in Members :
        phase[m] = "caught_up" /\ conn[m] \in open /\ reoffer[m] = {} =>
            replica[m] \subseteq ledger \cup InTransit(up[conn[m]])

(* A pit write goes out live only on the connection that was caught up when
   it was asked for: what waited for a reconnect is dropped, whatever the
   order of drops, dials and the drain of the channel
   (discard_buffered_pit_writes).                                          *)
NoDelayedPitWrites ==
    \A c \in DOMAIN up : \A i \in DOMAIN up[c] :
        up[c][i].type = "Publish" /\ up[c][i].envelope.body.kind = "pit_write" =>
            up[c][i].envelope.body.during = c

(* No overlay is handed the same pit write as live twice, although replicas
   are replayed and connections of one member overlap.                     *)
LiveAtMostOnce == \A m \in Members : \A i, j \in DOMAIN live[m] : i # j => live[m][i] # live[m][j]

Connected == \A m \in Members : conn[m] \in open
Converged == \A m \in Members : replica[m] = ledger /\ queue[m] = <<>>

(* If from some time on every connection stays up, then from some time on
   every replica is the relay's ledger and nothing waits to be published.  *)
Convergence == <>[]Connected => <>[]Converged

(* A producer's log is what its own replica holds of it; the relay (0 is
   nobody's customer id) and the members are the holders.                  *)
Log == INSTANCE TeamLog WITH
    Makers <- Producers,
    Holders <- Members \cup {0},
    log <- Produced,
    held <- [x \in Members \cup {0} |-> IF x = 0 THEN ledger ELSE replica[x]]

(* The room implements the abstract log: every step of relay, client or
   network is a step of TeamLog or leaves log and holders as they are.     *)
ImplementsLog == Log!LogSpec
===============================================================================
