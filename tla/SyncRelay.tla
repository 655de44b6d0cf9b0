------------------------------- MODULE SyncRelay ------------------------------
(***************************************************************************)
(* The relay of a team-sync room (sync/relay.rs): one thread per           *)
(* connection, all of them taking the lock on the room to read or change   *)
(* its ledger and its registered connections.  An action is what a thread  *)
(* does in one hold of that lock.                                          *)
(***************************************************************************)
EXTENDS SyncWire

(* Room::fanout: one frame into the outbox of every registered connection
   but one.                                                                *)
Fanout(from, f) ==
    [c \in DOMAIN down |->
        IF c \in slots \ {from} /\ Attended(c) THEN Append(down[c], f) ELSE down[c]]

(* backlog.chunks(BACKLOG_CHUNK_EVENTS): at least one, perhaps empty. *)
Rank(e, S) == Cardinality({d \in S : Precedes(d, e)})
(* A slip: the last, unfilled chunk is not sent. *)
ChunksButLast(S) ==
    LET last == IF S = {} THEN 0 ELSE (Cardinality(S) - 1) \div ChunkEvents
    IN  [i \in 1 .. last |->
            Backlog({e \in S : Rank(e, S) \div ChunkEvents = i - 1})]
Chunks(S) ==
    LET last == IF S = {} THEN 0 ELSE (Cardinality(S) - 1) \div ChunkEvents
    IN  [i \in 1 .. last + 1 |->
            Backlog({e \in S : Rank(e, S) \div ChunkEvents = i - 1})]

(* serve_connection, from the Hello to the pump: registration, Welcome,
   backlog and CaughtUp under one hold of the lock.                        *)
ServeHello(c) ==
    /\ c \in open \ slots
    /\ up[c] # <<>> /\ Head(up[c]).type = "Hello"
    /\ slots' = slots \cup {c}
    /\ up' = [up EXCEPT ![c] = Tail(@)]
    /\ down' = IF Attended(c)
               THEN [down EXCEPT ![c] =
                        @ \o <<Welcome(Tips(ledger))>>
                          \o Chunks(After(ledger, Head(up[c]).have))
                          \o <<CaughtUp>>]
               ELSE down
    /\ UNCHANGED <<ledger, open, dialled, clientVars, overlayVars>>

(* What the end of a connection's thread leaves: the room and its ledger
   stay, the connection is deregistered and nothing more is read from it.  *)
Deregister(c) ==
    /\ open' = open \ {c}
    /\ slots' = slots \ {c}
    /\ up' = [up EXCEPT ![c] = <<>>]

(* fanout_frame: a re-offered event is history, not news. *)
(* A slip: history goes out as news. *)
AlwaysNews(e, publishing) == Relayed(e)
FanoutFrame(e, publishing) == IF publishing THEN Relayed(e) ELSE Recovered(e)

(* The pump reads one frame: a Publish or a Recover, or the connection ends
   for a second Hello or a Publish in another member's name.               *)
PumpEnvelope(c) ==
    /\ c \in slots /\ up[c] # <<>>
    /\ LET f == Head(up[c])
           e == f.envelope
           publishing == f.type = "Publish"
       IN  IF f.type = "Hello" \/ (publishing /\ e.producer # dialled[c])
           THEN Deregister(c) /\ UNCHANGED <<ledger, down>>
           ELSE /\ up' = [up EXCEPT ![c] = Tail(@)]
                /\ IF AcceptsRelayed(ledger, e) /\ ~ Holds(ledger, e)
                   THEN /\ ledger' = Insert(ledger, e)
                        /\ down' = Fanout(c, FanoutFrame(e, publishing))
                   ELSE UNCHANGED <<ledger, down>>
                /\ UNCHANGED <<open, slots>>
    /\ UNCHANGED <<dialled, clientVars, overlayVars>>

(* The thread of a connection ends: the socket failed, or the client at the
   other end has gone.  Frames of `up` it had not read are lost.           *)
Hangup(c) ==
    /\ c \in open
    /\ Deregister(c)
    /\ UNCHANGED <<ledger, dialled, down, clientVars, overlayVars>>
===============================================================================
