------------------------------ MODULE SyncClient ------------------------------
(***************************************************************************)
(* A member's side of team sync (sync/client.rs): the background thread    *)
(* that dials, catches up, publishes and dials again, and the overlay's    *)
(* frame loop filling the publish channel.  The thread's loop first drains *)
(* that channel, once caught up, and then reads one frame; the re-offer    *)
(* after a Welcome sends its envelopes one by one and nothing else.        *)
(***************************************************************************)
EXTENDS SyncWire

(* ws.send on m's connection: into the void once the relay hung up. *)
Send(m, f) ==
    up' = [up EXCEPT ![conn[m]] = IF conn[m] \in open THEN Append(@, f) ELSE @]

(* The overlay queues an observation.  Nothing stops it while offline. *)
Observe(m, kind) ==
    /\ m \in Producers /\ observed[m] < MaxObserved
    /\ observed' = [observed EXCEPT ![m] = @ + 1]
    /\ queue' = [queue EXCEPT ![m] = Append(@,
            [by |-> m, n |-> observed[m] + 1, kind |-> kind,
             during |-> IF phase[m] = "caught_up" THEN conn[m] ELSE 0])]
    /\ UNCHANGED <<relayVars, wireVars, clientVars, live>>

(* connect_once, up to its loop: dial and send the Hello. *)
Dial(m) ==
    /\ conn[m] = 0 /\ Len(dialled) < MaxConns
    /\ LET c == Len(dialled) + 1
       IN  /\ dialled' = Append(dialled, m)
           /\ up' = Append(up, <<Hello(Tips(replica[m]))>>)
           /\ down' = Append(down, <<>>)
           /\ open' = open \cup {c}
           /\ conn' = [conn EXCEPT ![m] = c]
    /\ phase' = [phase EXCEPT ![m] = "joining"]
    /\ nextSeq' = [nextSeq EXCEPT ![m] = NextSeq(replica[m], m)]
    /\ discard' = [discard EXCEPT ![m] = TRUE]
    /\ UNCHANGED <<ledger, slots, replica, reoffer, overlayVars>>

(* publish.try_recv() = Ok: drop a pit write that waited for the connection,
   stamp anything else, keep it, send it.                                  *)
PublishNext(m) ==
    /\ phase[m] = "caught_up" /\ reoffer[m] = {} /\ queue[m] # <<>>
    /\ queue' = [queue EXCEPT ![m] = Tail(@)]
    /\ LET e == [producer |-> m, seq |-> nextSeq[m], body |-> Head(queue[m])]
       IN  IF discard[m] /\ e.body.kind = "pit_write"
           THEN UNCHANGED <<nextSeq, replica, up>>
           ELSE /\ nextSeq' = [nextSeq EXCEPT ![m] = @ + 1]
                /\ replica' = [replica EXCEPT ![m] = Insert(@, e)]
                /\ Send(m, Publish(e))
    /\ UNCHANGED <<relayVars, dialled, down, conn, phase, discard, reoffer,
                   observed, live>>

(* publish.try_recv() = Empty, and the read after it times out. *)
(* A slip: the buffered pit writes count as discarded before the channel is
   empty. *)
DrainAtOnce(m) ==
    /\ phase[m] = "caught_up" /\ reoffer[m] = {} /\ discard[m]
    /\ discard' = [discard EXCEPT ![m] = FALSE]
    /\ UNCHANGED <<relayVars, wireVars, conn, phase, replica, nextSeq, reoffer,
                   overlayVars>>
DrainEmpty(m) ==
    /\ phase[m] = "caught_up" /\ reoffer[m] = {} /\ queue[m] = <<>>
    /\ discard[m]
    /\ discard' = [discard EXCEPT ![m] = FALSE]
    /\ UNCHANGED <<relayVars, wireVars, conn, phase, replica, nextSeq, reoffer,
                   overlayVars>>

(* absorb, for each kind of frame. *)
Absorb(m, f) ==
    \/ /\ f.type = "Welcome"
       /\ nextSeq' = [nextSeq EXCEPT ![m] = IF @ <= f.have[m] THEN f.have[m] + 1 ELSE @]
       /\ UNCHANGED replica
    \/ /\ f.type = "Backlog"
       /\ replica' = [replica EXCEPT ![m] = InsertAll(@, f.envelopes)]
       /\ LET end == NextSeq(replica'[m], m)
          IN  nextSeq' = [nextSeq EXCEPT ![m] = IF @ < end THEN end ELSE @]
    \/ /\ f.type \in {"Relayed", "Recovered"}
       /\ replica' = [replica EXCEPT ![m] = Insert(@, f.envelope)]
       /\ UNCHANGED nextSeq
    \/ /\ f.type = "CaughtUp"
       /\ UNCHANGED <<replica, nextSeq>>

(* ws.read() returns a frame: absorb it, start the re-offer on a Welcome and
   hand the frame up.  A caught-up thread reads only after it has found the
   publish channel empty.                                                  *)
ReadFrame(m) ==
    /\ conn[m] # 0 /\ reoffer[m] = {} /\ down[conn[m]] # <<>>
    /\ phase[m] = "caught_up" => queue[m] = <<>>
    /\ LET f == Head(down[conn[m]])
       IN  /\ down' = [down EXCEPT ![conn[m]] = Tail(@)]
           /\ Absorb(m, f)
           /\ phase' = [phase EXCEPT ![m] =
                IF f.type = "Welcome" THEN "welcomed"
                ELSE IF f.type = "CaughtUp" /\ @ = "welcomed" THEN "caught_up"
                ELSE @]
           /\ reoffer' = [reoffer EXCEPT ![m] =
                IF f.type = "Welcome" THEN After(replica[m], f.have) ELSE {}]
           /\ discard' = [discard EXCEPT ![m] = @ /\ phase[m] # "caught_up"]
           /\ live' = [live EXCEPT ![m] =
                IF f.type = "Relayed" /\ f.envelope.body.kind = "pit_write"
                THEN Append(@, f.envelope) ELSE @]
    /\ UNCHANGED <<relayVars, dialled, up, conn, queue, observed>>

(* One turn of the re-offer loop: the envelopes go out in `after`'s order. *)
(* A slip: only the first envelope is re-offered. *)
ReofferOnce(m) ==
    /\ \E e \in reoffer[m] :
        /\ \A d \in reoffer[m] \ {e} : Precedes(e, d)
        /\ reoffer' = [reoffer EXCEPT ![m] = {}]
        /\ Send(m, Recover(e))
    /\ UNCHANGED <<relayVars, dialled, down, conn, phase, replica, nextSeq,
                   discard, overlayVars>>
ReofferNext(m) ==
    /\ \E e \in reoffer[m] :
        /\ \A d \in reoffer[m] \ {e} : Precedes(e, d)
        /\ reoffer' = [reoffer EXCEPT ![m] = @ \ {e}]
        /\ Send(m, Recover(e))
    /\ UNCHANGED <<relayVars, dialled, down, conn, phase, replica, nextSeq,
                   discard, overlayVars>>

(* connect_once ends with Dropped or NeverConnected, at any point of its
   loop: run keeps the replica, the publish channel fills on.              *)
Disconnect(m) ==
    /\ conn[m] # 0
    /\ down' = [down EXCEPT ![conn[m]] = <<>>]
    /\ conn' = [conn EXCEPT ![m] = 0]
    /\ phase' = [phase EXCEPT ![m] = "offline"]
    /\ reoffer' = [reoffer EXCEPT ![m] = {}]
    /\ UNCHANGED <<relayVars, dialled, up, replica, nextSeq, discard, overlayVars>>
===============================================================================
