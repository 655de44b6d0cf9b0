-------------------------------- MODULE TeamLog -------------------------------
(***************************************************************************)
(* What team sync promises, without relay, sockets or frames: every        *)
(* producer has ONE log that only grows, and every holder (a member's      *)
(* replica, the relay's room) knows a prefix of each producer's log.       *)
(* A holder may lose what it knows; it can then only learn it again.       *)
(***************************************************************************)
EXTENDS Naturals, FiniteSets

CONSTANTS Makers,       \* the members that produce events
          Holders       \* Makers and everyone else who keeps a ledger

VARIABLES log,          \* every event produced: envelopes
          held          \* held[x]: the events x holds

logVars == <<log, held>>

Prefixes(S) ==
    \A e \in S : \A s \in 1 .. e.seq - 1 :
        \E d \in S : d.producer = e.producer /\ d.seq = s

LogInit == log = {} /\ held = [x \in Holders |-> {}]

(* A producer appends the next event of its log and holds it first. *)
Produce(p, e) ==
    /\ e.producer = p
    /\ e.seq = Cardinality({d \in log : d.producer = p}) + 1
    /\ log' = log \cup {e}
    /\ held' = [held EXCEPT ![p] = @ \cup {e}]

(* A holder learns some events it lacked, without making a hole. *)
Learn(x, S) ==
    /\ S \subseteq log
    /\ held' = [held EXCEPT ![x] = @ \cup S]
    /\ Prefixes(held'[x])
    /\ UNCHANGED log

(* Holders other than producers start anew, together if one process is both. *)
Forget(X) ==
    /\ held' = [x \in Holders |-> IF x \in X THEN {} ELSE held[x]]
    /\ UNCHANGED log

LogNext ==
    \/ \E p \in Makers : \E e \in log' \ log : Produce(p, e)
    \/ \E x \in Holders : \E S \in SUBSET log : Learn(x, S)
    \/ \E X \in SUBSET (Holders \ Makers) : Forget(X)

LogSpec == LogInit /\ [][LogNext]_logVars
===============================================================================
