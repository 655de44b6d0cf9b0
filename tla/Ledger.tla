-------------------------------- MODULE Ledger --------------------------------
(***************************************************************************)
(* The append-only event log that the relay keeps per room and every       *)
(* client keeps as its replica (sync/ledger.rs).                           *)
(*                                                                         *)
(* The program holds, per producer, a vector of envelopes sorted by seq    *)
(* with no two of the same seq.  Here a ledger is the SET of its           *)
(* envelopes, records with a `producer`, a `seq` and a `body`; the sorted  *)
(* order is recovered by Precedes where a caller depends on it.            *)
(***************************************************************************)
EXTENDS Naturals, FiniteSets

CONSTANTS
    Members,                \* customer ids: the producers there can be
    MaxEventsPerProducer    \* MAX_EVENTS_PER_PRODUCER, 150000 in the code

ASSUME MembersAssumption == Members \subseteq Nat \ {0}
ASSUME BudgetAssumption == MaxEventsPerProducer \in Nat \ {0}

ProducersIn(L) == {e.producer : e \in L}
Seqs(L, p) == {e.seq : e \in {d \in L : d.producer = p}}

(* The pair (producer, seq) names an event: `binary_search_by_key` on seq
   in the producer's vector.                                              *)
Holds(L, e) == \E d \in L : d.producer = e.producer /\ d.seq = e.seq

(* Ledger::insert.  A duplicate of a held name is dropped whatever it says. *)
Insert(L, e) == IF Holds(L, e) THEN L ELSE L \cup {e}

(* Ledger::insert for each envelope of a backlog chunk.  The chunks of one
   sender name every event once, so the order of the inserts is immaterial. *)
InsertAll(L, S) == L \cup {e \in S : ~ Holds(L, e)}

LastSeq(L, p) == CHOOSE s \in Seqs(L, p) : \A t \in Seqs(L, p) : t <= s

(* Ledger::accepts_relayed: only the next number of a producer is new to a
   relay, so that it never makes a hole, and only within the budget.      *)
AcceptsRelayed(L, e) ==
    /\ e.seq # 0
    /\ IF e.producer \notin ProducersIn(L)
       THEN e.seq = 1
       ELSE \/ Holds(L, e)
            \/ /\ Cardinality(Seqs(L, e.producer)) < MaxEventsPerProducer
               /\ e.seq = LastSeq(L, e.producer) + 1

(* Ledger::tips: the highest CONTIGUOUS number held of each producer.  The
   code lists the producers held and reads a missing one as 0.             *)
Tip(L, p) ==
    CHOOSE n \in Seqs(L, p) \cup {0} :
        1 .. n \subseteq Seqs(L, p) /\ n + 1 \notin Seqs(L, p)
Tips(L) == [p \in Members |-> Tip(L, p)]

(* Ledger::after: everything the holder of `have` is missing. *)
(* A slip: the first missing event is skipped. *)
AfterSkipsOne(L, have) == {e \in L : e.seq > have[e.producer] + 1}
After(L, have) == {e \in L : e.seq > have[e.producer]}

(* The order `after` lists them in: by producer, then by number. *)
(* A slip: newest numbers first. *)
NewestFirst(d, e) == \/ d.producer < e.producer
                     \/ d.producer = e.producer /\ d.seq > e.seq
Precedes(d, e) == \/ d.producer < e.producer
                  \/ d.producer = e.producer /\ d.seq < e.seq

(* Ledger::next_seq. *)
(* Slips: numbers that start at 0, and a number given twice. *)
NextSeqFromZero(L, p) == IF p \in ProducersIn(L) THEN LastSeq(L, p) + 1 ELSE 0
NextSeqReused(L, p) == IF p \in ProducersIn(L) THEN LastSeq(L, p) ELSE 1
NextSeq(L, p) == IF p \in ProducersIn(L) THEN LastSeq(L, p) + 1 ELSE 1
===============================================================================
