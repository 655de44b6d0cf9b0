---------------------------- MODULE StandingsProofs ----------------------------
(***************************************************************************)
(* Theorems about Standings for any field, any classes and any lengths of  *)
(* the sessions: nobody is dropped or shown twice, clients with different  *)
(* views agree, and laps down are real.                                    *)
(***************************************************************************)
EXTENDS Standings, FiniteSetTheorems, WellFoundedInduction, TLAPS

-------------------------------------------------------------------------------
(* The order of keys, and the places it gives.                             *)

(* A sort key has three parts. *)
Keys == Int \X Int \X Int

(* Keys are totally ordered. *)
LEMMA BeforeIsOrder ==
    ASSUME NEW k \in Keys, NEW l \in Keys
    PROVE  /\ ~ Before(k, k)
           /\ \A m \in Keys : Before(k, l) /\ Before(l, m) => Before(k, m)
           /\ k = l \/ Before(k, l) \/ Before(l, k)
<1>1. ~ Before(k, k)
  BY DEF Before, Keys
<1>2. ASSUME NEW m \in Keys, Before(k, l), Before(l, m) PROVE Before(k, m)
  BY <1>2 DEF Before, Keys
<1>3. k = l \/ Before(k, l) \/ Before(l, k)
  <2>1. k = <<k[1], k[2], k[3]>> /\ l = <<l[1], l[2], l[3]>>
    BY DEF Keys
  <2> QED BY <2>1 DEF Before, Keys
<1> QED BY <1>1, <1>2, <1>3

(* Things told apart by their keys. *)
Keyed(R) ==
    /\ IsFiniteSet(R)
    /\ \A r \in R : r.key \in Keys
    /\ \A r, q \in R : r.key = q.key => r = q

(* Their places are within their number and nobody shares one. *)
LEMMA PlacesDiffer ==
    ASSUME NEW R, Keyed(R), NEW r \in R
    PROVE  /\ Place(R, r) \in 1..Cardinality(R)
           /\ \A q \in R : Place(R, r) = Place(R, q) => r = q
<1> DEFINE Ahead(t) == {u \in R : Before(u.key, t.key)}
<1>1. ASSUME NEW t \in R
      PROVE  /\ Ahead(t) \in SUBSET (R \ {t}) /\ IsFiniteSet(Ahead(t))
             /\ Cardinality(Ahead(t)) \in Nat /\ Cardinality(Ahead(t)) + 1 <= Cardinality(R)
             /\ Cardinality(R) \in Nat
  <2>1. Ahead(t) \in SUBSET (R \ {t})
    BY BeforeIsOrder DEF Keyed
  <2>2. IsFiniteSet(R \ {t}) /\ Cardinality(R \ {t}) = Cardinality(R) - 1
    BY FS_RemoveElement DEF Keyed
  <2>3. IsFiniteSet(Ahead(t)) /\ Cardinality(Ahead(t)) <= Cardinality(R \ {t})
    BY <2>1, <2>2, FS_Subset
  <2>4. Cardinality(Ahead(t)) \in Nat /\ Cardinality(R) \in Nat
    BY <2>3, FS_CardinalityType DEF Keyed
  <2> HIDE DEF Ahead
  <2> QED BY <2>1, <2>2, <2>3, <2>4
<1>2. ASSUME NEW t \in R, NEW u \in R, Before(t.key, u.key) PROVE Cardinality(Ahead(t)) < Cardinality(Ahead(u))
  <2>1. Ahead(t) \in SUBSET Ahead(u)
    <3> SUFFICES ASSUME NEW v \in R, Before(v.key, t.key) PROVE Before(v.key, u.key)
      OBVIOUS
    <3> QED BY <1>2, BeforeIsOrder DEF Keyed
  <2>2. t \in Ahead(u) /\ t \notin Ahead(t)
    BY <1>2, BeforeIsOrder DEF Keyed
  <2>3. Cardinality(Ahead(t)) <= Cardinality(Ahead(u)) /\ Cardinality(Ahead(t)) # Cardinality(Ahead(u))
    <3> HIDE DEF Ahead
    <3> QED BY <2>1, <2>2, <1>1, FS_Subset
  <2> HIDE DEF Ahead
  <2> QED BY <2>3, <1>1
<1>3. ASSUME NEW q \in R, Place(R, r) = Place(R, q) PROVE r = q
  <2>1. Cardinality(Ahead(r)) = Cardinality(Ahead(q))
    <3> HIDE DEF Ahead
    <3>1. Cardinality(Ahead(r)) + 1 = Cardinality(Ahead(q)) + 1
      BY <1>3 DEF Place, Ahead
    <3> QED BY <3>1, <1>1
  <2>2. ~ Before(r.key, q.key) /\ ~ Before(q.key, r.key)
    <3> HIDE DEF Ahead
    <3> QED BY <2>1, <1>1, <1>2
  <2> QED BY <2>2, BeforeIsOrder DEF Keyed
<1>4. Place(R, r) \in 1..Cardinality(R)
  <2> HIDE DEF Ahead
  <2>1. Place(R, r) = Cardinality(Ahead(r)) + 1
    BY DEF Place, Ahead
  <2> QED BY <2>1, <1>1
<1> QED BY <1>3, <1>4

(* So they run from 1 without a gap. *)
LEMMA PlacesRun ==
    ASSUME NEW R, Keyed(R)
    PROVE  {Place(R, r) : r \in R} = 1..Cardinality(R)
<1> DEFINE n == Cardinality(R)
           f == [r \in R |-> Place(R, r)]
<1>1. n \in Nat
  BY FS_CardinalityType DEF Keyed
<1>2. IsFiniteSet(1..n) /\ Cardinality(1..n) = n
  BY <1>1, FS_Interval
<1>3. f \in Injection(R, 1..n)
  BY PlacesDiffer DEF Injection, IsInjective
<1>4. f \in Surjection(R, 1..n)
  <2> HIDE DEF f, n
  <2> QED BY <1>2, <1>3, FS_Injection DEF n
<1>5. \A i \in 1..n : \E r \in R : f[r] = i
  BY <1>4 DEF Surjection
<1>6. \A r \in R : Place(R, r) \in 1..n
  BY PlacesDiffer
<1> QED BY <1>5, <1>6

-------------------------------------------------------------------------------
(* Numbers.                                                                *)

(* A finite set of integers that is not empty has a greatest element. *)
LEMMA MaxIsGreatest ==
    ASSUME NEW S \in SUBSET Int, IsFiniteSet(S), S # {}
    PROVE  Max(S) \in S /\ \A t \in S : t <= Max(S)
<1>1. \E s \in S : \A t \in S : t <= s
  <2> DEFINE Bad == {U \in SUBSET S : U # {} /\ ~ \E s \in U : \A t \in U : t <= s}
  <2>1. SUFFICES ASSUME Bad # {} PROVE FALSE
    OBVIOUS
  <2>2. Bad \subseteq FiniteSubsetsOf(S)
    BY FS_Subset DEF FiniteSubsetsOf
  <2>3. PICK U \in Bad : \A V \in Bad : ~ (<<V, U>> \in StrictSubsetOrdering(S))
    <3> HIDE DEF Bad
    <3> QED BY <2>1, <2>2, FS_StrictSubsetOrderingWellFounded, WFMin
  <2>4. PICK x \in U : TRUE
    OBVIOUS
  <2>5. U \ {x} \notin Bad
    <3>1. <<U \ {x}, U>> \in StrictSubsetOrdering(S)
      BY <2>4 DEF StrictSubsetOrdering
    <3> QED BY <3>1, <2>3
  <2>6. U \ {x} # {}
    <3>1. SUFFICES ASSUME U \ {x} = {} PROVE FALSE
      OBVIOUS
    <3>2. U = {x} /\ x <= x
      BY <2>4, <3>1
    <3> QED BY <3>2, <2>3
  <2>7. PICK s \in U \ {x} : \A t \in U \ {x} : t <= s
    BY <2>5, <2>6
  <2>8. CASE x <= s
    BY <2>7, <2>8, <2>3
  <2>9. CASE s <= x
    <3>1. \A t \in U : t <= x
      BY <2>7, <2>9, <2>4
    <3> QED BY <3>1, <2>4, <2>3
  <2> QED BY <2>7, <2>8, <2>9
<1>2. \E s \in S : \A t \in S : s >= t
  BY <1>1
<1> QED BY <1>2 DEF Max

(* The values of a function on a finite set are finitely many. *)
LEMMA ImageFinite ==
    ASSUME NEW S, IsFiniteSet(S), NEW f, DOMAIN f = S
    PROVE  IsFiniteSet({f[x] : x \in S})
<1> DEFINE T == {f[x] : x \in S}
           g == [x \in S |-> f[x]]
<1>1. g \in Surjection(S, T)
  BY DEF Surjection
<1> HIDE DEF g, T
<1>2. IsFiniteSet(T)
  BY <1>1, FS_Surjection
<1> QED BY <1>2 DEF T

(* Who has driven as far has completed as many laps. *)
LEMMA LapsGrow ==
    ASSUME NEW a \in Nat, NEW b \in Nat, a <= b
    PROVE  a \div Steps \in Nat /\ b \div Steps \in Nat /\ a \div Steps <= b \div Steps
<1> USE StandingsAssumption
<1> DEFINE p == a \div Steps
           q == b \div Steps
<1>1. p \in Nat /\ q \in Nat
  OBVIOUS
<1>2. a = Steps * p + (a % Steps) /\ a % Steps \in 0..(Steps - 1)
  OBVIOUS
<1>3. b = Steps * q + (b % Steps) /\ b % Steps \in 0..(Steps - 1)
  OBVIOUS
<1>4. SUFFICES ASSUME q + 1 <= p PROVE FALSE
  BY <1>1
<1> HIDE DEF p, q
<1>5. Steps * (q + 1) <= Steps * p
  BY <1>1, <1>4
<1> QED BY <1>1, <1>2, <1>3, <1>5

-------------------------------------------------------------------------------
(* The classification.                                                     *)

RowType == [car : Cars, position : Nat, laps : Nat, fastest : Nat, official : BOOLEAN]

(* The field and the results in hand, a row for a car and no lap too many. *)
FieldOK ==
    /\ session \in {"qualifying", "forming", "race"}
    /\ {way, best, score, grid} \subseteq [Cars -> Nat]
    /\ away \subseteq Cars /\ hidden \subseteq Cars
    /\ paper \subseteq [car : Cars, position : Nat, laps : Nat, fastest : Nat, official : {TRUE}]
    /\ IsFiniteSet(paper)
    /\ \A r, q \in paper : r.car = q.car => r = q
    /\ \A r \in paper : r.laps <= Completed(r.car)

LEMMA CompletedIsNat == FieldOK => \A c \in Cars : Completed(c) \in Nat
BY StandingsAssumption DEF FieldOK, Completed

(* The official rows, and the last of their positions. *)
LEMMA OfficialRows ==
    ASSUME FieldOK
    PROVE  /\ IsFiniteSet(Official) /\ Official \subseteq RowType /\ Scored \subseteq Cars
           /\ Max({0} \cup {row.position : row \in Official}) \in Nat
<1>1. Official \in SUBSET paper
  BY DEF Official
<1>2. IsFiniteSet(Official)
  BY <1>1, FS_Subset DEF FieldOK
<1>3. Official \subseteq RowType /\ Scored \subseteq Cars
  BY DEF FieldOK, Official, RowType, Scored
<1>4. Max({0} \cup {row.position : row \in Official}) \in Nat
  <2> DEFINE f == [row \in Official |-> row.position]
             P == {row.position : row \in Official}
  <2>1. P = {f[row] : row \in Official}
    OBVIOUS
  <2>2. IsFiniteSet(P)
    <3> DOMAIN f = Official
      OBVIOUS
    <3> HIDE DEF f, P
    <3> QED BY <1>2, <2>1, ImageFinite
  <2>3. P \subseteq Nat
    BY <1>3 DEF RowType
  <2> HIDE DEF P
  <2>4. IsFiniteSet({0} \cup P) /\ {0} \cup P \in SUBSET Int /\ {0} \cup P # {}
    BY <2>2, <2>3, FS_AddElement
  <2>5. Max({0} \cup P) \in {0} \cup P
    BY <2>4, MaxIsGreatest
  <2>6. \A m \in {0} \cup P : m \in Nat
    BY <2>3
  <2> QED BY <2>5, <2>6 DEF P
<1> QED BY <1>2, <1>3, <1>4

(* The cars put behind: a row for each, with the laps they have driven. *)
LEMMA BehindRows ==
    ASSUME FieldOK, NEW cars \in SUBSET Cars
    PROVE  /\ IsFiniteSet(Behind(cars)) /\ Behind(cars) \subseteq RowType
           /\ \A r, q \in Behind(cars) : r.car = q.car => r = q
           /\ {r.car : r \in Behind(cars)} = cars
           /\ \A r \in Behind(cars) : r.laps = Completed(r.car)
<1> DEFINE last == Max({0} \cup {row.position : row \in Official})
           order == {[car |-> c, key |-> TrackKey(c)] : c \in cars}
           RowAt(t) == [car |-> t.car, position |-> last + Place(order, t), laps |-> Completed(t.car),
                        fastest |-> 0, official |-> FALSE]
           item == [c \in cars |-> [car |-> c, key |-> TrackKey(c)]]
           row == [t \in order |-> RowAt(t)]
<1>1. last \in Nat
  BY OfficialRows
<1>2. IsFiniteSet(cars)
  BY FS_Subset, StandingsAssumption
<1>3. IsFiniteSet(order)
  <2>1. order = {item[c] : c \in cars} /\ DOMAIN item = cars
    OBVIOUS
  <2> HIDE DEF order, item
  <2> QED BY <2>1, <1>2, ImageFinite
<1>4. \A c \in cars : TrackKey(c) \in Keys
  BY StandingsAssumption DEF FieldOK, TrackKey, Keys, Unplaced
<1>5. \A c, d \in cars : TrackKey(c) = TrackKey(d) => c = d
  BY DEF TrackKey
<1>6. Keyed(order)
  BY <1>3, <1>4, <1>5 DEF Keyed
<1>7. \A t \in order : Place(order, t) \in Nat
  <2> HIDE DEF order
  <2> QED BY <1>6, PlacesDiffer
<1>8. Behind(cars) = {row[t] : t \in order} /\ DOMAIN row = order
  BY DEF Behind
<1>9. IsFiniteSet(Behind(cars))
  <2> HIDE DEF row, order
  <2> QED BY <1>3, <1>8, ImageFinite
<1>10. \A r \in Behind(cars) : \E t \in order : r = RowAt(t)
  BY DEF Behind
<1>11. \A t \in order : t.car \in cars /\ t = [car |-> t.car, key |-> TrackKey(t.car)]
  OBVIOUS
<1>12. \A t \in order : RowAt(t) \in RowType
  <2> SUFFICES ASSUME NEW t \in order PROVE RowAt(t) \in RowType
    OBVIOUS
  <2>1. t.car \in Cars /\ last + Place(order, t) \in Nat
    <3> HIDE DEF order, last
    <3> QED BY <1>1, <1>7, <1>11
  <2>2. Completed(t.car) \in Nat
    BY <2>1, CompletedIsNat
  <2> HIDE DEF order, last
  <2> QED BY <2>1, <2>2 DEF RowType
<1>13. Behind(cars) \subseteq RowType
  <2> HIDE DEF RowAt, order
  <2> QED BY <1>10, <1>12
<1>14. \A t \in order : RowAt(t).car = t.car /\ RowAt(t).laps = Completed(t.car)
  OBVIOUS
<1>15. \A r, q \in Behind(cars) : r.car = q.car => r = q
  <2> SUFFICES ASSUME NEW r \in Behind(cars), NEW q \in Behind(cars), r.car = q.car PROVE r = q
    OBVIOUS
  <2> PICK t \in order : r = RowAt(t)
    BY <1>10
  <2> PICK u \in order : q = RowAt(u)
    BY <1>10
  <2>1. t.car = u.car
    BY <1>14
  <2>2. t = u
    <3> HIDE DEF order
    <3> QED BY <2>1, <1>11
  <2> QED BY <2>2
<1>16. \A r \in Behind(cars) : r.car \in cars /\ r.laps = Completed(r.car)
  <2> HIDE DEF RowAt, order
  <2> QED BY <1>10, <1>11, <1>14
<1>17. \A c \in cars : \E r \in Behind(cars) : r.car = c
  <2> SUFFICES ASSUME NEW c \in cars PROVE \E r \in Behind(cars) : r.car = c
    OBVIOUS
  <2>1. item[c] \in order /\ item[c].car = c
    OBVIOUS
  <2>2. RowAt(item[c]) \in Behind(cars)
    BY <2>1 DEF Behind
  <2> HIDE DEF item, order, RowAt
  <2> QED BY <2>1, <2>2, <1>14
<1> QED BY <1>9, <1>13, <1>15, <1>16, <1>17

(* Official rows and the cars in view behind them: a row for each car.     *)
LEMMA MergedRows ==
    ASSUME FieldOK, NEW unseen
    PROVE  /\ IsFiniteSet(Merged(unseen)) /\ Merged(unseen) \subseteq RowType
           /\ \A r, q \in Merged(unseen) : r.car = q.car => r = q
           /\ {r.car : r \in Merged(unseen)} = {c \in Cars : InWorld(c, unseen)} \cup Scored
           /\ \A r \in Merged(unseen) : r.laps <= Completed(r.car) /\ (r \in Official \/ r.laps = Completed(r.car))
<1> DEFINE cars == {c \in Cars \ Scored : InWorld(c, unseen)}
<1>1. Merged(unseen) = Official \cup Behind(cars)
  BY DEF Merged
<1>2. cars \in SUBSET Cars
  OBVIOUS
<1>3. /\ IsFiniteSet(Behind(cars)) /\ Behind(cars) \subseteq RowType
      /\ \A r, q \in Behind(cars) : r.car = q.car => r = q
      /\ {r.car : r \in Behind(cars)} = cars
      /\ \A r \in Behind(cars) : r.laps = Completed(r.car)
  <2> HIDE DEF cars
  <2> QED BY <1>2, BehindRows
<1>4. /\ \A r, q \in Official : r.car = q.car => r = q
      /\ \A r \in Official : r.laps <= Completed(r.car)
      /\ {r.car : r \in Official} = Scored
  BY DEF FieldOK, Official, Scored
<1>5. \A r \in Behind(cars) : r.car \in Cars \ Scored /\ r.laps <= Completed(r.car)
  <2> SUFFICES ASSUME NEW r \in Behind(cars) PROVE r.car \in Cars \ Scored /\ r.laps <= Completed(r.car)
    OBVIOUS
  <2>1. r.car \in cars
    BY <1>3
  <2>2. Completed(r.car) \in Nat
    BY <2>1, CompletedIsNat
  <2> QED BY <2>1, <2>2, <1>3
<1>6. {r.car : r \in Merged(unseen)} = Scored \cup cars
  BY <1>1, <1>3, <1>4
<1>7. Scored \cup cars = {c \in Cars : InWorld(c, unseen)} \cup Scored
  OBVIOUS
<1>8. \A r, q \in Merged(unseen) : r.car = q.car => r = q
  <2> HIDE DEF cars
  <2> QED BY <1>1, <1>3, <1>4, <1>5
<1>9. IsFiniteSet(Merged(unseen)) /\ Merged(unseen) \subseteq RowType
  <2> HIDE DEF cars
  <2>1. IsFiniteSet(Official) /\ Official \subseteq RowType
    BY OfficialRows
  <2>2. IsFiniteSet(Official \cup Behind(cars))
    BY <1>3, <2>1, FS_Union
  <2> QED BY <1>1, <1>3, <2>1, <2>2
<1> HIDE DEF cars
<1>10. \A r \in Merged(unseen) : r.laps <= Completed(r.car) /\ (r \in Official \/ r.laps = Completed(r.car))
  BY <1>1, <1>3, <1>4, <1>5
<1> QED BY <1>6, <1>7, <1>8, <1>9, <1>10

(* What a row is sorted by is a key, and tells it apart. *)
LEMMA RowKeyIsKey ==
    ASSUME FieldOK, NEW unseen, NEW row \in RowType
    PROVE  RowKey(row, unseen) \in Keys /\ RowKey(row, unseen)[3] = row.car
<1>1. row.car \in Cars /\ row.car \in Nat /\ row.position \in Nat /\ row.fastest \in Nat
  BY StandingsAssumption DEF RowType
<1>2. score[row.car] \in Nat /\ best[row.car] \in Nat /\ grid[row.car] \in Nat
  BY <1>1 DEF FieldOK
<1>3. GridSlot(row) \in Int /\ Quickest(row, unseen) \in Int /\ LivePosition(row, unseen) \in Int
  BY <1>1, <1>2 DEF GridSlot, Quickest, LivePosition, Position, BestLap, Unplaced
<1>4. StandingsOrder \in {"Grid", "Quickest", "Scored"}
  BY DEF StandingsOrder
<1> QED BY <1>1, <1>3, <1>4 DEF RowKey, Keys

(* The rows shown: one for each car, renumbered, with the laps merged.     *)
LEMMA ClassifiedRows ==
    ASSUME FieldOK, NEW unseen
    PROVE  LET rows == Classified(unseen)
           IN  /\ Present(rows) = {c \in Cars : InWorld(c, unseen)} \cup Scored
               /\ {row.position : row \in rows} = 1..Cardinality(Present(rows))
               /\ Cardinality(rows) = Cardinality(Present(rows))
               /\ \A r, q \in rows : r.car = q.car => r = q
               /\ \A r \in rows : \E m \in Merged(unseen) : m.car = r.car /\ m.laps = r.laps
<1> DEFINE merged == Merged(unseen)
           item == [row \in merged |-> [of |-> row, key |-> RowKey(row, unseen)]]
           rows == {[of |-> row, key |-> RowKey(row, unseen)] : row \in merged}
           RowAt(r) == [car |-> r.of.car, position |-> Place(rows, r), laps |-> r.of.laps]
           final == Classified(unseen)
           cars == Present(final)
<1>1. /\ IsFiniteSet(merged) /\ merged \subseteq RowType
      /\ \A r, q \in merged : r.car = q.car => r = q
      /\ {r.car : r \in merged} = {c \in Cars : InWorld(c, unseen)} \cup Scored
  BY MergedRows
<1>2. IsFiniteSet(rows)
  <2>1. rows = {item[r] : r \in merged} /\ DOMAIN item = merged
    OBVIOUS
  <2> HIDE DEF rows, item, merged
  <2> QED BY <1>1, <2>1, ImageFinite
<1>3. \A r \in rows : r.of \in merged /\ r.key = RowKey(r.of, unseen) /\ r = [of |-> r.of, key |-> r.key]
  OBVIOUS
<1>4. \A row \in merged : \E r \in rows : r.of = row
  <2> SUFFICES ASSUME NEW row \in merged PROVE \E r \in rows : r.of = row
    OBVIOUS
  <2>1. item[row] \in rows /\ item[row].of = row
    OBVIOUS
  <2> HIDE DEF rows, item
  <2> QED BY <2>1
<1>5. final = {RowAt(r) : r \in rows}
  BY DEF Classified
<1>6. \A r \in rows : RowAt(r).car = r.of.car /\ RowAt(r).laps = r.of.laps /\ RowAt(r).position = Place(rows, r)
  OBVIOUS
<1> HIDE DEF merged, item, rows, RowAt, final
<1>7. \A r, q \in rows : r.of.car = q.of.car => r = q
  <2> SUFFICES ASSUME NEW r \in rows, NEW q \in rows, r.of.car = q.of.car PROVE r = q
    OBVIOUS
  <2>1. r.of = q.of
    BY <1>1, <1>3
  <2> QED BY <2>1, <1>3
<1>8. \A r \in rows : r.key \in Keys /\ r.key[3] = r.of.car
  BY <1>1, <1>3, RowKeyIsKey
<1>9. Keyed(rows)
  BY <1>2, <1>7, <1>8 DEF Keyed
<1>10. \A r, q \in final : r.car = q.car => r = q
  BY <1>5, <1>6, <1>7
<1>11. \A r \in final : \E m \in merged : m.car = r.car /\ m.laps = r.laps
  BY <1>3, <1>5, <1>6
<1>12. cars = {c \in Cars : InWorld(c, unseen)} \cup Scored
  <2>1. cars = {r.car : r \in merged}
    BY <1>3, <1>4, <1>5, <1>6 DEF Present
  <2> QED BY <2>1, <1>1
<1>13. {row.position : row \in final} = {Place(rows, r) : r \in rows}
  BY <1>5, <1>6
<1>14. Cardinality(rows) = Cardinality(cars) /\ Cardinality(final) = Cardinality(rows)
  <2> DEFINE f == [r \in rows |-> r.of.car]
             g == [r \in rows |-> RowAt(r)]
  <2>1. cars = {r.of.car : r \in rows}
    BY <1>5, <1>6 DEF Present
  <2>2. f \in Surjection(rows, cars) /\ f \in Injection(rows, cars)
    BY <2>1, <1>7 DEF Surjection, Injection, IsInjective
  <2>3. g \in Surjection(rows, final) /\ g \in Injection(rows, final)
    BY <1>5, <1>6, <1>7 DEF Surjection, Injection, IsInjective
  <2> HIDE DEF f, g, cars
  <2>4. Cardinality(cars) = Cardinality(rows)
    BY <2>2, <1>2, FS_Surjection
  <2>5. Cardinality(final) = Cardinality(rows)
    BY <2>3, <1>2, FS_Surjection
  <2> QED BY <2>4, <2>5
<1>15. {Place(rows, r) : r \in rows} = 1..Cardinality(rows)
  BY <1>9, PlacesRun
<1> QED BY <1>10, <1>11, <1>12, <1>13, <1>14, <1>15 DEF final, merged

(* With the scorer's latest results in hand, what a client does not render *)
(* makes no difference to what it shows.                                   *)
LEMMA ViewsAgree ==
    ASSUME FieldOK, ResultsAreLatest, NEW unseen
    PROVE  Classified(unseen) = Classified({})
<1>1. ASSUME NEW u PROVE Merged(u) = Official
  <2>1. {c \in Cars \ Scored : InWorld(c, u)} = {}
    BY DEF ResultsAreLatest
  <2>2. Behind({}) = {}
    BY DEF Behind
  <2> QED BY <2>1, <2>2 DEF Merged
<1>2. ASSUME NEW u, NEW row \in Official
      PROVE  RowKey(row, u) = RowKey(row, {})
  <2>1. row \in paper /\ row.position > 0 /\ row.position = score[row.car] /\ row.fastest = best[row.car]
    BY <1>2 DEF Official, ResultsAreLatest
  <2>2. row.official = TRUE /\ row.position \in Nat /\ row.fastest \in Nat
    BY <2>1 DEF FieldOK
  <2>3. LivePosition(row, u) = LivePosition(row, {})
    BY <2>1, <2>2 DEF LivePosition, Position
  <2>4. Quickest(row, u) = Quickest(row, {})
    BY <2>1, <2>2 DEF Quickest, BestLap
  <2> QED BY <2>3, <2>4 DEF RowKey
<1>3. {[of |-> row, key |-> RowKey(row, unseen)] : row \in Official} = {[of |-> row, key |-> RowKey(row, {})] : row \in Official}
  BY <1>2
<1> QED BY <1>1, <1>3 DEF Classified

-------------------------------------------------------------------------------
(* What a row of telemetry leaves behind.                                  *)

(* The latch lies between what was met and what was driven. *)
Latched(known, seen, driven) ==
    /\ seen \in Nat /\ seen <= driven
    /\ \/ known = None /\ seen = 0
       \/ known \in Nat /\ seen <= known /\ known <= driven

(* What is shown is the classification of what the client sees, and the    *)
(* latch of every car lies between what was met of it and what it drove.   *)
StandingsInv ==
    /\ FieldOK /\ upsets \in 0..MaxUpsets
    /\ shown = Classified(hidden)
    /\ latch \in [Cars -> Nat \cup {None}] /\ met \in [Cars -> Nat]
    /\ \A c \in Cars : Latched(latch[c], met[c], Completed(c))
    /\ \A c \in Present(shown) : latch[c] # None

(* The laps a row has of a car, and what was watched of it.                *)
LEMMA LapsAndWatched ==
    FieldOK => \A c \in Cars :
        /\ Watched(c) \in Nat /\ Watched(c) <= Completed(c)
        /\ (c \notin Present(Classified(hidden)) => Watched(c) = 0)
        /\ (c \in Present(Classified(hidden)) =>
              /\ LapsOf(c, Classified(hidden)) \in Nat
              /\ LapsOf(c, Classified(hidden)) <= Completed(c)
              /\ Watched(c) <= LapsOf(c, Classified(hidden)) \/ (InWorld(c, hidden) /\ Watched(c) = Completed(c)))
<1> SUFFICES ASSUME FieldOK, NEW c \in Cars
             PROVE  /\ Watched(c) \in Nat /\ Watched(c) <= Completed(c)
                    /\ (c \notin Present(Classified(hidden)) => Watched(c) = 0)
                    /\ (c \in Present(Classified(hidden)) =>
                          /\ LapsOf(c, Classified(hidden)) \in Nat
                          /\ LapsOf(c, Classified(hidden)) <= Completed(c)
                          /\ Watched(c) <= LapsOf(c, Classified(hidden)) \/ (InWorld(c, hidden) /\ Watched(c) = Completed(c)))
  OBVIOUS
<1> DEFINE rows == Classified(hidden)
           mine == {r \in Official : r.car = c}
           laps == {row.laps : row \in mine}
           live == IF InWorld(c, hidden) THEN {Completed(c)} ELSE {}
           all == {0} \cup laps \cup live
<1>1. Completed(c) \in Nat
  BY CompletedIsNat
<1>2. \A r \in mine : r \in paper /\ r.laps \in Nat /\ r.laps <= Completed(c) /\ r.car = c
  BY DEF Official, FieldOK
<1>3. mine = {} \/ \E r \in mine : mine = {r}
  BY DEF Official, FieldOK
<1>4. laps = {} \/ \E r \in mine : laps = {r.laps}
  BY <1>3
<1>5. IsFiniteSet(all) /\ all \in SUBSET Nat /\ all # {} /\ \A n \in all : n <= Completed(c)
  <2>1. IsFiniteSet(laps) /\ laps \subseteq Nat /\ \A n \in laps : n <= Completed(c)
    <3>1. IsFiniteSet(laps)
      <4> HIDE DEF laps
      <4> QED BY <1>4, FS_EmptySet, FS_Singleton
    <3> QED BY <3>1, <1>2
  <2>2. IsFiniteSet(live) /\ live \subseteq Nat /\ \A n \in live : n <= Completed(c)
    BY <1>1, FS_EmptySet, FS_Singleton
  <2> HIDE DEF laps, live
  <2>3. IsFiniteSet({0} \cup laps)
    BY <2>1, FS_Singleton, FS_Union
  <2>4. IsFiniteSet(all)
    BY <2>2, <2>3, FS_Union
  <2> QED BY <2>1, <2>2, <2>4, <1>1
<1>6. Watched(c) = Max(all)
  BY DEF Watched
<1>7. Max(all) \in all /\ \A n \in all : n <= Max(all)
  <2> HIDE DEF all
  <2>1. all \in SUBSET Int
    BY <1>5
  <2> QED BY <1>5, <2>1, MaxIsGreatest
<1>8. Watched(c) \in Nat /\ Watched(c) <= Completed(c)
  <2> HIDE DEF all
  <2> QED BY <1>5, <1>6, <1>7
<1>9. /\ Present(rows) = {d \in Cars : InWorld(d, hidden)} \cup Scored
      /\ \A r, q \in rows : r.car = q.car => r = q
      /\ \A r \in rows : \E m \in Merged(hidden) : m.car = r.car /\ m.laps = r.laps
  BY ClassifiedRows
<1>10. ASSUME c \notin Present(rows) PROVE Watched(c) = 0
  <2>1. mine = {} /\ ~ InWorld(c, hidden)
    BY <1>9, <1>10 DEF Scored
  <2>2. all = {0}
    BY <2>1
  <2> QED BY <2>2, <1>6, <1>7
<1>11. ASSUME c \in Present(rows)
       PROVE  /\ LapsOf(c, rows) \in Nat /\ LapsOf(c, rows) <= Completed(c)
              /\ Watched(c) <= LapsOf(c, rows) \/ (InWorld(c, hidden) /\ Watched(c) = Completed(c))
  <2>1. PICK r \in rows : r.car = c
    BY <1>11 DEF Present
  <2>2. LapsOf(c, rows) = r.laps
    <3> HIDE DEF rows
    <3> QED BY <2>1, <1>9 DEF LapsOf
  <2>3. PICK m \in Merged(hidden) : m.car = c /\ m.laps = r.laps
    BY <2>1, <1>9
  <2>4. /\ m \in RowType /\ m.laps <= Completed(c) /\ (m \in Official \/ m.laps = Completed(c))
    BY <2>3, MergedRows
  <2>5. m.laps \in Nat
    BY <2>4 DEF RowType
  <2>6. CASE m \in Official
    <3>1. m \in mine
      BY <2>3, <2>6
    <3>2. laps = {m.laps}
      BY <3>1, <1>3
    <3>3. Watched(c) = Max(all) /\ Max(all) \in {0, m.laps} \cup live
      BY <1>6, <1>7, <3>2
    <3>4. Watched(c) \in {0, m.laps} \/ Watched(c) \in live
      BY <3>3
    <3>5. Watched(c) \in live => InWorld(c, hidden) /\ Watched(c) = Completed(c)
      OBVIOUS
    <3> HIDE DEF all, live, rows
    <3>6. LapsOf(c, rows) = m.laps
      BY <2>2, <2>3
    <3> QED BY <2>4, <2>5, <3>4, <3>5, <3>6, <1>8
  <2>7. CASE m.laps = Completed(c)
    <3> HIDE DEF all, rows
    <3>1. LapsOf(c, rows) = Completed(c)
      BY <2>2, <2>3, <2>7
    <3> QED BY <3>1, <1>1, <1>8
  <2> QED BY <2>4, <2>6, <2>7
<1> QED BY <1>8, <1>10, <1>11

(* The greatest of a few. *)
LEMMA MaxOfFew ==
    ASSUME NEW a \in Int, NEW b \in Int, NEW c \in Int, NEW d \in Int
    PROVE  /\ Max({a, b, c, d}) \in {a, b, c, d}
           /\ \A x \in {a, b, c, d} : x <= Max({a, b, c, d})
<1>1. IsFiniteSet({a, b, c, d})
  <2>1. {a, b, c, d} = ({a} \cup {b}) \cup ({c} \cup {d})
    OBVIOUS
  <2>2. \A x, y : IsFiniteSet({x} \cup {y})
    BY FS_Singleton, FS_Union
  <2>3. IsFiniteSet(({a} \cup {b}) \cup ({c} \cup {d}))
    BY <2>2, FS_Union
  <2> QED BY <2>1, <2>3
<1>2. {a, b, c, d} \in SUBSET Int /\ {a, b, c, d} # {}
  OBVIOUS
<1> QED BY <1>1, <1>2, MaxIsGreatest

LEMMA MaxOfTwo ==
    ASSUME NEW a \in Int, NEW b \in Int
    PROVE  Max({a, b}) = IF a >= b THEN a ELSE b
<1>1. {a, b} = {a, b, a, b}
  OBVIOUS
<1>2. Max({a, b}) \in {a, b} /\ \A x \in {a, b} : x <= Max({a, b})
  BY <1>1, MaxOfFew
<1> QED BY <1>2

(* What LapLatch makes of a car that has a row. *)
LEMMA ResolveHolds ==
    ASSUME NEW driven \in Nat, NEW known \in Nat \cup {None}, NEW live \in {driven, None}, NEW fallback \in Nat,
           fallback <= driven, known <= driven
    PROVE  LET n == Resolve(known, live, fallback)
           IN  /\ n \in Nat /\ known <= n /\ n <= driven /\ fallback <= n
               /\ (live = driven => n = driven)
<1> DEFINE seen == IF live >= 0 THEN live ELSE fallback
           n == Max({known, seen, fallback, 0})
<1>1. seen \in Nat /\ seen <= driven /\ (live = driven => seen = driven)
  BY DEF None
<1>2. known \in Int /\ fallback \in Int /\ seen \in Int /\ 0 \in Int
  BY <1>1 DEF None
<1> HIDE DEF seen
<1>3. n \in {known, seen, fallback, 0} /\ \A x \in {known, seen, fallback, 0} : x <= n
  BY ONLY <1>2, MaxOfFew
<1>4. Resolve(known, live, fallback) = n
  BY DEF Resolve, seen
<1> HIDE DEF n
<1>5. known <= n /\ seen <= n /\ fallback <= n /\ 0 <= n
  BY <1>3
<1>6. n \in Nat /\ n <= driven
  BY <1>1, <1>2, <1>3, <1>5
<1> QED BY <1>1, <1>4, <1>5, <1>6

(* What the arrays say of a car's laps: all of them, or nothing. *)
LEMMA LiveLaps ==
    FieldOK => \A c \in Cars : CompletedLive(c) = IF InWorld(c, hidden) THEN Completed(c) ELSE None
<1> SUFFICES ASSUME FieldOK, NEW c \in Cars
             PROVE  CompletedLive(c) = IF InWorld(c, hidden) THEN Completed(c) ELSE None
  OBVIOUS
<1>1. Completed(c) \in Nat
  BY CompletedIsNat
<1>2. Max({Completed(c), 0}) = Completed(c)
  BY <1>1, MaxOfTwo
<1>3. CASE InWorld(c, hidden)
  <2>1. Lap(c, hidden) = Completed(c) + 1 /\ Lap(c, hidden) - 1 = Completed(c) /\ Lap(c, hidden) >= 0
    BY <1>1, <1>3 DEF Lap
  <2> QED BY <2>1, <1>2, <1>3 DEF CompletedLive
<1>4. CASE ~ InWorld(c, hidden)
  <2>1. ~ (Lap(c, hidden) >= 0)
    BY <1>4 DEF Lap, None
  <2> QED BY <2>1, <1>4 DEF CompletedLive
<1> QED BY <1>3, <1>4

(* Only competitors have rows. *)
LEMMA PresentAreCars == FieldOK => Present(Classified(hidden)) \subseteq Cars
<1> SUFFICES ASSUME FieldOK PROVE Present(Classified(hidden)) \subseteq Cars
  OBVIOUS
<1>1. Present(Classified(hidden)) = {c \in Cars : InWorld(c, hidden)} \cup Scored
  BY ClassifiedRows
<1> QED BY <1>1, OfficialRows

(* Every row of telemetry leaves the latch between what was met and what   *)
(* was driven.                                                             *)
LEMMA RowKeeps ==
    ASSUME FieldOK', upsets' \in 0..MaxUpsets, NEW known, NEW seen,
           known \in [Cars -> Nat \cup {None}], seen \in [Cars -> Nat],
           \A c \in Cars : Latched(known[c], seen[c], Completed(c)'),
           Row(known, seen)
    PROVE  StandingsInv'
<1> DEFINE rows == Classified(hidden)'
<1>1. /\ shown' = rows
      /\ latch' = [c \in Cars |-> IF c \in Present(rows) THEN Resolve(known[c], CompletedLive(c)', LapsOf(c, rows))
                                 ELSE known[c]]
      /\ met' = [c \in Cars |-> Max({seen[c], Watched(c)'})]
  BY DEF Row
<1>2. (FieldOK => \A c \in Cars :
        /\ Watched(c) \in Nat /\ Watched(c) <= Completed(c)
        /\ (c \notin Present(Classified(hidden)) => Watched(c) = 0)
        /\ (c \in Present(Classified(hidden)) =>
              /\ LapsOf(c, Classified(hidden)) \in Nat
              /\ LapsOf(c, Classified(hidden)) <= Completed(c)
              /\ Watched(c) <= LapsOf(c, Classified(hidden)) \/ (InWorld(c, hidden) /\ Watched(c) = Completed(c))))'
  BY LapsAndWatched, PTL
<1>3. (FieldOK => \A c \in Cars : CompletedLive(c) = IF InWorld(c, hidden) THEN Completed(c) ELSE None)'
  BY LiveLaps, PTL
<1>4. (FieldOK => \A c \in Cars : Completed(c) \in Nat)'
  BY CompletedIsNat, PTL
<1> HIDE DEF rows
<1>5. ASSUME NEW c \in Cars
      PROVE  /\ latch'[c] \in Nat \cup {None} /\ met'[c] \in Nat
             /\ Latched(latch'[c], met'[c], Completed(c)')
             /\ c \in Present(rows) => latch'[c] # None
  <2> DEFINE k == known[c]
             s == seen[c]
             w == Watched(c)'
             d == Completed(c)'
             live == CompletedLive(c)'
             f == LapsOf(c, rows)
  <2>1. k \in Nat \cup {None} /\ s \in Nat /\ Latched(k, s, d) /\ d \in Nat
    BY <1>4
  <2>2. w \in Nat /\ w <= d /\ (c \notin Present(rows) => w = 0)
    BY <1>2 DEF rows
  <2>3. c \in Present(rows) => f \in Nat /\ f <= d /\ (w <= f \/ (InWorld(c, hidden)' /\ w = d))
    BY <1>2 DEF rows
  <2>4. live = IF InWorld(c, hidden)' THEN d ELSE None
    BY <1>3
  <2>5. met'[c] = Max({s, w}) /\ latch'[c] = IF c \in Present(rows) THEN Resolve(k, live, f) ELSE k
    BY <1>1
  <2> HIDE DEF k, s, w, d, live, f
  <2>6. met'[c] = IF s >= w THEN s ELSE w
    BY <2>1, <2>2, <2>5, MaxOfTwo
  <2>7. CASE c \in Present(rows)
    <3>1. latch'[c] \in Nat /\ k <= latch'[c] /\ latch'[c] <= d /\ f <= latch'[c] /\ (live = d => latch'[c] = d)
      <4>1. live \in {d, None} /\ k <= d /\ f \in Nat /\ f <= d
        BY <2>1, <2>3, <2>4, <2>7 DEF Latched, None
      <4>2. latch'[c] = Resolve(k, live, f)
        BY <2>5, <2>7
      <4>3. /\ Resolve(k, live, f) \in Nat /\ k <= Resolve(k, live, f) /\ Resolve(k, live, f) <= d
            /\ f <= Resolve(k, live, f) /\ (live = d => Resolve(k, live, f) = d)
        BY <4>1, <2>1, ResolveHolds
      <4> QED BY <4>2, <4>3
    <3>2. s <= latch'[c]
      BY <2>1, <3>1 DEF Latched, None
    <3>3. w <= latch'[c]
      BY <2>1, <2>2, <2>3, <2>4, <2>7, <3>1
    <3>4. met'[c] \in Nat /\ met'[c] <= latch'[c] /\ latch'[c] <= d
      BY <2>1, <2>2, <2>6, <3>1, <3>2, <3>3
    <3>5. Latched(latch'[c], met'[c], d)
      BY <2>1, <3>1, <3>4 DEF Latched, None
    <3> QED BY <3>1, <3>4, <3>5 DEF d, None
  <2>8. CASE c \notin Present(rows)
    <3>1. latch'[c] = k /\ met'[c] = s
      BY <2>1, <2>2, <2>5, <2>6, <2>8
    <3> QED BY <2>1, <2>8, <3>1 DEF d
  <2> QED BY <2>7, <2>8 DEF d
<1>6. latch' \in [Cars -> Nat \cup {None}] /\ met' \in [Cars -> Nat]
  BY <1>1, <1>5
<1>7. shown' = Classified(hidden)'
  BY <1>1 DEF rows
<1>8. \A c \in Present(shown') : c \in Cars
  <2>1. (FieldOK => Present(Classified(hidden)) \subseteq Cars)'
    BY PresentAreCars, PTL
  <2> QED BY <2>1, <1>7 DEF Present
<1> QED BY <1>1, <1>5, <1>6, <1>7, <1>8 DEF StandingsInv, rows, Present

-------------------------------------------------------------------------------
(* The steps.                                                              *)

LEMMA CountIsNat ==
    ASSUME NEW S \in SUBSET Cars
    PROVE  IsFiniteSet(S) /\ Cardinality(S) \in Nat
BY StandingsAssumption, FS_Subset, FS_CardinalityType

(* The scorer gives every car a place, or none. *)
LEMMA CrossedPlaces ==
    ASSUME NEW c \in Cars
    PROVE  Crossed(c) \in [Cars -> Nat]
<1> DEFINE Laps(d) == IF d = c THEN Completed(c) + 1 ELSE Completed(d)
           others == {d \in Cars \ {c} : score[d] > 0}
           ahead == {d \in others : Laps(d) >= Laps(c)}
           UpTo(d, cars) == Cardinality({e \in cars : score[e] <= score[d]})
<1>1. others \in SUBSET Cars /\ ahead \in SUBSET Cars /\ others \ ahead \in SUBSET Cars
  OBVIOUS
<1>2. ASSUME NEW d, NEW S \in SUBSET Cars PROVE UpTo(d, S) \in Nat
  <2>1. {e \in S : score[e] <= score[d]} \in SUBSET Cars
    OBVIOUS
  <2> QED BY <2>1, CountIsNat
<1>3. Cardinality(ahead) \in Nat
  BY <1>1, CountIsNat
<1>4. Crossed(c) = [d \in Cars |-> CASE d = c -> Cardinality(ahead) + 1
                         [] d \in ahead -> UpTo(d, ahead)
                         [] d \in others \ ahead -> Cardinality(ahead) + 1 + UpTo(d, others \ ahead)
                         [] OTHER -> 0]
  BY DEF Crossed
<1> HIDE DEF others, ahead, UpTo
<1>5. ASSUME NEW d \in Cars PROVE Crossed(c)[d] \in Nat
  <2>1. UpTo(d, ahead) \in Nat /\ UpTo(d, others \ ahead) \in Nat
    BY <1>1, <1>2
  <2>2. Crossed(c)[d] = CASE d = c -> Cardinality(ahead) + 1
                         [] d \in ahead -> UpTo(d, ahead)
                         [] d \in others \ ahead -> Cardinality(ahead) + 1 + UpTo(d, others \ ahead)
                         [] OTHER -> 0
    BY <1>4
  <2>3. CASE d = c
    BY <2>2, <2>3, <1>3 DEF ahead, others
  <2>4. CASE d # c /\ d \in ahead
    BY <2>1, <2>2, <2>4
  <2>5. CASE d # c /\ d \in others \ ahead
    BY <2>1, <2>2, <2>5, <1>3
  <2>6. CASE d # c /\ d \notin ahead /\ d \notin others \ ahead
    BY <2>2, <2>6
  <2> QED BY <2>3, <2>4, <2>5, <2>6
<1> QED BY <1>4, <1>5

LEMMA ByBestPlaces == ByBest \in [Cars -> Nat]
<1> DEFINE timed == {c \in Cars : best[c] > 0}
           Ahead(d, c) == Before(<<best[d], score[d], d>>, <<best[c], score[c], c>>)
<1>1. ASSUME NEW c PROVE Cardinality({d \in timed : Ahead(d, c)}) + 1 \in Nat
  <2>1. {d \in timed : Ahead(d, c)} \in SUBSET Cars
    OBVIOUS
  <2>2. Cardinality({d \in timed : Ahead(d, c)}) \in Nat
    BY <2>1, CountIsNat
  <2> QED BY <2>2
<1>2. ByBest = [c \in Cars |-> IF c \in timed THEN Cardinality({d \in timed : Ahead(d, c)}) + 1 ELSE 0]
  BY DEF ByBest
<1> HIDE DEF timed, Ahead
<1> QED BY <1>1, <1>2

(* A step that takes nobody back keeps the latch where it belongs. *)
LEMMA StillLatched ==
    ASSUME NEW known, NEW seen, NEW a \in Nat, NEW b \in Nat, a <= b, Latched(known, seen, a)
    PROVE  Latched(known, seen, b)
BY DEF Latched

(* A row of telemetry of a field that drove on. *)
LEMMA StepKeeps ==
    ASSUME StandingsInv, FieldOK', upsets' \in 0..MaxUpsets, Row(latch, met),
           \A c \in Cars : way[c] <= way'[c]
    PROVE  StandingsInv'
<1>1. \A c \in Cars : Latched(latch[c], met[c], Completed(c)')
  <2> SUFFICES ASSUME NEW c \in Cars PROVE Latched(latch[c], met[c], Completed(c)')
    OBVIOUS
  <2>1. way[c] \in Nat /\ way'[c] \in Nat /\ way[c] <= way'[c]
    BY DEF StandingsInv, FieldOK
  <2>2. Completed(c) \in Nat /\ Completed(c)' \in Nat /\ Completed(c) <= Completed(c)'
    BY <2>1, LapsGrow DEF Completed
  <2>3. Latched(latch[c], met[c], Completed(c))
    BY DEF StandingsInv
  <2> QED BY <2>2, <2>3, StillLatched
<1>2. latch \in [Cars -> Nat \cup {None}] /\ met \in [Cars -> Nat]
  BY DEF StandingsInv
<1> QED BY <1>1, <1>2, RowKeeps

LEMMA DriveKeeps ==
    ASSUME StandingsInv, NEW c \in Cars, Drive(c)
    PROVE  StandingsInv'
<1>1. way \in [Cars -> Nat] /\ best \in [Cars -> Nat] /\ score \in [Cars -> Nat]
  BY DEF StandingsInv, FieldOK
<1>2. way' = [way EXCEPT ![c] = @ + 1]
  BY DEF Drive
<1>3. way' \in [Cars -> Nat] /\ \A d \in Cars : way[d] <= way'[d]
  BY <1>1, <1>2
<1>4. best' \in [Cars -> Nat] /\ score' \in [Cars -> Nat]
  <2>1. CASE (way[c] + 1) % Steps # 0
    BY <2>1, <1>1 DEF Drive
  <2>2. CASE (way[c] + 1) % Steps = 0 /\ session = "race"
    BY <2>2, <1>1, CrossedPlaces DEF Drive
  <2>3. CASE (way[c] + 1) % Steps = 0 /\ session # "race"
    <3>1. PICK t \in Times : best' = [best EXCEPT ![c] = IF @ = 0 THEN t ELSE Min({@, t})]
      BY <2>3 DEF Drive
    <3>2. t \in Nat /\ best[c] \in Nat
      BY <1>1, StandingsAssumption
    <3>3. Min({best[c], t}) \in {best[c], t}
      <4>1. \E x \in {best[c], t} : \A y \in {best[c], t} : x <= y
        BY <3>2
      <4> QED BY <4>1 DEF Min
    <3>4. Min({best[c], t}) \in Nat
      BY <3>2, <3>3
    <3>5. best' \in [Cars -> Nat]
      BY <3>1, <3>2, <3>4, <1>1
    <3> QED BY <3>5, <2>3, <1>1 DEF Drive
  <2> QED BY <2>1, <2>2, <2>3
<1>5. \A r \in paper' : r.laps <= Completed(r.car)'
  <2> SUFFICES ASSUME NEW r \in paper PROVE r.laps <= Completed(r.car)'
    BY DEF Drive
  <2>1. r.car \in Cars /\ r.laps \in Nat /\ r.laps <= Completed(r.car)
    BY DEF StandingsInv, FieldOK
  <2>2. way[r.car] \in Nat /\ way'[r.car] \in Nat /\ way[r.car] <= way'[r.car]
    BY <1>1, <1>3, <2>1
  <2>3. Completed(r.car) \in Nat /\ Completed(r.car)' \in Nat /\ Completed(r.car) <= Completed(r.car)'
    BY <2>2, LapsGrow DEF Completed
  <2> QED BY <2>1, <2>3
<1>6. FieldOK'
  BY <1>3, <1>4, <1>5 DEF StandingsInv, FieldOK, Drive
<1> QED BY <1>3, <1>6, StepKeeps DEF Drive, StandingsInv

LEMMA PublishKeeps ==
    ASSUME StandingsInv, Publish
    PROVE  StandingsInv'
<1> DEFINE RowOf(c) == [car |-> c, position |-> score'[c], laps |-> Completed(c), fastest |-> best[c], official |-> TRUE]
           f == [c \in Cars |-> RowOf(c)]
<1>1. paper' = {RowOf(c) : c \in Cars} /\ way' = way /\ best' = best /\ session' = session
  BY DEF Publish
<1>2. score' \in [Cars -> Nat] /\ best \in [Cars -> Nat] /\ way \in [Cars -> Nat]
  BY ByBestPlaces DEF Publish, StandingsInv, FieldOK
<1>3. \A c \in Cars : Completed(c) \in Nat /\ Completed(c)' = Completed(c)
  BY <1>1, CompletedIsNat DEF StandingsInv, Completed
<1>4. IsFiniteSet(paper')
  <2>1. paper' = {f[c] : c \in Cars} /\ DOMAIN f = Cars
    BY <1>1
  <2>2. IsFiniteSet(Cars)
    BY StandingsAssumption
  <2> HIDE DEF f
  <2>3. IsFiniteSet({f[c] : c \in Cars})
    BY <2>1, <2>2, ImageFinite
  <2> QED BY <2>1, <2>3
<1> DEFINE Typed == [car : Cars, position : Nat, laps : Nat, fastest : Nat, official : {TRUE}]
<1>10. ASSUME NEW c \in Cars
       PROVE  RowOf(c) \in Typed /\ RowOf(c).car = c /\ RowOf(c).laps = Completed(c)
  <2>1. score'[c] \in Nat /\ best[c] \in Nat /\ Completed(c) \in Nat
    BY <1>2, <1>3
  <2> QED BY <2>1
<1>11. \A r \in paper' : \E c \in Cars : r = RowOf(c)
  BY <1>1
<1> HIDE DEF RowOf, Typed
<1>5. paper' \subseteq Typed
  BY <1>10, <1>11
<1>6. \A r, q \in paper' : r.car = q.car => r = q
  BY <1>10, <1>11
<1>7. \A r \in paper' : r.laps <= Completed(r.car)'
  BY <1>3, <1>10, <1>11
<1>8. FieldOK'
  BY <1>1, <1>2, <1>4, <1>5, <1>6, <1>7 DEF StandingsInv, FieldOK, Publish, Typed
<1>9. \A c \in Cars : way[c] <= way'[c]
  BY <1>1, <1>2
<1> QED BY <1>8, <1>9, StepKeeps DEF Publish, StandingsInv

(* Cars come and go, and the client looks elsewhere: the field drives no lap. *)
LEMMA AsideKeeps ==
    ASSUME StandingsInv, way' = way, paper' = paper, grid' = grid, best' = best,
           session' \in {"qualifying", "forming", "race"}, score' \in [Cars -> Nat],
           away' \subseteq Cars, hidden' \subseteq Cars, upsets' \in 0..MaxUpsets, Row(latch, met)
    PROVE  StandingsInv'
<1>1. \A c \in Cars : way[c] <= way'[c]
  BY DEF StandingsInv, FieldOK
<1>2. FieldOK'
  BY DEF StandingsInv, FieldOK, Completed
<1> QED BY <1>1, <1>2, StepKeeps

LEMMA LeaveKeeps ==
    ASSUME StandingsInv, NEW c \in Cars, Leave(c) PROVE StandingsInv'
<1>1. score \in [Cars -> Nat] /\ away \subseteq Cars /\ upsets' \in 0..MaxUpsets
  BY StandingsAssumption DEF StandingsInv, FieldOK, Leave
<1> QED BY <1>1, AsideKeeps DEF Leave, StandingsInv, FieldOK

LEMMA ReturnKeeps ==
    ASSUME StandingsInv, NEW c \in Cars, Return(c) PROVE StandingsInv'
<1>1. score \in [Cars -> Nat] /\ away' \subseteq Cars
  BY DEF StandingsInv, FieldOK, Return
<1> QED BY <1>1, AsideKeeps DEF Return, StandingsInv, FieldOK

LEMMA RenderKeeps ==
    ASSUME StandingsInv, NEW unseen \in SUBSET Cars, Render(unseen) PROVE StandingsInv'
<1>1. score \in [Cars -> Nat] /\ upsets' \in 0..MaxUpsets
  BY StandingsAssumption DEF StandingsInv, FieldOK, Render
<1> QED BY <1>1, AsideKeeps DEF Render, StandingsInv, FieldOK

LEMMA GreenKeeps ==
    ASSUME StandingsInv, Green PROVE StandingsInv'
<1>1. score \in [Cars -> Nat]
  BY DEF StandingsInv, FieldOK
<1> QED BY <1>1, AsideKeeps DEF Green, StandingsInv, FieldOK

LEMMA GridUpKeeps ==
    ASSUME StandingsInv, NEW c \in Cars, GridUp(c) PROVE StandingsInv'
<1> DEFINE S == {score[d] : d \in Cars}
<1>1. score \in [Cars -> Nat] /\ away' \subseteq Cars
  BY DEF StandingsInv, FieldOK, GridUp
<1>2. Max(S) \in Nat
  <2>1. S \in SUBSET Nat /\ S # {}
    BY <1>1
  <2>2. IsFiniteSet(Cars) /\ DOMAIN score = Cars
    BY <1>1, StandingsAssumption
  <2>3. IsFiniteSet(S)
    BY <2>2, ImageFinite
  <2> HIDE DEF S
  <2>4. S \in SUBSET Int
    BY <2>1
  <2>5. Max(S) \in S
    BY <2>1, <2>3, <2>4, MaxIsGreatest
  <2> QED BY <2>1, <2>5
<1>3. score' = [score EXCEPT ![c] = Max(S) + 1]
  BY DEF GridUp
<1> HIDE DEF S
<1>4. score' \in [Cars -> Nat]
  BY <1>1, <1>2, <1>3
<1> QED BY <1>1, <1>4, AsideKeeps DEF GridUp, StandingsInv, FieldOK

LEMMA LoadRaceKeeps ==
    ASSUME StandingsInv, LoadRace PROVE StandingsInv'
<1> DEFINE slots(c) == {row.position : row \in {r \in Official : r.car = c}}
<1>1. \A c \in Cars : Max({0} \cup slots(c)) \in Nat
  <2> SUFFICES ASSUME NEW c \in Cars PROVE Max({0} \cup slots(c)) \in Nat
    OBVIOUS
  <2>1. slots(c) = {} \/ \E n \in Nat : slots(c) = {n}
    <3>1. {r \in Official : r.car = c} = {} \/ \E q \in paper : {r \in Official : r.car = c} = {q}
      BY DEF StandingsInv, FieldOK, Official
    <3>2. \A q \in paper : q.position \in Nat
      BY DEF StandingsInv, FieldOK
    <3> QED BY <3>1, <3>2
  <2> HIDE DEF slots
  <2>2. Max({0} \cup slots(c)) \in {0} \cup slots(c)
    <3>1. CASE slots(c) = {}
      <4>1. {0} \cup slots(c) = {0, 0}
        BY <3>1
      <4> QED BY <4>1, MaxOfTwo
    <3>2. ASSUME NEW n \in Nat, slots(c) = {n} PROVE Max({0} \cup slots(c)) \in {0} \cup slots(c)
      <4>1. {0} \cup slots(c) = {0, n}
        BY <3>2
      <4> QED BY <4>1, MaxOfTwo
    <3> QED BY <2>1, <3>1, <3>2
  <2>3. \A n \in {0} \cup slots(c) : n \in Nat
    BY <2>1
  <2> QED BY <2>2, <2>3
<1>2. grid' \in [Cars -> Nat]
  <2>1. grid' = [c \in Cars |-> Max({0} \cup slots(c))]
    BY DEF LoadRace
  <2> HIDE DEF slots
  <2> QED BY <1>1, <2>1
<1>3. Nothing \in [Cars -> Nat] /\ Forgotten \in [Cars -> Nat \cup {None}] /\ IsFiniteSet({})
  BY FS_EmptySet DEF Nothing, Forgotten
<1>4. FieldOK'
  BY <1>2, <1>3 DEF LoadRace, StandingsInv, FieldOK
<1>5. \A c \in Cars : Latched(Forgotten[c], Nothing[c], Completed(c)')
  <2>1. (FieldOK => \A c \in Cars : Completed(c) \in Nat)'
    BY CompletedIsNat, PTL
  <2> QED BY <2>1, <1>4 DEF Latched, Forgotten, Nothing
<1> QED BY <1>3, <1>4, <1>5, RowKeeps DEF LoadRace, StandingsInv

LEMMA StandingsInit == Init => StandingsInv
<1> SUFFICES ASSUME Init PROVE StandingsInv
  OBVIOUS
<1>1. FieldOK
  BY FS_EmptySet DEF Init, FieldOK, Nothing
<1>2. Classified(hidden) = {}
  <2>1. Official = {} /\ {c \in Cars \ Scored : InWorld(c, hidden)} = {}
    BY DEF Init, Official, InWorld
  <2>2. Merged(hidden) = {}
    BY <2>1 DEF Merged, Behind
  <2> QED BY <2>2 DEF Classified
<1>3. \A c \in Cars : Latched(latch[c], met[c], Completed(c))
  BY <1>1, CompletedIsNat DEF Init, Latched, Nothing, Forgotten
<1>4. shown = {} /\ latch \in [Cars -> Nat \cup {None}] /\ met \in [Cars -> Nat] /\ upsets \in 0..MaxUpsets
  BY StandingsAssumption DEF Init, Nothing, Forgotten
<1> QED BY <1>1, <1>2, <1>3, <1>4 DEF StandingsInv, Present

LEMMA StandingsStep == StandingsInv /\ [Next]_vars => StandingsInv'
<1> SUFFICES ASSUME StandingsInv, [Next]_vars PROVE StandingsInv'
  OBVIOUS
<1>1. ASSUME NEW c \in Cars, Drive(c) PROVE StandingsInv'
  BY <1>1, DriveKeeps
<1>2. ASSUME NEW c \in Cars, Leave(c) PROVE StandingsInv'
  BY <1>2, LeaveKeeps
<1>3. ASSUME NEW c \in Cars, Return(c) PROVE StandingsInv'
  BY <1>3, ReturnKeeps
<1>4. ASSUME NEW c \in Cars, GridUp(c) PROVE StandingsInv'
  BY <1>4, GridUpKeeps
<1>5. ASSUME NEW unseen \in {{}} \cup {{c} : c \in Cars}, Render(unseen) PROVE StandingsInv'
  <2>1. unseen \in SUBSET Cars
    OBVIOUS
  <2> QED BY <1>5, <2>1, RenderKeeps
<1>6. CASE Publish
  BY <1>6, PublishKeeps
<1>7. CASE LoadRace
  BY <1>7, LoadRaceKeeps
<1>8. CASE Green
  BY <1>8, GreenKeeps
<1>9. CASE UNCHANGED vars
  <2>1. /\ session' = session /\ way' = way /\ best' = best /\ score' = score /\ away' = away /\ hidden' = hidden
        /\ paper' = paper /\ grid' = grid /\ shown' = shown /\ latch' = latch /\ met' = met /\ upsets' = upsets
    BY <1>9 DEF vars
  <2>2. Official' = Official /\ Scored' = Scored /\ \A c \in Cars : Completed(c)' = Completed(c)
    BY <2>1 DEF Official, Scored, Completed
  <2>3. Merged(hidden)' = Merged(hidden)
    BY <2>1 DEF Merged, InWorld, Behind, Official, Scored, Completed, TrackKey
  <2>4. \A row : RowKey(row, hidden)' = RowKey(row, hidden)
    BY <2>1 DEF RowKey, StandingsOrder, GridSlot, Quickest, LivePosition, Position, BestLap, InWorld
  <2>5. Classified(hidden)' = Classified(hidden)
    BY <2>3, <2>4 DEF Classified
  <2>6. FieldOK'
    BY <2>1, <2>2 DEF StandingsInv, FieldOK
  <2> QED BY <2>1, <2>2, <2>5, <2>6 DEF StandingsInv, Present
<1> QED BY <1>1, <1>2, <1>3, <1>4, <1>5, <1>6, <1>7, <1>8, <1>9 DEF Next

-------------------------------------------------------------------------------
(* What the invariant says.                                                *)

LEMMA InvTypes == StandingsInv => TypeOK
<1> SUFFICES ASSUME StandingsInv PROVE TypeOK
  OBVIOUS
<1>1. Present(shown) \subseteq Cars
  BY PresentAreCars DEF StandingsInv
<1>2. {way, best, score, grid, met} \subseteq [Cars -> Nat]
  BY DEF StandingsInv, FieldOK
<1> QED BY <1>1, <1>2 DEF StandingsInv, FieldOK, TypeOK

LEMMA InvRows == StandingsInv => EveryCarHasItsRow
<1> SUFFICES ASSUME StandingsInv PROVE EveryCarHasItsRow
  OBVIOUS
<1>1. /\ Present(Classified(hidden)) = {c \in Cars : InWorld(c, hidden)} \cup Scored
      /\ {row.position : row \in Classified(hidden)} = 1..Cardinality(Present(Classified(hidden)))
      /\ Cardinality(Classified(hidden)) = Cardinality(Present(Classified(hidden)))
  BY ClassifiedRows DEF StandingsInv
<1>2. shown = Classified(hidden)
  BY DEF StandingsInv
<1> QED BY <1>1, <1>2 DEF EveryCarHasItsRow

LEMMA InvOrder == StandingsInv => TeamSeesOneOrder
<1> SUFFICES ASSUME StandingsInv, ResultsAreLatest PROVE shown = Classified({})
  BY DEF TeamSeesOneOrder
<1>1. Classified(hidden) = Classified({})
  BY ViewsAgree DEF StandingsInv
<1> QED BY <1>1 DEF StandingsInv

LEMMA InvLapsDown == StandingsInv => LapsDownAreReal
<1> SUFFICES ASSUME StandingsInv, NEW c \in Present(shown), \A d \in Classmates(c) : Followed(d)
             PROVE  LapsDown(c) = Max({Completed(d) : d \in Classmates(c)}) - Completed(c)
  BY DEF LapsDownAreReal
<1> DEFINE mates == Classmates(c)
           S == {latch[d] : d \in mates \cap Present(shown)}
           T == {Completed(d) : d \in mates}
           driven == [d \in mates |-> Completed(d)]
           kept == [d \in mates \cap Present(shown) |-> latch[d]]
<1>1. c \in Cars /\ c \in mates /\ mates \in SUBSET Cars
  BY PresentAreCars DEF StandingsInv, Classmates
<1>2. \A d \in mates : Completed(d) \in Nat
  BY <1>1, CompletedIsNat DEF StandingsInv
<1>3. \A d \in mates \cap Present(shown) : latch[d] = Completed(d)
  <2> SUFFICES ASSUME NEW d \in mates, d \in Present(shown) PROVE latch[d] = Completed(d)
    OBVIOUS
  <2>1. Latched(latch[d], met[d], Completed(d)) /\ latch[d] # None /\ met[d] = Completed(d)
    BY <1>1 DEF StandingsInv, Followed
  <2> QED BY <2>1, <1>2 DEF Latched
<1>4. \A d \in mates : d \in Present(shown) \/ Completed(d) = 0
  BY DEF Followed
<1>5. IsFiniteSet(mates) /\ IsFiniteSet(mates \cap Present(shown))
  BY <1>1, FS_Subset, StandingsAssumption
<1>6. IsFiniteSet(T) /\ IsFiniteSet(S)
  <2>1. T = {driven[d] : d \in mates} /\ DOMAIN driven = mates
    OBVIOUS
  <2>2. S = {kept[d] : d \in mates \cap Present(shown)} /\ DOMAIN kept = mates \cap Present(shown)
    OBVIOUS
  <2> HIDE DEF S, T, driven, kept, mates
  <2>3. IsFiniteSet(T)
    BY <2>1, <1>5, ImageFinite
  <2>4. IsFiniteSet(S)
    BY <2>2, <1>5, ImageFinite
  <2> QED BY <2>3, <2>4
<1>7. T \in SUBSET Nat /\ S \in SUBSET Nat /\ T # {} /\ S # {}
  BY <1>1, <1>2, <1>3
<1>8. Max(T) \in T /\ (\A n \in T : n <= Max(T)) /\ Max(S) \in S /\ (\A n \in S : n <= Max(S))
  <2> HIDE DEF S, T
  <2>1. T \in SUBSET Int /\ S \in SUBSET Int
    BY <1>7
  <2> QED BY <2>1, <1>6, <1>7, MaxIsGreatest
<1>9. Max(S) \in Nat /\ Max(T) \in Nat
  <2> HIDE DEF S, T
  <2> QED BY <1>7, <1>8
<1>10. \A n \in S : n \in T
  BY <1>3
<1>11. \A n \in T : n \in S \/ n = 0
  BY <1>3, <1>4
<1>12. Max(S) = Max(T)
  <2> HIDE DEF S, T
  <2>1. Max(S) <= Max(T)
    BY <1>8, <1>10
  <2>2. Max(T) <= Max(S)
    BY <1>8, <1>9, <1>11
  <2> QED BY <2>1, <2>2, <1>9
<1>13. latch[c] = Completed(c)
  BY <1>1, <1>3
<1> QED BY <1>12, <1>13 DEF LapsDown

-------------------------------------------------------------------------------
(* The theorems.                                                           *)

LEMMA StandingsHold == Spec => []StandingsInv
BY StandingsInit, StandingsStep, PTL DEF Spec

(* The rows, the latch and the scorer's books keep their types, and a car  *)
(* with a row has a lap count (build_standings).                           *)
THEOREM StandingsTypeCorrect == Spec => []TypeOK
BY StandingsHold, InvTypes, PTL

(* However results and arrays disagree, a car in view or in the results    *)
(* has one row, and the positions run from 1 (append_unscored, renumber).  *)
THEOREM NobodyIsDropped == Spec => []EveryCarHasItsRow
BY StandingsHold, InvRows, PTL

(* With the scorer's latest results in hand two clients show one order,    *)
(* whatever each of them renders (apply_live_order).                       *)
THEOREM ClientsAgree == Spec => []TeamSeesOneOrder
BY StandingsHold, InvOrder, PTL

(* While every lap of a class was in view or in the results, laps down are *)
(* how far a car is behind, also out of the world (LapLatch::resolve).     *)
THEOREM LapsDownHold == Spec => []LapsDownAreReal
BY StandingsHold, InvLapsDown, PTL
===============================================================================
