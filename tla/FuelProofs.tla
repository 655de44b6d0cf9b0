------------------------------ MODULE FuelProofs ------------------------------
(***************************************************************************)
(* The three measurements of a lap's fuel say what they mean, for any      *)
(* lap, burns, fills, window, tank, and however many rows go missing.      *)
(***************************************************************************)
EXTENDS FuelBooks, TLAPS

-------------------------------------------------------------------------------
(* The types of the books.                                                 *)

Cars == [lap : 0 .. MaxLap, pos : 0 .. (Sectors - 1), steps : Nat, secs : Nat, tank : 0 .. Full,
         road : BOOLEAN, burnt : Nat]
Laps == [burn : Int, secs : Nat, truth : [whole : BOOLEAN, burnt : Int]]
Trackers == [last_lap : 0 .. MaxLap, last_level : 0 .. Full, touched : BOOLEAN, sampled : BOOLEAN,
             recent : Seq(Laps), streak : 0 .. (Window - 1)]
Lives == [at : None .. Full, smoothed : None .. Full, last_lap : None .. MaxLap, used : None .. Full,
          whole : BOOLEAN]
Snaps == [lap : 0 .. MaxLap, pos : 0 .. (Sectors - 1), tank : 0 .. Full, road : BOOLEAN, avg : Int,
          mine : BOOLEAN, stale : BOOLEAN]
Sources == [lap : None .. MaxLap, start : None .. Full, crossing : BOOLEAN, had_stop : BOOLEAN]
Drives == [steps : Nat, added : Nat, pits : BOOLEAN]
Types ==
    /\ car \in Cars /\ tracker \in Trackers /\ live \in Lives /\ snap \in Snaps /\ source \in Sources
    /\ driven \in [by : Drives, told : Drives] /\ roads \in [then : BOOLEAN, since : BOOLEAN]
    /\ latest \in Int /\ {seat, gap, late, hidden} \subseteq BOOLEAN

-------------------------------------------------------------------------------
(* The inductive invariant.                                                *)

(* A tracker that missed no row has the car's lap; untouched, it has seen
   the car drive from the line to where it is, and none of it in the pits. *)
TrackerFollows ==
    /\ tracker.last_lap <= car.lap /\ (~ tracker.sampled => tracker.last_lap = 0)
    /\ ~ seat => ~ tracker.sampled
    /\ ~ gap /\ tracker.sampled =>
          /\ tracker.last_lap = car.lap
          /\ ~ tracker.touched => driven.by = [steps |-> car.pos, added |-> 0, pits |-> FALSE]

(* The window: full at most, and each of its ends has a greediest lap.     *)
Greediest(recent, k) ==
    \E i \in k .. Len(recent) : \A j \in k .. Len(recent) : recent[j].burn <= recent[i].burn
WindowHolds ==
    /\ Len(tracker.recent) <= Window
    /\ \A k \in 1 .. Len(tracker.recent) : Greediest(tracker.recent, k)
    /\ tracker.streak > 0 => tracker.recent # <<>>

(* The fuel of the line, for a lap whose rows were all seen.               *)
LineKnown ==
    /\ car.pos = 0 => car.burnt = 0
    /\ ~ gap => live.last_lap \in {None, car.lap}
    /\ ~ gap /\ live.whole /\ live.at # None => live.at = car.tank + car.burnt
    /\ live.used # None => live.at # None /\ live.last_lap # None
    /\ ~ gap /\ live.whole /\ live.used # None => live.used = NotNegative(live.at - car.tank)

(* A snapshot that is not stale shows the car as it is; a frame that sees
   the car in the pits marks the lap.                                      *)
FramesSee ==
    /\ ~ snap.stale => snap.lap = car.lap /\ snap.pos = car.pos /\ snap.tank = car.tank /\ snap.road = car.road
    /\ source.lap <= car.lap /\ (source.lap = None => source = NoSource)
    /\ source.lap # None /\ roads.then => source.had_stop
    /\ source.lap # None /\ driven.told.added > 0 => source.had_stop \/ hidden \/ roads.since
    /\ source.crossing /\ ~ late => driven.told.steps = (car.lap - source.lap) * Sectors + car.pos

FuelInv ==
    /\ Types /\ TrackerFollows /\ WindowHolds /\ LineKnown /\ FramesSee
    /\ record.kind \in {"none", "delta", "average", "guess"}
    /\ PlanFromWholeLaps /\ PlanCoversLastLap /\ RecordsFromWholeLaps

-------------------------------------------------------------------------------
(* The window of laps.                                                     *)

LEMMA Numbers ==
    /\ Sectors \in Nat /\ Sectors > 0 /\ Window \in Nat /\ Window > 0 /\ Full \in Nat /\ Full > 0
    /\ MaxLap \in Nat /\ MaxLap > 0 /\ None = -1
    /\ Burns \subseteq Nat /\ Fills \subseteq Nat
BY FuelBooksAssumption DEF None

LEMMA LapAt ==
    ASSUME NEW recent \in Seq(Laps)
    PROVE  \A i \in 1 .. Len(recent) : recent[i] \in Laps /\ recent[i].burn \in Int
<1>1. \A i \in 1 .. Len(recent) : recent[i] \in Laps
  OBVIOUS
<1>2. \A lap \in Laps : lap.burn \in Int
  BY DEF Laps
<1> QED BY <1>1, <1>2

LEMMA FigureIsMost ==
    ASSUME NEW recent \in Seq(Laps), recent # <<>>, Greediest(recent, 1)
    PROVE  Figure(recent) \in Int /\ \A i \in 1 .. Len(recent) : Figure(recent) >= recent[i].burn
<1>1. PICK i \in 1 .. Len(recent) : \A j \in 1 .. Len(recent) : recent[j].burn <= recent[i].burn
  BY DEF Greediest
<1>2. \A j \in 1 .. Len(recent) : recent[j].burn \in Int
  BY LapAt
<1>3. DOMAIN recent = 1 .. Len(recent)
  OBVIOUS
<1>4. \E x \in Measured(recent) : \A y \in Measured(recent) : x >= y
  <2>1. recent[i].burn \in Measured(recent)
    BY <1>1, <1>3 DEF Measured
  <2>2. \A y \in Measured(recent) : recent[i].burn >= y
    BY <1>1, <1>2, <1>3 DEF Measured
  <2> QED BY <2>1, <2>2
<1>5. Most(Measured(recent)) \in Measured(recent)
      /\ \A y \in Measured(recent) : Most(Measured(recent)) >= y
  BY <1>4 DEF Most
<1>6. Figure(recent) = Most(Measured(recent))
  BY DEF Figure
<1>7. \A j \in 1 .. Len(recent) : recent[j].burn \in Measured(recent)
  BY <1>3 DEF Measured
<1>8. Measured(recent) \subseteq Int
  BY <1>2, <1>3 DEF Measured
<1> QED BY <1>5, <1>6, <1>7, <1>8

LEMMA FigureType ==
    ASSUME NEW recent \in Seq(Laps), \A k \in 1 .. Len(recent) : Greediest(recent, k)
    PROVE  Figure(recent) \in Int
<1>1. CASE recent = <<>>
  BY <1>1, Numbers DEF Figure
<1>2. CASE recent # <<>>
  <2>1. 1 \in 1 .. Len(recent)
    BY <1>2
  <2> QED BY <1>2, <2>1, FigureIsMost
<1> QED BY <1>1, <1>2

LEMMA AppendGreediest ==
    ASSUME NEW recent \in Seq(Laps), NEW lap \in Laps,
           \A k \in 1 .. Len(recent) : Greediest(recent, k)
    PROVE  /\ Append(recent, lap) \in Seq(Laps) /\ Len(Append(recent, lap)) = Len(recent) + 1
           /\ \A k \in 1 .. Len(Append(recent, lap)) : Greediest(Append(recent, lap), k)
<1> DEFINE longer == Append(recent, lap)
           n == Len(recent)
<1>1. longer \in Seq(Laps) /\ Len(longer) = n + 1 /\ n \in Nat /\ longer[n + 1] = lap
      /\ \A i \in 1 .. n : longer[i] = recent[i]
  OBVIOUS
<1>2. lap.burn \in Int /\ \A i \in 1 .. n : recent[i].burn \in Int
  BY LapAt DEF Laps
<1>3. ASSUME NEW k \in 1 .. n + 1
      PROVE  Greediest(longer, k)
  <2>1. CASE k = n + 1
    <3>1. n + 1 \in k .. Len(longer) /\ \A j \in k .. Len(longer) : j = n + 1
      BY <1>1, <2>1
    <3> HIDE DEF longer
    <3> QED BY <1>1, <1>2, <3>1 DEF Greediest
  <2>2. CASE k \in 1 .. n
    <3>1. PICK i \in k .. n : \A j \in k .. n : recent[j].burn <= recent[i].burn
      BY <2>2 DEF Greediest
    <3>2. i \in 1 .. n /\ \A j \in k .. Len(longer) : j \in k .. n \/ j = n + 1
      BY <1>1, <2>2
    <3>3. i \in k .. Len(longer) /\ n + 1 \in k .. Len(longer)
      BY <1>1, <2>2
    <3>4. \A j \in k .. n : j \in 1 .. n
      BY <2>2
    <3>5. CASE recent[i].burn >= lap.burn
      <4>1. \A j \in k .. Len(longer) : longer[j].burn <= longer[i].burn
        BY <1>1, <3>1, <3>2, <3>4, <3>5
      <4> HIDE DEF longer
      <4> QED BY <3>3, <4>1 DEF Greediest
    <3>6. CASE ~ (recent[i].burn >= lap.burn)
      <4>1. \A j \in k .. n : recent[j].burn <= lap.burn
        BY <1>2, <3>1, <3>2, <3>4, <3>6
      <4>2. \A j \in k .. Len(longer) : longer[j].burn <= longer[n + 1].burn
        BY <1>1, <1>2, <3>2, <3>4, <4>1
      <4> HIDE DEF longer
      <4> QED BY <3>3, <4>2 DEF Greediest
    <3> QED BY <3>5, <3>6
  <2> QED BY <1>1, <2>1, <2>2
<1> QED BY <1>1, <1>3

LEMMA TailGreediest ==
    ASSUME NEW recent \in Seq(Laps), recent # <<>>,
           \A k \in 1 .. Len(recent) : Greediest(recent, k)
    PROVE  /\ Tail(recent) \in Seq(Laps) /\ Len(Tail(recent)) = Len(recent) - 1
           /\ \A i \in 1 .. Len(recent) - 1 : Tail(recent)[i] = recent[i + 1]
           /\ \A k \in 1 .. Len(Tail(recent)) : Greediest(Tail(recent), k)
<1> DEFINE shorter == Tail(recent)
           n == Len(recent)
<1>1. shorter \in Seq(Laps) /\ Len(shorter) = n - 1 /\ n \in Nat
      /\ \A i \in 1 .. n - 1 : shorter[i] = recent[i + 1]
  OBVIOUS
<1>2. ASSUME NEW k \in 1 .. n - 1
      PROVE  Greediest(shorter, k)
  <2>1. k + 1 \in 1 .. n
    BY <1>1
  <2>2. PICK i \in (k + 1) .. n : \A j \in (k + 1) .. n : recent[j].burn <= recent[i].burn
    BY <2>1 DEF Greediest
  <2>3. i - 1 \in k .. Len(shorter) /\ i - 1 \in 1 .. n - 1 /\ (i - 1) + 1 = i
    BY <1>1
  <2>4. \A j \in k .. Len(shorter) : j \in 1 .. n - 1 /\ j + 1 \in (k + 1) .. n
    BY <1>1
  <2>5. \A j \in k .. Len(shorter) : shorter[j].burn <= shorter[i - 1].burn
    <3> HIDE DEF shorter
    <3> QED BY <1>1, <2>2, <2>3, <2>4
  <2> HIDE DEF shorter
  <2> QED BY <2>3, <2>5 DEF Greediest
<1> HIDE DEF shorter
<1> QED BY <1>1, <1>2 DEF shorter

(* What record makes of the window, and of a lap: the lap is in it, or the
   window stays as it is and the lap burnt no more than its figure.        *)
Holds(t) ==
    /\ Len(t.recent) <= Window
    /\ \A k \in 1 .. Len(t.recent) : Greediest(t.recent, k)
    /\ t.streak > 0 => t.recent # <<>>
ComesFrom(recent, before, lap) ==
    \A i \in 1 .. Len(recent) : recent[i] = lap \/ \E j \in 1 .. Len(before) : recent[i] = before[j]

LEMMA AdmitEffect ==
    ASSUME NEW t \in Trackers, Holds(t), NEW lap \in Laps
    PROVE  /\ Admit(t, lap) \in Trackers /\ Holds(Admit(t, lap))
           /\ ComesFrom(Admit(t, lap).recent, t.recent, lap)
           /\ Admit(t, lap).recent # <<>> /\ Figure(Admit(t, lap).recent) >= lap.burn
<1>1. t.recent \in Seq(Laps) /\ t.streak \in 0 .. (Window - 1)
  BY DEF Trackers
<1>2. Window \in Nat /\ Window > 0 /\ lap.burn \in Int
  BY Numbers DEF Laps

<1>4. CASE ~ OffPace(t.recent, lap)
  <2> DEFINE kept == IF Len(t.recent) >= Window THEN Tail(t.recent) ELSE t.recent
             longer == Append(kept, lap)
  <2>1. /\ kept \in Seq(Laps) /\ Len(kept) < Window
        /\ \A k \in 1 .. Len(kept) : Greediest(kept, k)
        /\ \A i \in 1 .. Len(kept) : \E j \in 1 .. Len(t.recent) : kept[i] = t.recent[j]
    <3>1. CASE Len(t.recent) >= Window
      <4>1. t.recent # <<>>
        BY <1>1, <1>2, <3>1
      <4>2. /\ Tail(t.recent) \in Seq(Laps) /\ Len(Tail(t.recent)) = Len(t.recent) - 1
            /\ \A i \in 1 .. Len(t.recent) - 1 : Tail(t.recent)[i] = t.recent[i + 1]
            /\ \A k \in 1 .. Len(Tail(t.recent)) : Greediest(Tail(t.recent), k)
        BY <1>1, <4>1, TailGreediest DEF Holds
      <4>3. \A i \in 1 .. Len(t.recent) - 1 : i + 1 \in 1 .. Len(t.recent)
        BY <1>1
      <4>4. kept = Tail(t.recent) /\ Len(t.recent) <= Window
        BY <3>1 DEF Holds
      <4> HIDE DEF kept
      <4> QED BY <1>1, <1>2, <4>2, <4>3, <4>4
    <3>2. CASE ~ (Len(t.recent) >= Window)
      BY <1>1, <1>2, <3>2 DEF Holds
    <3> QED BY <3>1, <3>2
  <2>2. /\ longer \in Seq(Laps) /\ Len(longer) = Len(kept) + 1
        /\ \A k \in 1 .. Len(longer) : Greediest(longer, k)
    <3> HIDE DEF kept
    <3> QED BY <2>1, AppendGreediest
  <2>3. longer # <<>> /\ 1 \in 1 .. Len(longer) /\ longer[Len(longer)] = lap /\ Len(longer) <= Window
        /\ Len(longer) \in 1 .. Len(longer)
        /\ \A i \in 1 .. Len(longer) : longer[i] = lap \/ (i \in 1 .. Len(kept) /\ longer[i] = kept[i])
    <3>1. Len(kept) \in Nat /\ kept \in Seq(Laps) /\ Len(kept) < Window
      BY <2>1
    <3> HIDE DEF kept
    <3>2. longer[Len(kept) + 1] = lap /\ \A i \in 1 .. Len(kept) : longer[i] = kept[i]
      BY <3>1
    <3>3. Len(longer) = Len(kept) + 1 /\ longer # <<>>
      BY <2>2, <3>1
    <3> HIDE DEF longer
    <3>4. \A i \in 1 .. Len(longer) : i = Len(kept) + 1 \/ i \in 1 .. Len(kept)
      BY <3>1, <3>3
    <3>5. longer[Len(longer)] = lap
      BY <3>2, <3>3
    <3>6. Len(longer) \in Nat /\ Len(longer) <= Window /\ Len(longer) >= 1
      BY <1>2, <3>1, <3>3
    <3>7. ASSUME NEW i \in 1 .. Len(longer)
          PROVE  longer[i] = lap \/ (i \in 1 .. Len(kept) /\ longer[i] = kept[i])
      <4>1. CASE i = Len(kept) + 1
        BY <3>2, <4>1
      <4>2. CASE i \in 1 .. Len(kept)
        BY <3>2, <4>2
      <4> QED BY <3>4, <4>1, <4>2
    <3> QED BY <3>3, <3>5, <3>6, <3>7
  <2>4. Figure(longer) >= lap.burn
    <3> HIDE DEF longer
    <3> QED BY <2>2, <2>3, FigureIsMost
  <2>5. ComesFrom(longer, t.recent, lap)
    <3> HIDE DEF kept, longer
    <3> QED BY <2>1, <2>3 DEF ComesFrom
  <2>6. Admit(t, lap) = [t EXCEPT !.streak = 0, !.recent = longer]
    BY <1>4, <1>1 DEF Admit, Trackers
  <2>7. /\ Admit(t, lap) \in Trackers /\ Admit(t, lap).recent = longer /\ Admit(t, lap).streak = 0
    <3>1. 0 \in 0 .. (Window - 1)
      BY <1>2
    <3> HIDE DEF longer
    <3> QED BY <2>2, <2>6, <3>1 DEF Trackers
  <2>8. Holds(Admit(t, lap))
    <3> HIDE DEF longer, kept
    <3> QED BY <2>2, <2>3, <2>7 DEF Holds
  <2> HIDE DEF longer
  <2> QED BY <2>3, <2>4, <2>5, <2>7, <2>8
<1>5. CASE OffPace(t.recent, lap) /\ t.streak + 1 < Window
  <2>1. Admit(t, lap) = [t EXCEPT !.streak = @ + 1]
    BY <1>5 DEF Admit
  <2>2. Admit(t, lap) \in Trackers /\ Admit(t, lap).recent = t.recent
    BY <1>1, <1>2, <1>5, <2>1 DEF Trackers
  <2>3. t.recent # <<>> /\ Figure(t.recent) > lap.burn
    <3>1. Timed(t.recent) # {} /\ lap.burn < Figure(t.recent)
      BY <1>5 DEF OffPace
    <3>3. t.recent # <<>>
      BY <3>1 DEF Timed
    <3>2. Figure(t.recent) \in Int
      BY <1>1, FigureType DEF Holds
    <3> QED BY <1>2, <3>1, <3>2, <3>3
  <2>4. Figure(t.recent) \in Int
    BY <1>1, FigureType DEF Holds
  <2>5. ComesFrom(t.recent, t.recent, lap)
    BY DEF ComesFrom
  <2> QED BY <1>2, <2>2, <2>3, <2>4, <2>5 DEF Holds
<1>6. CASE OffPace(t.recent, lap) /\ ~ (t.streak + 1 < Window)
  <2> DEFINE alone == <<lap>>
  <2>1. Admit(t, lap) = [t EXCEPT !.streak = 0, !.recent = alone]
    BY <1>6 DEF Admit
  <2>2. alone \in Seq(Laps) /\ Len(alone) = 1 /\ alone # <<>> /\ alone[1] = lap
    OBVIOUS
  <2>3. \A k \in 1 .. Len(alone) : Greediest(alone, k)
    <3> HIDE DEF alone
    <3> QED BY <1>2, <2>2 DEF Greediest
  <2>4. Admit(t, lap) \in Trackers /\ Admit(t, lap).recent = alone /\ Admit(t, lap).streak = 0
    <3>1. 0 \in 0 .. (Window - 1)
      BY <1>2
    <3> HIDE DEF alone
    <3> QED BY <2>1, <2>2, <3>1 DEF Trackers
  <2>5. Figure(alone) >= lap.burn
    <3> HIDE DEF alone
    <3> QED BY <2>2, <2>3, FigureIsMost
  <2>6. ComesFrom(alone, t.recent, lap)
    <3> HIDE DEF alone
    <3> QED BY <2>2 DEF ComesFrom
  <2>7. Holds(Admit(t, lap))
    <3>1. Len(alone) <= Window
      BY <1>2
    <3> HIDE DEF alone
    <3> QED BY <2>2, <2>3, <2>4, <3>1 DEF Holds
  <2> HIDE DEF alone
  <2> QED BY <2>2, <2>4, <2>5, <2>6, <2>7
<1> QED BY <1>4, <1>5, <1>6

-------------------------------------------------------------------------------
(* A row, as FuelTracker and LapFuelUse take it.                           *)

Truths == [whole : BOOLEAN, burnt : Int]
Judged(t, c, truth) == [burn |-> t.last_level - c.tank, secs |-> c.secs, truth |-> truth]

LEMMA CarParts ==
    ASSUME NEW c \in Cars
    PROVE  /\ c.lap \in 0 .. MaxLap /\ c.lap \in Nat /\ c.pos \in 0 .. (Sectors - 1) /\ c.pos \in Nat
           /\ c.tank \in 0 .. Full /\ c.tank \in Nat /\ c.secs \in Nat /\ c.burnt \in Nat /\ c.road \in BOOLEAN
BY Numbers DEF Cars

LEMMA TrackerParts ==
    ASSUME NEW t \in Trackers
    PROVE  /\ t.last_lap \in 0 .. MaxLap /\ t.last_lap \in Nat /\ t.last_level \in Nat
           /\ t.touched \in BOOLEAN /\ t.sampled \in BOOLEAN
           /\ t.recent \in Seq(Laps) /\ t.streak \in 0 .. (Window - 1)
BY Numbers DEF Trackers

LEMMA InterruptedEffect ==
    ASSUME NEW t \in Trackers, Holds(t)
    PROVE  /\ Interrupted(t) \in Trackers /\ Holds(Interrupted(t))
           /\ Interrupted(t).recent = t.recent /\ Interrupted(t).last_lap = 0 /\ ~ Interrupted(t).sampled
<1>1. 0 \in 0 .. MaxLap /\ 0 \in 0 .. Full
  BY Numbers
<1>2. Interrupted(t) \in Trackers /\ Interrupted(t).recent = t.recent /\ Interrupted(t).last_lap = 0
      /\ Interrupted(t).streak = t.streak
  BY <1>1 DEF Interrupted, Trackers
<1>3. Interrupted(t).sampled = FALSE
  BY DEF Interrupted, Trackers
<1> QED BY <1>2, <1>3 DEF Holds

(* The tracker after a row has the car's lap; untouched, it was there for
   the line and saw no pit road since.                                     *)
Follows(o, t, c, truth) ==
    /\ o \in Trackers /\ Holds(o) /\ o.last_lap = c.lap /\ o.sampled
    /\ ~ o.touched => t.sampled /\ ~ c.road /\ (c.lap = t.last_lap => ~ t.touched)
    /\ ~ Eligible(t, c) => o.recent = t.recent
    /\ Eligible(t, c) => /\ ComesFrom(o.recent, t.recent, Judged(t, c, truth)) /\ o.recent # <<>>
                         /\ Figure(o.recent) >= t.last_level - c.tank

LEMMA ObservedEffect ==
    ASSUME NEW t \in Trackers, Holds(t), NEW c \in Cars, NEW truth \in Truths
    PROVE  Follows(Observed(t, c, truth), t, c, truth)
<1>1. /\ t.last_lap \in Nat /\ t.last_level \in Nat /\ c.lap \in 0 .. MaxLap /\ c.lap \in Nat
      /\ c.tank \in 0 .. Full /\ c.tank \in Nat /\ c.secs \in Nat
  BY CarParts, TrackerParts
<1> DEFINE n == Counted(t, c, truth)
           o == Observed(t, c, truth)
<1>2. Judged(t, c, truth) \in Laps /\ Judged(t, c, truth).burn = t.last_level - c.tank
  BY <1>1 DEF Judged, Laps, Truths
<1>3. Eligible(t, c) => c.lap # t.last_lap
  BY <1>1 DEF Eligible, NextLap
<1>4. ASSUME NEW b \in BOOLEAN
      PROVE  /\ [t EXCEPT !.touched = b] \in Trackers /\ [t EXCEPT !.touched = b].recent = t.recent
             /\ [t EXCEPT !.touched = b].last_lap = t.last_lap /\ [t EXCEPT !.touched = b].streak = t.streak
             /\ [t EXCEPT !.touched = b].touched = b
  BY DEF Trackers
<1>5. /\ n \in Trackers /\ Holds(n) /\ n.last_lap = c.lap /\ n.touched \in BOOLEAN
      /\ ~ n.touched => ~ c.road /\ (c.lap = t.last_lap => ~ t.touched)
      /\ ~ Eligible(t, c) => n.recent = t.recent
      /\ Eligible(t, c) => /\ ComesFrom(n.recent, t.recent, Judged(t, c, truth)) /\ n.recent # <<>>
                           /\ Figure(n.recent) >= t.last_level - c.tank
  <2>1. CASE c.lap = t.last_lap
    <3> DEFINE b == t.touched \/ c.road
    <3>1. b \in BOOLEAN
      BY Zenon
    <3>2. n = [t EXCEPT !.touched = b]
      BY <2>1 DEF Counted
    <3>3. /\ n \in Trackers /\ n.recent = t.recent /\ n.last_lap = t.last_lap /\ n.streak = t.streak
          /\ n.touched = b
      <4> HIDE DEF b, n
      <4> QED BY <1>4, <3>1, <3>2
    <3>4. ~ n.touched => ~ c.road /\ ~ t.touched
      <4>1. n.touched = (t.touched \/ c.road)
        BY <3>3
      <4> HIDE DEF n
      <4> QED BY <4>1, Zenon
    <3>5. Holds(n)
      <4> HIDE DEF n
      <4> QED BY <3>3 DEF Holds
    <3>6. n.touched \in BOOLEAN
      BY <3>1, <3>3
    <3> HIDE DEF n
    <3> QED BY <1>3, <2>1, <3>3, <3>4, <3>5, <3>6
  <2>2. CASE c.lap # t.last_lap
    <3> DEFINE x == IF Eligible(t, c) THEN Admit(t, Judged(t, c, truth)) ELSE t
    <3>1. n = [x EXCEPT !.last_lap = c.lap, !.last_level = c.tank, !.touched = c.road]
      BY <2>2 DEF Counted, Judged
    <3>2. /\ x \in Trackers /\ Holds(x)
          /\ ~ Eligible(t, c) => x.recent = t.recent
          /\ Eligible(t, c) => /\ ComesFrom(x.recent, t.recent, Judged(t, c, truth)) /\ x.recent # <<>>
                               /\ Figure(x.recent) >= t.last_level - c.tank
      BY <1>2, AdmitEffect
    <3>3. /\ n \in Trackers /\ n.recent = x.recent /\ n.last_lap = c.lap /\ n.touched = c.road /\ Holds(n)
      <4>1. c.road \in BOOLEAN
        BY CarParts
      <4> HIDE DEF x, n
      <4>2. n \in Trackers /\ n.recent = x.recent /\ n.last_lap = c.lap /\ n.touched = c.road /\ n.streak = x.streak
        BY <1>1, <3>1, <3>2, <4>1 DEF Trackers
      <4>3. Holds(n)
        BY <3>2, <4>2 DEF Holds
      <4> QED BY <4>2, <4>3
    <3>4. n.touched \in BOOLEAN /\ (~ n.touched => ~ c.road)
      <4>1. n.touched = c.road /\ c.road \in BOOLEAN
        BY <3>3, CarParts
      <4> HIDE DEF n
      <4> QED BY <4>1
    <3> HIDE DEF n, x
    <3> QED BY <2>2, <3>2, <3>3, <3>4
  <2> HIDE DEF n
  <2> QED BY <2>1, <2>2
<1> DEFINE b == n.touched \/ ~ t.sampled
<1>6. o = [n EXCEPT !.touched = b, !.sampled = TRUE]
  BY DEF Observed
<1>7. b \in BOOLEAN
  BY Zenon
<1>8. /\ o \in Trackers /\ o.recent = n.recent /\ o.last_lap = n.last_lap /\ o.streak = n.streak
      /\ o.touched = b /\ o.sampled = TRUE
  <2> HIDE DEF b, n, o
  <2> QED BY <1>5, <1>6, <1>7 DEF Trackers
<1>9. ~ o.touched => ~ n.touched /\ t.sampled
  <2>1. o.touched = (n.touched \/ ~ t.sampled)
    BY <1>8
  <2> HIDE DEF o, n
  <2> QED BY <2>1, Zenon
<1>10. Holds(o)
  <2> HIDE DEF o, n
  <2> QED BY <1>5, <1>8 DEF Holds
<1> HIDE DEF o, n
<1> QED BY <1>5, <1>8, <1>9, <1>10 DEF Follows, o

(* The smoothed level is a level of the tank, and the tank's own while no
   row is missing.                                                          *)
LEMMA SmoothedLevel ==
    ASSUME NEW l \in Lives, NEW c \in Cars, NEW level \in Smoothed(l, c)
    PROVE  level \in 0 .. Full /\ (~ gap => level = c.tank)
<1>1. c.tank \in 0 .. Full /\ l.smoothed \in None .. Full /\ Full \in Nat /\ None = -1
  BY CarParts, Numbers DEF Lives
<1>2. CASE gap /\ l.smoothed # None
  <2> DEFINE a == l.smoothed
             b == c.tank
  <2>1. a \in 0 .. Full /\ b \in 0 .. Full
    BY <1>1, <1>2
  <2> HIDE DEF a, b
  <2>2. Least({a, b}) \in {a, b}
    <3>1. \E x \in {a, b} : \A y \in {a, b} : x <= y
      BY <2>1
    <3> QED BY <3>1 DEF Least
  <2>3. Most({a, b}) \in {a, b}
    <3>1. \E x \in {a, b} : \A y \in {a, b} : x >= y
      BY <2>1
    <3> QED BY <3>1 DEF Most
  <2>4. level \in Least({a, b}) .. Most({a, b})
    BY <1>2 DEF Smoothed, a, b
  <2> QED BY <1>1, <1>2, <2>1, <2>2, <2>3, <2>4
<1>3. CASE ~ (gap /\ l.smoothed # None)
  BY <1>1, <1>3 DEF Smoothed
<1> QED BY <1>1, <1>2, <1>3

(* What LapFuelUse knows after a row.                                      *)
LiveFollows(u, l, c) ==
    /\ u \in Lives /\ u.last_lap = c.lap
    /\ l.last_lap # c.lap /\ u.whole => ~ gap /\ c.pos = 0 /\ (u.at # None => u.at = c.tank)
    /\ l.last_lap = c.lap => /\ u.at # None => u.at = l.at /\ ~ c.road
                             /\ u.whole => l.whole /\ ~ gap
    /\ u.used # None => u.at # None /\ (u.whole => u.used = NotNegative(u.at - c.tank))

LEMMA LiveEffect ==
    ASSUME NEW l \in Lives, NEW c \in Cars, NEW level \in Smoothed(l, c), gap \in BOOLEAN
    PROVE  LiveFollows(LiveUse(l, c, level), l, c)
<1>1. /\ c.lap \in 0 .. MaxLap /\ c.tank \in 0 .. Full /\ c.road \in BOOLEAN
      /\ l.at \in None .. Full /\ l.last_lap \in None .. MaxLap
      /\ l.whole \in BOOLEAN
      /\ Full \in Nat /\ MaxLap \in Nat /\ None = -1
  BY CarParts, Numbers DEF Lives
<1> DEFINE at == LineLevel(l, c)
           u == LiveUse(l, c, level)
<1>2. at \in None .. Full /\ (at # None => at = l.at /\ ~ c.road) /\ (c.road => at = None)
  BY <1>1 DEF LineLevel
<1>3. level \in 0 .. Full /\ level \in None .. Full /\ (~ gap => level = c.tank)
  BY <1>1, SmoothedLevel
<1>4. CASE l.last_lap # c.lap
  <2> DEFINE line == IF c.road THEN at ELSE level
             fresh == c.pos = 0 /\ ~ gap
  <2>1. u = [at |-> line, smoothed |-> level, last_lap |-> c.lap, used |-> None,
             whole |-> fresh]
    BY <1>4 DEF LiveUse
  <2>2. line \in None .. Full /\ (line # None => line = level)
    <3> HIDE DEF at
    <3> QED BY <1>1, <1>2, <1>3
  <2>3. fresh \in BOOLEAN
    BY Zenon
  <2>4. None \in None .. Full /\ c.lap \in None .. MaxLap
    BY <1>1
  <2>5. u \in Lives /\ u.at = line /\ u.last_lap = c.lap /\ u.used = None /\ u.whole = fresh
    <3> HIDE DEF line, fresh, u
    <3> QED BY <1>3, <2>1, <2>2, <2>3, <2>4 DEF Lives
  <2>6. u.whole => c.pos = 0 /\ ~ gap
    <3>1. u.whole = (c.pos = 0 /\ ~ gap)
      BY <2>5
    <3> HIDE DEF u
    <3> QED BY <3>1, Zenon
  <2> HIDE DEF u, line, fresh
  <2> QED BY <1>3, <1>4, <2>2, <2>5, <2>6 DEF LiveFollows, u
<1>5. CASE l.last_lap = c.lap
  <2> DEFINE used == IF at = None THEN None ELSE NotNegative(at - level)
             whole == l.whole /\ ~ gap
  <2>1. u = [l EXCEPT !.at = at, !.smoothed = level, !.whole = whole, !.used = used]
    BY <1>5 DEF LiveUse
  <2>2. used \in None .. Full
    <3> HIDE DEF at
    <3> QED BY <1>1, <1>2, <1>3 DEF NotNegative
  <2>3. whole \in BOOLEAN
    BY Zenon
  <2>4. u \in Lives /\ u.at = at /\ u.last_lap = l.last_lap /\ u.used = used /\ u.whole = whole
    <3> HIDE DEF u, at, used, whole
    <3> QED BY <1>2, <1>3, <2>1, <2>2, <2>3 DEF Lives
  <2>5. used # None => at # None /\ used = NotNegative(at - level)
    <3> HIDE DEF at
    <3> QED OBVIOUS
  <2>6. u.whole => l.whole /\ ~ gap
    <3>1. u.whole = (l.whole /\ ~ gap)
      BY <2>4
    <3> HIDE DEF u
    <3> QED BY <3>1, Zenon
  <2> HIDE DEF u, at, used, whole
  <2> QED BY <1>2, <1>3, <1>5, <2>4, <2>5, <2>6 DEF LiveFollows, u
<1> QED BY <1>4, <1>5

-------------------------------------------------------------------------------
(* What a step of the car may be.                                          *)
Moves(c, added, moved) ==
    /\ c \in Cars /\ added \in Nat /\ moved \in Nat
    /\ \/ c.lap = car.lap /\ c.pos = car.pos + moved /\ c.tank + c.burnt = car.tank + car.burnt + added
       \/ c.lap = car.lap + 1 /\ c.pos = 0 /\ car.pos + moved = Sectors
    /\ added > 0 => c.road
    /\ (car.pos = 0 => car.burnt = 0) => (c.pos = 0 => c.burnt = 0)

LEMMA DriveMoves ==
    ASSUME Types, NEW b \in Burns, Drive(b)
    PROVE  \E c, added, moved : Moves(c, added, moved) /\ Step(c, added, moved)
<1>1. car \in Cars /\ b \in Nat /\ car.lap < MaxLap /\ car.tank >= b
      /\ Sectors \in Nat /\ Sectors > 0 /\ MaxLap \in Nat /\ Full \in Nat
  BY Numbers DEF Types, Drive
<1>2. /\ car.lap \in 0 .. MaxLap /\ car.pos \in 0 .. (Sectors - 1) /\ car.steps \in Nat /\ car.secs \in Nat
      /\ car.tank \in 0 .. Full /\ car.road \in BOOLEAN /\ car.burnt \in Nat
  BY <1>1 DEF Cars
<1>7. PICK timed \in {0, car.steps + 1} :
          LET line == car.pos + 1 = Sectors
          IN Step([car EXCEPT !.pos = IF line THEN 0 ELSE @ + 1, !.lap = IF line THEN @ + 1 ELSE @,
                              !.tank = @ - b, !.steps = IF line THEN 0 ELSE @ + 1,
                              !.secs = IF line THEN timed ELSE @,
                              !.burnt = IF line THEN 0 ELSE @ + b], 0, 1)
  BY DEF Drive
<1>8. timed \in Nat
  BY <1>2, <1>7
<1> DEFINE line == car.pos + 1 = Sectors
           lap == IF line THEN car.lap + 1 ELSE car.lap
           pos == IF line THEN 0 ELSE car.pos + 1
           tank == car.tank - b
           steps == IF line THEN 0 ELSE car.steps + 1
           secs == IF line THEN timed ELSE car.secs
           burnt == IF line THEN 0 ELSE car.burnt + b
           c == [car EXCEPT !.pos = pos, !.lap = lap, !.tank = tank, !.steps = steps, !.secs = secs, !.burnt = burnt]
<1>3. Step(c, 0, 1)
  BY <1>7
<1>4. /\ lap \in 0 .. MaxLap /\ pos \in 0 .. (Sectors - 1) /\ tank \in 0 .. Full
      /\ steps \in Nat /\ secs \in Nat /\ burnt \in Nat
      /\ line => lap = car.lap + 1 /\ pos = 0 /\ car.pos + 1 = Sectors /\ burnt = 0
      /\ ~ line => lap = car.lap /\ pos = car.pos + 1 /\ tank + burnt = car.tank + car.burnt
  BY <1>1, <1>2, <1>8
<1>5. c \in Cars /\ c.lap = lap /\ c.pos = pos /\ c.tank = tank /\ c.burnt = burnt
  <2> HIDE DEF lap, pos, tank, steps, secs, burnt
  <2> QED BY <1>1, <1>4 DEF Cars
<1>6. Moves(c, 0, 1)
  <2> HIDE DEF lap, pos, tank, steps, secs, burnt, c, line
  <2> QED BY <1>2, <1>4, <1>5 DEF Moves
<1> HIDE DEF c
<1> QED BY <1>3, <1>6

LEMMA OtherMoves ==
    ASSUME Types, Linger \/ Pits \/ \E a \in Fills : Fill(a)
    PROVE  \E c, added, moved : Moves(c, added, moved) /\ Step(c, added, moved)
<1>1. car \in Cars /\ Sectors \in Nat /\ Full \in Nat
  BY Numbers DEF Types
<1>2. /\ car.lap \in 0 .. MaxLap /\ car.pos \in 0 .. (Sectors - 1) /\ car.steps \in Nat /\ car.secs \in Nat
      /\ car.tank \in 0 .. Full /\ car.road \in BOOLEAN /\ car.burnt \in Nat
  BY <1>1 DEF Cars
<1>3. CASE Linger
  <2> DEFINE c == [car EXCEPT !.steps = @ + 1]
  <2>1. Step(c, 0, 0)
    BY <1>3 DEF Linger
  <2>2. c \in Cars /\ c.lap = car.lap /\ c.pos = car.pos /\ c.tank = car.tank /\ c.burnt = car.burnt
    BY <1>1, <1>2 DEF Cars
  <2>3. Moves(c, 0, 0)
    <3> HIDE DEF c
    <3> QED BY <1>2, <2>2 DEF Moves
  <2> HIDE DEF c
  <2> QED BY <2>1, <2>3
<1>4. CASE Pits
  <2> DEFINE road == ~ car.road
             c == [car EXCEPT !.road = road]
  <2>1. Step(c, 0, 0)
    BY <1>4 DEF Pits
  <2>2. road \in BOOLEAN
    BY Zenon
  <2>3. c \in Cars /\ c.lap = car.lap /\ c.pos = car.pos /\ c.tank = car.tank /\ c.burnt = car.burnt
    <3> HIDE DEF road
    <3> QED BY <1>1, <1>2, <2>2 DEF Cars
  <2>4. Moves(c, 0, 0)
    <3> HIDE DEF c
    <3> QED BY <1>2, <2>3 DEF Moves
  <2> HIDE DEF c
  <2> QED BY <2>1, <2>4
<1>5. ASSUME NEW a \in Fills, Fill(a)
      PROVE  \E c, added, moved : Moves(c, added, moved) /\ Step(c, added, moved)
  <2> DEFINE c == [car EXCEPT !.tank = @ + a]
  <2>1. Step(c, a, 0) /\ car.road /\ car.tank + a <= Full /\ a \in Nat
    BY <1>5, Numbers DEF Fill
  <2>2. c \in Cars /\ c.lap = car.lap /\ c.pos = car.pos /\ c.tank = car.tank + a /\ c.burnt = car.burnt
        /\ c.road = car.road
    <3>1. car.tank + a \in 0 .. Full
      BY <1>1, <1>2, <2>1
    <3> QED BY <1>1, <3>1 DEF Cars
  <2>3. c.road
    BY <2>1, <2>2
  <2>4. Moves(c, a, 0)
    <3> HIDE DEF c
    <3> QED BY <1>2, <2>1, <2>2, <2>3 DEF Moves
  <2> HIDE DEF c
  <2> QED BY <2>1, <2>4
<1> QED BY <1>3, <1>4, <1>5

-------------------------------------------------------------------------------
(* What a row does to the books, and what a row that nobody saw does.      *)

LEMMA TypesParts ==
    ASSUME Types
    PROVE  /\ car \in Cars /\ tracker \in Trackers /\ live \in Lives /\ snap \in Snaps /\ source \in Sources
           /\ driven.by \in Drives /\ driven.told \in Drives /\ latest \in Int
           /\ seat \in BOOLEAN /\ gap \in BOOLEAN /\ late \in BOOLEAN /\ hidden \in BOOLEAN
<1>1. {seat, gap, late, hidden} \subseteq BOOLEAN
  BY DEF Types
<1>2. seat \in BOOLEAN /\ gap \in BOOLEAN /\ late \in BOOLEAN /\ hidden \in BOOLEAN
  BY <1>1, Zenon
<1> QED BY <1>2 DEF Types

LEMMA MoreEffect ==
    ASSUME NEW d \in Drives, NEW c \in Cars, NEW added \in Nat, NEW moved \in Nat
    PROVE  /\ More(d, c, added, moved) \in Drives
           /\ More(d, c, added, moved).steps = d.steps + moved
           /\ More(d, c, added, moved).added = d.added + added
           /\ ~ d.pits /\ ~ c.road => ~ More(d, c, added, moved).pits
           /\ More(d, c, added, moved).pits = (d.pits \/ c.road)
<1> DEFINE b == d.pits \/ c.road
           n == d.steps + moved
           a == d.added + added
<1>1. b \in BOOLEAN
  BY Zenon
<1>2. n \in Nat /\ a \in Nat
  BY DEF Drives
<1>3. More(d, c, added, moved) = [steps |-> n, added |-> a, pits |-> b]
  BY DEF More
<1>4. /\ More(d, c, added, moved) \in Drives /\ More(d, c, added, moved).steps = n
      /\ More(d, c, added, moved).added = a /\ More(d, c, added, moved).pits = b
  <2> HIDE DEF b, n, a
  <2> QED BY <1>1, <1>2, <1>3 DEF Drives
<1>5. ~ d.pits /\ ~ c.road => ~ More(d, c, added, moved).pits
  <2>1. More(d, c, added, moved).pits = (d.pits \/ c.road)
    BY <1>4
  <2> QED BY <2>1, Zenon
<1> QED BY <1>4, <1>5

(* The row's tracker before and after, and what was driven until then.     *)
RowTakes(t, d, c, added, moved, here) ==
    /\ t \in Trackers /\ Holds(t) /\ t.recent = tracker.recent
    /\ t.sampled => ~ gap /\ t = tracker
    /\ t.last_lap > 0 => t.sampled
    /\ ~ here => ~ t.sampled /\ t.last_lap = 0
    /\ d \in Drives /\ d.steps = driven.by.steps + moved /\ d.added = driven.by.added + added
    /\ ~ driven.by.pits /\ ~ c.road => ~ d.pits

LEMMA RowBegins ==
    ASSUME Types, TrackerFollows, WindowHolds, NEW c \in Cars, NEW added \in Nat, NEW moved \in Nat, NEW here \in BOOLEAN
    PROVE  RowTakes(IF gap \/ ~ here THEN Interrupted(tracker) ELSE tracker,
                    More(driven.by, c, added, moved), c, added, moved, here)
<1> DEFINE t == IF gap \/ ~ here THEN Interrupted(tracker) ELSE tracker
           d == More(driven.by, c, added, moved)
<1>1. tracker \in Trackers /\ Holds(tracker) /\ driven.by \in Drives /\ gap \in BOOLEAN
  BY TypesParts DEF WindowHolds, Holds
<1>2. /\ Interrupted(tracker) \in Trackers /\ Holds(Interrupted(tracker))
      /\ Interrupted(tracker).recent = tracker.recent /\ Interrupted(tracker).last_lap = 0
      /\ ~ Interrupted(tracker).sampled
  BY <1>1, InterruptedEffect
<1>3. tracker.last_lap \in Nat
  BY <1>1, TrackerParts
<1>4. tracker.last_lap > 0 => tracker.sampled
  BY <1>3 DEF TrackerFollows
<1>5. ASSUME gap \/ ~ here PROVE RowTakes(t, d, c, added, moved, here)
  <2>1. t = Interrupted(tracker)
    BY <1>5
  <2>2. t \in Trackers /\ Holds(t) /\ t.recent = tracker.recent /\ ~ t.sampled /\ t.last_lap = 0
    <3> HIDE DEF t
    <3> QED BY <1>2, <2>1
  <2>3. d \in Drives /\ d.steps = driven.by.steps + moved /\ d.added = driven.by.added + added
        /\ (~ driven.by.pits /\ ~ c.road => ~ d.pits)
    BY <1>1, MoreEffect
  <2> HIDE DEF t, d
  <2> QED BY <2>2, <2>3 DEF RowTakes
<1>6. ASSUME ~ gap, here PROVE RowTakes(t, d, c, added, moved, here)
  <2>1. t = tracker
    BY <1>6
  <2>2. d \in Drives /\ d.steps = driven.by.steps + moved /\ d.added = driven.by.added + added
        /\ (~ driven.by.pits /\ ~ c.road => ~ d.pits)
    BY <1>1, MoreEffect
  <2> HIDE DEF t, d
  <2> QED BY <1>1, <1>4, <1>6, <2>1, <2>2 DEF RowTakes
<1> QED BY <1>5, <1>6, Zenon

RowTracker ==
    /\ tracker' \in Trackers /\ latest' \in Int /\ driven'.by \in Drives
    /\ TrackerFollows' /\ WindowHolds' /\ PlanFromWholeLaps' /\ PlanCoversLastLap'

LEMMA RowTrackerStep ==
    ASSUME FuelInv, NEW c, NEW added, NEW moved, NEW here \in BOOLEAN,
           Moves(c, added, moved), Row(c, added, moved, here), car' = c, seat' = here
    PROVE  RowTracker
<1> DEFINE t == IF gap \/ ~ here THEN Interrupted(tracker) ELSE tracker
           d == More(driven.by, c, added, moved)
           burn == t.last_level - c.tank
           truth == Truth(d, burn)
           o == Observed(t, c, truth)
<1>1. Types /\ TrackerFollows /\ WindowHolds /\ PlanFromWholeLaps /\ PlanCoversLastLap
  BY DEF FuelInv
<1>2. c \in Cars /\ added \in Nat /\ moved \in Nat
  BY DEF Moves
<1>3. RowTakes(t, d, c, added, moved, here)
  BY <1>1, <1>2, RowBegins
<1>4. /\ tracker' = (IF here THEN o ELSE t)
      /\ latest' = (IF here /\ Eligible(t, c) THEN burn ELSE latest)
      /\ driven'.by = (IF here /\ t.last_lap # c.lap THEN [NothingDriven EXCEPT !.pits = c.road] ELSE d)
      /\ gap' \in BOOLEAN /\ ~ gap'
  BY DEF Row
<1>5. /\ c.lap \in Nat /\ c.pos \in Nat /\ c.tank \in Nat /\ c.road \in BOOLEAN
      /\ car.lap \in Nat /\ car.pos \in Nat /\ Sectors \in Nat /\ Sectors > 0
  BY <1>1, <1>2, CarParts, TypesParts, Numbers
<1> HIDE DEF t, d
<1>6. t \in Trackers /\ Holds(t) /\ t.last_level \in Nat /\ t.last_lap \in Nat /\ t.recent = tracker.recent
  BY <1>3, TrackerParts DEF RowTakes
<1>7. burn \in Int /\ truth \in Truths /\ truth.burnt = burn + d.added
      /\ (d.steps = Sectors /\ ~ d.pits => truth.whole)
  <2>1. burn \in Int /\ d.added \in Nat /\ d.steps \in Nat
    BY <1>3, <1>5, <1>6 DEF RowTakes, Drives
  <2> DEFINE whole == d.steps = Sectors /\ ~ d.pits
  <2>2. whole \in BOOLEAN
    BY Zenon
  <2>3. truth = [whole |-> whole, burnt |-> burn + d.added]
    BY DEF Truth
  <2>4. truth \in Truths /\ truth.burnt = burn + d.added /\ truth.whole = whole
    <3> HIDE DEF truth, whole, burn
    <3> QED BY <2>1, <2>2, <2>3 DEF Truths
  <2>5. whole => truth.whole
    <3> HIDE DEF truth, whole
    <3> QED BY <2>4
  <2> QED BY <2>1, <2>4, <2>5
<1> HIDE DEF truth
<1>8. Follows(o, t, c, truth)
  BY <1>2, <1>6, <1>7, ObservedEffect
<1> HIDE DEF o
(* An untouched tracker saw the car at the last row, and what it drove since the line. *)
<1>9. t.sampled => ~ gap /\ t.last_lap = car.lap
                   /\ (~ t.touched => driven.by = [steps |-> car.pos, added |-> 0, pits |-> FALSE])
  BY <1>1, <1>3 DEF RowTakes, TrackerFollows
<1>10. driven'.by \in Drives
  <2>1. [NothingDriven EXCEPT !.pits = c.road] \in Drives
    BY <1>5 DEF NothingDriven, Drives
  <2> QED BY <1>3, <1>4, <2>1 DEF RowTakes
<1>11. CASE ~ here
  <2>1. tracker' = t /\ latest' = latest /\ ~ t.sampled /\ t.last_lap = 0
    BY <1>3, <1>4, <1>11 DEF RowTakes
  <2>2. TrackerFollows'
    BY <1>5, <2>1 DEF TrackerFollows
  <2>3. WindowHolds'
    BY <1>6, <2>1 DEF Holds, WindowHolds
  <2>4. tracker'.recent = tracker.recent
    BY <1>6, <2>1
  <2>5. PlanFromWholeLaps' /\ PlanCoversLastLap'
    BY <1>1, <2>1, <2>4 DEF PlanFromWholeLaps, PlanCoversLastLap
  <2> QED BY <1>1, <1>6, <1>10, <2>1, <2>2, <2>3, <2>5, TypesParts DEF RowTracker
<1>12. CASE here
  <2>1. tracker' = o /\ o \in Trackers /\ Holds(o) /\ o.last_lap = c.lap /\ o.sampled
        /\ (~ o.touched => t.sampled /\ ~ c.road /\ (c.lap = t.last_lap => ~ t.touched))
    BY <1>4, <1>8, <1>12 DEF Follows
  <2>2. ASSUME ~ o.touched
        PROVE  driven'.by = [steps |-> c.pos, added |-> 0, pits |-> FALSE]
    <3>1. t.sampled /\ ~ c.road /\ (c.lap = t.last_lap => ~ t.touched) /\ t.last_lap = car.lap
      BY <1>9, <2>1, <2>2
    <3>2. added = 0
      BY <1>2, <3>1 DEF Moves
    <3>3. CASE c.lap = car.lap
      <4>1. driven.by = [steps |-> car.pos, added |-> 0, pits |-> FALSE]
        BY <1>9, <3>1, <3>3
      <4>2. driven'.by = d /\ c.pos = car.pos + moved
        BY <1>4, <1>5, <3>1, <3>3 DEF Moves
      <4>3. d = [steps |-> driven.by.steps + moved, added |-> driven.by.added + added,
                 pits |-> driven.by.pits \/ c.road]
        BY DEF d, More
      <4>4. c.road = FALSE
        BY <1>5, <3>1
      <4>5. driven.by.steps = car.pos /\ driven.by.added = 0 /\ driven.by.pits = FALSE
        BY <4>1
      <4>6. (driven.by.pits \/ c.road) = FALSE
        BY <4>4, <4>5
      <4>7. driven.by.steps + moved = c.pos /\ driven.by.added + added = 0
        BY <3>2, <4>2, <4>5
      <4> QED BY <4>2, <4>3, <4>6, <4>7, Zenon
    <3>4. CASE c.lap # car.lap
      <4>1. c.pos = 0 /\ c.road = FALSE
        BY <1>5, <3>1, <3>4 DEF Moves
      <4>2. driven'.by = [NothingDriven EXCEPT !.pits = c.road]
        BY <1>4, <1>12, <3>1, <3>4
      <4> QED BY <4>1, <4>2 DEF NothingDriven
    <3> QED BY <3>3, <3>4
  <2>3. TrackerFollows'
    BY <1>5, <1>12, <2>1, <2>2 DEF TrackerFollows
  <2>4. WindowHolds'
    BY <2>1 DEF Holds, WindowHolds
  <2>5. CASE Eligible(t, c)
    <3>1. /\ t.last_lap > 0 /\ c.lap = t.last_lap + 1 /\ ~ t.touched /\ ~ c.road
      BY <2>5 DEF Eligible, NextLap
    <3>2. t.sampled /\ t.last_lap = car.lap
          /\ driven.by = [steps |-> car.pos, added |-> 0, pits |-> FALSE]
      BY <1>3, <1>9, <3>1 DEF RowTakes
    <3>3. car.pos + moved = Sectors /\ added = 0
      BY <1>2, <1>5, <3>1, <3>2 DEF Moves
    <3>4. d.steps = Sectors /\ d.added = 0 /\ ~ d.pits
      <4>1. d.steps = driven.by.steps + moved /\ d.added = driven.by.added + added
            /\ (~ driven.by.pits /\ ~ c.road => ~ d.pits)
        BY <1>3 DEF RowTakes
      <4>2. driven.by.steps = car.pos /\ driven.by.added = 0 /\ ~ driven.by.pits
        BY <3>2
      <4> QED BY <1>2, <1>5, <3>1, <3>3, <4>1, <4>2
    <3>5. truth.whole /\ truth.burnt = burn
      BY <1>7, <3>4
    <3> DEFINE lap == Judged(t, c, truth)
    <3>6. lap.truth = truth /\ lap.burn = burn
      BY DEF Judged
    <3>7. /\ ComesFrom(o.recent, tracker.recent, lap) /\ o.recent # <<>>
          /\ Figure(o.recent) >= burn
      BY <1>6, <1>8, <2>5 DEF Follows
    <3>8. o.recent \in Seq(Laps) /\ tracker.recent \in Seq(Laps)
      BY <1>1, <2>1, TypesParts, TrackerParts
    <3>9. PlanFromWholeLaps'
      <4>1. SUFFICES ASSUME NEW i \in DOMAIN o.recent
                     PROVE  o.recent[i].truth.whole /\ o.recent[i].burn = o.recent[i].truth.burnt
        BY <2>1 DEF PlanFromWholeLaps
      <4>2. i \in 1 .. Len(o.recent)
        BY <3>8
      <4>3. o.recent[i] = lap \/ \E j \in 1 .. Len(tracker.recent) : o.recent[i] = tracker.recent[j]
        BY <3>7, <4>2 DEF ComesFrom
      <4>4. CASE o.recent[i] = lap
        <5> HIDE DEF lap, burn
        <5> QED BY <3>5, <3>6, <4>4
      <4>5. CASE \E j \in 1 .. Len(tracker.recent) : o.recent[i] = tracker.recent[j]
        <5>1. PICK j \in 1 .. Len(tracker.recent) : o.recent[i] = tracker.recent[j]
          BY <4>5
        <5>2. j \in DOMAIN tracker.recent
          BY <3>8
        <5> QED BY <1>1, <5>1, <5>2 DEF PlanFromWholeLaps
      <4> HIDE DEF lap
      <4> QED BY <4>3, <4>4, <4>5
    <3>10. latest' = burn
      BY <1>4, <1>12, <2>5
    <3>11. PlanCoversLastLap'
      BY <2>1, <3>7, <3>10 DEF PlanCoversLastLap
    <3> QED BY <1>7, <1>10, <2>1, <2>3, <2>4, <3>9, <3>10, <3>11 DEF RowTracker
  <2>6. CASE ~ Eligible(t, c)
    <3>1. tracker'.recent = tracker.recent /\ latest' = latest
      BY <1>4, <1>6, <1>8, <2>1, <2>6 DEF Follows
    <3>2. PlanFromWholeLaps' /\ PlanCoversLastLap'
      BY <1>1, <3>1 DEF PlanFromWholeLaps, PlanCoversLastLap
    <3> QED BY <1>1, <1>10, <2>1, <2>3, <2>4, <3>1, <3>2, TypesParts DEF RowTracker
  <2> QED BY <2>5, <2>6
<1> QED BY <1>11, <1>12

RowLine == live' \in Lives /\ LineKnown'

LEMMA RowLineStep ==
    ASSUME FuelInv, NEW c, NEW added, NEW moved, NEW here \in BOOLEAN,
           Moves(c, added, moved), Row(c, added, moved, here), car' = c
    PROVE  RowLine
<1>1. Types /\ LineKnown
  BY DEF FuelInv
<1>2. /\ c \in Cars /\ added \in Nat /\ moved \in Nat /\ (added > 0 => c.road)
      /\ c.pos = 0 => c.burnt = 0
      /\ c.lap = car.lap => c.tank + c.burnt = car.tank + car.burnt + added
  BY <1>1, TypesParts, CarParts DEF Moves, LineKnown
<1>3. /\ c.lap \in Nat /\ c.pos \in Nat /\ c.tank \in Nat /\ c.burnt \in Nat /\ c.road \in BOOLEAN
      /\ car.lap \in Nat /\ car.tank \in Nat /\ car.burnt \in Nat /\ None = -1
      /\ live \in Lives /\ live.at \in Int /\ live.last_lap \in Int /\ live.whole \in BOOLEAN
  BY <1>1, <1>2, CarParts, TypesParts, Numbers DEF Lives
<1>7. gap \in BOOLEAN
  BY <1>1 DEF Types
<1>8. PICK level \in Smoothed(live, c) : live' = IF here THEN LiveUse(live, c, level) ELSE NoLive
  BY DEF Row
<1> DEFINE u == LiveUse(live, c, level)
<1>4. live' = (IF here THEN u ELSE NoLive) /\ gap' \in BOOLEAN /\ ~ gap'
  BY <1>8 DEF Row
<1>5. CASE ~ here
  <2>1. NoLive \in Lives /\ NoLive.at = None /\ NoLive.used = None /\ NoLive.last_lap = None
    BY Numbers DEF NoLive, Lives
  <2>2. live' = NoLive
    BY <1>4, <1>5
  <2>3. LineKnown'
    BY <1>2, <2>1, <2>2 DEF LineKnown
  <2> QED BY <2>1, <2>2, <2>3 DEF RowLine
<1>6. CASE here
  <2>4. LiveFollows(u, live, c)
    BY <1>2, <1>3, <1>7, LiveEffect
  <2> HIDE DEF u
  <2>5. live' = u
    BY <1>4, <1>6
  <2>6. u.whole /\ u.at # None => u.at = c.tank + c.burnt
    <3>1. SUFFICES ASSUME u.whole, u.at # None PROVE u.at = c.tank + c.burnt
      OBVIOUS
    <3>2. CASE live.last_lap # c.lap
      <4>1. u.at = c.tank /\ c.pos = 0
        BY <2>4, <3>1, <3>2 DEF LiveFollows
      <4> QED BY <1>2, <1>3, <4>1
    <3>3. CASE live.last_lap = c.lap
      <4>1. u.at = live.at /\ ~ c.road /\ live.whole /\ ~ gap
        BY <2>4, <3>1, <3>3 DEF LiveFollows
      <4>2. c.lap = car.lap
        BY <1>1, <1>3, <3>3, <4>1 DEF LineKnown
      <4>3. live.at = car.tank + car.burnt
        BY <1>1, <3>1, <4>1 DEF LineKnown
      <4>4. added = 0
        BY <1>2, <4>1
      <4> QED BY <1>2, <1>3, <4>1, <4>2, <4>3, <4>4
    <3> QED BY <3>2, <3>3
  <2>7. /\ u \in Lives /\ u.last_lap = c.lap
        /\ u.used # None => u.at # None /\ (u.whole => u.used = NotNegative(u.at - c.tank))
    BY <2>4 DEF LiveFollows
  <2>8. c.lap # None
    BY <1>3
  <2>9. LineKnown'
    BY <1>2, <2>5, <2>6, <2>7, <2>8 DEF LineKnown
  <2> QED BY <2>5, <2>7, <2>9 DEF RowLine
<1> QED BY <1>5, <1>6

LEMMA RowSnapStep ==
    ASSUME FuelInv, NEW c, NEW added, NEW moved, NEW here \in BOOLEAN,
           Moves(c, added, moved), Row(c, added, moved, here), RowTracker
    PROVE  /\ snap' \in Snaps
           /\ snap'.lap = c.lap /\ snap'.pos = c.pos /\ snap'.tank = c.tank /\ snap'.road = c.road
<1> DEFINE t == IF gap \/ ~ here THEN Interrupted(tracker) ELSE tracker
           o == Observed(t, c, Truth(More(driven.by, c, added, moved), t.last_level - c.tank))
           avg == IF here THEN Figure(o.recent) ELSE None
<1>1. /\ snap' = [lap |-> c.lap, pos |-> c.pos, tank |-> c.tank, road |-> c.road, mine |-> here,
                  stale |-> FALSE, avg |-> avg]
      /\ here => tracker' = o
  BY DEF Row
<1>2. avg \in Int
  <2>1. here => Figure(tracker'.recent) \in Int
    <3>1. tracker'.recent \in Seq(Laps)
      BY TrackerParts DEF RowTracker
    <3>2. \A k \in 1 .. Len(tracker'.recent) : Greediest(tracker'.recent, k)
      BY DEF RowTracker, WindowHolds, Greediest
    <3> QED BY <3>1, <3>2, FigureType
  <2> HIDE DEF o
  <2> QED BY <1>1, <2>1, Numbers
<1>3. c \in Cars
  BY DEF Moves
<1> HIDE DEF avg
<1> QED BY <1>1, <1>2, <1>3, CarParts DEF Snaps

LEMMA LapsOfSectors ==
    ASSUME NEW n \in Int, NEW m \in Int, NEW k \in Int
    PROVE  /\ (n - m) * Sectors \in Int
           /\ k = n => (k - m) * Sectors = (n - m) * Sectors
           /\ k = n + 1 => (k - m) * Sectors = (n - m) * Sectors + Sectors
<1>1. Sectors \in Int
  BY Numbers
<1>2. (n + 1 - m) * Sectors = (n - m) * Sectors + Sectors
  BY <1>1
<1>3. CASE k = n + 1
  <2>1. (k - m) * Sectors = (n + 1 - m) * Sectors
    BY <1>3
  <2> QED BY <1>1, <1>2, <1>3, <2>1
<1> QED BY <1>1, <1>3

(* The car moves while the frame loop looks elsewhere.                     *)
LEMMA MoveSeen ==
    ASSUME FuelInv, NEW c, NEW added, NEW moved, Moves(c, added, moved), car' = c,
           driven'.told = More(driven.told, c, added, moved),
           source' = source, late' = late, hidden' = hidden,
           roads'.then = roads.then, roads.since => roads'.since, added > 0 => roads'.since,
           ~ snap'.stale => snap'.lap = c.lap /\ snap'.pos = c.pos /\ snap'.tank = c.tank /\ snap'.road = c.road
    PROVE  FramesSee'
<1>1. Types /\ FramesSee
  BY DEF FuelInv
<1>2. /\ c \in Cars /\ added \in Nat /\ moved \in Nat
      /\ \/ c.lap = car.lap /\ c.pos = car.pos + moved
         \/ c.lap = car.lap + 1 /\ c.pos = 0 /\ car.pos + moved = Sectors
  BY DEF Moves
<1>3. /\ c.lap \in Nat /\ c.pos \in Nat /\ car.lap \in Nat /\ car.pos \in Nat /\ source.lap \in Int
      /\ driven.told.steps \in Nat /\ driven.told.added \in Nat /\ Sectors \in Nat
  BY <1>1, <1>2, TypesParts, CarParts, Numbers DEF Sources, Drives
<1>4. driven'.told.steps = driven.told.steps + moved /\ driven'.told.added = driven.told.added + added
  <2>1. driven.told \in Drives
    BY <1>1, TypesParts
  <2>2. /\ More(driven.told, c, added, moved).steps = driven.told.steps + moved
        /\ More(driven.told, c, added, moved).added = driven.told.added + added
    BY <1>2, <2>1, MoreEffect
  <2> QED BY <2>2
<1>5. source.lap <= c.lap
  BY <1>1, <1>2, <1>3 DEF FramesSee
<1>6. source.lap # None /\ driven'.told.added > 0 => source.had_stop \/ hidden \/ roads'.since
  <2>1. driven'.told.added > 0 => driven.told.added > 0 \/ added > 0
    BY <1>2, <1>3, <1>4
  <2> QED BY <1>1, <2>1 DEF FramesSee
<1>7. source.crossing /\ ~ late => driven'.told.steps = (c.lap - source.lap) * Sectors + c.pos
  <2>1. source.crossing /\ ~ late => driven.told.steps = (car.lap - source.lap) * Sectors + car.pos
    BY <1>1 DEF FramesSee
  <2> DEFINE x == (car.lap - source.lap) * Sectors
             y == (c.lap - source.lap) * Sectors
  <2>3. c.lap \in Int /\ car.lap \in Int
    BY <1>3
  <2>4. x \in Int /\ (c.lap = car.lap => y = x) /\ (c.lap = car.lap + 1 => y = x + Sectors)
    BY <1>3, <2>3, LapsOfSectors
  <2>5. source.crossing /\ ~ late => driven.told.steps = x + car.pos
    BY <2>1
  <2> HIDE DEF x, y
  <2>6. source.crossing /\ ~ late => driven'.told.steps = y + c.pos
    BY <1>2, <1>3, <1>4, <2>4, <2>5
  <2> QED BY <2>6 DEF y
<1>8. source.lap = None => source = NoSource
  BY <1>1 DEF FramesSee
<1>9. source.lap # None /\ roads'.then => source.had_stop
  BY <1>1 DEF FramesSee
<1> QED BY <1>5, <1>6, <1>7, <1>8, <1>9 DEF FramesSee

LEMMA TypesNext ==
    ASSUME car' \in Cars, tracker' \in Trackers, live' \in Lives, snap' \in Snaps, source' \in Sources,
           driven'.by \in Drives, driven'.told \in Drives,
           driven' = [by |-> driven'.by, told |-> driven'.told],
           roads' \in [then : BOOLEAN, since : BOOLEAN], latest' \in Int,
           seat' \in BOOLEAN, gap' \in BOOLEAN, late' \in BOOLEAN, hidden' \in BOOLEAN
    PROVE  Types'
<1>1. driven' \in [by : Drives, told : Drives]
  OBVIOUS
<1>2. {seat', gap', late', hidden'} \subseteq BOOLEAN
  BY Zenon
<1> QED BY <1>1, <1>2, Zenon DEF Types

LEMMA RowKeeps ==
    ASSUME FuelInv, NEW c, NEW added, NEW moved, NEW here \in BOOLEAN,
           Moves(c, added, moved), Row(c, added, moved, here), car' = c, seat' = here, record' = NoRecord,
           source' = source, late' = late, hidden' = hidden, roads' \in [then : BOOLEAN, since : BOOLEAN],
           roads'.then = roads.then, roads.since => roads'.since, added > 0 => roads'.since
    PROVE  FuelInv'
<1>1. Types
  BY DEF FuelInv
<1>2. RowTracker
  BY RowTrackerStep
<1>3. RowLine
  BY RowLineStep
<1>4. snap' \in Snaps /\ snap'.lap = c.lap /\ snap'.pos = c.pos /\ snap'.tank = c.tank /\ snap'.road = c.road
  BY <1>2, RowSnapStep
<1>5. driven'.told = More(driven.told, c, added, moved) /\ gap' \in BOOLEAN
      /\ driven' = [by |-> driven'.by, told |-> driven'.told]
  <2> DEFINE by == IF here /\ (IF gap \/ ~ here THEN Interrupted(tracker) ELSE tracker).last_lap # c.lap
                   THEN [NothingDriven EXCEPT !.pits = c.road] ELSE More(driven.by, c, added, moved)
             told == More(driven.told, c, added, moved)
  <2>1. driven' = [by |-> by, told |-> told] /\ gap' \in BOOLEAN
    BY DEF Row
  <2> HIDE DEF by, told
  <2>2. driven'.by = by /\ driven'.told = told
    BY <2>1
  <2> QED BY <2>1, <2>2 DEF told
<1>6. FramesSee'
  BY <1>4, <1>5, MoveSeen
<1>7. driven'.told \in Drives
  <2>1. driven.told \in Drives /\ c \in Cars /\ added \in Nat /\ moved \in Nat
    BY <1>1, TypesParts DEF Moves
  <2> QED BY <1>5, <2>1, MoreEffect
<1>8. Types'
  <2>1. c \in Cars /\ source \in Sources /\ late \in BOOLEAN /\ hidden \in BOOLEAN
    BY <1>1, TypesParts DEF Moves
  <2>2. tracker' \in Trackers /\ latest' \in Int /\ driven'.by \in Drives /\ live' \in Lives
    BY <1>2, <1>3 DEF RowTracker, RowLine
  <2>3. car' \in Cars /\ source' \in Sources /\ late' \in BOOLEAN /\ hidden' \in BOOLEAN /\ seat' \in BOOLEAN
    BY <2>1, Zenon
  <2> QED BY <1>4, <1>5, <1>7, <2>2, <2>3, TypesNext
<1>9. record'.kind = "none"
  BY DEF NoRecord
<1>10. RecordsFromWholeLaps'
  BY <1>9 DEF RecordsFromWholeLaps
<1> QED BY <1>2, <1>3, <1>6, <1>8, <1>9, <1>10 DEF FuelInv, RowTracker, RowLine

LEMMA MissedKeeps ==
    ASSUME FuelInv, NEW c, NEW added, NEW moved, Moves(c, added, moved), Missed(c, added, moved),
           car' = c, seat' = seat, record' = NoRecord,
           source' = source, late' = late, hidden' = hidden, roads' \in [then : BOOLEAN, since : BOOLEAN],
           roads'.then = roads.then, roads.since => roads'.since, added > 0 => roads'.since
    PROVE  FuelInv'
<1>1. Types /\ TrackerFollows /\ WindowHolds /\ LineKnown /\ PlanFromWholeLaps /\ PlanCoversLastLap
  BY DEF FuelInv
<1>2. /\ gap' \in BOOLEAN /\ gap' /\ snap' = [snap EXCEPT !.stale = TRUE]
      /\ driven' = [by |-> More(driven.by, c, added, moved), told |-> More(driven.told, c, added, moved)]
      /\ tracker' = tracker /\ live' = live /\ latest' = latest
  BY DEF Missed
<1>3. driven'.by = More(driven.by, c, added, moved) /\ driven'.told = More(driven.told, c, added, moved)
  BY <1>2
<1>4. c \in Cars /\ added \in Nat /\ moved \in Nat /\ (c.pos = 0 => c.burnt = 0)
  BY <1>1 DEF Moves, LineKnown
<1>5. driven'.by \in Drives /\ driven'.told \in Drives
  <2>1. driven.by \in Drives /\ driven.told \in Drives
    BY <1>1, TypesParts
  <2>2. More(driven.by, c, added, moved) \in Drives /\ More(driven.told, c, added, moved) \in Drives
    BY <1>4, <2>1, MoreEffect
  <2> QED BY <1>3, <2>2
<1>6. snap' \in Snaps /\ snap'.stale
  <2>1. snap' \in Snaps /\ snap'.stale = TRUE
    BY <1>1, <1>2 DEF Types, Snaps
  <2> QED BY <2>1
<1>7. FramesSee'
  BY <1>3, <1>6, MoveSeen
<1>8. Types'
  <2>1. /\ tracker \in Trackers /\ live \in Lives /\ latest \in Int /\ source \in Sources
        /\ late \in BOOLEAN /\ hidden \in BOOLEAN /\ seat \in BOOLEAN
    BY <1>1, TypesParts
  <2>2. late' \in BOOLEAN /\ hidden' \in BOOLEAN /\ seat' \in BOOLEAN
    BY <2>1, Zenon
  <2>3. car' \in Cars /\ tracker' \in Trackers /\ live' \in Lives /\ latest' \in Int /\ source' \in Sources
    BY <1>2, <1>4, <2>1
  <2>4. driven' = [by |-> driven'.by, told |-> driven'.told]
    BY <1>2, <1>3
  <2> QED BY <1>2, <1>5, <1>6, <2>2, <2>3, <2>4, TypesNext
<1>9. TrackerFollows' /\ WindowHolds'
  <2>1. tracker.last_lap <= c.lap
    <3>1. tracker.last_lap \in Nat /\ car.lap \in Nat /\ c.lap \in Nat /\ tracker.last_lap <= car.lap
      BY <1>1, <1>4, TypesParts, TrackerParts, CarParts DEF TrackerFollows
    <3> QED BY <3>1 DEF Moves
  <2> QED BY <1>1, <1>2, <2>1 DEF TrackerFollows, WindowHolds, Greediest
<1>10. LineKnown'
  BY <1>1, <1>2, <1>4 DEF LineKnown
<1>11. PlanFromWholeLaps' /\ PlanCoversLastLap'
  BY <1>1, <1>2 DEF PlanFromWholeLaps, PlanCoversLastLap
<1>12. record'.kind = "none"
  BY DEF NoRecord
<1>13. RecordsFromWholeLaps'
  BY <1>12 DEF RecordsFromWholeLaps
<1> QED BY <1>7, <1>8, <1>9, <1>10, <1>11, <1>12, <1>13 DEF FuelInv

LEMMA StepKeeps ==
    ASSUME FuelInv, NEW c, NEW added, NEW moved, Moves(c, added, moved), Step(c, added, moved)
    PROVE  FuelInv'
<1>1. Types
  BY DEF FuelInv
<1>2. /\ car' = c /\ record' = NoRecord /\ seat' = seat /\ source' = source /\ late' = late /\ hidden' = hidden
      /\ Row(c, added, moved, seat) \/ Missed(c, added, moved)
  BY DEF Step
<1>3. seat \in BOOLEAN
  BY <1>1, TypesParts
<1>4. /\ roads' \in [then : BOOLEAN, since : BOOLEAN] /\ roads'.then = roads.then
      /\ roads'.since = (roads.since \/ c.road)
  <2> DEFINE b == roads.since \/ c.road
  <2>1. b \in BOOLEAN
    BY Zenon
  <2>2. roads' = [roads EXCEPT !.since = b]
    BY DEF Step
  <2> HIDE DEF b
  <2>3. roads' \in [then : BOOLEAN, since : BOOLEAN] /\ roads'.then = roads.then /\ roads'.since = b
    BY <1>1, <2>1, <2>2 DEF Types
  <2> QED BY <2>3 DEF b
<1>5. (roads.since => roads'.since) /\ (added > 0 => roads'.since)
  <2>1. added > 0 => c.road
    BY DEF Moves
  <2> QED BY <1>4, <2>1, Zenon
<1>6. CASE Row(c, added, moved, seat)
  BY <1>2, <1>3, <1>4, <1>5, <1>6, RowKeeps
<1>7. CASE Missed(c, added, moved)
  BY <1>2, <1>4, <1>5, <1>7, MissedKeeps
<1> QED BY <1>2, <1>6, <1>7

LEMMA SwapKeeps == ASSUME FuelInv, Swap PROVE FuelInv'
<1>1. Types
  BY DEF FuelInv
<1> DEFINE here == ~ seat
<1>2. /\ seat' = here /\ record' = NoRecord /\ Row(car, 0, 0, here) /\ car' = car
      /\ source' = source /\ late' = late /\ hidden' = hidden /\ roads' = roads
  BY DEF Swap
<1>3. here \in BOOLEAN
  BY Zenon
<1>4. Moves(car, 0, 0)
  <2>1. car \in Cars
    BY <1>1, TypesParts
  <2> QED BY <2>1, CarParts DEF Moves
<1>5. roads' \in [then : BOOLEAN, since : BOOLEAN]
  BY <1>1, <1>2 DEF Types
<1> HIDE DEF here
<1> QED BY <1>2, <1>3, <1>4, <1>5, RowKeeps

-------------------------------------------------------------------------------
(* A frame.                                                                *)

LEMMA FollowedEffect ==
    ASSUME NEW s \in Sources, NEW o \in Snaps
    PROVE  /\ Followed(s, o) \in Sources /\ Followed(s, o).lap = o.lap
           /\ o.road => Followed(s, o).had_stop
           /\ s.lap = o.lap => /\ s.had_stop => Followed(s, o).had_stop
                               /\ Followed(s, o).crossing = s.crossing
           /\ s.lap # o.lap /\ Followed(s, o).crossing => s.lap # None /\ o.lap > s.lap
<1>1. /\ o.lap \in 0 .. MaxLap /\ o.tank \in 0 .. Full /\ o.road \in BOOLEAN /\ s.lap \in Int /\ s.had_stop \in BOOLEAN
      /\ MaxLap \in Nat /\ Full \in Nat /\ None = -1
  BY Numbers DEF Snaps, Sources
<1>2. CASE s.lap = o.lap
  <2> DEFINE b == s.had_stop \/ o.road
  <2>1. b \in BOOLEAN
    BY Zenon
  <2>2. Followed(s, o) = [s EXCEPT !.had_stop = b]
    BY <1>2 DEF Followed
  <2> HIDE DEF b
  <2>3. /\ Followed(s, o) \in Sources /\ Followed(s, o).lap = s.lap
        /\ Followed(s, o).had_stop = b /\ Followed(s, o).crossing = s.crossing
    BY <2>1, <2>2 DEF Sources
  <2>4. (o.road => b) /\ (s.had_stop => b)
    BY DEF b
  <2>5. (o.road => Followed(s, o).had_stop) /\ (s.had_stop => Followed(s, o).had_stop)
    BY <2>3, <2>4
  <2> QED BY <1>2, <2>3, <2>5
<1>3. CASE s.lap # o.lap
  <2> DEFINE x == s.lap # None /\ o.lap > s.lap
  <2>1. x \in BOOLEAN
    BY Zenon
  <2>2. Followed(s, o) = [lap |-> o.lap, start |-> o.tank, had_stop |-> o.road, crossing |-> x]
    BY <1>3 DEF Followed
  <2>3. o.lap \in None .. MaxLap /\ o.tank \in None .. Full
    BY <1>1
  <2> HIDE DEF x
  <2>4. /\ Followed(s, o) \in Sources /\ Followed(s, o).lap = o.lap
        /\ Followed(s, o).had_stop = o.road /\ Followed(s, o).crossing = x
    BY <1>1, <2>1, <2>2, <2>3 DEF Sources
  <2>5. Followed(s, o).crossing => s.lap # None /\ o.lap > s.lap
    BY <2>4 DEF x
  <2>6. o.road => Followed(s, o).had_stop
    BY <2>4
  <2> QED BY <1>3, <2>4, <2>5, <2>6
<1> QED BY <1>2, <1>3

LEMMA RecordEffect ==
    ASSUME NEW s, NEW o, NEW truth
    PROVE  LET r == LapRecord(s, o, truth)
           IN /\ r.kind \in {"delta", "average", "guess"} /\ r.laps = o.lap - s.lap /\ r.truth = truth
              /\ r.kind = "delta" => ~ s.had_stop /\ ~ o.road
              /\ ~ r.late => ~ late /\ o.pos = 0
<1> DEFINE burned == s.start - o.tank
           stopped == StoppedOn(s, o) \/ burned < 0
           kind == IF ~ stopped THEN "delta" ELSE IF o.avg # None THEN "average" ELSE "guess"
           used == CASE kind = "delta" -> burned [] kind = "average" -> o.avg [] OTHER -> NotNegative(burned)
           r == LapRecord(s, o, truth)
           tardy == late \/ o.pos # 0
<1>1. r = [kind |-> kind, laps |-> o.lap - s.lap, truth |-> truth, late |-> tardy, used |-> used]
  BY DEF LapRecord
<1>2. kind \in {"delta", "average", "guess"} /\ (kind = "delta" => ~ stopped)
  <2> HIDE DEF stopped
  <2> QED OBVIOUS
<1>3. stopped <=> s.had_stop \/ o.road \/ burned < 0
  BY Zenon DEF StoppedOn
<1>4. r.kind = kind /\ r.laps = o.lap - s.lap /\ r.truth = truth /\ r.late = tardy
  <2> HIDE DEF kind, used, tardy, r
  <2> QED BY <1>1
<1>5. ~ r.late => ~ late /\ o.pos = 0
  <2>1. r.late = (late \/ o.pos # 0)
    BY <1>4
  <2> HIDE DEF r
  <2> QED BY <2>1, Zenon
<1>6. r.kind = "delta" => ~ s.had_stop /\ ~ o.road
  <2> HIDE DEF kind, stopped, burned, r
  <2> QED BY <1>2, <1>3, <1>4
<1>7. r.kind \in {"delta", "average", "guess"}
  <2> HIDE DEF kind, r
  <2> QED BY <1>2, <1>4
<1> QED BY <1>4, <1>5, <1>6, <1>7

LEMMA FrameKeeps == ASSUME FuelInv, Frame PROVE FuelInv'
<1>1. Types /\ TrackerFollows /\ WindowHolds /\ LineKnown /\ FramesSee /\ PlanFromWholeLaps /\ PlanCoversLastLap
  BY DEF FuelInv
<1>2. /\ car' = car /\ seat' = seat /\ gap' = gap /\ tracker' = tracker /\ live' = live /\ snap' = snap
      /\ latest' = latest /\ roads' = [then |-> snap.road, since |-> FALSE]
  BY DEF Frame
<1>3. /\ car \in Cars /\ tracker \in Trackers /\ live \in Lives /\ snap \in Snaps /\ source \in Sources
      /\ driven.by \in Drives /\ driven.told \in Drives /\ driven \in [by : Drives, told : Drives]
      /\ latest \in Int /\ seat \in BOOLEAN /\ gap \in BOOLEAN /\ late \in BOOLEAN /\ hidden \in BOOLEAN
      /\ snap.road \in BOOLEAN
  BY <1>1, TypesParts DEF Types, Snaps
<1>4. roads' \in [then : BOOLEAN, since : BOOLEAN] /\ roads'.then = snap.road /\ ~ roads'.since
  <2>1. roads' \in [then : BOOLEAN, since : BOOLEAN] /\ roads'.then = snap.road /\ roads'.since = FALSE
    BY <1>2, <1>3
  <2> QED BY <2>1
<1> DEFINE visit == roads.since /\ ~ roads.then /\ ~ snap.road
           crossed == source.lap # None /\ snap.lap > source.lap
           truth == [driven.told EXCEPT !.pits = hidden \/ visit]
<1> DEFINE Keeps == /\ source' \in Sources /\ late' \in BOOLEAN /\ hidden' \in BOOLEAN
                    /\ driven' \in [by : Drives, told : Drives] /\ driven'.by = driven.by
                    /\ FramesSee' /\ RecordsFromWholeLaps'
                    /\ record'.kind \in {"none", "delta", "average", "guess"}
<1>5. ASSUME Keeps PROVE FuelInv'
  <2>1. Types'
    <3>1. driven' = [by |-> driven'.by, told |-> driven'.told] /\ driven'.by \in Drives /\ driven'.told \in Drives
      BY <1>5
    <3>2. seat' \in BOOLEAN /\ gap' \in BOOLEAN
      BY <1>2, <1>3, Zenon
    <3> QED BY <1>2, <1>3, <1>4, <1>5, <3>1, <3>2, TypesNext
  <2>2. TrackerFollows' /\ WindowHolds'
    BY <1>1, <1>2, <1>5 DEF TrackerFollows, WindowHolds, Greediest
  <2>3. LineKnown'
    BY <1>1, <1>2 DEF LineKnown
  <2>4. PlanFromWholeLaps' /\ PlanCoversLastLap'
    BY <1>1, <1>2 DEF PlanFromWholeLaps, PlanCoversLastLap
  <2> QED BY <1>5, <2>1, <2>2, <2>3, <2>4 DEF FuelInv
<1>6. CASE snap.stale \/ ~ snap.mine
  <2>1. source' = NoSource /\ record' = NoRecord /\ driven' = driven
    BY <1>6 DEF Frame
  <2>2. late' \in BOOLEAN /\ hidden' \in BOOLEAN
    BY <1>6 DEF Frame
  <2>3. NoSource \in Sources /\ NoSource.lap = None /\ NoSource.crossing = FALSE
    BY Numbers DEF NoSource, Sources
  <2>4. FramesSee'
    <3>1. None <= car.lap
      BY <1>3, CarParts, Numbers
    <3> QED BY <1>1, <1>2, <2>1, <2>3, <3>1 DEF FramesSee
  <2>5. RecordsFromWholeLaps' /\ record'.kind = "none"
    BY <2>1 DEF RecordsFromWholeLaps, NoRecord
  <2> QED BY <1>3, <1>5, <2>1, <2>2, <2>3, <2>4, <2>5
<1>7. CASE ~ (snap.stale \/ ~ snap.mine)
  <2>1. /\ source' = Followed(source, snap)
        /\ record' = (IF Closes(source, snap) THEN LapRecord(source, snap, truth) ELSE NoRecord)
    BY <1>7 DEF Frame
  <2>2. source.lap = snap.lap => driven' = driven /\ late' = late /\ hidden' = (hidden \/ visit)
    BY <1>7 DEF Frame
  <2>3. source.lap # snap.lap => /\ driven' = [driven EXCEPT !.told = NothingDriven]
                                 /\ late' = (crossed /\ snap.pos # 0) /\ hidden' = FALSE
    BY <1>7 DEF Frame
  <2>4. /\ snap.lap = car.lap /\ snap.pos = car.pos /\ snap.lap \in Nat /\ snap.pos \in Nat
        /\ None = -1 /\ source.lap \in Int
    BY <1>1, <1>3, <1>7, CarParts, Numbers DEF FramesSee, Sources
  <2>5. /\ source' \in Sources /\ source'.lap = snap.lap
        /\ snap.road => source'.had_stop
        /\ source.lap = snap.lap => (source.had_stop => source'.had_stop) /\ source'.crossing = source.crossing
        /\ source.lap # snap.lap /\ source'.crossing => source.lap # None /\ snap.lap > source.lap
    BY <1>3, <2>1, FollowedEffect
  <2>6. NothingDriven \in Drives /\ NothingDriven.steps = 0 /\ NothingDriven.added = 0
    BY DEF NothingDriven, Drives
  <2>7. /\ driven' \in [by : Drives, told : Drives] /\ driven'.by = driven.by
        /\ source.lap # snap.lap => driven'.told = NothingDriven
    BY <1>3, <2>2, <2>3, <2>6
  <2>8. late' \in BOOLEAN /\ hidden' \in BOOLEAN
    <3>1. CASE source.lap = snap.lap
      BY <1>3, <2>2, <3>1, Zenon
    <3>2. CASE source.lap # snap.lap
      BY <2>3, <3>2, Zenon
    <3> QED BY <3>1, <3>2
  <2>9. source.lap # None /\ roads.since => source.had_stop \/ snap.road \/ visit
    BY <1>1 DEF FramesSee
  <2>10. source'.lap # None /\ driven'.told.added > 0 => source'.had_stop \/ hidden'
    <3>1. CASE source.lap = snap.lap
      <4>1. source.lap # None /\ driven' = driven
        BY <2>2, <2>4, <3>1
      <4>2. driven.told.added > 0 => source.had_stop \/ hidden \/ roads.since
        BY <1>1, <4>1 DEF FramesSee
      <4>3. hidden \/ visit => hidden'
        BY <2>2, <3>1, Zenon
      <4> HIDE DEF visit
      <4> QED BY <2>5, <2>9, <3>1, <4>1, <4>2, <4>3
    <3>2. CASE source.lap # snap.lap
      BY <2>6, <2>7, <3>2
    <3> QED BY <3>1, <3>2
  <2>11. source'.crossing /\ ~ late' => driven'.told.steps = (car.lap - source'.lap) * Sectors + car.pos
    <3>1. CASE source.lap = snap.lap
      <4>1. driven' = driven /\ late' = late /\ source'.lap = source.lap /\ source'.crossing = source.crossing
        BY <2>2, <2>5, <3>1
      <4> QED BY <1>1, <4>1 DEF FramesSee
    <3>2. CASE source.lap # snap.lap
      <4>1. SUFFICES ASSUME source'.crossing, ~ late'
                     PROVE  driven'.told.steps = (car.lap - source'.lap) * Sectors + car.pos
        OBVIOUS
      <4>2. crossed
        BY <2>5, <3>2, <4>1
      <4>3. ~ (crossed /\ snap.pos # 0)
        BY <2>3, <3>2, <4>1, Zenon
      <4>4. car.pos = 0 /\ driven'.told.steps = 0 /\ car.lap - source'.lap = 0
        BY <2>4, <2>5, <2>6, <2>7, <3>2, <4>2, <4>3
      <4>5. 0 * Sectors + 0 = 0
        BY Numbers
      <4> QED BY <4>4, <4>5
    <3> QED BY <3>1, <3>2
  <2>12. FramesSee'
    <3>1. source'.lap <= car.lap /\ source'.lap # None
      BY <2>4, <2>5
    <3> HIDE DEF visit, crossed, truth, Keeps
    <3> QED BY <1>1, <1>2, <1>4, <2>5, <2>10, <2>11, <3>1 DEF FramesSee
  <2>13. CASE ~ Closes(source, snap)
    <3>1. RecordsFromWholeLaps' /\ record'.kind = "none"
      BY <2>1, <2>13 DEF RecordsFromWholeLaps, NoRecord
    <3> QED BY <1>5, <2>5, <2>7, <2>8, <2>12, <3>1
  <2>14. CASE Closes(source, snap)
    <3>1. source.lap # None /\ source.crossing
      BY <2>14 DEF Closes
    <3>2. /\ record'.kind \in {"delta", "average", "guess"} /\ record'.laps = snap.lap - source.lap
          /\ record'.truth = truth
          /\ record'.kind = "delta" => ~ source.had_stop /\ ~ snap.road
          /\ ~ record'.late => ~ late /\ snap.pos = 0
      <4>1. record' = LapRecord(source, snap, truth)
        BY <2>1, <2>14
      <4> HIDE DEF truth
      <4> QED BY <4>1, RecordEffect
    <3>3. truth.steps = driven.told.steps /\ truth.added = driven.told.added
          /\ (~ truth.pits => ~ hidden /\ ~ visit)
      <4> DEFINE b == hidden \/ visit
      <4>1. truth = [driven.told EXCEPT !.pits = b]
        OBVIOUS
      <4>2. truth.steps = driven.told.steps /\ truth.added = driven.told.added /\ truth.pits = b
        <5> HIDE DEF truth, b
        <5> QED BY <1>3, <4>1 DEF Drives
      <4>3. truth.pits = (hidden \/ visit)
        BY <4>2
      <4>4. ~ truth.pits => ~ hidden /\ ~ visit
        <5> HIDE DEF truth, visit
        <5> QED BY <4>3, Zenon
      <4> QED BY <4>2, <4>4
    <3> HIDE DEF truth, visit, crossed
    <3>4. ASSUME record'.kind = "delta", ~ record'.late, ~ record'.truth.pits
          PROVE  record'.truth.added = 0 /\ record'.truth.steps = record'.laps * Sectors
      <4>1. ~ source.had_stop /\ ~ snap.road /\ ~ hidden /\ ~ visit /\ ~ late /\ snap.pos = 0
        BY <3>2, <3>3, <3>4
      <4>2. ~ (driven.told.added > 0) /\ driven.told.added \in Nat
        BY <1>1, <1>3, <2>9, <3>1, <4>1 DEF FramesSee, Drives
      <4>3. driven.told.steps = (car.lap - source.lap) * Sectors + car.pos
        BY <1>1, <3>1, <4>1 DEF FramesSee
      <4> DEFINE x == (car.lap - source.lap) * Sectors
      <4>4. x \in Int
        BY <2>4, LapsOfSectors
      <4>5. driven.told.steps = x + 0
        BY <2>4, <4>1, <4>3
      <4>6. (snap.lap - source.lap) * Sectors = x
        BY <2>4, Zenon
      <4> HIDE DEF x
      <4>7. driven.told.steps = x
        BY <4>4, <4>5
      <4>8. record'.truth.steps = x /\ record'.truth.added = 0
        BY <3>2, <3>3, <4>2, <4>7
      <4>9. record'.laps * Sectors = x
        BY <3>2, <4>6, Zenon
      <4> QED BY <4>8, <4>9
    <3>5. RecordsFromWholeLaps'
      BY <3>4 DEF RecordsFromWholeLaps
    <3> QED BY <1>5, <2>5, <2>7, <2>8, <2>12, <3>2, <3>5
  <2> QED BY <2>13, <2>14
<1> QED BY <1>6, <1>7

-------------------------------------------------------------------------------
LEMMA FuelInit == ASSUME Init PROVE FuelInv
<1>1. /\ car = Lap0 /\ tracker = NoTracker /\ live = NoLive /\ source = NoSource /\ record = NoRecord
      /\ snap = [lap |-> 0, pos |-> 0, tank |-> Full, road |-> FALSE, avg |-> None, mine |-> FALSE, stale |-> TRUE]
      /\ driven = [by |-> NothingDriven, told |-> NothingDriven] /\ latest = None
      /\ roads = [then |-> FALSE, since |-> FALSE]
  BY DEF Init
<1>2. {seat, gap, late, hidden} \subseteq BOOLEAN
  BY Zenon DEF Init
<1>3. /\ 0 \in 0 .. MaxLap /\ 0 \in 0 .. (Sectors - 1) /\ 0 \in 0 .. Full /\ Full \in 0 .. Full
      /\ 0 \in 0 .. (Window - 1) /\ None \in None .. Full /\ None \in None .. MaxLap /\ None \in Int
      /\ 0 <= Window /\ None < 0
  BY Numbers
<1>4. car \in Cars /\ car.lap = 0 /\ car.pos = 0 /\ car.burnt = 0
  BY <1>1, <1>3 DEF Lap0, Cars
<1>5. /\ tracker \in Trackers /\ tracker.recent = <<>> /\ tracker.last_lap = 0 /\ tracker.streak = 0
      /\ tracker.sampled = FALSE
  BY <1>1, <1>3 DEF NoTracker, Trackers
<1>6. live \in Lives /\ live.at = None /\ live.used = None /\ live.last_lap = None
  BY <1>1, <1>3 DEF NoLive, Lives
<1>7. snap \in Snaps /\ snap.stale = TRUE
  BY <1>1, <1>3 DEF Snaps
<1>8. source \in Sources /\ source.lap = None /\ source.crossing = FALSE
  BY <1>1, <1>3 DEF NoSource, Sources
<1>9. driven \in [by : Drives, told : Drives]
  BY <1>1 DEF NothingDriven, Drives
<1>10. roads \in [then : BOOLEAN, since : BOOLEAN]
  BY <1>1
<1>11. Types
  BY <1>1, <1>2, <1>3, <1>4, <1>5, <1>6, <1>7, <1>8, <1>9, <1>10, Zenon DEF Types
<1>12. TrackerFollows
  BY <1>4, <1>5 DEF TrackerFollows
<1>13. WindowHolds /\ PlanFromWholeLaps
  BY <1>3, <1>5 DEF WindowHolds, PlanFromWholeLaps
<1>14. LineKnown
  BY <1>4, <1>6 DEF LineKnown
<1>15. FramesSee
  BY <1>1, <1>3, <1>4, <1>7, <1>8 DEF FramesSee
<1>16. PlanCoversLastLap /\ RecordsFromWholeLaps /\ record.kind = "none"
  BY <1>1 DEF PlanCoversLastLap, RecordsFromWholeLaps, NoRecord
<1> QED BY <1>11, <1>12, <1>13, <1>14, <1>15, <1>16 DEF FuelInv

LEMMA FuelNext == ASSUME FuelInv, [Next]_vars PROVE FuelInv'
<1>1. Types
  BY DEF FuelInv
<1>2. ASSUME NEW b \in Burns, Drive(b) PROVE FuelInv'
  BY <1>1, <1>2, DriveMoves, StepKeeps
<1>3. ASSUME Linger \/ Pits \/ \E a \in Fills : Fill(a) PROVE FuelInv'
  BY <1>1, <1>3, OtherMoves, StepKeeps
<1>4. ASSUME UNCHANGED vars PROVE FuelInv'
  <2>1. UNCHANGED <<car, seat, gap, tracker, live, snap, source, record, driven, late, hidden, roads, latest>>
    BY <1>4 DEF vars
  <2>2. Types'
    BY <1>1, <2>1 DEF Types
  <2>3. TrackerFollows' /\ WindowHolds' /\ LineKnown' /\ FramesSee'
    BY <2>1 DEF FuelInv, TrackerFollows, WindowHolds, Greediest, LineKnown, FramesSee
  <2>4. PlanFromWholeLaps' /\ PlanCoversLastLap' /\ RecordsFromWholeLaps'
    BY <2>1 DEF FuelInv, PlanFromWholeLaps, PlanCoversLastLap, RecordsFromWholeLaps
  <2>5. record'.kind \in {"none", "delta", "average", "guess"}
    BY <2>1 DEF FuelInv
  <2> QED BY <2>2, <2>3, <2>4, <2>5 DEF FuelInv
<1> QED BY <1>2, <1>3, <1>4, SwapKeeps, FrameKeeps DEF Next

LEMMA FuelInvariant == Spec => []FuelInv
BY FuelInit, FuelNext, PTL DEF Spec

-------------------------------------------------------------------------------
(* What the three measurements mean.                                       *)

(* The books keep their types and the window its size (FuelTracker,
   LapFuelUse and EventSource).                                            *)
THEOREM FuelTypeCorrect == Spec => []TypeOK
<1>1. ASSUME FuelInv PROVE TypeOK
  <2>1. /\ Types /\ TrackerFollows /\ WindowHolds /\ FramesSee
        /\ record.kind \in {"none", "delta", "average", "guess"}
    BY <1>1 DEF FuelInv
  <2>2. car.pos \in 0..(Sectors - 1) /\ car.lap \in 0..MaxLap /\ car.tank \in 0..Full
    BY <2>1 DEF Types, Cars
  <2>3. {live.at, live.smoothed, live.used} \subseteq None..Full /\ tracker.streak \in 0..(Window - 1)
    BY <2>1 DEF Types, Lives, Trackers
  <2>4. source.lap \in None..car.lap
    BY <2>1, <2>2, Numbers DEF Types, Sources, FramesSee
  <2>5. {seat, gap, late, hidden} \subseteq BOOLEAN
    BY <2>1 DEF Types
  <2> QED BY <2>1, <2>2, <2>3, <2>4, <2>5 DEF TypeOK, TrackerFollows, WindowHolds, FramesSee
<1> QED BY <1>1, FuelInvariant, PTL

(* Every burn the fuel plan rests on is that of one whole lap outside the
   pit lane, whatever rows went missing (FuelTracker::observe).            *)
THEOREM ThePlanRestsOnWholeLaps == Spec => []PlanFromWholeLaps
<1>1. FuelInv => PlanFromWholeLaps
  BY DEF FuelInv
<1> QED BY <1>1, FuelInvariant, PTL

(* No lap fit to be measured burnt more than the plan goes by, however the
   window turned over (FuelTracker::record).                               *)
THEOREM ThePlanCoversTheLastLap == Spec => []PlanCoversLastLap
<1>1. FuelInv => PlanCoversLastLap
  BY DEF FuelInv
<1> QED BY <1>1, FuelInvariant, PTL

(* A record measured from the tank spans whole laps and no fill
   (EventSource::observe).                                                 *)
THEOREM RecordsSpanWholeLaps == Spec => []RecordsFromWholeLaps
<1>1. FuelInv => RecordsFromWholeLaps
  BY DEF FuelInv
<1> QED BY <1>1, FuelInvariant, PTL

(* The live figure is what the lap under way burnt, on a lap whose rows    *)
(* were seen from before the crossing on (LapFuelUse::update).             *)
THEOREM TheLiveFigureIsTheLaps == Spec => []LiveFromTheLine
<1>1. ASSUME FuelInv PROVE LiveFromTheLine
  <2>1. Types /\ LineKnown
    BY <1>1 DEF FuelInv
  <2>2. car.tank \in Nat /\ car.burnt \in Nat
    BY <2>1, TypesParts, CarParts
  <2>3. SUFFICES ASSUME live.used # None, live.whole, ~ gap
                 PROVE  live.used = car.burnt
    BY DEF LiveFromTheLine
  <2>4. live.at = car.tank + car.burnt /\ live.used = NotNegative(live.at - car.tank)
    BY <2>1, <2>3 DEF LineKnown
  <2> QED BY <2>2, <2>4 DEF NotNegative
<1> QED BY <1>1, FuelInvariant, PTL
===============================================================================
