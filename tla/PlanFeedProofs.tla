---------------------------- MODULE PlanFeedProofs ----------------------------
(***************************************************************************)
(* The iRacePlan worker shows what it looked up, keeps it current and asks *)
(* no more often than it says, for any rooms, plans, views and periods.    *)
(***************************************************************************)
EXTENDS PlanFeed, FiniteSetTheorems, TLAPS

-------------------------------------------------------------------------------
(* The inductive invariant.                                                *)

(* A plan in the feed was looked up for the feed's room, which is the room
   the timer is kept for; a request under way is for that room too.        *)
Books ==
    /\ feed.plan # NoPlan => confirmed = feed.room /\ refresh.key = feed.room
    /\ pc # "idle" => refresh.key = Key(ctx)
    /\ pc \in {"schedule", "plans"} => feed.plan = NoPlan
    /\ found # NoPlan => pc = "plans" /\ found.id \in Plans \ todo

(* Between two requests the timer of a plan in use runs, and with the time
   since the last request makes up a period.                               *)
TimerRuns ==
    pc = "idle" /\ ~ excused /\ feed.plan # NoPlan =>
        /\ refresh.next >= 0 /\ quiet + refresh.next >= Poll
        /\ refresh.next = 0 => late

(* How long ago the website may have changed a plan that is not what it
   holds: while it is read, in an answer, and in the feed.                 *)
Outdated(plan) == plan # NoPlan /\ plan.version # site[plan.id]
LooksCurrent == ~ feed.failed /\ ~ excused /\ Outdated(feed.plan)
Lateness == IF late THEN 1 ELSE 0
Ages ==
    /\ pc = "plans" /\ Outdated(found) => stable < Cardinality(Plans) - Cardinality(todo) + Lateness
    /\ pc = "finish" /\ result.kind = "ok" /\ Outdated(result.plan) => stable < Cardinality(Plans)
    /\ pc = "idle" /\ LooksCurrent => stable + refresh.next < Poll + Cardinality(Plans)
    /\ pc = "update" /\ LooksCurrent => stable < Poll + Cardinality(Plans) + Lateness
    /\ pc = "finish" /\ LooksCurrent => stable <= Poll + Cardinality(Plans)

PlanInv == TypeOK /\ Books /\ TimerRuns /\ Ages

-------------------------------------------------------------------------------
(* The records and what the operators make of them.                        *)

Refreshes == [key : Rooms \cup {"none"}, checked : BOOLEAN, next : -1 .. Poll]
Feeds == [room : Rooms \cup {"none"}, plan : Read \cup {NoPlan}, checking : BOOLEAN, failed : BOOLEAN]
Results == [kind : {"none", "ok", "failed", "gone"}, plan : Read \cup {NoPlan}]

LEMMA Numbers ==
    /\ Cardinality(Plans) \in Nat /\ Poll \in Nat /\ Poll > 0 /\ Stale \in Nat /\ Stale > 0
    /\ MaxEvents \in Nat /\ Bound \in Nat /\ Bound = Poll + Cardinality(Plans) + 1
<1>1. Cardinality(Plans) \in Nat
  BY FS_CardinalityType, PlanFeedAssumption
<1>2. Poll \in Nat /\ Poll > 0 /\ Stale \in Nat /\ Stale > 0 /\ MaxEvents \in Nat
  BY PlanFeedAssumption
<1> QED BY <1>1, <1>2 DEF Bound

LEMMA UpType == ASSUME NEW n \in 0 .. Bound PROVE Up(n) \in 0 .. Bound /\ Up(n) <= n + 1 /\ Up(n) >= n
BY Numbers DEF Up

LEMMA ForgetfulType == Forgetful \in Refreshes
BY Numbers DEF Forgetful, Refreshes

LEMMA KeyType == ASSUME NEW v \in Views \cup {NoView}
                 PROVE  /\ Key(v) \in Rooms \cup {"none"}
                        /\ v # NoView => Key(v) = v.room /\ v.room \in Rooms /\ Key(v) # "none"
BY PlanFeedAssumption DEF Key

LEMMA ForKeyType ==
    ASSUME NEW r \in Refreshes, NEW k \in Rooms \cup {"none"}
    PROVE  /\ ForKey(r, k) \in Refreshes /\ ForKey(r, k).key = k
           /\ r.key = k => ForKey(r, k) = r
           /\ r.key # k => ~ ForKey(r, k).checked
<1>1. [Forgetful EXCEPT !.key = k] \in Refreshes
  BY ForgetfulType DEF Refreshes
<1>2. [Forgetful EXCEPT !.key = k].key = k /\ [Forgetful EXCEPT !.key = k].checked = FALSE
  BY DEF Forgetful
<1> QED BY <1>1, <1>2 DEF ForKey

LEMMA UnmatchedType ==
    ASSUME NEW r \in Refreshes, NEW matched
    PROVE  /\ Unmatched(r, matched) \in Refreshes /\ Unmatched(r, matched).key = r.key
           /\ Unmatched(r, matched).checked = r.checked
           /\ matched => Unmatched(r, matched) = r
<1>1. [r EXCEPT !.next = -1] \in Refreshes /\ [r EXCEPT !.next = -1].key = r.key
      /\ [r EXCEPT !.next = -1].checked = r.checked
  BY Numbers DEF Refreshes
<1> QED BY <1>1 DEF Unmatched

LEMMA CompletedType ==
    ASSUME refresh \in Refreshes, NEW matched, NEW ok
    PROVE  /\ Completed(matched, ok) \in Refreshes /\ Completed(matched, ok).key = refresh.key
           /\ matched => Completed(matched, ok).next = Poll
<1>1. Poll \in -1 .. Poll /\ -1 \in -1 .. Poll
  BY Numbers
<1>2. (IF matched THEN Poll ELSE -1) \in -1 .. Poll
  BY <1>1
<1> QED BY <1>2 DEF Completed, Refreshes

LEMMA EmptyFeedType == EmptyFeed \in Feeds /\ EmptyFeed.plan = NoPlan
BY DEF EmptyFeed, Feeds

LEMMA CheckingType ==
    ASSUME NEW f, NEW k \in Rooms
    PROVE  Checking(f, k) \in Feeds /\ Checking(f, k).plan = NoPlan /\ Checking(f, k).room = k
<1> DEFINE named == [EmptyFeed EXCEPT !.room = k]
<1>1. named \in Feeds /\ named.plan = NoPlan /\ named.room = k
  BY EmptyFeedType DEF Feeds
<1>2. [named EXCEPT !.checking = TRUE] \in Feeds /\ [named EXCEPT !.checking = TRUE].plan = named.plan
      /\ [named EXCEPT !.checking = TRUE].room = named.room
  <2> HIDE DEF named
  <2> QED BY <1>1 DEF Feeds
<1> QED BY <1>1, <1>2 DEF Checking

LEMMA FailureType ==
    ASSUME NEW f \in Feeds, NEW kind
    PROVE  /\ Failure(f, kind) \in Feeds /\ Failure(f, kind).room = f.room
           /\ Failure(f, kind).plan \in {f.plan, NoPlan} /\ Failure(f, kind).failed
BY DEF Failure, Feeds

LEMMA FetchType ==
    ASSUME NEW p \in Plans, site[p] \in Version
    PROVE  Fetch(p) \in Read /\ Fetch(p).id = p /\ Fetch(p).version = site[p]
BY DEF Fetch, Read

-------------------------------------------------------------------------------
(* What the steps of the worker do to its books.                           *)

LEMMA TypeParts ==
    ASSUME TypeOK
    PROVE  /\ refresh \in Refreshes /\ feed \in Feeds /\ result \in Results
           /\ view \in Views \cup {NoView} /\ ctx \in Views \cup {NoView}
           /\ stable \in 0 .. Bound /\ quiet \in 0 .. Bound /\ age \in 0 .. Stale /\ events \in 0 .. MaxEvents
           /\ todo \subseteq Plans /\ found \in Read \cup {NoPlan}
BY DEF TypeOK, Refreshes, Feeds, Results

(* poll_session comes to a halt, asks for the schedule, or refreshes a plan. *)
SeesNothing ==
    /\ pc' = "idle" /\ ctx' = NoView /\ feed' = EmptyFeed /\ confirmed' = "none"
    /\ refresh' \in Refreshes /\ excused' /\ quiet' = quiet
HasNothingToDo ==
    /\ pc' = "idle" /\ ctx' = NoView /\ feed' = feed /\ confirmed' = confirmed
    /\ refresh' \in Refreshes /\ refresh'.key = refresh.key /\ quiet' = quiet
    /\ ~ excused' => ~ excused /\ refresh' = refresh /\ refresh.next > 0
AsksForTheSchedule ==
    /\ pc' = "schedule" /\ ctx' \in Views /\ ctx' # NoView
    /\ feed' \in Feeds /\ feed'.plan = NoPlan /\ confirmed' = "none"
    /\ refresh' \in Refreshes /\ refresh'.key = Key(ctx') /\ quiet' = quiet
AsksForThePlan ==
    /\ pc' = "update" /\ ctx' \in Views /\ ctx' # NoView
    /\ feed' = feed /\ feed.plan # NoPlan /\ confirmed' = confirmed
    /\ refresh' = refresh /\ refresh.key = Key(ctx') /\ refresh.next <= 0
    /\ quiet' = 0 /\ (~ excused' => ~ excused)

LEMMA PollEffect ==
    ASSUME TypeOK, PollOnce
    PROVE  /\ late' \in BOOLEAN /\ ~ late' /\ recheck' \in BOOLEAN /\ previous' \in BOOLEAN
           /\ dropped' \in BOOLEAN /\ excused' \in BOOLEAN
           /\ UNCHANGED <<view, enabled, site, todo, found, wrong, result, age, stable, events>>
           /\ SeesNothing \/ HasNothingToDo \/ AsksForTheSchedule \/ AsksForThePlan
<1> DEFINE reset == enabled # previous \/ recheck
           v == IF enabled THEN view ELSE NoView
           cached == IF reset THEN EmptyFeed ELSE feed
           matched == v # NoView /\ cached.room = v.room /\ Matches(v, cached.plan)
           kept == IF reset THEN Forgetful ELSE refresh
           keyed == ForKey(kept, Key(v))
           r == Unmatched(keyed, matched)
           action == DueAction(r, matched)
<1>1. /\ refresh' = (IF action = "discover" THEN [r EXCEPT !.checked = TRUE] ELSE r)
      /\ excused' = (excused \/ ~ matched)
      /\ quiet' = (IF action = "update" THEN 0 ELSE quiet)
      /\ dropped' = (dropped /\ r.checked /\ ~ reset)
  BY DEF PollOnce
<1>2. /\ CASE v = NoView ->
                /\ feed' = EmptyFeed /\ confirmed' = "none"
                /\ pc' = "idle" /\ ctx' = NoView
           [] v # NoView /\ action = "none" ->
                /\ feed' = cached /\ confirmed' = (IF reset THEN "none" ELSE confirmed)
                /\ pc' = "idle" /\ ctx' = NoView
           [] action = "discover" ->
                /\ feed' = Checking(feed, v.room)
                /\ confirmed' = "none" /\ pc' = "schedule" /\ ctx' = v
           [] action = "update" ->
                /\ UNCHANGED <<feed, confirmed>>
                /\ pc' = "update" /\ ctx' = v
  BY DEF PollOnce
<1>3. UNCHANGED <<view, enabled, site, todo, found, wrong, result, age, stable, events>>
  BY DEF PollOnce
<1>4. late' \in BOOLEAN /\ ~ late' /\ recheck' \in BOOLEAN
  BY DEF PollOnce
<1>5. previous' \in BOOLEAN
  <2>1. previous' = enabled
    BY DEF PollOnce
  <2>2. enabled \in BOOLEAN
    BY Zenon DEF TypeOK
  <2> QED BY <2>1, <2>2, Zenon
<1>6. v \in Views \cup {NoView} /\ kept \in Refreshes
  BY TypeParts, ForgetfulType
<1>7. Key(v) \in Rooms \cup {"none"} /\ (v # NoView => Key(v) = v.room /\ v.room \in Rooms /\ Key(v) # "none")
  <2> HIDE DEF v
  <2> QED BY <1>6, KeyType
<1>8. keyed \in Refreshes /\ keyed.key = Key(v) /\ (kept.key = Key(v) => keyed = kept)
      /\ (kept.key # Key(v) => ~ keyed.checked)
  <2> HIDE DEF v, kept
  <2> QED BY <1>6, <1>7, ForKeyType
<1>9. r \in Refreshes /\ r.key = Key(v) /\ r.checked = keyed.checked /\ (matched => r = keyed)
  <2> HIDE DEF v, kept, keyed, matched
  <2> QED BY <1>8, UnmatchedType
<1>10. excused' \in BOOLEAN /\ (~ excused' => ~ excused /\ matched)
  <2> HIDE DEF matched
  <2> QED BY <1>1, Zenon
<1>11. dropped' \in BOOLEAN
  BY <1>1, Zenon
<1>12. CASE v = NoView
  <2>1. ~ matched /\ r.key = "none"
    BY <1>9, <1>12 DEF Key
  <2>2. action = "none"
    <3> HIDE DEF r, matched
    <3> QED BY <2>1 DEF DueAction
  <2>3. refresh' = r /\ quiet' = quiet
    <3> HIDE DEF action, r
    <3> QED BY <1>1, <2>2
  <2>4. pc' = "idle" /\ ctx' = NoView /\ feed' = EmptyFeed /\ confirmed' = "none"
    <3> HIDE DEF action, cached, v, reset
    <3> QED BY <1>2, <1>12, <2>2
  <2>5. excused'
    BY <1>10, <2>1
  <2>6. SeesNothing
    <3> HIDE DEF r
    <3> QED BY <1>9, <2>3, <2>4, <2>5 DEF SeesNothing
  <2> QED BY <1>3, <1>4, <1>5, <1>10, <1>11, <2>6
<1>13. CASE v # NoView
  <2>1. r.key # "none"
    BY <1>7, <1>9, <1>13
  <2>2. r.checked => ~ reset /\ refresh.key = Key(v) /\ keyed = refresh
    <3>1. r.checked => kept.key = Key(v) /\ keyed = kept
      <4> HIDE DEF v, kept, keyed, r
      <4> QED BY <1>8, <1>9
    <3>2. kept.key = Key(v) => ~ reset
      <4>1. Key(v) # "none"
        BY <1>7, <1>13
      <4>2. reset => kept.key = "none"
        BY DEF Forgetful
      <4> HIDE DEF reset, kept, v
      <4> QED BY <4>1, <4>2
    <3>3. ~ reset => kept = refresh
      BY Zenon
    <3> HIDE DEF reset, kept, v, keyed, r
    <3> QED BY <3>1, <3>2, <3>3
  <2>3. CASE ~ r.checked
    <3>1. action = "discover"
      <4> HIDE DEF r, matched
      <4> QED BY <2>1, <2>3 DEF DueAction
    <3>2. refresh' = [r EXCEPT !.checked = TRUE] /\ quiet' = quiet
      <4> HIDE DEF action, r
      <4> QED BY <1>1, <3>1
    <3>3. refresh' \in Refreshes /\ refresh'.key = Key(v)
      <4> HIDE DEF r, v
      <4> QED BY <1>9, <3>2 DEF Refreshes
    <3>4. feed' = Checking(feed, v.room) /\ confirmed' = "none" /\ pc' = "schedule" /\ ctx' = v
      <4> HIDE DEF action, cached, v, reset
      <4> QED BY <1>2, <1>13, <3>1
    <3>5. feed' \in Feeds /\ feed'.plan = NoPlan
      <4> HIDE DEF v
      <4> QED BY <3>4, <1>7, <1>13, CheckingType
    <3>6. AsksForTheSchedule
      <4> HIDE DEF v
      <4> QED BY <1>6, <1>13, <3>2, <3>3, <3>4, <3>5 DEF AsksForTheSchedule
    <3> QED BY <1>3, <1>4, <1>5, <1>10, <1>11, <3>6
  <2>4. CASE r.checked /\ matched /\ r.next <= 0
    <3>1. action = "update"
      <4> HIDE DEF r, matched
      <4> QED BY <2>1, <2>4 DEF DueAction
    <3>2. refresh' = refresh /\ quiet' = 0
      <4> HIDE DEF action, r, keyed, matched, reset
      <4> QED BY <1>1, <1>9, <2>2, <2>4, <3>1
    <3>3. feed' = feed /\ confirmed' = confirmed /\ pc' = "update" /\ ctx' = v
      <4> HIDE DEF action, cached, v, reset
      <4> QED BY <1>2, <1>13, <3>1
    <3>4. refresh.next <= 0
      <4> HIDE DEF r, keyed, matched, reset
      <4> QED BY <1>9, <2>2, <2>4
    <3>5. feed.plan # NoPlan
      <4>1. ~ reset
        <5> HIDE DEF reset, r, matched
        <5> QED BY <2>2, <2>4
      <4>2. cached = feed
        <5> HIDE DEF reset
        <5> QED BY <4>1
      <4>3. matched => cached.plan # NoPlan
        <5> HIDE DEF cached, v
        <5> QED BY DEF Matches
      <4> HIDE DEF matched, cached, r
      <4> QED BY <4>2, <4>3, <2>4
    <3>6. AsksForThePlan
      <4> HIDE DEF v, r, matched, reset, keyed
      <4> QED BY <1>6, <1>10, <1>13, <2>2, <2>4, <3>2, <3>3, <3>4, <3>5 DEF AsksForThePlan
    <3> QED BY <1>3, <1>4, <1>5, <1>10, <1>11, <3>6
  <2>5. CASE r.checked /\ ~ (matched /\ r.next <= 0)
    <3>1. action = "none"
      <4> HIDE DEF r, matched
      <4> QED BY <2>1, <2>5 DEF DueAction
    <3>2. refresh' = r /\ quiet' = quiet
      <4> HIDE DEF action, r
      <4> QED BY <1>1, <3>1
    <3>3. ~ reset /\ refresh.key = Key(v) /\ keyed = refresh
      <4> HIDE DEF reset, r, v, keyed
      <4> QED BY <2>2, <2>5
    <3>4. feed' = cached /\ confirmed' = (IF reset THEN "none" ELSE confirmed) /\ pc' = "idle" /\ ctx' = NoView
      <4> HIDE DEF action, cached, v, reset
      <4> QED BY <1>2, <1>13, <3>1
    <3>5. cached = feed
      <4> HIDE DEF reset
      <4> QED BY <3>3
    <3>6. feed' = feed /\ confirmed' = confirmed
      <4> HIDE DEF cached, reset
      <4> QED BY <3>3, <3>4, <3>5
    <3>7. ~ excused' => ~ excused /\ r = refresh /\ refresh.next > 0
      <4>1. r \in Refreshes
        BY <1>9
      <4> HIDE DEF r, matched, keyed, reset, v
      <4> QED BY <4>1, <1>9, <1>10, <2>5, <3>3 DEF Refreshes
    <3>8. HasNothingToDo
      <4> HIDE DEF r, v, keyed, reset, cached
      <4> QED BY <1>9, <3>2, <3>3, <3>4, <3>6, <3>7 DEF HasNothingToDo
    <3> QED BY <1>3, <1>4, <1>5, <1>10, <1>11, <3>8
  <2> HIDE DEF r, matched
  <2> QED BY <2>3, <2>4, <2>5
<1> HIDE DEF v
<1> QED BY <1>12, <1>13

(* A request ends with an answer, lists the plans to look at, or looks at
   one of them.                                                            *)
Answers ==
    /\ pc \in {"schedule", "plans", "update"} /\ pc' = "finish"
    /\ todo' = {} /\ found' = NoPlan /\ wrong' \in BOOLEAN /\ result' \in Results
    /\ result'.kind = "ok" /\ Outdated(result'.plan) => pc = "plans" /\ todo # {} /\ result'.plan = found
ListsPlans ==
    /\ pc = "schedule" /\ pc' = "plans" /\ todo' \subseteq Plans
    /\ found' = found /\ wrong' = wrong /\ result' = result
ReadsOn ==
    /\ pc = "plans" /\ pc' = "plans" /\ wrong' \in BOOLEAN /\ result' = result
    /\ \E p \in todo :
          /\ todo' = todo \ {p}
          /\ \/ found' = found
             \/ found' \in Read /\ found'.id = p /\ found'.version = site[p]

LEMMA AnswerType ==
    ASSUME NEW kind \in {"ok", "failed", "gone"}, NEW plan \in Read \cup {NoPlan}, Answer(kind, plan)
    PROVE  /\ result' \in Results /\ result'.kind = kind /\ result'.plan = plan
           /\ pc' = "finish" /\ todo' = {} /\ found' = NoPlan /\ wrong' \in BOOLEAN
BY DEF Answer, Results

LEMMA ScheduleEffect ==
    ASSUME TypeOK, ReadSchedule
    PROVE  /\ UNCHANGED <<view, enabled, recheck, site, ctx, books, stable>>
           /\ late' \in BOOLEAN /\ ~ late' /\ events' \in 0 .. MaxEvents
           /\ Answers \/ ListsPlans
<1>1. pc = "schedule" /\ late' \in BOOLEAN /\ ~ late' /\ UNCHANGED <<view, enabled, recheck, site, ctx, books, stable>>
  BY DEF ReadSchedule
<1>2. events \in 0 .. MaxEvents /\ found \in Read \cup {NoPlan} /\ MaxEvents \in Nat
  BY TypeParts, Numbers
<1> DEFINE listed == {p \in Plans : ctx.room \in Fitting /\ site[p] # Gone}
<1>3. \/ Answer("failed", NoPlan) /\ UNCHANGED events
      \/ Event /\ \/ Answer("failed", NoPlan) \/ Answer("gone", NoPlan)
      \/ UNCHANGED events /\ Answer("ok", NoPlan)
      \/ UNCHANGED events /\ todo' = listed /\ pc' = "plans" /\ UNCHANGED <<found, wrong, result>>
  BY DEF ReadSchedule, Broken
<1>4. events' \in 0 .. MaxEvents
  <2> HIDE DEF listed
  <2> QED BY <1>2, <1>3 DEF Event
<1>5. ASSUME NEW kind \in {"ok", "failed", "gone"}, Answer(kind, NoPlan)
      PROVE  Answers
  BY <1>1, <1>5, AnswerType DEF Answers, Outdated
<1>6. ASSUME todo' = listed, pc' = "plans", UNCHANGED <<found, wrong, result>>
      PROVE  ListsPlans
  BY <1>1, <1>6 DEF ListsPlans
<1>7. Answers \/ ListsPlans
  <2> HIDE DEF listed
  <2> QED BY <1>3, <1>5, <1>6
<1> QED BY <1>1, <1>4, <1>7

LEMMA PlanningEffect ==
    ASSUME TypeOK, NEW p \in Plans, ReadPlanning(p)
    PROVE  /\ UNCHANGED <<view, enabled, recheck, site, ctx, books, stable>>
           /\ late' \in BOOLEAN /\ ~ late' /\ events' \in 0 .. MaxEvents
           /\ Answers \/ ReadsOn
<1>1. pc = "plans" /\ p \in todo /\ late' \in BOOLEAN /\ ~ late'
      /\ UNCHANGED <<view, enabled, recheck, site, ctx, books, stable>>
  BY DEF ReadPlanning
<1>2. events \in 0 .. MaxEvents /\ found \in Read \cup {NoPlan} /\ MaxEvents \in Nat /\ wrong \in BOOLEAN
  BY TypeParts, Numbers DEF TypeOK
<1> DEFINE match == IF site[p] \in Version /\ Matches(ctx, Fetch(p)) THEN Fetch(p) ELSE found
           bad == wrong \/ site[p] = Spoilt
<1>3. \/ Answer("failed", NoPlan) /\ UNCHANGED events
      \/ Event /\ \/ Answer("failed", NoPlan) \/ Answer("gone", NoPlan)
      \/ UNCHANGED events /\ \/ Answer("gone", NoPlan) \/ Answer("failed", NoPlan)
      \/ UNCHANGED events /\ Answer(Outcome(match, bad), match)
      \/ UNCHANGED events /\ todo' = todo \ {p} /\ found' = match /\ wrong' = bad /\ UNCHANGED <<pc, result>>
  BY DEF ReadPlanning, Broken
<1>4. events' \in 0 .. MaxEvents
  <2> HIDE DEF match, bad
  <2> QED BY <1>2, <1>3 DEF Event
<1>5. match = found \/ (match \in Read /\ match.id = p /\ match.version = site[p])
  <2>1. site[p] \in Version => Fetch(p) \in Read /\ Fetch(p).id = p /\ Fetch(p).version = site[p]
    BY FetchType
  <2> QED BY <2>1
<1>6. ASSUME NEW kind \in {"failed", "gone"}, Answer(kind, NoPlan)
      PROVE  Answers
  BY <1>1, <1>6, AnswerType DEF Answers, Outdated
<1>7. ASSUME Answer(Outcome(match, bad), match)
      PROVE  Answers
  <2>1. Outcome(match, bad) \in {"ok", "failed", "gone"} /\ match \in Read \cup {NoPlan}
    <3> HIDE DEF match, bad
    <3> QED BY <1>2, <1>5 DEF Outcome
  <2>2. result' \in Results /\ result'.plan = match
        /\ pc' = "finish" /\ todo' = {} /\ found' = NoPlan /\ wrong' \in BOOLEAN
    <3> HIDE DEF match, bad
    <3> QED BY <1>7, <2>1, AnswerType
  <2>3. Outdated(match) => match = found
    <3> HIDE DEF match, bad
    <3> QED BY <1>5 DEF Outdated
  <2> HIDE DEF match, bad
  <2> QED BY <1>1, <2>2, <2>3 DEF Answers
<1>8. ASSUME todo' = todo \ {p}, found' = match, wrong' = bad, UNCHANGED <<pc, result>>
      PROVE  ReadsOn
  <2>1. wrong' \in BOOLEAN
    BY <1>8, Zenon
  <2> HIDE DEF match, bad
  <2> QED BY <1>1, <1>5, <1>8, <2>1 DEF ReadsOn
<1>9. Answers \/ ReadsOn
  <2> HIDE DEF match, bad
  <2> QED BY <1>3, <1>6, <1>7, <1>8
<1> QED BY <1>1, <1>4, <1>9

LEMMA UpdateEffect ==
    ASSUME TypeOK, ReadUpdate
    PROVE  /\ UNCHANGED <<view, enabled, recheck, site, ctx, books, stable>>
           /\ late' \in BOOLEAN /\ ~ late' /\ events' \in 0 .. MaxEvents
           /\ Answers
<1>1. pc = "update" /\ late' \in BOOLEAN /\ ~ late' /\ UNCHANGED <<view, enabled, recheck, site, ctx, books, stable>>
  BY DEF ReadUpdate
<1>2. events \in 0 .. MaxEvents /\ MaxEvents \in Nat
  BY TypeParts, Numbers
<1>3. feed.plan \in Read /\ feed.plan.id \in Plans
  <2>1. feed.plan \in Read
    BY <1>1, TypeParts DEF TypeOK, Feeds
  <2> QED BY <2>1 DEF Read
<1> DEFINE id == feed.plan.id
<1>4. \/ Event /\ \/ Answer("failed", NoPlan) \/ Answer("gone", NoPlan)
      \/ UNCHANGED events /\ Answer("gone", NoPlan)
      \/ UNCHANGED events /\ site[id] \in Version /\ Answer("ok", Fetch(id))
  BY DEF ReadUpdate, Broken
<1>5. events' \in 0 .. MaxEvents
  <2> HIDE DEF id
  <2> QED BY <1>2, <1>4 DEF Event
<1>6. ASSUME NEW kind \in {"failed", "gone"}, Answer(kind, NoPlan)
      PROVE  Answers
  BY <1>1, <1>6, AnswerType DEF Answers, Outdated
<1>7. ASSUME site[id] \in Version, Answer("ok", Fetch(id))
      PROVE  Answers
  <2>1. Fetch(id) \in Read /\ Fetch(id).id = id /\ Fetch(id).version = site[id]
    BY <1>3, <1>7, FetchType
  <2>2. ~ Outdated(Fetch(id))
    BY <2>1 DEF Outdated
  <2>3. result' \in Results /\ result'.plan = Fetch(id)
        /\ pc' = "finish" /\ todo' = {} /\ found' = NoPlan /\ wrong' \in BOOLEAN
    BY <1>7, <2>1, AnswerType
  <2> HIDE DEF id
  <2> QED BY <1>1, <2>2, <2>3 DEF Answers
<1>8. Answers
  <2> HIDE DEF id
  <2> QED BY <1>4, <1>6, <1>7
<1> QED BY <1>1, <1>5, <1>8

(* What a finished lookup leaves in the feed.                              *)
Dropped ==
    /\ excused' /\ UNCHANGED <<feed, age, confirmed, refresh>>
Answered ==
    /\ feed' \in Feeds /\ feed'.room = ctx.room /\ feed'.plan \in {result.plan, NoPlan}
    /\ result.kind = "ok" /\ age' = 0 /\ confirmed' = ctx.room
    /\ refresh' \in Refreshes /\ refresh'.key = refresh.key
    /\ ~ excused' => refresh'.next = Poll
Refused ==
    /\ feed' \in Feeds /\ feed'.room = feed.room /\ feed'.plan \in {feed.plan, NoPlan} /\ feed'.failed
    /\ age' = age /\ confirmed' = confirmed
    /\ refresh' \in Refreshes /\ refresh'.key = refresh.key
    /\ ~ excused' => refresh'.next = Poll

LEMMA FinishEffect ==
    ASSUME TypeOK, Finish
    PROVE  /\ UNCHANGED <<view, enabled, recheck, site, todo, found, wrong, previous, quiet, stable, events>>
           /\ pc = "finish" /\ pc' = "idle" /\ ctx' = NoView /\ result' \in Results
           /\ late' \in BOOLEAN /\ ~ late' /\ dropped' \in BOOLEAN /\ excused' \in BOOLEAN
           /\ Dropped \/ Answered \/ Refused
<1>1. /\ UNCHANGED <<view, enabled, recheck, site, todo, found, wrong, previous, quiet, stable, events>>
      /\ pc = "finish" /\ pc' = "idle" /\ ctx' = NoView
      /\ late' \in BOOLEAN /\ ~ late'
  BY DEF Finish
<1>2. result' \in Results
  BY DEF Finish, NoResult, Results
<1>3. ctx # NoView /\ ctx.room \in Rooms
  BY <1>1, TypeParts, KeyType DEF TypeOK
<1> DEFINE plan == IF Matches(view, result.plan) THEN result.plan ELSE NoPlan
           answer == [room |-> ctx.room, plan |-> plan, checking |-> FALSE, failed |-> FALSE]
<1>4. CASE ~ StillThere(view, ctx)
  <2>1. dropped' = feed.checking /\ UNCHANGED <<feed, age, confirmed, refresh>>
    BY <1>4 DEF Finish
  <2>2. excused' \in BOOLEAN /\ excused'
    BY <1>4 DEF Finish
  <2>3. feed.checking \in BOOLEAN
    BY TypeParts DEF Feeds
  <2>4. dropped' \in BOOLEAN
    BY <2>1, <2>3
  <2> QED BY <1>1, <1>2, <2>1, <2>2, <2>4 DEF Dropped
<1>5. CASE StillThere(view, ctx) /\ result.kind = "ok"
  <2>1. feed' = answer /\ age' = 0 /\ confirmed' = ctx.room
        /\ refresh' = Completed(Matches(view, answer.plan), TRUE)
    BY <1>5 DEF Finish, Completed
  <2>2. excused' = ((excused /\ result.kind # "ok") \/ ~ Matches(view, answer.plan))
    BY <1>5 DEF Finish
  <2>3. dropped' \in BOOLEAN
    <3>1. dropped' = dropped
      BY <1>5 DEF Finish
    <3>2. dropped \in BOOLEAN
      BY Zenon DEF TypeOK
    <3> QED BY <3>1, <3>2, Zenon
  <2>4. excused' \in BOOLEAN /\ (~ excused' => Matches(view, answer.plan))
    <3> HIDE DEF answer
    <3> QED BY <2>2, Zenon
  <2>5. answer \in Feeds /\ answer.room = ctx.room /\ answer.plan \in {result.plan, NoPlan}
    <3>1. plan \in Read \cup {NoPlan} /\ plan \in {result.plan, NoPlan}
      BY TypeParts DEF Results
    <3> HIDE DEF plan
    <3> QED BY <1>3, <3>1 DEF Feeds
  <2>6. refresh' \in Refreshes /\ refresh'.key = refresh.key /\ (Matches(view, answer.plan) => refresh'.next = Poll)
    <3> HIDE DEF answer
    <3> QED BY <2>1, TypeParts, CompletedType
  <2>7. Answered
    <3> HIDE DEF answer
    <3> QED BY <1>5, <2>1, <2>4, <2>5, <2>6 DEF Answered
  <2> QED BY <1>1, <1>2, <2>3, <2>4, <2>7
<1>6. CASE StillThere(view, ctx) /\ result.kind # "ok"
  <2> DEFINE f == Failure(feed, result.kind)
  <2>1. feed' = f /\ age' = age /\ confirmed' = confirmed /\ refresh' = Completed(Matches(view, f.plan), FALSE)
    BY <1>6 DEF Finish, Completed
  <2>2. excused' = ((excused /\ result.kind # "ok") \/ ~ Matches(view, f.plan))
    BY <1>6 DEF Finish
  <2>3. dropped' \in BOOLEAN
    <3>1. dropped' = dropped
      BY <1>6 DEF Finish
    <3>2. dropped \in BOOLEAN
      BY Zenon DEF TypeOK
    <3> QED BY <3>1, <3>2, Zenon
  <2>4. excused' \in BOOLEAN /\ (~ excused' => Matches(view, f.plan))
    <3> HIDE DEF f
    <3> QED BY <2>2, Zenon
  <2>5. f \in Feeds /\ f.room = feed.room /\ f.plan \in {feed.plan, NoPlan} /\ f.failed
    BY TypeParts, FailureType
  <2>6. refresh' \in Refreshes /\ refresh'.key = refresh.key /\ (Matches(view, f.plan) => refresh'.next = Poll)
    <3> HIDE DEF f
    <3> QED BY <2>1, TypeParts, CompletedType
  <2>7. Refused
    <3> HIDE DEF f
    <3> QED BY <2>1, <2>4, <2>5, <2>6 DEF Refused
  <2> QED BY <1>1, <1>2, <2>3, <2>4, <2>7
<1> QED BY <1>4, <1>5, <1>6

-------------------------------------------------------------------------------
(* Every step preserves the invariant.                                     *)

LEMMA TypeNext ==
    ASSUME {enabled, recheck, previous, late, dropped, excused}' \subseteq BOOLEAN,
           wrong' \in BOOLEAN, site' \in [Plans -> Version \cup {Gone, Spoilt}],
           pc' \in {"idle", "schedule", "plans", "update", "finish"},
           refresh' \in Refreshes, feed' \in Feeds, result' \in Results,
           view' \in Views \cup {NoView}, ctx' \in Views \cup {NoView},
           stable' \in 0 .. Bound, quiet' \in 0 .. Bound, age' \in 0 .. Stale, events' \in 0 .. MaxEvents,
           todo' \subseteq Plans, found' \in Read \cup {NoPlan},
           confirmed' \in Rooms \cup {"none"},
           (pc' = "idle") = (ctx' = NoView),
           pc' = "update" => feed'.plan # NoPlan
    PROVE  TypeOK'
BY Zenon DEF TypeOK, Refreshes, Feeds, Results

LEMMA PollStep == ASSUME PlanInv, PollOnce PROVE PlanInv'
<1>1. TypeOK /\ Books /\ TimerRuns /\ Ages
  BY DEF PlanInv
<1>2. /\ late' \in BOOLEAN /\ ~ late' /\ recheck' \in BOOLEAN /\ previous' \in BOOLEAN
      /\ dropped' \in BOOLEAN /\ excused' \in BOOLEAN
      /\ view' = view /\ enabled' = enabled /\ site' = site /\ todo' = todo /\ found' = found
      /\ wrong' = wrong /\ result' = result /\ age' = age /\ stable' = stable /\ events' = events
      /\ SeesNothing \/ HasNothingToDo \/ AsksForTheSchedule \/ AsksForThePlan
  BY <1>1, PollEffect
<1>3. pc = "idle"
  BY DEF PollOnce
<1>4. found = NoPlan
  BY <1>1, <1>3 DEF Books
<1>5. {enabled, recheck, previous, late, dropped, excused}' \subseteq BOOLEAN
  <2>1. enabled' \in BOOLEAN
    <3>1. enabled \in BOOLEAN
      BY <1>1, Zenon DEF TypeOK
    <3> QED BY <3>1, <1>2, Zenon
  <2> QED BY <1>2, <2>1, Zenon
<1>6. TypeOK'
  <2>1. /\ pc' \in {"idle", "schedule", "plans", "update", "finish"}
        /\ refresh' \in Refreshes /\ feed' \in Feeds /\ ctx' \in Views \cup {NoView}
        /\ quiet' \in 0 .. Bound /\ confirmed' \in Rooms \cup {"none"}
        /\ (pc' = "idle") = (ctx' = NoView)
        /\ pc' = "update" => feed'.plan # NoPlan
    <3>1. quiet \in 0 .. Bound /\ 0 \in 0 .. Bound /\ confirmed \in Rooms \cup {"none"}
          /\ refresh \in Refreshes /\ feed \in Feeds
      BY <1>1, TypeParts, Numbers DEF TypeOK
    <3>2. CASE SeesNothing
      BY <3>1, <3>2, EmptyFeedType DEF SeesNothing
    <3>3. CASE HasNothingToDo
      BY <3>1, <3>3 DEF HasNothingToDo
    <3>4. CASE AsksForTheSchedule
      BY <3>1, <3>4 DEF AsksForTheSchedule
    <3>5. CASE AsksForThePlan
      BY <3>1, <3>5 DEF AsksForThePlan
    <3> QED BY <1>2, <3>2, <3>3, <3>4, <3>5
  <2>2. wrong' \in BOOLEAN /\ site' \in [Plans -> Version \cup {Gone, Spoilt}] /\ todo' \subseteq Plans
    BY <1>1, <1>2 DEF TypeOK
  <2>3. result' \in Results /\ view' \in Views \cup {NoView} /\ found' \in Read \cup {NoPlan}
        /\ stable' \in 0 .. Bound /\ age' \in 0 .. Stale /\ events' \in 0 .. MaxEvents
    BY <1>1, <1>2, TypeParts
  <2> QED BY <1>5, <2>1, <2>2, <2>3, TypeNext
<1>7. Books'
  <2>1. CASE SeesNothing
    BY <1>2, <1>4, <2>1, EmptyFeedType DEF SeesNothing, Books
  <2>2. CASE HasNothingToDo
    BY <1>1, <1>2, <1>4, <2>2 DEF HasNothingToDo, Books
  <2>3. CASE AsksForTheSchedule
    BY <1>2, <1>4, <2>3 DEF AsksForTheSchedule, Books
  <2>4. CASE AsksForThePlan
    BY <1>1, <1>2, <1>4, <2>4 DEF AsksForThePlan, Books
  <2> QED BY <1>2, <2>1, <2>2, <2>3, <2>4
<1>8. refresh.next \in -1 .. Poll /\ quiet \in Nat /\ stable \in Nat /\ Poll \in Nat /\ Cardinality(Plans) \in Nat
  BY <1>1, TypeParts, Numbers DEF Refreshes
<1>9. TimerRuns'
  <2>1. CASE SeesNothing
    BY <1>2, <2>1, EmptyFeedType DEF SeesNothing, TimerRuns
  <2>2. CASE HasNothingToDo
    <3>1. ~ excused /\ feed.plan # NoPlan => refresh.next >= 0 /\ quiet + refresh.next >= Poll
      BY <1>1, <1>3 DEF TimerRuns
    <3>2. feed' = feed /\ quiet' = quiet /\ (~ excused' => ~ excused /\ refresh' = refresh /\ refresh.next > 0)
      BY <2>2 DEF HasNothingToDo
    <3>3. ~ excused' /\ feed'.plan # NoPlan =>
             refresh'.next >= 0 /\ quiet' + refresh'.next >= Poll /\ refresh'.next # 0
      BY <3>1, <3>2, <1>8
    <3> QED BY <3>3 DEF TimerRuns
  <2>3. CASE AsksForTheSchedule
    BY <2>3 DEF AsksForTheSchedule, TimerRuns
  <2>4. CASE AsksForThePlan
    BY <2>4 DEF AsksForThePlan, TimerRuns
  <2> QED BY <1>2, <2>1, <2>2, <2>3, <2>4
<1>10. Ages'
  <2>1. ~ Outdated(found)'
    BY <1>2, <1>4 DEF Outdated
  <2>2. CASE SeesNothing
    BY <2>1, <2>2, EmptyFeedType DEF SeesNothing, Ages, LooksCurrent
  <2>3. CASE HasNothingToDo
    <3>1. feed' = feed /\ pc' = "idle" /\ (~ excused' => ~ excused /\ refresh' = refresh)
      BY <2>3 DEF HasNothingToDo
    <3>2. LooksCurrent' => LooksCurrent /\ refresh' = refresh
      BY <1>2, <3>1 DEF LooksCurrent, Outdated
    <3>3. LooksCurrent => stable + refresh.next < Poll + Cardinality(Plans)
      BY <1>1, <1>3 DEF Ages
    <3>4. LooksCurrent' => (stable + refresh.next)' < Poll + Cardinality(Plans)
      BY <1>2, <3>2, <3>3
    <3> QED BY <2>1, <3>1, <3>4 DEF Ages
  <2>4. CASE AsksForTheSchedule
    BY <2>1, <2>4 DEF AsksForTheSchedule, Ages, LooksCurrent, Outdated
  <2>5. CASE AsksForThePlan
    <3>1. feed' = feed /\ pc' = "update" /\ (~ excused' => ~ excused) /\ refresh.next <= 0
      BY <2>5 DEF AsksForThePlan
    <3>2. LooksCurrent' => LooksCurrent
      BY <1>2, <3>1 DEF LooksCurrent, Outdated
    <3>3. LooksCurrent => stable + refresh.next < Poll + Cardinality(Plans) /\ refresh.next >= 0
      BY <1>1, <1>3 DEF Ages, TimerRuns, LooksCurrent, Outdated
    <3>4. LooksCurrent' => stable' < Poll + Cardinality(Plans)
      BY <1>2, <3>1, <3>2, <3>3, <1>8
    <3>5. LooksCurrent' => stable' < Poll + Cardinality(Plans) + Lateness'
      BY <1>2, <1>8, <3>4 DEF Lateness
    <3> QED BY <2>1, <3>1, <3>5 DEF Ages
  <2> QED BY <1>2, <2>2, <2>3, <2>4, <2>5
<1> QED BY <1>6, <1>7, <1>9, <1>10 DEF PlanInv

LEMMA UnreadableStep == ASSUME PlanInv, PollUnreadable PROVE PlanInv'
<1>1. TypeOK /\ Books
  BY DEF PlanInv
<1>2. /\ pc = "idle" /\ refresh' = Forgetful /\ feed' = [EmptyFeed EXCEPT !.failed = TRUE]
      /\ confirmed' = "none" /\ dropped' \in BOOLEAN /\ excused' \in BOOLEAN /\ excused' /\ late' \in BOOLEAN
      /\ events' = events + 1 /\ events < MaxEvents
      /\ view' = view /\ enabled' = enabled /\ recheck' = recheck /\ site' = site /\ previous' = previous
      /\ age' = age /\ quiet' = quiet /\ stable' = stable
      /\ pc' = pc /\ ctx' = ctx /\ todo' = todo /\ found' = found /\ wrong' = wrong /\ result' = result
  BY DEF PollUnreadable, Event, worker
<1>3. feed' \in Feeds /\ feed'.plan = NoPlan /\ found = NoPlan
  <2>1. feed' \in Feeds /\ feed'.plan = EmptyFeed.plan
    BY <1>2, EmptyFeedType DEF Feeds
  <2> QED BY <1>1, <1>2, <2>1, EmptyFeedType DEF Books
<1>4. TypeOK'
  <2>1. {enabled, recheck, previous} \subseteq BOOLEAN
    BY <1>1, Zenon DEF TypeOK
  <2>2. {enabled, recheck, previous, late, dropped, excused}' \subseteq BOOLEAN
    BY <1>2, <2>1, Zenon
  <2>3. wrong' \in BOOLEAN /\ site' \in [Plans -> Version \cup {Gone, Spoilt}] /\ todo' \subseteq Plans
        /\ pc' \in {"idle", "schedule", "plans", "update", "finish"} /\ (pc' = "idle") = (ctx' = NoView)
    BY <1>1, <1>2 DEF TypeOK
  <2>4. result' \in Results /\ view' \in Views \cup {NoView} /\ found' \in Read \cup {NoPlan}
        /\ ctx' \in Views \cup {NoView}
        /\ stable' \in 0 .. Bound /\ quiet' \in 0 .. Bound /\ age' \in 0 .. Stale /\ events' \in 0 .. MaxEvents
    BY <1>1, <1>2, TypeParts, Numbers
  <2>5. refresh' \in Refreshes /\ confirmed' \in Rooms \cup {"none"}
    BY <1>2, ForgetfulType
  <2> QED BY <1>2, <1>3, <2>2, <2>3, <2>4, <2>5, TypeNext
<1>5. Books'
  BY <1>2, <1>3 DEF Books
<1>6. TimerRuns'
  BY <1>3 DEF TimerRuns
<1>7. Ages'
  BY <1>2, <1>3 DEF Ages, LooksCurrent, Outdated
<1> QED BY <1>4, <1>5, <1>6, <1>7 DEF PlanInv

LEMMA TodoSize ==
    ASSUME todo \subseteq Plans
    PROVE  /\ Cardinality(todo) \in Nat /\ Cardinality(todo) <= Cardinality(Plans)
           /\ todo # {} => Cardinality(todo) >= 1
           /\ \A p \in todo : Cardinality(todo \ {p}) = Cardinality(todo) - 1
           /\ \A p \in Plans \ todo : Cardinality(todo) < Cardinality(Plans)
<1>1. IsFiniteSet(Plans) /\ IsFiniteSet(todo)
  BY PlanFeedAssumption, FS_Subset
<1>2. Cardinality(todo) \in Nat /\ Cardinality(Plans) \in Nat /\ Cardinality(todo) <= Cardinality(Plans)
  BY <1>1, FS_CardinalityType, FS_Subset
<1>3. todo # {} => Cardinality(todo) # 0
  BY <1>1, FS_EmptySet
<1>4. \A p \in todo : Cardinality(todo \ {p}) = Cardinality(todo) - 1
  BY <1>1, FS_RemoveElement
<1>5. todo # Plans => Cardinality(todo) < Cardinality(Plans)
  BY <1>1, <1>2, FS_Subset
<1> QED BY <1>2, <1>3, <1>4, <1>5

LEMMA AnyPlan == ASSUME NEW p \in Plans PROVE Cardinality(Plans) >= 1
<1>1. Cardinality(Plans) # 0
  BY PlanFeedAssumption, FS_EmptySet
<1> QED BY <1>1, Numbers

LEMMA RequestEffect ==
    ASSUME TypeOK, Request
    PROVE  /\ view' = view /\ enabled' = enabled /\ recheck' = recheck /\ site' = site /\ ctx' = ctx
           /\ previous' = previous /\ refresh' = refresh /\ feed' = feed /\ age' = age
           /\ confirmed' = confirmed /\ dropped' = dropped /\ excused' = excused /\ quiet' = quiet
           /\ stable' = stable /\ late' \in BOOLEAN /\ ~ late' /\ events' \in 0 .. MaxEvents
           /\ Answers \/ ListsPlans \/ ReadsOn
<1>1. /\ UNCHANGED <<view, enabled, recheck, site, ctx, books, stable>>
      /\ late' \in BOOLEAN /\ ~ late' /\ events' \in 0 .. MaxEvents
      /\ Answers \/ ListsPlans \/ ReadsOn
  <2>1. CASE ReadSchedule
    BY <2>1, ScheduleEffect
  <2>2. CASE ReadUpdate
    BY <2>2, UpdateEffect
  <2>3. CASE \E p \in Plans : ReadPlanning(p)
    BY <2>3, PlanningEffect
  <2> QED BY <2>1, <2>2, <2>3 DEF Request
<1> QED BY <1>1 DEF books

LEMMA RequestStep == ASSUME PlanInv, Request PROVE PlanInv'
<1>1. TypeOK /\ Books /\ TimerRuns /\ Ages
  BY DEF PlanInv
<1>2. /\ view' = view /\ enabled' = enabled /\ recheck' = recheck /\ site' = site /\ ctx' = ctx
      /\ previous' = previous /\ refresh' = refresh /\ feed' = feed /\ age' = age
      /\ confirmed' = confirmed /\ dropped' = dropped /\ excused' = excused /\ quiet' = quiet
      /\ stable' = stable /\ late' \in BOOLEAN /\ ~ late' /\ events' \in 0 .. MaxEvents
      /\ Answers \/ ListsPlans \/ ReadsOn
  BY <1>1, RequestEffect
<1>3. pc \in {"schedule", "plans", "update"} /\ pc' \in {"plans", "finish"}
      /\ (pc' = "plans" => pc \in {"schedule", "plans"})
  BY <1>2 DEF Answers, ListsPlans, ReadsOn
<1>4. todo \subseteq Plans /\ found \in Read \cup {NoPlan} /\ result \in Results
      /\ stable \in Nat /\ Poll \in Nat /\ Cardinality(Plans) \in Nat
  BY <1>1, TypeParts, Numbers
<1>5. TypeOK'
  <2>1. {enabled, recheck, previous, dropped, excused} \subseteq BOOLEAN
    BY <1>1, Zenon DEF TypeOK
  <2>2. {enabled, recheck, previous, late, dropped, excused}' \subseteq BOOLEAN
    BY <1>2, <2>1, Zenon
  <2>3. wrong \in BOOLEAN
    BY <1>1, Zenon DEF TypeOK
  <2>4. wrong' \in BOOLEAN
    <3>1. wrong' \in BOOLEAN \/ wrong' = wrong
      BY <1>2 DEF Answers, ListsPlans, ReadsOn
    <3> QED BY <2>3, <3>1, Zenon
  <2>5. result' \in Results /\ todo' \subseteq Plans /\ found' \in Read \cup {NoPlan}
    BY <1>2, <1>4 DEF Answers, ListsPlans, ReadsOn
  <2>6. site' \in [Plans -> Version \cup {Gone, Spoilt}] /\ confirmed' \in Rooms \cup {"none"}
        /\ pc' \in {"idle", "schedule", "plans", "update", "finish"} /\ (pc' = "idle") = (ctx' = NoView)
    BY <1>1, <1>2, <1>3 DEF TypeOK
  <2>7. /\ refresh' \in Refreshes /\ feed' \in Feeds
        /\ view' \in Views \cup {NoView} /\ ctx' \in Views \cup {NoView}
        /\ stable' \in 0 .. Bound /\ quiet' \in 0 .. Bound /\ age' \in 0 .. Stale
    BY <1>1, <1>2, TypeParts
  <2> QED BY <1>2, <1>3, <2>2, <2>4, <2>5, <2>6, <2>7, TypeNext
<1>6. found' # NoPlan => pc' = "plans" /\ found'.id \in Plans \ todo'
  <2>1. CASE Answers
    BY <2>1 DEF Answers
  <2>2. CASE ListsPlans
    BY <1>1, <2>2 DEF ListsPlans, Books
  <2>3. CASE ReadsOn
    <3>1. PICK p \in todo : /\ todo' = todo \ {p}
                            /\ \/ found' = found
                               \/ found' \in Read /\ found'.id = p /\ found'.version = site[p]
      BY <2>3 DEF ReadsOn
    <3> QED BY <1>1, <1>4, <2>3, <3>1 DEF Books, ReadsOn
  <2> QED BY <1>2, <2>1, <2>2, <2>3
<1>7. Books'
  BY <1>1, <1>2, <1>3, <1>6 DEF Books
<1>8. TimerRuns'
  BY <1>3 DEF TimerRuns
<1>9. pc' = "plans" /\ Outdated(found)' => stable' < Cardinality(Plans) - Cardinality(todo)' + Lateness'
  <2>1. CASE Answers
    BY <2>1 DEF Answers
  <2>2. CASE ListsPlans
    BY <1>1, <2>2 DEF ListsPlans, Books, Outdated
  <2>3. CASE ReadsOn
    <3>1. PICK p \in todo : /\ todo' = todo \ {p}
                            /\ \/ found' = found
                               \/ found' \in Read /\ found'.id = p /\ found'.version = site[p]
      BY <2>3 DEF ReadsOn
    <3>2. Outdated(found)' => Outdated(found)
      BY <1>2, <3>1 DEF Outdated
    <3>3. Outdated(found) => stable < Cardinality(Plans) - Cardinality(todo) + Lateness
      BY <1>1, <2>3 DEF Ages, ReadsOn
    <3>4. Cardinality(todo)' = Cardinality(todo) - 1 /\ Cardinality(todo) \in Nat
      BY <1>4, <3>1, TodoSize
    <3>5. Lateness \in {0, 1} /\ Lateness' \in {0, 1}
      BY DEF Lateness
    <3> QED BY <1>2, <1>4, <3>2, <3>3, <3>4, <3>5
  <2> QED BY <1>2, <2>1, <2>2, <2>3
<1>10. pc' = "finish" /\ result'.kind = "ok" /\ Outdated(result.plan)' => stable' < Cardinality(Plans)
  <2>1. SUFFICES ASSUME pc' = "finish", result'.kind = "ok", Outdated(result.plan)'
                 PROVE  stable' < Cardinality(Plans)
    OBVIOUS
  <2>2. Answers
    BY <1>2, <2>1 DEF ListsPlans, ReadsOn
  <2>3. Outdated(result'.plan)
    BY <1>2, <2>1 DEF Outdated
  <2>4. pc = "plans" /\ todo # {} /\ Outdated(found)
    BY <2>1, <2>2, <2>3 DEF Answers
  <2>5. stable < Cardinality(Plans) - Cardinality(todo) + Lateness
    BY <1>1, <2>4 DEF Ages
  <2>6. Cardinality(todo) \in Nat /\ Cardinality(todo) >= 1
    BY <1>4, <2>4, TodoSize
  <2>7. Lateness \in {0, 1}
    BY DEF Lateness
  <2> QED BY <1>2, <1>4, <2>5, <2>6, <2>7
<1>11. pc' = "finish" /\ LooksCurrent' => stable' <= Poll + Cardinality(Plans)
  <2>1. LooksCurrent' => LooksCurrent
    BY <1>2 DEF LooksCurrent, Outdated
  <2>2. CASE pc \in {"schedule", "plans"}
    BY <1>1, <2>1, <2>2 DEF Books, LooksCurrent, Outdated
  <2>3. CASE pc = "update"
    <3>1. LooksCurrent => stable < Poll + Cardinality(Plans) + Lateness
      BY <1>1, <2>3 DEF Ages
    <3>2. Lateness \in {0, 1}
      BY DEF Lateness
    <3> QED BY <1>2, <1>4, <2>1, <3>1, <3>2
  <2> QED BY <1>3, <2>2, <2>3
<1>12. Ages'
  BY <1>3, <1>9, <1>10, <1>11 DEF Ages
<1> QED BY <1>5, <1>7, <1>8, <1>12 DEF PlanInv

LEMMA FinishStep == ASSUME PlanInv, Finish PROVE PlanInv'
<1>1. TypeOK /\ Books /\ TimerRuns /\ Ages
  BY DEF PlanInv
<1>2. /\ view' = view /\ enabled' = enabled /\ recheck' = recheck /\ site' = site /\ todo' = todo
      /\ found' = found /\ wrong' = wrong /\ previous' = previous /\ quiet' = quiet /\ stable' = stable
      /\ events' = events
      /\ pc = "finish" /\ pc' = "idle" /\ ctx' = NoView /\ result' \in Results
      /\ late' \in BOOLEAN /\ ~ late' /\ dropped' \in BOOLEAN /\ excused' \in BOOLEAN
      /\ Dropped \/ Answered \/ Refused
  BY <1>1, FinishEffect
<1>3. ctx # NoView /\ ctx.room \in Rooms /\ Key(ctx) = ctx.room
  BY <1>1, <1>2, TypeParts, KeyType DEF TypeOK
<1>4. refresh.key = ctx.room /\ found = NoPlan
  BY <1>1, <1>2, <1>3 DEF Books
<1>5. TypeOK'
  <2>1. {enabled, recheck, previous} \subseteq BOOLEAN
    BY <1>1, Zenon DEF TypeOK
  <2>2. {enabled, recheck, previous, late, dropped, excused}' \subseteq BOOLEAN
    BY <1>2, <2>1, Zenon
  <2>3. wrong' \in BOOLEAN /\ site' \in [Plans -> Version \cup {Gone, Spoilt}]
    BY <1>1, <1>2 DEF TypeOK
  <2>4. /\ view' \in Views \cup {NoView} /\ ctx' \in Views \cup {NoView}
        /\ todo' \subseteq Plans /\ found' \in Read \cup {NoPlan}
        /\ stable' \in 0 .. Bound /\ quiet' \in 0 .. Bound /\ events' \in 0 .. MaxEvents
    BY <1>1, <1>2, TypeParts
  <2>5. refresh' \in Refreshes /\ feed' \in Feeds /\ age' \in 0 .. Stale /\ confirmed' \in Rooms \cup {"none"}
    <3>1. refresh \in Refreshes /\ feed \in Feeds /\ age \in 0 .. Stale /\ confirmed \in Rooms \cup {"none"}
          /\ 0 \in 0 .. Stale
      BY <1>1, TypeParts, Numbers DEF TypeOK
    <3> QED BY <1>2, <1>3, <3>1 DEF Dropped, Answered, Refused
  <2>6. pc' \in {"idle", "schedule", "plans", "update", "finish"} /\ (pc' = "idle") = (ctx' = NoView)
        /\ (pc' = "update" => feed'.plan # NoPlan)
    BY <1>2
  <2> QED BY <1>2, <2>2, <2>3, <2>4, <2>5, <2>6, TypeNext
<1>6. Books'
  <2>1. feed'.plan # NoPlan => confirmed' = feed'.room /\ refresh'.key = feed'.room
    BY <1>1, <1>2, <1>4 DEF Books, Dropped, Answered, Refused
  <2> QED BY <1>2, <1>4, <2>1 DEF Books
<1>7. ~ excused' => refresh'.next = Poll
  BY <1>2 DEF Dropped, Answered, Refused
<1>8. quiet' \in Nat /\ stable' \in Nat /\ Poll \in Nat /\ Poll > 0 /\ Cardinality(Plans) \in Nat
  BY <1>1, <1>2, TypeParts, Numbers
<1>9. TimerRuns'
  BY <1>7, <1>8 DEF TimerRuns
<1>10. LooksCurrent' => stable' < Cardinality(Plans) /\ refresh'.next = Poll
  <2>1. SUFFICES ASSUME LooksCurrent'
                 PROVE  stable' < Cardinality(Plans) /\ refresh'.next = Poll
    OBVIOUS
  <2>2. ~ feed'.failed /\ ~ excused' /\ Outdated(feed'.plan)
    BY <1>2, <2>1 DEF LooksCurrent, Outdated
  <2>3. Answered
    BY <1>2, <2>2 DEF Dropped, Refused
  <2>4. result.kind = "ok" /\ Outdated(result.plan)
    BY <2>2, <2>3 DEF Answered, Outdated
  <2> QED BY <1>1, <1>2, <1>7, <2>2, <2>4 DEF Ages
<1>11. Ages'
  BY <1>2, <1>8, <1>10 DEF Ages
<1> QED BY <1>5, <1>6, <1>9, <1>11 DEF PlanInv

(* What the frame loop sees, and the settings, are only read in PollOnce.  *)
LEMMA OutsideStep ==
    ASSUME PlanInv, view' \in Views \cup {NoView}, {enabled, recheck}' \subseteq BOOLEAN, Event,
           UNCHANGED <<site, worker, books, late, stable>>
    PROVE  PlanInv'
<1>1. TypeOK /\ Books /\ TimerRuns /\ Ages
  BY DEF PlanInv
<1>2. /\ site' = site /\ late' = late /\ stable' = stable /\ pc' = pc /\ ctx' = ctx
      /\ todo' = todo /\ found' = found /\ wrong' = wrong /\ result' = result
      /\ previous' = previous /\ refresh' = refresh /\ feed' = feed /\ age' = age
      /\ confirmed' = confirmed /\ dropped' = dropped /\ excused' = excused /\ quiet' = quiet
  BY DEF worker, books
<1>3. TypeOK'
  <2>1. {previous, late, dropped, excused} \subseteq BOOLEAN
    BY <1>1, Zenon DEF TypeOK
  <2>2. {enabled, recheck, previous, late, dropped, excused}' \subseteq BOOLEAN
    BY <1>2, <2>1, Zenon
  <2>3. /\ wrong' \in BOOLEAN /\ site' \in [Plans -> Version \cup {Gone, Spoilt}]
        /\ pc' \in {"idle", "schedule", "plans", "update", "finish"} /\ (pc' = "idle") = (ctx' = NoView)
        /\ (pc' = "update" => feed'.plan # NoPlan) /\ confirmed' \in Rooms \cup {"none"}
    BY <1>1, <1>2 DEF TypeOK
  <2>4. /\ ctx' \in Views \cup {NoView} /\ refresh' \in Refreshes /\ feed' \in Feeds /\ result' \in Results
        /\ todo' \subseteq Plans /\ found' \in Read \cup {NoPlan}
        /\ stable' \in 0 .. Bound /\ quiet' \in 0 .. Bound /\ age' \in 0 .. Stale
    BY <1>1, <1>2, TypeParts
  <2>5. events' \in 0 .. MaxEvents
    BY <1>1, TypeParts, Numbers DEF Event
  <2> QED BY <2>2, <2>3, <2>4, <2>5, TypeNext
<1>4. Books' /\ TimerRuns'
  BY <1>1, <1>2 DEF Books, TimerRuns
<1>5. Ages'
  BY <1>1, <1>2 DEF Ages, LooksCurrent, Outdated, Lateness
<1> QED BY <1>3, <1>4, <1>5 DEF PlanInv

LEMMA LookStep == ASSUME PlanInv, NEW v \in Views \cup {NoView}, Look(v) PROVE PlanInv'
<1>1. {enabled, recheck} \subseteq BOOLEAN
  BY Zenon DEF PlanInv, TypeOK
<1>2. enabled' = enabled /\ recheck' = recheck /\ view' = v /\ Event
      /\ UNCHANGED <<site, worker, books, late, stable>>
  BY DEF Look
<1>3. {enabled, recheck}' \subseteq BOOLEAN
  BY <1>1, <1>2, Zenon
<1> QED BY <1>2, <1>3, OutsideStep

LEMMA SaveStep == ASSUME PlanInv, NEW on \in BOOLEAN, SaveConnection(on) PROVE PlanInv'
<1>1. enabled' = on /\ recheck' = TRUE
  BY Zenon DEF SaveConnection
<1>2. {enabled, recheck}' \subseteq BOOLEAN
  BY <1>1, Zenon
<1>3. view' \in Views \cup {NoView} /\ Event /\ UNCHANGED <<site, worker, books, late, stable>>
  BY TypeParts DEF SaveConnection, PlanInv
<1> QED BY <1>2, <1>3, OutsideStep

LEMMA EditStep == ASSUME PlanInv, NEW p \in Plans, EditSite(p) PROVE PlanInv'
<1>1. TypeOK /\ Books /\ TimerRuns
  BY DEF PlanInv
<1>2. /\ late' = late /\ stable' = 0 /\ pc' = pc /\ ctx' = ctx /\ view' = view /\ enabled' = enabled
      /\ recheck' = recheck
      /\ todo' = todo /\ found' = found /\ wrong' = wrong /\ result' = result
      /\ previous' = previous /\ refresh' = refresh /\ feed' = feed /\ age' = age
      /\ confirmed' = confirmed /\ dropped' = dropped /\ excused' = excused /\ quiet' = quiet
  BY DEF EditSite, worker, books
<1>3. events' \in 0 .. MaxEvents
  BY <1>1, TypeParts, Numbers DEF EditSite, Event
<1>4. site' \in [Plans -> Version \cup {Gone, Spoilt}]
  <2>1. PICK new \in {events', Gone, Spoilt} : site' = [site EXCEPT ![p] = new]
    BY DEF EditSite
  <2>2. new \in Version \cup {Gone, Spoilt}
    BY <1>3 DEF Version
  <2>3. site \in [Plans -> Version \cup {Gone, Spoilt}]
    BY <1>1 DEF TypeOK
  <2> QED BY <2>1, <2>2, <2>3
<1>5. TypeOK'
  <2>1. {enabled, recheck, previous, late, dropped, excused} \subseteq BOOLEAN
    BY <1>1, Zenon DEF TypeOK
  <2>2. {enabled, recheck, previous, late, dropped, excused}' \subseteq BOOLEAN
    BY <1>2, <2>1, Zenon
  <2>3. /\ wrong' \in BOOLEAN
        /\ pc' \in {"idle", "schedule", "plans", "update", "finish"} /\ (pc' = "idle") = (ctx' = NoView)
        /\ (pc' = "update" => feed'.plan # NoPlan) /\ confirmed' \in Rooms \cup {"none"}
    BY <1>1, <1>2 DEF TypeOK
  <2>4. /\ ctx' \in Views \cup {NoView} /\ refresh' \in Refreshes /\ feed' \in Feeds /\ result' \in Results
        /\ todo' \subseteq Plans /\ found' \in Read \cup {NoPlan} /\ view' \in Views \cup {NoView}
        /\ stable' \in 0 .. Bound /\ quiet' \in 0 .. Bound /\ age' \in 0 .. Stale
    BY <1>1, <1>2, TypeParts, Numbers
  <2> QED BY <1>3, <1>4, <2>2, <2>3, <2>4, TypeNext
<1>6. Books' /\ TimerRuns'
  BY <1>1, <1>2 DEF Books, TimerRuns
<1>7. /\ Cardinality(Plans) \in Nat /\ Poll \in Nat /\ Poll > 0 /\ refresh.next <= Poll /\ refresh.next \in Int
      /\ todo \subseteq Plans /\ Cardinality(todo) \in Nat /\ Cardinality(todo)' = Cardinality(todo)
      /\ Lateness' \in {0, 1}
  BY <1>1, <1>2, TypeParts, Numbers, TodoSize DEF Refreshes, Lateness
<1>8. pc' = "plans" /\ Outdated(found)' => stable' < Cardinality(Plans) - Cardinality(todo)' + Lateness'
  <2>1. Outdated(found)' => found # NoPlan
    BY <1>2 DEF Outdated
  <2>2. found # NoPlan => Cardinality(todo) < Cardinality(Plans)
    BY <1>1, <1>7, TodoSize DEF Books
  <2> QED BY <1>2, <1>7, <2>1, <2>2
<1>9. Outdated(result.plan)' => Cardinality(Plans) >= 1
  <2>1. Outdated(result.plan)' => result.plan \in Read
    BY <1>1, <1>2, TypeParts DEF Outdated, Results
  <2> QED BY <2>1, AnyPlan DEF Read
<1>10. LooksCurrent' => Cardinality(Plans) >= 1
  <2>1. LooksCurrent' => feed.plan \in Read
    BY <1>1, <1>2, TypeParts DEF LooksCurrent, Outdated, Feeds
  <2> QED BY <2>1, AnyPlan DEF Read
<1>11. Ages'
  BY <1>2, <1>7, <1>8, <1>9, <1>10 DEF Ages
<1> QED BY <1>5, <1>6, <1>11 DEF PlanInv

LEMMA TickStep == ASSUME PlanInv, Tick PROVE PlanInv'
<1>1. TypeOK /\ Books /\ TimerRuns /\ Ages
  BY DEF PlanInv
<1>2. /\ view' = view /\ enabled' = enabled /\ recheck' = recheck /\ site' = site
      /\ pc' = pc /\ ctx' = ctx /\ todo' = todo /\ found' = found /\ wrong' = wrong /\ result' = result
      /\ previous' = previous /\ feed' = feed /\ confirmed' = confirmed /\ dropped' = dropped
      /\ excused' = excused /\ events' = events
      /\ stable' = Up(stable) /\ quiet' = Up(quiet)
      /\ late' \in BOOLEAN /\ late' /\ ~ late /\ pc # "finish"
  BY DEF Tick, worker
<1>3. age' \in 0 .. Stale
  BY <1>1, TypeParts, Numbers DEF Tick
<1>4. /\ Cardinality(Plans) \in Nat /\ Poll \in Nat /\ Poll > 0 /\ Bound = Poll + Cardinality(Plans) + 1
      /\ stable \in Nat /\ quiet \in Nat /\ stable' \in 0 .. Bound /\ quiet' \in 0 .. Bound
      /\ stable' <= stable + 1 /\ (quiet' = quiet + 1 \/ quiet' >= Poll)
  BY <1>1, <1>2, TypeParts, Numbers, UpType DEF Up
<1>5. /\ refresh' \in Refreshes /\ refresh'.key = refresh.key /\ refresh.next \in -1 .. Poll
      /\ refresh'.next = (IF refresh.next > 0 THEN refresh.next - 1 ELSE refresh.next)
  <2>1. refresh \in Refreshes
    BY <1>1, TypeParts
  <2>2. refresh.next \in -1 .. Poll
    BY <2>1 DEF Refreshes
  <2>3. (IF refresh.next > 0 THEN refresh.next - 1 ELSE refresh.next) \in -1 .. Poll
    BY <2>2, <1>4
  <2>4. refresh' = [refresh EXCEPT !.next = IF refresh.next > 0 THEN refresh.next - 1 ELSE refresh.next]
    BY DEF Tick
  <2> QED BY <2>1, <2>2, <2>3, <2>4 DEF Refreshes
<1>6. TypeOK'
  <2>1. {enabled, recheck, previous, dropped, excused} \subseteq BOOLEAN
    BY <1>1, Zenon DEF TypeOK
  <2>2. {enabled, recheck, previous, late, dropped, excused}' \subseteq BOOLEAN
    BY <1>2, <2>1, Zenon
  <2>3. /\ wrong' \in BOOLEAN /\ site' \in [Plans -> Version \cup {Gone, Spoilt}]
        /\ pc' \in {"idle", "schedule", "plans", "update", "finish"} /\ (pc' = "idle") = (ctx' = NoView)
        /\ (pc' = "update" => feed'.plan # NoPlan) /\ confirmed' \in Rooms \cup {"none"}
    BY <1>1, <1>2 DEF TypeOK
  <2>4. /\ ctx' \in Views \cup {NoView} /\ feed' \in Feeds /\ result' \in Results
        /\ todo' \subseteq Plans /\ found' \in Read \cup {NoPlan} /\ view' \in Views \cup {NoView}
        /\ events' \in 0 .. MaxEvents
    BY <1>1, <1>2, TypeParts
  <2> QED BY <1>3, <1>4, <1>5, <2>2, <2>3, <2>4, TypeNext
<1>7. Books'
  BY <1>1, <1>2, <1>5 DEF Books
<1>8. pc = "idle" /\ ~ excused /\ feed.plan # NoPlan => refresh.next > 0 /\ quiet + refresh.next >= Poll
  BY <1>1, <1>2, <1>5 DEF TimerRuns
<1>9. TimerRuns'
  <2>1. SUFFICES ASSUME pc' = "idle", ~ excused', feed'.plan # NoPlan
                 PROVE  refresh'.next >= 0 /\ quiet' + refresh'.next >= Poll
    BY <1>2 DEF TimerRuns
  <2>2. refresh.next > 0 /\ quiet + refresh.next >= Poll /\ refresh'.next = refresh.next - 1
    BY <1>2, <1>5, <1>8, <2>1
  <2> QED BY <1>4, <1>5, <2>2
<1>10. Lateness = 0 /\ Lateness' = 1 /\ Cardinality(todo)' = Cardinality(todo) /\ Cardinality(todo) \in Nat
  BY <1>1, <1>2, TypeParts, TodoSize DEF Lateness
<1>11. pc' = "plans" /\ Outdated(found)' => stable' < Cardinality(Plans) - Cardinality(todo)' + Lateness'
  <2>1. Outdated(found)' => Outdated(found)
    BY <1>2 DEF Outdated
  <2>2. pc = "plans" /\ Outdated(found) => stable < Cardinality(Plans) - Cardinality(todo) + Lateness
    BY <1>1 DEF Ages
  <2> QED BY <1>2, <1>4, <1>10, <2>1, <2>2
<1>12. LooksCurrent' => LooksCurrent
  BY <1>2 DEF LooksCurrent, Outdated
<1>13. pc' = "idle" /\ LooksCurrent' => stable' + refresh'.next < Poll + Cardinality(Plans)
  <2>1. SUFFICES ASSUME pc' = "idle", LooksCurrent'
                 PROVE  stable' + refresh'.next < Poll + Cardinality(Plans)
    OBVIOUS
  <2>2. stable + refresh.next < Poll + Cardinality(Plans)
    BY <1>1, <1>2, <1>12, <2>1 DEF Ages
  <2>3. refresh'.next = refresh.next - 1
    BY <1>2, <1>5, <1>8, <1>12, <2>1 DEF LooksCurrent, Outdated
  <2> QED BY <1>4, <1>5, <2>2, <2>3
<1>14. pc' = "update" /\ LooksCurrent' => stable' < Poll + Cardinality(Plans) + Lateness'
  <2>1. pc = "update" /\ LooksCurrent => stable < Poll + Cardinality(Plans) + Lateness
    BY <1>1 DEF Ages
  <2> QED BY <1>2, <1>4, <1>10, <1>12, <2>1
<1>15. Ages'
  BY <1>2, <1>11, <1>13, <1>14 DEF Ages
<1> QED BY <1>6, <1>7, <1>9, <1>15 DEF PlanInv

LEMMA PlanInit == ASSUME Init PROVE PlanInv
<1>1. /\ view = NoView /\ pc = "idle" /\ ctx = NoView /\ todo = {} /\ found = NoPlan
      /\ site = [p \in Plans |-> 0] /\ result = NoResult /\ refresh = Forgetful /\ feed = EmptyFeed
      /\ age = Stale /\ confirmed = "none" /\ quiet = Bound /\ stable = Bound /\ events = 0
  BY DEF Init
<1>2. {enabled, recheck, previous, late, dropped, excused} \subseteq BOOLEAN /\ wrong \in BOOLEAN
  BY Zenon DEF Init
<1>3. feed.plan = NoPlan /\ refresh \in Refreshes /\ feed \in Feeds /\ result \in Results
  BY <1>1, EmptyFeedType, ForgetfulType DEF NoResult, Results
<1>4. /\ stable \in 0 .. Bound /\ quiet \in 0 .. Bound /\ age \in 0 .. Stale /\ events \in 0 .. MaxEvents
      /\ site \in [Plans -> Version \cup {Gone, Spoilt}]
  BY <1>1, Numbers DEF Version
<1>5. TypeOK
  <2>1. /\ refresh \in [key : Rooms \cup {"none"}, checked : BOOLEAN, next : -1..Poll]
        /\ feed \in [room : Rooms \cup {"none"}, plan : Read \cup {NoPlan}, checking : BOOLEAN, failed : BOOLEAN]
        /\ result \in [kind : {"none", "ok", "failed", "gone"}, plan : Read \cup {NoPlan}]
    BY <1>3 DEF Refreshes, Feeds, Results
  <2>2. /\ view \in Views \cup {NoView} /\ ctx \in Views \cup {NoView} /\ todo \subseteq Plans
        /\ found \in Read \cup {NoPlan} /\ confirmed \in Rooms \cup {"none"}
        /\ pc \in {"idle", "schedule", "plans", "update", "finish"} /\ (pc = "idle") = (ctx = NoView)
        /\ (pc = "update" => feed.plan # NoPlan)
    BY <1>1
  <2> QED BY <1>2, <1>4, <2>1, <2>2, Zenon DEF TypeOK
<1>6. Books
  BY <1>1, <1>3 DEF Books
<1>7. TimerRuns
  BY <1>3 DEF TimerRuns
<1>8. Ages
  BY <1>1, <1>3 DEF Ages, LooksCurrent, Outdated
<1> QED BY <1>5, <1>6, <1>7, <1>8 DEF PlanInv

LEMMA PlanNext == ASSUME PlanInv, [Next]_vars PROVE PlanInv'
<1>1. CASE Next
  BY <1>1, PollStep, UnreadableStep, RequestStep, FinishStep, LookStep, SaveStep, EditStep, TickStep
  DEF Next, WorkerStep
<1>2. CASE UNCHANGED vars
  <2>1. /\ UNCHANGED <<view, enabled, recheck, site, late, stable, events>>
        /\ UNCHANGED <<pc, ctx, todo, found, wrong, result>>
        /\ UNCHANGED <<previous, refresh, feed, age, confirmed, dropped, excused, quiet>>
    BY <1>2 DEF vars, worker, books
  <2>2. TypeOK /\ Books /\ TimerRuns /\ Ages
    BY DEF PlanInv
  <2>3. TypeOK'
    BY <2>1, <2>2 DEF TypeOK
  <2>4. Books' /\ TimerRuns'
    BY <2>1, <2>2 DEF Books, TimerRuns
  <2>5. Ages'
    BY <2>1, <2>2 DEF Ages, LooksCurrent, Outdated, Lateness
  <2> QED BY <2>3, <2>4, <2>5 DEF PlanInv
<1> QED BY <1>1, <1>2

LEMMA PlanInvariant == Spec => []PlanInv
BY PlanInit, PlanNext, PTL DEF Spec

-------------------------------------------------------------------------------
(* What the invariant says of the black box and of the website.            *)

(* The worker's books keep their types, and a request has a context
   (iraceplan.rs, Feed and Refresh).                                       *)
THEOREM PlanTypeCorrect == Spec => []TypeOK
<1>1. PlanInv => TypeOK
  BY DEF PlanInv
<1> QED BY <1>1, PlanInvariant, PTL

(* Whatever the overlay sees while requests are out, it draws no plan in a
   room whose own lookup did not find it (poll_session).                   *)
THEOREM PlansShownWereLookedUp == Spec => []ShownWasLookedUp
<1>1. PlanInv => ShownWasLookedUp
  BY DEF PlanInv, Books, ShownWasLookedUp, Shown, Matches
<1> QED BY <1>1, PlanInvariant, PTL

(* A plan drawn as current is the website's, or was within one period of
   refreshes and the requests of one lookup (Refresh and Feed::stale).     *)
THEOREM PlansShownAreCurrent == Spec => []CurrentMeansCurrent
<1>1. ASSUME PlanInv PROVE CurrentMeansCurrent
  <2>1. SUFFICES ASSUME Shown, ~ StaleFeed, ~ excused, feed.plan.version # site[feed.plan.id]
                 PROVE  stable <= Poll + Cardinality(Plans)
    BY DEF CurrentMeansCurrent
  <2>2. TypeOK /\ Books /\ TimerRuns /\ Ages
    BY <1>1 DEF PlanInv
  <2>3. feed.plan # NoPlan /\ LooksCurrent
    BY <2>1 DEF Shown, Matches, StaleFeed, LooksCurrent, Outdated
  <2>4. refresh.next \in -1 .. Poll /\ stable \in Nat /\ Poll \in Nat /\ Cardinality(Plans) \in Nat
    BY <2>2, TypeParts, Numbers DEF Refreshes
  <2>5. pc \in {"idle", "update", "finish"}
    BY <2>2, <2>3 DEF TypeOK, Books
  <2>6. CASE pc = "idle"
    BY <2>1, <2>2, <2>3, <2>4, <2>6 DEF TimerRuns, Ages
  <2>7. CASE pc = "update"
    <3>1. Lateness \in {0, 1}
      BY DEF Lateness
    <3> QED BY <2>2, <2>3, <2>4, <2>7, <3>1 DEF Ages
  <2>8. CASE pc = "finish"
    BY <2>2, <2>3, <2>8 DEF Ages
  <2> QED BY <2>5, <2>6, <2>7, <2>8
<1> QED BY <1>1, PlanInvariant, PTL

(* The website is asked for a plan at most once a period, as long as the
   overlay keeps sight of its session (Refresh::due and completed).        *)
THEOREM RefreshesArePolite == Spec => PoliteRefresh
<1>1. ASSUME PlanInv, [Next]_vars
      PROVE  [pc = "idle" /\ pc' = "update" => excused \/ quiet >= Poll]_vars
  <2>1. SUFFICES ASSUME Next, pc = "idle", pc' = "update", ~ excused
                 PROVE  quiet >= Poll
    BY <1>1
  <2>2. TypeOK /\ TimerRuns
    BY <1>1 DEF PlanInv
  <2>3. PollOnce
    <3>1. ~ Request
      BY <2>1, <2>2, RequestEffect DEF Answers, ListsPlans, ReadsOn
    <3>2. ~ Finish /\ ~ PollUnreadable /\ ~ Tick
      BY <2>1 DEF Finish, PollUnreadable, Tick, worker
    <3>3. /\ \A v \in Views \cup {NoView} : ~ Look(v)
          /\ \A on \in BOOLEAN : ~ SaveConnection(on)
          /\ \A p \in Plans : ~ EditSite(p)
      BY <2>1 DEF Look, SaveConnection, EditSite, worker
    <3> QED BY <2>1, <3>1, <3>2, <3>3 DEF Next, WorkerStep
  <2>4. AsksForThePlan
    BY <2>1, <2>2, <2>3, PollEffect DEF SeesNothing, HasNothingToDo, AsksForTheSchedule
  <2>5. refresh.next <= 0 /\ feed.plan # NoPlan
    BY <2>4 DEF AsksForThePlan
  <2>6. refresh.next \in Int /\ quiet \in Nat /\ Poll \in Nat
    BY <2>2, TypeParts, Numbers DEF Refreshes
  <2> QED BY <2>1, <2>2, <2>5, <2>6 DEF TimerRuns
<1> QED BY <1>1, PlanInvariant, PTL DEF Spec, PoliteRefresh
===============================================================================
