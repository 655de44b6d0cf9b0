------------------------------- MODULE PlanFeed -------------------------------
(***************************************************************************)
(* The iRacePlan worker (iraceplan.rs, iraceplan/session.rs,               *)
(* iraceplan/discovery.rs): a thread that looks the joined session up in   *)
(* the website's schedule, once per join, and refreshes a plan it found    *)
(* every POLL.  The frame loop tells it what session the overlay sees and  *)
(* draws the feed it publishes; both may change while a request is out.    *)
(*                                                                         *)
(* A tick is fifteen seconds: a request takes at most one (its timeout), and *)
(* the worker, which polls every second, looks at least once in each.      *)
(***************************************************************************)
EXTENDS Integers, FiniteSets

CONSTANTS
    Rooms,              \* iRacing subsessions the driver joins
    Fitting,            \* the rooms on the plans' track, with their car, in their time
    Plans, Team,        \* plans of the website and the team each is for
    Poll, Stale,        \* POLL and STALE, in ticks
    Views,              \* what the overlay may see: [room, teams], its own car's or several
    NoView, NoPlan,
    MaxEvents           \* bound: changes of what the overlay sees, of the website's plans and of
                        \* the settings, failed requests and unreadable settings, all together

ASSUME PlanFeedAssumption ==
    /\ IsFiniteSet(Plans) /\ "none" \notin Rooms
    /\ Fitting \subseteq Rooms /\ Team \in [Plans -> STRING]
    /\ {Poll, Stale} \subseteq Nat \ {0}
    /\ Views \subseteq [room : Rooms, teams : SUBSET {Team[p] : p \in Plans}] /\ NoView \notin Views
    /\ MaxEvents \in Nat

VARIABLES
    view,               \* Observation: the session context of the frame loop, while fresh
    enabled, recheck,   \* the settings file and RECHECK
    site,               \* what the website holds: a version, Gone, or Spoilt (no usable strategy)
    pc, ctx,            \* the worker's step, and the context it works for
    todo, found, wrong, \* discover: candidates left, the match, a plan that did not parse
    result,             \* what the request brought
    previous, refresh,  \* the settings last acted on; Refresh: key, checked, next (-1: no timer)
    feed, age,          \* FEED and the time since fetched
    late,               \* has the worker let a tick pass in this step?
    stable,             \* ticks since the website last changed
    confirmed,          \* the room whose lookup found the plan of the feed
    dropped,            \* did the current lookup's result go nowhere?
    excused, quiet,     \* was there no match, or no use for a result, since the last good answer;
                        \* and ticks since a refresh was asked for
    events

worker == <<pc, ctx, todo, found, wrong, result>>
books == <<previous, refresh, feed, age, confirmed, dropped, excused, quiet>>
vars == <<view, enabled, recheck, site, worker, books, late, stable, events>>

Version == 0..MaxEvents
Gone == -1
Spoilt == -2
Read == [id : Plans, version : Version]
Forgetful == [key |-> "none", checked |-> FALSE, next |-> -1]
EmptyFeed == [room |-> "none", plan |-> NoPlan, checking |-> FALSE, failed |-> FALSE]
NoResult == [kind |-> "none", plan |-> NoPlan]
Bound == Poll + Cardinality(Plans) + 1
Up(n) == IF n < Bound THEN n + 1 ELSE n

(* Context::matches: the room, and a car of the plan's team among those    *)
(* the overlay sees (only its own while it drives).                        *)
Matches(v, plan) == v # NoView /\ plan # NoPlan /\ v.room \in Fitting /\ Team[plan.id] \in v.teams
(* available: what the black box shows. *)
Shown == view # NoView /\ feed.room = view.room /\ Matches(view, feed.plan)
StaleFeed == feed.failed \/ age >= Stale

Init ==
    /\ view = NoView /\ enabled = TRUE /\ recheck = FALSE
    /\ site = [p \in Plans |-> 0]
    /\ pc = "idle" /\ ctx = NoView /\ todo = {} /\ found = NoPlan /\ wrong = FALSE /\ result = NoResult
    /\ previous = TRUE /\ refresh = Forgetful
    /\ feed = EmptyFeed /\ age = Stale /\ confirmed = "none"
    /\ dropped = FALSE /\ excused = TRUE /\ quiet = Bound
    /\ late = FALSE /\ stable = Bound
    /\ events = 0

Event == events < MaxEvents /\ events' = events + 1

-------------------------------------------------------------------------------
(* Refresh::due and Refresh::completed.                                    *)
Key(v) == IF v = NoView THEN "none" ELSE v.room
(* A slip: a room counts as looked up once its key is known. *)
KnownIsChecked(r, key) ==
    IF r.key # key THEN [Forgetful EXCEPT !.key = key, !.checked = key # "none"] ELSE r
ForKey(r, key) == IF r.key # key THEN [Forgetful EXCEPT !.key = key] ELSE r
Unmatched(r, matched) == IF r.checked /\ ~ matched THEN [r EXCEPT !.next = -1] ELSE r
DueAction(r, matched) ==
    CASE r.key # "none" /\ ~ r.checked -> "discover"
      [] r.key # "none" /\ r.checked /\ matched /\ r.next <= 0 -> "update"
      [] OTHER -> "none"

(* A slip: only an answer arms the timer. *)
CompletedIfRead(matched, ok) == [refresh EXCEPT !.next = IF matched /\ ok THEN Poll ELSE -1]
Completed(matched, ok) == [refresh EXCEPT !.next = IF matched THEN Poll ELSE -1]

(* A slip: what was shown stays up while the new room is looked up. *)
KeepShowing(f, room) == [f EXCEPT !.room = room, !.checking = TRUE, !.failed = FALSE]
Checking(f, room) == [EmptyFeed EXCEPT !.room = room, !.checking = TRUE]

(* worker and poll_session up to the first request: a changed connection   *)
(* forgets everything, no session clears the feed.                         *)
PollOnce ==
    /\ pc = "idle"
    /\ recheck' = FALSE /\ previous' = enabled
    /\ LET reset == enabled # previous \/ recheck
           v == IF enabled THEN view ELSE NoView
           cached == IF reset THEN EmptyFeed ELSE feed
           matched == v # NoView /\ cached.room = v.room /\ Matches(v, cached.plan)
           r == Unmatched(ForKey(IF reset THEN Forgetful ELSE refresh, Key(v)), matched)
           action == DueAction(r, matched)
       IN /\ refresh' = IF action = "discover" THEN [r EXCEPT !.checked = TRUE] ELSE r
          /\ excused' = (excused \/ ~ matched)
          /\ quiet' = IF action = "update" THEN 0 ELSE quiet
          /\ dropped' = (dropped /\ r.checked /\ ~ reset)
          /\ CASE v = NoView ->
                    /\ feed' = EmptyFeed /\ confirmed' = "none"
                    /\ pc' = "idle" /\ ctx' = NoView
               [] v # NoView /\ action = "none" ->
                    /\ feed' = cached /\ confirmed' = (IF reset THEN "none" ELSE confirmed)
                    /\ pc' = "idle" /\ ctx' = NoView
               [] action = "discover" ->
                    /\ feed' = Checking(feed, v.room)
                    /\ confirmed' = "none" /\ pc' = "schedule" /\ ctx' = v
               [] action = "update" ->
                    /\ UNCHANGED <<feed, confirmed>>
                    /\ pc' = "update" /\ ctx' = v
    /\ late' = FALSE
    /\ UNCHANGED <<view, enabled, site, todo, found, wrong, result, age, stable, events>>

(* Settings that cannot be read: everything is forgotten.                  *)
PollUnreadable ==
    /\ pc = "idle" /\ Event
    /\ refresh' = Forgetful /\ feed' = [EmptyFeed EXCEPT !.failed = TRUE]
    /\ confirmed' = "none" /\ dropped' = FALSE /\ excused' = TRUE /\ late' = FALSE
    /\ UNCHANGED <<view, enabled, recheck, site, worker, previous, age, quiet, stable>>

-------------------------------------------------------------------------------
(* Requests.  One that fails may be refused for good (an API key or a      *)
(* planning that is gone), or only for now.                                *)
Answer(kind, plan) ==
    /\ result' = [kind |-> kind, plan |-> plan]
    /\ pc' = "finish" /\ todo' = {} /\ found' = NoPlan /\ wrong' = FALSE
Broken(kind) == Event /\ Answer(kind, NoPlan)
Left == Key(view) # ctx.room       \* read's check before every request
Fetch(p) == [id |-> p, version |-> site[p]]
Outcome(match, bad) == IF match = NoPlan /\ bad THEN "gone" ELSE "ok"

(* discover: the schedule; entries that do not fit the time or the car are *)
(* not looked at.                                                          *)
ReadSchedule ==
    /\ pc = "schedule"
    /\ \/ Left /\ Answer("failed", NoPlan) /\ UNCHANGED events
       \/ ~ Left /\ (Broken("failed") \/ Broken("gone"))
       \/ /\ ~ Left /\ UNCHANGED events
          /\ LET listed == {p \in Plans : ctx.room \in Fitting /\ site[p] # Gone}
             IN IF listed = {} THEN Answer("ok", NoPlan)
                ELSE /\ todo' = listed /\ pc' = "plans"
                     /\ UNCHANGED <<found, wrong, result>>
    /\ late' = FALSE
    /\ UNCHANGED <<view, enabled, recheck, site, ctx, books, stable>>

(* One planning after another: a missing one ends the lookup, one that     *)
(* does not parse is passed over, two that match are an error.             *)
ReadPlanning(p) ==
    /\ pc = "plans" /\ p \in todo
    /\ \/ Left /\ Answer("failed", NoPlan) /\ UNCHANGED events
       \/ ~ Left /\ (Broken("failed") \/ Broken("gone"))
       \/ /\ ~ Left /\ UNCHANGED events
          /\ LET match == IF site[p] \in Version /\ Matches(ctx, Fetch(p)) THEN Fetch(p) ELSE found
                 bad == wrong \/ site[p] = Spoilt
             IN IF site[p] = Gone THEN Answer("gone", NoPlan)
                ELSE IF match # found /\ found # NoPlan THEN Answer("failed", NoPlan)
                ELSE IF todo = {p} THEN Answer(Outcome(match, bad), match)
                ELSE /\ todo' = todo \ {p} /\ found' = match /\ wrong' = bad
                     /\ UNCHANGED <<pc, result>>
    /\ late' = FALSE
    /\ UNCHANGED <<view, enabled, recheck, site, ctx, books, stable>>

(* A refresh reads the planning it has, whatever session is on by now.     *)
ReadUpdate ==
    /\ pc = "update"
    /\ \/ Broken("failed") \/ Broken("gone")
       \/ /\ UNCHANGED events
          /\ IF site[feed.plan.id] \in Version THEN Answer("ok", Fetch(feed.plan.id))
             ELSE Answer("gone", NoPlan)
    /\ late' = FALSE
    /\ UNCHANGED <<view, enabled, recheck, site, ctx, books, stable>>

StillThere(now, asked) == Key(now) = asked.room
(* A slip: a failure leaves the feed as it is. *)
HideFailure(f, kind) == [f EXCEPT !.plan = IF kind = "gone" THEN NoPlan ELSE f.plan, !.checking = FALSE]
Failure(f, kind) == [f EXCEPT !.plan = IF kind = "gone" THEN NoPlan ELSE f.plan,
                              !.checking = FALSE, !.failed = TRUE]

(* The rest of poll_session: another room's result is dropped, and so is   *)
(* one that comes while the overlay happens to see no session.             *)
Finish ==
    /\ pc = "finish"
    /\ IF StillThere(view, ctx)
       THEN LET plan == IF Matches(view, result.plan) THEN result.plan ELSE NoPlan
                f == IF result.kind = "ok"
                     THEN [room |-> ctx.room, plan |-> plan, checking |-> FALSE, failed |-> FALSE]
                     ELSE Failure(feed, result.kind)
            IN /\ feed' = f
               /\ age' = IF result.kind = "ok" THEN 0 ELSE age
               /\ confirmed' = IF result.kind = "ok" THEN ctx.room ELSE confirmed
               /\ refresh' = Completed(Matches(view, f.plan), result.kind = "ok")
               /\ excused' = ((excused /\ result.kind # "ok") \/ ~ Matches(view, f.plan)) /\ UNCHANGED dropped
       ELSE /\ dropped' = feed.checking /\ excused' = TRUE
            /\ UNCHANGED <<feed, age, confirmed, refresh>>
    /\ pc' = "idle" /\ ctx' = NoView /\ result' = NoResult /\ late' = FALSE
    /\ UNCHANGED <<view, enabled, recheck, site, todo, found, wrong, previous, quiet, stable, events>>

-------------------------------------------------------------------------------
(* What the frame loop sees changes: a join, cars coming and going, the    *)
(* seat, a moment without telemetry, the end of the session.               *)
Look(v) ==
    /\ Event /\ v # view /\ view' = v
    /\ UNCHANGED <<enabled, recheck, site, worker, books, late, stable>>

(* The settings page's button: the file, then RECHECK.                     *)
SaveConnection(on) ==
    /\ Event /\ enabled' = on /\ recheck' = TRUE
    /\ UNCHANGED <<view, site, worker, books, late, stable>>

(* Somebody edits, withdraws or spoils a plan on the website.              *)
EditSite(p) ==
    /\ Event
    /\ \E new \in {events', Gone, Spoilt} : new # site[p] /\ site' = [site EXCEPT ![p] = new]
    /\ stable' = 0
    /\ UNCHANGED <<view, enabled, recheck, worker, books, late>>

Tick ==
    /\ ~ late /\ late' = TRUE /\ pc # "finish"
    /\ age' = (IF age < Stale THEN age + 1 ELSE age)
    /\ refresh' = [refresh EXCEPT !.next = IF refresh.next > 0 THEN refresh.next - 1 ELSE refresh.next]
    /\ stable' = Up(stable) /\ quiet' = Up(quiet)
    /\ UNCHANGED <<view, enabled, recheck, site, worker, previous, feed, confirmed, dropped, excused, events>>

Request == ReadSchedule \/ ReadUpdate \/ \E p \in Plans : ReadPlanning(p)
WorkerStep == PollOnce \/ Request \/ Finish

Next ==
    \/ WorkerStep \/ PollUnreadable \/ Tick
    \/ \E v \in Views \cup {NoView} : Look(v)
    \/ \E on \in BOOLEAN : SaveConnection(on)
    \/ \E p \in Plans : EditSite(p)

Spec == Init /\ [][Next]_vars

(* The worker loops for ever, and every request has a timeout.             *)
FairSpec == Spec /\ WF_vars(WorkerStep) /\ WF_vars(Tick)

-------------------------------------------------------------------------------
TypeOK ==
    /\ view \in Views \cup {NoView} /\ {enabled, recheck, previous, late, dropped, excused} \subseteq BOOLEAN
    /\ site \in [Plans -> Version \cup {Gone, Spoilt}]
    /\ pc \in {"idle", "schedule", "plans", "update", "finish"} /\ ctx \in Views \cup {NoView}
    /\ todo \subseteq Plans /\ found \in Read \cup {NoPlan} /\ wrong \in BOOLEAN
    /\ result \in [kind : {"none", "ok", "failed", "gone"}, plan : Read \cup {NoPlan}]
    /\ refresh \in [key : Rooms \cup {"none"}, checked : BOOLEAN, next : -1..Poll]
    /\ feed \in [room : Rooms \cup {"none"}, plan : Read \cup {NoPlan}, checking : BOOLEAN, failed : BOOLEAN]
    /\ age \in 0..Stale /\ confirmed \in Rooms \cup {"none"}
    /\ stable \in 0..Bound /\ quiet \in 0..Bound /\ events \in 0..MaxEvents
    /\ (pc = "idle") = (ctx = NoView)
    /\ pc = "update" => feed.plan # NoPlan

(* A plan is never shown in a room whose own lookup has not confirmed it:  *)
(* no answer to a question of the room before, no cached plan              *)
(* (poll_session, iraceplan.rs 367-432).                                   *)
ShownWasLookedUp == Shown => confirmed = view.room

(* A plan drawn as current is the website's, or the website changed it no  *)
(* longer ago than one refresh and the requests under way: a failure may   *)
(* mark it stale, never leave an old one looking fresh (Feed::stale and    *)
(* Refresh::completed).  It may be older only for the moment after the     *)
(* overlay lost sight of the session and found it again.                   *)
CurrentMeansCurrent ==
    Shown /\ ~ StaleFeed /\ ~ excused /\ feed.plan.version # site[feed.plan.id]
        => stable <= Poll + Cardinality(Plans)

(* The website is not asked for the same plan twice within a refresh       *)
(* period, unless the overlay lost sight of the plan's session between     *)
(* (Refresh::due and completed, iraceplan/session.rs 103-128).             *)
PoliteRefresh == [][pc = "idle" /\ pc' = "update" => excused \/ quiet >= Poll]_vars

(* A join is looked up: as long as the overlay goes on seeing the room,    *)
(* the feed comes to speak of it and says more than "checking", but for a  *)
(* result that arrived in a moment without telemetry, which is never asked *)
(* for again (poll_session, iraceplan.rs 393).                             *)
LookupSettles ==
    \A k \in Rooms :
        Key(view) = k /\ enabled
            ~> \/ Key(view) # k \/ ~ enabled \/ dropped
               \/ feed.room = k /\ ~ feed.checking
===============================================================================
