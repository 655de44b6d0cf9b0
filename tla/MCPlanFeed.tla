------------------------------ MODULE MCPlanFeed ------------------------------
EXTENDS PlanFeed

\* Our team's plan and another team's, which use the same API key.
TeamOf == [p1 |-> "us", p2 |-> "them"]
\* The race has the plan's track, car and dates, and so has its practice.
\* In practice the driver watches either team or both, in the race drives for ours.
SomeViews == [room : {"practice"}, teams : {{"us"}, {"them"}, {"us", "them"}}]
             \cup [room : {"race"}, teams : {{"us"}}]
Both == {"practice", "race"}
===============================================================================
