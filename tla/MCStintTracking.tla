--------------------------- MODULE MCStintTracking ---------------------------
(* Instances of StintTracking for TLC.                                       *)
EXTENDS StintTracking

World(gapCount, blindSecs, flags, scorers, drives, secs) ==
    [gaps : {gapCount}, blinds : {blindSecs}, flag : flags, scorer : scorers, drives : {drives}, secs : {secs}]

\* A car always there but not its position, nor its stall flag, for as long as a
\* stop takes; one whose stall flag is seen; one always seen, with a scorer who
\* publishes whenever he likes; one that is gone once.
MCWorlds ==
    World(0, 4, {FALSE}, {"none"}, FALSE, 10) \cup World(0, 2, {TRUE}, {"none"}, FALSE, 11)
        \cup World(0, 0, {TRUE}, {"first", "any"}, TRUE, 11) \cup World(1, 0, {TRUE}, {"late"}, FALSE, 11)

\* A second without a position.
MCBlinking == World(0, 1, {FALSE}, {"none"}, FALSE, 14)

=============================================================================
