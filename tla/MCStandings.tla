------------------------------ MODULE MCStandings ------------------------------
EXTENDS Standings
Classes == [c \in Cars |-> IF c = 3 THEN 2 ELSE 1]
Laps == [qualifying |-> 1, race |-> 2]
===============================================================================
