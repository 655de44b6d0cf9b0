------------------------------ MODULE MCAutoFuel ------------------------------
EXTENDS AutoFuel
InLap == -2
===============================================================================
