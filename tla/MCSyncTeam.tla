------------------------------ MODULE MCSyncTeam ------------------------------
EXTENDS SyncTeam
===============================================================================
