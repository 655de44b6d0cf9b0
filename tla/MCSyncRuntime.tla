----------------------------- MODULE MCSyncRuntime ----------------------------
EXTENDS SyncRuntime
===============================================================================
