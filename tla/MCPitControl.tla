----------------------------- MODULE MCPitControl -----------------------------
EXTENDS PitControl

Untick == {[op |-> "untick", corner |-> "LF"]}
===============================================================================
