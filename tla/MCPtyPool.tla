------------------------------ MODULE MCPtyPool ------------------------------
(* Small instances of PtyPool for TLC. *)
EXTENDS PtyPool

MCSessionOf == [c \in Clients |-> "s"]
=============================================================================
