---------------------------- MODULE MCPushOutbox ----------------------------
(* Two chats whose settings are those of one parent chat, p. *)
EXTENDS PushOutbox

MCEvents == 1 .. 2
MCPolicyOf == [e \in MCEvents |-> "p"]
MCSourceOf == [e \in MCEvents |-> IF e = 1 THEN "p" ELSE "q"]
MCNone == {}
MCOneRev == {1}
=============================================================================
