--------------------------- MODULE MCSessionPool ----------------------------
(* Small instances of SessionPool for TLC. *)
EXTENDS SessionPool

MCMixes == {[a |-> k[1], b |-> k[2]] :
            k \in {<<"chat", "chat">>, <<"goal", "stored">>, <<"chat", "routine">>}}
MCChat == [h \in Requests |-> "A"]
=============================================================================
