-------------------------------- MODULE MCHub ---------------------------------
(* Both event services for TLC: two connections of one user, events of two. *)
EXTENDS EventHub

CONSTANTS alice, bob
MCKinds == {[user |-> alice, folder |-> g] : g \in Folders} \cup {[user |-> bob, folder |-> NoFolder]}
MCRequests == {[poll |-> FALSE, topic |-> g] : g \in Folders}
              \cup {[poll |-> TRUE, topic |-> Everything], [poll |-> TRUE, topic |-> NoFolder]}
MCUserOf == [c \in Conns |-> alice]
=============================================================================
