----------------------------- MODULE MCClientStack -----------------------------
(* ClientStack with two requests to one server and one to a group. *)
EXTENDS ClientStack, TLC

CONSTANTS p1, p2, p3, ta, tb, tg
MCToken == {ta, tb, tg}
MCPeer == {p1, p2, p3}
MCMembers == {p2, p3}
MCSymmetry == Permutations(MCMembers)
MCAllMembers == {p1, p2}
MCRequests == {[token |-> ta, to |-> p1, con |-> TRUE],
               [token |-> tb, to |-> p1, con |-> FALSE],
               [token |-> tg, to |-> Group, con |-> FALSE]}
MCRandomMid == {2}
\* The client counts its ids from 2 to 4, and then they wrap.
MCPeerMid == {0, 1}
===============================================================================
