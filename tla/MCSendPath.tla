------------------------------ MODULE MCSendPath ------------------------------
(* SendPath with two senders, the stack task and another thread. *)
EXTENDS SendPath

CONSTANTS s1, s2

MCSender == {s1, s2}
===============================================================================
