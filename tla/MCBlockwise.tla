------------------------------ MODULE MCBlockwise ------------------------------
(* Blockwise with a client whose blocks are larger than the server's. *)
EXTENDS Blockwise

MCRequests ==
  {[up |-> 5, down |-> 1, con |-> TRUE],    \* a long body
   [up |-> 0, down |-> 5, con |-> TRUE],    \* a long response
   [up |-> 5, down |-> 5, con |-> TRUE],    \* both
   [up |-> 4, down |-> 4, con |-> FALSE],   \* whole blocks, non-confirmable
   [up |-> 6, down |-> 1, con |-> FALSE],   \* a body that is too long
   [up |-> 0, down |-> 9, con |-> TRUE]}    \* offsets of more than 16 bits
===============================================================================
