------------------------------- MODULE MsgQueue -------------------------------
(***************************************************************************)
(* What a message queue of the stack promises (MsgQ.h): messages leave in  *)
(* the order they came, at most Capacity of them are held, and the whole   *)
(* queue can be emptied at once.                                           *)
(***************************************************************************)
EXTENDS Naturals, Sequences

CONSTANTS Msg, Capacity

VARIABLE queue

QInit == queue = <<>>

Put(m) == Len(queue) < Capacity /\ queue' = Append(queue, m)

Take == queue # <<>> /\ queue' = Tail(queue)

Clear == queue' = <<>>

QNext == (\E m \in Msg : Put(m)) \/ Take \/ Clear

QSpec == QInit /\ [][QNext]_queue
===============================================================================
