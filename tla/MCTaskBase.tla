------------------------------ MODULE MCTaskBase ------------------------------
(* TaskBase with a handful of messages and at most two workers. *)
EXTENDS TaskBase

CONSTANTS m1, m2, m3, m4, w1, w2

MCMsg == {m1, m2, m3, m4}
MCWorker == {w1, w2}
===============================================================================
