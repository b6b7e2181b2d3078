------------------------------ MODULE MCTimerMgr ------------------------------
(* TimerMgr with a periodic and a one-shot timer. *)
EXTENDS TimerMgr

CONSTANTS u1, beat, shot
MCUser == {u1}
MCTimer == {beat, shot}
MCOneShot == {shot}
MCDuration == {1, 2}
===============================================================================
