------------------------------- MODULE MCTask -------------------------------
(***************************************************************************)
(* Task for TLC.  A chain occupies at most two timers at a time, the one   *)
(* whose goroutine runs and the one it arms, and a third may be kept by a  *)
(* stale pointer: 2 * MaxStarts + 1 timers are enough that arming one never *)
(* waits for a free object.                                                *)
(***************************************************************************)
EXTENDS Task

MCTimers == 1..(2 * MaxStarts + 1)
=============================================================================
