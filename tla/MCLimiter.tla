----------------------------- MODULE MCLimiter -----------------------------
(***************************************************************************)
(* Limiter for TLC.                                                        *)
(***************************************************************************)
EXTENDS Limiter, TLC

\* A user without limits, one with a speed limit and one with a device limit.
Free    == [speed |-> 0, device |-> 0]
Slow    == [speed |-> 1, device |-> 0]
SlowDevices == [speed |-> 2, device |-> 1]

AllInfos  == {Free, Slow, SlowDevices}
SlowInfos == {Slow, [speed |-> 3, device |-> 0]}
DeviceInfos == {SlowDevices}
MixedInfos == {Slow, SlowDevices}
FreeInfos == {Free}

\* Users, addresses and connections are interchangeable.
Symmetry == Permutations(Users) \cup Permutations(IPs) \cup Permutations(Conns)
=============================================================================
