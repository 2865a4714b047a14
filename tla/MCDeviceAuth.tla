---------------------------- MODULE MCDeviceAuth ----------------------------
(* Instances of DeviceAuth for TLC.                                          *)
EXTENDS DeviceAuth, TLC

\* One machine, however often it logs in.
OneMachine == [c \in Challenges |-> "m1"]

Symmetry == Permutations(Users) \cup Permutations(Procs)
=============================================================================
