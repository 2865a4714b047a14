---------------------------- MODULE MCDiagnostics ----------------------------
(* Two users with a device of the same name each; a machine in order, and one that is logged out. *)
EXTENDS Diagnostics

MCDeviceName == [d \in Devices |-> IF d = "phone id" THEN "phone" ELSE "laptop"]
MCOwner == [d \in Devices |-> IF d = "other id" THEN "bob" ELSE "alice"]

Healthy ==
    [config |-> [jwt |-> "later", vpn |-> TRUE, address |-> TRUE, tunnel |-> TRUE,
                 port |-> TRUE, auto |-> TRUE],
     server |-> TRUE, wireguard |-> TRUE, daemon |-> TRUE, release |-> "same"]
MCMachines == {Healthy, [Healthy EXCEPT !.config = None]}
=============================================================================
