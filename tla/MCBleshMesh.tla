---------------------------- MODULE MCBleshMesh ----------------------------
(***************************************************************************)
(* A base station with two drones, and a drone with another adapter.       *)
(***************************************************************************)
EXTENDS BleshMesh

CONSTANTS base, uav1, uav2, rosUav, rosBase, ip

MCNodes == {base, uav1, uav2, rosUav, rosBase, ip}

MCAdapter == [n \in MCNodes |-> IF n \in {rosUav, rosBase} THEN "ros"
                              ELSE IF n = ip THEN "ips" ELSE "lib"]

MCRemoteHost == [n \in MCNodes |-> IF n \in {uav1, uav2} THEN base ELSE EVERYBODY]
=============================================================================
