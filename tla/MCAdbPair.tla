------------------------------ MODULE MCAdbPair ------------------------------
(***************************************************************************)
(* AdbPair for TLC: two MESH devices (100.x addresses) and one that is not, *)
(* so the paired device may be on MESH or not, and another MESH device may *)
(* still be connected from an earlier session.                             *)
(***************************************************************************)
EXTENDS AdbPair

CONSTANTS meshA, meshB, lan

MCDevices == {meshA, meshB, lan}
MCMeshDevices == {meshA, meshB}

=============================================================================
