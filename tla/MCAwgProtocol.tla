--------------------------- MODULE MCAwgProtocol ---------------------------
(***************************************************************************)
(* AwgProtocol for TLC: two workers and the device installing              *)
(* configurations (MCAwgConfigs) over the default one; the calls per       *)
(* worker and the installations are bounded in each cfg.                   *)
(***************************************************************************)
EXTENDS AwgProtocol, MCAwgConfigs, TLC

CONSTANTS w1, w2

MCWorkers == {w1, w2}

Symmetry == Permutations(MCWorkers)

=============================================================================
