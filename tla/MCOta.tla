------------------------------- MODULE MCOta -------------------------------
(***************************************************************************)
(* Three images: the one from the factory, one sent with the same version  *)
(* and one with a later version.  The links beside the updater's are       *)
(* alike.                                                                  *)
(***************************************************************************)
EXTENDS Ota, TLC

CONSTANTS same, later

MCVersionOf == [i \in Images |-> IF i = later THEN 1 ELSE 0]
OtherLinks  == Permutations(Links \ {Updater})
=============================================================================
