------------------------------ MODULE MCEditors ------------------------------
(***************************************************************************)
(* The transforms of the run of Editors: one kind with two parameters and  *)
(* two settings, one with one parameter.                                   *)
(***************************************************************************)
EXTENDS Editors

MCKind == {"linear", "power"}
MCParamsOf == [linear |-> {<<0, 1>>, <<1, 0>>}, power |-> {<<1>>}]
==============================================================================
