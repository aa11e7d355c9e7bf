---------------------------- MODULE MCPackument ----------------------------
(* An instance of PackumentCache for TLC: two projects whose .npmrc files   *)
(* route one package to two registries.                                     *)
EXTENDS PackumentCache
=============================================================================
