---------------------------- MODULE MCPortConfig ----------------------------
(* Symmetry for the safety run of PortConfig: devices, calls and refresh slots *)
(* are only ever compared with each other.                                     *)
EXTENDS PortConfig, TLC

Interchangeable == Permutations(Devices) \cup Permutations(Calls) \cup Permutations(Runs)
===============================================================================
