---------------------------- MODULE MCStateRefresh ----------------------------
(* StateRefresh for TLC. *)
EXTENDS StateRefresh

CONSTANTS d1, d2

\* A device joins, leaves and takes another place
TwoDevices == {d1, d2}
TwoOrders  == {<<d1>>, <<d2, d1>>}
===============================================================================
