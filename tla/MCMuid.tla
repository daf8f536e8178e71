-------------------------------- MODULE MCMuid --------------------------------
(* Instance of Muid for TLC: a counter of few values and a few milliseconds, *)
(* some of them before EPOCH.                                                *)
EXTENDS Muid

MCMinTime == -2
===============================================================================
