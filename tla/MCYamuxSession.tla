---------------------------- MODULE MCYamuxSession ----------------------------
(* Instances of YamuxSession for TLC: how many streams each side opens and   *)
(* how often it writes on a stream.                                          *)
EXTENDS YamuxSession

None      == [s \in Sides |-> 0]
ClientOne == [None EXCEPT !["client"] = 1]
ServerOne == [None EXCEPT !["server"] = 1]
TwoAndOne == [s \in Sides |-> IF s = "client" THEN 2 ELSE 1]
===============================================================================
