----------------------------- MODULE MCStreamPool -----------------------------
(* Instance of StreamPool for TLC. *)
EXTENDS StreamPool

CONSTANTS a1, a2, a3, a4, s1, s2, s3, s4
===============================================================================
