---------------------------- MODULE MCApeSocket ----------------------------
(* Model-checking instance of ApeSocket. *)
EXTENDS ApeSocket

CONSTANTS s1, s2

=============================================================================
