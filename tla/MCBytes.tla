------------------------------ MODULE MCBytes -------------------------------
(***************************************************************************)
(* KittyBytes for TLC, with its operators compared with those of Bitwise.  *)
(***************************************************************************)
EXTENDS KittyBytes, Bitwise

ASSUME OperatorsAgree ==
  \A a, b \in 0 .. ByteMax : BitAnd(a, b) = (a & b) /\ BitOr(a, b) = (a | b)

=============================================================================
