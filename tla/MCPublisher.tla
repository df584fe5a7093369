---------------------------- MODULE MCPublisher ----------------------------
(* Instances of Publisher for TLC.                                         *)
EXTENDS Publisher

CONSTANTS m1, m2, m3, m4

\* With a limit of 3 bytes and a header of one, m1 is too large, m2 is so with its
\* header only, and the others fit.
SizesTwoTooLarge == [m \in Msgs |-> IF m = m1 THEN 4 ELSE IF m = m2 THEN 3 ELSE 1]
=============================================================================
