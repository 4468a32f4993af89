---------------------------- MODULE MCGroupCommit ----------------------------
(* Instances of GroupCommit for TLC. *)
EXTENDS GroupCommit

CONSTANTS r1, r2, r3, r4, b1, b2

OneBoundary == [r \in Requests |-> b1]

\* r4 goes to b2, the other calls to b1.
TwoBoundaries == [r \in Requests |-> IF r = r4 THEN b2 ELSE b1]

SingleEvents == [r \in Requests |-> 1]

\* r3 is larger than a batch of two events and fits beside no other request.
UnevenEvents == [r \in Requests |-> IF r = r3 THEN 3 ELSE 1]
=============================================================================
