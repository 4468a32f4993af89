-------------------------- MODULE MCNotificationRelay --------------------------
(* An instance of NotificationRelay for TLC. *)
EXTENDS NotificationRelay

CONSTANTS s1, s2, b1, b2, c1

\* One server installs the boundary b2 while it runs; the other has not seen it.
CallServer == [c \in Calls |-> s1]
CallBoundary == [c \in Calls |-> b2]
=============================================================================
