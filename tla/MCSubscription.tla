--------------------------- MODULE MCSubscription ---------------------------
(* Instances of Subscription for TLC. *)
EXTENDS Subscription

\* From the beginning, and from the latest event.
MCStarts == {Nil, 0}
=============================================================================
