------------------------------ MODULE MCGateway ------------------------------
(* Instances of Gateway for TLC. *)
EXTENDS Gateway

\* One permit, one place in the queue.
OnePermit == {<<1, 1>>}

\* The limits are reloaded: a second permit, the place in the queue taken away.
TwoLimits == {<<1, 1>>, <<2, 0>>}
=============================================================================
