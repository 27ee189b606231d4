------------------------------ MODULE MCLimiter ------------------------------
(* Instances of Limiter for TLC. *)
EXTENDS Limiter

\* Reloads raise and lower both limits: room for two waiters, or a second
\* permit and no queue.
ReloadedLimits == {<<1, 2>>, <<2, 0>>}
=============================================================================
