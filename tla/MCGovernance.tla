----------------------------- MODULE MCGovernance -----------------------------
(* Instances of Governance for TLC. *)
EXTENDS Governance

\* The first request may be retried.
FirstRetries == [r \in Reservations |-> IF r = "q1" THEN 2 ELSE 1]

OnePrincipal == [r \in Reservations |-> {"p"}]

Limits(p, u1) == [k \in Keys |-> CASE k = "p" -> p [] k = "u1" -> u1 [] OTHER -> 0]

\* Budgets of the principal and of one of the upstreams; an attempt may use more
\* than is reserved for it, and the second request to the upstream is the last.
Enforced == [enforce |-> TRUE, deny |-> FALSE, reserve |-> 2, scoped |-> {"u1"},
             concurrent |-> Limits(2, 1), rate |-> Limits(0, 2), tokens |-> Limits(5, 4)]

\* The same, observed only.
Observed == [Enforced EXCEPT !.enforce = FALSE, !.reserve = 1]

\* Tighter ones of the principal alone, where unknown usage counts as too much.
Denying == [Enforced EXCEPT !.deny = TRUE, !.scoped = {}, !.tokens = Limits(4, 0),
                            !.concurrent = Limits(1, 0), !.rate = Limits(2, 0)]

AllModes == {Enforced, Observed, Denying}
Strict   == {Enforced, Denying}
=============================================================================
