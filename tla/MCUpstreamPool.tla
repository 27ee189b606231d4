---------------------------- MODULE MCUpstreamPool ----------------------------
(* Instances of UpstreamPool for TLC. *)
EXTENDS UpstreamPool

\* A preferred target with one place, and a second one; the domains differ from
\* one another, and the first one's from that of the peers.
TwoTargets == [t \in Targets |-> [priority |-> t, weight |-> 1, maxActive |-> 2 - t,
                                  domain |-> 3 - t, base |-> 1]]

\* Two targets of equal rank in one domain.
TwoPeers == [t \in Targets |-> [priority |-> 1, weight |-> 1, maxActive |-> 0,
                                domain |-> 1, base |-> 1]]

Configured(targets, halfOpen, transport) ==
    [present |-> Targets, target |-> targets, primaryOnly |-> FALSE, crossDomain |-> FALSE,
     enabled |-> TRUE, halfOpenMax |-> halfOpen, minimum |-> 1, percent |-> 60,
     transport |-> transport]

\* Peers; the same with other timeouts, ranks and domains, only the first of which
\* is used.
ReloadedPools ==
    {Configured(TwoPeers, 1, 1), [Configured(TwoTargets, 1, 2) EXCEPT !.primaryOnly = TRUE]}

AnyTarget    == {[id |-> 0, must |-> FALSE]}
AnyOrSecond  == AnyTarget \cup {[id |-> 2, must |-> TRUE]}
=============================================================================
