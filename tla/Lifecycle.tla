------------------------------ MODULE Lifecycle ------------------------------
(***************************************************************************)
(* The request states and the transition table of                          *)
(* internal/lifecycle/state.go, and the administrator actions that         *)
(* internal/state/retry_policy.go allows in each state.                    *)
(***************************************************************************)

Queued           == "queued"
Forwarding       == "requesting"
Uncertain        == "uncertain"
Waiting          == "waiting"
Buffering        == "buffering"
Delivering       == "delivering"
Completed        == "completed"
Successful       == "successful"
Failed           == "failed"
Canceled         == "canceled"
Rejected         == "rejected"
Expired          == "expired"
Orphaned         == "orphaned"
ConfirmedSuccess == "confirmed_success"
Abandoned        == "abandoned"

LiveStates == {Queued, Forwarding, Uncertain, Waiting, Buffering, Delivering, Completed}

TerminalStates == {Successful, Failed, Canceled, Rejected, Expired, Orphaned,
                   ConfirmedSuccess, Abandoned}

\* The transitions map; requests are registered as queued, never as received.
Targets(from) ==
    CASE from = Queued     -> {Forwarding, Rejected, Canceled, Expired}
      [] from = Forwarding -> {Buffering, Uncertain, Waiting, Canceled, Failed, Expired}
      [] from = Uncertain  -> {Waiting, Canceled, Failed, Expired, ConfirmedSuccess, Abandoned}
      [] from = Waiting    -> {Forwarding, Canceled, Failed, Expired}
      [] from = Buffering  -> {Delivering, Waiting, Canceled, Failed, Expired}
      [] from = Delivering -> {Completed, Canceled, Failed, Expired}
      [] from = Completed  -> {Successful}
      [] OTHER             -> {}

ValidTransition(from, to) == from = to \/ to \in Targets(from)

IsTerminal(s) == s \in TerminalStates

\* actionsForState: what an administrator may do to a request.
CanCancel(s)         == ~IsTerminal(s) /\ s # Uncertain
CanRetryNow(s)       == s = Waiting
CanSetRetryPolicy(s) == s \in {Waiting, Queued, Forwarding}
=============================================================================
