------------------------------- MODULE Requests -------------------------------
(***************************************************************************)
(* The requests view of the console (web/src/views/RequestsView.tsx,       *)
(* components/RequestsTable.tsx, RetryPolicyDialog.tsx,                    *)
(* UncertainResolutionDialog.tsx) against the operations of the server     *)
(* (internal/admin/retry_api.go, uncertain_api.go, internal/state/         *)
(* registry.go) and the worker of each request while it waits              *)
(* (internal/proxy/retry_schedule.go).                                     *)
(*                                                                         *)
(* The console acts on `status`, a copy of the registry that is as old as  *)
(* its last update; requests move on meanwhile, and other operators decide *)
(* too.  One operation is under way at a time (busy, or the dialog that    *)
(* asks first); the dialog for an uncertain request has calls of its own.  *)
(* A worker, whose every step is the subject of Gateway, is what the       *)
(* console can tell of it: the states it passes through, and the channel   *)
(* of one token by which a retry or a decision wakes it.  Waiting before   *)
(* the next attempt it can also be woken by its timer, and the token then  *)
(* stays.  It is not allowed to send a request in doubt again by itself.   *)
(*                                                                         *)
(* Bounds: MaxClicks operations, MaxMoves steps of workers, of other       *)
(* operators and of the clock of a token, MaxActs of these together.       *)
(***************************************************************************)
EXTENDS Integers, FiniteSets

CONSTANTS Requests, Policies, Unset,
          Starts,    \* the states the requests begin in
          Unasked,   \* retries that need no confirmation: 20 in the code
          MaxClicks, MaxMoves, MaxActs

Decisions == {"confirm_success", "abandon", "request_compensation"}
States    == {"waiting", "requesting", "uncertain", "gone"}

ASSUME RequestsAssumption ==
    /\ Unset \notin Policies \cup Requests /\ {Unasked, MaxClicks, MaxMoves, MaxActs} \subseteq Nat
    /\ Starts \subseteq [Requests -> States]

VARIABLES reqs,     \* the registry
          tokens,   \* confirmations issued and not used: the store of uncertain_api.go
          issued,   \* history: previews shown, by request and decision
          decided,  \* history: decisions carried out through this console
          status,   \* the console's copy of the registry
          selected, stateFilter,
          op,       \* the operation under way
          targets,  \* policyTargets: the requests of the open retry policy dialog
          unsure,   \* the dialog of an uncertain request
          asks,     \* its calls under way; own: the dialog that sent it is there
          clicks, moves

requestVars == <<reqs, tokens, issued, decided, status, selected, stateFilter, op, targets, unsure, asks, clicks, moves>>
serverVars  == <<reqs, tokens, issued, decided>>
pageVars    == <<status, selected, stateFilter>>

\* types.ts RequestInfo, what of it the view and the server act on, and retry:
\* a token is in retryNow, the channel of its worker, of which the console is
\* not told.
RequestInfo == [state : States, policy : Policies \cup {Unset}, resolution : Decisions \cup {"none"}, retry : BOOLEAN]

Gone == [state |-> "gone", policy |-> Unset, resolution |-> "none", retry |-> FALSE]
Reported(registry) == [r \in Requests |-> [registry[r] EXCEPT !.retry = FALSE]]

Idle   == [what |-> "none", ids |-> {}, pc |-> "idle", asking |-> Unset, putting |-> Unset]
Closed == [request |-> Unset, stage |-> "action", action |-> "confirm_success", token |-> Unset, busy |-> FALSE]
Opened(r) == [Closed EXCEPT !.request = r]
Orphaned(calls) == {[c EXCEPT !.own = FALSE] : c \in calls}

\* The copies and the dialogs.
RequestsTypeOK ==
    /\ reqs \in [Requests -> RequestInfo] /\ status \in [Requests -> RequestInfo]
    /\ selected \subseteq Requests /\ targets \subseteq [id : Requests, info : RequestInfo]
    /\ unsure.request \in Requests \cup {Unset} /\ unsure.action \in Decisions

RequestsInit ==
    /\ \E start \in Starts :
          reqs = [r \in Requests |-> [state |-> start[r], policy |-> Unset, resolution |-> "none", retry |-> FALSE]]
    /\ tokens = {} /\ issued = [k \in Requests \X Decisions |-> 0] /\ decided = issued
    /\ status = reqs /\ selected = {} /\ stateFilter = "all"
    /\ op = Idle /\ targets = {} /\ unsure = Closed /\ asks = {}
    /\ clicks = 0 /\ moves = 0

Click == clicks < MaxClicks /\ clicks + moves < MaxActs /\ clicks' = clicks + 1
Move  == moves < MaxMoves /\ clicks + moves < MaxActs /\ moves' = moves + 1

------------------------------------------------------------------------------
\* Registry: what a state allows, and the checked operations.

canRetryNow(info) == info.state = "waiting"
canSetRetryPolicy(info) == info.state \in {"waiting", "requesting"}
CanCancel(info) == info.state \notin {"uncertain", "gone"}

RetryNowCheckedWithout(info) == info.state \in {"waiting", "uncertain"}
RetryNowChecked(info) == canRetryNow(info)
TokenPut(info) == [info EXCEPT !.retry = info.state # "gone"]
PolicyAccepted(info, overwrite) == canSetRetryPolicy(info) /\ (info.policy = Unset \/ overwrite)
applyRetryPolicy(info, policy, overwrite) ==
    IF PolicyAccepted(info, overwrite) THEN [info EXCEPT !.policy = policy] ELSE info
ClearRetryPolicy(info) == IF canSetRetryPolicy(info) THEN [info EXCEPT !.policy = Unset] ELSE info
CancelChecked(info) == IF CanCancel(info) THEN Gone ELSE info

\* A compensation wakes the worker, the other decisions cancel its context.
ResolveUncertain(info, decision) ==
    IF info.state = "uncertain" /\ info.resolution = "none"
    THEN [info EXCEPT !.resolution = decision, !.retry = @ \/ decision = "request_compensation"]
    ELSE info

\* The worker of a request: an attempt ends; a token, whoever put it there,
\* ends the wait it is in, also that of a request in doubt; the attempt after
\* the wait begins; or it leaves, with its client or by a decision.
Sent(info) ==
    [info EXCEPT !.state = "requesting",
                 !.resolution = IF @ = "request_compensation" THEN "none" ELSE @]
Woken(info) == [info EXCEPT !.state = "waiting", !.retry = FALSE]
WorkerMoves(info) ==
    {Gone}
       \cup (IF info.state = "requesting"
             THEN {[info EXCEPT !.state = s] : s \in {"waiting", "uncertain"}} ELSE {})
       \cup (IF info.state \in {"waiting", "uncertain"} /\ info.retry THEN {Woken(info)} ELSE {})
       \cup (IF info.state = "waiting" THEN {Sent(info)} ELSE {})
workerMoves(r) ==
    /\ Move
    /\ reqs[r].state # "gone"
    /\ \E next \in WorkerMoves(reqs[r]) : reqs' = [reqs EXCEPT ![r] = next]
    /\ UNCHANGED <<tokens, issued, decided, pageVars, op, targets, unsure, asks, clicks>>

\* Another operator decides, with a preview and a token of their own.
otherDecides(r) ==
    /\ Move
    /\ \E decision \in {"abandon", "request_compensation"} :
          reqs' = [reqs EXCEPT ![r] = ResolveUncertain(reqs[r], decision)]
    /\ reqs' # reqs
    /\ UNCHANGED <<tokens, issued, decided, pageVars, op, targets, unsure, asks, clicks>>

------------------------------------------------------------------------------
\* RequestsView: the list, the selection, and what an operation is for.

Live == {r \in Requests : status[r].state # "gone"}
Shown == {r \in Live : stateFilter = "all" \/ status[r].state = stateFilter}
canRetry(r) == status[r].state # "uncertain" /\ canRetryNow(status[r])
canSetPolicy(r) == status[r].state # "uncertain" /\ canSetRetryPolicy(status[r])
hasRetryPolicy(r) == status[r].policy # Unset
scopeRequests == IF selected \cap Shown # {} THEN selected \cap Shown ELSE Shown
policyCapable == {r \in scopeRequests : canSetPolicy(r)}

\* A new status: the selection loses what is gone, and the dialog of a request
\* that is not uncertain any more is unmounted.  It stays asked for, so it
\* comes back empty if the request becomes uncertain again.
Unmounts == unsure.request # Unset /\ reqs[unsure.request].state # "uncertain"
DialogRenewed ==
    /\ unsure' = IF Unmounts THEN Opened(unsure.request) ELSE unsure
    /\ asks' = IF Unmounts THEN Orphaned(asks) ELSE asks
NewStatus ==
    /\ status' = Reported(reqs')
    /\ selected' = {r \in selected : reqs'[r].state # "gone"}
    /\ UNCHANGED stateFilter
statusArrives ==
    /\ status # Reported(reqs)
    /\ UNCHANGED serverVars
    /\ NewStatus
    /\ DialogRenewed
    /\ UNCHANGED <<op, targets, clicks, moves>>

\* The page under a dialog cannot be clicked.
Mounted == unsure.request # Unset /\ status[unsure.request].state = "uncertain"
NoModal == op.pc # "confirm" /\ targets = {} /\ ~Mounted
toggle(r) ==
    /\ Click /\ NoModal /\ r \in Shown
    /\ selected' = (selected \cup {r}) \ (selected \cap {r})
    /\ UNCHANGED <<serverVars, status, stateFilter, op, targets, unsure, asks, moves>>
toggleAll ==
    /\ Click /\ NoModal
    /\ selected' = IF Shown \subseteq selected THEN selected \ Shown ELSE selected \cup Shown
    /\ UNCHANGED <<serverVars, status, stateFilter, op, targets, unsure, asks, moves>>
pickState ==
    /\ Click /\ NoModal
    /\ \E s \in {"all", "waiting", "uncertain"} \ {stateFilter} : stateFilter' = s
    /\ UNCHANGED <<serverVars, status, selected, op, targets, unsure, asks, moves>>

\* An operation begins with the targets of this moment; it may be confirmed
\* first, and carries them through the confirmation.
Begin(what, ids, confirm, policy, overwrite, retry) ==
    /\ op.pc = "idle" /\ ids # {}
    /\ op' = [what |-> what, ids |-> ids, policy |-> policy, overwrite |-> overwrite, retry |-> retry,
              pc |-> IF confirm THEN "confirm" ELSE "sent", asking |-> Unset, putting |-> Unset]

retryTargets(ids) ==
    /\ Click /\ NoModal
    /\ LET eligible == {r \in ids : canRetry(r)}
       IN  Begin("retry", eligible, Cardinality(eligible) > Unasked, Unset, FALSE, FALSE)
    /\ UNCHANGED <<serverVars, pageVars, targets, unsure, asks, moves>>
applyQuickPolicy ==
    /\ Click /\ NoModal
    /\ \E policy \in Policies : Begin("policy", policyCapable, TRUE, policy, TRUE, FALSE)
    /\ UNCHANGED <<serverVars, pageVars, targets, unsure, asks, moves>>
resetPolicies ==
    /\ Click /\ NoModal
    /\ Begin("reset", {r \in policyCapable : hasRetryPolicy(r)}, FALSE, Unset, FALSE, FALSE)
    /\ UNCHANGED <<serverVars, pageVars, targets, unsure, asks, moves>>
cancelRequest(r) ==
    /\ Click /\ NoModal /\ r \in Shown
    /\ status[r].state # "uncertain"
    /\ Begin("cancel", {r}, FALSE, Unset, FALSE, FALSE)
    /\ UNCHANGED <<serverVars, pageVars, targets, unsure, asks, moves>>

\* The retry policy dialog: for the requests in scope or for one row, which it
\* remembers as they were.  What is sent is for those that can have a policy
\* by then; of a request that is gone the copy it remembers decides.
openPolicy ==
    /\ Click /\ NoModal
    /\ \E ids \in {policyCapable} \cup {{r} : r \in {q \in Shown : canSetPolicy(q)}} :
          /\ ids # {}
          /\ targets' = {[id |-> r, info |-> status[r]] : r \in ids}
    /\ UNCHANGED <<serverVars, pageVars, op, unsure, asks, moves>>
LiveCopy(target) == IF target.id \in Live THEN status[target.id] ELSE target.info
eligible == {target \in targets : canSetRetryPolicy(LiveCopy(target))}
eligibleTargets == {target.id : target \in eligible}
submitPolicy ==
    /\ Click /\ targets # {}
    /\ \E policy \in Policies, confirm, overwrite, retry \in BOOLEAN :
          /\ Cardinality(targets) = 1 => overwrite /\ ~retry
          /\ Begin("policy", eligibleTargets, confirm, policy, overwrite, retry /\ Cardinality(eligibleTargets) > 1)
    /\ UNCHANGED <<serverVars, pageVars, targets, unsure, asks, moves>>
resetTargets ==
    /\ Click
    /\ \E target \in eligible : LiveCopy(target).policy # Unset
    /\ Begin("reset", eligibleTargets, FALSE, Unset, FALSE, FALSE)
    /\ UNCHANGED <<serverVars, pageVars, targets, unsure, asks, moves>>
closePolicy ==
    /\ targets # {} /\ op.pc # "confirm"
    /\ targets' = {}
    /\ UNCHANGED <<serverVars, pageVars, op, unsure, asks, clicks, moves>>

opConfirmed ==
    /\ op.pc = "confirm"
    /\ op' \in {[op EXCEPT !.pc = "sent"], Idle}
    /\ UNCHANGED <<serverVars, pageVars, targets, unsure, asks, clicks, moves>>

\* The handlers work through the requests one by one, each under the lock of
\* the registry; other steps come in between.  A retry, by itself or after a
\* policy, reads the state under the lock and puts the token after it.
AsksRetry(info) == op.what = "retry" \/ (op.what = "policy" /\ op.retry /\ PolicyAccepted(info, op.overwrite) /\ info.state = "waiting")
Performed(info) ==
    CASE op.what = "retry"  -> info
      [] op.what = "policy" -> applyRetryPolicy(info, op.policy, op.overwrite)
      [] op.what = "reset"  -> ClearRetryPolicy(info)
      [] op.what = "cancel" -> CancelChecked(info)
opServed ==
    /\ op.pc = "sent" /\ op.asking = Unset /\ op.putting = Unset
    /\ \E r \in op.ids :
          /\ reqs' = [reqs EXCEPT ![r] = Performed(reqs[r])]
          /\ op' = [op EXCEPT !.ids = @ \ {r}, !.asking = IF AsksRetry(reqs[r]) THEN r ELSE Unset]
    /\ UNCHANGED <<tokens, issued, decided, pageVars, targets, unsure, asks, clicks, moves>>
retryChecked ==
    /\ op.asking # Unset
    /\ op' = [op EXCEPT !.asking = Unset, !.putting = IF RetryNowChecked(reqs[op.asking]) THEN op.asking ELSE Unset]
    /\ UNCHANGED <<serverVars, pageVars, targets, unsure, asks, clicks, moves>>
retryPut ==
    /\ op.putting # Unset
    /\ reqs' = [reqs EXCEPT ![op.putting] = TokenPut(@)]
    /\ op' = [op EXCEPT !.putting = Unset]
    /\ UNCHANGED <<tokens, issued, decided, pageVars, targets, unsure, asks, clicks, moves>>

\* The answer: a refresh, and a dialog that sent it closes.  Or an error.
opAnswered ==
    /\ op.pc = "sent" /\ op.ids = {} /\ op.asking = Unset /\ op.putting = Unset
    /\ UNCHANGED serverVars
    /\ NewStatus
    /\ DialogRenewed
    /\ targets' = {}
    /\ op' = Idle
    /\ UNCHANGED <<clicks, moves>>
opFails ==
    /\ op.pc = "sent"
    /\ op' = Idle
    /\ UNCHANGED <<serverVars, pageVars, targets, unsure, asks, clicks, moves>>

------------------------------------------------------------------------------
\* UncertainResolutionDialog and its two calls.

openUnsure(r) ==
    /\ Click /\ NoModal /\ r \in Shown
    /\ status[r].state = "uncertain"
    /\ unsure' = Opened(r)
    /\ UNCHANGED <<serverVars, pageVars, op, targets, asks, moves>>
closeUnsure ==
    /\ Mounted
    /\ unsure' = Closed /\ asks' = Orphaned(asks)
    /\ UNCHANGED <<serverVars, pageVars, op, targets, clicks, moves>>

\* The actions can be picked while a preview is under way.
pickAction(action) ==
    /\ Mounted /\ unsure.stage = "action" /\ action # unsure.action
    /\ unsure' = [unsure EXCEPT !.action = action]
    /\ UNCHANGED <<serverVars, pageVars, op, targets, asks, clicks, moves>>
changeAction ==
    /\ Mounted /\ unsure.stage = "confirm"
    /\ unsure' = [unsure EXCEPT !.stage = "action"]
    /\ UNCHANGED <<serverVars, pageVars, op, targets, asks, clicks, moves>>

Sends(what) ==
    /\ Mounted /\ Click /\ ~unsure.busy
    /\ unsure' = [unsure EXCEPT !.busy = TRUE]
    /\ asks' = asks \cup {[what |-> what, request |-> unsure.request, action |-> unsure.action,
                           token |-> unsure.token, own |-> TRUE, pc |-> "sent"]}
    /\ UNCHANGED <<serverVars, pageVars, op, targets, moves>>
previewAction == unsure.stage = "action" /\ Sends("preview")
resolve == unsure.stage = "confirm" /\ Sends("resolve")

\* Issue and Consume of the confirmation store.  A token is used up by any
\* attempt, names its request and its decision, and expires.
Issue(r, action) == [request |-> r, action |-> action, number |-> issued[<<r, action>>] + 1]
ConsumeAnyAction(token, r, action) == token \in tokens /\ token.request = r
Consume(token, r, action) == token \in tokens /\ token.request = r /\ token.action = action

Replied(call, answer) == asks' = (asks \ {call}) \cup {answer}
previewUncertainResolution(call) ==
    /\ call.what = "preview" /\ call.pc = "sent"
    /\ LET info  == reqs[call.request]
           token == Issue(call.request, call.action)
       IN  IF info.state = "uncertain" /\ info.resolution = "none"
           THEN /\ tokens' = tokens \cup {token}
                /\ issued' = [issued EXCEPT ![<<call.request, call.action>>] = @ + 1]
                /\ Replied(call, [call EXCEPT !.pc = "answered", !.token = token])
           ELSE UNCHANGED <<tokens, issued>> /\ Replied(call, [call EXCEPT !.pc = "refused"])
    /\ UNCHANGED <<reqs, decided, pageVars, op, targets, unsure, clicks, moves>>
resolveUncertain(call) ==
    /\ call.what = "resolve" /\ call.pc = "sent"
    /\ tokens' = tokens \ {call.token}
    /\ LET info     == reqs[call.request]
           resolved == ResolveUncertain(info, call.action)
       IN  IF Consume(call.token, call.request, call.action) /\ resolved # info
           THEN /\ reqs' = [reqs EXCEPT ![call.request] = resolved]
                /\ decided' = [decided EXCEPT ![<<call.request, call.action>>] = @ + 1]
                /\ Replied(call, [call EXCEPT !.pc = "answered"])
           ELSE UNCHANGED <<reqs, decided>> /\ Replied(call, [call EXCEPT !.pc = "refused"])
    /\ UNCHANGED <<issued, pageVars, op, targets, unsure, clicks, moves>>
tokenExpires ==
    /\ Move
    /\ \E token \in tokens : tokens' = tokens \ {token}
    /\ UNCHANGED <<reqs, issued, decided, pageVars, op, targets, unsure, asks, clicks>>

\* The dialog that asked gets the answer unless it was closed or unmounted
\* meanwhile; a decision that was carried out closes whatever dialog there is.
previewLands(call) ==
    /\ call.what = "preview" /\ call.pc = "answered"
    /\ unsure' = IF call.own THEN [unsure EXCEPT !.token = call.token, !.stage = "confirm", !.busy = FALSE] ELSE unsure
    /\ asks' = asks \ {call}
    /\ UNCHANGED <<serverVars, pageVars, op, targets, clicks, moves>>
resolveLands(call) ==
    /\ call.what = "resolve" /\ call.pc = "answered"
    /\ UNCHANGED serverVars
    /\ NewStatus
    /\ unsure' = Closed /\ asks' = Orphaned(asks \ {call})
    /\ UNCHANGED <<op, targets, clicks, moves>>
askFails(call) ==
    /\ unsure' = IF call.own THEN [unsure EXCEPT !.busy = FALSE] ELSE unsure
    /\ asks' = asks \ {call}
    /\ UNCHANGED <<serverVars, pageVars, op, targets, clicks, moves>>

------------------------------------------------------------------------------
RequestsNext ==
    \/ \E r \in Requests : workerMoves(r)
    \/ \E r \in Requests : otherDecides(r)
    \/ statusArrives
    \/ \E r \in Requests : toggle(r)
    \/ toggleAll
    \/ pickState
    \/ retryTargets(scopeRequests)
    \/ \E r \in Shown : retryTargets({r})
    \/ applyQuickPolicy
    \/ resetPolicies
    \/ \E r \in Requests : cancelRequest(r)
    \/ openPolicy
    \/ submitPolicy
    \/ resetTargets
    \/ closePolicy
    \/ opConfirmed
    \/ opServed
    \/ retryChecked
    \/ retryPut
    \/ opAnswered
    \/ opFails
    \/ \E r \in Requests : openUnsure(r)
    \/ closeUnsure
    \/ \E action \in Decisions : pickAction(action)
    \/ changeAction
    \/ previewAction
    \/ resolve
    \/ tokenExpires
    \/ \E call \in asks : previewUncertainResolution(call)
    \/ \E call \in asks : resolveUncertain(call)
    \/ \E call \in asks : previewLands(call)
    \/ \E call \in asks : resolveLands(call)
    \/ \E call \in asks : askFails(call)
RequestsSpec == RequestsInit /\ [][RequestsNext]_requestVars

------------------------------------------------------------------------------
\* Every decision carried out used up a preview of that request for that
\* decision: whatever is picked while a preview is under way, closed, opened
\* again or sent twice, no decision is taken that was not previewed
\* (previewUncertainResolution, Consume and resolveUncertain of
\* uncertain_api.go).
DecisionsPreviewed == RequestsTypeOK /\ \A k \in Requests \X Decisions : decided[k] <= issued[k]

\* A request in doubt stays as it is, with its policy, whatever operations of
\* the console and of others reach it, however old the status they were begun
\* on: it leaves that state with its client only, and no retry wakes its
\* worker unless a compensation is recorded for it.  What the code has no
\* defence against is a token that a retry was granted while the request was
\* waiting, and put, or is about to put, into the channel: that one does send
\* it again (RetryNowChecked, CancelChecked, ApplyRetryPolicy and
\* ResolveUncertain of registry.go, waitForManualRetry of retry_schedule.go;
\* the checks of RequestsView.tsx are on a copy).
InDoubt(r) == reqs[r].state = "uncertain" /\ reqs[r].resolution = "none" /\ ~reqs[r].retry
UncertainUntouched ==
    [][ \A r \in Requests : (InDoubt(r) /\ op.putting # r) =>
          /\ \/ reqs'[r].state = "uncertain" /\ reqs'[r].policy = reqs[r].policy
             \/ reqs'[r].state = "gone" /\ moves' # moves
          /\ reqs'[r].retry => reqs'[r].resolution = "request_compensation"
          /\ op'.putting # r ]_requestVars
=============================================================================
