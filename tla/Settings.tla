------------------------------- MODULE Settings -------------------------------
(***************************************************************************)
(* The settings editor of the console (web/src/App.tsx, SettingsView.tsx)  *)
(* against the configuration store (internal/config/config.go), the        *)
(* handlers of the management API (internal/admin) and the ledger of       *)
(* policy releases (internal/policy/release.go).                           *)
(*                                                                         *)
(* One console is modelled call by call; the other operator is a second    *)
(* console that is always up to date, so that each of its operations is    *)
(* one step.  A configuration has two parts that matter here, the traffic  *)
(* policy and all the rest ("plain"); its revision, a hash of its content, *)
(* is the content itself, and likewise for a policy.  The stage of a       *)
(* release is part of the policy's value.  The server checks a save and    *)
(* stores it in two steps, and a release takes three under policyMu; a     *)
(* crash may fall between any two of them.                                 *)
(*                                                                         *)
(* Bounds: MaxTurns operations are begun, MaxCrashes crashes happen, at    *)
(* most one save, one other operation and one fetch run at a time, and a   *)
(* policy is edited only into one of Policies.                             *)
(***************************************************************************)
EXTENDS Integers, Sequences, FiniteSets, SequencesExt

CONSTANTS Plains,     \* values of the ordinary settings
          Policies,   \* traffic policies
          NoDraft,    \* no draft of a policy
          FirstPlain, FirstPolicy, \* the configuration at the start
          MaxTurns, MaxCrashes

ASSUME SettingsAssumption ==
    /\ FirstPlain \in Plains /\ FirstPolicy \in Policies /\ NoDraft \notin Policies
    /\ {MaxTurns, MaxCrashes} \subseteq Nat

\* The console knows the configuration as two parts.
Config == [plain : Plains, policy : Policies]
PolicyReleaseRecord == [id : 1 .. MaxTurns, policy : Policies]
PolicyReleaseStatus == [draft : Policies \cup {NoDraft}, history : SUBSET Policies]
Idle == [pc |-> "idle"]

VARIABLES desired,  \* the configuration of the store, and of its file
          backups,  \* the configurations kept when they were replaced
          origin,   \* history: what last stored a policy: "file", "release", "save", "backup"
          draft,    \* the draft in the ledger
          ledger,   \* the policies released, in order
          pending,  \* the releases prepared and not yet closed
          config,   \* the form
          saved,    \* savedConfig: what the form is compared with
          cfgState, \* configState.desiredRevision
          releases, \* policyReleases
          view,     \* "settings" or "away"
          fetch,    \* api.config and api.configState under way, for reload or bootstrap
          save,     \* the save under way
          op,       \* the policy operation, or the restoring of a backup, under way
          leave,    \* the dialog of leaving with unsaved changes, and the baseline it saw
          turns, crashes

store    == <<desired, backups, origin>>
policies == <<draft, ledger, pending>>
form     == <<config, saved, cfgState, releases, view>>
calls    == <<fetch, save, op, leave>>
counts   == <<turns, crashes>>
vars     == <<store, policies, form, calls, counts>>

dirty == config # saved
ConfirmationPending == \E call \in {save, op, leave} : call.pc = "confirm"

\* The server is inside policyMu for this console.
Releasing == op.pc \in {"prepared", "written"}

First == [plain |-> FirstPlain, policy |-> FirstPolicy]
NoReleases == [draft |-> NoDraft, history |-> {}]

SettingsTypeOK ==
    /\ {desired, config, saved, cfgState} \subseteq Config /\ backups \subseteq Config
    /\ origin \in {"file", "release", "save", "backup"}
    /\ draft \in Policies \cup {NoDraft} /\ ledger \in Seq(Policies)
    /\ pending \subseteq PolicyReleaseRecord /\ releases \in PolicyReleaseStatus
    /\ view \in {"settings", "away"}
    /\ fetch.pc \in {"idle", "asked", "read"}
    /\ save.pc \in {"idle", "validate", "confirm", "put", "checked", "stored", "state"}
    /\ op.pc \in {"idle", "confirm", "sent", "prepared", "written", "done", "refresh", "refused"}
    /\ turns \in 0 .. MaxTurns /\ crashes \in 0 .. MaxCrashes

Init ==
    /\ desired = First /\ backups = {} /\ origin = "file"
    /\ draft = NoDraft /\ ledger = <<>> /\ pending = {}
    /\ config = First /\ saved = First /\ cfgState = First
    /\ releases = NoReleases /\ view = "settings"
    /\ fetch = Idle /\ save = Idle /\ op = Idle /\ leave = Idle
    /\ turns = 0 /\ crashes = 0

------------------------------------------------------------------------------
\* The store.

\* updateWithResult: keep the replaced file, store the new configuration.
Stored(next, by) ==
    /\ desired' = next
    /\ backups' = backups \cup {desired}
    /\ origin' = IF by # "release" /\ next.policy = desired.policy THEN origin ELSE by

Begin == /\ turns < MaxTurns
         /\ turns' = turns + 1
         /\ UNCHANGED crashes

------------------------------------------------------------------------------
\* The form.  Fields stay editable while calls are under way, but not behind
\* a dialog.

Shown == view = "settings" /\ ~ConfirmationPending

patch(plain) ==
    /\ Shown
    /\ config' = [config EXCEPT !.plain = plain]
    /\ UNCHANGED <<store, policies, saved, cfgState, releases, view, calls, counts>>

patchTrafficPolicy(policy) ==
    /\ Shown
    /\ config' = [config EXCEPT !.policy = policy]
    /\ UNCHANGED <<store, policies, saved, cfgState, releases, view, calls, counts>>

\* The button is disabled without changes and during a save.
discard ==
    /\ Shown /\ dirty /\ save = Idle
    /\ config' = saved
    /\ UNCHANGED <<store, policies, saved, cfgState, releases, view, calls, counts>>

\* selectView: the view is left at once, or after a dialog (confirmSettingsLeave)
\* that gives up the unsaved changes: the form returns to the baseline that
\* was current when the dialog opened.
Left(form_) ==
    /\ view' = "away" /\ config' = form_
    /\ releases' = NoReleases /\ leave' = Idle
    /\ UNCHANGED <<store, policies, saved, cfgState, fetch, save, op, counts>>

selectView ==
    /\ Shown
    /\ \/ ~dirty /\ Left(config)
       \/ /\ dirty
          /\ leave' = [pc |-> "confirm", cfg |-> saved]
          /\ UNCHANGED <<store, policies, config, saved, cfgState, releases, view, fetch, save, op, counts>>

LeaveConfirmed == leave # Idle /\ Left(leave.cfg)

LeaveRefused ==
    /\ leave # Idle
    /\ leave' = Idle
    /\ UNCHANGED <<store, policies, form, fetch, save, op, counts>>

openSettings ==
    /\ view = "away" /\ ~ConfirmationPending
    /\ view' = "settings"
    /\ UNCHANGED <<store, policies, config, saved, cfgState, releases, calls, counts>>

\* The effect of the policy tab.
openPolicyTab ==
    /\ view = "settings"
    /\ releases' = [draft |-> draft, history |-> Range(ledger)]
    /\ UNCHANGED <<store, policies, config, saved, cfgState, view, calls, counts>>

------------------------------------------------------------------------------
\* reload and the bootstrap: two reads, then form and baseline are replaced.

reload ==
    /\ Shown /\ save = Idle /\ fetch = Idle /\ Begin
    /\ fetch' = [pc |-> "asked"]
    /\ UNCHANGED <<store, policies, form, save, op, leave>>

\* The language or a filter changes: the bootstrap effect runs again.
bootstrap ==
    /\ ~ConfirmationPending /\ fetch = Idle /\ Begin
    /\ fetch' = [pc |-> "asked"]
    /\ UNCHANGED <<store, policies, form, save, op, leave>>

FetchReads ==
    /\ fetch.pc = "asked"
    /\ fetch' = [pc |-> "read", cfg |-> desired]
    /\ UNCHANGED <<store, policies, form, save, op, counts, leave>>

FetchLands ==
    /\ fetch.pc = "read"
    /\ config' = fetch.cfg /\ saved' = fetch.cfg /\ cfgState' = desired
    /\ fetch' = Idle
    /\ UNCHANGED <<store, policies, releases, view, save, op, counts, leave>>

FetchFails ==
    /\ fetch # Idle
    /\ fetch' = Idle
    /\ UNCHANGED <<store, policies, form, save, op, counts, leave>>

------------------------------------------------------------------------------
\* save: validate, review, store, read the state.  Only the ordinary settings
\* are sent; the policy sent is the one last fetched or saved.

Save ==
    /\ Shown /\ save = Idle
    /\ config.plain # saved.plain
    /\ Begin
    /\ save' = [pc |-> "validate", cfg |-> [config EXCEPT !.policy = saved.policy]]
    /\ UNCHANGED <<store, policies, form, fetch, op, leave>>

\* validateConfig answers; the dialog is refused while another is open.
SaveReviewed ==
    /\ save.pc = "validate"
    /\ save' = IF ConfirmationPending THEN Idle ELSE [save EXCEPT !.pc = "confirm"]
    /\ UNCHANGED <<store, policies, form, fetch, op, counts, leave>>

SaveConfirmed ==
    /\ save.pc = "confirm"
    /\ save' \in {Idle, [save EXCEPT !.pc = "put"]}
    /\ UNCHANGED <<store, policies, form, fetch, op, counts, leave>>

\* updateConfig: a changed policy is refused, then the configuration is stored.
updateConfigChecks ==
    /\ save.pc = "put"
    /\ save' = IF save.cfg.policy = desired.policy THEN [save EXCEPT !.pc = "checked"] ELSE Idle
    /\ UNCHANGED <<store, policies, form, fetch, op, counts, leave>>

updateConfigStores ==
    /\ save.pc = "checked"
    /\ Stored(save.cfg, "save")
    /\ save' = [save EXCEPT !.pc = "stored"]
    /\ UNCHANGED <<policies, form, fetch, op, counts, leave>>

SaveAnswered ==
    /\ save.pc = "stored"
    /\ saved' = save.cfg
    /\ save' = [save EXCEPT !.pc = "state"]
    /\ UNCHANGED <<store, policies, config, cfgState, releases, view, fetch, op, counts, leave>>

SaveEnds ==
    /\ save.pc = "state"
    /\ cfgState' = desired
    /\ save' = Idle
    /\ UNCHANGED <<store, policies, config, saved, releases, view, fetch, op, counts, leave>>

\* A call fails, or its answer is lost: the server may have stored all the same.
SaveFails ==
    /\ save.pc \in {"validate", "put", "checked", "stored", "state"}
    /\ save' = Idle
    /\ UNCHANGED <<store, policies, form, fetch, op, counts, leave>>

------------------------------------------------------------------------------
\* Drafts, releases and backups, from the buttons of the view.  What is sent
\* is what the view showed when its button was pressed.

savePolicyDraft ==
    /\ Shown /\ op = Idle /\ Begin
    /\ op' = [pc |-> "sent", kind |-> "draft", policy |-> config.policy, known |-> releases.draft]
    /\ UNCHANGED <<store, policies, form, fetch, save, leave>>

publishPolicy ==
    /\ Shown /\ op = Idle /\ Begin
    /\ op' = [pc |-> "confirm", kind |-> "publish", id |-> turns', revision |-> cfgState,
              known |-> releases.draft,
              policy |-> IF releases.draft # NoDraft THEN releases.draft ELSE config.policy]
    /\ UNCHANGED <<store, policies, form, fetch, save, leave>>

rollbackPolicyRelease(policy) ==
    /\ Shown /\ op = Idle /\ Begin
    /\ op' = [pc |-> "confirm", kind |-> "rollback", id |-> turns', revision |-> cfgState,
              known |-> NoDraft, policy |-> policy]
    /\ UNCHANGED <<store, policies, form, fetch, save, leave>>

rollbackConfig(version) ==
    /\ Shown /\ op = Idle /\ Begin
    /\ op' = [pc |-> "confirm", kind |-> "restore", cfg |-> version]
    /\ UNCHANGED <<store, policies, form, fetch, save, leave>>

OpConfirmed ==
    /\ op.pc = "confirm"
    /\ op' \in {Idle, [op EXCEPT !.pc = "sent"]}
    /\ UNCHANGED <<store, policies, form, fetch, save, counts, leave>>

\* policyDraft and SaveDraft.  Without a known draft there is nothing to compare.
policyDraft ==
    /\ op.pc = "sent" /\ op.kind = "draft"
    /\ IF op.known = NoDraft \/ draft \in {NoDraft, op.known}
       THEN \/ draft' = op.policy /\ op' = [op EXCEPT !.pc = "refresh"]
            \/ draft' = draft /\ op' = [op EXCEPT !.pc = "refused"] \* the ledger fails
       ELSE draft' = draft /\ op' = [op EXCEPT !.pc = "refused"]
    /\ UNCHANGED <<store, ledger, pending, form, fetch, save, counts, leave>>

\* configBackup: a backup is stored as it is, whatever its policy.
configBackup ==
    /\ op.pc = "sent" /\ op.kind = "restore"
    /\ Stored(op.cfg, "backup")
    /\ op' = [op EXCEPT !.pc = "done"]
    /\ UNCHANGED <<policies, form, fetch, save, counts, leave>>

\* policyPublish and policyRollback up to PrepareCommit: the revisions must be
\* current; without a policy of its own a publication takes the draft.
Released == IF op.kind = "publish" /\ op.known # NoDraft THEN draft ELSE op.policy
ReleaseAllowedAnyDraft ==
    /\ op.revision = desired
    /\ op.kind = "publish" /\ op.known # NoDraft => draft # NoDraft
ReleaseAllowed ==
    /\ op.revision = desired
    /\ op.kind = "publish" /\ op.known # NoDraft => draft = op.known

PrepareCommit ==
    /\ op.pc = "sent" /\ op.kind \in {"publish", "rollback"}
    /\ ReleaseAllowed
    /\ LET record == [id |-> op.id, policy |-> Released]
       IN  /\ pending' = pending \cup {record}
           /\ op' = [pc |-> "prepared", kind |-> op.kind, shown |-> op.policy,
                     revision |-> op.revision, record |-> record,
                     previous |-> desired, before |-> origin]
    /\ UNCHANGED <<store, draft, ledger, form, fetch, save, counts, leave>>

\* The checks fail, or the ledger does, or a backup cannot be stored.
ReleaseRefused ==
    /\ op.pc = "sent" /\ op.kind # "draft"
    /\ op' = [op EXCEPT !.pc = "refused"]
    /\ UNCHANGED <<store, policies, form, fetch, save, counts, leave>>

\* AbortCommit, whose own entry may fail: then the intent stays open.
AbortCommit ==
    /\ pending' \in {pending, pending \ {op.record}}
    /\ UNCHANGED <<draft, ledger>>

\* UpdateWithResultIfRevision: ordinary saves are not under policyMu, so the
\* revision is compared once more.
RevisionUnchecked == TRUE
RevisionStands == desired = op.revision

ApplyRelease ==
    /\ op.pc = "prepared" /\ RevisionStands
    /\ Stored([op.previous EXCEPT !.policy = op.record.policy], "release")
    /\ op' = [op EXCEPT !.pc = "written"]
    /\ UNCHANGED <<policies, form, fetch, save, counts, leave>>

\* The revision changed, or the file cannot be written.
ApplyFails ==
    /\ op.pc = "prepared"
    /\ AbortCommit
    /\ op' = [pc |-> "refused"]
    /\ UNCHANGED <<store, form, fetch, save, counts, leave>>

FinalizeCommit ==
    /\ op.pc = "written"
    /\ ledger' = Append(ledger, op.record.policy)
    /\ pending' = pending \ {op.record}
    /\ draft' = NoDraft
    /\ op' = [pc |-> "done"]
    /\ UNCHANGED <<store, form, fetch, save, counts, leave>>

\* The entry cannot be written: the configuration goes back, if nobody
\* changed it meanwhile, and the intent is aborted.
Compensate ==
    /\ op.pc = "written"
    /\ IF desired = [op.previous EXCEPT !.policy = op.record.policy]
       THEN /\ desired' = op.previous /\ origin' = op.before
            /\ backups' = backups \cup {desired}
            /\ AbortCommit
       ELSE UNCHANGED <<store, policies>>
    /\ op' = [pc |-> "refused"]
    /\ UNCHANGED <<form, fetch, save, counts, leave>>

\* The answer: a fetch for all but a draft, then the releases are read again.
OpReloads ==
    /\ op.pc = "done" /\ fetch = Idle
    /\ fetch' = [pc |-> "asked"]
    /\ op' = [pc |-> "refresh"]
    /\ UNCHANGED <<store, policies, form, save, counts, leave>>

OpRefreshes ==
    /\ op.pc = "refresh" /\ fetch = Idle
    /\ releases' = IF view = "settings" THEN [draft |-> draft, history |-> Range(ledger)]
                   ELSE releases
    /\ op' = Idle
    /\ UNCHANGED <<store, policies, config, saved, cfgState, view, fetch, save, counts, leave>>

\* An error, or a lost answer; the server may have done all of it.
OpFails ==
    /\ op.pc \in {"refused", "done", "refresh"}
    /\ op' = Idle
    /\ UNCHANGED <<store, policies, form, fetch, save, counts, leave>>

------------------------------------------------------------------------------
\* The other operator.

OtherSaves(plain) ==
    /\ plain # desired.plain /\ Begin
    /\ Stored([desired EXCEPT !.plain = plain], "save")
    /\ UNCHANGED <<policies, form, calls>>

OtherDrafts(policy) ==
    /\ ~Releasing /\ policy # draft /\ Begin
    /\ draft' = policy
    /\ UNCHANGED <<store, ledger, pending, form, calls>>

OtherPublishes ==
    /\ ~Releasing /\ draft # NoDraft /\ Begin
    /\ Stored([desired EXCEPT !.policy = draft], "release")
    /\ ledger' = Append(ledger, draft) /\ draft' = NoDraft
    /\ UNCHANGED <<pending, form, calls>>

\* The process dies and starts again.  The ledger is replayed, and Reconcile
\* closes each intent by what the configuration says.
ReconcileAborts == ledger' = ledger /\ draft' = draft
Reconcile ==
    IF \E record \in pending : record.policy = desired.policy
    THEN ledger' = Append(ledger, desired.policy) /\ draft' = NoDraft
    ELSE UNCHANGED <<ledger, draft>>

Crash ==
    /\ crashes < MaxCrashes /\ crashes' = crashes + 1
    /\ Reconcile /\ pending' = {}
    /\ fetch' = Idle
    /\ save' = IF save.pc \in {"idle", "confirm"} THEN save ELSE Idle
    /\ op' = IF op.pc \in {"idle", "confirm"} THEN op ELSE Idle
    /\ UNCHANGED <<store, form, turns, leave>>

------------------------------------------------------------------------------
Next ==
    \/ \E plain \in Plains : patch(plain) \/ OtherSaves(plain)
    \/ \E policy \in Policies : patchTrafficPolicy(policy) \/ OtherDrafts(policy)
    \/ discard \/ selectView \/ LeaveConfirmed \/ LeaveRefused \/ openSettings \/ openPolicyTab
    \/ reload \/ bootstrap \/ FetchReads \/ FetchLands \/ FetchFails
    \/ Save \/ SaveReviewed \/ SaveConfirmed \/ updateConfigChecks \/ updateConfigStores
    \/ SaveAnswered \/ SaveEnds \/ SaveFails
    \/ savePolicyDraft \/ publishPolicy
    \/ \E policy \in releases.history : rollbackPolicyRelease(policy)
    \/ \E version \in backups : rollbackConfig(version)
    \/ OpConfirmed \/ policyDraft \/ configBackup
    \/ PrepareCommit \/ ReleaseRefused \/ ApplyRelease \/ ApplyFails
    \/ FinalizeCommit \/ Compensate \/ OpReloads \/ OpRefreshes \/ OpFails
    \/ OtherPublishes \/ Crash

Spec == Init /\ [][Next]_vars

------------------------------------------------------------------------------
\* A release changes the policy and nothing else: whatever ordinary settings
\* another operator stored between its checks and its writes are still there,
\* after the release and after its compensation (policyPublish compares the
\* revision twice, the second time inside the store).
ReleaseKeepsSettings ==
    [][Releasing => desired'.plain = desired.plain \/ op' = op]_vars

\* What a publication puts in force is what its operator looked at when
\* pressing the button: the draft of the revision then shown, or the edited
\* policy, whatever drafts other operators save meanwhile.
ReviewedPublished ==
    [][op.pc = "prepared" /\ op'.pc = "written" => desired'.policy = op.shown]_vars

\* The ledger tells the truth: as long as the policy in force came from a
\* release, and no intent is open, it is the last one the ledger lists; also
\* after a crash between the write of the configuration and the entry for it.
LedgerAgrees ==
    /\ SettingsTypeOK
    /\ origin = "release" /\ pending = {} => Len(ledger) > 0 /\ desired.policy = Last(ledger)

\* "An ordinary PUT /admin/api/config that changes traffic-policy returns
\* POLICY_RELEASE_REQUIRED" (README.md): an ordinary save never changes the
\* policy in force.
SaveKeepsPolicy ==
    [][save.pc = "checked" /\ save'.pc = "stored" => desired'.policy = desired.policy]_vars
==============================================================================
