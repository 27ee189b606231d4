---------------------------- MODULE SettingsProofs ----------------------------
(***************************************************************************)
(* Theorems about Settings, for every set of ordinary settings and of      *)
(* policies, and every number of operations and of crashes.                *)
(*                                                                         *)
(* LedgerAgrees is not inductive: a crash closes the intents that are open *)
(* by what the configuration says, and a release that cannot be finished   *)
(* puts back what it replaced.  SettingsSound says what both rest on.      *)
(***************************************************************************)
EXTENDS Settings, TLAPS

\* The records the calls of the console are kept in.
Origins == {"file", "release", "save", "backup"}
Known   == Policies \cup {NoDraft}
Fetches == {Idle} \cup [pc : {"asked"}] \cup [pc : {"read"}, cfg : Config]
Saves   == {Idle} \cup [pc : {"validate", "confirm", "put", "checked", "stored", "state"}, cfg : Config]
Leaves  == {Idle} \cup [pc : {"confirm"}, cfg : Config]

\* An operation before the server has it, or refused: a draft, a release, the
\* restoring of a backup; a release inside policyMu; an answer.
Drafting   == [pc : {"sent", "refused", "refresh"}, kind : {"draft"}, policy : Policies,
               known : Known]
Pressed    == [pc : {"confirm", "sent", "refused"}, kind : {"publish", "rollback"}, id : Nat,
               revision : Config, known : Known, policy : Policies]
Restoring  == [pc : {"confirm", "sent", "refused", "done"}, kind : {"restore"}, cfg : Config]
Committing == [pc : {"prepared", "written"}, kind : {"publish", "rollback"}, shown : Policies,
               revision : Config, record : PolicyReleaseRecord, previous : Config,
               before : Origins]
Answered   == [pc : {"idle", "done", "refused", "refresh"}]
Ops        == Drafting \cup Pressed \cup Restoring \cup Committing \cup Answered

SettingsTypes ==
    /\ desired \in Config /\ backups \subseteq Config /\ origin \in Origins
    /\ draft \in Known /\ ledger \in Seq(Policies) /\ pending \subseteq PolicyReleaseRecord
    /\ config \in Config /\ saved \in Config /\ cfgState \in Config
    /\ releases \in PolicyReleaseStatus /\ view \in {"settings", "away"}
    /\ fetch \in Fetches /\ save \in Saves /\ op \in Ops /\ leave \in Leaves
    /\ turns \in 0 .. MaxTurns /\ crashes \in 0 .. MaxCrashes

\* A policy that came from a release is the last one of the ledger, or that
\* of an intent among open, with which Reconcile closes it.
Backed(by, policy, open) ==
    by = "release" => \/ Len(ledger) > 0 /\ policy = Last(ledger)
                      \/ \E p \in open : p.policy = policy

\* An operation that waits has an identifier no intent has yet, and what it
\* publishes is what it showed.
PressedSound ==
    op.pc \in {"confirm", "sent"} /\ op.kind \in {"publish", "rollback"} =>
        /\ op.id \in 1 .. turns
        /\ \A p \in pending : p.id < op.id
        /\ op.kind = "publish" /\ op.known # NoDraft => op.policy = op.known

\* An operation inside policyMu has its intent in the ledger, next to which
\* what it replaces is backed, so that it can be taken back.
CommitSound ==
    op.pc \in {"prepared", "written"} =>
        /\ op.record \in pending /\ op.shown = op.record.policy /\ op.previous = op.revision
        /\ Backed(op.before, op.previous.policy, pending \ {op.record})
        /\ op.pc = "prepared" => Backed(origin, desired.policy, pending \ {op.record})
        /\ op.pc = "written" => (origin = "release" => desired.policy = op.record.policy)

SettingsSound ==
    /\ Backed(origin, desired.policy, pending)
    /\ \A p \in pending : p.id <= turns
    /\ PressedSound
    /\ CommitSound

SettingsInv == SettingsTypes /\ SettingsSound

-----------------------------------------------------------------------------
\* The records have the program counters the type invariant lists.
LEMMA TypesSuffice == SettingsTypes => SettingsTypeOK
<1> SUFFICES ASSUME SettingsTypes PROVE SettingsTypeOK
  OBVIOUS
<1>1. fetch.pc \in {"idle", "asked", "read"}
  BY DEF SettingsTypes, Fetches, Idle
<1>2. save.pc \in {"idle", "validate", "confirm", "put", "checked", "stored", "state"}
  BY DEF SettingsTypes, Saves, Idle
<1>3. op.pc \in {"idle", "confirm", "sent", "prepared", "written", "done", "refresh", "refused"}
  BY DEF SettingsTypes, Ops, Drafting, Pressed, Restoring, Committing, Answered
<1> QED BY <1>1, <1>2, <1>3 DEF SettingsTypes, SettingsTypeOK, Origins, Known

\* What an operation is can be read off where it stands.
LEMMA OpShapes ==
    ASSUME op \in Ops
    PROVE  /\ op.pc \in {"prepared", "written"} => op \in Committing
           /\ op.pc \in {"confirm", "sent"} => op \in Drafting \cup Pressed \cup Restoring
           /\ op.pc = "confirm" => op \in Pressed \cup Restoring
           /\ op.pc = "sent" /\ op.kind = "draft" => op \in Drafting
           /\ op.pc = "sent" /\ op.kind = "restore" => op \in Restoring
           /\ op.pc = "sent" /\ op.kind \in {"publish", "rollback"} => op \in Pressed
BY DEF Ops, Drafting, Pressed, Restoring, Committing, Answered

\* A call that has left the idle state carries what it was started with.
LEMMA CallShapes ==
    /\ save \in Saves /\ save # Idle => save.cfg \in Config
    /\ fetch \in Fetches /\ fetch.pc = "read" => fetch.cfg \in Config
    /\ leave \in Leaves /\ leave # Idle => leave.cfg \in Config
    /\ save.pc # "idle" => save # Idle
BY DEF Saves, Fetches, Leaves, Idle

\* The next point of a save that is not idle.
LEMMA SaveMoves ==
    ASSUME save \in Saves, save # Idle,
           NEW p \in {"confirm", "put", "checked", "stored", "state"}
    PROVE  [save EXCEPT !.pc = p] \in Saves
BY DEF Saves

\* What the console shows of the releases.
LEMMA ShownReleases ==
    ASSUME SettingsTypes
    PROVE  /\ [draft |-> draft, history |-> Range(ledger)] \in PolicyReleaseStatus
           /\ NoReleases \in PolicyReleaseStatus
<1>1. Range(ledger) \subseteq Policies
  BY DEF SettingsTypes, Range
<1> QED BY <1>1 DEF SettingsTypes, PolicyReleaseStatus, NoReleases, Known

\* A step keeps the types of what it leaves alone.
LEMMA Begun ==
    ASSUME SettingsTypes, Begin
    PROVE  turns' \in 0 .. MaxTurns /\ crashes' \in 0 .. MaxCrashes /\ turns' = turns + 1
<1>1. MaxTurns \in Nat /\ MaxCrashes \in Nat
  BY SettingsAssumption
<1> QED BY <1>1 DEF SettingsTypes, Begin

\* The form, the fetch and the dialog: steps that leave the store, the ledger
\* and the operation alone.
FormStep ==
    \/ \E plain \in Plains : patch(plain)
    \/ \E policy \in Policies : patchTrafficPolicy(policy)
    \/ discard \/ selectView \/ LeaveConfirmed \/ LeaveRefused \/ openSettings \/ openPolicyTab
    \/ reload \/ bootstrap \/ FetchReads \/ FetchLands \/ FetchFails
    \/ Save \/ SaveReviewed \/ SaveConfirmed \/ updateConfigChecks
    \/ SaveAnswered \/ SaveEnds \/ SaveFails

\* Steps of the form keep the types.
LEMMA FormTypes ==
    ASSUME SettingsTypes, FormStep
    PROVE  SettingsTypes'
<1> USE DEF store, policies, form, calls, counts
<1>0. Idle \in Fetches /\ Idle \in Saves /\ Idle \in Leaves
  BY DEF Fetches, Saves, Leaves
<1>1. ASSUME NEW plain \in Plains, patch(plain) PROVE SettingsTypes'
  BY <1>1 DEF SettingsTypes, patch, Config
<1>2. ASSUME NEW policy \in Policies, patchTrafficPolicy(policy) PROVE SettingsTypes'
  BY <1>2 DEF SettingsTypes, patchTrafficPolicy, Config
<1>3. CASE discard \/ openSettings \/ LeaveRefused \/ FetchFails \/ SaveFails
  BY <1>0, <1>3 DEF SettingsTypes, discard, openSettings, LeaveRefused, FetchFails, SaveFails
<1>4. CASE selectView
  <2>1. CASE Left(config)
    BY <1>0, <2>1, ShownReleases DEF SettingsTypes, Left
  <2>2. CASE /\ leave' = [pc |-> "confirm", cfg |-> saved]
             /\ UNCHANGED <<store, policies, config, saved, cfgState, releases, view, fetch,
                            save, op, counts>>
    <3>1. leave' \in Leaves
      BY <2>2 DEF SettingsTypes, Leaves
    <3> QED BY <2>2, <3>1 DEF SettingsTypes
  <2> QED BY <1>4, <2>1, <2>2 DEF selectView
<1>5. CASE LeaveConfirmed
  <2>1. Left(leave.cfg) /\ leave.cfg \in Config
    BY <1>5, CallShapes DEF LeaveConfirmed, SettingsTypes
  <2> QED BY <1>0, <2>1, ShownReleases DEF SettingsTypes, Left
<1>6. CASE openPolicyTab
  BY <1>6, ShownReleases DEF SettingsTypes, openPolicyTab
<1>7. CASE reload \/ bootstrap
  <2>1. fetch' \in Fetches /\ Begin
    BY <1>7 DEF reload, bootstrap, Fetches
  <2>2. UNCHANGED <<store, policies, form, save, op, leave>>
    BY <1>7 DEF reload, bootstrap
  <2> QED BY <2>1, <2>2, Begun DEF SettingsTypes
<1>8. CASE FetchReads
  <2>1. fetch' \in Fetches
    BY <1>8 DEF FetchReads, Fetches, SettingsTypes
  <2> QED BY <1>8, <2>1 DEF SettingsTypes, FetchReads
<1>9. CASE FetchLands
  BY <1>0, <1>9, CallShapes DEF SettingsTypes, FetchLands
<1>10. CASE Save
  <2>1. [config EXCEPT !.policy = saved.policy] \in Config
    BY DEF SettingsTypes, Config
  <2>2. save' \in Saves /\ Begin
    BY <1>10, <2>1 DEF Save, Saves
  <2>3. UNCHANGED <<store, policies, form, fetch, op, leave>>
    BY <1>10 DEF Save
  <2> QED BY <2>2, <2>3, Begun DEF SettingsTypes
<1>11. CASE SaveReviewed \/ SaveConfirmed \/ updateConfigChecks
  <2>1. save \in Saves /\ save # Idle
    BY <1>11, CallShapes DEF SettingsTypes, SaveReviewed, SaveConfirmed, updateConfigChecks
  <2>2. save' \in {Idle, [save EXCEPT !.pc = "confirm"], [save EXCEPT !.pc = "put"],
                   [save EXCEPT !.pc = "checked"]}
    BY <1>11 DEF SaveReviewed, SaveConfirmed, updateConfigChecks
  <2>3. save' \in Saves
    BY <1>0, <2>1, <2>2, SaveMoves
  <2>4. UNCHANGED <<store, policies, form, fetch, op, counts, leave>>
    BY <1>11 DEF SaveReviewed, SaveConfirmed, updateConfigChecks
  <2> QED BY <2>3, <2>4 DEF SettingsTypes
<1>12. CASE SaveAnswered
  <2>1. save \in Saves /\ save # Idle
    BY <1>12, CallShapes DEF SettingsTypes, SaveAnswered
  <2>2. save' \in Saves /\ saved' \in Config
    BY <1>12, <2>1, SaveMoves, CallShapes DEF SaveAnswered
  <2> QED BY <1>12, <2>2 DEF SettingsTypes, SaveAnswered
<1>13. CASE SaveEnds
  BY <1>0, <1>13 DEF SettingsTypes, SaveEnds
<1> QED
  BY <1>1, <1>2, <1>3, <1>4, <1>5, <1>6, <1>7, <1>8, <1>9, <1>10, <1>11, <1>12, <1>13
     DEF FormStep

\* Where the operation and the ledger stay, an ordinary save or a reload keeps
\* the ledger right: it leaves the policy, or takes the credit for it.
LEMMA StaysSound ==
    ASSUME SettingsTypes, SettingsSound, UNCHANGED <<ledger, pending, op>>,
           turns' \in Nat, turns' >= turns,
           \/ origin' = origin /\ desired'.policy = desired.policy
           \/ origin' # "release"
    PROVE  SettingsSound'
<1>1. turns \in Nat
  BY SettingsAssumption DEF SettingsTypes
<1>2. ASSUME NEW open PROVE Backed(origin, desired.policy, open) =>
        (origin' = "release" => \/ Len(ledger) > 0 /\ desired'.policy = Last(ledger)
                                \/ \E p \in open : p.policy = desired'.policy)
  BY DEF Backed
<1>3. Backed(origin, desired.policy, pending)'
  BY <1>2 DEF SettingsSound, Backed
<1>4. \A p \in pending : p.id \in Nat
  BY DEF SettingsTypes, PolicyReleaseRecord
<1>5. (\A p \in pending : p.id <= turns)'
  BY <1>1, <1>4 DEF SettingsSound
<1>6. PressedSound'
  BY <1>1 DEF SettingsSound, PressedSound
<1>7. CommitSound'
  BY <1>2 DEF SettingsSound, CommitSound, Backed
<1> QED BY <1>3, <1>5, <1>6, <1>7 DEF SettingsSound

\* Where no operation is open any more only the ledger counts.
LEMMA OverSound ==
    ASSUME SettingsTypes, SettingsSound, pending' \subseteq pending, UNCHANGED turns,
           op'.pc \notin {"confirm", "sent", "prepared", "written"},
           Backed(origin, desired.policy, pending)'
    PROVE  SettingsSound'
BY DEF SettingsSound, PressedSound, CommitSound

\* The form and its dialogs keep what is known of releases.
LEMMA FormSound ==
    ASSUME SettingsTypes, SettingsSound, FormStep
    PROVE  SettingsSound'
<1>1. UNCHANGED <<store, policies, op>>
  BY DEF FormStep, calls, form, patch, patchTrafficPolicy, discard, selectView, Left,
         LeaveConfirmed, LeaveRefused, openSettings, openPolicyTab, reload, bootstrap,
         FetchReads, FetchLands, FetchFails, Save, SaveReviewed, SaveConfirmed,
         updateConfigChecks, SaveAnswered, SaveEnds, SaveFails
<1>2. UNCHANGED turns \/ turns' = turns + 1
  BY DEF FormStep, Begin, counts, patch, patchTrafficPolicy, discard, selectView, Left,
         LeaveConfirmed, LeaveRefused, openSettings, openPolicyTab, reload, bootstrap,
         FetchReads, FetchLands, FetchFails, Save, SaveReviewed, SaveConfirmed,
         updateConfigChecks, SaveAnswered, SaveEnds, SaveFails
<1>3. turns \in Nat
  BY SettingsAssumption DEF SettingsTypes
<1> QED BY <1>1, <1>2, <1>3, StaysSound DEF store, policies

-----------------------------------------------------------------------------
\* updateWithResult keeps the types, and changes what the policy came from
\* only with the policy, unless it is a release that stores it.
LEMMA StoredRight ==
    ASSUME SettingsTypes, NEW next \in Config, NEW by \in Origins, Stored(next, by)
    PROVE  /\ desired' = next /\ desired' \in Config /\ backups' \subseteq Config
           /\ origin' \in Origins
           /\ by # "release" => \/ origin' = origin /\ desired'.policy = desired.policy
                                \/ origin' # "release"
           /\ by = "release" => origin' = "release"
BY DEF SettingsTypes, Stored, Origins

\* A save under way, or the other operator's, is stored.
LEMMA SavesStored ==
    ASSUME SettingsTypes, SettingsSound,
           updateConfigStores \/ \E plain \in Plains : OtherSaves(plain)
    PROVE  SettingsTypes' /\ SettingsSound'
<1> USE DEF policies, form, calls, counts
<1>0. turns \in Nat
  BY SettingsAssumption DEF SettingsTypes
<1>1. CASE updateConfigStores
  <2>1. save \in Saves /\ save # Idle /\ save.cfg \in Config
    BY <1>1, CallShapes DEF SettingsTypes, updateConfigStores
  <2>2. save' \in Saves
    BY <1>1, <2>1, SaveMoves DEF updateConfigStores
  <2>3. /\ desired' \in Config /\ backups' \subseteq Config /\ origin' \in Origins
        /\ \/ origin' = origin /\ desired'.policy = desired.policy
           \/ origin' # "release"
    BY <1>1, <2>1, StoredRight DEF updateConfigStores, Origins
  <2>4. UNCHANGED <<policies, form, fetch, op, counts, leave>>
    BY <1>1 DEF updateConfigStores
  <2>5. SettingsTypes'
    BY <2>2, <2>3, <2>4 DEF SettingsTypes
  <2> QED BY <1>0, <2>3, <2>4, <2>5, StaysSound
<1>2. ASSUME NEW plain \in Plains, OtherSaves(plain) PROVE SettingsTypes' /\ SettingsSound'
  <2>1. [desired EXCEPT !.plain = plain] \in Config
    BY DEF SettingsTypes, Config
  <2>2. /\ desired' \in Config /\ backups' \subseteq Config /\ origin' \in Origins
        /\ \/ origin' = origin /\ desired'.policy = desired.policy
           \/ origin' # "release"
    BY <1>2, <2>1, StoredRight DEF OtherSaves, Origins
  <2>3. UNCHANGED <<policies, form, calls>> /\ Begin
    BY <1>2 DEF OtherSaves
  <2>4. SettingsTypes'
    BY <2>2, <2>3, Begun DEF SettingsTypes
  <2>5. turns' \in Nat /\ turns' >= turns
    BY <1>0, <2>3, Begun
  <2> QED BY <2>2, <2>3, <2>4, <2>5, StaysSound
<1> QED BY <1>1, <1>2

\* The buttons: an operation begins, with an identifier of its own.
LEMMA Pressing ==
    ASSUME SettingsTypes, SettingsSound,
           \/ savePolicyDraft \/ publishPolicy
           \/ \E policy \in releases.history : rollbackPolicyRelease(policy)
           \/ \E version \in backups : rollbackConfig(version)
    PROVE  SettingsTypes' /\ SettingsSound'
<1> USE DEF store, policies, form
<1>0. turns \in Nat /\ MaxTurns \in Nat /\ turns + 1 > turns
  BY SettingsAssumption DEF SettingsTypes
<1>1. /\ UNCHANGED <<store, policies, form, fetch, save, leave>> /\ Begin
  BY DEF savePolicyDraft, publishPolicy, rollbackPolicyRelease, rollbackConfig
<1>2. turns' = turns + 1 /\ turns' \in Nat
  BY <1>0, <1>1, Begun
<1>3. /\ releases.draft \in Known /\ releases.history \subseteq Policies
      /\ config.policy \in Policies /\ cfgState \in Config
  BY DEF SettingsTypes, PolicyReleaseStatus, Config, Known
<1>4. \A p \in pending : p.id \in Nat /\ p.id < turns'
  BY <1>0, <1>2 DEF SettingsTypes, SettingsSound, PolicyReleaseRecord
<1>5. /\ Backed(origin, desired.policy, pending)' /\ (\A p \in pending : p.id <= turns)'
  BY <1>1, <1>2, <1>4 DEF SettingsSound, Backed
<1>6. ASSUME op' \in Ops, PressedSound', CommitSound' PROVE SettingsTypes' /\ SettingsSound'
  BY <1>1, <1>5, <1>6, Begun DEF SettingsTypes, SettingsSound
<1>7. CASE savePolicyDraft
  <2>1. op' = [pc |-> "sent", kind |-> "draft", policy |-> config.policy, known |-> releases.draft]
    BY <1>7 DEF savePolicyDraft
  <2>2. op' \in Ops
    BY <1>3, <2>1 DEF Ops, Drafting
  <2> QED BY <1>6, <2>1, <2>2 DEF PressedSound, CommitSound
<1>8. CASE publishPolicy
  <2>1. op' = [pc |-> "confirm", kind |-> "publish", id |-> turns', revision |-> cfgState,
               known |-> releases.draft,
               policy |-> IF releases.draft # NoDraft THEN releases.draft ELSE config.policy]
    BY <1>8 DEF publishPolicy
  <2>2. op'.policy \in Policies
    BY <1>3, <2>1 DEF Known
  <2>3. op' \in Ops
    BY <1>2, <1>3, <2>1, <2>2 DEF Ops, Pressed
  <2>4. PressedSound'
    BY <1>0, <1>1, <1>2, <1>4, <2>1 DEF PressedSound
  <2> QED BY <1>6, <2>1, <2>3, <2>4 DEF CommitSound
<1>9. ASSUME NEW policy \in releases.history, rollbackPolicyRelease(policy)
      PROVE  SettingsTypes' /\ SettingsSound'
  <2>1. op' = [pc |-> "confirm", kind |-> "rollback", id |-> turns', revision |-> cfgState,
               known |-> NoDraft, policy |-> policy]
    BY <1>9 DEF rollbackPolicyRelease
  <2>2. op' \in Ops
    BY <1>2, <1>3, <2>1 DEF Ops, Pressed, Known
  <2>3. PressedSound'
    BY <1>0, <1>1, <1>2, <1>4, <2>1 DEF PressedSound
  <2> QED BY <1>6, <2>1, <2>2, <2>3 DEF CommitSound
<1>10. ASSUME NEW version \in backups, rollbackConfig(version)
       PROVE  SettingsTypes' /\ SettingsSound'
  <2>1. op' = [pc |-> "confirm", kind |-> "restore", cfg |-> version] /\ version \in Config
    BY <1>10 DEF rollbackConfig, SettingsTypes
  <2>2. op' \in Ops
    BY <2>1 DEF Ops, Restoring
  <2> QED BY <1>6, <2>1, <2>2 DEF PressedSound, CommitSound
<1> QED BY <1>7, <1>8, <1>9, <1>10

\* The dialog is answered.
LEMMA Confirming ==
    ASSUME SettingsTypes, SettingsSound, OpConfirmed
    PROVE  SettingsTypes' /\ SettingsSound'
<1> USE DEF store, policies, form, counts
<1>1. UNCHANGED <<store, policies, form, fetch, save, counts, leave>> /\ op.pc = "confirm"
  BY DEF OpConfirmed
<1>2. op \in Pressed \cup Restoring
  BY <1>1, OpShapes DEF SettingsTypes
<1>3. CASE op' = Idle
  <2>1. op' \in Ops /\ op'.pc = "idle"
    BY <1>3 DEF Idle, Ops, Answered
  <2>2. SettingsTypes'
    BY <1>1, <2>1 DEF SettingsTypes
  <2>3. Backed(origin, desired.policy, pending)'
    BY <1>1 DEF SettingsSound, Backed
  <2> QED BY <1>1, <2>1, <2>2, <2>3, OverSound
<1>4. CASE op' = [op EXCEPT !.pc = "sent"]
  <2>1. CASE op \in Pressed
    <3>1. op' \in Pressed /\ op'.pc = "sent" /\ op'.kind = op.kind /\ op'.id = op.id
          /\ op'.known = op.known /\ op'.policy = op.policy
      BY <1>4, <2>1 DEF Pressed
    <3>2. SettingsTypes'
      BY <1>1, <3>1 DEF SettingsTypes, Ops
    <3>3. PressedSound'
      BY <1>1, <3>1 DEF SettingsSound, PressedSound
    <3> QED BY <1>1, <3>1, <3>2, <3>3 DEF SettingsSound, CommitSound, Backed
  <2>2. CASE op \in Restoring
    <3>1. op' \in Restoring /\ op'.pc = "sent" /\ op'.kind = "restore"
      BY <1>4, <2>2 DEF Restoring
    <3>2. SettingsTypes'
      BY <1>1, <3>1 DEF SettingsTypes, Ops
    <3> QED BY <1>1, <3>1, <3>2 DEF SettingsSound, PressedSound, CommitSound, Backed
  <2> QED BY <1>2, <2>1, <2>2
<1> QED BY <1>3, <1>4 DEF OpConfirmed

\* An operation is refused, answered or over, and the store and the ledger are
\* as they were; a draft may have been saved.
LEMMA Answering ==
    ASSUME SettingsTypes, SettingsSound,
           policyDraft \/ ReleaseRefused \/ OpReloads \/ OpRefreshes \/ OpFails
    PROVE  SettingsTypes' /\ SettingsSound'
<1> USE DEF store, policies, form, counts
<1>1. UNCHANGED <<store, ledger, pending, config, saved, cfgState, view, save, counts, leave>>
  BY DEF policyDraft, ReleaseRefused, OpReloads, OpRefreshes, OpFails
<1>2. Backed(origin, desired.policy, pending)'
  BY <1>1 DEF SettingsSound, Backed
<1>3. ASSUME op' \in Ops, op'.pc \notin {"confirm", "sent", "prepared", "written"},
             draft' \in Known, fetch' \in Fetches, releases' \in PolicyReleaseStatus
      PROVE  SettingsTypes' /\ SettingsSound'
  BY <1>1, <1>2, <1>3, OverSound DEF SettingsTypes
<1>4. CASE policyDraft
  <2>1. op \in Drafting
    BY <1>4, OpShapes DEF policyDraft, SettingsTypes
  <2>2. op' \in {[op EXCEPT !.pc = "refresh"], [op EXCEPT !.pc = "refused"]}
    BY <1>4 DEF policyDraft
  <2>3. op' \in Drafting /\ op'.pc \in {"refresh", "refused"}
    BY <2>1, <2>2 DEF Drafting
  <2>4. draft' \in Known
    BY <1>4, <2>1 DEF policyDraft, Drafting, Known, SettingsTypes
  <2> QED BY <1>3, <1>4, <2>3, <2>4 DEF policyDraft, SettingsTypes, Ops
<1>5. CASE ReleaseRefused
  <2>1. op \in Pressed \cup Restoring
    BY <1>5, OpShapes DEF ReleaseRefused, SettingsTypes, Drafting
  <2>2. op' = [op EXCEPT !.pc = "refused"]
    BY <1>5 DEF ReleaseRefused
  <2>3. op' \in Pressed \cup Restoring /\ op'.pc = "refused"
    <3>1. CASE op \in Pressed
      BY <2>2, <3>1 DEF Pressed
    <3>2. CASE op \in Restoring
      BY <2>2, <3>2 DEF Restoring
    <3> QED BY <2>1, <3>1, <3>2
  <2> QED BY <1>3, <1>5, <2>3 DEF ReleaseRefused, SettingsTypes, Ops
<1>6. CASE OpReloads
  <2>1. op' \in Ops /\ op'.pc = "refresh" /\ fetch' \in Fetches
    BY <1>6 DEF OpReloads, Ops, Answered, Fetches
  <2> QED BY <1>3, <1>6, <2>1 DEF OpReloads, SettingsTypes
<1>7. CASE OpRefreshes
  <2>1. op' \in Ops /\ op'.pc = "idle"
    BY <1>7 DEF OpRefreshes, Ops, Answered, Idle
  <2> QED BY <1>3, <1>7, <2>1, ShownReleases DEF OpRefreshes, SettingsTypes
<1>8. CASE OpFails
  <2>1. op' \in Ops /\ op'.pc = "idle"
    BY <1>8 DEF OpFails, Ops, Answered, Idle
  <2> QED BY <1>3, <1>8, <2>1 DEF OpFails, SettingsTypes
<1> QED BY <1>4, <1>5, <1>6, <1>7, <1>8

\* A backup is stored.
LEMMA BackupStored ==
    ASSUME SettingsTypes, SettingsSound, configBackup
    PROVE  SettingsTypes' /\ SettingsSound'
<1> USE DEF policies, form, counts
<1>1. op \in Restoring
  BY OpShapes DEF configBackup, SettingsTypes
<1>2. op' = [op EXCEPT !.pc = "done"] /\ UNCHANGED <<policies, form, fetch, save, counts, leave>>
  BY DEF configBackup
<1>3. op' \in Restoring /\ op'.pc = "done" /\ op.cfg \in Config
  BY <1>1, <1>2 DEF Restoring
<1>4. /\ desired' \in Config /\ backups' \subseteq Config /\ origin' \in Origins
      /\ \/ origin' = origin /\ desired'.policy = desired.policy
         \/ origin' # "release"
  BY <1>3, StoredRight DEF configBackup, Origins
<1>5. SettingsTypes'
  BY <1>2, <1>3, <1>4 DEF SettingsTypes, Ops
<1>6. Backed(origin, desired.policy, pending)'
  BY <1>2, <1>4 DEF SettingsSound, Backed
<1> QED BY <1>2, <1>3, <1>5, <1>6, OverSound

-----------------------------------------------------------------------------
\* PrepareCommit writes an intent of its own, for the policy that was shown.
LEMMA Preparing ==
    ASSUME SettingsTypes, SettingsSound, PrepareCommit
    PROVE  SettingsTypes' /\ SettingsSound'
<1> USE DEF store, form, counts
<1> DEFINE record == [id |-> op.id, policy |-> Released]
<1>1. op \in Pressed /\ op.pc = "sent"
  BY OpShapes DEF PrepareCommit, SettingsTypes
<1>2. /\ op.id \in 1 .. turns /\ (\A p \in pending : p.id < op.id)
      /\ op.kind = "publish" /\ op.known # NoDraft => op.policy = op.known
  BY <1>1 DEF SettingsSound, PressedSound, Pressed
<1>3. Released = op.policy /\ op.policy \in Policies
  BY <1>1, <1>2 DEF PrepareCommit, Released, ReleaseAllowed, Pressed
<1>4. record \in PolicyReleaseRecord /\ record \notin pending /\ record.policy = op.policy
  <2>1. op.id \in 1 .. MaxTurns /\ ~(op.id < op.id)
    BY <1>2, SettingsAssumption DEF SettingsTypes
  <2> QED BY <1>2, <1>3, <2>1 DEF PolicyReleaseRecord
<1>5. /\ pending' = pending \cup {record}
      /\ op' = [pc |-> "prepared", kind |-> op.kind, shown |-> op.policy,
                revision |-> op.revision, record |-> record,
                previous |-> desired, before |-> origin]
      /\ UNCHANGED <<store, draft, ledger, form, fetch, save, counts, leave>>
      /\ op.revision = desired
  BY DEF PrepareCommit, ReleaseAllowed
<1>6. op' \in Committing
  BY <1>1, <1>3, <1>4, <1>5 DEF Committing, Pressed, SettingsTypes
<1>7. SettingsTypes'
  BY <1>4, <1>5, <1>6 DEF SettingsTypes, Ops
<1>8. pending' \ {record} = pending /\ record.id <= turns
  BY <1>2, <1>4, <1>5, SettingsAssumption DEF SettingsTypes
<1> HIDE DEF record
<1>9. /\ Backed(origin, desired.policy, pending)'
      /\ op'.record = record /\ op'.before = origin /\ op'.previous = desired
      /\ op'.pc = "prepared" /\ op'.shown = op.policy /\ op'.revision = desired
  BY <1>5 DEF SettingsSound, Backed
<1>10. CommitSound'
  BY <1>4, <1>5, <1>8, <1>9 DEF SettingsSound, CommitSound, Backed
<1>11. PressedSound' /\ (\A p \in pending : p.id <= turns)'
  BY <1>5, <1>8, <1>9 DEF SettingsSound, PressedSound
<1> QED BY <1>7, <1>9, <1>10, <1>11 DEF SettingsSound

\* The release is stored: its intent backs it.
LEMMA Applying ==
    ASSUME SettingsTypes, SettingsSound, ApplyRelease
    PROVE  SettingsTypes' /\ SettingsSound'
<1> USE DEF policies, form, counts
<1>1. op \in Committing /\ op.pc = "prepared"
  BY OpShapes DEF ApplyRelease, SettingsTypes
<1>2. /\ op.record \in pending /\ op.shown = op.record.policy /\ op.previous = op.revision
      /\ Backed(op.before, op.previous.policy, pending \ {op.record})
  BY <1>1 DEF SettingsSound, CommitSound
<1>3. /\ op' = [op EXCEPT !.pc = "written"]
      /\ UNCHANGED <<policies, form, fetch, save, counts, leave>>
      /\ Stored([op.previous EXCEPT !.policy = op.record.policy], "release")
  BY DEF ApplyRelease
<1>4. /\ op' \in Committing /\ op'.pc = "written" /\ op'.record = op.record
      /\ op'.shown = op.shown /\ op'.previous = op.previous /\ op'.revision = op.revision
      /\ op'.before = op.before
  BY <1>1, <1>3 DEF Committing
<1>5. /\ [op.previous EXCEPT !.policy = op.record.policy] \in Config
      /\ [op.previous EXCEPT !.policy = op.record.policy].policy = op.record.policy
  BY <1>1 DEF Committing, Config, PolicyReleaseRecord
<1>6. /\ desired' \in Config /\ backups' \subseteq Config /\ origin' \in Origins
      /\ desired'.policy = op.record.policy
  BY <1>3, <1>5, StoredRight DEF Origins
<1>7. SettingsTypes'
  BY <1>3, <1>4, <1>6 DEF SettingsTypes, Ops
<1>8. Backed(origin, desired.policy, pending)'
  BY <1>2, <1>3, <1>6 DEF Backed
<1>9. CommitSound'
  BY <1>2, <1>3, <1>4, <1>6 DEF CommitSound, Backed
<1>10. PressedSound' /\ (\A p \in pending : p.id <= turns)'
  BY <1>3, <1>4 DEF SettingsSound, PressedSound
<1> QED BY <1>7, <1>8, <1>9, <1>10 DEF SettingsSound

\* The release fails before or after it is stored, or it is entered.
LEMMA Closing ==
    ASSUME SettingsTypes, SettingsSound, ApplyFails \/ FinalizeCommit \/ Compensate
    PROVE  SettingsTypes' /\ SettingsSound'
<1> USE DEF form, counts
<1>1. op \in Committing /\ Releasing
  BY OpShapes DEF ApplyFails, FinalizeCommit, Compensate, SettingsTypes, Releasing
<1>2. /\ op.record \in pending /\ Backed(op.before, op.previous.policy, pending \ {op.record})
      /\ op.pc = "prepared" => Backed(origin, desired.policy, pending \ {op.record})
      /\ op.pc = "written" => (origin = "release" => desired.policy = op.record.policy)
  BY <1>1 DEF SettingsSound, CommitSound, Releasing
<1>3. /\ op.previous \in Config /\ op.before \in Origins /\ op.record.policy \in Policies
  BY <1>1 DEF Committing, PolicyReleaseRecord
<1>4. /\ op' \in Ops /\ op'.pc \in {"refused", "done"}
      /\ UNCHANGED <<form, fetch, save, counts, leave>>
  BY DEF ApplyFails, FinalizeCommit, Compensate, Ops, Answered
<1>5. ASSUME desired' \in Config, backups' \subseteq Config, origin' \in Origins,
             draft' \in Known, ledger' \in Seq(Policies), pending' \subseteq pending,
             Backed(origin, desired.policy, pending)'
      PROVE  SettingsTypes' /\ SettingsSound'
  <2>1. SettingsTypes'
    BY <1>4, <1>5 DEF SettingsTypes
  <2> QED BY <1>4, <1>5, <2>1, OverSound
<1>6. CASE ApplyFails
  <2>1. UNCHANGED <<store, draft, ledger>> /\ pending' \in {pending, pending \ {op.record}}
    BY <1>6 DEF ApplyFails, AbortCommit
  <2>2. Backed(origin, desired.policy, pending)'
    BY <1>2, <1>6, <2>1 DEF ApplyFails, SettingsSound, Backed, store
  <2> QED BY <1>5, <2>1, <2>2 DEF SettingsTypes, store
<1>7. CASE FinalizeCommit
  <2>1. /\ UNCHANGED store /\ ledger' = Append(ledger, op.record.policy)
        /\ pending' = pending \ {op.record} /\ draft' = NoDraft /\ op.pc = "written"
    BY <1>7 DEF FinalizeCommit
  <2>2. /\ ledger' \in Seq(Policies) /\ Len(ledger') > 0 /\ Last(ledger') = op.record.policy
    BY <1>3, <2>1 DEF SettingsTypes, Last
  <2>3. Backed(origin, desired.policy, pending)'
    BY <1>2, <2>1, <2>2 DEF Backed, store
  <2> QED BY <1>5, <2>1, <2>2, <2>3 DEF SettingsTypes, Known, store
<1>8. CASE Compensate
  <2>1. CASE desired = [op.previous EXCEPT !.policy = op.record.policy]
    <3>1. /\ desired' = op.previous /\ origin' = op.before /\ backups' = backups \cup {desired}
          /\ UNCHANGED <<draft, ledger>> /\ pending' \in {pending, pending \ {op.record}}
      BY <1>8, <2>1 DEF Compensate, AbortCommit
    <3>2. Backed(origin, desired.policy, pending)'
      BY <1>2, <3>1 DEF Backed
    <3> QED BY <1>3, <1>5, <3>1, <3>2 DEF SettingsTypes
  <2>2. CASE desired # [op.previous EXCEPT !.policy = op.record.policy]
    <3>1. UNCHANGED <<store, policies>>
      BY <1>8, <2>2 DEF Compensate
    <3>2. Backed(origin, desired.policy, pending)'
      BY <3>1 DEF SettingsSound, Backed, store, policies
    <3> QED BY <1>5, <3>1, <3>2 DEF SettingsTypes, store, policies
  <2> QED BY <2>1, <2>2
<1> QED BY <1>6, <1>7, <1>8

\* The other operator drafts and publishes.
LEMMA OthersRelease ==
    ASSUME SettingsTypes, SettingsSound,
           OtherPublishes \/ \E policy \in Policies : OtherDrafts(policy)
    PROVE  SettingsTypes' /\ SettingsSound'
<1> USE DEF form, calls
<1>0. turns \in Nat
  BY SettingsAssumption DEF SettingsTypes
<1>1. ASSUME NEW policy \in Policies, OtherDrafts(policy) PROVE SettingsTypes' /\ SettingsSound'
  <2>1. UNCHANGED <<store, ledger, pending, form, calls>> /\ Begin /\ draft' \in Known
    BY <1>1 DEF OtherDrafts, Known
  <2>2. SettingsTypes'
    BY <2>1, Begun DEF SettingsTypes, store
  <2>3. turns' \in Nat /\ turns' >= turns
    BY <1>0, <2>1, Begun
  <2> QED BY <2>1, <2>3, <2>2, StaysSound DEF store
<1>2. CASE OtherPublishes
  <2>1. /\ UNCHANGED <<pending, form, calls>> /\ Begin /\ draft' = NoDraft /\ ~Releasing
        /\ ledger' = Append(ledger, draft) /\ draft \in Policies
        /\ Stored([desired EXCEPT !.policy = draft], "release")
    BY <1>2 DEF OtherPublishes, SettingsTypes, Known
  <2>2. /\ [desired EXCEPT !.policy = draft] \in Config
        /\ [desired EXCEPT !.policy = draft].policy = draft
    BY <2>1 DEF SettingsTypes, Config
  <2>3. /\ desired' \in Config /\ backups' \subseteq Config /\ origin' \in Origins
        /\ desired'.policy = draft
    BY <2>1, <2>2, StoredRight DEF Origins
  <2>4. /\ ledger' \in Seq(Policies) /\ Len(ledger') > 0 /\ Last(ledger') = draft
    BY <2>1 DEF SettingsTypes, Last
  <2>5. SettingsTypes'
    BY <2>1, <2>3, <2>4, Begun DEF SettingsTypes, Known
  <2>6. Backed(origin, desired.policy, pending)'
    BY <2>3, <2>4 DEF Backed
  <2>7. turns' = turns + 1
    BY <2>1, Begun
  <2>8. (\A p \in pending : p.id <= turns)'
    <3>1. \A p \in pending : p.id \in Nat /\ p.id <= turns
      BY DEF SettingsTypes, SettingsSound, PolicyReleaseRecord
    <3> QED BY <1>0, <2>1, <2>7, <3>1
  <2>9. PressedSound'
    BY <1>0, <2>1, <2>7 DEF SettingsSound, PressedSound
  <2>10. CommitSound'
    BY <2>1 DEF CommitSound, Releasing
  <2> QED BY <2>5, <2>6, <2>8, <2>9, <2>10 DEF SettingsSound
<1> QED BY <1>1, <1>2

\* After a crash Reconcile closes every intent, and the ledger ends with the
\* policy in force if that came from a release.
LEMMA Recovering ==
    ASSUME SettingsTypes, SettingsSound, Crash
    PROVE  SettingsTypes' /\ SettingsSound'
<1> USE DEF store, form
<1>1. /\ UNCHANGED <<store, form, turns, leave>> /\ pending' = {} /\ fetch' = Idle
      /\ crashes' \in 0 .. MaxCrashes /\ Reconcile
  BY SettingsAssumption DEF Crash, SettingsTypes
<1>2. fetch' \in Fetches /\ save' \in Saves
  BY <1>1 DEF Crash, Fetches, Saves, SettingsTypes
<1>3. op' \in Ops /\ ((op' = op /\ op.pc \in {"idle", "confirm"}) \/ op' = Idle)
  BY DEF Crash, Ops, Answered, Idle, SettingsTypes
<1>4. /\ ledger' \in Seq(Policies) /\ draft' \in Known
      /\ Backed(origin, desired.policy, pending)'
  <2>1. CASE \E record \in pending : record.policy = desired.policy
    <3>1. ledger' = Append(ledger, desired.policy) /\ draft' = NoDraft
      BY <1>1, <2>1 DEF Reconcile
    <3>2. desired.policy \in Policies
      BY DEF SettingsTypes, Config
    <3>3. ledger' \in Seq(Policies) /\ Len(ledger') > 0 /\ Last(ledger') = desired.policy
      BY <3>1, <3>2 DEF SettingsTypes, Last
    <3> QED BY <1>1, <3>1, <3>3 DEF Backed, Known
  <2>2. CASE ~\E record \in pending : record.policy = desired.policy
    <3>1. UNCHANGED <<ledger, draft>>
      BY <1>1, <2>2 DEF Reconcile
    <3> QED BY <1>1, <2>2, <3>1 DEF SettingsSound, Backed, SettingsTypes
  <2> QED BY <2>1, <2>2
<1>5. SettingsTypes'
  BY <1>1, <1>2, <1>3, <1>4 DEF SettingsTypes
<1>6. PressedSound' /\ CommitSound'
  BY <1>1, <1>3 DEF SettingsSound, PressedSound, CommitSound, Idle
<1> QED BY <1>1, <1>4, <1>5, <1>6 DEF SettingsSound

\* Every step of either console, of the server and of a restart keeps the
\* inductive invariant.
LEMMA SettingsStep == SettingsInv /\ [Next]_vars => SettingsInv'
<1> SUFFICES ASSUME SettingsInv, [Next]_vars PROVE SettingsInv'
  OBVIOUS
<1>0. SettingsTypes /\ SettingsSound
  BY DEF SettingsInv
<1>1. CASE FormStep
  BY <1>0, <1>1, FormTypes, FormSound DEF SettingsInv
<1>2. CASE updateConfigStores \/ \E plain \in Plains : OtherSaves(plain)
  BY <1>0, <1>2, SavesStored DEF SettingsInv
<1>3. CASE \/ savePolicyDraft \/ publishPolicy
           \/ \E policy \in releases.history : rollbackPolicyRelease(policy)
           \/ \E version \in backups : rollbackConfig(version)
  BY <1>0, <1>3, Pressing DEF SettingsInv
<1>4. CASE OpConfirmed
  BY <1>0, <1>4, Confirming DEF SettingsInv
<1>5. CASE policyDraft \/ ReleaseRefused \/ OpReloads \/ OpRefreshes \/ OpFails
  BY <1>0, <1>5, Answering DEF SettingsInv
<1>6. CASE configBackup
  BY <1>0, <1>6, BackupStored DEF SettingsInv
<1>7. CASE PrepareCommit
  BY <1>0, <1>7, Preparing DEF SettingsInv
<1>8. CASE ApplyRelease
  BY <1>0, <1>8, Applying DEF SettingsInv
<1>9. CASE ApplyFails \/ FinalizeCommit \/ Compensate
  BY <1>0, <1>9, Closing DEF SettingsInv
<1>10. CASE OtherPublishes \/ \E policy \in Policies : OtherDrafts(policy)
  BY <1>0, <1>10, OthersRelease DEF SettingsInv
<1>11. CASE Crash
  BY <1>0, <1>11, Recovering DEF SettingsInv
<1>12. CASE UNCHANGED vars
  BY <1>12 DEF vars, store, policies, form, calls, counts, SettingsInv, SettingsTypes,
       SettingsSound, PressedSound, CommitSound, Backed
<1> QED
  BY <1>1, <1>2, <1>3, <1>4, <1>5, <1>6, <1>7, <1>8, <1>9, <1>10, <1>11, <1>12, Zenon
     DEF Next, FormStep

\* The configuration, the ledger, the form and all calls under way stay sound.
THEOREM SettingsInvariant == Spec => []SettingsInv
<1>1. Init => SettingsInv
  <2> SUFFICES ASSUME Init PROVE SettingsInv
    OBVIOUS
  <2>1. First \in Config /\ NoReleases \in PolicyReleaseStatus
    BY SettingsAssumption DEF First, Config, NoReleases, PolicyReleaseStatus
  <2>2. Idle \in Fetches /\ Idle \in Saves /\ Idle \in Leaves /\ Idle \in Ops /\ Idle.pc = "idle"
    BY DEF Fetches, Saves, Leaves, Ops, Answered, Idle
  <2>3. SettingsTypes
    BY <2>1, <2>2, SettingsAssumption DEF Init, SettingsTypes, Origins, Known
  <2>4. SettingsSound
    BY <2>2 DEF Init, SettingsSound, PressedSound, CommitSound, Backed
  <2> QED BY <2>3, <2>4 DEF SettingsInv
<1> QED BY <1>1, SettingsStep, PTL DEF Spec

\* Whatever saves, drafts, releases, failed entries and crashes come between,
\* a policy in force that came from a release is the last one the ledger lists
\* once no intent is open.
THEOREM LedgerIsTrue == Spec => []LedgerAgrees
<1>1. SettingsInv => LedgerAgrees
  BY TypesSuffice DEF SettingsInv, SettingsSound, LedgerAgrees, Backed
<1> QED BY <1>1, SettingsInvariant, PTL

\* A release, and the taking back of one, leaves the ordinary settings of the
\* store as it finds them, whoever saved them.
THEOREM ReleasesSpareSettings == Spec => ReleaseKeepsSettings
<1>1. SettingsInv /\ [Next]_vars =>
        [Releasing => desired'.plain = desired.plain \/ op' = op]_vars
  <2> SUFFICES ASSUME SettingsInv, Next, Releasing, op' # op
               PROVE  desired'.plain = desired.plain
    BY DEF vars, calls
  <2>1. op \in Committing /\ op.previous = op.revision /\ op.previous \in Config
    BY OpShapes DEF SettingsInv, SettingsTypes, SettingsSound, CommitSound, Releasing,
                    Committing
  <2>2. op # Idle /\ op.pc \notin {"idle", "confirm", "sent", "done", "refresh", "refused"}
    BY DEF Releasing, Idle
  <2>3. CASE ApplyRelease
    <3>1. desired = op.previous /\ desired' = [op.previous EXCEPT !.policy = op.record.policy]
      BY <2>1, <2>3 DEF ApplyRelease, RevisionStands, Stored
    <3> QED BY <2>1, <3>1 DEF Config
  <2>4. CASE Compensate
    <3>1. \/ UNCHANGED desired
          \/ /\ desired = [op.previous EXCEPT !.policy = op.record.policy]
             /\ desired' = op.previous
      BY <2>4 DEF Compensate, store
    <3> QED BY <2>1, <3>1 DEF Config
  <2>5. CASE ApplyFails \/ FinalizeCommit \/ Crash
    BY <2>5 DEF ApplyFails, FinalizeCommit, Crash, store
  <2>6. ASSUME FormStep PROVE FALSE
    BY <2>6 DEF FormStep, calls, form, patch, patchTrafficPolicy, discard, selectView, Left,
         LeaveConfirmed, LeaveRefused, openSettings, openPolicyTab, reload, bootstrap,
         FetchReads, FetchLands, FetchFails, Save, SaveReviewed, SaveConfirmed,
         updateConfigChecks, SaveAnswered, SaveEnds, SaveFails
  <2>7. ASSUME \/ updateConfigStores \/ OtherPublishes
               \/ \E plain \in Plains : OtherSaves(plain)
               \/ \E policy \in Policies : OtherDrafts(policy)
        PROVE  FALSE
    BY <2>7 DEF updateConfigStores, OtherPublishes, OtherSaves, OtherDrafts, calls
  <2>8. ASSUME \/ savePolicyDraft \/ publishPolicy \/ OpConfirmed \/ policyDraft \/ configBackup
               \/ PrepareCommit \/ ReleaseRefused \/ OpReloads \/ OpRefreshes \/ OpFails
               \/ \E policy \in releases.history : rollbackPolicyRelease(policy)
               \/ \E version \in backups : rollbackConfig(version)
        PROVE  FALSE
    BY <2>2, <2>8 DEF savePolicyDraft, publishPolicy, OpConfirmed, policyDraft, configBackup,
         PrepareCommit, ReleaseRefused, OpReloads, OpRefreshes, OpFails, rollbackPolicyRelease,
         rollbackConfig
  <2> QED BY <2>3, <2>4, <2>5, <2>6, <2>7, <2>8, Zenon DEF Next, FormStep
<1> QED BY <1>1, SettingsInvariant, PTL DEF Spec, ReleaseKeepsSettings

\* What a publication or a rollback stores is the policy its operator saw when
\* pressing the button, whatever drafts were saved in between.
THEOREM ShownIsPublished == Spec => ReviewedPublished
<1>1. SettingsInv /\ [Next]_vars =>
        [op.pc = "prepared" /\ op'.pc = "written" => desired'.policy = op.shown]_vars
  <2> SUFFICES ASSUME SettingsInv, Next, op.pc = "prepared", op'.pc = "written"
               PROVE  desired'.policy = op.shown
    OBVIOUS
  <2>1. op \in Committing /\ op.shown = op.record.policy
    BY OpShapes DEF SettingsInv, SettingsTypes, SettingsSound, CommitSound
  <2>2. CASE ApplyRelease
    <3>1. desired' = [op.previous EXCEPT !.policy = op.record.policy]
      BY <2>2 DEF ApplyRelease, Stored
    <3> QED BY <2>1, <3>1 DEF Committing, Config
  <2>3. op # Idle /\ op' # op
    BY DEF Idle
  <2>4. ASSUME ApplyFails \/ FinalizeCommit \/ Compensate \/ Crash PROVE FALSE
    BY <2>3, <2>4 DEF ApplyFails, FinalizeCommit, Compensate, Crash, Idle
  <2>5. ASSUME FormStep PROVE FALSE
    BY <2>3, <2>5 DEF FormStep, calls, form, patch, patchTrafficPolicy, discard, selectView, Left,
         LeaveConfirmed, LeaveRefused, openSettings, openPolicyTab, reload, bootstrap,
         FetchReads, FetchLands, FetchFails, Save, SaveReviewed, SaveConfirmed,
         updateConfigChecks, SaveAnswered, SaveEnds, SaveFails
  <2>6. ASSUME \/ updateConfigStores \/ OtherPublishes
               \/ \E plain \in Plains : OtherSaves(plain)
               \/ \E policy \in Policies : OtherDrafts(policy)
        PROVE  FALSE
    BY <2>3, <2>6 DEF updateConfigStores, OtherPublishes, OtherSaves, OtherDrafts, calls
  <2>7. ASSUME \/ savePolicyDraft \/ publishPolicy \/ OpConfirmed \/ policyDraft \/ configBackup
               \/ PrepareCommit \/ ReleaseRefused \/ OpReloads \/ OpRefreshes \/ OpFails
               \/ \E policy \in releases.history : rollbackPolicyRelease(policy)
               \/ \E version \in backups : rollbackConfig(version)
        PROVE  FALSE
    BY <2>3, <2>7 DEF savePolicyDraft, publishPolicy, OpConfirmed, policyDraft, configBackup,
         PrepareCommit, ReleaseRefused, OpReloads, OpRefreshes, OpFails, rollbackPolicyRelease,
         rollbackConfig
  <2> QED BY <2>2, <2>4, <2>5, <2>6, <2>7, Zenon DEF Next, FormStep
<1> QED BY <1>1, SettingsInvariant, PTL DEF Spec, ReviewedPublished
=============================================================================
