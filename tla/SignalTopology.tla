---------------------------- MODULE SignalTopology ----------------------------
(***************************************************************************)
(* The three-dimensional scene of the overview: the effect that mounts it  *)
(* (web/src/components/SignalTopology.tsx), the mount itself, which waits  *)
(* for a module to be imported (signalTopologyScene.ts), and the theme it  *)
(* is drawn in (theme.ts).                                                 *)
(*                                                                         *)
(* A change of the theme or of the width makes React run the effect anew,  *)
(* some time later: an import may arrive in between.  What the effect      *)
(* before it has under way goes on and must be thrown away when it         *)
(* arrives.  Imports are answered in the order they were asked for, and    *)
(* what follows one of them runs before the next event of the browser.     *)
(* A scene is the number of the effect that mounts it.  Bound: MaxEffects. *)
(***************************************************************************)
EXTENDS Integers, Sequences, FiniteSets

CONSTANT MaxEffects

ASSUME TopologyAssumption == MaxEffects \in Nat

Themes == {"light", "dark"}

VARIABLES mounted,     \* the overview is open
          compact,     \* the window is narrow
          mode,        \* useTheme: "system", "light" or "dark"
          preferred,   \* the theme of the system
          resolved,    \* the theme of the document
          themed,      \* the theme was set since the effect last ran: themeRevision
          ran,         \* the width the effect last ran with
          effect,      \* the number of the last effect
          control,     \* the scene the last effect owns, 0 for none
          renderState,
          host,        \* the scene whose canvas the page holds, 0 for none
          live,        \* scenes whose renderer is not disposed of
          drawn,       \* the theme of the scene in the page
          mounts       \* mounts under way, in order

topologyVars == <<mounted, compact, mode, preferred, resolved, themed, ran,
                  effect, control, renderState, host, live, drawn, mounts>>
themeVars == <<mode, preferred, resolved>>
sceneVars == <<ran, effect, control, renderState, host, live, drawn, mounts>>

TopologyInit ==
    /\ mounted = FALSE /\ compact \in BOOLEAN
    /\ mode \in {"system"} \cup Themes /\ preferred = "light"
    /\ resolved = IF mode = "system" THEN preferred ELSE mode
    /\ themed = FALSE /\ ran = compact
    /\ effect = 0 /\ control = 0 /\ renderState = "loading"
    /\ host = 0 /\ live = {} /\ drawn = resolved
    /\ mounts = <<>>

\* No callback of a mount is still to run.
BetweenEvents == \A i \in DOMAIN mounts : mounts[i].pc = "import"

\* dispose: cleanup of mountThreeScene.
LiveWithout(scene) == live \ {scene}
HostWithout(scene) == IF host = scene THEN 0 ELSE host

\* The effect's cleanup, and the effect itself if the overview stays open.
Cleaned == [live |-> LiveWithout(control), host |-> HostWithout(control)]
RunEffect(narrow) ==
    /\ effect < MaxEffects /\ effect' = effect + 1
    /\ themed' = FALSE /\ ran' = narrow
    /\ control' = 0
    /\ live' = Cleaned.live
    /\ IF narrow
       THEN /\ host' = 0 /\ renderState' = "compact"
            /\ UNCHANGED mounts
       ELSE /\ host' = Cleaned.host /\ renderState' = "loading"
            /\ mounts' = Append(mounts, [scene |-> effect + 1, pc |-> "import"])

\* Opening the overview is a click, whose effects run at once; the width is
\* read anew.
openOverview ==
    /\ BetweenEvents /\ ~mounted
    /\ mounted' = TRUE
    /\ RunEffect(compact)
    /\ UNCHANGED <<compact, themeVars, drawn>>
closeOverview ==
    /\ BetweenEvents /\ mounted
    /\ mounted' = FALSE /\ themed' = FALSE
    /\ control' = 0 /\ live' = Cleaned.live /\ host' = 0
    /\ UNCHANGED <<compact, themeVars, ran, effect, renderState, drawn, mounts>>

\* The window gets narrow or wide, whether the overview is open or not.
changeWidth ==
    /\ BetweenEvents
    /\ compact' = ~compact
    /\ UNCHANGED <<mounted, themeVars, themed, sceneVars>>

\* applyTheme sets the attribute of the document that the overview observes.
resolveTheme(m, system) == IF m = "system" THEN system ELSE m
applyTheme(m, system) ==
    /\ resolved' = resolveTheme(m, system)
    /\ themed' = mounted
setMode(m) ==
    /\ BetweenEvents /\ m # mode
    /\ mode' = m
    /\ applyTheme(m, preferred)
    /\ UNCHANGED <<mounted, compact, preferred, sceneVars>>
preferenceChanges ==
    /\ BetweenEvents
    /\ preferred' \in Themes \ {preferred}
    /\ IF mode = "system" THEN applyTheme(mode, preferred') ELSE UNCHANGED <<resolved, themed>>
    /\ UNCHANGED <<mounted, compact, mode, sceneVars>>

\* React renders the change and runs the effect anew.
EffectDue == mounted /\ (themed \/ compact # ran)
runEffect ==
    /\ BetweenEvents /\ EffectDue
    /\ RunEffect(compact)
    /\ UNCHANGED <<mounted, compact, themeVars, drawn>>

\* The import is there: the scene is built and put into the page, or it fails.
Cancelled(scene) == ~mounted \/ scene # effect
FirstImport(i) == \A j \in 1 .. i - 1 : mounts[j].pc # "import"
mountContinues(i) ==
    /\ mounts[i].pc = "import" /\ FirstImport(i)
    /\ LET scene == mounts[i].scene
       IN  \/ /\ live' = live \cup {scene} /\ host' = scene /\ drawn' = resolved
              /\ renderState' = IF Cancelled(scene) THEN renderState ELSE "ready"
              /\ mounts' = [mounts EXCEPT ![i].pc = "returned"]
           \/ /\ mounts' = [mounts EXCEPT ![i].pc = "failed"]
              /\ UNCHANGED <<live, host, drawn, renderState>>
    /\ UNCHANGED <<mounted, compact, themeVars, themed, ran, effect, control>>

\* then and catch of the effect.
Without(i) == SubSeq(mounts, 1, i - 1) \o SubSeq(mounts, i + 1, Len(mounts))
TakeOver(scene) == control' = scene /\ UNCHANGED <<live, host>>
ReturnedKept(scene) == IF Cancelled(scene) THEN UNCHANGED <<live, host, control>> ELSE TakeOver(scene)
Returned(scene) ==
    IF Cancelled(scene) THEN live' = LiveWithout(scene) /\ host' = HostWithout(scene) /\ UNCHANGED control
    ELSE TakeOver(scene)
mountSettles(i) ==
    /\ mounts[i].pc \in {"returned", "failed"}
    /\ LET scene == mounts[i].scene
       IN  IF mounts[i].pc = "returned"
           THEN Returned(scene) /\ UNCHANGED renderState
           ELSE /\ renderState' = IF Cancelled(scene) THEN renderState ELSE "fallback"
                /\ UNCHANGED <<live, host, control>>
    /\ mounts' = Without(i)
    /\ UNCHANGED <<mounted, compact, themeVars, themed, ran, effect, drawn>>

\* The browser takes the context away: cleanup, and the static picture.
contextLost ==
    /\ BetweenEvents
    /\ \E scene \in live :
          /\ live' = LiveWithout(scene) /\ host' = HostWithout(scene)
          /\ renderState' = IF Cancelled(scene) THEN renderState ELSE "fallback"
    /\ UNCHANGED <<mounted, compact, themeVars, themed, ran, effect, control, drawn, mounts>>

TopologyNext ==
    \/ openOverview
    \/ closeOverview
    \/ changeWidth
    \/ \E m \in {"system"} \cup Themes : setMode(m)
    \/ preferenceChanges
    \/ runEffect
    \/ \E i \in DOMAIN mounts : mountContinues(i)
    \/ \E i \in DOMAIN mounts : mountSettles(i)
    \/ contextLost
TopologySpec == TopologyInit /\ [][TopologyNext]_topologyVars

------------------------------------------------------------------------------
\* Between two events the page holds at most one renderer, that of the last
\* effect, however many effects ran while imports were under way; there is
\* none when the overview is closed; a scene that is called ready is in the
\* page and live; and once the effect has caught up with the theme and the
\* width, there is none in a narrow window and what is drawn is drawn in the
\* theme of the document (the effect of SignalTopology.tsx, cleanup of
\* signalTopologyScene.ts).
SceneOwned ==
    BetweenEvents =>
       /\ live \subseteq {effect} /\ host \in live \cup {0}
       /\ ~mounted => live = {}
       /\ (mounted /\ renderState = "ready") => live = {effect} /\ host = effect
       /\ (~EffectDue /\ compact) => live = {}
       /\ (~EffectDue /\ mounted /\ renderState = "ready") => drawn = resolved
=============================================================================
