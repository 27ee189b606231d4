-------------------------------- MODULE Views --------------------------------
(***************************************************************************)
(* The views, dialogs and tools of the console side by side.  They share   *)
(* no state with each other: what they have in common is the server and    *)
(* the session, the subject of Console.  So a behaviour is about one of    *)
(* them, `part`, the others stay as they began, and the behaviours of this *)
(* specification are those of the parts, each of them all of its part's.   *)
(***************************************************************************)
EXTENDS Lists, Realtime, Panels, Requests, RetryForm, Repeat, GlobalSearch, SignalTopology

VARIABLE part

viewsVars == <<part, listVars, streamVars, panelVars, requestVars, formVars, repeatVars, searchVars, topologyVars>>

Parts == {"lists", "stream", "panels", "requests", "form", "repeat", "search", "topology"}

\* A part that nothing happens to begins in one way.
ViewsInit ==
    /\ part \in Parts
    /\ ListsInit /\ (part # "lists" => kind = CHOOSE k \in Kinds : TRUE)
    /\ StreamInit
    /\ PanelsInit /\ (part # "panels" => view = "logs")
    /\ RequestsInit /\ (part # "requests" => \A r \in Requests : reqs[r].state = (CHOOSE start \in Starts : TRUE)[r])
    /\ FormInit /\ (part # "form" => opened = NoPolicy)
    /\ RepeatInit
    /\ SearchInit
    /\ TopologyInit /\ (part # "topology" => ~compact /\ mode = "system")

ViewsNext ==
    /\ part' = part
    /\ \/ /\ part = "lists" /\ ListsNext
          /\ UNCHANGED <<streamVars, panelVars, requestVars, formVars, repeatVars, searchVars, topologyVars>>
       \/ /\ part = "stream" /\ StreamNext
          /\ UNCHANGED <<listVars, panelVars, requestVars, formVars, repeatVars, searchVars, topologyVars>>
       \/ /\ part = "panels" /\ PanelsNext
          /\ UNCHANGED <<listVars, streamVars, requestVars, formVars, repeatVars, searchVars, topologyVars>>
       \/ /\ part = "requests" /\ RequestsNext
          /\ UNCHANGED <<listVars, streamVars, panelVars, formVars, repeatVars, searchVars, topologyVars>>
       \/ /\ part = "form" /\ FormNext
          /\ UNCHANGED <<listVars, streamVars, panelVars, requestVars, repeatVars, searchVars, topologyVars>>
       \/ /\ part = "repeat" /\ RepeatNext
          /\ UNCHANGED <<listVars, streamVars, panelVars, requestVars, formVars, searchVars, topologyVars>>
       \/ /\ part = "search" /\ SearchNext
          /\ UNCHANGED <<listVars, streamVars, panelVars, requestVars, formVars, repeatVars, topologyVars>>
       \/ /\ part = "topology" /\ TopologyNext
          /\ UNCHANGED <<listVars, streamVars, panelVars, requestVars, formVars, repeatVars, searchVars>>

\* The fairness of the parts that have to get somewhere.
Stream(A) == part = "stream" /\ A
Panel(A) == part = "panels" /\ A
ViewsFair ==
    /\ WF_streamVars(Stream(Handler)) /\ WF_streamVars(Stream(Browser)) /\ WF_streamVars(Stream(Refreshing))
    /\ WF_panelVars(Panel(pollLogs)) /\ WF_panelVars(Panel(pollCaptures))
    /\ WF_panelVars(Panel(Answering)) /\ WF_panelVars(Panel(AnsweringRest)) /\ WF_panelVars(Panel(Landing))

ViewsSpec == ViewsInit /\ [][ViewsNext]_viewsVars /\ ViewsFair
=============================================================================
