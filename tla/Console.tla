------------------------------- MODULE Console -------------------------------
(***************************************************************************)
(* The session of the console (web/src/App.tsx with the client of          *)
(* web/src/api.ts) and what lives and dies with it: signing in and out,    *)
(* the expiry of the session at the server, the bootstrap that reads what  *)
(* the screen needs, confirmations, and the event feed.                    *)
(*                                                                         *)
(* Every call is answered and its answer arrives in steps of their own, so *)
(* answers overtake each other and arrive after the state they were asked  *)
(* for is gone.  Changing the language makes a new client, without a       *)
(* token, and runs the bootstrap again; calls of the old client go on.     *)
(* A session is a number; the cookie names the last one issued.            *)
(***************************************************************************)
EXTENDS Client, EventFeed, Sequences

CONSTANTS Loads,       \* the reads without which nothing is rendered
          MaxSessions, \* bound: sessions the server issues
          MaxClients,  \* bound: clients made, one and one per change of language
          MaxTurns,    \* bound: what the operator and the network do unasked, but for events
          LateAnswers  \* whether any call may still be under way at the next sign-in

ASSUME ConsoleAssumption ==
    /\ Loads \subseteq DOMAIN Calls \ (DOMAIN SessionCalls \union DOMAIN ControlCalls)
    /\ {MaxSessions, MaxClients, MaxTurns} \subseteq Nat \ {0}
    /\ LateAnswers \in BOOLEAN

VARIABLES issued,        \* the number of sessions issued: the cookie of the browser
          valid,         \* whether the server still honours the cookie
          clients,       \* the clients made so far; the last is in use
          authenticated, \* as in App
          session,       \* session: the session the console works in, 0 for none
          screen,        \* for each load the session its value was read in, 0 for none
          bootstrapError,
          confirmation,  \* the client of the action that waits for an answer, 0 for none
          calls,         \* calls under way
          turns          \* how many unasked steps have been taken

sessionVars == <<issued, valid, clients, authenticated, session, screen,
                 bootstrapError, confirmation, calls, turns>>
vars == <<sessionVars, feedVars>>

api == Len(clients)

\* A call of client k; it is live while the run of the bootstrap effect that
\* made it is not disposed.
Sent(name, k, live) ==
    [name |-> name, client |-> k, live |-> live, cookie |-> issued,
     token |-> TokenSent(clients[k], name), answer |-> "none"]

CallRecord ==
    [name : DOMAIN Calls, client : 1 .. MaxClients, live : BOOLEAN, cookie : 0 .. MaxSessions,
     token : 0 .. MaxSessions, answer : Answers \union {"none"}]

\* The calls of a run of the effect that has been disposed.
Disposed(some) == {[c EXCEPT !.live = FALSE] : c \in some}

\* SessionInfo is reduced to the session's number, Status and Config to the
\* session they were read in.
ConsoleTypeOK ==
    /\ FeedTypeOK
    /\ issued \in 0 .. MaxSessions /\ valid \in BOOLEAN
    /\ clients \in Seq([csrf : 0 .. MaxSessions, notified : BOOLEAN])
    /\ authenticated \in BOOLEAN /\ session \in 0 .. MaxSessions
    /\ screen \in [Loads -> 0 .. MaxSessions]
    /\ bootstrapError \in BOOLEAN
    /\ confirmation \in 0 .. MaxClients
    /\ calls \in SUBSET CallRecord
    /\ turns \in 0 .. MaxTurns

\* The console opens with or without the cookie of a session, and asks.
Init ==
    /\ FeedInit
    /\ issued \in {0, 1} /\ valid = (issued = 1)
    /\ clients = <<NewClient>>
    /\ authenticated = TRUE /\ session = 0 /\ screen = [l \in Loads |-> 0]
    /\ bootstrapError = FALSE /\ confirmation = 0
    /\ calls = {Sent("session", 1, TRUE)}
    /\ turns = 0

Turn == turns < MaxTurns /\ turns' = turns + 1

\* Rendering waits for the loads and the session.
Rendered ==
    /\ authenticated /\ ~bootstrapError /\ session # 0
    /\ \A l \in Loads : screen[l] # 0

\* Everything the session brought is dropped, the open confirmation is
\* answered with no, and the bootstrap effect is disposed of.
resetAuthentication(others) ==
    /\ authenticated' = FALSE /\ session' = 0 /\ screen' = [l \in Loads |-> 0]
    /\ bootstrapError' = FALSE /\ confirmation' = 0
    /\ calls' = Disposed(others)
    /\ ResetFeed

\* The bootstrap effect runs again, next to the calls still under way.
Bootstrap(others) ==
    /\ bootstrapError' = FALSE
    /\ calls' = Disposed(others) \union
          {[name |-> "session", client |-> Len(clients'), live |-> TRUE, cookie |-> issued,
            token |-> 0, answer |-> "none"]}

------------------------------------------------------------------------------
\* The server.
Honoured(c) == valid /\ c.cookie = issued

\* What the server may answer: a good answer and an error, malformed or not.
Replies(c) ==
    IF c.name = "login" THEN IF issued < MaxSessions THEN {"ok", "401"} ELSE {"401"}
    ELSE IF ~Honoured(c) THEN {"401"}
    ELSE IF Calls[c.name].method # "GET" /\ c.token # issued THEN {"403"}
    ELSE {"ok", "malformed", "failed"}

Serve(c) ==
    \E answer \in Replies(c) :
        LET done == answer \in {"ok", "malformed"}
            good == answer = "ok"
        IN  /\ c.answer = "none"
            /\ issued' = IF c.name = "login" /\ good THEN issued + 1 ELSE issued
            /\ valid' = IF c.name = "login" /\ good THEN TRUE
                        ELSE IF c.name = "logout" /\ done THEN FALSE ELSE valid
            /\ calls' = (calls \ {c}) \union {[c EXCEPT !.answer = answer, !.cookie = issued', !.token = 0]}
            /\ UNCHANGED <<clients, authenticated, session, screen, bootstrapError,
                           confirmation, turns, feedVars>>

\* The session is idle for too long, too old, evicted, or lost by a restart.
Expire ==
    /\ Turn
    /\ valid
    /\ valid' = FALSE
    /\ UNCHANGED <<issued, clients, authenticated, session, screen,
                   bootstrapError, confirmation, calls, feedVars>>

------------------------------------------------------------------------------
\* The console.  What every arriving answer does to its client.
Arrived(c) ==
    /\ c.answer # "none"
    /\ clients' = [clients EXCEPT ![c.client] = AfterAnswer(@, c.name, c.answer, c.cookie)]
    /\ UNCHANGED <<issued, valid, turns>>

Reported(c) == Notifies(clients[c.client], c.answer)

\* A lost session, or the answer to a sign-out whatever it is.
Leave(c) ==
    /\ Arrived(c)
    /\ Reported(c) \/ c.name = "logout"
    /\ resetAuthentication(calls \ {c})

\* The first call of a bootstrap: its session, and then the loads at once.
SessionArrives(c) ==
    /\ Arrived(c) /\ ~Reported(c)
    /\ c.name = "session"
    /\ IF c.live /\ Accepts(c.name, c.answer)
       THEN /\ session' = c.cookie
            /\ calls' = (calls \ {c}) \union {Sent(l, c.client, TRUE) : l \in Loads}
            /\ UNCHANGED bootstrapError
       ELSE /\ bootstrapError' = (bootstrapError \/ c.live)
            /\ calls' = calls \ {c}
            /\ UNCHANGED session
    /\ UNCHANGED <<authenticated, screen, confirmation, feedVars>>

\* A load is shown whenever it arrives; only its failure is ignored when its
\* bootstrap is disposed.
LoadArrives(c) ==
    /\ Arrived(c) /\ ~Reported(c)
    /\ c.name \in Loads
    /\ screen' = IF Accepts(c.name, c.answer) THEN [screen EXCEPT ![c.name] = c.cookie] ELSE screen
    /\ bootstrapError' = (bootstrapError \/ (c.live /\ ~Accepts(c.name, c.answer)))
    /\ calls' = calls \ {c}
    /\ UNCHANGED <<authenticated, session, confirmation, feedVars>>

\* login: the console works in the new session and boots.
LoginArrivesIdle(c) ==
    /\ Arrived(c) /\ ~Reported(c)
    /\ c.name = "login"
    /\ authenticated' = (authenticated \/ c.answer = "ok")
    /\ session' = IF c.answer = "ok" THEN c.cookie ELSE session
    /\ calls' = calls \ {c}
    /\ UNCHANGED <<screen, bootstrapError, confirmation, feedVars>>
LoginArrives(c) ==
    /\ Arrived(c) /\ ~Reported(c)
    /\ c.name = "login"
    /\ IF c.answer = "ok"
       THEN /\ authenticated' = TRUE
            /\ session' = c.cookie
            /\ Bootstrap(calls \ {c})
       ELSE /\ calls' = calls \ {c}
            /\ UNCHANGED <<authenticated, session, bootstrapError>>
    /\ UNCHANGED <<screen, confirmation, feedVars>>

\* The answer to a change of mode: the status is read again, or a message shown.
ActionArrives(c) ==
    /\ Arrived(c) /\ ~Reported(c)
    /\ c.name = "drain"
    /\ calls' = (calls \ {c}) \union
                IF Accepts(c.name, c.answer) THEN {Sent("status", c.client, FALSE)} ELSE {}
    /\ UNCHANGED <<authenticated, session, screen, bootstrapError, confirmation,
                   feedVars>>

\* A load that the server has answered, other than with a 401.
Answered(c) == c.name \in Loads /\ c.answer \in {"ok", "malformed", "failed"}

\* submit: the form is busy until its answer.  The code waits for nothing
\* else; unless LateAnswers what is still under way by the time a person has
\* typed the key are answers to loads, and they land whenever they arrive.
SignIn ==
    /\ ~authenticated
    /\ \A c \in calls : IF LateAnswers THEN c.name # "login" ELSE Answered(c)
    /\ issued < MaxSessions
    /\ calls' = calls \union {Sent("login", api, FALSE)}
    /\ UNCHANGED <<turns, issued, valid, clients, authenticated, session, screen,
                   bootstrapError, confirmation, feedVars>>

logout ==
    /\ Turn
    /\ Rendered
    /\ \A c \in calls : c.name # "logout"
    /\ calls' = calls \union {Sent("logout", api, FALSE)}
    /\ UNCHANGED <<issued, valid, clients, authenticated, session, screen,
                   bootstrapError, confirmation, feedVars>>

\* i18n.changeLanguage: a new client; the bootstrap effect depends on it.
ChangeLanguage ==
    /\ Turn
    /\ api < MaxClients
    /\ clients' = Append(clients, NewClient)
    /\ IF authenticated THEN Bootstrap(calls) ELSE UNCHANGED <<bootstrapError, calls>>
    /\ UNCHANGED <<issued, valid, authenticated, session, screen, confirmation, feedVars>>

\* refresh, after a visibility change, an error of the stream, or by hand.
refresh ==
    /\ Turn
    /\ Rendered
    /\ calls' = calls \union {Sent("status", api, FALSE)}
    /\ UNCHANGED <<issued, valid, clients, authenticated, session, screen,
                   bootstrapError, confirmation, feedVars>>

\* requestConfirmation: while one is open another is refused.
setControlMode ==
    /\ Turn
    /\ Rendered
    /\ confirmation = 0
    /\ confirmation' = api
    /\ UNCHANGED <<issued, valid, clients, authenticated, session, screen,
                   bootstrapError, calls, feedVars>>

\* finishConfirmation: the action goes on with the client it started with.
finishConfirmation(result) ==
    /\ Rendered
    /\ confirmation # 0
    /\ confirmation' = 0
    /\ IF result THEN calls' = calls \union {Sent("drain", confirmation, FALSE)}
                 ELSE UNCHANGED calls
    /\ UNCHANGED <<turns, issued, valid, clients, authenticated, session, screen,
                   bootstrapError, feedVars>>

------------------------------------------------------------------------------
\* The event feed: polled in a session, answered while the cookie is honoured.
PollEvents == authenticated /\ session # 0 /\ refreshEvents /\ UNCHANGED sessionVars

FeedServed ==
    /\ valid
    /\ ServePage
    /\ UNCHANGED sessionVars

FeedLands == (TakePage \/ FinishLoad) /\ UNCHANGED sessionVars

sessionOnly == <<issued, valid, clients, authenticated, session, screen, bootstrapError,
                 confirmation, calls>>

FeedFails == Turn /\ FailLoad /\ UNCHANGED sessionOnly

\* A page is refused.  The load belongs to the client that was in use when it
\* began, one of those made so far.
FeedDenied ==
    /\ ~valid
    /\ load # NoLoad /\ load.page = NoPage
    /\ \E k \in 1 .. api :
          /\ clients' = [clients EXCEPT ![k] = AfterAnswer(@, "events", "401", 0)]
          /\ IF Notifies(clients[k], "401")
             THEN /\ authenticated' = FALSE /\ session' = 0 /\ screen' = [l \in Loads |-> 0]
                  /\ bootstrapError' = FALSE /\ confirmation' = 0
                  /\ calls' = Disposed(calls)
                  /\ DenyLoad
             ELSE /\ FailLoad
                  /\ UNCHANGED <<authenticated, session, screen, bootstrapError, confirmation, calls>>
    /\ UNCHANGED <<issued, valid, turns>>

Recorded == RecordEvent /\ UNCHANGED <<sessionOnly, turns>>

Arrives(c) ==
    Leave(c) \/ SessionArrives(c) \/ LoadArrives(c) \/ LoginArrives(c) \/ ActionArrives(c)

Next ==
    \/ \E c \in calls : Serve(c) \/ Arrives(c)
    \/ Expire \/ SignIn \/ logout \/ ChangeLanguage \/ refresh
    \/ setControlMode \/ \E result \in BOOLEAN : finishConfirmation(result)
    \/ Recorded \/ PollEvents \/ FeedServed \/ FeedLands \/ FeedFails \/ FeedDenied

Spec == Init /\ [][Next]_vars

\* The browser and the server answer every call, the poll of the events runs
\* every ten seconds, and its loads are answered.
FairSpec ==
    /\ Spec
    /\ \A live \in BOOLEAN : WF_vars(\E c \in calls : c.live = live /\ (Serve(c) \/ Arrives(c)))
    /\ WF_vars(PollEvents) /\ WF_vars(FeedServed) /\ WF_vars(FeedLands)

------------------------------------------------------------------------------
\* The console leaves a session only when that session is over or the
\* operator signed out: neither an error that is no 401, nor a 401 that an
\* older client or a load of the feed got earlier, ends a session that is
\* honoured.  (With LateAnswers a 401 of a call made before the sign-in does.)
SignInKept ==
    [][authenticated /\ ~authenticated'
        => ~valid \/ \E c \in calls : c.name = "logout" /\ c \notin calls']_vars

\* The token of the client in use is the one of the session it works in, or
\* the client has none yet: no action is refused for a token of an earlier
\* session.
TokenBound ==
    /\ ConsoleTypeOK
    /\ authenticated /\ clients[api].csrf # 0 /\ session = issued => clients[api].csrf = session

\* A load of an earlier session was overtaken by the session's own: it will land
\* on top of it, for no load asks whether its bootstrap has been disposed.
LoadOvertaken ==
    \E c \in calls : /\ Answered(c) /\ Accepts(c.name, c.answer)
                     /\ c.cookie # session /\ screen[c.name] = session

\* In a session the console keeps, everything on the screen ends up read in
\* that session, or the failed bootstrap is shown: what was left behind by the
\* answers of an earlier session, those that land after the sign-in included,
\* is replaced.  The one exception is a load that lands after the session's own.
ScreenRenewed ==
    LET Kept == authenticated /\ session # 0
    IN  <>[]Kept => \/ []<>(bootstrapError \/ \A l \in Loads : screen[l] = session)
                    \/ <>(LoadOvertaken /\ []Kept)

\* A console that stays in a session catches up with the events, unless its
\* loads fail again and again; loads that failed or were crossed by a sign-out
\* before do not stop it.
FeedFollows ==
    <>[](authenticated /\ valid /\ session # 0)
        => <>[](cursor = latest) \/ []<><<FeedFails>>_vars
=============================================================================
