------------------------------- MODULE Client --------------------------------
(***************************************************************************)
(* The API client of the console (web/src/api.ts): which calls there are,  *)
(* what a call sends, and what its answer does to the client.              *)
(*                                                                         *)
(* A call is known by the name of its method.  Of a call the model keeps   *)
(* its HTTP method (a call that is no GET carries the CSRF token), what    *)
(* shape its answer must have ("any" answers are passed on unseen), and    *)
(* whether it carries a confirmation header.  Paths, query strings and     *)
(* bodies are left out.  A token is the number of the session it belongs   *)
(* to, 0 for none.                                                         *)
(***************************************************************************)
EXTENDS Naturals

Call(method, expects) == [method |-> method, expects |-> expects, confirms |-> FALSE]
Get(expects)          == Call("GET", expects)
Post(expects)         == Call("POST", expects)
Delete(expects)       == Call("DELETE", expects)
Put(expects)          == Call("PUT", expects)
Confirmed(call)       == [call EXCEPT !.confirms = TRUE]

SessionCalls ==
    [session |-> Get("arrays"), login |-> Post("arrays"), logout |-> Post("any")]

StatusCalls ==
    [runtimeInfo |-> Get("object"), status |-> Get("arrays"), healthSummary |-> Get("arrays"),
     slo |-> Get("object"), config |-> Get("schema5"), loginOptions |-> Get("object"),
     alerts |-> Get("array"), notificationStatus |-> Get("object"),
     notificationDeliveries |-> Get("array"), testNotification |-> Post("object"),
     incidents |-> Get("arrays"), incident |-> Get("arrays")]

FeedCalls ==
    [history |-> Get("arrays"), metrics |-> Get("arrays"), metricErrors |-> Get("arrays"),
     events |-> Get("arrays"), runtimeLogs |-> Get("arrays")]

CaptureCalls ==
    [captureStatus |-> Get("object"), captureKeyStatus |-> Get("arrays"),
     rewrapCaptureKeys |-> Post("object"), captures |-> Get("records"),
     startCapture |-> Post("object"), stopCapture |-> Post("object"),
     capturePreview |-> Get("records"), deleteCapture |-> Delete("any"),
     deleteExpiredCaptures |-> Delete("any"), timeline |-> Get("any"),
     runDiagnostics |-> Post("any")]

\* Downloads are GETs whose answer is stored as a file; the raw capture alone
\* must be confirmed.
DownloadCalls ==
    [downloadDiagnostics |-> Get("any"), downloadRuntimeLogs |-> Get("any"),
     downloadCapture |-> Get("any"), downloadRawCapture |-> Confirmed(Get("any"))]

ConfigCalls ==
    [validateConfig |-> Post("arrays"), configState |-> Get("object"),
     configVersions |-> Get("arrays"), rollbackConfig |-> Confirmed(Post("object")),
     upstreamStatus |-> Get("arrays"), governanceStatus |-> Get("arrays"),
     telemetryStatus |-> Get("object")]

PolicyCalls ==
    [policyStatus |-> Get("arrays"), policyReleases |-> Get("arrays"),
     savePolicyDraft |-> Put("object"), publishPolicy |-> Post("object"),
     rollbackPolicy |-> Post("object"), simulatePolicy |-> Post("object"),
     replayPolicy |-> Post("object")]

\* A save is confirmed by a header of its own when it changes how the
\* operators sign in.
ControlCalls ==
    [saveConfig |-> Put("arrays"), saveConfigAuth |-> Confirmed(Put("arrays")),
     reloadConfig |-> Post("any"), pause |-> Post("any"), resume |-> Post("any"),
     drain |-> Post("any"), maintenance |-> Post("any")]

UncertainCalls ==
    [previewUncertainResolution |-> Post("preview"), resolveUncertain |-> Post("object")]

RequestCalls ==
    [retry |-> Post("any"), batchRetry |-> Post("arrays"), setRetryPolicy |-> Post("any"),
     clearRetryPolicy |-> Delete("any"), batchRetryPolicy |-> Post("arrays"),
     repeatTasks |-> Get("array"), createRepeatTask |-> Post("object"),
     repeatTaskAction |-> Post("object"), stopRepeatTask |-> Delete("object"),
     cancel |-> Delete("any")]

\* Every call, by name.
Calls ==
    LET tables == {SessionCalls, StatusCalls, FeedCalls, CaptureCalls, DownloadCalls, ConfigCalls,
                   PolicyCalls, ControlCalls, UncertainCalls, RequestCalls}
    IN  [name \in UNION {DOMAIN table : table \in tables} |->
            (CHOOSE table \in tables : name \in DOMAIN table)[name]]

------------------------------------------------------------------------------
\* A client starts without a token, and reports a lost session once.
NewClient == [csrf |-> 0, notified |-> FALSE]

\* The token a call carries.
TokenSent(client, name) == IF Calls[name].method = "GET" THEN 0 ELSE client.csrf

\* Answers: an HTTP status, and for a 200 whether the payload has the shape
\* the call expects.
Answers == {"ok", "malformed", "401", "403", "failed"}

\* Whether the caller gets a value; otherwise the call throws an ApiError.
Accepts(name, answer) ==
    answer = "ok" \/ (answer = "malformed" /\ Calls[name].expects = "any")

\* notifyUnauthorized: a 401 is reported unless this client already did.
NotifiesAlways(client, answer) == answer \in {"401", "403"} /\ ~client.notified
Notifies(client, answer) == answer = "401" /\ ~client.notified

\* The client after an answer: session and login store the token, and login
\* arms the report again.
AfterAnswerKeepingToken(client, name, answer, token) ==
    [client EXCEPT !.csrf = IF name = "session" /\ answer = "ok" THEN token ELSE @,
                   !.notified = (@ \/ answer = "401") /\ ~(name = "login" /\ answer = "ok")]
AfterAnswer(client, name, answer, token) ==
    [client EXCEPT !.csrf = IF name \in {"session", "login"} /\ answer = "ok" THEN token ELSE @,
                   !.notified = (@ \/ answer = "401") /\ ~(name = "login" /\ answer = "ok")]
=============================================================================
