------------------------------- MODULE Panel -------------------------------
(***************************************************************************)
(* The panel's API client (api/v2board): the calls of one controller       *)
(* cycle, each with a deadline, an attempt timeout and retries of resty,   *)
(* over a network that loses requests and answers, to a panel that changes *)
(* meanwhile, answers errors, or whose answer is cut short.                *)
(***************************************************************************)
EXTENDS Naturals, Sequences

CONSTANTS
    RetryCount,                 \* resty's, 3 in New
    AttemptTimeout, CallTimeout,    \* the client's timeout and a call's, in ticks
    MaxVersion                  \* changes of the panel's data

ASSUME PanelAssumption ==
    /\ RetryCount \in Nat /\ MaxVersion \in Nat
    /\ AttemptTimeout \in Nat \ {0} /\ CallTimeout \in Nat /\ CallTimeout >= AttemptTimeout

Cycles == [monitor |-> <<"GetNodeInfo", "GetUserList", "GetUserAlive">>,
           report  |-> <<"ReportUserTraffic", "ReportNodeOnlineUsers">>]

\* What comes back: a whole body, one cut short, an error of the panel in JSON, or a
\* page of something in between.  The last two have an error status.
Bodies == {"whole", "cut", "error", "page"}

VARIABLES
    nodeType,           \* Client.NodeType: "" or the protocol of an XrayR-style node
    version,            \* of the panel's configuration, user list and alive list
    cycle,              \* calls still to make, the first one being made
    exchange,           \* it: "no", "send", "flight", "backoff", "answered"
    attempt, waited, elapsed,
    answer,             \* the body and the version it was made from
    since,              \* history: the panel's version when the call began
    applied,            \* how often the panel has applied the report being made
    returned            \* what the last call returned

exchangeVars == <<exchange, attempt, waited, elapsed, answer>>
panelVars   == <<nodeType, version, cycle, exchangeVars, since, applied, returned>>

NoAnswer == [body |-> "none", version |-> 0]

\* node, users and alive are versions of the panel's data; 0 stands for the value that
\* was never sent: a zero CommonNode, an empty alive map.
Returned(call, ok, value) == [call |-> call, ok |-> ok, value |-> value]

PanelTypeOK ==
    /\ nodeType \in {"", "vmess"} /\ version \in 1 .. MaxVersion
    /\ exchange \in {"no", "send", "flight", "backoff", "answered"}
    /\ attempt \in 0 .. RetryCount + 1 /\ waited \in 0 .. AttemptTimeout /\ elapsed \in 0 .. CallTimeout
    /\ answer \in {NoAnswer} \cup [body : Bodies, version : 1 .. MaxVersion]
    /\ since \in 0 .. MaxVersion /\ applied \in 0 .. RetryCount + 1
    /\ returned.ok \in BOOLEAN /\ returned.value \in 0 .. MaxVersion

-----------------------------------------------------------------------------
(* What the calls make of an answer.                                        *)

Current == Head(cycle)
IsError(a) == a.body \in {"error", "page"}

\* The error's JSON has no protocol.
getNodeInfoV2(a) == Returned("GetNodeInfo", a.body = "whole", a.version)

\* The body needs no field at all, and the status is not looked at: an error in JSON
\* becomes a node without port.
getNodeInfoUniProxy(a) ==
    Returned("GetNodeInfo", a.body \in {"whole", "error"}, IF a.body = "whole" THEN a.version ELSE 0)

GetNodeInfo(a) == IF nodeType # "" THEN getNodeInfoUniProxy(a) ELSE getNodeInfoV2(a)

\* Mutant: the end of the body ends the list.
GetUserListCut(a) == Returned("GetUserList", a.body \in {"whole", "cut"}, a.version)

\* The JSON is decoded user by user and must have its closing bracket; without "users"
\* the body ends before the name is found.
GetUserList(a) == Returned("GetUserList", a.body = "whole", a.version)

\* Never an error: whatever goes wrong is an empty map.
GetUserAlive(a) == Returned("GetUserAlive", TRUE, IF a.body = "whole" THEN a.version ELSE 0)

Report(call, a) == Returned(call, ~IsError(a), 0)

Result(a) ==
    CASE Current = "GetNodeInfo"  -> GetNodeInfo(a)
      [] Current = "GetUserList"  -> GetUserList(a)
      [] Current = "GetUserAlive" -> GetUserAlive(a)
      [] OTHER -> Report(Current, a)

Failure == IF Current = "GetUserAlive" THEN GetUserAlive(NoAnswer) ELSE Returned(Current, FALSE, 0)

\* The monitor gives up after a failed call, the report goes on.
Return(result) ==
    /\ returned' = result
    /\ cycle' = IF ~result.ok /\ Current \in {"GetNodeInfo", "GetUserList"} THEN <<>> ELSE Tail(cycle)
    /\ exchange' = IF cycle' = <<>> THEN "no" ELSE "send"
    /\ attempt' = IF cycle' = <<>> THEN 0 ELSE 1
    /\ waited' = 0 /\ elapsed' = 0 /\ answer' = NoAnswer
    /\ since' = version
    /\ UNCHANGED <<nodeType, version, applied>>

-----------------------------------------------------------------------------
(* The client.                                                              *)

StartCycle(kind) ==
    /\ cycle = <<>>
    /\ cycle' = Cycles[kind]
    /\ exchange' = "send" /\ attempt' = 1 /\ waited' = 0 /\ elapsed' = 0
    /\ answer' = NoAnswer /\ since' = version /\ applied' = 0
    /\ UNCHANGED <<nodeType, version, returned>>

Send ==
    /\ exchange = "send"
    /\ exchange' = "flight" /\ answer' = NoAnswer
    /\ applied' = IF attempt = 1 THEN 0 ELSE applied
    /\ UNCHANGED <<nodeType, version, cycle, attempt, waited, elapsed, since, returned>>

Retries == attempt <= RetryCount /\ elapsed < CallTimeout

\* A transport error: the request or its answer is lost, nobody listens, the attempt's
\* timeout or the call's deadline is over.  resty tries again, whatever the method.
AttemptFails ==
    /\ exchange = "flight"
    /\ \/ /\ Retries
          /\ exchange' = "backoff"
          /\ UNCHANGED <<nodeType, version, cycle, attempt, waited, elapsed, answer, since, applied,
                         returned>>
       \/ ~Retries /\ Return(Failure)

Backoff ==
    /\ exchange = "backoff"
    /\ \/ /\ elapsed < CallTimeout
          /\ exchange' = "send" /\ attempt' = attempt + 1 /\ waited' = 0
          /\ UNCHANGED <<nodeType, version, cycle, elapsed, answer, since, applied, returned>>
       \/ elapsed = CallTimeout /\ Return(Failure)

Answered ==
    /\ exchange = "flight" /\ answer # NoAnswer
    /\ exchange' = "answered"
    /\ UNCHANGED <<nodeType, version, cycle, attempt, waited, elapsed, answer, since, applied, returned>>

Decode == exchange = "answered" /\ Return(Result(answer))

\* Mutant: an attempt has no timeout.
TimesOutNever == FALSE /\ AttemptFails

TimesOut == (waited = AttemptTimeout \/ elapsed = CallTimeout) /\ AttemptFails

-----------------------------------------------------------------------------
(* The panel, the network and the clock.                                    *)

PanelChanges ==
    /\ version < MaxVersion
    /\ version' = version + 1
    /\ UNCHANGED <<nodeType, cycle, exchangeVars, since, applied, returned>>

\* The request arrives and is answered; a report may be applied and then fail, and
\* what answers in the panel's place applies nothing.
PanelAnswers(body) ==
    /\ exchange = "flight" /\ answer = NoAnswer
    /\ answer' = [body |-> body, version |-> version]
    /\ applied' \in (IF Current \notin {"ReportUserTraffic", "ReportNodeOnlineUsers"} \/ body = "page"
                     THEN {applied}
                     ELSE IF body = "error" THEN {applied, applied + 1} ELSE {applied + 1})
    /\ UNCHANGED <<nodeType, version, cycle, exchange, attempt, waited, elapsed, since, returned>>

PanelTick ==
    /\ exchange \in {"flight", "backoff"} /\ waited < AttemptTimeout /\ elapsed < CallTimeout
    /\ waited' = waited + 1 /\ elapsed' = elapsed + 1
    /\ UNCHANGED <<nodeType, version, cycle, exchange, attempt, answer, since, applied, returned>>

-----------------------------------------------------------------------------

PanelInit ==
    /\ nodeType \in {"", "vmess"} /\ version = 1
    /\ cycle = <<>> /\ exchange = "no" /\ attempt = 0 /\ waited = 0 /\ elapsed = 0
    /\ answer = NoAnswer /\ since = 0 /\ applied = 0
    /\ returned = Returned("", FALSE, 0)

ClientStep == Send \/ TimesOut \/ Backoff \/ Answered \/ Decode

PanelNext ==
    \/ \E kind \in DOMAIN Cycles : StartCycle(kind)
    \/ ClientStep \/ AttemptFails
    \/ PanelChanges \/ PanelTick
    \/ \E body \in Bodies : PanelAnswers(body)

\* The client's goroutine runs and time passes; nothing is assumed of the panel or of
\* the network.
PanelFairness == WF_panelVars(ClientStep) /\ WF_panelVars(PanelTick)

PanelSpec == PanelInit /\ [][PanelNext]_panelVars /\ PanelFairness

-----------------------------------------------------------------------------
(* Properties.                                                              *)

\* What a call takes for the node's configuration or for the user list came whole from
\* the panel, and is no older than the call: no answer that was cut, no error, nothing
\* cached, and no answer to an attempt that was given up.  The exception is an error in
\* JSON that answers an XrayR-style node's request, which becomes an empty
\* configuration.
OnlyCurrentAnswersApply ==
    [][LET r == returned' IN
       exchange # "no" /\ returned' # returned /\ r.ok /\ r.call \in {"GetNodeInfo", "GetUserList"} =>
           \/ r.value >= since /\ r.value <= version /\ answer.body = "whole"
           \/ r.value = 0 /\ nodeType # "" /\ r.call = "GetNodeInfo" /\ answer.body = "error"]_panelVars

\* No cycle is stuck in a call, although requests and answers get lost and the panel
\* may be silent.
CycleReturns == cycle # <<>> ~> cycle = <<>>
=============================================================================
