------------------------------- MODULE Runner -------------------------------
(***************************************************************************)
(* The protocols Xray does not speak: common/{mieru,sudoku,snell,ssaead,   *)
(* ssr,trojanss}.  Each has a Manager, a map from the node's tag to a      *)
(* Runner under the manager's lock, and a Runner with a lock of its own,   *)
(* which opens its listener with the first user.  A manager call looks the *)
(* runner up under the first lock and uses it under the second, so calls   *)
(* interleave in between.                                                  *)
(*                                                                         *)
(* One node tag and one port; a closed runner of the tag and its successor *)
(* compete for that port.  Client keys are distinct and of legal length,   *)
(* so a service refuses a user table only when it is empty.                *)
(***************************************************************************)
EXTENDS Naturals, FiniteSets

CONSTANTS
    Runners,    \* Runner objects, each created at most once
    Clients,    \* the users of the panel
    Keyless,    \* users the panel sent without a key
    Callers,    \* goroutines that call the core: a monitor, an abandoned one
    Sessions,   \* client connections
    Nothing,
    Protocols,  \* the node's protocol is one of these
    MaxCalls,   \* core calls made
    MaxFaults   \* listeners that fail to start for an outside reason

ASSUME RunnerAssumption ==
    /\ Keyless \subseteq Clients /\ Nothing \notin Runners
    /\ Protocols \subseteq {"mieru", "sudoku", "snell4", "snell6", "ssaead", "ssr", "trojanss"}
    /\ MaxCalls \in Nat /\ MaxFaults \in Nat

VARIABLES
    proto,
    runners,    \* Manager.runners at the tag
    users,      \* Runner: r.users, r.uuids or r.hashUser
    svc,        \* Runner: the users its service authenticates
    ln,         \* Runner: "new", listener "nil" or "open"; mieru's mux "closed"
    call,       \* per caller, the call between the manager's lock and the runner's
    session,    \* per connection: stage, runner, user, credentials it is tried against
    late,       \* history: runners fetched by AddUsers before they left the map
    calls, faults

mgrVars    == <<proto, runners>>
objectVars == <<users, svc, ln>>
runnerVars == <<mgrVars, objectVars, call, session, late, calls, faults>>

NoCall == [op |-> "none", r |-> Nothing, us |-> {}]
NoConn == [at |-> "none", r |-> Nothing, user |-> Nothing, creds |-> {}]

RunnerTypeOK ==
    /\ proto \in Protocols
    /\ runners \in Runners \cup {Nothing}
    /\ users \in [Runners -> SUBSET Clients]
    /\ svc \in [Runners -> SUBSET Clients]
    /\ ln \in [Runners -> {"new", "nil", "open"} \cup
                          (IF proto = "mieru" THEN {"closed"} ELSE {})]
    /\ call \in [Callers -> [op : {"none", "add", "del", "close"},
                             r : Runners \cup {Nothing}, us : SUBSET Clients]]
    /\ session \in [Sessions -> [at : {"none", "accepted", "outlived", "identified",
                                       "relay", "closed"},
                                 r : Runners \cup {Nothing}, user : Clients \cup {Nothing},
                                 creds : SUBSET Clients]]
    /\ late \subseteq Runners
    /\ calls \in 0 .. MaxCalls /\ faults \in 0 .. MaxFaults

\* Services with a user table of their own; the others look into the runner's.
Registers == {"mieru", "snell4", "snell6", "ssaead"}
Accepts(r) == IF proto \in Registers THEN svc[r] ELSE users[r]

PortFree == \A r \in Runners : ln[r] # "open"

-----------------------------------------------------------------------------
(* The managers.                                                            *)

Idle(c) == call[c] = NoCall /\ calls < MaxCalls
Calls(c, op, r, us) ==
    /\ call' = [call EXCEPT ![c] = [op |-> op, r |-> r, us |-> us]]
    /\ calls' = calls + 1

\* Manager.Add: one runner per tag; a second Add changes nothing.
Add(c) ==
    /\ Idle(c) /\ runners = Nothing
    /\ \E r \in Runners :
        /\ ln[r] = "new"
        /\ runners' = r
        /\ ln' = [ln EXCEPT ![r] = "nil"]
    /\ calls' = calls + 1
    /\ UNCHANGED <<proto, users, svc, call, session, late, faults>>

\* Mutant: Del closes nothing.
DelKeepsRunning(c) ==
    /\ Idle(c) /\ runners # Nothing
    /\ runners' = Nothing
    /\ calls' = calls + 1
    /\ UNCHANGED <<proto, objectVars, call, session, late, faults>>

\* Manager.Del, and CloseAll when the core shuts down: out of the map under the
\* lock, closed afterwards.
Del(c) ==
    /\ Idle(c) /\ runners # Nothing
    /\ runners' = Nothing
    /\ late' = IF \E d \in Callers : call[d].op = "add" /\ call[d].r = runners
               THEN late \cup {runners} ELSE late
    /\ Calls(c, "close", runners, {})
    /\ UNCHANGED <<proto, objectVars, session, faults>>

\* Manager.AddUsers and Manager.DelUsers: fetch the runner, unlock.
Fetch(c, us) ==
    /\ Idle(c) /\ runners # Nothing
    /\ \E op \in {"add", "del"} : Calls(c, op, runners, us)
    /\ UNCHANGED <<mgrVars, objectVars, session, late, faults>>

ManagerCall(c) == Add(c) \/ Del(c) \/ \E us \in SUBSET Clients \ {{}} : Fetch(c, us)

MieruManager(c)    == proto = "mieru" /\ ManagerCall(c)
SudokuManager(c)   == proto = "sudoku" /\ ManagerCall(c)
SnellManager(c)    == proto \in {"snell4", "snell6"} /\ ManagerCall(c)
SsaeadManager(c)   == proto = "ssaead" /\ ManagerCall(c)
SsrManager(c)      == proto = "ssr" /\ ManagerCall(c)
TrojanssManager(c) == proto = "trojanss" /\ ManagerCall(c)

-----------------------------------------------------------------------------
(* The runners.  Each operation holds r.mu from beginning to end.           *)

Return(c) ==
    /\ call' = [call EXCEPT ![c] = NoCall]
    /\ UNCHANGED <<mgrVars, late, calls>>

\* The listener opens with a service of its own; connections the last one accepted
\* stay with the last service, as it is now.
Opens(r) ==
    /\ users'[r] # {} /\ PortFree
    /\ ln' = [ln EXCEPT ![r] = "open"]
    /\ svc' = [svc EXCEPT ![r] = users'[r]]
    /\ session' = [k \in Sessions |->
           IF proto \in {"snell6", "ssaead"} /\ session[k].at = "accepted" /\ session[k].r = r
           THEN [session[k] EXCEPT !.at = "outlived", !.creds = svc[r]] ELSE session[k]]
    /\ UNCHANGED faults
\* The port is taken, or building the server fails.
Fails(r) ==
    /\ users'[r] # {}
    /\ IF PortFree THEN faults < MaxFaults /\ faults' = faults + 1
                   ELSE UNCHANGED faults
    /\ UNCHANGED <<ln, svc, session>>
StaysIdle(r) == users'[r] = {} /\ UNCHANGED <<ln, svc, session, faults>>

mieru_startLocked(r)    == proto = "mieru" /\ (Opens(r) \/ Fails(r))
sudoku_startLocked(r)   == proto = "sudoku" /\ (Opens(r) \/ Fails(r))
snell_startLocked(r)    == proto \in {"snell4", "snell6"} /\ (Opens(r) \/ Fails(r))
ssaead_startLocked(r)   == proto = "ssaead" /\ (Opens(r) \/ Fails(r))
ssr_startLocked(r)      == proto = "ssr" /\ (Opens(r) \/ Fails(r))
trojanss_startLocked(r) == proto = "trojanss" /\ (Opens(r) \/ Fails(r))

startLocked(r) ==
    \/ mieru_startLocked(r) \/ sudoku_startLocked(r) \/ snell_startLocked(r)
    \/ ssaead_startLocked(r) \/ ssr_startLocked(r) \/ trojanss_startLocked(r)

NoService(r) == UNCHANGED <<ln, svc, session, faults>>

\* Mutant: users added to an open listener are not passed on.
ReregisterForgotten(r) == NoService(r)

\* UpdateUsers, SetServerUsers: the service gets the runner's whole table.
Reregister(r) == svc' = [svc EXCEPT ![r] = users'[r]] /\ UNCHANGED <<ln, session, faults>>

\* The first users start the listener, also when an earlier start failed; later
\* ones are passed on as told says.
AddTo(c, us, told) ==
    LET r == call[c].r IN
    /\ call[c].op = "add"
    /\ users' = [users EXCEPT ![r] = @ \cup us]
    /\ IF ln[r] = "nil" THEN startLocked(r) \/ StaysIdle(r) ELSE told
    /\ Return(c)

mieru_AddUsers(c)  == proto = "mieru" /\ AddTo(c, call[c].us, Reregister(call[c].r))
snell_AddUsers(c)  == proto \in {"snell4", "snell6"} /\ AddTo(c, call[c].us, Reregister(call[c].r))
ssaead_AddUsers(c) == proto = "ssaead" /\ AddTo(c, call[c].us, Reregister(call[c].r))
\* A user without a key cannot be recognised and is skipped.
sudoku_AddUsers(c)   == proto = "sudoku" /\ AddTo(c, call[c].us \ Keyless, NoService(call[c].r))
ssr_AddUsers(c)      == proto = "ssr" /\ AddTo(c, call[c].us, NoService(call[c].r))
trojanss_AddUsers(c) == proto = "trojanss" /\ AddTo(c, call[c].us, NoService(call[c].r))

DelFrom(c, told) ==
    LET r == call[c].r IN
    /\ call[c].op = "del"
    /\ users' = [users EXCEPT ![r] = @ \ call[c].us]
    /\ told
    /\ Return(c)

\* A mux, once started, is told about every removal, the last one included.
IfStarted(r) == IF ln[r] = "nil" THEN NoService(r) ELSE Reregister(r)
\* A service that refuses an empty table is not told about the last removal.  r.svc
\* outlives Close, and is nil only before the first start.
IfAnyLeft(r) == IF svc[r] # {} /\ users'[r] # {} THEN Reregister(r) ELSE NoService(r)

\* Mutant: the service is not told about removals.
DelUsersForgotten(c) == proto = "ssaead" /\ DelFrom(c, NoService(call[c].r))

mieru_DelUsers(c)    == proto = "mieru" /\ DelFrom(c, IfStarted(call[c].r))
snell_DelUsers(c)    == proto \in {"snell4", "snell6"} /\ DelFrom(c, IfAnyLeft(call[c].r))
ssaead_DelUsers(c)   == proto = "ssaead" /\ DelFrom(c, IfAnyLeft(call[c].r))
sudoku_DelUsers(c)   == proto = "sudoku" /\ DelFrom(c, NoService(call[c].r))
ssr_DelUsers(c)      == proto = "ssr" /\ DelFrom(c, NoService(call[c].r))
trojanss_DelUsers(c) == proto = "trojanss" /\ DelFrom(c, NoService(call[c].r))

\* A closed mux stays where it is and is never started again.
mieru_Close(c) ==
    LET r == call[c].r IN
    /\ call[c].op = "close" /\ proto = "mieru"
    /\ ln' = [ln EXCEPT ![r] = IF @ = "open" THEN "closed" ELSE @]
    /\ UNCHANGED <<users, svc, session, faults>>
    /\ Return(c)

\* Everywhere else Close forgets the listener, and AddUsers would open another.
ForgetListener(c) ==
    /\ call[c].op = "close"
    /\ ln' = [ln EXCEPT ![call[c].r] = "nil"]
    /\ UNCHANGED <<users, svc, session, faults>>
    /\ Return(c)

sudoku_Close(c)   == proto = "sudoku" /\ ForgetListener(c)
snell_Close(c)    == proto \in {"snell4", "snell6"} /\ ForgetListener(c)
ssaead_Close(c)   == proto = "ssaead" /\ ForgetListener(c)
ssr_Close(c)      == proto = "ssr" /\ ForgetListener(c)
trojanss_Close(c) == proto = "trojanss" /\ ForgetListener(c)

AddUsers(c) ==
    \/ mieru_AddUsers(c) \/ sudoku_AddUsers(c) \/ snell_AddUsers(c)
    \/ ssaead_AddUsers(c) \/ ssr_AddUsers(c) \/ trojanss_AddUsers(c)
DelUsers(c) ==
    \/ mieru_DelUsers(c) \/ sudoku_DelUsers(c) \/ snell_DelUsers(c)
    \/ ssaead_DelUsers(c) \/ ssr_DelUsers(c) \/ trojanss_DelUsers(c)
Close(c) ==
    \/ mieru_Close(c) \/ sudoku_Close(c) \/ snell_Close(c)
    \/ ssaead_Close(c) \/ ssr_Close(c) \/ trojanss_Close(c)

-----------------------------------------------------------------------------
(* Connections.                                                             *)

connOnly == <<mgrVars, objectVars, call, late, calls, faults>>
Stage(k, s) == session' = [session EXCEPT ![k].at = s] /\ UNCHANGED connOnly

\* A goroutine of its own for every connection, whoever made it.
AcceptSession(k, r, u, creds) ==
    /\ session[k].at = "none" /\ ln[r] = "open"
    /\ session' = [session EXCEPT ![k] = [at |-> "accepted", r |-> r, user |-> u, creds |-> creds]]
    /\ UNCHANGED connOnly

mieru_acceptLoop(k, r, u)  == proto = "mieru" /\ AcceptSession(k, r, u, {})
sudoku_acceptLoop(k, r, u) == proto = "sudoku" /\ AcceptSession(k, r, u, {})
\* The trial service of v4 and v5 takes its list of credentials right away.
snell_acceptLoop(k, r, u) ==
    /\ proto \in {"snell4", "snell6"}
    /\ AcceptSession(k, r, u, IF proto = "snell4" THEN svc[r] ELSE {})
ssaead_acceptLoop(k, r, u)   == proto = "ssaead" /\ AcceptSession(k, r, u, {})
ssr_acceptLoop(k, r, u)      == proto = "ssr" /\ AcceptSession(k, r, u, {})
trojanss_acceptLoop(k, r, u) == proto = "trojanss" /\ AcceptSession(k, r, u, {})

\* Whose connection it is becomes known from its first bytes.  It is closed when it
\* is nobody's, when they are not what the protocol wants, or never come.
Identify(k, table) ==
    /\ session[k].at \in {"accepted", "outlived"}
    /\ \/ session[k].user \in table /\ Stage(k, "identified")
       \/ Stage(k, "closed")

ServiceTable(k) == IF session[k].at = "outlived" THEN session[k].creds ELSE svc[session[k].r]

mieru_handle(k)      == proto = "mieru" /\ Identify(k, svc[session[k].r])
sudoku_DialTarget(k) == proto = "sudoku" /\ Identify(k, users[session[k].r])
sudoku_HandleUDP(k)  == proto = "sudoku" /\ Identify(k, users[session[k].r])

\* Every credential of the list taken on acceptance is tried.
trial_NewConnection(k)   == proto = "snell4" /\ Identify(k, session[k].creds)
snell_NewConnectionEx(k) == proto = "snell6" /\ Identify(k, ServiceTable(k))
ssaead_NewConnection(k)  == proto = "ssaead" /\ Identify(k, ServiceTable(k))
ssr_handshake(k)         == proto = "ssr" /\ Identify(k, users[session[k].r])
trojanss_handshake(k)    == proto = "trojanss" /\ Identify(k, users[session[k].r])

\* Dispatch gives a link, or refuses and the connection is closed; a link is copied
\* until either side ends.
Bridge(k) ==
    \/ session[k].at = "identified" /\ (Stage(k, "relay") \/ Stage(k, "closed"))
    \/ session[k].at = "relay" /\ Stage(k, "closed")

mieru_bridge(k)       == proto = "mieru" /\ Bridge(k)
sudoku_dispatch(k)    == proto = "sudoku" /\ Bridge(k)
snell_dispatchTCP(k)  == proto \in {"snell4", "snell6"} /\ Bridge(k)
snell_dispatchUDP(k)  == proto \in {"snell4", "snell6"} /\ Bridge(k)
ssaead_dispatchTCP(k) == proto = "ssaead" /\ Bridge(k)
ssaead_dispatchUDP(k) == proto = "ssaead" /\ Bridge(k)
ssr_dispatch(k)       == proto = "ssr" /\ Bridge(k)
trojanss_dispatch(k)  == proto = "trojanss" /\ Bridge(k)

acceptLoop(k, r, u) ==
    \/ mieru_acceptLoop(k, r, u) \/ sudoku_acceptLoop(k, r, u) \/ snell_acceptLoop(k, r, u)
    \/ ssaead_acceptLoop(k, r, u) \/ ssr_acceptLoop(k, r, u) \/ trojanss_acceptLoop(k, r, u)

Connection(k) ==
    \/ \E r \in Runners, u \in Clients : acceptLoop(k, r, u)
    \/ mieru_handle(k) \/ mieru_bridge(k)
    \/ sudoku_DialTarget(k) \/ sudoku_HandleUDP(k) \/ sudoku_dispatch(k)
    \/ trial_NewConnection(k) \/ snell_NewConnectionEx(k)
    \/ snell_dispatchTCP(k) \/ snell_dispatchUDP(k)
    \/ ssaead_NewConnection(k) \/ ssaead_dispatchTCP(k) \/ ssaead_dispatchUDP(k)
    \/ ssr_handshake(k) \/ ssr_dispatch(k)
    \/ trojanss_handshake(k) \/ trojanss_dispatch(k)

RunnerInit ==
    /\ proto \in Protocols
    /\ runners = Nothing
    /\ users = [r \in Runners |-> {}] /\ svc = [r \in Runners |-> {}]
    /\ ln = [r \in Runners |-> "new"]
    /\ call = [c \in Callers |-> NoCall]
    /\ session = [k \in Sessions |-> NoConn]
    /\ late = {} /\ calls = 0 /\ faults = 0

RunnerNext ==
    \/ \E c \in Callers :
        \/ MieruManager(c) \/ SudokuManager(c) \/ SnellManager(c)
        \/ SsaeadManager(c) \/ SsrManager(c) \/ TrojanssManager(c)
        \/ AddUsers(c) \/ DelUsers(c) \/ Close(c)
    \/ \E k \in Sessions : Connection(k)

RunnerSpec == RunnerInit /\ [][RunnerNext]_runnerVars

-----------------------------------------------------------------------------

\* A listener that no manager knows belongs to a runner that AddUsers had fetched
\* before Del or CloseAll took it out of the map: nothing else leaves the node's port
\* held for good.
OrphanIsLate ==
    \A r \in Runners :
        ln[r] = "open" /\ runners # r =>
            r \in late \/ \E c \in Callers : call[c].op = "close" /\ call[c].r = r

\* A runner that listens takes a connection only for a user it has at that moment.
\* Two exceptions: the trial service goes by the credentials it read on acceptance,
\* and a service whose last user was removed goes on with those it had.
IdentifiedIsKnown ==
    [][\A k \in Sessions :
         session[k].at = "accepted" /\ session'[k].at = "identified" /\ ln[session[k].r] = "open" =>
             \/ session[k].user \in users[session[k].r] \cup session[k].creds
             \/ proto \in {"snell6", "ssaead"} /\ users[session[k].r] = {}]_runnerVars

\* Every runner, whatever its protocol and whoever calls it, is a lazy listener: it
\* binds with its first users only, lets in exactly the users it was given, and stops
\* listening only in Close.
Listener == INSTANCE LazyListener WITH
    Listeners <- Runners,
    Users <- Clients,
    bound <- {r \in Runners : ln[r] = "open"},
    accepted <- [r \in Runners |-> Accepts(r)]
ImplementsLazyListener == Listener!Spec
=============================================================================
