---------------------------- MODULE Runner_proofs ----------------------------
(***************************************************************************)
(* Proofs about Runner.  The six packages differ in what a runner tells    *)
(* its service; the first lemmas reduce their operations to a few shapes,  *)
(* one per caller's operation, and the rest reasons about those.           *)
(***************************************************************************)
EXTENDS Runner, TLAPS

ManagerStep(c) ==
    \/ MieruManager(c) \/ SudokuManager(c) \/ SnellManager(c)
    \/ SsaeadManager(c) \/ SsrManager(c) \/ TrojanssManager(c)

\* AddUsers on runner r, whatever the package: a runner without a listener may open
\* one, one with a listener passes its table on if the service has one of its own.
Adding(c, r) ==
    /\ call[c].op = "add" /\ call[c].r = r
    /\ \E us \in SUBSET Clients : users' = [users EXCEPT ![r] = @ \cup us]
    /\ \/ ln[r] = "nil" /\ Opens(r)
       \/ ln[r] = "nil" /\ UNCHANGED <<ln, svc, session>> /\ faults' \in 0 .. MaxFaults
       \/ ln[r] # "nil" /\ proto \in Registers /\ Reregister(r)
       \/ ln[r] # "nil" /\ proto \notin Registers /\ NoService(r)
    /\ Return(c)

\* DelUsers on runner r.
Removing(c, r) ==
    /\ call[c].op = "del" /\ call[c].r = r
    /\ \E us \in SUBSET Clients : users' = [users EXCEPT ![r] = @ \ us]
    /\ \/ proto \in Registers /\ Reregister(r)
       \/ proto \notin Registers /\ NoService(r)
       \/ proto = "mieru" /\ ln[r] = "nil" /\ NoService(r)
       \/ proto \in Registers \ {"mieru"} /\ (svc[r] = {} \/ users'[r] = {}) /\ NoService(r)
    /\ Return(c)

\* Close on runner r.
Closing(c, r) ==
    /\ call[c].op = "close" /\ call[c].r = r
    /\ \E next \in {"nil", "new", "closed"} :
         /\ next = "closed" => proto = "mieru"
         /\ next # "nil" => proto = "mieru"
         /\ ln' = [ln EXCEPT ![r] = next]
    /\ UNCHANGED <<users, svc, session, faults>>
    /\ Return(c)

\* A step of connection k.  Whoever is identified is in the table that the service
\* of its protocol looks into.
Advancing(k) ==
    \/ \E r \in Runners, u \in Clients, creds \in SUBSET Clients : AcceptSession(k, r, u, creds)
    \/ \E s \in {"identified", "relay", "closed"} :
         /\ session[k].at # "none"
         /\ Stage(k, s)
         /\ session[k].at = "accepted" /\ s = "identified" =>
               \/ proto \in Registers \ {"snell4"} /\ session[k].user \in svc[session[k].r]
               \/ proto \notin Registers /\ session[k].user \in users[session[k].r]
               \/ session[k].user \in session[k].creds

-----------------------------------------------------------------------------

\* A call that was made has a runner, and so has a connection that was accepted.
HasRunner ==
    /\ \A c \in Callers : call[c].op # "none" => call[c].r \in Runners
    /\ \A k \in Sessions : session[k].at # "none" => session[k].r \in Runners

\* A caller about to add users to a runner that is no longer its tag's is late.
AdderIsLate ==
    \A c \in Callers : call[c].op = "add" /\ call[c].r # runners => call[c].r \in late

\* The table of the service of a runner that listens is the runner's, except that
\* three packages do not pass an empty one on.
ServiceFollows ==
    \A r \in Runners : ln[r] = "open" /\ proto \in Registers =>
        svc[r] = users[r] \/ (proto # "mieru" /\ users[r] = {})

RunnerInv == RunnerTypeOK /\ HasRunner /\ AdderIsLate /\ OrphanIsLate /\ ServiceFollows

-----------------------------------------------------------------------------

\* What AddTo does to the runner, once it is known how its service is told.
LEMMA AddShaped ==
    ASSUME RunnerTypeOK, HasRunner, NEW c \in Callers, NEW us \in SUBSET Clients,
           call[c].op = "add",
           users' = [users EXCEPT ![call[c].r] = @ \cup us],
           IF ln[call[c].r] = "nil" THEN startLocked(call[c].r) \/ StaysIdle(call[c].r)
           ELSE \/ proto \in Registers /\ Reregister(call[c].r)
                \/ proto \notin Registers /\ NoService(call[c].r),
           Return(c)
    PROVE  \E r \in Runners : Adding(c, r)
<1> DEFINE r == call[c].r
<1>1. r \in Runners
  BY DEF HasRunner
<1>2. CASE ln[r] = "nil"
  <2>1. Opens(r) \/ Fails(r) \/ StaysIdle(r)
    BY <1>2 DEF startLocked, mieru_startLocked, sudoku_startLocked, snell_startLocked,
       ssaead_startLocked, ssr_startLocked, trojanss_startLocked
  <2>2. ASSUME Fails(r) \/ StaysIdle(r)
        PROVE  UNCHANGED <<ln, svc, session>> /\ faults' \in 0 .. MaxFaults
    BY <2>2, RunnerAssumption DEF Fails, StaysIdle, RunnerTypeOK
  <2> QED BY <1>1, <1>2, <2>1, <2>2 DEF Adding
<1>3. CASE ln[r] # "nil"
  BY <1>1, <1>3 DEF Adding
<1> QED BY <1>2, <1>3

LEMMA AddUsersAdds ==
    ASSUME RunnerTypeOK, HasRunner, NEW c \in Callers, AddUsers(c)
    PROVE  \E r \in Runners : Adding(c, r)
<1> DEFINE r == call[c].r
<1>1. call[c].us \in SUBSET Clients /\ call[c].us \ Keyless \in SUBSET Clients
  BY DEF RunnerTypeOK
<1>2. CASE mieru_AddUsers(c) \/ snell_AddUsers(c) \/ ssaead_AddUsers(c)
  <2>1. AddTo(c, call[c].us, Reregister(r)) /\ proto \in Registers
    BY <1>2 DEF mieru_AddUsers, snell_AddUsers, ssaead_AddUsers, Registers
  <2> QED BY <1>1, <2>1, AddShaped DEF AddTo
<1>3. CASE sudoku_AddUsers(c)
  <2>1. AddTo(c, call[c].us \ Keyless, NoService(r)) /\ proto \notin Registers
    BY <1>3 DEF sudoku_AddUsers, Registers
  <2> QED BY <1>1, <2>1, AddShaped DEF AddTo
<1>4. CASE ssr_AddUsers(c) \/ trojanss_AddUsers(c)
  <2>1. AddTo(c, call[c].us, NoService(r)) /\ proto \notin Registers
    BY <1>4 DEF ssr_AddUsers, trojanss_AddUsers, Registers
  <2> QED BY <1>1, <2>1, AddShaped DEF AddTo
<1> QED BY <1>2, <1>3, <1>4 DEF AddUsers

LEMMA DelUsersRemoves ==
    ASSUME RunnerTypeOK, HasRunner, NEW c \in Callers, DelUsers(c)
    PROVE  \E r \in Runners : Removing(c, r)
<1> DEFINE r == call[c].r
<1>1. call[c].us \in SUBSET Clients
  BY DEF RunnerTypeOK
<1>2. CASE mieru_DelUsers(c)
  <2>1. proto = "mieru" /\ DelFrom(c, IfStarted(r)) BY <1>2 DEF mieru_DelUsers
  <2>2. r \in Runners BY <2>1 DEF DelFrom, HasRunner
  <2> QED BY <1>1, <2>1, <2>2 DEF DelFrom, Removing, IfStarted, Registers
<1>3. CASE snell_DelUsers(c) \/ ssaead_DelUsers(c)
  <2>1. proto \in {"snell4", "snell6", "ssaead"} /\ DelFrom(c, IfAnyLeft(r))
    BY <1>3 DEF snell_DelUsers, ssaead_DelUsers
  <2>2. r \in Runners BY <2>1 DEF DelFrom, HasRunner
  <2> QED BY <1>1, <2>1, <2>2 DEF DelFrom, Removing, IfAnyLeft, Registers
<1>4. CASE sudoku_DelUsers(c) \/ ssr_DelUsers(c) \/ trojanss_DelUsers(c)
  <2>1. proto \notin Registers /\ DelFrom(c, NoService(r))
    BY <1>4 DEF sudoku_DelUsers, ssr_DelUsers, trojanss_DelUsers, Registers
  <2>2. r \in Runners BY <2>1 DEF DelFrom, HasRunner
  <2> QED BY <1>1, <2>1, <2>2 DEF DelFrom, Removing
<1> QED BY <1>2, <1>3, <1>4 DEF DelUsers

LEMMA CloseCloses ==
    ASSUME RunnerTypeOK, HasRunner, NEW c \in Callers, Close(c)
    PROVE  \E r \in Runners : Closing(c, r) /\ ln'[r] # "open"
<1> DEFINE r == call[c].r
<1>1. CASE mieru_Close(c)
  <2>1. /\ call[c].op = "close" /\ proto = "mieru" /\ r \in Runners /\ Return(c)
        /\ UNCHANGED <<users, svc, session, faults>>
        /\ ln' = [ln EXCEPT ![r] = IF @ = "open" THEN "closed" ELSE @]
    BY <1>1 DEF mieru_Close, HasRunner
  <2>2. \E next \in {"nil", "new", "closed"} : ln' = [ln EXCEPT ![r] = next]
    BY <2>1 DEF RunnerTypeOK
  <2> QED BY <2>1, <2>2 DEF Closing, RunnerTypeOK
<1>2. CASE sudoku_Close(c) \/ snell_Close(c) \/ ssaead_Close(c) \/ ssr_Close(c) \/ trojanss_Close(c)
  <2>1. ForgetListener(c)
    BY <1>2 DEF sudoku_Close, snell_Close, ssaead_Close, ssr_Close, trojanss_Close
  <2> QED BY <2>1 DEF ForgetListener, Closing, HasRunner, RunnerTypeOK
<1> QED BY <1>1, <1>2 DEF Close

LEMMA ConnectionAdvances ==
    ASSUME RunnerTypeOK, HasRunner, NEW k \in Sessions, Connection(k)
    PROVE  Advancing(k)
<1>1. CASE \E r \in Runners, u \in Clients : acceptLoop(k, r, u)
  <2>1. PICK r \in Runners, u \in Clients : acceptLoop(k, r, u)
    BY <1>1
  <2>2. \E creds \in SUBSET Clients : AcceptSession(k, r, u, creds)
    BY <2>1 DEF RunnerTypeOK, acceptLoop, mieru_acceptLoop, sudoku_acceptLoop, snell_acceptLoop,
       ssaead_acceptLoop, ssr_acceptLoop, trojanss_acceptLoop
  <2> QED BY <2>2 DEF Advancing
<1>2. ASSUME NEW table, Identify(k, table),
             session[k].at = "accepted" =>
               \/ proto \in Registers \ {"snell4"} /\ table = svc[session[k].r]
               \/ proto \notin Registers /\ table = users[session[k].r]
               \/ table = session[k].creds
      PROVE  Advancing(k)
  BY <1>2 DEF Identify, Advancing
<1>3. CASE mieru_handle(k)
  BY <1>2, <1>3 DEF mieru_handle, Registers
<1>4. CASE sudoku_DialTarget(k) \/ sudoku_HandleUDP(k) \/ ssr_handshake(k) \/ trojanss_handshake(k)
  <2>1. Identify(k, users[session[k].r]) /\ proto \notin Registers
    BY <1>4 DEF sudoku_DialTarget, sudoku_HandleUDP, ssr_handshake, trojanss_handshake, Registers
  <2> QED BY <1>2, <2>1
<1>5. CASE trial_NewConnection(k)
  BY <1>2, <1>5 DEF trial_NewConnection
<1>6. CASE snell_NewConnectionEx(k) \/ ssaead_NewConnection(k)
  <2>1. Identify(k, ServiceTable(k)) /\ proto \in Registers \ {"snell4"}
    BY <1>6 DEF snell_NewConnectionEx, ssaead_NewConnection, Registers
  <2>2. session[k].at = "accepted" => ServiceTable(k) = svc[session[k].r]
    BY DEF ServiceTable
  <2> QED BY <1>2, <2>1, <2>2
<1>7. ASSUME Bridge(k) PROVE Advancing(k)
  BY <1>7 DEF Bridge, Advancing
<1> QED
  BY <1>1, <1>3, <1>4, <1>5, <1>6, <1>7
  DEF Connection, mieru_bridge, sudoku_dispatch, snell_dispatchTCP, snell_dispatchUDP,
      ssaead_dispatchTCP, ssaead_dispatchUDP, ssr_dispatch, trojanss_dispatch

\* The shapes cover the next-state relation.
LEMMA NextShapes ==
    ASSUME RunnerTypeOK, HasRunner, RunnerNext
    PROVE  \/ \E c \in Callers : ManagerCall(c)
           \/ \E c \in Callers, r \in Runners : Adding(c, r)
           \/ \E c \in Callers, r \in Runners : Removing(c, r)
           \/ \E c \in Callers, r \in Runners : Closing(c, r) /\ ln'[r] # "open"
           \/ \E k \in Sessions : Advancing(k)
<1>1. ASSUME NEW c \in Callers, ManagerStep(c) PROVE ManagerCall(c)
  BY <1>1 DEF ManagerStep, MieruManager, SudokuManager, SnellManager, SsaeadManager, SsrManager,
     TrojanssManager
<1> QED BY <1>1, AddUsersAdds, DelUsersRemoves, CloseCloses, ConnectionAdvances DEF RunnerNext, ManagerStep

-----------------------------------------------------------------------------
(* The inductive invariant, shape by shape.                                 *)

LEMMA InvInit == RunnerInit => RunnerInv
<1> SUFFICES ASSUME RunnerInit PROVE RunnerInv
  OBVIOUS
<1>1. RunnerTypeOK
  BY RunnerAssumption DEF RunnerInit, RunnerTypeOK, NoCall, NoConn
<1>2. HasRunner /\ AdderIsLate /\ OrphanIsLate /\ ServiceFollows
  BY DEF RunnerInit, HasRunner, AdderIsLate, OrphanIsLate, ServiceFollows, NoCall, NoConn
<1> QED BY <1>1, <1>2 DEF RunnerInv

LEMMA ManagerInductive ==
    ASSUME RunnerInv, NEW c \in Callers, ManagerCall(c)
    PROVE  RunnerInv'
<1> USE RunnerAssumption
<1>1. CASE Add(c)
  <2>1. PICK r \in Runners : ln[r] = "new" /\ runners' = r /\ ln' = [ln EXCEPT ![r] = "nil"]
    BY <1>1 DEF Add
  <2>2. /\ runners = Nothing /\ calls < MaxCalls /\ calls' = calls + 1
        /\ UNCHANGED <<proto, users, svc, call, session, late, faults>>
    BY <1>1 DEF Add, Idle
  <2>3. RunnerTypeOK' BY <2>1, <2>2 DEF RunnerInv, RunnerTypeOK
  <2>4. HasRunner' /\ AdderIsLate'
    BY <2>1, <2>2 DEF RunnerInv, HasRunner, AdderIsLate
  <2>5. OrphanIsLate' /\ ServiceFollows'
    BY <2>1, <2>2 DEF RunnerInv, RunnerTypeOK, OrphanIsLate, ServiceFollows
  <2> QED BY <2>3, <2>4, <2>5 DEF RunnerInv
<1>2. CASE Del(c)
  <2> DEFINE r == runners
  <2>1. /\ r \in Runners /\ runners' = Nothing /\ call[c] = NoCall /\ calls < MaxCalls
        /\ call' = [call EXCEPT ![c] = [op |-> "close", r |-> r, us |-> {}]] /\ calls' = calls + 1
        /\ UNCHANGED <<proto, users, svc, ln, session, faults>>
    BY <1>2 DEF Del, Idle, Calls, objectVars, RunnerInv, RunnerTypeOK
  <2>2. /\ late \subseteq late' /\ late' \subseteq late \cup {r}
        /\ (\E d \in Callers : call[d].op = "add" /\ call[d].r = r) => r \in late'
    BY <1>2 DEF Del
  <2>3. RunnerTypeOK' BY <2>1, <2>2 DEF RunnerInv, RunnerTypeOK
  <2>4. HasRunner' BY <2>1 DEF RunnerInv, HasRunner, RunnerTypeOK
  <2>5. AdderIsLate' BY <2>1, <2>2 DEF RunnerInv, AdderIsLate, RunnerTypeOK
  <2>6. OrphanIsLate' BY <2>1, <2>2 DEF RunnerInv, OrphanIsLate, RunnerTypeOK, NoCall
  <2>7. ServiceFollows' BY <2>1 DEF RunnerInv, ServiceFollows
  <2> QED BY <2>3, <2>4, <2>5, <2>6, <2>7 DEF RunnerInv
<1>3. ASSUME NEW us \in SUBSET Clients, Fetch(c, us) PROVE RunnerInv'
  <2>1. PICK op \in {"add", "del"} :
          call' = [call EXCEPT ![c] = [op |-> op, r |-> runners, us |-> us]]
    BY <1>3 DEF Fetch, Calls
  <2>2. /\ runners \in Runners /\ call[c] = NoCall /\ calls < MaxCalls /\ calls' = calls + 1
        /\ UNCHANGED <<proto, runners, users, svc, ln, session, late, faults>>
    BY <1>3 DEF Fetch, Idle, Calls, mgrVars, objectVars, RunnerInv, RunnerTypeOK
  <2>3. RunnerTypeOK' BY <2>1, <2>2 DEF RunnerInv, RunnerTypeOK
  <2>4. HasRunner' /\ AdderIsLate'
    BY <2>1, <2>2 DEF RunnerInv, HasRunner, AdderIsLate, RunnerTypeOK
  <2>5. OrphanIsLate' BY <2>1, <2>2 DEF RunnerInv, OrphanIsLate, RunnerTypeOK, NoCall
  <2>6. ServiceFollows' BY <2>2 DEF RunnerInv, ServiceFollows
  <2> QED BY <2>3, <2>4, <2>5, <2>6 DEF RunnerInv
<1> QED BY <1>1, <1>2, <1>3 DEF ManagerCall

\* A caller that returns leaves the other callers and the map alone.
LEMMA ReturnInductive ==
    ASSUME RunnerInv, NEW c \in Callers, Return(c)
    PROVE  /\ proto' = proto /\ runners' = runners /\ late' = late /\ calls' = calls
           /\ call' = [call EXCEPT ![c] = NoCall] /\ AdderIsLate'
           /\ call' \in [Callers -> [op : {"none", "add", "del", "close"},
                                     r : Runners \cup {Nothing}, us : SUBSET Clients]]
           /\ \A d \in Callers : call'[d].op # "none" => call'[d].r \in Runners
           /\ \A d \in Callers : d # c => call'[d] = call[d]
<1>1. /\ proto' = proto /\ runners' = runners /\ late' = late /\ calls' = calls
      /\ call' = [call EXCEPT ![c] = NoCall]
  BY DEF Return, mgrVars
<1>2. NoCall \in [op : {"none", "add", "del", "close"}, r : Runners \cup {Nothing}, us : SUBSET Clients]
      /\ NoCall.op = "none"
  BY DEF NoCall
<1> QED BY <1>1, <1>2 DEF RunnerInv, RunnerTypeOK, HasRunner, AdderIsLate

\* A listener that opens changes connections in nothing but how far they have come
\* and what they are tried against.
LEMMA OpensConns ==
    ASSUME RunnerTypeOK, HasRunner, NEW r \in Runners, Opens(r)
    PROVE  /\ session' \in [Sessions -> [at : {"none", "accepted", "outlived", "identified",
                                         "relay", "closed"},
                                   r : Runners \cup {Nothing}, user : Clients \cup {Nothing},
                                   creds : SUBSET Clients]]
           /\ \A k \in Sessions : session'[k].at # "none" => session'[k].r \in Runners
           /\ \A k \in Sessions : session'[k].at = "identified" => session[k].at = "identified"
<1> DEFINE Conn == [at : {"none", "accepted", "outlived", "identified", "relay", "closed"},
                    r : Runners \cup {Nothing}, user : Clients \cup {Nothing}, creds : SUBSET Clients]
           moved(k) == [session[k] EXCEPT !.at = "outlived", !.creds = svc[r]]
<1>1. session \in [Sessions -> Conn] /\ svc[r] \in SUBSET Clients
  BY DEF RunnerTypeOK
<1>2. /\ session' = [k \in Sessions |-> session'[k]]
      /\ \A k \in Sessions : /\ session'[k] \in {session[k], moved(k)}
                             /\ session'[k] = moved(k) =>
                                   session[k].at = "accepted" \/ session'[k] = session[k]
  BY DEF Opens
<1>3. \A k \in Sessions : moved(k) \in Conn /\ moved(k).at = "outlived" /\ moved(k).r = session[k].r
  BY <1>1
<1>4. \A k \in Sessions : session'[k] \in Conn
  BY <1>1, <1>2, <1>3
<1>5. \A k \in Sessions : session'[k].at # "none" => session'[k].r \in Runners
  BY <1>1, <1>2, <1>3 DEF HasRunner
<1> HIDE DEF Conn
<1>6. session' \in [Sessions -> Conn]
  BY <1>2, <1>4
<1> USE DEF Conn
<1> QED BY <1>2, <1>3, <1>5, <1>6

LEMMA AddingInductive ==
    ASSUME RunnerInv, NEW c \in Callers, NEW r \in Runners, Adding(c, r)
    PROVE  RunnerInv'
<1>1. call[c].op = "add" /\ call[c].r = r /\ Return(c)
  BY DEF Adding
<1>2. PICK us \in SUBSET Clients : users' = [users EXCEPT ![r] = @ \cup us]
  BY DEF Adding
<1>3. users' \in [Runners -> SUBSET Clients]
  BY <1>2 DEF RunnerInv, RunnerTypeOK
<1>4. r = runners \/ r \in late
  BY <1>1 DEF RunnerInv, AdderIsLate
<1>5. CASE ln[r] = "nil" /\ Opens(r)
  <2>1. ln' = [ln EXCEPT ![r] = "open"] /\ svc' = [svc EXCEPT ![r] = users'[r]] /\ faults' = faults
    BY <1>5 DEF Opens
  <2>2. RunnerTypeOK'
    BY <1>1, <1>3, <1>5, <2>1, ReturnInductive, OpensConns DEF RunnerInv, RunnerTypeOK
  <2>3. HasRunner' /\ AdderIsLate'
    BY <1>1, <1>5, ReturnInductive, OpensConns DEF RunnerInv, HasRunner
  <2>4. OrphanIsLate'
    BY <1>1, <1>4, <2>1, ReturnInductive DEF RunnerInv, OrphanIsLate, RunnerTypeOK
  <2>5. ServiceFollows'
    BY <1>1, <1>2, <2>1, ReturnInductive DEF RunnerInv, ServiceFollows, RunnerTypeOK
  <2> QED BY <2>2, <2>3, <2>4, <2>5 DEF RunnerInv
<1>6. CASE ln[r] # "nil" /\ proto \in Registers /\ Reregister(r)
  <2>1. svc' = [svc EXCEPT ![r] = users'[r]] /\ UNCHANGED <<ln, session, faults>>
    BY <1>6 DEF Reregister
  <2>2. RunnerTypeOK'
    BY <1>1, <1>3, <2>1, ReturnInductive DEF RunnerInv, RunnerTypeOK
  <2>3. HasRunner' /\ AdderIsLate'
    BY <1>1, <2>1, ReturnInductive DEF RunnerInv, HasRunner
  <2>4. OrphanIsLate'
    BY <1>1, <2>1, ReturnInductive DEF RunnerInv, OrphanIsLate, RunnerTypeOK
  <2>5. ServiceFollows'
    BY <1>1, <1>2, <2>1, ReturnInductive DEF RunnerInv, ServiceFollows, RunnerTypeOK
  <2> QED BY <2>2, <2>3, <2>4, <2>5 DEF RunnerInv
<1>7. CASE \/ ln[r] = "nil" /\ UNCHANGED <<ln, svc, session>> /\ faults' \in 0 .. MaxFaults
           \/ ln[r] # "nil" /\ proto \notin Registers /\ NoService(r)
  <2>1. /\ UNCHANGED <<ln, svc, session>> /\ faults' \in 0 .. MaxFaults
        /\ ln[r] = "nil" \/ proto \notin Registers
    BY <1>7 DEF NoService, RunnerInv, RunnerTypeOK
  <2>2. RunnerTypeOK'
    BY <1>1, <1>3, <2>1, ReturnInductive DEF RunnerInv, RunnerTypeOK
  <2>3. HasRunner' /\ AdderIsLate'
    BY <1>1, <2>1, ReturnInductive DEF RunnerInv, HasRunner
  <2>4. OrphanIsLate'
    BY <1>1, <2>1, ReturnInductive DEF RunnerInv, OrphanIsLate, RunnerTypeOK
  <2>5. ServiceFollows'
    BY <1>1, <1>2, <2>1, ReturnInductive DEF RunnerInv, ServiceFollows, RunnerTypeOK
  <2> QED BY <2>2, <2>3, <2>4, <2>5 DEF RunnerInv
<1> QED BY <1>5, <1>6, <1>7 DEF Adding

LEMMA RemovingInductive ==
    ASSUME RunnerInv, NEW c \in Callers, NEW r \in Runners, Removing(c, r)
    PROVE  RunnerInv'
<1>1. call[c].op = "del" /\ call[c].r = r /\ Return(c)
  BY DEF Removing
<1>2. PICK us \in SUBSET Clients : users' = [users EXCEPT ![r] = @ \ us]
  BY DEF Removing
<1>3. users' \in [Runners -> SUBSET Clients]
  BY <1>2 DEF RunnerInv, RunnerTypeOK
<1>4. /\ UNCHANGED <<ln, session, faults>>
      /\ \/ svc' = [svc EXCEPT ![r] = users'[r]]
         \/ svc' = svc /\ proto \notin Registers
         \/ svc' = svc /\ ln[r] = "nil"
         \/ svc' = svc /\ proto # "mieru" /\ (svc[r] = {} \/ users'[r] = {})
  BY DEF Removing, Reregister, NoService
<1>5. RunnerTypeOK'
  BY <1>1, <1>3, <1>4, ReturnInductive DEF RunnerInv, RunnerTypeOK
<1>6. HasRunner' /\ AdderIsLate'
  BY <1>1, <1>4, ReturnInductive DEF RunnerInv, HasRunner
<1>7. OrphanIsLate'
  BY <1>1, <1>4, ReturnInductive DEF RunnerInv, OrphanIsLate, RunnerTypeOK
<1>8. ServiceFollows'
  BY <1>1, <1>2, <1>4, ReturnInductive DEF RunnerInv, ServiceFollows, RunnerTypeOK
<1> QED BY <1>5, <1>6, <1>7, <1>8 DEF RunnerInv

LEMMA ClosingInductive ==
    ASSUME RunnerInv, NEW c \in Callers, NEW r \in Runners, Closing(c, r)
    PROVE  RunnerInv'
<1>1. call[c].op = "close" /\ call[c].r = r /\ Return(c) /\ UNCHANGED <<users, svc, session, faults>>
  BY DEF Closing
<1>2. PICK next \in {"nil", "new", "closed"} :
        (next = "closed" => proto = "mieru") /\ ln' = [ln EXCEPT ![r] = next]
  BY DEF Closing
<1>3. RunnerTypeOK'
  BY <1>1, <1>2, ReturnInductive DEF RunnerInv, RunnerTypeOK
<1>4. HasRunner' /\ AdderIsLate'
  BY <1>1, ReturnInductive DEF RunnerInv, HasRunner
<1>5. OrphanIsLate'
  BY <1>1, <1>2, ReturnInductive DEF RunnerInv, OrphanIsLate, RunnerTypeOK
<1>6. ServiceFollows'
  BY <1>1, <1>2, ReturnInductive DEF RunnerInv, ServiceFollows, RunnerTypeOK
<1> QED BY <1>3, <1>4, <1>5, <1>6 DEF RunnerInv

LEMMA AdvancingInductive ==
    ASSUME RunnerInv, NEW k \in Sessions, Advancing(k)
    PROVE  RunnerInv'
<1>1. UNCHANGED <<proto, runners, users, svc, ln, call, late, calls, faults>>
  BY DEF Advancing, AcceptSession, Stage, connOnly, mgrVars, objectVars
<1>2. /\ session' \in [Sessions -> [at : {"none", "accepted", "outlived", "identified",
                                    "relay", "closed"},
                              r : Runners \cup {Nothing}, user : Clients \cup {Nothing},
                              creds : SUBSET Clients]]
      /\ \A j \in Sessions : session'[j].at # "none" => session'[j].r \in Runners
  <2>1. CASE \E r \in Runners, u \in Clients, creds \in SUBSET Clients : AcceptSession(k, r, u, creds)
    BY <2>1 DEF AcceptSession, RunnerInv, RunnerTypeOK, HasRunner
  <2>2. CASE session[k].at # "none" /\ \E s \in {"identified", "relay", "closed"} : Stage(k, s)
    BY <2>2 DEF Stage, RunnerInv, RunnerTypeOK, HasRunner
  <2> QED BY <2>1, <2>2 DEF Advancing
<1>3. RunnerTypeOK' /\ HasRunner'
  BY <1>1, <1>2 DEF RunnerInv, RunnerTypeOK, HasRunner
<1>4. AdderIsLate' /\ OrphanIsLate' /\ ServiceFollows'
  BY <1>1 DEF RunnerInv, AdderIsLate, OrphanIsLate, ServiceFollows
<1> QED BY <1>3, <1>4 DEF RunnerInv

LEMMA InvStep == RunnerInv /\ [RunnerNext]_runnerVars => RunnerInv'
<1>1. ASSUME RunnerInv, UNCHANGED runnerVars PROVE RunnerInv'
  BY <1>1 DEF RunnerInv, RunnerTypeOK, HasRunner, AdderIsLate, OrphanIsLate, ServiceFollows,
     runnerVars, mgrVars, objectVars
<1>2. ASSUME RunnerInv, RunnerNext PROVE RunnerInv'
  <2>1. RunnerTypeOK /\ HasRunner BY <1>2 DEF RunnerInv
  <2> QED
    BY <1>2, <2>1, NextShapes, ManagerInductive, AddingInductive, RemovingInductive,
       ClosingInductive, AdvancingInductive
<1> QED BY <1>1, <1>2

LEMMA InvAlways == RunnerSpec => []RunnerInv
  BY InvInit, InvStep, PTL DEF RunnerSpec

\* Every runner, call and connection of the six packages stays within its type: in
\* particular only mieru's mux is ever left closed.
THEOREM RunnerTypeCorrect == RunnerSpec => []RunnerTypeOK
<1>1. RunnerInv => RunnerTypeOK BY DEF RunnerInv
<1> QED BY <1>1, InvAlways, PTL

\* However many callers race with Del and CloseAll, a port is held for good only by a
\* runner that an AddUsers had fetched before it left the map.
THEOREM OrphansAreLate == RunnerSpec => []OrphanIsLate
<1>1. RunnerInv => OrphanIsLate BY DEF RunnerInv
<1> QED BY <1>1, InvAlways, PTL

-----------------------------------------------------------------------------
(* Who is let in.                                                           *)

\* Who is identified is in a table that ServiceFollows ties to the runner's users.
LEMMA IdentifiedStep ==
    ASSUME RunnerInv, [RunnerNext]_runnerVars, NEW k \in Sessions,
           session[k].at = "accepted", session'[k].at = "identified", ln[session[k].r] = "open"
    PROVE  \/ session[k].user \in users[session[k].r] \cup session[k].creds
           \/ proto \in {"snell6", "ssaead"} /\ users[session[k].r] = {}
<1> DEFINE r == session[k].r
<1>1. RunnerTypeOK /\ HasRunner /\ r \in Runners
  BY DEF RunnerInv, HasRunner
<1>2. session'[k] # session[k]
  OBVIOUS
<1>3. RunnerNext
  BY <1>2 DEF runnerVars
<1>4. ASSUME NEW c \in Callers, ManagerCall(c) PROVE FALSE
  <2>1. session' = session BY <1>4 DEF ManagerCall, Add, Del, Fetch
  <2> QED BY <1>2, <2>1
<1>5. ASSUME NEW c \in Callers, NEW q \in Runners, Adding(c, q) PROVE FALSE
  <2>1. Opens(q) \/ session' = session BY <1>5 DEF Adding, Reregister, NoService
  <2> QED BY <1>1, <1>2, <2>1, OpensConns
<1>6. ASSUME NEW c \in Callers, NEW q \in Runners, Removing(c, q) \/ Closing(c, q) PROVE FALSE
  <2>1. session' = session BY <1>6 DEF Removing, Closing, Reregister, NoService
  <2> QED BY <1>2, <2>1
<1>7. PICK j \in Sessions : Advancing(j)
  BY <1>1, <1>3, <1>4, <1>5, <1>6, NextShapes
<1>8. j = k
  BY <1>1, <1>2, <1>7 DEF Advancing, AcceptSession, Stage, RunnerTypeOK
<1>9. ~\E q \in Runners, u \in Clients, creds \in SUBSET Clients : AcceptSession(k, q, u, creds)
  BY DEF AcceptSession
<1>10. PICK s \in {"identified", "relay", "closed"} :
          /\ Stage(k, s)
          /\ session[k].at = "accepted" /\ s = "identified" =>
               \/ proto \in Registers \ {"snell4"} /\ session[k].user \in svc[r]
               \/ proto \notin Registers /\ session[k].user \in users[r]
               \/ session[k].user \in session[k].creds
  BY <1>7, <1>8, <1>9 DEF Advancing
<1>11. s = "identified"
  BY <1>1, <1>10 DEF Stage, RunnerTypeOK
<1>12. \/ session[k].user \in users[r] \cup session[k].creds
       \/ proto \in Registers \ {"mieru", "snell4"} /\ users[r] = {} /\ session[k].user \in svc[r]
  BY <1>1, <1>10, <1>11 DEF RunnerInv, ServiceFollows
<1> QED BY <1>12 DEF Registers

\* A connection is taken only for a user the runner has at that moment, but for the two
\* exceptions the property names, whatever calls come between acceptance and handshake.
THEOREM IdentifiedAreKnown == RunnerSpec => IdentifiedIsKnown
<1>1. RunnerInv /\ [RunnerNext]_runnerVars =>
        [\A k \in Sessions :
           session[k].at = "accepted" /\ session'[k].at = "identified" /\ ln[session[k].r] = "open" =>
             \/ session[k].user \in users[session[k].r] \cup session[k].creds
             \/ proto \in {"snell6", "ssaead"} /\ users[session[k].r] = {}]_runnerVars
  BY IdentifiedStep
<1> QED BY <1>1, InvAlways, PTL DEF RunnerSpec, IdentifiedIsKnown

-----------------------------------------------------------------------------
(* The refinement of LazyListener.                                          *)


\* The abstract variables are changed for one runner at a time.
LEMMA OneAccepts ==
    ASSUME RunnerTypeOK, NEW r \in Runners, proto' = proto,
           NEW S \in SUBSET Clients, NEW T \in SUBSET Clients,
           users' = [users EXCEPT ![r] = S],
           svc' = svc \/ svc' = [svc EXCEPT ![r] = T]
    PROVE  [q \in Runners |-> Accepts(q)]' = [[q \in Runners |-> Accepts(q)] EXCEPT ![r] = Accepts(r)']
<1>1. \A q \in Runners : q # r => Accepts(q)' = Accepts(q)
  BY DEF Accepts, RunnerTypeOK
<1> QED BY <1>1

LEMMA AddingRefines ==
    ASSUME RunnerInv, NEW c \in Callers, NEW r \in Runners, Adding(c, r)
    PROVE  Listener!AddUsers(r)
<1> DEFINE accepts == [q \in Runners |-> Accepts(q)]
           open == {q \in Runners : ln[q] = "open"}
<1>1. RunnerTypeOK /\ proto' = proto
  BY DEF Adding, Return, mgrVars, RunnerInv
<1>2. PICK us \in SUBSET Clients : users' = [users EXCEPT ![r] = @ \cup us]
  BY DEF Adding
<1>3. users'[r] \in SUBSET Clients /\ users' = [users EXCEPT ![r] = users'[r]]
  BY <1>1, <1>2 DEF RunnerTypeOK
<1>4. svc' = svc \/ svc' = [svc EXCEPT ![r] = users'[r]]
  BY DEF Adding, Opens, Reregister, NoService
<1>5. accepts' = [accepts EXCEPT ![r] = accepts'[r]]
  BY <1>1, <1>3, <1>4, OneAccepts
<1>6. open' = open \/ (users'[r] # {} /\ open = {} /\ open' = {r})
  <2>1. CASE ln' = ln BY <2>1
  <2>2. CASE Opens(r)
    BY <1>1, <2>2 DEF Opens, PortFree, RunnerTypeOK
  <2> QED BY <2>1, <2>2 DEF Adding, Reregister, NoService
<1>7. accepts'[r] = users'[r] \/ (r \notin open' /\ accepts' = accepts)
  <2>1. CASE proto \notin Registers
    BY <1>1, <2>1 DEF Accepts
  <2>2. CASE svc' = [svc EXCEPT ![r] = users'[r]] /\ proto \in Registers
    BY <1>1, <2>2 DEF Accepts, RunnerTypeOK
  <2>3. CASE svc' = svc /\ ln' = ln /\ ln[r] = "nil" /\ proto \in Registers
    BY <1>1, <1>5, <2>3 DEF Accepts, RunnerTypeOK
  <2> QED BY <2>1, <2>2, <2>3 DEF Adding, Opens, Reregister
<1> QED BY <1>2, <1>5, <1>6, <1>7 DEF Listener!AddUsers, Listener!Others

LEMMA RemovingRefines ==
    ASSUME RunnerInv, NEW c \in Callers, NEW r \in Runners, Removing(c, r)
    PROVE  Listener!DelUsers(r)
<1> DEFINE accepts == [q \in Runners |-> Accepts(q)]
           open == {q \in Runners : ln[q] = "open"}
<1>1. RunnerTypeOK /\ proto' = proto
  BY DEF Removing, Return, mgrVars, RunnerInv
<1>2. PICK us \in SUBSET Clients : users' = [users EXCEPT ![r] = @ \ us]
  BY DEF Removing
<1>3. /\ users'[r] \in SUBSET Clients /\ users' = [users EXCEPT ![r] = users'[r]]
      /\ users'[r] \subseteq users[r]
  BY <1>1, <1>2 DEF RunnerTypeOK
<1>4. svc' = svc \/ svc' = [svc EXCEPT ![r] = users'[r]]
  BY DEF Removing, Reregister, NoService
<1>5. accepts' = [accepts EXCEPT ![r] = accepts'[r]]
  BY <1>1, <1>3, <1>4, OneAccepts
<1>6. ln' = ln /\ open' = open
  BY DEF Removing, Reregister, NoService
<1>7. accepts'[r] = users'[r] \/ (accepts' = accepts /\ (users'[r] = {} \/ r \notin open))
  <2>1. CASE proto \notin Registers
    BY <1>1, <2>1 DEF Accepts
  <2>2. CASE svc' = [svc EXCEPT ![r] = users'[r]] /\ proto \in Registers
    BY <1>1, <2>2 DEF Accepts, RunnerTypeOK
  <2>3. CASE svc' = svc /\ proto \in Registers
    <3>1. accepts' = accepts
      BY <1>1, <2>3 DEF Accepts
    <3>2. \/ svc' = [svc EXCEPT ![r] = users'[r]]
          \/ ln[r] = "nil" \/ svc[r] = {} \/ users'[r] = {}
      BY <2>3 DEF Removing, Reregister, NoService
    <3>3. svc[r] = {} /\ ln[r] = "open" => users'[r] = {}
      BY <1>3, <2>3 DEF RunnerInv, ServiceFollows
    <3> QED BY <2>2, <2>3, <3>1, <3>2, <3>3
  <2> QED BY <1>4, <2>1, <2>2, <2>3
<1> QED BY <1>2, <1>5, <1>6, <1>7 DEF Listener!DelUsers, Listener!Others

LEMMA ClosingRefines ==
    ASSUME RunnerInv, NEW c \in Callers, NEW r \in Runners, Closing(c, r), ln'[r] # "open"
    PROVE  Listener!Close(r)
<1> DEFINE accepts == [q \in Runners |-> Accepts(q)]
           open == {q \in Runners : ln[q] = "open"}
<1>1. UNCHANGED <<users, svc, proto>>
  BY DEF Closing, Return, mgrVars
<1>2. open' = open \ {r}
  BY DEF Closing, RunnerInv, RunnerTypeOK
<1>3. accepts' = accepts
  BY <1>1 DEF Accepts
<1> QED BY <1>1, <1>2, <1>3 DEF Listener!Close

\* Manager calls and connections are no steps of the listener.
LEMMA OthersStutter ==
    ASSUME RunnerInv,
           (\E c \in Callers : ManagerCall(c)) \/ (\E k \in Sessions : Advancing(k)) \/ UNCHANGED runnerVars
    PROVE  UNCHANGED <<users, {q \in Runners : ln[q] = "open"}, [q \in Runners |-> Accepts(q)]>>
<1>1. UNCHANGED <<users, svc, proto>>
  BY DEF ManagerCall, Add, Del, Fetch, Advancing, AcceptSession, Stage,
          connOnly, runnerVars, mgrVars, objectVars
<1>2. ln' = ln \/ \E r \in Runners : ln[r] = "new" /\ ln' = [ln EXCEPT ![r] = "nil"]
  BY DEF ManagerCall, Add, Del, Fetch, Advancing, AcceptSession, Stage,
          connOnly, runnerVars, mgrVars, objectVars
<1>3. {q \in Runners : ln[q] = "open"}' = {q \in Runners : ln[q] = "open"}
  BY <1>2 DEF RunnerInv, RunnerTypeOK
<1>4. [q \in Runners |-> Accepts(q)]' = [q \in Runners |-> Accepts(q)]
  BY <1>1 DEF Accepts
<1> QED BY <1>1, <1>3, <1>4

\* Every runner, whatever its protocol and whoever calls it, is a lazy listener: each of
\* its steps is one the controller may rely on.
THEOREM RunnerIsLazyListener == RunnerSpec => ImplementsLazyListener
<1>1. RunnerInit => Listener!Init
  <2> SUFFICES ASSUME RunnerInit PROVE Listener!Init
    OBVIOUS
  <2>1. {r \in Runners : ln[r] = "open"} = {} BY DEF RunnerInit
  <2>2. [r \in Runners |-> Accepts(r)] = [r \in Runners |-> {}] BY DEF RunnerInit, Accepts
  <2> QED BY <2>1, <2>2 DEF RunnerInit, Listener!Init
<1>2. RunnerInv /\ [RunnerNext]_runnerVars =>
        [Listener!Next]_<<users, {r \in Runners : ln[r] = "open"}, [r \in Runners |-> Accepts(r)]>>
  <2> SUFFICES ASSUME RunnerInv, [RunnerNext]_runnerVars
               PROVE  \/ Listener!Next
                      \/ UNCHANGED <<users, {r \in Runners : ln[r] = "open"},
                                     [r \in Runners |-> Accepts(r)]>>
    OBVIOUS
  <2>1. RunnerTypeOK /\ HasRunner BY DEF RunnerInv
  <2>2. CASE UNCHANGED runnerVars BY <2>2, OthersStutter
  <2>3. CASE RunnerNext
    <3>1. ASSUME NEW c \in Callers, NEW r \in Runners,
                 Adding(c, r) \/ Removing(c, r) \/ (Closing(c, r) /\ ln'[r] # "open")
          PROVE  Listener!Next
      BY <3>1, AddingRefines, RemovingRefines, ClosingRefines DEF Listener!Next
    <3> QED BY <2>1, <2>3, <3>1, NextShapes, OthersStutter
  <2> QED BY <2>2, <2>3
<1> QED BY <1>1, <1>2, InvAlways, PTL DEF RunnerSpec, ImplementsLazyListener, Listener!Spec
=============================================================================
