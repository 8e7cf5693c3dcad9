--------------------------- MODULE Limiter_proofs ---------------------------
(***************************************************************************)
(* Proofs about the two halves of the limiter.                             *)
(*                                                                         *)
(* DeviceLimit: that no address of a refused device stays in UserOnlineIP  *)
(* needs to know whose an address set is (OnlineInv); that calls which do  *)
(* not overlap find the devices of the last two periods needs what the     *)
(* report has been through and what a refusal may drop (SerialInv).        *)
(*                                                                         *)
(* SpeedLimit: that a connection stays within the limit of now needs whose *)
(* a bucket is, who is about to store one, and how a limit that CheckLimit *)
(* has read compares with the one the user has now (SpeedInv).             *)
(***************************************************************************)
EXTENDS DeviceLimit, SpeedLimit, TLAPS

-----------------------------------------------------------------------------
(* DeviceLimit: whose an address set is.                                    *)

MapStages  == {"inMap", "oldFirst", "rejectFirst", "delOld", "oldNext", "rejectNext"}
TentStages == {"oldFirst", "rejectFirst", "delOld", "oldNext", "rejectNext"}
Fields     == {"user", "ip", "limit", "alive", "map"}

\* The part of the type invariant that the arguments below need.
DeviceShape ==
    /\ DOMAIN pc = Conns /\ DOMAIN conn = Conns
    /\ DOMAIN UserOnlineIP = Users /\ DOMAIN ipMap = MapIds
    /\ DOMAIN OldUserOnline = Ips /\ DOMAIN newOld = Ips
    /\ \A u \in Users : UserOnlineIP[u] \in MapIds \cup {None}
    /\ \A c \in Conns :
          /\ DOMAIN conn[c] = Fields
          /\ pc[c] # "idle" => conn[c].user \in Users /\ conn[c].ip \in Ips
          /\ pc[c] \in MapStages => conn[c].map \in MapIds

\* A set of addresses belongs to one user: to the one whose entry it is, and a
\* connection that holds it serves that user.
MapsAreOwned ==
    /\ \A u, v \in Users : UserOnlineIP[u] = UserOnlineIP[v] /\ UserOnlineIP[u] # None => u = v
    /\ \A u \in Users, c \in Conns :
          UserOnlineIP[u] = conn[c].map /\ UserOnlineIP[u] # None => u = conn[c].user

OnlineInv == DeviceShape /\ MapsAreOwned /\ OnlineIsJustified

-----------------------------------------------------------------------------
\* Connection c goes to l with the locals r, the others stay.
ConnStep(c, l, r) ==
    /\ DOMAIN pc' = Conns /\ DOMAIN conn' = Conns
    /\ pc'[c] = l /\ conn'[c] = r
    /\ \A d \in Conns \ {c} : pc'[d] = pc[d] /\ conn'[d] = conn[d]

LEMMA NoLocalsFields ==
    /\ DOMAIN NoLocals = Fields
    /\ NoLocals.map = None
BY DEF NoLocals, Fields

LEMMA OnlineInit == Init => OnlineInv
<1> SUFFICES ASSUME Init PROVE OnlineInv
  OBVIOUS
<1>1. DeviceShape
  BY NoLocalsFields DEF Init, DeviceShape, MapStages, NoOld
<1>2. MapsAreOwned /\ OnlineIsJustified
  BY DEF Init, MapsAreOwned, OnlineIsJustified
<1> QED BY <1>1, <1>2 DEF OnlineInv

-----------------------------------------------------------------------------
\* Steps that touch no map and no local: the report's bookkeeping, the limits.
LEMMA OnlineStands ==
    ASSUME OnlineInv, UNCHANGED <<UserOnlineIP, ipMap, connVars>>, accepted \subseteq accepted',
           DOMAIN OldUserOnline' = Ips, DOMAIN newOld' = Ips
    PROVE  OnlineInv'
<1>1. DeviceShape'
  BY DEF OnlineInv, DeviceShape, connVars
<1>2. MapsAreOwned'
  BY DEF OnlineInv, MapsAreOwned, connVars
<1>3. OnlineIsJustified'
  BY DEF OnlineInv, OnlineIsJustified, Tentative, connVars
<1> QED BY <1>1, <1>2, <1>3 DEF OnlineInv

\* An entry of UserOnlineIP that is dropped leaves every other as it was.
LEMMA OnlineDropped ==
    ASSUME OnlineInv, NEW w \in Users, UserOnlineIP' = [UserOnlineIP EXCEPT ![w] = None],
           UNCHANGED <<ipMap, connVars, accepted>>, DOMAIN OldUserOnline' = Ips, DOMAIN newOld' = Ips
    PROVE  OnlineInv'
<1>0. /\ DOMAIN UserOnlineIP' = Users /\ UserOnlineIP'[w] = None
      /\ \A u \in Users : u # w => UserOnlineIP'[u] = UserOnlineIP[u]
  BY DEF OnlineInv, DeviceShape
<1>1. DeviceShape'
  BY <1>0 DEF OnlineInv, DeviceShape, connVars
<1>2. MapsAreOwned'
  BY <1>0 DEF OnlineInv, MapsAreOwned, connVars
<1>3. OnlineIsJustified'
  BY <1>0 DEF OnlineInv, OnlineIsJustified, Tentative, connVars
<1> QED BY <1>1, <1>2, <1>3 DEF OnlineInv

\* A step of a connection that changes no set of addresses: its new locals name a set
\* of its own user, and a decision it leaves behind is an acceptance.
LEMMA OnlineConn ==
    ASSUME OnlineInv, NEW c \in Conns, NEW l, NEW r, ConnStep(c, l, r),
           UNCHANGED <<UserOnlineIP, ipMap>>, accepted \subseteq accepted',
           DOMAIN OldUserOnline' = Ips, DOMAIN newOld' = Ips,
           DOMAIN r = Fields, l # "idle" => r.user \in Users /\ r.ip \in Ips,
           l \in MapStages => r.map \in MapIds,
           \A u \in Users : UserOnlineIP[u] = r.map /\ UserOnlineIP[u] # None => u = r.user,
           pc[c] \in TentStages => Device(c) \in accepted' \/ (l \in TentStages /\ r = conn[c])
    PROVE  OnlineInv'
<1>0. /\ DOMAIN pc' = Conns /\ DOMAIN conn' = Conns
      /\ pc'[c] = l /\ conn'[c] = r
      /\ \A d \in Conns \ {c} : pc'[d] = pc[d] /\ conn'[d] = conn[d]
  BY DEF ConnStep
<1>1. DeviceShape'
  BY <1>0 DEF OnlineInv, DeviceShape
<1>2. MapsAreOwned'
  BY <1>0 DEF OnlineInv, MapsAreOwned
<1>3. OnlineIsJustified'
  <2> SUFFICES ASSUME NEW u \in Users, UserOnlineIP[u] # None, NEW ip \in ipMap[UserOnlineIP[u]]
               PROVE  <<u, ip>> \in accepted' \/ Tentative(u, UserOnlineIP[u], ip)'
    BY DEF OnlineIsJustified, Tentative
  <2>1. CASE <<u, ip>> \in accepted
    BY <2>1
  <2>2. CASE Tentative(u, UserOnlineIP[u], ip)
    <3>1. PICK d \in Conns : /\ pc[d] \in TentStages
                             /\ conn[d].user = u /\ conn[d].map = UserOnlineIP[u] /\ conn[d].ip = ip
      BY <2>2 DEF Tentative, TentStages
    <3>2. CASE d # c
      BY <3>1, <3>2, <1>0 DEF Tentative, TentStages
    <3>3. CASE d = c
      BY <3>1, <3>3, <1>0 DEF Tentative, TentStages, Device
    <3> QED BY <3>2, <3>3
  <2> QED BY <2>1, <2>2 DEF OnlineInv, OnlineIsJustified
<1> QED BY <1>1, <1>2, <1>3 DEF OnlineInv

\* Return of CheckLimit without a change of the sets.
LEMMA OnlineAccepted ==
    ASSUME OnlineInv, NEW c \in Conns, Accept(c), pc[c] # "idle",
           UNCHANGED <<UserOnlineIP, ipMap>>, DOMAIN OldUserOnline' = Ips, DOMAIN newOld' = Ips
    PROVE  OnlineInv'
<1>1. ConnStep(c, "idle", NoLocals) /\ accepted' = accepted \cup {Device(c)}
  BY DEF Accept, Goto, ConnStep, OnlineInv, DeviceShape
<1>2. "idle" \notin MapStages
  BY DEF MapStages
<1> QED BY <1>1, <1>2, NoLocalsFields, OnlineConn

-----------------------------------------------------------------------------
LEMMA CheckLimitKeepsOnline ==
    ASSUME OnlineInv, NEW c \in Conns, NEW u \in Users, NEW ip \in Ips, CheckLimit(c, u, ip)
    PROVE  OnlineInv'
<1> DEFINE r == [NoLocals EXCEPT !.user = u, !.ip = ip, !.limit = devLimit[u]]
<1>1. ConnStep(c, "load", r) /\ UNCHANGED <<mapVars, repVars, history>> /\ pc[c] = "idle"
  BY DEF CheckLimit, Goto, ConnStep, OnlineInv, DeviceShape
<1>2. DOMAIN r = Fields /\ r.user = u /\ r.ip = ip /\ r.map = None
  BY DEF NoLocals, Fields
<1>3. "load" \notin MapStages /\ "idle" \notin TentStages
  BY DEF MapStages, TentStages
<1>4. DOMAIN OldUserOnline' = Ips /\ DOMAIN newOld' = Ips
  BY <1>1 DEF OnlineInv, DeviceShape, mapVars, repVars
<1> HIDE DEF r
<1> QED BY <1>1, <1>2, <1>3, <1>4, OnlineConn DEF mapVars, history

LEMMA LoadOnlineKeepsOnline ==
    ASSUME OnlineInv, NEW c \in Conns, LoadOnline(c)
    PROVE  OnlineInv'
<1> DEFINE r == [conn[c] EXCEPT !.alive = AliveList[conn[c].user],
                                !.map = UserOnlineIP[conn[c].user]]
           l == IF UserOnlineIP[conn[c].user] = None THEN "store" ELSE "inMap"
<1>0. DOMAIN conn = Conns /\ DOMAIN conn[c] = Fields
  BY DEF OnlineInv, DeviceShape
<1>1. ConnStep(c, l, r) /\ UNCHANGED <<mapVars, repVars, history>> /\ pc[c] = "load"
  BY <1>0 DEF LoadOnline, Goto, ConnStep, Fields, OnlineInv, DeviceShape
<1>2. /\ DOMAIN r = Fields /\ r.user = conn[c].user /\ r.ip = conn[c].ip
      /\ r.map = UserOnlineIP[conn[c].user]
  BY <1>0 DEF Fields
<1>3. conn[c].user \in Users /\ conn[c].ip \in Ips /\ UserOnlineIP[conn[c].user] \in MapIds \cup {None}
  BY <1>1 DEF OnlineInv, DeviceShape
<1>4. DOMAIN OldUserOnline' = Ips /\ DOMAIN newOld' = Ips
  BY <1>1 DEF OnlineInv, DeviceShape, mapVars, repVars
<1>5. \A u \in Users : UserOnlineIP[u] = r.map /\ UserOnlineIP[u] # None => u = r.user
  BY <1>2, <1>3 DEF OnlineInv, MapsAreOwned
<1>6. l \in MapStages => r.map \in MapIds
  BY <1>2, <1>3 DEF MapStages
<1>7. pc[c] \notin TentStages
  BY <1>1 DEF TentStages
<1> HIDE DEF r, l
<1> QED BY <1>1, <1>2, <1>3, <1>4, <1>5, <1>6, <1>7, OnlineConn DEF mapVars, history

LEMMA LookupOldKeepsOnline ==
    ASSUME OnlineInv, NEW c \in Conns, NEW reject \in {"rejectFirst", "rejectNext"},
           pc[c] \in {"oldFirst", "oldNext"}, LookupOld(c, reject), UNCHANGED <<mapVars, repVars>>
    PROVE  OnlineInv'
<1>1. DOMAIN OldUserOnline' = Ips /\ DOMAIN newOld' = Ips
  BY DEF OnlineInv, DeviceShape, mapVars, repVars
<1>2. CASE Accept(c)
  BY <1>1, <1>2, OnlineAccepted DEF mapVars
<1>3. ASSUME NEW l \in {"delOld", reject}, Goto(c, l), UNCHANGED <<conn, history>>
      PROVE  OnlineInv'
  <2>1. ConnStep(c, l, conn[c])
    BY <1>3 DEF Goto, ConnStep, OnlineInv, DeviceShape
  <2>2. /\ DOMAIN conn[c] = Fields /\ conn[c].user \in Users /\ conn[c].ip \in Ips
        /\ conn[c].map \in MapIds
    BY DEF OnlineInv, DeviceShape, MapStages
  <2>3. \A u \in Users : UserOnlineIP[u] = conn[c].map /\ UserOnlineIP[u] # None => u = conn[c].user
    BY DEF OnlineInv, MapsAreOwned
  <2>4. l \in TentStages
    BY DEF TentStages
  <2> QED BY <1>1, <1>3, <2>1, <2>2, <2>3, <2>4, OnlineConn DEF mapVars, history
<1> QED BY <1>2, <1>3 DEF LookupOld

LEMMA DeleteOldKeepsOnline ==
    ASSUME OnlineInv, NEW c \in Conns, DeleteOld(c)
    PROVE  OnlineInv'
<1>1. DOMAIN OldUserOnline' = Ips /\ DOMAIN newOld' = Ips
  BY DEF OnlineInv, DeviceShape, DeleteOld, repVars
<1> QED BY <1>1, OnlineAccepted DEF DeleteOld

LEMMA LoadOrStoreIpKeepsOnline ==
    ASSUME OnlineInv, NEW c \in Conns, LoadOrStoreIp(c)
    PROVE  OnlineInv'
<1>1. DOMAIN OldUserOnline' = Ips /\ DOMAIN newOld' = Ips
  BY DEF OnlineInv, DeviceShape, LoadOrStoreIp, repVars
<1>2. CASE Accept(c) /\ UNCHANGED ipMap
  BY <1>1, <1>2, OnlineAccepted DEF LoadOrStoreIp
<1>3. CASE /\ ipMap' = [ipMap EXCEPT ![conn[c].map] = @ \cup {conn[c].ip}]
           /\ Goto(c, "oldNext") /\ UNCHANGED <<conn, history>>
  <2>1. /\ DOMAIN pc' = Conns /\ pc'[c] = "oldNext"
        /\ \A d \in Conns \ {c} : pc'[d] = pc[d]
    BY <1>3 DEF OnlineInv, DeviceShape, Goto
  <2>2. /\ pc[c] = "inMap" /\ conn[c].map \in MapIds /\ conn[c].user \in Users /\ conn[c].ip \in Ips
        /\ UNCHANGED UserOnlineIP
    BY DEF OnlineInv, DeviceShape, LoadOrStoreIp, MapStages
  <2>3. /\ DOMAIN ipMap' = MapIds /\ ipMap'[conn[c].map] = ipMap[conn[c].map] \cup {conn[c].ip}
        /\ \A m \in MapIds : m # conn[c].map => ipMap'[m] = ipMap[m]
    BY <1>3, <2>2 DEF OnlineInv, DeviceShape
  <2>4. DeviceShape'
    BY <1>1, <1>3, <2>1, <2>2, <2>3 DEF OnlineInv, DeviceShape, MapStages
  <2>5. MapsAreOwned'
    BY <1>3, <2>2 DEF OnlineInv, MapsAreOwned
  <2>6. OnlineIsJustified'
    <3> SUFFICES ASSUME NEW u \in Users, UserOnlineIP[u] # None,
                        NEW ip \in ipMap'[UserOnlineIP[u]]
                 PROVE  <<u, ip>> \in accepted' \/ Tentative(u, UserOnlineIP[u], ip)'
      BY <2>2 DEF OnlineIsJustified, Tentative
    <3>1. UserOnlineIP[u] \in MapIds
      BY DEF OnlineInv, DeviceShape
    <3>2. CASE ip \in ipMap[UserOnlineIP[u]]
      <4>1. <<u, ip>> \in accepted \/ Tentative(u, UserOnlineIP[u], ip)
        BY <3>2 DEF OnlineInv, OnlineIsJustified
      <4>2. ASSUME Tentative(u, UserOnlineIP[u], ip) PROVE Tentative(u, UserOnlineIP[u], ip)'
        BY <1>3, <2>1, <2>2, <4>2 DEF Tentative
      <4> QED BY <1>3, <4>1, <4>2 DEF history
    <3>3. CASE ip \notin ipMap[UserOnlineIP[u]]
      <4>1. UserOnlineIP[u] = conn[c].map /\ ip = conn[c].ip
        BY <2>3, <3>1, <3>3
      <4>2. u = conn[c].user
        BY <4>1 DEF OnlineInv, MapsAreOwned
      <4> QED BY <1>3, <2>1, <2>2, <4>1, <4>2 DEF Tentative
    <3> QED BY <3>2, <3>3
  <2> QED BY <2>4, <2>5, <2>6 DEF OnlineInv
<1> QED BY <1>2, <1>3 DEF LoadOrStoreIp

LEMMA LoadOrStoreMapKeepsOnline ==
    ASSUME OnlineInv, NEW c \in Conns, LoadOrStoreMap(c)
    PROVE  OnlineInv'
<1> DEFINE w == conn[c].user
<1>0. /\ pc[c] = "store" /\ DOMAIN conn = Conns /\ DOMAIN conn[c] = Fields
      /\ w \in Users /\ conn[c].ip \in Ips /\ UserOnlineIP[w] \in MapIds \cup {None}
      /\ UNCHANGED <<repVars, history>>
  BY DEF OnlineInv, DeviceShape, LoadOrStoreMap
<1>1. DOMAIN OldUserOnline' = Ips /\ DOMAIN newOld' = Ips
  BY DEF OnlineInv, DeviceShape, LoadOrStoreMap, repVars, mapVars
<1>2. CASE /\ UserOnlineIP[w] # None /\ conn' = [conn EXCEPT ![c].map = UserOnlineIP[w]]
           /\ Goto(c, "inMap") /\ UNCHANGED mapVars
  <2> DEFINE r == [conn[c] EXCEPT !.map = UserOnlineIP[w]]
  <2>1. ConnStep(c, "inMap", r)
    BY <1>0, <1>2 DEF Goto, ConnStep, Fields, OnlineInv, DeviceShape
  <2>2. /\ DOMAIN r = Fields /\ r.user = w /\ r.ip = conn[c].ip /\ r.map = UserOnlineIP[w]
    BY <1>0 DEF Fields
  <2>3. \A u \in Users : UserOnlineIP[u] = r.map /\ UserOnlineIP[u] # None => u = r.user
    BY <2>2, <1>0 DEF OnlineInv, MapsAreOwned
  <2>4. pc[c] \notin TentStages
    BY <1>0 DEF TentStages
  <2> HIDE DEF r, w
  <2> QED BY <1>0, <1>1, <1>2, <2>1, <2>2, <2>3, <2>4, OnlineConn DEF mapVars, history
<1>3. ASSUME NEW m \in MapIds, Free(m), UserOnlineIP[w] = None,
             UserOnlineIP' = [UserOnlineIP EXCEPT ![w] = m],
             ipMap' = [ipMap EXCEPT ![m] = {conn[c].ip}],
             conn' = [conn EXCEPT ![c].map = m], Goto(c, "oldFirst")
      PROVE  OnlineInv'
  <2>1. /\ DOMAIN pc' = Conns /\ DOMAIN conn' = Conns /\ pc'[c] = "oldFirst"
        /\ DOMAIN conn'[c] = Fields /\ conn'[c].user = w /\ conn'[c].ip = conn[c].ip
        /\ conn'[c].map = m
        /\ \A d \in Conns \ {c} : pc'[d] = pc[d] /\ conn'[d] = conn[d]
    BY <1>0, <1>3 DEF OnlineInv, DeviceShape, Goto, Fields
  <2>2. /\ DOMAIN UserOnlineIP' = Users /\ UserOnlineIP'[w] = m
        /\ \A u \in Users : u # w => UserOnlineIP'[u] = UserOnlineIP[u]
        /\ DOMAIN ipMap' = MapIds /\ ipMap'[m] = {conn[c].ip}
        /\ \A k \in MapIds : k # m => ipMap'[k] = ipMap[k]
    BY <1>0, <1>3 DEF OnlineInv, DeviceShape
  <2>3. /\ \A u \in Users : UserOnlineIP[u] # m
        /\ \A d \in Conns : conn[d].map # m
    BY <1>3 DEF Free
  <2> HIDE DEF w
  <2>4. DeviceShape'
    BY <1>0, <1>1, <2>1, <2>2 DEF OnlineInv, DeviceShape, MapStages
  <2>5. MapsAreOwned'
    BY <1>0, <1>3, <2>1, <2>2, <2>3 DEF OnlineInv, MapsAreOwned
  <2>6. OnlineIsJustified'
    <3> SUFFICES ASSUME NEW u \in Users, UserOnlineIP'[u] # None,
                        NEW ip \in ipMap'[UserOnlineIP'[u]]
                 PROVE  <<u, ip>> \in accepted' \/ Tentative(u, UserOnlineIP[u], ip)'
      BY DEF OnlineIsJustified
    <3>1. CASE u = w
      BY <1>0, <2>1, <2>2, <3>1 DEF Tentative
    <3>2. CASE u # w
      <4>1. UserOnlineIP'[u] = UserOnlineIP[u] /\ UserOnlineIP[u] # m /\ UserOnlineIP[u] \in MapIds
        BY <2>2, <2>3, <3>2 DEF OnlineInv, DeviceShape
      <4>2. ip \in ipMap[UserOnlineIP[u]]
        BY <2>2, <4>1
      <4>3. <<u, ip>> \in accepted \/ Tentative(u, UserOnlineIP[u], ip)
        BY <4>1, <4>2 DEF OnlineInv, OnlineIsJustified
      <4>4. ASSUME Tentative(u, UserOnlineIP[u], ip) PROVE Tentative(u, UserOnlineIP[u], ip)'
        BY <1>0, <2>1, <4>1, <4>4 DEF Tentative
      <4> QED BY <1>0, <4>3, <4>4 DEF history
    <3> QED BY <3>1, <3>2
  <2> QED BY <2>4, <2>5, <2>6 DEF OnlineInv
<1> QED BY <1>2, <1>3 DEF LoadOrStoreMap

LEMMA RejectFirstKeepsOnline ==
    ASSUME OnlineInv, NEW c \in Conns, RejectFirst(c)
    PROVE  OnlineInv'
<1> DEFINE w == conn[c].user
<1>0. w \in Users /\ UNCHANGED <<ipMap, OldUserOnline, repVars, history>>
  BY DEF OnlineInv, DeviceShape, RejectFirst, Reject
<1>1. ConnStep(c, "idle", NoLocals)
  BY DEF RejectFirst, Reject, Goto, ConnStep, OnlineInv, DeviceShape
<1>2. /\ DOMAIN UserOnlineIP' = Users /\ UserOnlineIP'[w] = None
      /\ \A u \in Users : u # w => UserOnlineIP'[u] = UserOnlineIP[u]
  BY <1>0 DEF RejectFirst, OnlineInv, DeviceShape
<1> HIDE DEF w
<1>3. DeviceShape'
  BY <1>0, <1>1, <1>2, NoLocalsFields DEF OnlineInv, DeviceShape, ConnStep, MapStages, repVars
<1>4. MapsAreOwned'
  BY <1>0, <1>1, <1>2, NoLocalsFields DEF OnlineInv, MapsAreOwned, ConnStep
<1>5. OnlineIsJustified'
  <2> SUFFICES ASSUME NEW u \in Users, UserOnlineIP'[u] # None, NEW ip \in ipMap[UserOnlineIP'[u]]
               PROVE  <<u, ip>> \in accepted' \/ Tentative(u, UserOnlineIP[u], ip)'
    BY <1>0 DEF OnlineIsJustified
  <2>1. u # w /\ UserOnlineIP'[u] = UserOnlineIP[u]
    BY <1>2
  <2>2. <<u, ip>> \in accepted \/ Tentative(u, UserOnlineIP[u], ip)
    BY <2>1 DEF OnlineInv, OnlineIsJustified
  <2>3. ASSUME Tentative(u, UserOnlineIP[u], ip) PROVE Tentative(u, UserOnlineIP[u], ip)'
    BY <1>1, <2>1, <2>3 DEF Tentative, ConnStep, w
  <2> QED BY <1>0, <2>2, <2>3 DEF history
<1> QED BY <1>3, <1>4, <1>5 DEF OnlineInv

LEMMA RejectNextKeepsOnline ==
    ASSUME OnlineInv, NEW c \in Conns, RejectNext(c)
    PROVE  OnlineInv'
<1> DEFINE m == conn[c].map
<1>0. m \in MapIds /\ UNCHANGED <<UserOnlineIP, OldUserOnline, repVars, history>>
  BY DEF OnlineInv, DeviceShape, RejectNext, Reject, MapStages
<1>1. ConnStep(c, "idle", NoLocals)
  BY DEF RejectNext, Reject, Goto, ConnStep, OnlineInv, DeviceShape
<1>2. /\ DOMAIN ipMap' = MapIds /\ ipMap'[m] = ipMap[m] \ {conn[c].ip}
      /\ \A k \in MapIds : k # m => ipMap'[k] = ipMap[k]
  BY <1>0 DEF RejectNext, OnlineInv, DeviceShape
<1> HIDE DEF m
<1>3. DeviceShape'
  BY <1>0, <1>1, <1>2, NoLocalsFields DEF OnlineInv, DeviceShape, ConnStep, MapStages, repVars
<1>4. MapsAreOwned'
  BY <1>0, <1>1, NoLocalsFields DEF OnlineInv, MapsAreOwned, ConnStep
<1>5. OnlineIsJustified'
  <2> SUFFICES ASSUME NEW u \in Users, UserOnlineIP[u] # None, NEW ip \in ipMap'[UserOnlineIP[u]]
               PROVE  <<u, ip>> \in accepted' \/ Tentative(u, UserOnlineIP[u], ip)'
    BY <1>0 DEF OnlineIsJustified
  <2>1. UserOnlineIP[u] \in MapIds /\ UserOnlineIP'[u] = UserOnlineIP[u]
    BY <1>0 DEF OnlineInv, DeviceShape
  <2>2. ip \in ipMap[UserOnlineIP[u]] /\ ~(UserOnlineIP[u] = m /\ ip = conn[c].ip)
    BY <1>2, <2>1
  <2>3. <<u, ip>> \in accepted \/ Tentative(u, UserOnlineIP[u], ip)
    BY <2>2 DEF OnlineInv, OnlineIsJustified
  <2>4. ASSUME Tentative(u, UserOnlineIP[u], ip) PROVE Tentative(u, UserOnlineIP[u], ip)'
    BY <1>1, <2>1, <2>2, <2>4 DEF Tentative, ConnStep, m
  <2> QED BY <1>0, <2>3, <2>4 DEF history
<1> QED BY <1>3, <1>4, <1>5 DEF OnlineInv

LEMMA ReportKeepsOnline ==
    ASSUME OnlineInv, Report
    PROVE  OnlineInv'
<1>0. DOMAIN OldUserOnline = Ips /\ DOMAIN newOld = Ips
  BY DEF OnlineInv, DeviceShape
<1>1. CASE GetOnlineDevice
  BY <1>0, <1>1, OnlineStands DEF GetOnlineDevice, mapVars, history, NoOld
<1>2. CASE SwapOld
  BY <1>0, <1>2, OnlineStands DEF SwapOld
<1>3. ASSUME NEW u \in Users, RangeUser(u) PROVE OnlineInv'
  BY <1>0, <1>3, OnlineStands DEF RangeUser, mapVars, history
<1>4. ASSUME NEW u \in Users, ClearUser(u) PROVE OnlineInv'
  <2>1. DOMAIN newOld' = Ips
    BY <1>0, <1>4 DEF ClearUser, NoOld
  <2> QED BY <1>0, <1>4, <2>1, OnlineDropped DEF ClearUser, history
<1> QED BY <1>1, <1>2, <1>3, <1>4 DEF Report

LEMMA MonitorKeepsOnline ==
    ASSUME OnlineInv, Monitor
    PROVE  OnlineInv'
<1>0. DOMAIN OldUserOnline = Ips /\ DOMAIN newOld = Ips
  BY DEF OnlineInv, DeviceShape
<1>1. ASSUME NEW u \in Users, UpdateUserDeleted(u) PROVE OnlineInv'
  BY <1>0, <1>1, OnlineDropped DEF UpdateUserDeleted, repVars
<1>2. ASSUME NEW u \in Users, NEW l \in 0 .. MaxLimit, UpdateUserLimit(u, l) PROVE OnlineInv'
  BY <1>0, <1>2, OnlineStands DEF UpdateUserLimit, mapVars, repVars, history
<1>3. ASSUME NEW alive \in [Users -> 0 .. MaxAlive], UpdateAliveList(alive) PROVE OnlineInv'
  BY <1>0, <1>3, OnlineStands DEF UpdateAliveList, mapVars, repVars, history
<1> QED BY <1>1, <1>2, <1>3 DEF Monitor

LEMMA OnlineStep == OnlineInv /\ [Next]_vars => OnlineInv'
<1> SUFFICES ASSUME OnlineInv, [Next]_vars PROVE OnlineInv'
  OBVIOUS
<1>1. ASSUME NEW c \in Conns, CheckLimitStep(c) PROVE OnlineInv'
  <2>1. ASSUME NEW u \in Users, NEW ip \in Ips, CheckLimit(c, u, ip) PROVE OnlineInv'
    BY <2>1, CheckLimitKeepsOnline
  <2>2. CASE LoadOnline(c)
    BY <2>2, LoadOnlineKeepsOnline
  <2>3. CASE LoadOrStoreMap(c)
    BY <2>3, LoadOrStoreMapKeepsOnline
  <2>4. CASE OldFirst(c)
    BY <2>4, LookupOldKeepsOnline DEF OldFirst
  <2>5. CASE RejectFirst(c)
    BY <2>5, RejectFirstKeepsOnline
  <2>6. CASE LoadOrStoreIp(c)
    BY <2>6, LoadOrStoreIpKeepsOnline
  <2>7. CASE OldNext(c)
    BY <2>7, LookupOldKeepsOnline DEF OldNext
  <2>8. CASE RejectNext(c)
    BY <2>8, RejectNextKeepsOnline
  <2>9. CASE DeleteOld(c)
    BY <2>9, DeleteOldKeepsOnline
  <2> QED BY <1>1, <2>1, <2>2, <2>3, <2>4, <2>5, <2>6, <2>7, <2>8, <2>9 DEF CheckLimitStep
<1>2. CASE UNCHANGED vars
  BY <1>2, OnlineStands DEF vars, mapVars, repVars, history, OnlineInv, DeviceShape
<1> QED BY <1>1, <1>2, ReportKeepsOnline, MonitorKeepsOnline DEF Next

\* No address of a refused device stays in UserOnlineIP, for any number of users,
\* addresses and connections and however CheckLimit, GetOnlineDevice and UpdateUser
\* interleave.
THEOREM OnlineDevicesAreJustified == Spec => []OnlineIsJustified
<1>1. OnlineInv => OnlineIsJustified
  BY DEF OnlineInv
<1> QED BY <1>1, OnlineInit, OnlineStep, PTL DEF Spec

-----------------------------------------------------------------------------
(* Calls one at a time: a device that was let in is found again.            *)

Online(u, ip)     == UserOnlineIP[u] # None /\ ip \in ipMap[UserOnlineIP[u]]
Remembered(u, ip) == OldUserOnline[ip] # None \/ SharedAddress(u, ip)

\* One call at a time, and none during a report.
OneCall ==
    /\ \A c, d \in Conns : pc[c] # "idle" /\ pc[d] # "idle" => c = d
    /\ \A c \in Conns : pc[c] # "idle" => rpc = "idle"

\* The devices of this period are online, those of the period before are remembered
\* or online again; while a report runs, the map it builds has those of the users it
\* has been through, and after the swap nothing needs the sets that it clears.
RecentAreFound ==
    /\ rpc \in {"idle", "range", "clear"}
    /\ \A u \in Users, ip \in Ips :
          /\ <<u, ip>> \in current => rpc # "clear" /\ Online(u, ip)
          /\ <<u, ip>> \in current /\ rpc = "range" /\ u \notin todo => newOld[ip] # None
          /\ <<u, ip>> \in previous => Remembered(u, ip) \/ (rpc # "clear" /\ Online(u, ip))

\* A refusal drops nothing that a device of these two periods relies on.
Unneeded(u, ip) ==
    /\ <<u, ip>> \notin current
    /\ <<u, ip>> \in previous => Remembered(u, ip)

CallKnows(c) ==
    /\ pc[c] \in MapStages => UserOnlineIP[conn[c].user] = conn[c].map
    /\ pc[c] \in TentStages => conn[c].ip \in ipMap[conn[c].map]
    /\ pc[c] \in {"oldFirst", "rejectFirst"} => \A ip \in Ips : Unneeded(conn[c].user, ip)
    /\ pc[c] \in {"oldNext", "rejectNext"} => Unneeded(conn[c].user, conn[c].ip)
    /\ pc[c] \in {"rejectFirst", "rejectNext"} => OldUserOnline[conn[c].ip] = None

SerialInv == OneCall /\ RecentAreFound /\ \A c \in Conns : CallKnows(c)

LEMMA SerialInit == Init => SerialInv
BY DEF Init, SerialInv, OneCall, RecentAreFound, CallKnows, MapStages, TentStages

LEMMA SerialImplies == OnlineInv /\ (~overlap => SerialInv) => NoSpuriousReject
<1> SUFFICES ASSUME OnlineInv, SerialInv, NEW c \in Conns, pc[c] \in {"rejectFirst", "rejectNext"}
             PROVE  Device(c) \notin current \cup previous \/ SharedAddress(conn[c].user, conn[c].ip)
  BY DEF NoSpuriousReject
<1>1. conn[c].ip \in Ips /\ CallKnows(c)
  BY DEF OnlineInv, DeviceShape, SerialInv
<1>2. Unneeded(conn[c].user, conn[c].ip) /\ OldUserOnline[conn[c].ip] = None
  BY <1>1 DEF CallKnows
<1> QED BY <1>2 DEF Unneeded, Remembered, Device

-----------------------------------------------------------------------------
\* The steps below are those of calls that do not overlap.
LEMMA SerialStands ==
    ASSUME SerialInv, UNCHANGED <<mapVars, connVars, repVars, history>>
    PROVE  SerialInv'
BY DEF SerialInv, OneCall, RecentAreFound, CallKnows, Unneeded, Remembered, Online, SharedAddress,
       mapVars, connVars, repVars, history

\* What holds of a call in progress.
LEMMA CallAlone ==
    ASSUME OnlineInv, SerialInv, NEW c \in Conns, pc[c] # "idle"
    PROVE  /\ rpc = "idle" /\ \A d \in Conns \ {c} : pc[d] = "idle"
           /\ conn[c].user \in Users /\ conn[c].ip \in Ips
           /\ pc[c] \in MapStages => conn[c].map \in MapIds /\ conn[c].map # None
BY NoneAssumption DEF OnlineInv, DeviceShape, SerialInv, OneCall

\* A step of the only call: the next one finds the same order.
LEMMA SerialCall ==
    ASSUME SerialInv, NEW c \in Conns, NEW l, NEW r, ConnStep(c, l, r),
           rpc = "idle", rpc' = rpc, \A d \in Conns \ {c} : pc[d] = "idle",
           RecentAreFound', CallKnows(c)'
    PROVE  SerialInv'
<1>1. \A d \in Conns \ {c} : pc'[d] = "idle"
  BY DEF ConnStep
<1>2. OneCall'
  BY <1>1 DEF OneCall
<1>3. ASSUME NEW d \in Conns PROVE CallKnows(d)'
  BY <1>1, <1>3 DEF CallKnows, MapStages, TentStages
<1> QED BY <1>2, <1>3 DEF SerialInv

\* Return of a call that lets its device in.  The device is online.
LEMMA SerialAccepted ==
    ASSUME OnlineInv, SerialInv, NEW c \in Conns, pc[c] # "idle", Accept(c),
           UNCHANGED <<UserOnlineIP, ipMap, repVars>>, Online(conn[c].user, conn[c].ip),
           OldUserOnline' = OldUserOnline \/ OldUserOnline' = [OldUserOnline EXCEPT ![conn[c].ip] = None]
    PROVE  SerialInv'
<1>0. /\ rpc = "idle" /\ \A d \in Conns \ {c} : pc[d] = "idle"
      /\ conn[c].user \in Users /\ conn[c].ip \in Ips
  BY CallAlone
<1>1. ConnStep(c, "idle", NoLocals) /\ rpc' = rpc
  BY DEF Accept, Goto, ConnStep, OnlineInv, DeviceShape, repVars
<1>2. CallKnows(c)'
  BY <1>1 DEF CallKnows, MapStages, TentStages, ConnStep
<1>3. RecentAreFound'
  <2> SUFFICES ASSUME NEW u \in Users, NEW ip \in Ips
               PROVE  /\ <<u, ip>> \in current' => Online(u, ip)'
                      /\ <<u, ip>> \in previous' => Remembered(u, ip)' \/ Online(u, ip)'
    BY <1>0, <1>1 DEF RecentAreFound
  <2>1. UNCHANGED previous /\ current' = current \cup {Device(c)} /\ accepted' = accepted \cup {Device(c)}
    BY DEF Accept
  <2>2. Online(u, ip)' <=> Online(u, ip)
    BY DEF Online
  <2>3. <<u, ip>> \in current' => Online(u, ip)
    BY <2>1 DEF SerialInv, RecentAreFound, Device
  <2>4. ASSUME <<u, ip>> \in previous, ~Online(u, ip) PROVE Remembered(u, ip)'
    <3>1. Remembered(u, ip) /\ <<u, ip>> # Device(c)
      BY <2>4 DEF SerialInv, RecentAreFound, Device
    <3>2. SharedAddress(u, ip) => SharedAddress(u, ip)'
      BY <2>1 DEF SharedAddress
    <3>3. CASE ip # conn[c].ip
      BY <1>0, <3>1, <3>2, <3>3 DEF Remembered, OnlineInv, DeviceShape
    <3>4. CASE ip = conn[c].ip
      <4>1. u # conn[c].user
        BY <3>1, <3>4 DEF Device
      <4> QED BY <1>0, <2>1, <3>4, <4>1 DEF Remembered, SharedAddress, Device
    <3> QED BY <3>3, <3>4
  <2> QED BY <2>1, <2>2, <2>3, <2>4
<1> QED BY <1>0, <1>1, <1>2, <1>3, SerialCall

LEMMA CheckLimitSerial ==
    ASSUME OnlineInv, SerialInv, ~overlap, NEW c \in Conns, NEW u \in Users, NEW ip \in Ips,
           CheckLimit(c, u, ip)
    PROVE  SerialInv'
<1> DEFINE r == [NoLocals EXCEPT !.user = u, !.ip = ip, !.limit = devLimit[u]]
<1>1. /\ ConnStep(c, "load", r) /\ UNCHANGED <<mapVars, repVars, history>>
      /\ rpc = "idle" /\ \A d \in Conns : pc[d] = "idle"
  BY DEF CheckLimit, Goto, ConnStep, OnlineInv, DeviceShape, InFlight
<1> HIDE DEF r
<1>2. CallKnows(c)'
  BY <1>1 DEF CallKnows, MapStages, TentStages, ConnStep
<1>3. RecentAreFound'
  BY <1>1 DEF SerialInv, RecentAreFound, Online, Remembered, SharedAddress, mapVars, repVars, history
<1> QED BY <1>1, <1>2, <1>3, SerialCall DEF repVars

LEMMA LoadOnlineSerial ==
    ASSUME OnlineInv, SerialInv, NEW c \in Conns, LoadOnline(c)
    PROVE  SerialInv'
<1> DEFINE r == [conn[c] EXCEPT !.alive = AliveList[conn[c].user],
                                !.map = UserOnlineIP[conn[c].user]]
           l == IF UserOnlineIP[conn[c].user] = None THEN "store" ELSE "inMap"
<1>0. DOMAIN conn = Conns /\ DOMAIN conn[c] = Fields
  BY DEF OnlineInv, DeviceShape
<1>1. ConnStep(c, l, r) /\ UNCHANGED <<mapVars, repVars, history>> /\ pc[c] = "load"
  BY <1>0 DEF LoadOnline, Goto, ConnStep, Fields, OnlineInv, DeviceShape
<1>2. r.user = conn[c].user /\ r.map = UserOnlineIP[conn[c].user]
  BY <1>0 DEF Fields
<1>3. l \in {"store", "inMap"}
  OBVIOUS
<1> HIDE DEF r, l
<1>4. CallKnows(c)'
  BY <1>1, <1>2, <1>3 DEF CallKnows, MapStages, TentStages, ConnStep, mapVars
<1>5. RecentAreFound'
  BY <1>1 DEF SerialInv, RecentAreFound, Online, Remembered, SharedAddress, mapVars, repVars, history
<1> QED BY <1>1, <1>4, <1>5, SerialCall, CallAlone DEF repVars

LEMMA LoadOrStoreMapSerial ==
    ASSUME OnlineInv, SerialInv, NEW c \in Conns, LoadOrStoreMap(c)
    PROVE  SerialInv'
<1>w. PICK w \in Users : w = conn[c].user
  BY CallAlone DEF LoadOrStoreMap
<1>0. /\ pc[c] = "store" /\ DOMAIN conn = Conns /\ DOMAIN conn[c] = Fields
      /\ UNCHANGED <<repVars, history>>
      /\ rpc = "idle" /\ \A d \in Conns \ {c} : pc[d] = "idle"
      /\ conn[c].ip \in Ips
  BY CallAlone DEF OnlineInv, DeviceShape, LoadOrStoreMap
<1>2. CASE /\ UserOnlineIP[w] # None /\ conn' = [conn EXCEPT ![c].map = UserOnlineIP[w]]
           /\ Goto(c, "inMap") /\ UNCHANGED mapVars
  <2> DEFINE r == [conn[c] EXCEPT !.map = UserOnlineIP[w]]
  <2>1. ConnStep(c, "inMap", r)
    BY <1>0, <1>2 DEF Goto, ConnStep, Fields, OnlineInv, DeviceShape
  <2>2. r.user = w /\ r.map = UserOnlineIP[w]
    BY <1>w, <1>0 DEF Fields
  <2> HIDE DEF r
  <2>3. CallKnows(c)'
    BY <1>2, <2>1, <2>2 DEF CallKnows, MapStages, TentStages, ConnStep, mapVars
  <2>4. RecentAreFound'
    BY <1>0, <1>2 DEF SerialInv, RecentAreFound, Online, Remembered, SharedAddress, mapVars, repVars,
                      history
  <2> QED BY <1>0, <2>1, <2>3, <2>4, SerialCall DEF repVars
<1>3. ASSUME NEW m \in MapIds, Free(m), UserOnlineIP[w] = None,
             UserOnlineIP' = [UserOnlineIP EXCEPT ![w] = m],
             ipMap' = [ipMap EXCEPT ![m] = {conn[c].ip}],
             conn' = [conn EXCEPT ![c].map = m], Goto(c, "oldFirst"), UNCHANGED OldUserOnline
      PROVE  SerialInv'
  <2> DEFINE r == [conn[c] EXCEPT !.map = m]
  <2>1. ConnStep(c, "oldFirst", r)
    BY <1>0, <1>3 DEF Goto, ConnStep, Fields, OnlineInv, DeviceShape
  <2>2. r.user = w /\ r.map = m /\ r.ip = conn[c].ip
    BY <1>w, <1>0 DEF Fields
  <2>3. /\ UserOnlineIP'[w] = m /\ ipMap'[m] = {conn[c].ip}
        /\ \A u \in Users : u # w => UserOnlineIP'[u] = UserOnlineIP[u]
        /\ \A k \in MapIds : k # m => ipMap'[k] = ipMap[k]
        /\ \A u \in Users : UserOnlineIP[u] # m
    BY <1>0, <1>3 DEF OnlineInv, DeviceShape, Free
  <2> HIDE DEF r
  <2>4. ASSUME NEW u \in Users, NEW ip \in Ips, Online(u, ip) PROVE Online(u, ip)'
    <3>1. u # w /\ UserOnlineIP[u] \in MapIds
      BY <1>3, <2>4 DEF Online, OnlineInv, DeviceShape
    <3> QED BY <2>3, <2>4, <3>1 DEF Online
  <2>5. ASSUME NEW u \in Users, NEW ip \in Ips PROVE Remembered(u, ip)' <=> Remembered(u, ip)
    BY <1>0, <1>3 DEF Remembered, SharedAddress, history
  <2>6. RecentAreFound'
    BY <1>0, <2>4, <2>5 DEF SerialInv, RecentAreFound, repVars, history
  <2>7. ASSUME NEW ip \in Ips PROVE Unneeded(w, ip)
    BY <1>0, <1>3 DEF Unneeded, SerialInv, RecentAreFound, Online
  <2>8. \A ip \in Ips : <<w, ip>> \in previous' => Remembered(w, ip)'
    BY <1>0, <2>5, <2>7 DEF Unneeded, history
  <2>9. \A ip \in Ips : <<w, ip>> \notin current'
    BY <1>0, <2>7 DEF Unneeded, history
  <2>a. \A ip \in Ips : Unneeded(conn[c].user, ip)'
    BY <2>1, <2>2, <2>8, <2>9 DEF Unneeded, Remembered, SharedAddress, ConnStep
  <2>b. CallKnows(c)'
    BY <2>1, <2>2, <2>3, <2>a DEF CallKnows, MapStages, TentStages, ConnStep
  <2> QED BY <1>0, <2>1, <2>6, <2>b, SerialCall DEF repVars
<1> QED BY <1>w, <1>2, <1>3 DEF LoadOrStoreMap

LEMMA LoadOrStoreIpSerial ==
    ASSUME OnlineInv, SerialInv, NEW c \in Conns, LoadOrStoreIp(c)
    PROVE  SerialInv'
<1> DEFINE w == conn[c].user
           m == conn[c].map
<1>0. /\ pc[c] = "inMap" /\ UNCHANGED <<UserOnlineIP, OldUserOnline, repVars>>
      /\ rpc = "idle" /\ \A d \in Conns \ {c} : pc[d] = "idle"
      /\ w \in Users /\ conn[c].ip \in Ips /\ m \in MapIds /\ m # None
      /\ UserOnlineIP[w] = m
  <2>1. pc[c] = "inMap" /\ UNCHANGED <<UserOnlineIP, OldUserOnline, repVars>>
    BY DEF LoadOrStoreIp
  <2>2. UserOnlineIP[w] = m
    BY <2>1 DEF SerialInv, CallKnows, MapStages
  <2>3. pc[c] \in MapStages
    BY <2>1 DEF MapStages
  <2> QED BY <2>1, <2>2, <2>3, CallAlone
<1>1. CASE Accept(c) /\ UNCHANGED ipMap /\ conn[c].ip \in ipMap[m]
  <2>1. Online(w, conn[c].ip)
    BY <1>0, <1>1 DEF Online
  <2> QED BY <1>0, <1>1, <2>1, SerialAccepted
<1>2. CASE /\ ipMap' = [ipMap EXCEPT ![m] = @ \cup {conn[c].ip}]
           /\ Goto(c, "oldNext") /\ UNCHANGED <<conn, history>> /\ conn[c].ip \notin ipMap[m]
  <2>1. ConnStep(c, "oldNext", conn[c])
    BY <1>2 DEF Goto, ConnStep, OnlineInv, DeviceShape
  <2>2. /\ ipMap'[m] = ipMap[m] \cup {conn[c].ip}
        /\ \A k \in MapIds : k # m => ipMap'[k] = ipMap[k]
    BY <1>0, <1>2 DEF OnlineInv, DeviceShape
  <2> HIDE DEF w, m
  <2>4. ASSUME NEW u \in Users, NEW ip \in Ips, Online(u, ip) PROVE Online(u, ip)'
    <3>1. UserOnlineIP[u] \in MapIds
      BY <2>4 DEF Online, OnlineInv, DeviceShape
    <3> QED BY <1>0, <2>2, <2>4, <3>1 DEF Online
  <2>5. ASSUME NEW u \in Users, NEW ip \in Ips PROVE Remembered(u, ip)' <=> Remembered(u, ip)
    BY <1>0, <1>2 DEF Remembered, SharedAddress, history
  <2>6. RecentAreFound'
    BY <1>0, <1>2, <2>4, <2>5 DEF SerialInv, RecentAreFound, repVars, history
  <2>7. Unneeded(w, conn[c].ip)
    BY <1>0, <1>2 DEF Unneeded, SerialInv, RecentAreFound, Online
  <2>8. Unneeded(conn[c].user, conn[c].ip)'
    BY <1>0, <1>2, <2>5, <2>7 DEF Unneeded, Remembered, SharedAddress, history, w
  <2>9. CallKnows(c)'
    BY <1>0, <1>2, <2>1, <2>2, <2>8 DEF CallKnows, MapStages, TentStages, ConnStep, w, m
  <2> QED BY <1>0, <2>1, <2>6, <2>9, SerialCall DEF repVars
<1> QED BY <1>1, <1>2 DEF LoadOrStoreIp

LEMMA LookupOldSerial ==
    ASSUME OnlineInv, SerialInv, NEW c \in Conns, NEW reject,
           \/ pc[c] = "oldFirst" /\ reject = "rejectFirst"
           \/ pc[c] = "oldNext" /\ reject = "rejectNext",
           LookupOld(c, reject), UNCHANGED <<mapVars, repVars>>
    PROVE  SerialInv'
<1>0. /\ rpc = "idle" /\ \A d \in Conns \ {c} : pc[d] = "idle"
      /\ conn[c].user \in Users /\ conn[c].ip \in Ips /\ conn[c].map # None
      /\ CallKnows(c) /\ pc[c] \in MapStages /\ pc[c] \in TentStages
      /\ UserOnlineIP[conn[c].user] = conn[c].map /\ conn[c].ip \in ipMap[conn[c].map]
  <2>1. pc[c] \in MapStages /\ pc[c] \in TentStages
    BY DEF MapStages, TentStages
  <2>2. CallKnows(c)
    BY DEF SerialInv
  <2>3. UserOnlineIP[conn[c].user] = conn[c].map /\ conn[c].ip \in ipMap[conn[c].map]
    BY <2>1, <2>2 DEF CallKnows
  <2> QED BY <2>1, <2>2, <2>3, CallAlone
<1>1. CASE Accept(c)
  <2>1. Online(conn[c].user, conn[c].ip)
    BY <1>0 DEF Online
  <2> QED BY <1>1, <2>1, SerialAccepted DEF mapVars
<1>2. ASSUME NEW l \in {"delOld", reject}, Goto(c, l), UNCHANGED <<conn, history>>,
             l = reject => OldUserOnline[conn[c].ip] = None
      PROVE  SerialInv'
  <2>1. ConnStep(c, l, conn[c])
    BY <1>2 DEF Goto, ConnStep, OnlineInv, DeviceShape
  <2>2. RecentAreFound'
    BY <1>2 DEF SerialInv, RecentAreFound, Online, Remembered, SharedAddress, mapVars, repVars, history
  <2>3. \A ip \in Ips : Unneeded(conn[c].user, ip)' <=> Unneeded(conn[c].user, ip)
    BY <1>2 DEF Unneeded, Remembered, SharedAddress, mapVars, history
  <2>4. Unneeded(conn[c].user, conn[c].ip)' <=> Unneeded(conn[c].user, conn[c].ip)
    BY <1>2 DEF Unneeded, Remembered, SharedAddress, mapVars, history
  <2>5. CallKnows(c)'
    BY <1>0, <1>2, <2>1, <2>3, <2>4 DEF CallKnows, MapStages, TentStages, ConnStep, mapVars
  <2> QED BY <1>0, <2>1, <2>2, <2>5, SerialCall DEF repVars
<1> QED BY <1>1, <1>2 DEF LookupOld

LEMMA DeleteOldSerial ==
    ASSUME OnlineInv, SerialInv, NEW c \in Conns, DeleteOld(c)
    PROVE  SerialInv'
<1>1. /\ pc[c] = "delOld" /\ pc[c] \in MapStages /\ pc[c] \in TentStages
  BY DEF DeleteOld, MapStages, TentStages
<1>2. Online(conn[c].user, conn[c].ip)
  BY <1>1, CallAlone DEF Online, SerialInv, CallKnows
<1> QED BY <1>1, <1>2, SerialAccepted DEF DeleteOld

LEMMA RejectFirstSerial ==
    ASSUME OnlineInv, SerialInv, NEW c \in Conns, RejectFirst(c)
    PROVE  SerialInv'
<1>0. PICK w \in Users : w = conn[c].user
  BY CallAlone DEF RejectFirst
<1>1. /\ pc[c] = "rejectFirst" /\ UNCHANGED <<ipMap, OldUserOnline, repVars, history>>
      /\ rpc = "idle" /\ \A d \in Conns \ {c} : pc[d] = "idle"
      /\ ConnStep(c, "idle", NoLocals)
  BY CallAlone DEF RejectFirst, Reject, Goto, ConnStep, OnlineInv, DeviceShape
<1>2. \A u \in Users : u # w => UserOnlineIP'[u] = UserOnlineIP[u]
  BY <1>0 DEF RejectFirst, OnlineInv, DeviceShape
<1>3. \A ip \in Ips : Unneeded(w, ip)
  BY <1>0, <1>1 DEF SerialInv, CallKnows
<1>4. ASSUME NEW u \in Users, NEW ip \in Ips PROVE Remembered(u, ip)' <=> Remembered(u, ip)
  BY <1>1 DEF Remembered, SharedAddress, history
<1>5. ASSUME NEW u \in Users, NEW ip \in Ips, u # w PROVE Online(u, ip)' <=> Online(u, ip)
  BY <1>1, <1>2, <1>5 DEF Online
<1>6. RecentAreFound'
  BY <1>1, <1>3, <1>4, <1>5 DEF SerialInv, RecentAreFound, Unneeded, repVars, history
<1>7. CallKnows(c)'
  BY <1>1 DEF CallKnows, MapStages, TentStages, ConnStep
<1> QED BY <1>1, <1>6, <1>7, SerialCall DEF repVars

LEMMA RejectNextSerial ==
    ASSUME OnlineInv, SerialInv, NEW c \in Conns, RejectNext(c)
    PROVE  SerialInv'
<1>0. pc[c] \in MapStages /\ pc[c] = "rejectNext"
  BY DEF RejectNext, MapStages
<1>1. PICK w \in Users, a \in Ips, m \in MapIds : w = conn[c].user /\ a = conn[c].ip /\ m = conn[c].map
  BY <1>0, CallAlone
<1>2. /\ UNCHANGED <<UserOnlineIP, OldUserOnline, repVars, history>>
      /\ rpc = "idle" /\ \A d \in Conns \ {c} : pc[d] = "idle"
      /\ ConnStep(c, "idle", NoLocals)
  BY <1>0, CallAlone DEF RejectNext, Reject, Goto, ConnStep, OnlineInv, DeviceShape
<1>3. /\ ipMap'[m] = ipMap[m] \ {a}
      /\ \A k \in MapIds : k # m => ipMap'[k] = ipMap[k]
  BY <1>1 DEF RejectNext, OnlineInv, DeviceShape
<1>4. Unneeded(w, a) /\ UserOnlineIP[w] = m /\ m # None
  BY <1>0, <1>1, CallAlone DEF SerialInv, CallKnows
<1>5. ASSUME NEW u \in Users, NEW ip \in Ips PROVE Remembered(u, ip)' <=> Remembered(u, ip)
  BY <1>2 DEF Remembered, SharedAddress, history
<1>6. ASSUME NEW u \in Users, NEW ip \in Ips, Online(u, ip), ~(u = w /\ ip = a) PROVE Online(u, ip)'
  <2>1. UserOnlineIP[u] \in MapIds
    BY <1>6 DEF Online, OnlineInv, DeviceShape
  <2>2. UserOnlineIP[u] = m => u = w
    BY <1>4 DEF OnlineInv, MapsAreOwned
  <2> QED BY <1>2, <1>3, <1>6, <2>1, <2>2 DEF Online
<1>7. RecentAreFound'
  BY <1>2, <1>4, <1>5, <1>6 DEF SerialInv, RecentAreFound, Unneeded, repVars, history
<1>8. CallKnows(c)'
  BY <1>2 DEF CallKnows, MapStages, TentStages, ConnStep
<1> QED BY <1>2, <1>7, <1>8, SerialCall DEF repVars

\* Nothing is in flight: only the recent devices matter.
LEMMA SerialIdle ==
    ASSUME \A c \in Conns : pc'[c] = "idle", RecentAreFound'
    PROVE  SerialInv'
BY DEF SerialInv, OneCall, CallKnows, MapStages, TentStages

LEMMA ReportSerial ==
    ASSUME OnlineInv, SerialInv, ~overlap, Report
    PROVE  SerialInv'
<1>1. ASSUME rpc # "idle" PROVE \A c \in Conns : pc[c] = "idle"
  BY <1>1 DEF SerialInv, OneCall
<1>2. CASE GetOnlineDevice
  <2>1. /\ rpc = "idle" /\ rpc' = "range" /\ todo' = Users
        /\ UNCHANGED <<mapVars, connVars, history>> /\ \A c \in Conns : pc[c] = "idle"
    BY <1>2 DEF GetOnlineDevice, InFlight
  <2>2. RecentAreFound'
    BY <2>1 DEF SerialInv, RecentAreFound, Online, Remembered, SharedAddress, mapVars, history
  <2> QED BY <2>1, <2>2, SerialIdle DEF connVars
<1>3. CASE SwapOld
  <2>1. /\ rpc = "range" /\ rpc' = "clear" /\ todo = {} /\ OldUserOnline' = newOld
        /\ previous' = current /\ current' = {} /\ UNCHANGED connVars
        /\ \A c \in Conns : pc[c] = "idle"
    BY <1>1, <1>3 DEF SwapOld
  <2>2. RecentAreFound'
    BY <2>1 DEF SerialInv, RecentAreFound, Remembered
  <2> QED BY <2>1, <2>2, SerialIdle DEF connVars
<1>4. ASSUME NEW w \in Users, RangeUser(w) PROVE SerialInv'
  <2>1. /\ rpc = "range" /\ UNCHANGED <<mapVars, connVars, rpc, history>> /\ todo' = todo \ {w}
        /\ \A c \in Conns : pc[c] = "idle"
        /\ \A ip \in Ips : newOld'[ip] = IF Online(w, ip) THEN w ELSE newOld[ip]
    BY <1>1, <1>4 DEF RangeUser, Online
  <2>2. ASSUME NEW u \in Users, NEW ip \in Ips
        PROVE  /\ Online(u, ip)' <=> Online(u, ip)
               /\ Remembered(u, ip)' <=> Remembered(u, ip)
    BY <2>1 DEF Online, Remembered, SharedAddress, mapVars, history
  <2>3. ASSUME NEW u \in Users, NEW ip \in Ips, <<u, ip>> \in current, u \notin todo'
        PROVE  newOld'[ip] # None
    <3>1. CASE u = w
      BY <2>1, <2>3, <3>1, NoneAssumption DEF SerialInv, RecentAreFound
    <3>2. CASE u # w
      BY <2>1, <2>3, <3>2, NoneAssumption DEF SerialInv, RecentAreFound
    <3> QED BY <3>1, <3>2
  <2>4. RecentAreFound'
    BY <2>1, <2>2, <2>3 DEF SerialInv, RecentAreFound, history
  <2> QED BY <2>1, <2>4, SerialIdle DEF connVars
<1>5. ASSUME NEW w \in Users, ClearUser(w) PROVE SerialInv'
  <2>1. /\ rpc = "clear" /\ rpc' \in {"clear", "idle"}
        /\ UNCHANGED <<OldUserOnline, connVars, history>>
        /\ \A c \in Conns : pc[c] = "idle"
    BY <1>1, <1>5 DEF ClearUser
  <2>2. \A u \in Users, ip \in Ips : Remembered(u, ip)' <=> Remembered(u, ip)
    BY <2>1 DEF Remembered, SharedAddress, history
  <2>3. RecentAreFound'
    BY <2>1, <2>2 DEF SerialInv, RecentAreFound, history
  <2> QED BY <2>1, <2>3, SerialIdle DEF connVars
<1> QED BY <1>2, <1>3, <1>4, <1>5 DEF Report

LEMMA MonitorSerial ==
    ASSUME OnlineInv, SerialInv, ~overlap, Monitor
    PROVE  SerialInv'
<1>1. ASSUME NEW w \in Users, UpdateUserDeleted(w) PROVE SerialInv'
  <2>1. /\ \A c \in Conns : pc[c] = "idle"
        /\ UNCHANGED <<ipMap, OldUserOnline, connVars, repVars, accepted>>
        /\ \A u \in Users, ip \in Ips :
              /\ <<u, ip>> \in current' <=> u # w /\ <<u, ip>> \in current
              /\ <<u, ip>> \in previous' <=> u # w /\ <<u, ip>> \in previous
        /\ \A u \in Users : u # w => UserOnlineIP'[u] = UserOnlineIP[u]
    BY <1>1 DEF UpdateUserDeleted, InFlight, OnlineInv, DeviceShape
  <2>2. ASSUME NEW u \in Users, NEW ip \in Ips, u # w
        PROVE  /\ Online(u, ip)' <=> Online(u, ip)
               /\ Remembered(u, ip)' <=> Remembered(u, ip)
    BY <2>1, <2>2 DEF Online, Remembered, SharedAddress
  <2>3. RecentAreFound'
    BY <2>1, <2>2 DEF SerialInv, RecentAreFound, repVars
  <2> QED BY <2>1, <2>3, SerialIdle DEF connVars
<1>2. ASSUME NEW u \in Users, NEW l \in 0 .. MaxLimit, UpdateUserLimit(u, l) PROVE SerialInv'
  BY <1>2, SerialStands DEF UpdateUserLimit
<1>3. ASSUME NEW alive \in [Users -> 0 .. MaxAlive], UpdateAliveList(alive) PROVE SerialInv'
  BY <1>3, SerialStands DEF UpdateAliveList
<1> QED BY <1>1, <1>2, <1>3 DEF Monitor

LEMMA SerialStep == OnlineInv /\ SerialInv /\ ~overlap /\ [Next]_vars => SerialInv'
<1> SUFFICES ASSUME OnlineInv, SerialInv, ~overlap, [Next]_vars PROVE SerialInv'
  OBVIOUS
<1>1. ASSUME NEW c \in Conns, CheckLimitStep(c) PROVE SerialInv'
  <2>1. ASSUME NEW u \in Users, NEW ip \in Ips, CheckLimit(c, u, ip) PROVE SerialInv'
    BY <2>1, CheckLimitSerial
  <2>2. CASE LoadOnline(c)
    BY <2>2, LoadOnlineSerial
  <2>3. CASE LoadOrStoreMap(c)
    BY <2>3, LoadOrStoreMapSerial
  <2>4. CASE OldFirst(c)
    BY <2>4, LookupOldSerial DEF OldFirst
  <2>5. CASE RejectFirst(c)
    BY <2>5, RejectFirstSerial
  <2>6. CASE LoadOrStoreIp(c)
    BY <2>6, LoadOrStoreIpSerial
  <2>7. CASE OldNext(c)
    BY <2>7, LookupOldSerial DEF OldNext
  <2>8. CASE RejectNext(c)
    BY <2>8, RejectNextSerial
  <2>9. CASE DeleteOld(c)
    BY <2>9, DeleteOldSerial
  <2> QED BY <1>1, <2>1, <2>2, <2>3, <2>4, <2>5, <2>6, <2>7, <2>8, <2>9 DEF CheckLimitStep
<1>2. CASE UNCHANGED vars
  BY <1>2, SerialStands DEF vars
<1> QED BY <1>1, <1>2, ReportSerial, MonitorSerial DEF Next

\* Whether calls overlap is settled at the start.
LEMMA OverlapStays == [Next]_vars => UNCHANGED overlap
BY DEF Next, CheckLimitStep, Report, Monitor, vars, limVars, CheckLimit, LoadOnline, LoadOrStoreMap,
       OldFirst, RejectFirst, LoadOrStoreIp, OldNext, RejectNext, DeleteOld, GetOnlineDevice, SwapOld,
       RangeUser, ClearUser, UpdateUserDeleted, UpdateUserLimit, UpdateAliveList

\* Of calls that do not overlap, none refuses a device of this report period or the
\* one before whose address is its user's alone, for any number of users, addresses,
\* limits and reports.
THEOREM RecentDevicesAreLetIn == Spec => []NoSpuriousReject
<1> DEFINE Inv == OnlineInv /\ (~overlap => SerialInv)
<1>1. Init => Inv
  BY OnlineInit, SerialInit
<1>2. Inv /\ [Next]_vars => Inv'
  BY OnlineStep, SerialStep, OverlapStays
<1>3. Inv => NoSpuriousReject
  BY SerialImplies
<1> QED BY <1>1, <1>2, <1>3, PTL DEF Spec

-----------------------------------------------------------------------------
(* SpeedLimit: whose a bucket is, and at what rate.                         *)

\* The limit of a user that the panel's number and the node's come to.
LimitOf(u) == determineSpeedLimit(NodeLimit, info[u].speed)

HeldFields == {"user", "limit", "bucket"}

SpeedShape ==
    /\ info \in [Users -> LimitInfo \cup {None}] /\ now \in 0 .. MaxTime
    /\ DOMAIN SpeedLimiter = Users /\ \A u \in Users : SpeedLimiter[u] \in Buckets \cup {None}
    /\ DOMAIN rate = Buckets
    /\ DOMAIN stage = Conns /\ DOMAIN held = Conns
    /\ \A c \in Conns :
          /\ DOMAIN held[c] = HeldFields
          /\ held[c].limit \in Nat /\ held[c].bucket \in Buckets \cup {None}
          /\ stage[c] = "none" => held[c] = NoneHeld
          /\ stage[c] # "none" => held[c].user \in Users
          /\ stage[c] \in {"load", "store"} => held[c].bucket = None
    /\ DOMAIN upd = {"user", "limit", "at"}
    /\ upd.at \in {"idle", "load", "store"}
    /\ upd.at = "idle" => upd = NoUpd
    /\ upd.at # "idle" => upd.user \in Users /\ info[upd.user] # None /\ upd.limit = LimitOf(upd.user)
    /\ upd.at = "store" => upd.limit > 0

\* A bucket is one user's.
BucketsAreOwned ==
    /\ \A u, v \in Users : SpeedLimiter[u] = SpeedLimiter[v] /\ SpeedLimiter[u] # None => u = v
    /\ \A u \in Users, c \in Conns :
          SpeedLimiter[u] = held[c].bucket /\ SpeedLimiter[u] # None => u = held[c].user

\* The connections of a user share the bucket of the map, and who is about to store one
\* is alone and finds none there.
Shared(u) ==
    /\ \A c \in Conns : held[c].user = u /\ held[c].bucket # None => held[c].bucket = SpeedLimiter[u]
    /\ \A c \in Conns : stage[c] = "store" /\ held[c].user = u =>
          /\ SpeedLimiter[u] = None
          /\ ~(upd.at = "store" /\ upd.user = u)
          /\ \A d \in Conns : stage[d] = "store" /\ held[d].user = u => d = c
    /\ upd.at = "store" /\ upd.user = u => SpeedLimiter[u] = None

\* What CheckLimit read is within the limit of now, and a user without entry is served
\* by no call in progress and has no bucket.
Fresh(u) ==
    /\ info[u] = None => SpeedLimiter[u] = None /\ ~BeingLimited(u)
    /\ info[u] # None /\ LimitOf(u) > 0 =>
          \A c \in Conns : stage[c] \in {"load", "store"} /\ held[c].user = u => held[c].limit <= LimitOf(u)

\* The bucket in the map has at most the rate of the limit.
Rated(u) ==
    Settled(u) /\ LimitOf(u) > 0 /\ SpeedLimiter[u] # None => rate[SpeedLimiter[u]] <= LimitOf(u)

SpeedInv ==
    /\ SpeedShape /\ BucketsAreOwned
    /\ \A u \in Users : /\ u \notin split => Shared(u)
                        /\ u \notin raced => Fresh(u)
                        /\ u \notin raced \cup split => Rated(u)

-----------------------------------------------------------------------------
\* What determineSpeedLimit computes: the smaller one, where 0 is no limit.
LEMMA DetermineCases ==
    ASSUME NEW a \in Nat, NEW b \in Nat
    PROVE  determineSpeedLimit(a, b) =
               IF a = 0 THEN b ELSE IF b = 0 THEN a ELSE IF a <= b THEN a ELSE b
<1>1. Max({a, b}) = IF a <= b THEN b ELSE a
  <2>1. \E x \in {a, b} : \A y \in {a, b} : x >= y
    OBVIOUS
  <2>2. Max({a, b}) \in {a, b} /\ \A y \in {a, b} : Max({a, b}) >= y
    BY <2>1 DEF Max
  <2> QED BY <2>2
<1>2. Min({a, b}) = IF a <= b THEN a ELSE b
  <2>1. \E x \in {a, b} : \A y \in {a, b} : x <= y
    OBVIOUS
  <2>2. Min({a, b}) \in {a, b} /\ \A y \in {a, b} : Min({a, b}) <= y
    BY <2>1 DEF Min
  <2> QED BY <2>2
<1> QED BY <1>1, <1>2 DEF determineSpeedLimit

LEMMA DetermineIsNat ==
    ASSUME NEW a \in Nat, NEW b \in Nat
    PROVE  determineSpeedLimit(a, b) \in Nat
BY DetermineCases

\* A throttle never raises the limit.
LEMMA ThrottleIsWithin ==
    ASSUME NEW n \in Nat, NEW s \in Nat, NEW d \in Nat, determineSpeedLimit(n, s) > 0
    PROVE  determineSpeedLimit(n, determineSpeedLimit(s, d)) <= determineSpeedLimit(n, s)
<1>1. PICK t \in Nat : t = determineSpeedLimit(s, d)
  BY DetermineIsNat
<1>2. t = IF s = 0 THEN d ELSE IF d = 0 THEN s ELSE IF s <= d THEN s ELSE d
  BY <1>1, DetermineCases
<1>3. determineSpeedLimit(n, t) = IF n = 0 THEN t ELSE IF t = 0 THEN n ELSE IF n <= t THEN n ELSE t
  BY DetermineCases
<1>4. determineSpeedLimit(n, s) = IF n = 0 THEN s ELSE IF s = 0 THEN n ELSE IF n <= s THEN n ELSE s
  BY DetermineCases
<1> QED BY <1>1, <1>2, <1>3, <1>4

LEMMA InfoFields ==
    ASSUME NEW i \in LimitInfo
    PROVE  /\ DOMAIN i = {"speed", "dyn", "expire"}
           /\ i.speed \in Speeds /\ i.speed \in Nat /\ i.dyn \in Nat /\ i.expire \in Nat /\ i # None
<1>1. DOMAIN i = {"speed", "dyn", "expire"}
  BY DEF LimitInfo
<1>2. i.speed \in Speeds /\ i.dyn \in {0, LimitSpeed} /\ i.expire \in 0 .. MaxTime + LimitDuration
  BY DEF LimitInfo
<1>3. Speeds \subseteq Nat /\ LimitSpeed \in Nat
  BY SpeedAssumption
<1>4. i # None
  BY NoneIsNothing
<1>5. i.speed \in Nat
  BY <1>2, <1>3
<1>6. i.dyn = 0 \/ i.dyn = LimitSpeed
  BY <1>2
<1>7. i.dyn \in Nat
  BY <1>3, <1>6
<1>8. i.expire \in Nat
  BY <1>2
<1> QED BY <1>1, <1>2, <1>4, <1>5, <1>7, <1>8

LEMMA LimitIsNat ==
    ASSUME SpeedShape, NEW u \in Users, info[u] # None
    PROVE  LimitOf(u) \in Nat
<1>1. info[u].speed \in Nat
  BY InfoFields DEF SpeedShape
<1> QED BY <1>1, SpeedAssumption, DetermineIsNat DEF LimitOf

\* Every user's limit is what it was; the throttles may differ.
SameLimits ==
    /\ info' \in [Users -> LimitInfo \cup {None}]
    /\ \A u \in Users : /\ info'[u] = None <=> info[u] = None
                        /\ info[u] # None => LimitOf(u)' = LimitOf(u)

LEMMA InfoUpdated ==
    ASSUME SpeedShape, NEW w \in Users, info[w] # None, NEW i \in LimitInfo,
           info' = [info EXCEPT ![w] = i]
    PROVE  /\ info' \in [Users -> LimitInfo \cup {None}]
           /\ info'[w] = i /\ i # None
           /\ \A u \in Users : u # w => info'[u] = info[u]
           /\ i.speed = info[w].speed => SameLimits
<1>1. /\ info' \in [Users -> LimitInfo \cup {None}] /\ info'[w] = i /\ i # None
      /\ \A u \in Users : u # w => info'[u] = info[u]
  BY InfoFields DEF SpeedShape
<1>2. ASSUME i.speed = info[w].speed PROVE SameLimits
  BY <1>1, <1>2 DEF SameLimits, LimitOf
<1> QED BY <1>1, <1>2

\* Steps that change no bucket and no connection.
LEMMA SpeedStands ==
    ASSUME SpeedInv, UNCHANGED <<SpeedLimiter, rate, stage, held, upd, raced, split>>,
           SameLimits, now' \in 0 .. MaxTime
    PROVE  SpeedInv'
<1>1. SpeedShape'
  BY DEF SpeedInv, SpeedShape, SameLimits
<1>2. BucketsAreOwned'
  BY DEF SpeedInv, BucketsAreOwned
<1>3. ASSUME NEW u \in Users
      PROVE  /\ Shared(u) => Shared(u)'
             /\ Fresh(u) => Fresh(u)'
             /\ Rated(u) => Rated(u)'
  <2>1. /\ info'[u] = None <=> info[u] = None
        /\ info[u] # None => LimitOf(u)' = LimitOf(u)
    BY DEF SameLimits
  <2>2. Shared(u) => Shared(u)'
    BY DEF Shared
  <2>3. Fresh(u) => Fresh(u)'
    BY <2>1 DEF Fresh, BeingLimited
  <2>4. Rated(u) => Rated(u)'
    BY <2>1 DEF Rated, Settled
  <2> QED BY <2>2, <2>3, <2>4
<1> QED BY <1>1, <1>2, <1>3 DEF SpeedInv

LEMMA TickKeeps ==
    ASSUME SpeedInv, Tick \/ UNCHANGED speedVars
    PROVE  SpeedInv'
<1>1. SameLimits
  BY DEF SameLimits, LimitOf, Tick, speedVars, SpeedInv, SpeedShape
<1>2. now' \in 0 .. MaxTime
  BY SpeedAssumption DEF Tick, speedVars, SpeedInv, SpeedShape
<1> QED BY <1>1, <1>2, SpeedStands DEF Tick, speedVars, marks

LEMMA AutoKeeps ==
    ASSUME SpeedInv, NEW high, NEW low, applyAutoSpeedLimit(high, low)
    PROVE  SpeedInv'
<1>1. PICK T : info' = [u \in Users |-> IF u \in T /\ info[u] # None
                                        THEN [info[u] EXCEPT !.dyn = LimitSpeed,
                                                             !.expire = now + LimitDuration]
                                        ELSE info[u]]
  BY DEF applyAutoSpeedLimit
<1>2. now + LimitDuration \in 0 .. MaxTime + LimitDuration /\ info \in [Users -> LimitInfo \cup {None}]
  BY SpeedAssumption DEF SpeedInv, SpeedShape
<1>3. ASSUME NEW u \in Users
      PROVE  /\ info'[u] \in LimitInfo \cup {None} /\ (info'[u] = None <=> info[u] = None)
             /\ info[u] # None => info'[u].speed = info[u].speed
  <2>1. CASE u \in T /\ info[u] # None
    <3>1. /\ info[u] \in LimitInfo
          /\ info'[u] = [info[u] EXCEPT !.dyn = LimitSpeed, !.expire = now + LimitDuration]
      BY <1>1, <1>2, <2>1
    <3>2. info'[u] \in LimitInfo /\ info'[u].speed = info[u].speed
      BY <1>2, <3>1 DEF LimitInfo
    <3> QED BY <2>1, <3>2, NoneIsNothing
  <2>2. CASE ~(u \in T /\ info[u] # None)
    BY <1>1, <1>2, <2>2
  <2> QED BY <2>1, <2>2
<1>4. SameLimits
  <2>1. info' \in [Users -> LimitInfo \cup {None}]
    BY <1>1, <1>3
  <2> QED BY <1>3, <2>1 DEF SameLimits, LimitOf
<1> QED BY <1>4, SpeedStands DEF applyAutoSpeedLimit, SpeedInv, SpeedShape

-----------------------------------------------------------------------------
\* Connection c goes to l and holds r, the others stay.
HeldStep(c, l, r) ==
    /\ DOMAIN stage' = Conns /\ DOMAIN held' = Conns
    /\ stage'[c] = l /\ held'[c] = r
    /\ \A d \in Conns \ {c} : stage'[d] = stage[d] /\ held'[d] = held[d]

LEMMA NoneHeldFields ==
    /\ DOMAIN NoneHeld = HeldFields
    /\ NoneHeld.user = None /\ NoneHeld.limit = 0 /\ NoneHeld.bucket = None
BY DEF NoneHeld, HeldFields

LEMMA SpeedStart == SpeedInit => SpeedInv
<1> SUFFICES ASSUME SpeedInit PROVE SpeedInv
  OBVIOUS
<1>1. info \in [Users -> LimitInfo \cup {None}] /\ now \in 0 .. MaxTime
  <2>1. 0 \in 0 .. MaxTime /\ 0 \in 0 .. MaxTime + LimitDuration
    BY SpeedAssumption
  <2>2. \A u \in Users : info[u] \in LimitInfo
    BY <2>1 DEF SpeedInit, LimitInfo
  <2> QED BY <2>1, <2>2 DEF SpeedInit
<1>2. upd.at = "idle" /\ DOMAIN upd = {"user", "limit", "at"} /\ upd.user = None
  BY DEF SpeedInit, NoUpd
<1>3. SpeedShape
  BY <1>1, <1>2, NoneHeldFields DEF SpeedInit, SpeedShape
<1>4. BucketsAreOwned
  BY DEF SpeedInit, BucketsAreOwned
<1>5. ASSUME NEW u \in Users PROVE Shared(u) /\ Fresh(u) /\ Rated(u)
  <2>1. Shared(u)
    BY <1>2, NoneHeldFields, NoneIsNothing DEF SpeedInit, Shared
  <2>2. Fresh(u)
    BY DEF SpeedInit, Fresh, BeingLimited
  <2>3. Rated(u)
    BY DEF SpeedInit, Rated
  <2> QED BY <2>1, <2>2, <2>3
<1> QED BY <1>3, <1>4, <1>5 DEF SpeedInv

\* CheckLimit's reading of the limits.
LEMMA CheckSpeedKeeps ==
    ASSUME SpeedInv, NEW c \in Conns, NEW w \in Users, CheckSpeed(c, w)
    PROVE  SpeedInv'
<1> DEFINE i == info[w]
           userLimit == IF Expired(i) THEN i.speed ELSE determineSpeedLimit(i.speed, i.dyn)
<1>0. /\ stage[c] = "none" /\ held[c] = NoneHeld /\ i \in LimitInfo /\ i # None
      /\ info \in [Users -> LimitInfo \cup {None}]
      /\ UNCHANGED <<SpeedLimiter, rate, upd, now, raced, split>>
  BY DEF CheckSpeed, SpeedInv, SpeedShape, marks
<1>1. i.speed \in Nat /\ i.dyn \in Nat /\ DOMAIN i = {"speed", "dyn", "expire"} /\ NodeLimit \in Nat
  BY <1>0, InfoFields, SpeedAssumption
<1>2. PICK limit \in Nat : limit = determineSpeedLimit(NodeLimit, userLimit)
  BY <1>1, DetermineIsNat
<1>3. LimitOf(w) > 0 => limit <= LimitOf(w)
  <2>1. LimitOf(w) = determineSpeedLimit(NodeLimit, i.speed)
    BY DEF LimitOf
  <2>2. LimitOf(w) \in Nat
    BY <1>1, <2>1, DetermineIsNat
  <2>3. CASE Expired(i)
    BY <1>2, <2>1, <2>2, <2>3
  <2>4. CASE ~Expired(i)
    BY <1>1, <1>2, <2>1, <2>4, ThrottleIsWithin
  <2> QED BY <2>3, <2>4
<1> DEFINE r == [user |-> w, limit |-> limit, bucket |-> None]
<1>4. DOMAIN r = HeldFields /\ r.user = w /\ r.limit = limit /\ r.bucket = None
  BY DEF HeldFields
<1>5. PICK l \in {"load", "open"} : HeldStep(c, l, r)
  <2>1. /\ held' = [held EXCEPT ![c] = r]
        /\ stage' = [stage EXCEPT ![c] = IF limit > 0 THEN "load" ELSE "open"]
    BY <1>2 DEF CheckSpeed
  <2> HIDE DEF r
  <2> QED BY <2>1 DEF HeldStep, SpeedInv, SpeedShape
<1>6. SameLimits
  <2>1. CASE Expired(i)
    <3> DEFINE j == [i EXCEPT !.dyn = 0, !.expire = 0]
    <3>0. 0 \in 0 .. MaxTime + LimitDuration
      BY SpeedAssumption
    <3>1. j \in LimitInfo /\ j.speed = i.speed
      BY <1>0, <3>0 DEF LimitInfo
    <3>2. info' = [info EXCEPT ![w] = j]
      BY <1>0, <1>1, <2>1 DEF CheckSpeed
    <3> HIDE DEF j
    <3> QED BY <1>0, <3>1, <3>2, InfoUpdated DEF SpeedInv
  <2>2. CASE ~Expired(i)
    BY <1>0, <2>2 DEF CheckSpeed, SameLimits, LimitOf
  <2> QED BY <2>1, <2>2
<1> HIDE DEF i, userLimit, r
<1>7. SpeedShape'
  BY <1>0, <1>4, <1>5, <1>6 DEF SpeedInv, SpeedShape, SameLimits, HeldStep
<1>8. BucketsAreOwned'
  BY <1>0, <1>4, <1>5 DEF SpeedInv, BucketsAreOwned, HeldStep
<1>9. ASSUME NEW u \in Users
      PROVE  /\ Shared(u) => Shared(u)'
             /\ Fresh(u) => Fresh(u)'
             /\ Rated(u) => Rated(u)'
  <2>1. /\ info'[u] = None <=> info[u] = None
        /\ info[u] # None => LimitOf(u)' = LimitOf(u)
    BY <1>6 DEF SameLimits
  <2>2. Shared(u) => Shared(u)'
    BY <1>0, <1>4, <1>5 DEF Shared, HeldStep
  <2>3. Fresh(u) => Fresh(u)'
    BY <1>0, <1>3, <1>4, <1>5, <2>1 DEF Fresh, BeingLimited, HeldStep, i
  <2>4. Rated(u) => Rated(u)'
    BY <1>0, <2>1 DEF Rated, Settled
  <2> QED BY <2>2, <2>3, <2>4
<1> QED BY <1>0, <1>7, <1>8, <1>9 DEF SpeedInv

LEMMA ReleaseKeeps ==
    ASSUME SpeedInv, NEW c \in Conns, Release(c)
    PROVE  SpeedInv'
<1>0. /\ stage[c] = "open" /\ HeldStep(c, "none", NoneHeld)
      /\ UNCHANGED <<info, SpeedLimiter, rate, upd, now, raced, split>>
  BY DEF Release, SpeedInv, SpeedShape, marks, HeldStep
<1>7. SpeedShape'
  BY <1>0, NoneHeldFields DEF SpeedInv, SpeedShape, HeldStep, LimitOf
<1>8. BucketsAreOwned'
  BY <1>0, NoneHeldFields DEF SpeedInv, BucketsAreOwned, HeldStep
<1>9. ASSUME NEW u \in Users
      PROVE  /\ Shared(u) => Shared(u)'
             /\ Fresh(u) => Fresh(u)'
             /\ Rated(u) => Rated(u)'
  <2>2. Shared(u) => Shared(u)'
    BY <1>0, NoneHeldFields DEF Shared, HeldStep
  <2>3. Fresh(u) => Fresh(u)'
    BY <1>0 DEF Fresh, BeingLimited, HeldStep, LimitOf
  <2>4. Rated(u) => Rated(u)'
    BY <1>0 DEF Rated, Settled, LimitOf
  <2> QED BY <2>2, <2>3, <2>4
<1> QED BY <1>0, <1>7, <1>8, <1>9 DEF SpeedInv

LEMMA LoadBucketKeeps ==
    ASSUME SpeedInv, NEW c \in Conns, LoadBucket(c)
    PROVE  SpeedInv'
<1>0. /\ stage[c] = "load" /\ held[c].bucket = None /\ DOMAIN held[c] = HeldFields
      /\ held[c].limit \in Nat /\ held[c].user \in Users
      /\ UNCHANGED <<info, SpeedLimiter, rate, upd, now, raced>>
  BY DEF LoadBucket, SpeedInv, SpeedShape
<1>1. PICK w \in Users : w = held[c].user
  BY <1>0
<1>2. CASE SpeedLimiter[w] # None
  <2>0. PICK b \in Buckets : b = SpeedLimiter[w]
    BY <1>2 DEF SpeedInv, SpeedShape
  <2> DEFINE r == [held[c] EXCEPT !.bucket = b]
  <2>1. DOMAIN r = HeldFields /\ r.user = w /\ r.limit = held[c].limit /\ r.bucket = b
    BY <1>0, <1>1 DEF HeldFields
  <2>2. HeldStep(c, "open", r) /\ UNCHANGED split
    BY <1>0, <1>1, <1>2, <2>0 DEF LoadBucket, HeldStep, SpeedInv, SpeedShape, HeldFields
  <2> HIDE DEF r
  <2>3. SpeedShape'
    BY <1>0, <2>1, <2>2 DEF SpeedInv, SpeedShape, HeldStep, LimitOf
  <2>4. BucketsAreOwned'
    BY <1>0, <2>0, <2>1, <2>2 DEF SpeedInv, BucketsAreOwned, HeldStep
  <2>5. ASSUME NEW u \in Users
        PROVE  /\ Shared(u) => Shared(u)'
               /\ Fresh(u) => Fresh(u)'
               /\ Rated(u) => Rated(u)'
    <3>1. Shared(u) => Shared(u)'
      BY <1>0, <2>0, <2>1, <2>2 DEF Shared, HeldStep
    <3>2. Fresh(u) => Fresh(u)'
      BY <1>0, <2>2 DEF Fresh, BeingLimited, HeldStep, LimitOf
    <3>3. Rated(u) => Rated(u)'
      BY <1>0 DEF Rated, Settled, LimitOf
    <3> QED BY <3>1, <3>2, <3>3
  <2> QED BY <1>0, <2>2, <2>3, <2>4, <2>5 DEF SpeedInv
<1>3. CASE SpeedLimiter[w] = None
  <2>1. /\ HeldStep(c, "store", held[c]) /\ held' = held
        /\ split' = IF \/ upd.user = w /\ upd.at = "store"
                       \/ \E d \in Conns : stage[d] = "store" /\ held[d].user = w
                    THEN split \cup {w} ELSE split
    BY <1>1, <1>3 DEF LoadBucket, HeldStep, SpeedInv, SpeedShape
  <2>2. split \subseteq split'
    BY <2>1
  <2>3. SpeedShape'
    BY <1>0, <2>1 DEF SpeedInv, SpeedShape, HeldStep, LimitOf
  <2>4. BucketsAreOwned'
    BY <1>0, <2>1 DEF SpeedInv, BucketsAreOwned
  <2>5. ASSUME NEW u \in Users, u \notin split', Shared(u) PROVE Shared(u)'
    <3>1. CASE u = w
      <4>1. /\ ~(upd.user = w /\ upd.at = "store")
            /\ \A d \in Conns : ~(stage[d] = "store" /\ held[d].user = w)
        BY <2>1, <2>5, <3>1
      <4> QED BY <1>0, <1>3, <2>1, <2>5, <3>1, <4>1 DEF Shared, HeldStep
    <3>2. CASE u # w
      BY <1>0, <1>1, <2>1, <2>5, <3>2 DEF Shared, HeldStep
    <3> QED BY <3>1, <3>2
  <2>6. ASSUME NEW u \in Users
        PROVE  (Fresh(u) => Fresh(u)') /\ (Rated(u) => Rated(u)')
    <3>1. Fresh(u) => Fresh(u)'
      BY <1>0, <2>1 DEF Fresh, BeingLimited, HeldStep, LimitOf
    <3>2. Rated(u) => Rated(u)'
      BY <1>0 DEF Rated, Settled, LimitOf
    <3> QED BY <3>1, <3>2
  <2> QED BY <1>0, <2>2, <2>3, <2>4, <2>5, <2>6 DEF SpeedInv
<1> QED BY <1>2, <1>3

\* A fresh bucket is nobody's.
LEMMA NewBucketIsFree ==
    ASSUME SpeedInv, NEW w \in Users, NEW limit, NewBucket(w, limit)
    PROVE  \E b \in Buckets :
              /\ b # None /\ (\A u \in Users : SpeedLimiter[u] # b)
              /\ \A c \in Conns : held[c].bucket # b
              /\ DOMAIN rate' = Buckets /\ rate'[b] = limit
              /\ \A k \in Buckets : k # b => rate'[k] = rate[k]
              /\ DOMAIN SpeedLimiter' = Users /\ SpeedLimiter'[w] = b
              /\ \A u \in Users : u # w => SpeedLimiter'[u] = SpeedLimiter[u]
<1>1. PICK b \in Unused : /\ rate' = [rate EXCEPT ![b] = limit]
                          /\ SpeedLimiter' = [SpeedLimiter EXCEPT ![w] = b]
  BY DEF NewBucket
<1>2. b \in Buckets /\ b # None
  BY NoneIsNothing DEF Unused
<1>3. (\A u \in Users : SpeedLimiter[u] # b) /\ \A c \in Conns : held[c].bucket # b
  BY DEF Unused
<1> QED BY <1>1, <1>2, <1>3 DEF SpeedInv, SpeedShape

LEMMA StoreBucketKeeps ==
    ASSUME SpeedInv, NEW c \in Conns, StoreBucket(c)
    PROVE  SpeedInv'
<1>0. /\ stage[c] = "store" /\ held[c].bucket = None /\ DOMAIN held[c] = HeldFields
      /\ held[c].limit \in Nat /\ held[c].user \in Users
      /\ UNCHANGED <<info, upd, now, raced, split>>
  BY DEF StoreBucket, SpeedInv, SpeedShape, marks
<1>1. PICK w \in Users, limit \in Nat : w = held[c].user /\ limit = held[c].limit
  BY <1>0
<1>2. PICK b \in Buckets :
         /\ b # None /\ (\A u \in Users : SpeedLimiter[u] # b)
         /\ \A d \in Conns : held[d].bucket # b
         /\ DOMAIN rate' = Buckets /\ rate'[b] = limit
         /\ \A k \in Buckets : k # b => rate'[k] = rate[k]
         /\ DOMAIN SpeedLimiter' = Users /\ SpeedLimiter'[w] = b
         /\ \A u \in Users : u # w => SpeedLimiter'[u] = SpeedLimiter[u]
  BY <1>1, NewBucketIsFree DEF StoreBucket
<1> DEFINE r == [held[c] EXCEPT !.bucket = b]
<1>3. DOMAIN r = HeldFields /\ r.user = w /\ r.limit = limit /\ r.bucket = b
  BY <1>0, <1>1 DEF HeldFields
<1>4. HeldStep(c, "open", r)
  BY <1>0, <1>1, <1>2 DEF StoreBucket, HeldStep, SpeedInv, SpeedShape, HeldFields
<1> HIDE DEF r
<1>5. SpeedShape'
  BY <1>0, <1>2, <1>3, <1>4 DEF SpeedInv, SpeedShape, HeldStep, LimitOf
<1>6. BucketsAreOwned'
  BY <1>2, <1>3, <1>4 DEF SpeedInv, BucketsAreOwned, HeldStep
<1>7. ASSUME NEW u \in Users, Shared(u) PROVE Shared(u)'
  <2>1. CASE u = w
    BY <1>0, <1>1, <1>2, <1>3, <1>4, <1>7, <2>1 DEF Shared, HeldStep
  <2>2. CASE u # w
    BY <1>0, <1>1, <1>2, <1>3, <1>4, <1>7, <2>2 DEF Shared, HeldStep
  <2> QED BY <2>1, <2>2
<1>8. ASSUME NEW u \in Users, Fresh(u) PROVE Fresh(u)'
  <2>1. u = w => info[u] # None
    BY <1>0, <1>1, <1>8 DEF Fresh, BeingLimited
  <2> QED BY <1>0, <1>1, <1>2, <1>4, <1>8, <2>1 DEF Fresh, BeingLimited, HeldStep, LimitOf
<1>9. ASSUME NEW u \in Users, Fresh(u), Rated(u) PROVE Rated(u)'
  <2>1. CASE u = w
    BY <1>0, <1>1, <1>2, <1>9, <2>1 DEF Fresh, Rated, Settled, LimitOf
  <2>2. CASE u # w
    BY <1>0, <1>2, <1>9, <2>2 DEF Rated, Settled, LimitOf, SpeedInv, SpeedShape
  <2> QED BY <2>1, <2>2
<1> QED BY <1>0, <1>5, <1>6, <1>7, <1>8, <1>9 DEF SpeedInv

LEMMA UpdateUserStoreKeeps ==
    ASSUME SpeedInv, UpdateUserStore
    PROVE  SpeedInv'
<1>0. /\ upd.at = "store" /\ upd.user \in Users /\ info[upd.user] # None /\ upd.limit = LimitOf(upd.user)
      /\ upd' = NoUpd /\ UNCHANGED <<info, stage, held, now, raced, split>>
  BY DEF UpdateUserStore, SpeedInv, SpeedShape, marks
<1>1. PICK w \in Users : w = upd.user
  BY <1>0
<1>2. PICK limit \in Nat : limit = LimitOf(w)
  BY <1>0, <1>1, LimitIsNat DEF SpeedInv
<1>3. PICK b \in Buckets :
         /\ b # None /\ (\A u \in Users : SpeedLimiter[u] # b)
         /\ \A d \in Conns : held[d].bucket # b
         /\ DOMAIN rate' = Buckets /\ rate'[b] = limit
         /\ \A k \in Buckets : k # b => rate'[k] = rate[k]
         /\ DOMAIN SpeedLimiter' = Users /\ SpeedLimiter'[w] = b
         /\ \A u \in Users : u # w => SpeedLimiter'[u] = SpeedLimiter[u]
  BY <1>0, <1>1, <1>2, NewBucketIsFree DEF UpdateUserStore
<1>4. upd'.at = "idle" /\ DOMAIN upd' = {"user", "limit", "at"} /\ upd'.user = None
  BY <1>0 DEF NoUpd
<1>5. SpeedShape'
  BY <1>0, <1>3, <1>4 DEF SpeedInv, SpeedShape
<1>6. BucketsAreOwned'
  BY <1>0, <1>3 DEF SpeedInv, BucketsAreOwned
<1>7. ASSUME NEW u \in Users, Shared(u) PROVE Shared(u)'
  <2>1. CASE u = w
    BY <1>0, <1>1, <1>3, <1>4, <1>7, <2>1 DEF Shared
  <2>2. CASE u # w
    BY <1>0, <1>1, <1>3, <1>4, <1>7, <2>2 DEF Shared
  <2> QED BY <2>1, <2>2
<1>8. ASSUME NEW u \in Users, Fresh(u) PROVE Fresh(u)'
  BY <1>0, <1>1, <1>3, <1>8 DEF Fresh, BeingLimited, LimitOf
<1>9. ASSUME NEW u \in Users, Rated(u) PROVE Rated(u)'
  <2>1. CASE u = w
    BY <1>0, <1>2, <1>3, <2>1 DEF Rated, LimitOf
  <2>2. CASE u # w
    BY <1>0, <1>1, <1>3, <1>9, <2>2 DEF Rated, Settled, LimitOf, SpeedInv, SpeedShape
  <2> QED BY <2>1, <2>2
<1> QED BY <1>0, <1>5, <1>6, <1>7, <1>8, <1>9 DEF SpeedInv

-----------------------------------------------------------------------------
\* No update is under way when the next one begins.
LEMMA ChangeIsIdle ==
    ASSUME Change
    PROVE  upd = NoUpd /\ upd.at = "idle" /\ upd.user = None
BY DEF Change, NoUpd

LEMMA MarkMembers ==
    ASSUME NEW S, NEW w, NEW b
    PROVE  /\ \A u : u # w => (u \in Mark(S, w, b) <=> u \in S)
           /\ w \notin Mark(S, w, b) => ~b
BY DEF Mark

\* The user's bucket leaves the map: its holders, if any, are marked.
LEMMA DropShares ==
    ASSUME SpeedShape, NEW w \in Users, ~Holders(w), UNCHANGED held,
           stage' = stage, ~(upd'.at = "store" /\ upd'.user = w)
    PROVE  Shared(w)'
BY DEF Shared, Holders

LEMMA DeletedKeeps ==
    ASSUME SpeedInv, NEW w \in Users, SpeedUserDeleted(w)
    PROVE  SpeedInv'
<1>0. /\ upd = NoUpd /\ upd.at = "idle" /\ upd.user = None
      /\ info' = [info EXCEPT ![w] = None] /\ SpeedLimiter' = [SpeedLimiter EXCEPT ![w] = None]
      /\ raced' = Mark(raced, w, BeingLimited(w)) /\ split' = Mark(split, w, Holders(w))
      /\ UNCHANGED <<rate, stage, held, upd, now>>
  BY ChangeIsIdle DEF SpeedUserDeleted
<1>1. /\ info' \in [Users -> LimitInfo \cup {None}] /\ info'[w] = None
      /\ \A u \in Users : u # w => info'[u] = info[u]
      /\ DOMAIN SpeedLimiter' = Users /\ SpeedLimiter'[w] = None
      /\ \A u \in Users : u # w => SpeedLimiter'[u] = SpeedLimiter[u]
  BY <1>0 DEF SpeedInv, SpeedShape
<1>2. /\ \A u \in Users : u # w => (u \in raced' <=> u \in raced) /\ (u \in split' <=> u \in split)
      /\ w \notin raced' => ~BeingLimited(w)
      /\ w \notin split' => ~Holders(w)
  BY <1>0, MarkMembers
<1>3. SpeedShape'
  BY <1>0, <1>1 DEF SpeedInv, SpeedShape
<1>4. BucketsAreOwned'
  BY <1>0, <1>1 DEF SpeedInv, BucketsAreOwned
<1>5. /\ w \notin split' => Shared(w)'
      /\ w \notin raced' => Fresh(w)'
      /\ Rated(w)'
  <2>1. w \notin split' => Shared(w)'
    BY <1>0, <1>2, DropShares DEF SpeedInv
  <2>2. w \notin raced' => Fresh(w)'
    BY <1>0, <1>1, <1>2 DEF Fresh, BeingLimited
  <2>3. Rated(w)'
    BY <1>1 DEF Rated
  <2> QED BY <2>1, <2>2, <2>3
<1>6. ASSUME NEW u \in Users, u # w
      PROVE  /\ Shared(u) => Shared(u)'
             /\ Fresh(u) => Fresh(u)'
             /\ Rated(u) => Rated(u)'
  <2>1. Shared(u) => Shared(u)'
    BY <1>0, <1>1, <1>6 DEF Shared
  <2>2. Fresh(u) => Fresh(u)'
    BY <1>0, <1>1, <1>6 DEF Fresh, BeingLimited, LimitOf
  <2>3. Rated(u) => Rated(u)'
    BY <1>0, <1>1, <1>6 DEF Rated, Settled, LimitOf
  <2> QED BY <2>1, <2>2, <2>3
<1> QED BY <1>2, <1>3, <1>4, <1>5, <1>6 DEF SpeedInv

LEMMA AddedKeeps ==
    ASSUME SpeedInv, NEW w \in Users, NEW s \in Speeds, SpeedUserAdded(w, s)
    PROVE  SpeedInv'
<1> DEFINE i == [speed |-> s, dyn |-> 0, expire |-> 0]
<1>0. /\ upd.at = "idle" /\ upd.user = None /\ info[w] = None
      /\ info' = [info EXCEPT ![w] = i]
      /\ UNCHANGED <<SpeedLimiter, rate, stage, held, upd, now, raced, split>>
  BY ChangeIsIdle DEF SpeedUserAdded, marks
<1>1. i \in LimitInfo
  <2>1. 0 \in 0 .. MaxTime + LimitDuration
    BY SpeedAssumption
  <2> QED BY <2>1 DEF LimitInfo
<1> HIDE DEF i
<1>2. /\ info' \in [Users -> LimitInfo \cup {None}] /\ info'[w] # None
      /\ \A u \in Users : u # w => info'[u] = info[u]
  BY <1>0, <1>1, InfoFields DEF SpeedInv, SpeedShape
<1>3. SpeedShape'
  BY <1>0, <1>2 DEF SpeedInv, SpeedShape
<1>4. BucketsAreOwned'
  BY <1>0 DEF SpeedInv, BucketsAreOwned
<1>5. ASSUME NEW u \in Users PROVE Shared(u) => Shared(u)'
  BY <1>0 DEF Shared
<1>6. Fresh(w) => Fresh(w)' /\ Rated(w)'
  BY <1>0, <1>2 DEF Fresh, BeingLimited, Rated
<1>7. ASSUME NEW u \in Users, u # w
      PROVE  (Fresh(u) => Fresh(u)') /\ (Rated(u) => Rated(u)')
  <2>1. Fresh(u) => Fresh(u)'
    BY <1>0, <1>2, <1>7 DEF Fresh, BeingLimited, LimitOf
  <2>2. Rated(u) => Rated(u)'
    BY <1>0, <1>2, <1>7 DEF Rated, Settled, LimitOf
  <2> QED BY <2>1, <2>2
<1> QED BY <1>0, <1>3, <1>4, <1>5, <1>6, <1>7 DEF SpeedInv

LEMMA ModifiedKeeps ==
    ASSUME SpeedInv, NEW w \in Users, NEW s \in Speeds, SpeedUserModified(w, s)
    PROVE  SpeedInv'
<1> DEFINE i == [info[w] EXCEPT !.speed = s]
<1>0. /\ upd.at = "idle" /\ upd.user = None /\ info[w] # None
      /\ info' = [info EXCEPT ![w].speed = s]
      /\ upd' = [user |-> w, limit |-> determineSpeedLimit(NodeLimit, s), at |-> "load"]
      /\ raced' = Mark(raced, w, BeingLimited(w))
      /\ UNCHANGED <<SpeedLimiter, rate, stage, held, now, split>>
  BY ChangeIsIdle DEF SpeedUserModified
<1>1. info[w] \in LimitInfo /\ info \in [Users -> LimitInfo \cup {None}]
  BY <1>0 DEF SpeedInv, SpeedShape
<1>2. i \in LimitInfo /\ i.speed = s
  BY <1>1, InfoFields DEF LimitInfo
<1>3. info' = [info EXCEPT ![w] = i]
  BY <1>0, <1>1, InfoFields
<1> HIDE DEF i
<1>4. /\ info' \in [Users -> LimitInfo \cup {None}] /\ info'[w] = i /\ i # None
      /\ \A u \in Users : u # w => info'[u] = info[u]
  BY <1>0, <1>2, <1>3, InfoUpdated DEF SpeedInv
<1>5. LimitOf(w)' = determineSpeedLimit(NodeLimit, s)
  BY <1>2, <1>4 DEF LimitOf
<1>6. /\ DOMAIN upd' = {"user", "limit", "at"} /\ upd'.at = "load" /\ upd'.user = w
      /\ upd'.limit = LimitOf(w)'
  BY <1>0, <1>5
<1>7. /\ \A u \in Users : u # w => (u \in raced' <=> u \in raced)
      /\ w \notin raced' => ~BeingLimited(w)
  BY <1>0, MarkMembers
<1>8. SpeedShape'
  <2>1. upd'.at # "idle" => /\ upd'.user \in Users /\ info'[upd'.user] # None
                            /\ upd'.limit = LimitOf(upd.user)'
    BY <1>2, <1>4, <1>6 DEF LimitOf
  <2> QED BY <1>0, <1>4, <1>6, <2>1 DEF SpeedInv, SpeedShape
<1>9. BucketsAreOwned'
  BY <1>0 DEF SpeedInv, BucketsAreOwned
<1>a. ASSUME NEW u \in Users PROVE Shared(u) => Shared(u)'
  BY <1>0, <1>6 DEF Shared
<1>b. (w \notin raced' => Fresh(w)') /\ Rated(w)'
  BY <1>0, <1>4, <1>6, <1>7 DEF Fresh, BeingLimited, Rated, Settled
<1>c. ASSUME NEW u \in Users, u # w
      PROVE  (Fresh(u) => Fresh(u)') /\ (Rated(u) => Rated(u)')
  <2>1. Fresh(u) => Fresh(u)'
    BY <1>0, <1>4, <1>c DEF Fresh, BeingLimited, LimitOf
  <2>2. Rated(u) => Rated(u)'
    BY <1>0, <1>4, <1>6, <1>c, NoneIsNothing DEF Rated, Settled, LimitOf
  <2> QED BY <2>1, <2>2
<1> QED BY <1>0, <1>7, <1>8, <1>9, <1>a, <1>b, <1>c DEF SpeedInv

LEMMA UpdateUserBucketKeeps ==
    ASSUME SpeedInv, UpdateUserBucket
    PROVE  SpeedInv'
<1>0. /\ upd.at = "load" /\ upd.user \in Users /\ info[upd.user] # None /\ upd.limit = LimitOf(upd.user)
      /\ DOMAIN upd = {"user", "limit", "at"}
      /\ UNCHANGED <<info, stage, held, now, raced>>
  BY DEF UpdateUserBucket, SpeedInv, SpeedShape
<1>1. PICK w \in Users : w = upd.user
  BY <1>0
<1>2. LimitOf(w) \in Nat /\ SpeedLimiter[w] \in Buckets \cup {None}
  BY <1>0, <1>1, LimitIsNat DEF SpeedInv, SpeedShape
<1>3. ASSUME NEW u \in Users PROVE LimitOf(u)' = LimitOf(u)
  BY <1>0 DEF LimitOf
<1>4. ASSUME upd' = NoUpd
      PROVE  upd'.at = "idle" /\ DOMAIN upd' = {"user", "limit", "at"} /\ upd'.user = None
  BY <1>4 DEF NoUpd
<1>5. CASE /\ upd.limit = 0 /\ SpeedLimiter' = [SpeedLimiter EXCEPT ![w] = None]
           /\ split' = Mark(split, w, Holders(w)) /\ upd' = NoUpd /\ UNCHANGED rate
  <2>1. /\ DOMAIN SpeedLimiter' = Users /\ SpeedLimiter'[w] = None
        /\ \A u \in Users : u # w => SpeedLimiter'[u] = SpeedLimiter[u]
    BY <1>5 DEF SpeedInv, SpeedShape
  <2>2. /\ \A u \in Users : u # w => (u \in split' <=> u \in split)
        /\ w \notin split' => ~Holders(w)
    BY <1>5, MarkMembers
  <2>3. SpeedShape'
    BY <1>0, <1>4, <1>5, <2>1 DEF SpeedInv, SpeedShape
  <2>4. BucketsAreOwned'
    BY <1>0, <2>1 DEF SpeedInv, BucketsAreOwned
  <2>5. w \notin split' => Shared(w)'
    BY <1>0, <1>4, <1>5, <2>2, DropShares DEF SpeedInv
  <2>6. ASSUME NEW u \in Users PROVE Fresh(u) => Fresh(u)'
    BY <1>0, <1>1, <1>3, <2>1 DEF Fresh, BeingLimited
  <2>7. Rated(w)'
    BY <2>1 DEF Rated
  <2>8. ASSUME NEW u \in Users, u # w PROVE (Shared(u) => Shared(u)') /\ (Rated(u) => Rated(u)')
    <3>1. Shared(u) => Shared(u)'
      BY <1>0, <1>4, <1>5, <2>1, <2>8 DEF Shared
    <3>2. Rated(u) => Rated(u)'
      BY <1>0, <1>1, <1>3, <1>4, <1>5, <2>1, <2>8 DEF Rated, Settled
    <3> QED BY <3>1, <3>2
  <2> QED BY <1>0, <2>2, <2>3, <2>4, <2>5, <2>6, <2>7, <2>8 DEF SpeedInv
<1>6. CASE /\ upd.limit > 0 /\ SpeedLimiter[w] # None
           /\ rate' = [rate EXCEPT ![SpeedLimiter[w]] = upd.limit]
           /\ upd' = NoUpd /\ UNCHANGED <<SpeedLimiter, split>>
  <2>1. /\ DOMAIN rate' = Buckets /\ rate'[SpeedLimiter[w]] = LimitOf(w)
        /\ \A k \in Buckets : k # SpeedLimiter[w] => rate'[k] = rate[k]
    BY <1>0, <1>1, <1>2, <1>6 DEF SpeedInv, SpeedShape
  <2>2. SpeedShape'
    BY <1>0, <1>4, <1>6, <2>1 DEF SpeedInv, SpeedShape
  <2>3. BucketsAreOwned'
    BY <1>0, <1>6 DEF SpeedInv, BucketsAreOwned
  <2>4. ASSUME NEW u \in Users PROVE (Shared(u) => Shared(u)') /\ (Fresh(u) => Fresh(u)')
    <3>1. Shared(u) => Shared(u)'
      BY <1>0, <1>4, <1>6 DEF Shared
    <3>2. Fresh(u) => Fresh(u)'
      BY <1>0, <1>3, <1>6 DEF Fresh, BeingLimited
    <3> QED BY <3>1, <3>2
  <2>5. ASSUME NEW u \in Users, Rated(u) PROVE Rated(u)'
    <3>1. CASE u = w
      BY <1>2, <1>3, <1>6, <2>1, <3>1 DEF Rated
    <3>2. CASE u # w
      <4>1. SpeedLimiter[u] # None => SpeedLimiter[u] \in Buckets /\ SpeedLimiter[u] # SpeedLimiter[w]
        BY <3>2 DEF SpeedInv, SpeedShape, BucketsAreOwned
      <4> QED BY <1>0, <1>1, <1>3, <1>6, <2>1, <2>5, <3>2, <4>1 DEF Rated, Settled
    <3> QED BY <3>1, <3>2
  <2> QED BY <1>0, <1>6, <2>2, <2>3, <2>4, <2>5 DEF SpeedInv
<1>7. CASE /\ upd.limit > 0 /\ SpeedLimiter[w] = None /\ upd' = [upd EXCEPT !.at = "store"]
           /\ split' = split \cup {v \in {w} : BeingLimited(v)}
           /\ UNCHANGED <<SpeedLimiter, rate>>
  <2>1. /\ DOMAIN upd' = {"user", "limit", "at"} /\ upd'.at = "store" /\ upd'.user = w
        /\ upd'.limit = upd.limit
    BY <1>0, <1>1, <1>7
  <2>2. split \subseteq split' /\ (w \notin split' => ~BeingLimited(w))
    BY <1>7
  <2>3. SpeedShape'
    <3>1. upd'.at # "idle" => /\ upd'.user \in Users /\ info'[upd'.user] # None
                              /\ upd'.limit = LimitOf(upd.user)'
      BY <1>0, <1>1, <2>1 DEF LimitOf
    <3> QED BY <1>0, <1>7, <2>1, <3>1 DEF SpeedInv, SpeedShape
  <2>4. BucketsAreOwned'
    BY <1>0, <1>7 DEF SpeedInv, BucketsAreOwned
  <2>5. ASSUME NEW u \in Users, u \notin split', Shared(u) PROVE Shared(u)'
    <3>1. CASE u = w
      BY <1>0, <1>7, <2>1, <2>2, <2>5, <3>1 DEF Shared, BeingLimited
    <3>2. CASE u # w
      BY <1>0, <1>7, <2>1, <2>5, <3>2 DEF Shared
    <3> QED BY <3>1, <3>2
  <2>6. ASSUME NEW u \in Users PROVE (Fresh(u) => Fresh(u)') /\ (Rated(u) => Rated(u)')
    <3>1. Fresh(u) => Fresh(u)'
      BY <1>0, <1>3, <1>7 DEF Fresh, BeingLimited
    <3>2. Rated(u) => Rated(u)'
      BY <1>0, <1>1, <1>3, <1>7, <2>1 DEF Rated, Settled
    <3> QED BY <3>1, <3>2
  <2> QED BY <1>0, <2>2, <2>3, <2>4, <2>5, <2>6 DEF SpeedInv
<1> QED BY <1>1, <1>5, <1>6, <1>7 DEF UpdateUserBucket

LEMMA SpeedStep == SpeedInv /\ [SpeedNext]_speedVars => SpeedInv'
<1> SUFFICES ASSUME SpeedInv, [SpeedNext]_speedVars PROVE SpeedInv'
  OBVIOUS
<1>1. ASSUME NEW c \in Conns, NEW u \in Users, CheckSpeed(c, u) PROVE SpeedInv'
  BY <1>1, CheckSpeedKeeps
<1>2. ASSUME NEW c \in Conns, LoadBucket(c) \/ StoreBucket(c) \/ Release(c) PROVE SpeedInv'
  BY <1>2, LoadBucketKeeps, StoreBucketKeeps, ReleaseKeeps
<1>3. ASSUME NEW u \in Users, SpeedUserDeleted(u) PROVE SpeedInv'
  BY <1>3, DeletedKeeps
<1>4. ASSUME NEW u \in Users, NEW s \in Speeds, SpeedUserAdded(u, s) PROVE SpeedInv'
  BY <1>4, AddedKeeps
<1>5. ASSUME NEW u \in Users, NEW s \in Speeds, SpeedUserModified(u, s) PROVE SpeedInv'
  BY <1>5, ModifiedKeeps
<1>6. ASSUME NEW high, NEW low, applyAutoSpeedLimit(high, low) PROVE SpeedInv'
  BY <1>6, AutoKeeps
<1>7. CASE UpdateUserBucket \/ UpdateUserStore
  BY <1>7, UpdateUserBucketKeeps, UpdateUserStoreKeeps
<1>8. CASE Tick \/ UNCHANGED speedVars
  BY <1>8, TickKeeps
<1> QED BY <1>1, <1>2, <1>3, <1>4, <1>5, <1>6, <1>7, <1>8 DEF SpeedNext

\* A limited connection whose bucket is the one UpdateUser reaches is never faster than
\* the limits of now, for any number of users, connections and changes.
THEOREM ConnectionsAreLimited == SpeedSpec => []HeldWithinLimit
<1>1. SpeedInv => HeldWithinLimit
  <2> SUFFICES ASSUME SpeedInv, NEW c \in Conns, stage[c] = "open", held[c].bucket # None,
                      Settled(held[c].user), held[c].user \notin raced \cup split,
                      LimitOf(held[c].user) > 0
               PROVE  rate[held[c].bucket] <= LimitOf(held[c].user)
    BY DEF HeldWithinLimit, LimitOf
  <2>1. held[c].user \in Users
    BY DEF SpeedInv, SpeedShape
  <2>2. Shared(held[c].user) /\ Rated(held[c].user)
    BY <2>1 DEF SpeedInv
  <2>3. held[c].bucket = SpeedLimiter[held[c].user]
    BY <2>2 DEF Shared
  <2> QED BY <2>2, <2>3 DEF Rated
<1> QED BY <1>1, SpeedStart, SpeedStep, PTL DEF SpeedSpec
=============================================================================
