---------------------------- MODULE Cert_proofs ----------------------------
(***************************************************************************)
(* certMu and the process-wide DNS credentials, the pair of files on disk  *)
(* and what a node serves, for any number of nodes, deployments, crashes   *)
(* and renewals.                                                           *)
(***************************************************************************)
EXTENDS Cert, TLAPS

Start(n) == <<"start", n>>

\* Controllers and issues are records; what their fields hold is left open.
Shape ==
    /\ DOMAIN node = TlsNodes /\ \A n \in TlsNodes : "at" \in DOMAIN node[n]
    /\ DOMAIN lego = Goroutines
    /\ \A g \in Goroutines : {"at", "mode", "set", "creds"} \subseteq DOMAIN lego[g]

\* certMu is held by the one controller that is between Lock and the end of requestCert,
\* and only that one issues a certificate.
OneIssuer ==
    \A n \in TlsNodes :
        /\ node[n].at \in {"request", "issue"} => certMu = n
        /\ lego[Start(n)].at # "out" <=> node[n].at = "issue"

\* What an issue has set in the environment keeps the value of the node that holds certMu
\* until the provider is made from it, unless a renewal came between.
OwnEnvironment ==
    \A n \in TlsNodes :
        /\ lego[Start(n)].at \in {"account", "save", "setenv"} => lego[Start(n)].mode = "dns"
        /\ lego[Start(n)].at \in {"account", "save"} => lego[Start(n)].set = {}
        /\ lego[Start(n)].at = "setenv" => crossed \/ \A k \in lego[Start(n)].set \cap DnsKeys : dnsEnv[k] = n
        /\ lego[Start(n)].at # "check"

IssueInv == Shape /\ OneIssuer /\ OwnEnvironment /\ IssuedWithOwnCredentials

-----------------------------------------------------------------------------
\* An issue or a renewal goes on, or ends; the end of an issue unlocks certMu.
Kept(g) == Shape' /\ \A h \in Goroutines \ {g} : lego'[h] = lego[h]
GoesOn(g) == Kept(g) /\ lego'[g].at # "out" /\ UNCHANGED <<certMu, node>>
Ends(g) ==
    /\ Kept(g) /\ lego'[g].at = "out"
    /\ g[1] = "renew" => UNCHANGED <<certMu, node>>
    /\ g[1] # "renew" => /\ certMu' = Nobody /\ node'[g[2]].at \in {"add", "failed"}
                         /\ \A m \in TlsNodes \ {g[2]} : node'[m] = node[m]

\* What setting a field of a controller leaves alone.
LEMMA NodeAt ==
    ASSUME Shape, NEW n \in TlsNodes, NEW a, node' = [node EXCEPT ![n].at = a], UNCHANGED lego
    PROVE  Shape' /\ node'[n].at = a /\ \A m \in TlsNodes \ {n} : node'[m] = node[m]
  BY DEF Shape

LEMMA StepGoesOn ==
    ASSUME Shape, NEW g \in Goroutines, NEW a, a # "out", Step(g, a)
    PROVE  /\ GoesOn(g) /\ lego'[g].at = a
           /\ lego'[g].mode = lego[g].mode /\ lego'[g].set = lego[g].set
           /\ lego'[g].creds = lego[g].creds
  BY DEF Shape, Step, GoesOn, Kept

LEMMA ReturnsEnds ==
    ASSUME Shape, NEW g \in Goroutines
    PROVE  (Returns(g, TRUE) => Ends(g)) /\ (Returns(g, FALSE) => Ends(g))
<1>1. ASSUME NEW ok \in BOOLEAN, Returns(g, ok) PROVE Ends(g)
  <2>1. /\ lego'[g].at = "out" /\ DOMAIN lego' = Goroutines
        /\ \A h \in Goroutines \ {g} : lego'[h] = lego[h]
        /\ {"at", "mode", "set", "creds"} \subseteq DOMAIN lego'[g]
    BY <1>1 DEF Shape, Returns, NoLego
  <2>2. CASE g[1] = "renew"
    BY <1>1, <2>1, <2>2 DEF Shape, Returns, Ends, Kept
  <2>3. CASE g[1] # "renew"
    <3>1. g[2] \in TlsNodes
      BY DEF Goroutines
    <3>2. PICK a \in {"add", "failed"} : node' = [node EXCEPT ![g[2]].at = a]
      BY <1>1, <2>3 DEF Returns
    <3>3. certMu' = Nobody
      BY <1>1, <2>3 DEF Returns
    <3>4. QED
      BY <2>1, <2>3, <3>1, <3>2, <3>3 DEF Shape, Ends, Kept
  <2>4. QED
    BY <2>2, <2>3
<1>2. QED
  BY <1>1

LEMMA Fresh ==
    /\ Stopped.at = "down" /\ "at" \in DOMAIN Stopped
    /\ NoLego.at = "out" /\ NoLego.set = {} /\ {"at", "mode", "set", "creds"} \subseteq DOMAIN NoLego
<1>1. Stopped.at = "down"
  BY Zenon DEF Stopped
<1>2. DOMAIN Stopped = {"info", "at", "serves", "renewing", "rotated", "rebuilt"}
  BY Zenon DEF Stopped
<1>3. NoLego.at = "out" /\ NoLego.set = {} /\ {"at", "mode", "set", "creds"} \subseteq DOMAIN NoLego
  BY DEF NoLego
<1>4. QED
  BY <1>1, <1>2, <1>3

\* The environment has the provider's variables, set or not.
EnvShape == DOMAIN dnsEnv = DnsKeys

LEMMA EnvInductive == CertSpec => []EnvShape
<1>1. EnvShape /\ [CertNext]_certVars => EnvShape'
  <2> SUFFICES ASSUME EnvShape, [CertNext]_certVars PROVE EnvShape'
    OBVIOUS
  <2>1. ASSUME NEW g, SetProviderEnv(g) PROVE EnvShape'
    BY <2>1 DEF SetProviderEnv, EnvShape
  <2>2. CASE Crash
    BY <2>2 DEF Crash, EnvShape
  <2>3. ASSUME NEW g, LegoStep(g), ~SetProviderEnv(g) PROVE UNCHANGED dnsEnv
    BY <2>3 DEF LegoStep, NewLegoUser, Save, SetProvider, CheckCert, Obtain, OpenCert, writeCert,
                OpenKey, writeKey
  <2>4. ASSUME NEW n \in TlsNodes, CertStart(n) \/ LockCertMu(n) \/ requestCert(n) \/ CertAddNode(n)
                                   \/ CertMonitor(n) \/ renewCertTask(n) \/ PanelRotates(n)
                                   \/ PanelMovesPort(n) \/ CertAges(n)
        PROVE  UNCHANGED dnsEnv
    BY <2>4 DEF CertStart, LockCertMu, requestCert, CertAddNode, CertMonitor, renewCertTask,
                PanelRotates, PanelMovesPort, CertAges
  <2>5. CASE CertReload \/ UNCHANGED certVars
    BY <2>5 DEF CertReload, certVars, EnvShape
  <2>6. QED
    BY <2>1, <2>2, <2>3, <2>4, <2>5 DEF CertNext, StartStep, EnvShape
<1>2. QED
  <2>1. CertInit => EnvShape
    BY DEF CertInit, EnvShape
  <2>2. QED
    BY <1>1, <2>1, PTL DEF CertSpec

LEMMA IssueInit == CertInit => IssueInv
<1> SUFFICES ASSUME CertInit PROVE IssueInv
  OBVIOUS
<1>1. /\ \A n \in TlsNodes : node[n] = Stopped
      /\ \A g \in Goroutines : lego[g] = NoLego
      /\ DOMAIN node = TlsNodes /\ DOMAIN lego = Goroutines
  BY DEF CertInit
<1>2. \A n \in TlsNodes : Start(n) \in Goroutines
  BY DEF Start, Goroutines
<1>3. Shape
  BY <1>1, Fresh DEF Shape
<1>4. \A n \in TlsNodes : node[n].at = "down" /\ lego[Start(n)].at = "out"
  BY <1>1, <1>2, Fresh
<1>5. QED
  BY <1>3, <1>4 DEF IssueInv, OneIssuer, OwnEnvironment, IssuedWithOwnCredentials, Start

LEMMA LegoMoves ==
    ASSUME Shape, NEW g \in Goroutines, LegoStep(g)
    PROVE  lego[g].at # "out" /\ (GoesOn(g) \/ Ends(g))
<1> USE StepGoesOn, ReturnsEnds
<1>1. CASE NewLegoUser(g)
  BY <1>1 DEF NewLegoUser
<1>2. CASE Save(g)
  BY <1>2 DEF Save
<1>3. CASE SetProviderEnv(g)
  BY <1>3 DEF SetProviderEnv, Shape, GoesOn, Kept
<1>4. CASE SetProvider(g)
  BY <1>4 DEF SetProvider, Shape, GoesOn, Kept
<1>5. CASE CheckCert(g)
  BY <1>5 DEF CheckCert
<1>6. CASE Obtain(g)
  <2>1. CASE lego' = [lego EXCEPT ![g].at = "cert", ![g].held = Own(issued + 1)] /\ UNCHANGED <<certMu, node>>
    BY <1>6, <2>1 DEF Obtain, Shape, GoesOn, Kept
  <2>2. CASE Returns(g, FALSE)
    BY <1>6, <2>2 DEF Obtain
  <2>3. QED
    BY <1>6, <2>1, <2>2 DEF Obtain
<1>7. CASE OpenCert(g) \/ writeCert(g)
  BY <1>7 DEF OpenCert, writeCert, EndsTorn
<1>8. CASE OpenKey(g) \/ writeKey(g)
  BY <1>8 DEF OpenKey, writeKey, EndsTorn
<1>9. QED
  BY <1>1, <1>2, <1>3, <1>4, <1>5, <1>6, <1>7, <1>8 DEF LegoStep

\* How the credentials come to an issue: mode dns goes from account to setenv, Setenv puts
\* them into the environment one by one, SetProvider takes them from there.
Credentials(g) ==
    /\ lego'[g].at # "account"
    /\ lego'[g].at \in {"save", "setenv"} =>
          lego'[g].mode = lego[g].mode /\ lego[g].at \in {"account", "save", "setenv"}
    /\ lego'[g].at = "save" => lego[g].at = "account" /\ lego'[g].set = lego[g].set
    /\ lego'[g].at = "setenv" =>
          \/ lego[g].at \in {"account", "save"} /\ lego'[g].set = lego[g].set
          \/ /\ lego[g].at = "setenv"
             /\ \A k \in lego'[g].set \cap DnsKeys :
                   dnsEnv'[k] = g[2] \/ (k \in lego[g].set /\ dnsEnv'[k] = dnsEnv[k])
    /\ lego'[g].at = "obtain" /\ g[1] = "start" =>
          \/ lego[g].at = "check"
          \/ /\ lego[g].at = "setenv" /\ (lego[g].mode = "dns" => lego[g].set = DnsKeys)
             /\ lego'[g].creds = {dnsEnv[k] : k \in lego[g].set}
    /\ lego'[g].at = "check" => g[1] = "renew"

LEMMA LegoCredentials ==
    ASSUME Shape, EnvShape, NEW g \in Goroutines, LegoStep(g)
    PROVE  Credentials(g)
<1>0. (Returns(g, TRUE) \/ Returns(g, FALSE)) => Credentials(g)
  BY ReturnsEnds DEF Credentials, Ends
<1>1. CASE NewLegoUser(g)
  <2>1. \/ lego[g].at = "account" /\ (Step(g, "setenv") \/ Step(g, "save"))
        \/ Returns(g, FALSE)
    BY <1>1 DEF NewLegoUser
  <2>2. ASSUME NEW a \in {"setenv", "save"}, lego[g].at = "account", Step(g, a) PROVE Credentials(g)
    BY <2>2, StepGoesOn DEF Credentials
  <2>3. QED
    BY <1>0, <2>1, <2>2
<1>2. CASE Save(g)
  <2>1. CASE Step(g, "setenv")
    BY <1>2, <2>1, StepGoesOn DEF Save, Credentials
  <2>2. QED
    BY <1>0, <1>2, <2>1 DEF Save
<1>3. CASE SetProviderEnv(g)
  <2>1. PICK k \in DnsKeys : /\ dnsEnv' = [dnsEnv EXCEPT ![k] = g[2]]
                             /\ lego' = [lego EXCEPT ![g].set = @ \cup {k}]
    BY <1>3 DEF SetProviderEnv
  <2>2. /\ lego'[g].at = lego[g].at /\ lego'[g].mode = lego[g].mode
        /\ lego'[g].set = lego[g].set \cup {k} /\ lego[g].at = "setenv"
    BY <1>3, <2>1 DEF SetProviderEnv, Shape
  <2>3. dnsEnv'[k] = g[2] /\ \A j \in DnsKeys \ {k} : dnsEnv'[j] = dnsEnv[j]
    BY <2>1 DEF EnvShape
  <2>4. QED
    BY <2>2, <2>3 DEF Credentials
<1>4. CASE SetProvider(g)
  BY <1>4 DEF SetProvider, Shape, Credentials
<1>5. CASE CheckCert(g)
  <2>1. lego[g].at = "check" /\ (Step(g, "obtain") \/ Returns(g, FALSE))
    BY <1>5 DEF CheckCert
  <2>2. CASE Step(g, "obtain")
    BY <2>1, <2>2, StepGoesOn DEF Credentials
  <2>3. QED
    BY <1>0, <2>1, <2>2
<1>6. CASE Obtain(g)
  <2>1. CASE lego' = [lego EXCEPT ![g].at = "cert", ![g].held = Own(issued + 1)]
    BY <1>6, <2>1 DEF Obtain, Shape, Credentials
  <2>2. CASE Returns(g, FALSE)
    BY <1>0, <2>2
  <2>3. QED
    BY <1>6, <2>1, <2>2 DEF Obtain
<1>7. CASE OpenCert(g) \/ writeCert(g) \/ OpenKey(g) \/ writeKey(g)
  <2>1. ASSUME NEW a \in {"certcut", "key", "keycut"}, Step(g, a) PROVE Credentials(g)
    BY <2>1, StepGoesOn DEF Credentials
  <2>2. QED
    BY <1>0, <1>7, <2>1 DEF OpenCert, writeCert, OpenKey, writeKey, EndsTorn
<1>8. QED
  BY <1>1, <1>2, <1>3, <1>4, <1>5, <1>6, <1>7 DEF LegoStep

\* A step that changes the environment while somebody holds certMu is one of the holder's
\* own issue, or of a renewal, and is then noted.
LEMMA LegoEnvironment ==
    ASSUME NEW g \in Goroutines, LegoStep(g)
    PROVE  /\ crossed => crossed'
           /\ g[1] = "renew" /\ certMu # Nobody => UNCHANGED dnsEnv \/ crossed'
<1>1. CASE SetProviderEnv(g)
  BY <1>1, Zenon DEF SetProviderEnv
<1>2. CASE ~SetProviderEnv(g)
  <2>1. UNCHANGED <<dnsEnv, crossed>>
    BY <1>2 DEF LegoStep, NewLegoUser, Save, SetProvider, CheckCert, Obtain, OpenCert, writeCert,
                OpenKey, writeKey
  <2>2. QED
    BY <2>1
<1>3. QED
  BY <1>1, <1>2

-----------------------------------------------------------------------------
\* A renewal disturbs an issue only through the environment.
LEMMA IssueRenewal ==
    ASSUME IssueInv, NEW m \in TlsNodes, LegoStep(<<"renew", m>>)
    PROVE  IssueInv'
<1> DEFINE g == <<"renew", m>>
<1>1. g \in Goroutines /\ g[1] = "renew" /\ \A n \in TlsNodes : Start(n) \in Goroutines \ {g}
  BY DEF Goroutines, Start
<1>2. /\ Shape' /\ UNCHANGED <<certMu, node>>
      /\ \A n \in TlsNodes : lego'[Start(n)] = lego[Start(n)]
  <2>1. GoesOn(g) \/ Ends(g)
    BY <1>1, LegoMoves DEF IssueInv
  <2>2. QED
    BY <1>1, <2>1 DEF GoesOn, Ends, Kept
<1>3. ASSUME NEW n \in TlsNodes, lego[Start(n)].at = "setenv"
      PROVE  crossed' \/ \A k \in lego[Start(n)].set \cap DnsKeys : dnsEnv'[k] = n
  <2>1. certMu # Nobody
    BY <1>3, CertAssumption DEF IssueInv, OneIssuer
  <2>2. (crossed => crossed') /\ (UNCHANGED dnsEnv \/ crossed')
    BY <1>1, <2>1, LegoEnvironment
  <2>3. crossed \/ \A k \in lego[Start(n)].set \cap DnsKeys : dnsEnv[k] = n
    BY <1>3 DEF IssueInv, OwnEnvironment
  <2>4. QED
    BY <2>2, <2>3
<1>4. crossed => crossed'
  BY <1>1, LegoEnvironment
<1>5. OneIssuer'
  BY <1>2 DEF IssueInv, OneIssuer
<1>6. OwnEnvironment'
  BY <1>2, <1>3 DEF IssueInv, OwnEnvironment
<1>7. IssuedWithOwnCredentials'
  BY <1>2, <1>4 DEF IssueInv, IssuedWithOwnCredentials, Start
<1>8. QED
  BY <1>2, <1>5, <1>6, <1>7 DEF IssueInv

\* An issue is its node's alone: certMu keeps every other one out.
LEMMA IssueStart ==
    ASSUME IssueInv, EnvShape, NEW m \in TlsNodes, LegoStep(<<"start", m>>)
    PROVE  IssueInv'
<1> DEFINE g == Start(m)
<1>1. /\ g \in Goroutines /\ g[1] = "start" /\ g[2] = m /\ LegoStep(g)
      /\ \A n \in TlsNodes \ {m} : Start(n) \in Goroutines \ {g}
  BY DEF Goroutines, Start
<1>2. lego[g].at # "out" /\ (GoesOn(g) \/ Ends(g)) /\ Credentials(g)
  BY <1>1, LegoMoves, LegoCredentials DEF IssueInv
<1>3. node[m].at = "issue" /\ certMu = m
  BY <1>1, <1>2 DEF IssueInv, OneIssuer
<1>4. \A n \in TlsNodes \ {m} : /\ node[n].at \notin {"request", "issue"} /\ lego[Start(n)].at = "out"
                                /\ node'[n] = node[n] /\ lego'[Start(n)] = lego[Start(n)]
  BY <1>1, <1>2, <1>3 DEF IssueInv, OneIssuer, GoesOn, Ends, Kept
<1>5. Shape'
  BY <1>2 DEF GoesOn, Ends, Kept
<1>6. \/ lego'[g].at # "out" /\ node'[m].at = "issue" /\ certMu' = m
      \/ lego'[g].at = "out" /\ node'[m].at \in {"add", "failed"}
  BY <1>1, <1>2, <1>3 DEF GoesOn, Ends
<1>7. OneIssuer'
  BY <1>4, <1>6 DEF OneIssuer
<1>8. OwnEnvironment'
  <2>1. crossed => crossed'
    BY <1>1, LegoEnvironment
  <2>2. /\ lego'[g].at \in {"account", "save", "setenv"} => lego'[g].mode = "dns"
        /\ lego'[g].at \in {"account", "save"} => lego'[g].set = {}
        /\ lego'[g].at # "check"
    BY <1>1, <1>2 DEF IssueInv, OwnEnvironment, Credentials
  <2>3. lego'[g].at = "setenv" => crossed' \/ \A k \in lego'[g].set \cap DnsKeys : dnsEnv'[k] = m
    BY <1>1, <1>2, <2>1 DEF IssueInv, OwnEnvironment, Credentials
  <2>4. QED
    BY <1>4, <2>2, <2>3 DEF OwnEnvironment
<1>9. IssuedWithOwnCredentials'
  <2>1. ASSUME lego'[g].at = "obtain" PROVE lego'[g].creds = {m} \/ crossed
    <3>1. /\ lego[g].at = "setenv" /\ lego[g].set = DnsKeys
          /\ lego'[g].creds = {dnsEnv[k] : k \in DnsKeys}
      BY <1>1, <1>2, <2>1 DEF IssueInv, OwnEnvironment, Credentials
    <3>2. crossed \/ \A k \in DnsKeys : dnsEnv[k] = m
      BY <1>1, <3>1 DEF IssueInv, OwnEnvironment
    <3>3. QED
      BY <3>1, <3>2, CertAssumption
  <2>2. crossed => crossed'
    BY <1>1, LegoEnvironment
  <2>3. QED
    BY <1>4, <2>1, <2>2 DEF IssuedWithOwnCredentials, Start
<1>10. QED
  BY <1>5, <1>7, <1>8, <1>9 DEF IssueInv

\* Steps of a controller outside requestCert that touch neither certMu nor an issue.
LEMMA IssueElsewhere ==
    ASSUME IssueInv, Shape', UNCHANGED <<certMu, dnsEnv, crossed>>,
           \A n \in TlsNodes : \/ node'[n].at = node[n].at
                               \/ {node[n].at, node'[n].at} \cap {"request", "issue"} = {},
           \A n \in TlsNodes : lego'[Start(n)] = lego[Start(n)]
    PROVE  IssueInv'
<1>1. OneIssuer'
  BY DEF IssueInv, OneIssuer
<1>2. OwnEnvironment'
  BY DEF IssueInv, OwnEnvironment
<1>3. IssuedWithOwnCredentials'
  BY DEF IssueInv, IssuedWithOwnCredentials, Start
<1>4. QED
  BY <1>1, <1>2, <1>3 DEF IssueInv

LEMMA IssueController ==
    ASSUME IssueInv, NEW n \in TlsNodes,
           CertStart(n) \/ CertAddNode(n) \/ CertMonitor(n) \/ renewCertTask(n)
           \/ PanelRotates(n) \/ PanelMovesPort(n) \/ CertAges(n)
    PROVE  IssueInv'
<1> USE DEF IssueInv, Shape
<1>1. CASE CertStart(n)
  <2>1. \E i : node' = [node EXCEPT ![n] = [Stopped EXCEPT !.info = i, !.at = "lock"]]
    BY <1>1 DEF CertStart
  <2>2. UNCHANGED <<lego, certMu, dnsEnv, crossed>> /\ node[n].at = "down"
    BY <1>1 DEF CertStart
  <2>3. /\ node'[n].at = "lock" /\ "at" \in DOMAIN node'[n]
        /\ DOMAIN node' = TlsNodes /\ \A m \in TlsNodes \ {n} : node'[m] = node[m]
    BY <2>1, Fresh
  <2>4. QED
    BY <2>2, <2>3, IssueElsewhere
<1>2. CASE CertAddNode(n)
  <2>1. \E v, w : node' = [node EXCEPT ![n].at = "up", ![n].serves = v, ![n].renewing = w]
    BY <1>2 DEF CertAddNode
  <2>2. UNCHANGED <<lego, certMu, dnsEnv, crossed>> /\ node[n].at = "add"
    BY <1>2 DEF CertAddNode
  <2>3. /\ node'[n].at = "up" /\ "at" \in DOMAIN node'[n]
        /\ DOMAIN node' = TlsNodes /\ \A m \in TlsNodes \ {n} : node'[m] = node[m]
    BY <2>1
  <2>4. QED
    BY <2>2, <2>3, IssueElsewhere
<1>3. CASE CertMonitor(n)
  <2>1. \E v, w, x : node' = [node EXCEPT ![n].info = v, ![n].rebuilt = w, ![n].serves = x]
    BY <1>3, Zenon DEF CertMonitor
  <2>2. UNCHANGED <<lego, certMu, dnsEnv, crossed>>
    BY <1>3 DEF CertMonitor
  <2>3. /\ node'[n].at = node[n].at /\ "at" \in DOMAIN node'[n]
        /\ DOMAIN node' = TlsNodes /\ \A m \in TlsNodes \ {n} : node'[m] = node[m]
    BY <2>1
  <2>4. QED
    BY <2>2, <2>3, IssueElsewhere
<1>4. CASE renewCertTask(n)
  <2>1. UNCHANGED <<node, certMu, dnsEnv, crossed>>
    BY <1>4 DEF renewCertTask
  <2>2. /\ DOMAIN lego' = Goroutines
        /\ \A h \in Goroutines \ {<<"renew", n>>} : lego'[h] = lego[h]
        /\ {"at", "mode", "set", "creds"} \subseteq DOMAIN lego'[<<"renew", n>>]
    BY <1>4 DEF renewCertTask, NoLego, Goroutines
  <2>3. \A m \in TlsNodes : Start(m) \in Goroutines \ {<<"renew", n>>}
    BY DEF Start, Goroutines
  <2>4. QED
    BY <2>1, <2>2, <2>3, IssueElsewhere
<1>5. CASE PanelRotates(n)
  <2>1. node' = [node EXCEPT ![n].rotated = TRUE] /\ UNCHANGED <<lego, certMu, dnsEnv, crossed>>
    BY <1>5 DEF PanelRotates
  <2>2. /\ node'[n].at = node[n].at /\ "at" \in DOMAIN node'[n]
        /\ DOMAIN node' = TlsNodes /\ \A m \in TlsNodes \ {n} : node'[m] = node[m]
    BY <2>1
  <2>3. QED
    BY <2>1, <2>2, IssueElsewhere
<1>6. CASE PanelMovesPort(n)
  BY <1>6, IssueElsewhere DEF PanelMovesPort
<1>7. CASE CertAges(n)
  BY <1>7, IssueElsewhere DEF CertAges
<1>8. QED
  BY <1>1, <1>2, <1>3, <1>4, <1>5, <1>6, <1>7

\* Lock: nobody is issuing.  crossed begins anew with the holder.
LEMMA IssueLock ==
    ASSUME IssueInv, NEW m \in TlsNodes, LockCertMu(m)
    PROVE  IssueInv'
<1>1. certMu = Nobody /\ certMu' = m /\ UNCHANGED lego /\ node' = [node EXCEPT ![m].at = "request"]
  BY DEF LockCertMu
<1>2. Shape' /\ node'[m].at = "request" /\ \A n \in TlsNodes \ {m} : node'[n] = node[n]
  BY <1>1, NodeAt DEF IssueInv
<1>3. \A n \in TlsNodes : node[n].at \notin {"request", "issue"} /\ lego[Start(n)].at = "out"
  BY <1>1, CertAssumption DEF IssueInv, OneIssuer
<1>4. OneIssuer'
  BY <1>1, <1>2, <1>3 DEF OneIssuer
<1>5. OwnEnvironment' /\ IssuedWithOwnCredentials'
  BY <1>1, <1>3 DEF OwnEnvironment, IssuedWithOwnCredentials, Start
<1>6. QED
  BY <1>2, <1>4, <1>5 DEF IssueInv

\* requestCert returns at once and unlocks, or begins an issue, in mode dns with the account.
LEMMA IssueRequest ==
    ASSUME IssueInv, NEW m \in TlsNodes, requestCert(m)
    PROVE  IssueInv'
<1> DEFINE g == Start(m)
<1>1. node[m].at = "request" /\ UNCHANGED <<dnsEnv, crossed>>
  BY DEF requestCert
<1>2. \A n \in TlsNodes \ {m} : node[n].at \notin {"request", "issue"} /\ lego[Start(n)].at = "out"
  BY <1>1 DEF IssueInv, OneIssuer
<1>3. lego[g].at = "out" /\ certMu = m
  BY <1>1 DEF IssueInv, OneIssuer
<1>4. CASE certMu' = Nobody /\ node' = [node EXCEPT ![m].at = "add"] /\ UNCHANGED lego
  <2>1. Shape' /\ node'[m].at = "add" /\ \A n \in TlsNodes \ {m} : node'[n] = node[n]
    BY <1>4, NodeAt DEF IssueInv
  <2>2. OneIssuer'
    BY <1>2, <1>3, <1>4, <2>1 DEF OneIssuer
  <2>3. OwnEnvironment' /\ IssuedWithOwnCredentials'
    BY <1>2, <1>3, <1>4 DEF OwnEnvironment, IssuedWithOwnCredentials, Start
  <2>4. QED
    BY <2>1, <2>2, <2>3 DEF IssueInv
<1>5. ASSUME NEW a \in {"cert", "account"}, NEW h, a = "account" => node[m].info.mode = "dns",
             lego' = [lego EXCEPT ![<<"start", m>>] =
                         [NoLego EXCEPT !.at = a, !.mode = node[m].info.mode, !.held = h]],
             node' = [node EXCEPT ![m].at = "issue"], UNCHANGED certMu
      PROVE  IssueInv'
  <2>1. g \in Goroutines /\ \A n \in TlsNodes \ {m} : Start(n) \in Goroutines \ {g}
    BY DEF Goroutines, Start
  <2>2. /\ lego'[g].at = a /\ lego'[g].mode = node[m].info.mode /\ lego'[g].set = {}
        /\ DOMAIN lego' = Goroutines
        /\ {"at", "mode", "set", "creds"} \subseteq DOMAIN lego'[g]
        /\ \A k \in Goroutines \ {g} : lego'[k] = lego[k]
    BY <1>5, <2>1 DEF IssueInv, Shape, NoLego, Start
  <2>3. /\ DOMAIN node' = TlsNodes /\ node'[m].at = "issue" /\ "at" \in DOMAIN node'[m]
        /\ \A n \in TlsNodes \ {m} : node'[n] = node[n]
    BY <1>5 DEF IssueInv, Shape
  <2>4. Shape'
    BY <2>1, <2>2, <2>3 DEF IssueInv, Shape
  <2>5. OneIssuer'
    BY <1>2, <1>3, <1>5, <2>1, <2>2, <2>3 DEF OneIssuer
  <2>6. OwnEnvironment' /\ IssuedWithOwnCredentials'
    BY <1>2, <1>5, <2>1, <2>2 DEF OwnEnvironment, IssuedWithOwnCredentials, Start
  <2>7. QED
    BY <2>4, <2>5, <2>6 DEF IssueInv
<1>6. QED
  BY <1>4, <1>5 DEF requestCert

LEMMA IssueInductive == CertSpec => []IssueInv
<1>1. IssueInv /\ EnvShape /\ [CertNext]_certVars => IssueInv'
  <2> SUFFICES ASSUME IssueInv, EnvShape, [CertNext]_certVars PROVE IssueInv'
    OBVIOUS
  <2>1. CASE CertReload
    <3>1. node' = [n \in TlsNodes |-> Stopped] /\ UNCHANGED <<lego, certMu, dnsEnv, crossed>>
      BY <2>1 DEF CertReload
    <3>2. Shape' /\ \A n \in TlsNodes : node'[n].at = "down"
      BY <3>1, Fresh DEF IssueInv, Shape
    <3>3. \A n \in TlsNodes : node[n].at \in {"up", "failed"}
      BY <2>1 DEF CertReload
    <3>4. QED
      BY <3>1, <3>2, <3>3, IssueElsewhere
  <2>2. CASE Crash
    <3>1. node' = [n \in TlsNodes |-> Stopped] /\ lego' = [g \in Goroutines |-> NoLego]
      BY <2>2 DEF Crash
    <3>2. \A n \in TlsNodes : Start(n) \in Goroutines
      BY DEF Start, Goroutines
    <3>3. Shape' /\ \A n \in TlsNodes : node'[n].at = "down" /\ lego'[Start(n)].at = "out"
      BY <3>1, <3>2, Fresh DEF Shape
    <3>4. QED
      BY <3>3 DEF IssueInv, OneIssuer, OwnEnvironment, IssuedWithOwnCredentials, Start
  <2>3. CASE UNCHANGED certVars
    BY <2>3, IssueElsewhere DEF certVars, IssueInv, Shape
  <2>4. ASSUME NEW n \in TlsNodes, LegoStep(<<"start", n>>) \/ LegoStep(<<"renew", n>>) PROVE IssueInv'
    BY <2>4, IssueStart, IssueRenewal
  <2>5. ASSUME NEW n \in TlsNodes, requestCert(n) \/ LockCertMu(n) PROVE IssueInv'
    BY <2>5, IssueRequest, IssueLock
  <2>6. ASSUME NEW n \in TlsNodes,
               CertStart(n) \/ CertAddNode(n) \/ CertMonitor(n) \/ renewCertTask(n)
               \/ PanelRotates(n) \/ PanelMovesPort(n) \/ CertAges(n)
        PROVE  IssueInv'
    BY <2>6, IssueController
  <2>7. QED
    BY <2>1, <2>2, <2>3, <2>4, <2>5, <2>6 DEF CertNext, StartStep
<1>2. QED
  BY <1>1, IssueInit, EnvInductive, PTL DEF CertSpec

\* requestCert's mutex covers Setenv, the construction of the provider and the challenge:
\* an issue in Start has its node's credentials, whatever other nodes start at the same
\* time and whatever crashes, unless a renewal has set its own in between.
THEOREM OwnCredentials == CertSpec => []IssuedWithOwnCredentials
  BY IssueInductive, PTL DEF IssueInv

\* Whoever is between Lock and the end of requestCert holds certMu: no two at a time, and
\* no issue that outlives it.
THEOREM OneIssuerAtATime == CertSpec => []OneIssuer
  BY IssueInductive, PTL DEF IssueInv

-----------------------------------------------------------------------------
(* What is on disk, and what is served.                                     *)

Renew(n) == <<"renew", n>>

\* The mode a start goes by: nothing changes it while the process runs.
Configured(n) == IF localMode[n] = "" THEN panelSends[n].mode ELSE localMode[n]

\* Files, controllers and what the panel sends are records.
FileShape ==
    DOMAIN disk = TlsNodes /\ \A n \in TlsNodes : {"cert", "key", "due", "torn"} \subseteq DOMAIN disk[n]
PanelShape ==
    /\ DOMAIN panelSends = TlsNodes
    /\ \A n \in TlsNodes : {"mode", "cert", "port"} \subseteq DOMAIN panelSends[n]
    /\ \A n \in TlsNodes : localMode[n] \in {"", "dns"}
ProcessShape ==
    /\ DOMAIN node = TlsNodes /\ DOMAIN lego = Goroutines
    /\ \A n \in TlsNodes : {"info", "at", "serves", "renewing", "rotated", "rebuilt"} \subseteq DOMAIN node[n]
    /\ \A g \in Goroutines : {"at", "mode", "set", "creds", "held"} \subseteq DOMAIN lego[g]
DiskShape == FileShape /\ PanelShape /\ ProcessShape

\* Only what is issued with the node's credentials is ever renewed, and that only after a
\* start has found or written the pair: so no start of the node issues beside a renewal.
RenewedIsThere(n) ==
    /\ node[n].at \in {"lock", "request", "issue", "add"} => node[n].info.mode = Configured(n)
    /\ node[n].renewing => node[n].at = "up" /\ Configured(n) = "dns" /\ disk[n].key # NoFile
    /\ lego[Renew(n)].at # "out" => Configured(n) = "dns" /\ disk[n].key # NoFile
    /\ lego[Start(n)].at # "out" /\ Configured(n) # "remote" =>
          /\ disk[n].key = NoFile \/ lego[Start(n)].at = "keycut"
          /\ lego[Renew(n)].at = "out"

\* The certificate is written first, and the key of the same pair next.
PairOnDisk(n) ==
    /\ disk[n].key # NoFile => disk[n].cert # NoFile
    /\ \/ disk[n].cert = disk[n].key /\ disk[n].cert # Cut
       \/ disk[n].torn \/ disk[n].key = NoFile \/ Between(Start(n)) \/ Between(Renew(n))
    /\ disk[n].cert.by \in {"nobody", "cut", "host", "panel"}
    /\ \A g \in {Start(n), Renew(n)} :
          /\ lego[g].at \in {"cert", "certcut", "key", "keycut"} => lego[g].held.by \in {"host", "panel"}
          /\ lego[g].at \in {"key", "keycut"} => disk[n].cert = lego[g].held
    /\ node[n].at = "add" /\ Configured(n) # "none" => disk[n].key # NoFile

\* What a remote node has on disk and serves is what the panel sent at Start.
RemoteOnDisk(n) ==
    Configured(n) = "remote" =>
        /\ node[n].at # "down" => node[n].rotated \/ node[n].info.cert = panelSends[n].cert
        /\ lego[Start(n)].at # "out" => lego[Start(n)].at \in {"cert", "certcut", "key", "keycut"}
                                        /\ lego[Start(n)].held = Remote(node[n].info.cert)
        /\ node[n].at = "add" => disk[n].cert = Remote(node[n].info.cert)
                                 /\ disk[n].key = Remote(node[n].info.cert)
        /\ node[n].at = "up" => \/ node[n].rotated
                                \/ /\ disk[n].cert = Remote(node[n].info.cert)
                                   /\ disk[n].key = Remote(node[n].info.cert)
                                   /\ node[n].serves = Remote(node[n].info.cert)

\* Without TLS a node serves only if the panel says so.
PlainIsSent(n) ==
    node[n].serves = Plain => panelSends[n].mode = "none" /\ (localMode[n] = "" \/ node[n].rebuilt)

Stored(n) == RenewedIsThere(n) /\ PairOnDisk(n) /\ RemoteOnDisk(n) /\ PlainIsSent(n)

DiskInv == DiskShape /\ \A n \in TlsNodes : Stored(n)

-----------------------------------------------------------------------------

\* The view a node's conditions have of the state.
Same(n) ==
    /\ node'[n] = node[n] /\ disk'[n] = disk[n] /\ panelSends'[n] = panelSends[n]
    /\ localMode'[n] = localMode[n]
    /\ lego'[Start(n)] = lego[Start(n)] /\ lego'[Renew(n)] = lego[Renew(n)]

LEMMA SameStored ==
    ASSUME NEW n \in TlsNodes, Stored(n), Same(n)
    PROVE  Stored(n)'
<1>1. RenewedIsThere(n)' /\ PairOnDisk(n)'
  BY DEF Stored, Same, RenewedIsThere, PairOnDisk, Between, Configured, Start, Renew
<1>2. RemoteOnDisk(n)' /\ PlainIsSent(n)'
  BY DEF Stored, Same, RemoteOnDisk, PlainIsSent, Configured, Start
<1>3. QED
  BY <1>1, <1>2 DEF Stored

LEMMA FilesDiffer ==
    /\ NoFile.by = "nobody" /\ Cut.by = "cut"
    /\ Plain.by = "plain" /\ Broken.by = "mismatch" /\ Down.by = "down"
    /\ \A i : Remote(i).by = "panel" /\ Own(i).by = "host"
    /\ \A i, j : Remote(i) = Remote(j) => i = j
  BY DEF NoFile, Cut, Plain, Broken, Down, Remote, Own

-----------------------------------------------------------------------------
\* The end of an issue changes how far Start is, and nothing else of the controller.
StartAt(g, a) ==
    /\ g[1] = "renew" => UNCHANGED node
    /\ g[1] = "start" => /\ node'[g[2]].at = a
                         /\ node'[g[2]].info = node[g[2]].info
                         /\ node'[g[2]].serves = node[g[2]].serves
                         /\ node'[g[2]].renewing = node[g[2]].renewing
                         /\ node'[g[2]].rotated = node[g[2]].rotated
                         /\ node'[g[2]].rebuilt = node[g[2]].rebuilt

\* What a step of an issue or of a renewal does to the pair: nothing yet, or never; one of
\* the four steps of the two writes, with the last of which it ends; or it ends between.
BeforePair(g) ==
    /\ UNCHANGED <<disk, node>> /\ lego[g].at \notin {"out", "cert"} /\ ~Between(g)
    /\ lego'[g].at # "out" /\ ~Between(g)' /\ (lego'[g].at = "cert" => lego'[g].held.by = "host")
FailsBefore(g) ==
    UNCHANGED disk /\ ~Between(g) /\ lego'[g].at = "out" /\ StartAt(g, "failed")
CutsCert(g) ==
    /\ UNCHANGED node /\ lego[g].at = "cert" /\ lego'[g].at = "certcut" /\ lego'[g].held = lego[g].held
    /\ disk'[g[2]].cert = Cut /\ disk'[g[2]].key = disk[g[2]].key
WritesCert(g) ==
    /\ UNCHANGED node /\ lego[g].at = "certcut" /\ lego'[g].at = "key" /\ lego'[g].held = lego[g].held
    /\ disk'[g[2]].cert = lego[g].held /\ disk'[g[2]].key = disk[g[2]].key
CutsKey(g) ==
    /\ UNCHANGED node /\ lego[g].at = "key" /\ lego'[g].at = "keycut" /\ lego'[g].held = lego[g].held
    /\ disk'[g[2]].key = Cut /\ disk'[g[2]].cert = disk[g[2]].cert
WritesKey(g) ==
    /\ lego[g].at = "keycut" /\ lego'[g].at = "out" /\ StartAt(g, "add")
    /\ disk'[g[2]].key = lego[g].held /\ disk'[g[2]].cert = disk[g[2]].cert
FailsBetween(g) ==
    /\ Between(g) /\ lego'[g].at = "out" /\ StartAt(g, "failed")
    /\ disk'[g[2]].key = disk[g[2]].key /\ disk'[g[2]].cert = disk[g[2]].cert
    /\ disk'[g[2]].torn
LegoPair(g) == BeforePair(g) \/ FailsBefore(g) \/ CutsCert(g) \/ WritesCert(g) \/ CutsKey(g)
               \/ WritesKey(g) \/ FailsBetween(g)

LEMMA StepPair ==
    ASSUME ProcessShape, NEW g \in Goroutines, NEW a, Step(g, a)
    PROVE  ProcessShape' /\ UNCHANGED node /\ lego'[g].at = a /\ lego'[g].held = lego[g].held
  BY DEF ProcessShape, Step

LEMMA ReturnsPair ==
    ASSUME ProcessShape, NEW g \in Goroutines
    PROVE  /\ Returns(g, TRUE) => ProcessShape' /\ lego'[g].at = "out" /\ StartAt(g, "add")
           /\ Returns(g, FALSE) => ProcessShape' /\ lego'[g].at = "out" /\ StartAt(g, "failed")
<1>1. g[1] \in {"start", "renew"} /\ g[2] \in TlsNodes
  BY DEF Goroutines
<1>2. ASSUME NEW a, g[1] = "start", lego' = [lego EXCEPT ![g] = NoLego], node' = [node EXCEPT ![g[2]].at = a]
      PROVE  ProcessShape' /\ lego'[g].at = "out" /\ StartAt(g, a)
  BY <1>1, <1>2 DEF ProcessShape, StartAt, NoLego
<1>3. ASSUME NEW a, g[1] = "renew", lego' = [lego EXCEPT ![g] = NoLego], UNCHANGED node
      PROVE  ProcessShape' /\ lego'[g].at = "out" /\ StartAt(g, a)
  BY <1>1, <1>3 DEF ProcessShape, StartAt, NoLego
<1>4. CASE g[1] = "renew"
  BY <1>3, <1>4 DEF Returns
<1>5. CASE g[1] = "start"
  BY <1>2, <1>5 DEF Returns
<1>6. QED
  BY <1>1, <1>4, <1>5

LEMMA LegoWrites ==
    ASSUME DiskShape, NEW g \in Goroutines, LegoStep(g)
    PROVE  /\ DiskShape' /\ UNCHANGED <<panelSends, localMode>> /\ LegoPair(g)
           /\ \A m \in TlsNodes \ {g[2]} : disk'[m] = disk[m]
<1>0. /\ UNCHANGED <<panelSends, localMode>> /\ g[2] \in TlsNodes
      /\ FileShape /\ ProcessShape /\ PanelShape /\ PanelShape'
  BY DEF LegoStep, NewLegoUser, Save, SetProviderEnv, SetProvider, CheckCert, Obtain, OpenCert,
         writeCert, OpenKey, writeKey, Elsewhere, Goroutines, DiskShape, PanelShape
<1> DEFINE Goal == /\ FileShape' /\ ProcessShape' /\ LegoPair(g)
                   /\ \A m \in TlsNodes \ {g[2]} : disk'[m] = disk[m]
<1> SUFFICES Goal
  BY <1>0 DEF DiskShape
<1>a. ASSUME UNCHANGED disk, ~Between(g), Returns(g, FALSE) PROVE Goal
  BY <1>0, <1>a, ReturnsPair DEF FileShape, LegoPair, FailsBefore
<1>b. ASSUME UNCHANGED disk, NEW a \in {"save", "setenv", "check", "obtain"}, Step(g, a),
             lego[g].at \in {"account", "save", "setenv", "check"}
      PROVE  Goal
  BY <1>0, <1>b, StepPair DEF FileShape, LegoPair, BeforePair, Between
<1>c. ASSUME Between(g), EndsTorn(g) PROVE Goal
  <2>1. disk' = [disk EXCEPT ![g[2]].torn = TRUE] /\ Returns(g, FALSE)
    BY <1>c DEF EndsTorn
  <2>2. /\ FileShape' /\ disk'[g[2]].key = disk[g[2]].key /\ disk'[g[2]].cert = disk[g[2]].cert
        /\ \A m \in TlsNodes \ {g[2]} : disk'[m] = disk[m]
    BY <1>0, <2>1 DEF FileShape
  <2>3. disk'[g[2]].torn = TRUE
    BY <1>0, <2>1 DEF FileShape
  <2>4. QED
    BY <1>0, <1>c, <2>1, <2>2, <2>3, ReturnsPair DEF LegoPair, FailsBetween
<1>1. CASE NewLegoUser(g)
  <2>1. /\ UNCHANGED disk /\ lego[g].at = "account"
        /\ Step(g, "setenv") \/ Step(g, "save") \/ Returns(g, FALSE)
    BY <1>1 DEF NewLegoUser
  <2>2. QED
    BY <1>a, <1>b, <2>1 DEF Between
<1>2. CASE Save(g)
  <2>1. UNCHANGED disk /\ lego[g].at = "save" /\ (Step(g, "setenv") \/ Returns(g, FALSE))
    BY <1>2 DEF Save
  <2>2. QED
    BY <1>a, <1>b, <2>1 DEF Between
<1>3. CASE SetProviderEnv(g)
  <2>1. UNCHANGED <<disk, node>> /\ lego[g].at = "setenv"
    BY <1>3 DEF SetProviderEnv, diskVars
  <2>2. \E s : lego' = [lego EXCEPT ![g].set = s]
    BY <1>3 DEF SetProviderEnv
  <2>3. ProcessShape' /\ lego'[g].at = "setenv"
    BY <1>0, <2>1, <2>2 DEF ProcessShape
  <2>4. QED
    BY <1>0, <2>1, <2>3 DEF FileShape, LegoPair, BeforePair, Between
<1>4. CASE SetProvider(g)
  <2>1. UNCHANGED <<disk, node>> /\ lego[g].at = "setenv"
    BY <1>4 DEF SetProvider, diskVars
  <2>2. \E a \in {"check", "obtain"} : \E c : lego' = [lego EXCEPT ![g].at = a, ![g].creds = c]
    BY <1>4 DEF SetProvider
  <2>3. ProcessShape' /\ lego'[g].at \in {"check", "obtain"}
    BY <1>0, <2>1, <2>2 DEF ProcessShape
  <2>4. QED
    BY <1>0, <2>1, <2>3 DEF FileShape, LegoPair, BeforePair, Between
<1>5. CASE CheckCert(g)
  <2>1. UNCHANGED disk /\ lego[g].at = "check" /\ (Step(g, "obtain") \/ Returns(g, FALSE))
    BY <1>5 DEF CheckCert, diskVars
  <2>2. QED
    BY <1>a, <1>b, <2>1 DEF Between
<1>6. CASE Obtain(g)
  <2>1. UNCHANGED disk /\ lego[g].at = "obtain"
    BY <1>6 DEF Obtain, diskVars
  <2>2. CASE lego' = [lego EXCEPT ![g].at = "cert", ![g].held = Own(issued + 1)] /\ UNCHANGED node
    <3>1. ProcessShape' /\ lego'[g].at = "cert" /\ lego'[g].held = Own(issued + 1)
      BY <1>0, <2>2 DEF ProcessShape
    <3>2. lego'[g].held.by = "host"
      BY <3>1, FilesDiffer
    <3>3. QED
      BY <1>0, <2>1, <2>2, <3>1, <3>2 DEF FileShape, LegoPair, BeforePair, Between
  <2>3. CASE Returns(g, FALSE)
    BY <1>a, <2>1, <2>3 DEF Between
  <2>4. QED
    BY <1>6, <2>2, <2>3 DEF Obtain
<1>7. CASE OpenCert(g)
  <2>1. lego[g].at = "cert"
    BY <1>7 DEF OpenCert
  <2>2. CASE disk' = [disk EXCEPT ![g[2]].cert = Cut, ![g[2]].due = FALSE] /\ Step(g, "certcut")
    <3>1. /\ FileShape' /\ disk'[g[2]].cert = Cut /\ disk'[g[2]].key = disk[g[2]].key
          /\ \A m \in TlsNodes \ {g[2]} : disk'[m] = disk[m]
      BY <1>0, <2>2 DEF FileShape
    <3>2. ProcessShape' /\ UNCHANGED node /\ lego'[g].at = "certcut" /\ lego'[g].held = lego[g].held
      BY <1>0, <2>2, StepPair
    <3>3. QED
      BY <1>0, <2>1, <3>1, <3>2 DEF LegoPair, CutsCert
  <2>3. QED
    BY <1>7, <1>a, <2>1, <2>2 DEF OpenCert, Between
<1>8. CASE writeCert(g)
  <2>1. lego[g].at = "certcut"
    BY <1>8 DEF writeCert
  <2>2. CASE disk' = [disk EXCEPT ![g[2]].cert = lego[g].held] /\ Step(g, "key")
    <3>1. /\ FileShape' /\ disk'[g[2]].cert = lego[g].held /\ disk'[g[2]].key = disk[g[2]].key
          /\ \A m \in TlsNodes \ {g[2]} : disk'[m] = disk[m]
      BY <1>0, <2>2 DEF FileShape
    <3>2. ProcessShape' /\ UNCHANGED node /\ lego'[g].at = "key" /\ lego'[g].held = lego[g].held
      BY <1>0, <2>2, StepPair
    <3>3. QED
      BY <1>0, <2>1, <3>1, <3>2 DEF LegoPair, WritesCert
  <2>3. QED
    BY <1>8, <1>c, <2>1, <2>2 DEF writeCert, Between
<1>9. CASE OpenKey(g)
  <2>1. lego[g].at = "key"
    BY <1>9 DEF OpenKey
  <2>2. CASE disk' = [disk EXCEPT ![g[2]].key = Cut] /\ Step(g, "keycut")
    <3>1. /\ FileShape' /\ disk'[g[2]].key = Cut /\ disk'[g[2]].cert = disk[g[2]].cert
          /\ \A m \in TlsNodes \ {g[2]} : disk'[m] = disk[m]
      BY <1>0, <2>2 DEF FileShape
    <3>2. ProcessShape' /\ UNCHANGED node /\ lego'[g].at = "keycut" /\ lego'[g].held = lego[g].held
      BY <1>0, <2>2, StepPair
    <3>3. QED
      BY <1>0, <2>1, <3>1, <3>2 DEF LegoPair, CutsKey
  <2>3. QED
    BY <1>9, <1>c, <2>1, <2>2 DEF OpenKey, Between
<1>10. CASE writeKey(g)
  <2>1. lego[g].at = "keycut"
    BY <1>10 DEF writeKey
  <2>2. CASE disk' = [disk EXCEPT ![g[2]].key = lego[g].held, ![g[2]].torn = FALSE] /\ Returns(g, TRUE)
    <3>1. /\ FileShape' /\ disk'[g[2]].key = lego[g].held /\ disk'[g[2]].cert = disk[g[2]].cert
          /\ \A m \in TlsNodes \ {g[2]} : disk'[m] = disk[m]
      BY <1>0, <2>2 DEF FileShape
    <3>2. QED
      BY <1>0, <2>1, <2>2, <3>1, ReturnsPair DEF LegoPair, WritesKey
  <2>3. QED
    BY <1>10, <1>c, <2>1, <2>2 DEF writeKey, Between
<1>11. QED
  BY <1>1, <1>2, <1>3, <1>4, <1>5, <1>6, <1>7, <1>8, <1>9, <1>10 DEF LegoStep

\* An issue in Start: no renewal of the node is under way, since there is no key or the
\* panel has the certificate.
LEMMA StoredStart ==
    ASSUME IssueInv, DiskShape, NEW n \in TlsNodes, Stored(n), LegoStep(Start(n))
    PROVE  Stored(n)'
<1> DEFINE g == Start(n)
<1>0. g \in Goroutines /\ g[1] = "start" /\ g[2] = n /\ g # Renew(n) /\ Renew(n) \in Goroutines
  BY DEF Goroutines, Start, Renew
<1>1. UNCHANGED <<panelSends, localMode>> /\ LegoPair(g)
  BY <1>0, LegoWrites
<1>2. /\ lego[g].at # "out" /\ lego'[Renew(n)] = lego[Renew(n)] /\ node[n].at = "issue"
  BY <1>0, LegoMoves DEF GoesOn, Ends, Kept, IssueInv, OneIssuer
<1>3. Configured(n)' = Configured(n)
  BY <1>1 DEF Configured
<1>4. lego[Renew(n)].at = "out"
  BY <1>2 DEF Stored, RenewedIsThere
<1> USE <1>0, <1>1, <1>2, <1>3, <1>4 DEF Stored
<1> HIDE DEF g
<1>5. CASE BeforePair(g)
  <2>1. RenewedIsThere(n)'
    BY <1>5, FilesDiffer DEF RenewedIsThere, BeforePair, Between, g
  <2>2. PairOnDisk(n)'
    BY <1>5, FilesDiffer DEF PairOnDisk, BeforePair, Between, g
  <2>3. RemoteOnDisk(n)'
    BY <1>5 DEF RemoteOnDisk, BeforePair, Between, g
  <2>4. PlainIsSent(n)'
    BY <1>5 DEF PlainIsSent, BeforePair, g
  <2>5. QED
    BY <2>1, <2>2, <2>3, <2>4
<1>6. CASE FailsBefore(g)
  <2>1. RenewedIsThere(n)'
    BY <1>6, FilesDiffer DEF RenewedIsThere, FailsBefore, StartAt, Between, g
  <2>2. PairOnDisk(n)'
    BY <1>6, FilesDiffer DEF PairOnDisk, FailsBefore, StartAt, Between, g
  <2>3. RemoteOnDisk(n)'
    BY <1>6 DEF RemoteOnDisk, FailsBefore, StartAt, Between, g
  <2>4. PlainIsSent(n)'
    BY <1>6 DEF PlainIsSent, FailsBefore, StartAt, g
  <2>5. QED
    BY <2>1, <2>2, <2>3, <2>4
<1>7. CASE CutsCert(g)
  <2>1. RenewedIsThere(n)'
    BY <1>7, FilesDiffer DEF RenewedIsThere, CutsCert, Between, g
  <2>2. PairOnDisk(n)'
    BY <1>7, FilesDiffer DEF PairOnDisk, CutsCert, Between, g
  <2>3. RemoteOnDisk(n)'
    BY <1>7 DEF RemoteOnDisk, CutsCert, Between, g
  <2>4. PlainIsSent(n)'
    BY <1>7 DEF PlainIsSent, CutsCert, g
  <2>5. QED
    BY <2>1, <2>2, <2>3, <2>4
<1>8. CASE WritesCert(g)
  <2>1. RenewedIsThere(n)'
    BY <1>8, FilesDiffer DEF RenewedIsThere, WritesCert, Between, g
  <2>2. PairOnDisk(n)'
    BY <1>8, FilesDiffer DEF PairOnDisk, WritesCert, Between, g
  <2>3. RemoteOnDisk(n)'
    BY <1>8 DEF RemoteOnDisk, WritesCert, Between, g
  <2>4. PlainIsSent(n)'
    BY <1>8 DEF PlainIsSent, WritesCert, g
  <2>5. QED
    BY <2>1, <2>2, <2>3, <2>4
<1>9. CASE CutsKey(g)
  <2>1. RenewedIsThere(n)'
    BY <1>9, FilesDiffer DEF RenewedIsThere, CutsKey, Between, g
  <2>2. PairOnDisk(n)'
    BY <1>9, FilesDiffer DEF PairOnDisk, CutsKey, Between, g
  <2>3. RemoteOnDisk(n)'
    BY <1>9 DEF RemoteOnDisk, CutsKey, Between, g
  <2>4. PlainIsSent(n)'
    BY <1>9 DEF PlainIsSent, CutsKey, g
  <2>5. QED
    BY <2>1, <2>2, <2>3, <2>4
<1>10. CASE WritesKey(g)
  <2>1. RenewedIsThere(n)'
    BY <1>10, FilesDiffer DEF RenewedIsThere, WritesKey, StartAt, Between, g
  <2>2. PairOnDisk(n)'
    BY <1>10, FilesDiffer DEF PairOnDisk, WritesKey, StartAt, Between, g
  <2>3. RemoteOnDisk(n)'
    BY <1>10 DEF RemoteOnDisk, PairOnDisk, WritesKey, StartAt, Between, g
  <2>4. PlainIsSent(n)'
    BY <1>10 DEF PlainIsSent, WritesKey, StartAt, g
  <2>5. QED
    BY <2>1, <2>2, <2>3, <2>4
<1>11. CASE FailsBetween(g)
  <2>1. RenewedIsThere(n)'
    BY <1>11, FilesDiffer DEF RenewedIsThere, FailsBetween, StartAt, Between, g
  <2>2. PairOnDisk(n)'
    BY <1>11, FilesDiffer DEF PairOnDisk, FailsBetween, StartAt, Between, g
  <2>3. RemoteOnDisk(n)'
    BY <1>11 DEF RemoteOnDisk, FailsBetween, StartAt, Between, g
  <2>4. PlainIsSent(n)'
    BY <1>11 DEF PlainIsSent, FailsBetween, StartAt, g
  <2>5. QED
    BY <2>1, <2>2, <2>3, <2>4
<1>12. QED
  BY <1>5, <1>6, <1>7, <1>8, <1>9, <1>10, <1>11 DEF LegoPair

\* A renewal finds a pair, and no start issues beside it.
LEMMA StoredRenewal ==
    ASSUME IssueInv, DiskShape, NEW n \in TlsNodes, Stored(n), LegoStep(Renew(n))
    PROVE  Stored(n)'
<1> DEFINE g == Renew(n)
<1>0. g \in Goroutines /\ g[1] = "renew" /\ g[2] = n /\ g # Start(n) /\ Start(n) \in Goroutines
  BY DEF Goroutines, Start, Renew
<1>1. UNCHANGED <<panelSends, localMode>> /\ LegoPair(g)
  BY <1>0, LegoWrites
<1>2. lego[g].at # "out" /\ lego'[Start(n)] = lego[Start(n)] /\ UNCHANGED node
  BY <1>0, LegoMoves DEF GoesOn, Ends, Kept, IssueInv
<1>3. Configured(n)' = Configured(n)
  BY <1>1 DEF Configured
<1>4. lego[Start(n)].at = "out" /\ Configured(n) = "dns" /\ disk[n].key # NoFile
  BY <1>2 DEF Stored, RenewedIsThere
<1>5. RemoteOnDisk(n)' /\ PlainIsSent(n)'
  BY <1>1, <1>2, <1>3, <1>4 DEF Stored, RemoteOnDisk, PlainIsSent
<1> USE <1>0, <1>1, <1>2, <1>3, <1>4 DEF Stored
<1> HIDE DEF g
<1>6. disk'[n].key # NoFile
  BY FilesDiffer DEF LegoPair, BeforePair, FailsBefore, CutsCert, WritesCert, CutsKey, WritesKey,
                     FailsBetween, PairOnDisk, g
<1>7. RenewedIsThere(n)'
  BY <1>6 DEF RenewedIsThere, g
<1>8. PairOnDisk(n)'
  <2>1. CASE BeforePair(g)
    BY <2>1, FilesDiffer DEF PairOnDisk, BeforePair, Between, g
  <2>2. CASE FailsBefore(g)
    BY <2>2, FilesDiffer DEF PairOnDisk, FailsBefore, Between, g
  <2>3. CASE CutsCert(g)
    BY <2>3, FilesDiffer DEF PairOnDisk, CutsCert, Between, g
  <2>4. CASE WritesCert(g)
    BY <2>4, FilesDiffer DEF PairOnDisk, WritesCert, Between, g
  <2>5. CASE CutsKey(g)
    BY <2>5, FilesDiffer DEF PairOnDisk, CutsKey, Between, g
  <2>6. CASE WritesKey(g)
    BY <2>6, FilesDiffer DEF PairOnDisk, WritesKey, Between, g
  <2>7. CASE FailsBetween(g)
    BY <2>7, FilesDiffer DEF PairOnDisk, FailsBetween, Between, g
  <2>8. QED
    BY <2>1, <2>2, <2>3, <2>4, <2>5, <2>6, <2>7 DEF LegoPair
<1>9. QED
  BY <1>5, <1>7, <1>8

-----------------------------------------------------------------------------
LEMMA StoppedNode ==
    /\ Stopped.at = "down" /\ Stopped.serves = Down /\ Stopped.renewing = FALSE
    /\ DOMAIN Stopped = {"info", "at", "serves", "renewing", "rotated", "rebuilt"}
<1>1. Stopped.at = "down" /\ Stopped.serves = Down /\ Stopped.renewing = FALSE
  BY Zenon DEF Stopped
<1>2. DOMAIN Stopped = {"info", "at", "serves", "renewing", "rotated", "rebuilt"}
  BY Zenon DEF Stopped
<1>3. QED
  BY <1>1, <1>2

\* A node that is down, with nothing of it under way but a renewal that outlived a reload.
LEMMA StoredDown ==
    ASSUME NEW n \in TlsNodes, Stored(n), node'[n] = Stopped, UNCHANGED <<panelSends, localMode>>,
           disk'[n].cert = disk[n].cert, disk'[n].key = disk[n].key, lego'[Start(n)].at = "out",
           \/ lego'[Renew(n)] = lego[Renew(n)] /\ disk'[n] = disk[n] /\ lego[Start(n)].at = "out"
           \/ /\ lego'[Renew(n)].at = "out"
              /\ disk'[n].torn \/ (~Between(Start(n)) /\ ~Between(Renew(n)))
              /\ disk[n].torn => disk'[n].torn
    PROVE  Stored(n)'
<1>1. Configured(n)' = Configured(n)
  BY DEF Configured
<1>2. ~node'[n].renewing /\ node'[n].at = "down"
  BY StoppedNode
<1>3. PlainIsSent(n)'
  BY StoppedNode, FilesDiffer DEF PlainIsSent
<1>4. RenewedIsThere(n)'
  BY <1>1, <1>2 DEF Stored, RenewedIsThere
<1>5. PairOnDisk(n)'
  BY <1>1, <1>2 DEF Stored, PairOnDisk, Between
<1>6. RemoteOnDisk(n)'
  BY <1>1, <1>2 DEF Stored, RemoteOnDisk
<1>7. QED
  BY <1>3, <1>4, <1>5, <1>6 DEF Stored

LEMMA DiskInit == CertInit => DiskInv
<1> SUFFICES ASSUME CertInit PROVE DiskInv
  OBVIOUS
<1>1. FileShape /\ \A n \in TlsNodes : disk[n].cert = NoFile /\ disk[n].key = NoFile
  BY DEF CertInit, FileShape
<1>2. PanelShape
  <2>1. PICK d \in Deployments :
            /\ panelSends = [n \in TlsNodes |-> [mode |-> d.panel[n], cert |-> 1, port |-> 1]]
            /\ localMode = d.local
    BY DEF CertInit
  <2>2. \A n \in TlsNodes : d.local[n] \in {"", "dns"}
    BY <2>1, CertAssumption
  <2>3. QED
    BY <2>1, <2>2 DEF PanelShape
<1>3. /\ node = [n \in TlsNodes |-> Stopped] /\ lego = [g \in Goroutines |-> NoLego]
      /\ \A n \in TlsNodes : Start(n) \in Goroutines /\ Renew(n) \in Goroutines
  BY DEF CertInit, Start, Renew, Goroutines
<1>4. ProcessShape
  BY <1>3, StoppedNode DEF ProcessShape, NoLego
<1>5. ASSUME NEW n \in TlsNodes PROVE Stored(n)
  <2>1. /\ node[n].at = "down" /\ node[n].serves = Down /\ ~node[n].renewing
        /\ lego[Start(n)].at = "out" /\ lego[Renew(n)].at = "out"
    BY <1>3, StoppedNode, Fresh
  <2>2. PairOnDisk(n)
    BY <1>1, <2>1, FilesDiffer DEF PairOnDisk, Between
  <2>3. PlainIsSent(n)
    BY <2>1, FilesDiffer DEF PlainIsSent
  <2>4. QED
    BY <2>1, <2>2, <2>3 DEF Stored, RenewedIsThere, RemoteOnDisk
<1>6. QED
  BY <1>1, <1>2, <1>4, <1>5 DEF DiskInv, DiskShape

\* What a crash or a reload leaves.
LEMMA DiskStops ==
    ASSUME IssueInv, DiskInv, CertReload \/ Crash
    PROVE  DiskInv'
<1>0. /\ node' = [n \in TlsNodes |-> Stopped] /\ UNCHANGED <<panelSends, localMode>>
      /\ \A n \in TlsNodes : Start(n) \in Goroutines /\ Renew(n) \in Goroutines
  BY DEF CertReload, Crash, Elsewhere, Start, Renew, Goroutines
<1>1. PanelShape' /\ DOMAIN node' = TlsNodes
      /\ \A n \in TlsNodes :
            {"info", "at", "serves", "renewing", "rotated", "rebuilt"} \subseteq DOMAIN node'[n]
  BY <1>0, StoppedNode DEF DiskInv, DiskShape, PanelShape
<1>2. CASE CertReload
  <2>1. UNCHANGED <<lego, disk>> /\ \A n \in TlsNodes : node[n].at # "issue"
    BY <1>2 DEF CertReload, diskVars
  <2>2. DiskShape'
    BY <1>1, <2>1 DEF DiskInv, DiskShape, FileShape, ProcessShape
  <2>3. ASSUME NEW n \in TlsNodes PROVE Stored(n)'
    <3>1. lego[Start(n)].at = "out" /\ lego'[Start(n)].at = "out" /\ node'[n] = Stopped
      BY <1>0, <2>1 DEF IssueInv, OneIssuer
    <3>2. QED
      BY <1>0, <2>1, <3>1, StoredDown DEF DiskInv
  <2>4. QED
    BY <2>2, <2>3 DEF DiskInv
<1>3. CASE Crash
  <2>1. lego' = [g \in Goroutines |-> NoLego]
    BY <1>3 DEF Crash
  <2>2. ASSUME NEW n \in TlsNodes
        PROVE  \E t : /\ disk'[n] = [disk[n] EXCEPT !.torn = t]
                      /\ t = (disk[n].torn \/ \E k \in {"start", "renew"} : Between(<<k, n>>))
    BY <1>3, Zenon DEF Crash
  <2>3. DOMAIN disk' = TlsNodes
    BY <1>3, Zenon DEF Crash
  <2>4. ASSUME NEW n \in TlsNodes
        PROVE  /\ {"cert", "key", "due", "torn"} \subseteq DOMAIN disk'[n]
               /\ disk'[n].cert = disk[n].cert /\ disk'[n].key = disk[n].key
               /\ disk[n].torn => disk'[n].torn
               /\ disk'[n].torn \/ (~Between(Start(n)) /\ ~Between(Renew(n)))
    <3>1. PICK t : /\ disk'[n] = [disk[n] EXCEPT !.torn = t]
                   /\ t = (disk[n].torn \/ \E k \in {"start", "renew"} : Between(<<k, n>>))
      BY <2>2
    <3>2. /\ {"cert", "key", "due", "torn"} \subseteq DOMAIN disk'[n]
          /\ disk'[n].cert = disk[n].cert /\ disk'[n].key = disk[n].key /\ disk'[n].torn = t
      BY <3>1 DEF DiskInv, DiskShape, FileShape
    <3>3. Between(Start(n)) \/ Between(Renew(n))
                => \E k \in {"start", "renew"} : Between(<<k, n>>)
      BY DEF Start, Renew
    <3>4. disk'[n].torn = (disk[n].torn \/ \E k \in {"start", "renew"} : Between(<<k, n>>))
      BY <3>1, <3>2, Zenon
    <3>5. disk[n].torn => disk'[n].torn
      BY <3>4, Zenon
    <3>6. (\E k \in {"start", "renew"} : Between(<<k, n>>)) => disk'[n].torn
      BY <3>4, Zenon
    <3>7. QED
      BY <3>2, <3>3, <3>5, <3>6
  <2>5. DiskShape'
    BY <1>1, <2>1, <2>3, <2>4 DEF DiskShape, FileShape, ProcessShape, NoLego
  <2>6. ASSUME NEW n \in TlsNodes PROVE Stored(n)'
    <3>1. lego'[Start(n)].at = "out" /\ lego'[Renew(n)].at = "out" /\ node'[n] = Stopped
      BY <1>0, <2>1, Fresh
    <3>2. QED
      BY <1>0, <2>4, <3>1, StoredDown DEF DiskInv
  <2>7. QED
    BY <2>5, <2>6 DEF DiskInv
<1>4. QED
  BY <1>2, <1>3

-----------------------------------------------------------------------------
\* Every other step is of one node: it leaves the others' view alone.
LEMMA OneNode ==
    ASSUME DiskInv, NEW n \in TlsNodes, DiskShape', Stored(n)', \A m \in TlsNodes \ {n} : Same(m)
    PROVE  DiskInv'
  BY SameStored DEF DiskInv

LEMMA DiskLego ==
    ASSUME IssueInv, DiskInv, NEW n \in TlsNodes, NEW k \in {"start", "renew"}, LegoStep(<<k, n>>)
    PROVE  DiskInv'
<1> DEFINE g == <<k, n>>
<1>0. /\ g \in Goroutines /\ g[1] = k /\ g[2] = n
      /\ \A m \in TlsNodes \ {n} : Start(m) \in Goroutines \ {g} /\ Renew(m) \in Goroutines \ {g}
  BY DEF Goroutines, Start, Renew
<1>1. DiskShape' /\ UNCHANGED <<panelSends, localMode>> /\ \A m \in TlsNodes \ {n} : disk'[m] = disk[m]
  BY <1>0, LegoWrites DEF DiskInv
<1>2. \A m \in TlsNodes \ {n} : node'[m] = node[m] /\ lego'[Start(m)] = lego[Start(m)]
                               /\ lego'[Renew(m)] = lego[Renew(m)]
  BY <1>0, LegoMoves DEF IssueInv, GoesOn, Ends, Kept
<1>3. Stored(n)'
  BY StoredStart, StoredRenewal DEF DiskInv, Start, Renew
<1>4. QED
  BY <1>1, <1>2, <1>3, OneNode DEF Same

\* Start takes what the panel sends and lays the local mode over it.
LEMMA DiskStart ==
    ASSUME IssueInv, DiskInv, NEW n \in TlsNodes, CertStart(n)
    PROVE  DiskInv'
<1>1. /\ UNCHANGED <<panelSends, localMode, lego, disk>> /\ node[n].at = "down"
      /\ node' = [node EXCEPT ![n] = [Stopped EXCEPT !.info = applyCertOverride(n, panelSends[n]),
                                                     !.at = "lock"]]
  BY DEF CertStart, Elsewhere, diskVars
<1>2. /\ FileShape' /\ PanelShape' /\ Configured(n)' = Configured(n)
      /\ DOMAIN node = TlsNodes /\ DOMAIN lego = Goroutines
  BY <1>1 DEF DiskInv, DiskShape, FileShape, PanelShape, ProcessShape, Configured
<1>3. /\ node'[n].info = applyCertOverride(n, panelSends[n]) /\ node'[n].at = "lock"
      /\ node'[n].serves = Down /\ node'[n].renewing = FALSE
      /\ DOMAIN node' = TlsNodes /\ \A m \in TlsNodes \ {n} : node'[m] = node[m]
      /\ DOMAIN node'[n] = {"info", "at", "serves", "renewing", "rotated", "rebuilt"}
  BY <1>1, <1>2, StoppedNode
<1>4. node'[n].info.mode = Configured(n) /\ node'[n].info.cert = panelSends[n].cert
  BY <1>3 DEF DiskInv, DiskShape, PanelShape, applyCertOverride, Configured
<1>5. DiskShape' /\ \A m \in TlsNodes \ {n} : Same(m)
  BY <1>1, <1>2, <1>3 DEF DiskInv, DiskShape, ProcessShape, Same
<1>6. lego[Start(n)].at = "out" /\ Stored(n)
  BY <1>1 DEF IssueInv, OneIssuer, DiskInv
<1>7. PlainIsSent(n)' /\ ~node'[n].renewing
  BY <1>3, FilesDiffer DEF PlainIsSent
<1>8. RenewedIsThere(n)' /\ PairOnDisk(n)' /\ RemoteOnDisk(n)'
  BY <1>1, <1>2, <1>3, <1>4, <1>6, <1>7 DEF Stored, RenewedIsThere, PairOnDisk, Between, RemoteOnDisk
<1>9. QED
  BY <1>5, <1>7, <1>8, OneNode DEF Stored

\* How far Start is, and nothing else of the controller.
LEMMA AtOnly ==
    ASSUME ProcessShape, NEW n \in TlsNodes, NEW a, node' = [node EXCEPT ![n].at = a]
    PROVE  /\ DOMAIN node' = TlsNodes /\ \A m \in TlsNodes \ {n} : node'[m] = node[m]
           /\ \A m \in TlsNodes :
            {"info", "at", "serves", "renewing", "rotated", "rebuilt"} \subseteq DOMAIN node'[m]
           /\ node'[n].at = a /\ node'[n].info = node[n].info /\ node'[n].serves = node[n].serves
           /\ node'[n].renewing = node[n].renewing /\ node'[n].rotated = node[n].rotated
           /\ node'[n].rebuilt = node[n].rebuilt
  BY DEF ProcessShape

LEMMA DiskLock ==
    ASSUME IssueInv, DiskInv, NEW n \in TlsNodes, LockCertMu(n)
    PROVE  DiskInv'
<1>1. /\ UNCHANGED <<panelSends, localMode, lego, disk>> /\ node[n].at = "lock"
      /\ node' = [node EXCEPT ![n].at = "request"]
  BY DEF LockCertMu, Elsewhere, diskVars
<1>2. Configured(n)' = Configured(n) /\ ProcessShape /\ Stored(n)
  BY <1>1 DEF Configured, DiskInv, DiskShape
<1>3. DiskShape' /\ \A m \in TlsNodes \ {n} : Same(m)
  BY <1>1, <1>2, AtOnly DEF DiskInv, DiskShape, FileShape, PanelShape, ProcessShape, Same
<1>4. RenewedIsThere(n)' /\ PairOnDisk(n)'
  BY <1>1, <1>2, AtOnly DEF Stored, RenewedIsThere, PairOnDisk, Between
<1>5. RemoteOnDisk(n)' 
  BY <1>1, <1>2, AtOnly DEF Stored, RemoteOnDisk
<1>6. PlainIsSent(n)'
  BY <1>1, <1>2, AtOnly DEF Stored, PlainIsSent
<1>7. QED
  BY <1>3, <1>4, <1>5, <1>6, OneNode DEF Stored

\* requestCert: what is there is taken, what the panel has is always written, and anything
\* else begins an issue only without a key.
LEMMA DiskRequest ==
    ASSUME IssueInv, DiskInv, NEW n \in TlsNodes, requestCert(n)
    PROVE  DiskInv'
<1> DEFINE g == Start(n)
<1>0. /\ UNCHANGED <<panelSends, localMode, disk>> /\ node[n].at = "request"
      /\ g \in Goroutines /\ Renew(n) \in Goroutines \ {g}
      /\ \A m \in TlsNodes \ {n} : Start(m) \in Goroutines \ {g} /\ Renew(m) \in Goroutines \ {g}
  BY DEF requestCert, Elsewhere, diskVars, Goroutines, Start, Renew
<1>1. Configured(n)' = Configured(n) /\ ProcessShape /\ FileShape' /\ PanelShape' /\ Stored(n)
  BY <1>0 DEF Configured, DiskInv, DiskShape, FileShape, PanelShape
<1>2. lego[g].at = "out" /\ node[n].info.mode = Configured(n)
  BY <1>0, <1>1 DEF IssueInv, OneIssuer, Stored, RenewedIsThere
<1>3. CASE /\ node' = [node EXCEPT ![n].at = "add"] /\ UNCHANGED lego
           /\ node[n].info.mode = "none" \/ AlreadyThere(n, node[n].info.mode)
  <2>1. DiskShape' /\ \A m \in TlsNodes \ {n} : Same(m)
    BY <1>0, <1>1, <1>3, AtOnly DEF DiskShape, ProcessShape, Same
  <2>2. Configured(n) # "remote" /\ (Configured(n) # "none" => disk[n].key # NoFile)
    BY <1>2, <1>3 DEF AlreadyThere
  <2>3. RenewedIsThere(n)' /\ PairOnDisk(n)'
    BY <1>0, <1>1, <1>2, <1>3, <2>2, AtOnly DEF Stored, RenewedIsThere, PairOnDisk, Between
  <2>4. RemoteOnDisk(n)'
    BY <1>1, <2>2 DEF RemoteOnDisk
  <2>5. PlainIsSent(n)'
    BY <1>0, <1>1, <1>3, AtOnly DEF Stored, PlainIsSent
  <2>6. QED
    BY <2>1, <2>3, <2>4, <2>5, OneNode DEF Stored
<1>4. ASSUME NEW a \in {"cert", "account"}, NEW h,
             lego' = [lego EXCEPT ![<<"start", n>>] =
                         [NoLego EXCEPT !.at = a, !.mode = node[n].info.mode, !.held = h]],
             node' = [node EXCEPT ![n].at = "issue"],
             a = "cert" => h.by \in {"host", "panel"},
             \/ node[n].info.mode = "remote" /\ a = "cert" /\ h = Remote(node[n].info.cert)
             \/ node[n].info.mode \in {"self", "dns"} /\ ~AlreadyThere(n, node[n].info.mode)
      PROVE  DiskInv'
  <2>1. /\ lego'[g].at = a /\ lego'[g].held = h /\ DOMAIN lego' = Goroutines
        /\ {"at", "mode", "set", "creds", "held"} \subseteq DOMAIN lego'[g]
        /\ \A k \in Goroutines \ {g} : lego'[k] = lego[k]
    BY <1>0, <1>1, <1>4 DEF ProcessShape, NoLego, Start
  <2>2. DiskShape' /\ \A m \in TlsNodes \ {n} : Same(m)
    BY <1>0, <1>1, <1>4, <2>1, AtOnly DEF DiskShape, ProcessShape, Same
  <2>3. Configured(n) # "remote" => disk[n].key = NoFile
    BY <1>1, <1>2, <1>4 DEF AlreadyThere, Stored, PairOnDisk
  <2>4. RenewedIsThere(n)'
    BY <1>0, <1>1, <1>2, <1>4, <2>1, <2>3, AtOnly DEF Stored, RenewedIsThere
  <2>5. PairOnDisk(n)'
    BY <1>0, <1>1, <1>2, <1>4, <2>1, AtOnly DEF Stored, PairOnDisk, Between
  <2>6. RemoteOnDisk(n)'
    BY <1>0, <1>1, <1>2, <1>4, <2>1, AtOnly DEF Stored, RemoteOnDisk
  <2>7. PlainIsSent(n)'
    BY <1>0, <1>1, <1>4, AtOnly DEF Stored, PlainIsSent
  <2>8. QED
    BY <2>2, <2>4, <2>5, <2>6, <2>7, OneNode DEF Stored
<1>5. Remote(node[n].info.cert).by = "panel" /\ generateSelfSslCertificate.by = "host"
  BY FilesDiffer DEF generateSelfSslCertificate
<1>6. QED
  BY <1>3, <1>4, <1>5 DEF requestCert

\* AddNode reads the pair, and begins the renewals of a node that issues its own.
LEMMA DiskAdd ==
    ASSUME IssueInv, DiskInv, NEW n \in TlsNodes, CertAddNode(n)
    PROVE  DiskInv'
<1>1. /\ UNCHANGED <<panelSends, localMode, lego, disk>> /\ node[n].at = "add"
      /\ \E w : /\ w = (node[n].info.mode = "dns")
                /\ node' = [node EXCEPT ![n].at = "up", ![n].serves = Loaded(n, node[n].info.mode),
                                        ![n].renewing = w]
  BY Zenon DEF CertAddNode, Elsewhere, diskVars
<1>2. /\ Configured(n)' = Configured(n) /\ ProcessShape /\ FileShape' /\ PanelShape' /\ Stored(n)
      /\ node[n].info.mode = Configured(n)
  BY <1>1 DEF Configured, DiskInv, DiskShape, FileShape, PanelShape, Stored, RenewedIsThere
<1>3. /\ node'[n].at = "up" /\ node'[n].serves = Loaded(n, Configured(n))
      /\ node'[n].info = node[n].info /\ node'[n].rotated = node[n].rotated
      /\ node'[n].rebuilt = node[n].rebuilt
      /\ node'[n].renewing = (Configured(n) = "dns")
      /\ {"info", "at", "serves", "renewing", "rotated", "rebuilt"} \subseteq DOMAIN node'[n]
      /\ DOMAIN node' = TlsNodes /\ \A m \in TlsNodes \ {n} : node'[m] = node[m]
  BY <1>1, <1>2 DEF ProcessShape
<1>4. DiskShape' /\ \A m \in TlsNodes \ {n} : Same(m)
  BY <1>1, <1>2, <1>3 DEF DiskShape, ProcessShape, Same
<1>5. node'[n].renewing => Configured(n) = "dns"
  BY <1>3, Zenon
<1>6. RenewedIsThere(n)' /\ PairOnDisk(n)'
  BY <1>1, <1>2, <1>3, <1>5 DEF Stored, RenewedIsThere, PairOnDisk, Between
<1>7. RemoteOnDisk(n)'
  BY <1>1, <1>2, <1>3, FilesDiffer DEF Stored, RemoteOnDisk, Loaded
<1>8. PlainIsSent(n)'
  <2>1. Loaded(n, Configured(n)) = Plain => Configured(n) = "none"
    BY <1>2, FilesDiffer DEF Loaded, Stored, PairOnDisk
  <2>2. Configured(n) = "none" => panelSends[n].mode = "none" /\ localMode[n] = ""
    BY DEF Configured, DiskInv, DiskShape, PanelShape
  <2>3. QED
    BY <1>1, <1>3, <2>1, <2>2 DEF PlainIsSent
<1>9. QED
  BY <1>4, <1>6, <1>7, <1>8, OneNode DEF Stored

\* A monitor cycle takes what the panel sends, and rebuilds from what is on disk.
LEMMA DiskMonitor ==
    ASSUME IssueInv, DiskInv, NEW n \in TlsNodes, CertMonitor(n)
    PROVE  DiskInv'
<1> DEFINE rebuilds == panelSends[n].port # node[n].info.port \/ panelSends[n].cert # node[n].info.cert
<1>1. /\ UNCHANGED <<panelSends, localMode, lego, disk>> /\ node[n].at = "up"
      /\ \E w : /\ w = (node[n].rebuilt \/ rebuilds)
                /\ node' = [node EXCEPT ![n].info = panelSends[n], ![n].rebuilt = w,
                                        ![n].serves = IF rebuilds THEN Loaded(n, panelSends[n].mode)
                                                      ELSE node[n].serves]
  <2>1. UNCHANGED <<panelSends, localMode, lego, disk>> /\ node[n].at = "up"
    BY DEF CertMonitor, Elsewhere, diskVars
  <2>2. node' = [node EXCEPT ![n].info = panelSends[n], ![n].rebuilt = @ \/ rebuilds,
                             ![n].serves = IF rebuilds THEN Loaded(n, panelSends[n].mode) ELSE @]
    BY Zenon DEF CertMonitor
  <2>3. QED
    BY <2>1, <2>2, Zenon
<1>2. Configured(n)' = Configured(n) /\ ProcessShape /\ FileShape' /\ PanelShape' /\ Stored(n)
  BY <1>1 DEF Configured, DiskInv, DiskShape, FileShape, PanelShape
<1> HIDE DEF rebuilds
<1>3. /\ node'[n].at = "up" /\ node'[n].info = panelSends[n] /\ node'[n].rotated = node[n].rotated
      /\ node'[n].serves = IF rebuilds THEN Loaded(n, panelSends[n].mode) ELSE node[n].serves
      /\ node'[n].renewing = node[n].renewing
      /\ node'[n].rebuilt = (node[n].rebuilt \/ rebuilds)
      /\ {"info", "at", "serves", "renewing", "rotated", "rebuilt"} \subseteq DOMAIN node'[n]
      /\ DOMAIN node' = TlsNodes /\ \A m \in TlsNodes \ {n} : node'[m] = node[m]
  BY <1>1, <1>2 DEF ProcessShape
<1>4. DiskShape' /\ \A m \in TlsNodes \ {n} : Same(m)
  BY <1>1, <1>2, <1>3 DEF DiskShape, ProcessShape, Same
<1>5. (node[n].rebuilt => node'[n].rebuilt) /\ (rebuilds => node'[n].rebuilt)
  BY <1>3, Zenon
<1>6. RenewedIsThere(n)' /\ PairOnDisk(n)'
  BY <1>1, <1>2, <1>3 DEF Stored, RenewedIsThere, PairOnDisk, Between
<1>7. RemoteOnDisk(n)'
  <2>1. Configured(n) = "remote" => panelSends[n].mode = "remote"
    BY DEF Configured, DiskInv, DiskShape, PanelShape
  <2>2. ASSUME Configured(n) = "remote", ~node[n].rotated
        PROVE  LET c == Remote(panelSends[n].cert)
               IN  disk[n].cert = c /\ disk[n].key = c /\ node'[n].serves = c
    <3>1. /\ node[n].info.cert = panelSends[n].cert /\ disk[n].cert = Remote(node[n].info.cert)
          /\ disk[n].key = disk[n].cert /\ node[n].serves = disk[n].cert
      BY <1>1, <1>2, <2>2 DEF Stored, RemoteOnDisk
    <3>2. Loaded(n, panelSends[n].mode) = disk[n].cert
      BY <2>1, <2>2, <3>1, FilesDiffer DEF Loaded
    <3>3. QED
      BY <1>3, <3>1, <3>2
  <2>3. (node'[n].rotated \/ ~node[n].rotated) /\ lego[Start(n)].at = "out"
    BY <1>1, <1>3 DEF IssueInv, OneIssuer
  <2>4. QED
    BY <1>1, <1>2, <1>3, <2>2, <2>3 DEF RemoteOnDisk
<1>8. PlainIsSent(n)'
  <2>1. Loaded(n, panelSends[n].mode) = Plain => panelSends[n].mode = "none"
    BY <1>2, FilesDiffer DEF Loaded, Stored, PairOnDisk
  <2>2. QED
    BY <1>1, <1>2, <1>3, <1>5, <2>1 DEF Stored, PlainIsSent
<1>9. QED
  BY <1>4, <1>6, <1>7, <1>8, OneNode DEF Stored

LEMMA DiskRenews ==
    ASSUME IssueInv, DiskInv, NEW n \in TlsNodes, renewCertTask(n)
    PROVE  DiskInv'
<1> DEFINE g == Renew(n)
<1>1. /\ UNCHANGED <<panelSends, localMode, node, disk>> /\ node[n].renewing
      /\ lego' = [lego EXCEPT ![g] = [NoLego EXCEPT !.at = "account", !.mode = node[n].info.mode]]
      /\ g \in Goroutines /\ Start(n) \in Goroutines \ {g}
      /\ \A m \in TlsNodes \ {n} : Start(m) \in Goroutines \ {g} /\ Renew(m) \in Goroutines \ {g}
  BY DEF renewCertTask, Elsewhere, diskVars, Goroutines, Start, Renew
<1>2. Configured(n)' = Configured(n) /\ ProcessShape /\ FileShape' /\ PanelShape' /\ Stored(n)
  BY <1>1 DEF Configured, DiskInv, DiskShape, FileShape, PanelShape
<1>3. /\ lego'[g].at = "account" /\ DOMAIN lego' = Goroutines
      /\ {"at", "mode", "set", "creds", "held"} \subseteq DOMAIN lego'[g]
      /\ \A k \in Goroutines \ {g} : lego'[k] = lego[k]
  BY <1>1, <1>2 DEF ProcessShape, NoLego
<1>4. DiskShape' /\ \A m \in TlsNodes \ {n} : Same(m)
  BY <1>1, <1>2, <1>3 DEF DiskShape, ProcessShape, Same
<1>5. lego[g].at = "out" /\ lego[Start(n)].at = "out"
  BY <1>1, <1>2, Fresh DEF renewCertTask, Renew, Stored, RenewedIsThere, IssueInv, OneIssuer
<1>6. RenewedIsThere(n)' /\ PairOnDisk(n)'
  BY <1>1, <1>2, <1>3, <1>5 DEF Stored, RenewedIsThere, PairOnDisk, Between
<1>7. RemoteOnDisk(n)' /\ PlainIsSent(n)'
  BY <1>1, <1>2, <1>3 DEF Stored, RemoteOnDisk, PlainIsSent
<1>8. QED
  BY <1>4, <1>6, <1>7, OneNode DEF Stored

\* The panel's changes, which a node learns of later, and a certificate that ages.
LEMMA DiskPanel ==
    ASSUME IssueInv, DiskInv, NEW n \in TlsNodes, PanelRotates(n) \/ PanelMovesPort(n) \/ CertAges(n)
    PROVE  DiskInv'
<1>0. /\ UNCHANGED <<localMode, lego>> /\ Stored(n) /\ FileShape /\ PanelShape /\ ProcessShape
  BY DEF PanelRotates, PanelMovesPort, CertAges, Elsewhere, DiskInv, DiskShape
<1>1. CASE PanelRotates(n)
  <2>1. /\ UNCHANGED disk /\ node' = [node EXCEPT ![n].rotated = TRUE]
        /\ \E c : panelSends' = [panelSends EXCEPT ![n].cert = c]
    BY <1>1 DEF PanelRotates, diskVars
  <2>2. /\ node'[n].at = node[n].at /\ node'[n].info = node[n].info /\ node'[n].serves = node[n].serves
        /\ node'[n].renewing = node[n].renewing /\ node'[n].rebuilt = node[n].rebuilt
        /\ node'[n].rotated = TRUE
        /\ {"info", "at", "serves", "renewing", "rotated", "rebuilt"} \subseteq DOMAIN node'[n]
        /\ DOMAIN node' = TlsNodes /\ \A m \in TlsNodes \ {n} : node'[m] = node[m]
    BY <1>0, <2>1 DEF ProcessShape
  <2>3. /\ panelSends'[n].mode = panelSends[n].mode /\ DOMAIN panelSends' = TlsNodes
        /\ {"mode", "cert", "port"} \subseteq DOMAIN panelSends'[n]
        /\ \A m \in TlsNodes \ {n} : panelSends'[m] = panelSends[m]
    BY <1>0, <2>1 DEF PanelShape
  <2>4. DiskShape' /\ \A m \in TlsNodes \ {n} : Same(m)
    <3>1. FileShape' /\ PanelShape'
      BY <1>0, <2>1, <2>3 DEF FileShape, PanelShape
    <3>2. ProcessShape'
      BY <1>0, <2>2 DEF ProcessShape
    <3>3. QED
      BY <1>0, <2>1, <2>2, <2>3, <3>1, <3>2 DEF DiskShape, Same
  <2>5. Configured(n)' = Configured(n)
    BY <1>0, <2>3 DEF Configured
  <2>6. RenewedIsThere(n)' /\ PairOnDisk(n)'
    BY <1>0, <2>1, <2>2, <2>5 DEF Stored, RenewedIsThere, PairOnDisk, Between
  <2>7. RemoteOnDisk(n)'
    BY <1>0, <2>1, <2>2, <2>5 DEF Stored, RemoteOnDisk
  <2>8. PlainIsSent(n)'
    BY <1>0, <2>2, <2>3 DEF Stored, PlainIsSent
  <2>9. QED
    BY <2>4, <2>6, <2>7, <2>8, OneNode DEF Stored
<1>2. CASE PanelMovesPort(n)
  <2>1. UNCHANGED <<disk, node>> /\ \E p : panelSends' = [panelSends EXCEPT ![n].port = p]
    BY <1>2 DEF PanelMovesPort, diskVars
  <2>2. /\ panelSends'[n].mode = panelSends[n].mode /\ panelSends'[n].cert = panelSends[n].cert
        /\ DOMAIN panelSends' = TlsNodes /\ {"mode", "cert", "port"} \subseteq DOMAIN panelSends'[n]
        /\ \A m \in TlsNodes \ {n} : panelSends'[m] = panelSends[m]
    BY <1>0, <2>1 DEF PanelShape
  <2>3. DiskShape' /\ \A m \in TlsNodes \ {n} : Same(m)
    BY <1>0, <2>1, <2>2 DEF DiskShape, FileShape, PanelShape, ProcessShape, Same
  <2>4. Configured(n)' = Configured(n)
    BY <1>0, <2>2 DEF Configured
  <2>5. RenewedIsThere(n)' /\ PairOnDisk(n)'
    BY <1>0, <2>1, <2>4 DEF Stored, RenewedIsThere, PairOnDisk, Between
  <2>6. RemoteOnDisk(n)'
    BY <1>0, <2>1, <2>2, <2>4 DEF Stored, RemoteOnDisk
  <2>7. PlainIsSent(n)'
    BY <1>0, <2>1, <2>2 DEF Stored, PlainIsSent
  <2>8. QED
    BY <2>3, <2>5, <2>6, <2>7, OneNode DEF Stored
<1>3. CASE CertAges(n)
  <2>1. UNCHANGED <<panelSends, node>> /\ disk' = [disk EXCEPT ![n].due = TRUE]
    BY <1>3 DEF CertAges, Elsewhere
  <2>2. /\ disk'[n].cert = disk[n].cert /\ disk'[n].key = disk[n].key /\ disk'[n].torn = disk[n].torn
        /\ DOMAIN disk' = TlsNodes /\ {"cert", "key", "due", "torn"} \subseteq DOMAIN disk'[n]
        /\ \A m \in TlsNodes \ {n} : disk'[m] = disk[m]
    BY <1>0, <2>1 DEF FileShape
  <2>3. DiskShape' /\ \A m \in TlsNodes \ {n} : Same(m)
    <3>1. FileShape' /\ PanelShape' /\ ProcessShape'
      BY <1>0, <2>1, <2>2 DEF FileShape, PanelShape, ProcessShape
    <3>2. QED
      BY <1>0, <2>1, <2>2, <3>1 DEF DiskShape, Same
  <2>4. Configured(n)' = Configured(n)
    BY <1>0, <2>1 DEF Configured
  <2>5. RenewedIsThere(n)' /\ RemoteOnDisk(n)' /\ PlainIsSent(n)'
    BY <1>0, <2>1, <2>2, <2>4 DEF Stored, RenewedIsThere, RemoteOnDisk, PlainIsSent
  <2>6. PairOnDisk(n)'
    BY <1>0, <2>1, <2>2, <2>4 DEF Stored, PairOnDisk, Between
  <2>7. QED
    BY <2>3, <2>5, <2>6, OneNode DEF Stored
<1>4. QED
  BY <1>1, <1>2, <1>3

LEMMA DiskInductive == CertSpec => [](IssueInv /\ DiskInv)
<1>1. IssueInv /\ DiskInv /\ [CertNext]_certVars => DiskInv'
  <2> SUFFICES ASSUME IssueInv, DiskInv, [CertNext]_certVars PROVE DiskInv'
    OBVIOUS
  <2>1. CASE CertReload \/ Crash
    BY <2>1, DiskStops
  <2>2. CASE UNCHANGED certVars
    <3>1. DiskShape' /\ \A n \in TlsNodes : Same(n)
      BY <2>2 DEF certVars, diskVars, DiskInv, DiskShape, FileShape, PanelShape, ProcessShape, Same
    <3>2. QED
      BY <3>1, SameStored DEF DiskInv
  <2>3. ASSUME NEW n \in TlsNodes, LegoStep(<<"start", n>>) \/ LegoStep(<<"renew", n>>) PROVE DiskInv'
    BY <2>3, DiskLego
  <2>4. ASSUME NEW n \in TlsNodes, CertStart(n) \/ LockCertMu(n) \/ requestCert(n) \/ CertAddNode(n)
        PROVE  DiskInv'
    BY <2>4, DiskStart, DiskLock, DiskRequest, DiskAdd
  <2>5. ASSUME NEW n \in TlsNodes, CertMonitor(n) \/ renewCertTask(n) \/ PanelRotates(n)
                                   \/ PanelMovesPort(n) \/ CertAges(n)
        PROVE  DiskInv'
    BY <2>5, DiskMonitor, DiskRenews, DiskPanel
  <2>6. QED
    BY <2>1, <2>2, <2>3, <2>4, <2>5 DEF CertNext, StartStep
<1>2. QED
  BY <1>1, DiskInit, IssueInductive, PTL DEF CertSpec

\* cert.go's IsExist of both files and lego's order of the two writes, each of which empties
\* its file first: whatever crashes, fails or outlives a reload, a node is added with a
\* certificate and a key that are there and belong together, unless a renewal is between
\* the first and the last step of the two writes, or an issue or a renewal was ended there.
THEOREM AddedPairIsWhole == CertSpec => []PairIsWhole
<1>1. IssueInv /\ DiskInv => PairIsWhole
  <2> SUFFICES ASSUME IssueInv, DiskInv, NEW n \in TlsNodes, node[n].at = "add", node[n].info.mode # "none"
               PROVE  /\ NoFile \notin {disk[n].cert, disk[n].key}
                      /\ \/ disk[n].cert = disk[n].key /\ disk[n].cert # Cut
                         \/ disk[n].torn \/ Between(<<"renew", n>>)
    BY DEF PairIsWhole
  <2>1. lego[Start(n)].at = "out" /\ Stored(n) /\ Configured(n) # "none"
    BY DEF IssueInv, OneIssuer, DiskInv, Stored, RenewedIsThere
  <2>2. QED
    BY <2>1 DEF Stored, PairOnDisk, Between, Renew
<1>2. QED
  BY <1>1, DiskInductive, PTL

\* A node in remote mode serves the panel's certificate of its last start whatever was on
\* disk, and no node serves without TLS unless the panel says so and the local settings
\* say nothing or a rebuild has lost them.
THEOREM ServedIsConfigured == CertSpec => []ServesAsConfigured
<1>1. DiskInv => ServesAsConfigured
  <2> SUFFICES ASSUME DiskInv, NEW n \in TlsNodes
               PROVE  /\ node[n].at = "up" /\ panelSends[n].mode = "remote" /\ localMode[n] = ""
                            /\ ~node[n].rotated
                            => node[n].serves = Remote(panelSends[n].cert)
                      /\ node[n].serves = Plain
                            => panelSends[n].mode = "none" /\ (localMode[n] = "" \/ node[n].rebuilt)
    BY DEF ServesAsConfigured
  <2>1. RemoteOnDisk(n) /\ PlainIsSent(n)
    BY DEF DiskInv, Stored
  <2>2. QED
    BY <2>1 DEF RemoteOnDisk, PlainIsSent, Configured
<1>2. QED
  BY <1>1, DiskInductive, PTL
=============================================================================
