-------------------------------- MODULE Cert --------------------------------
(***************************************************************************)
(* Certificates of the nodes of one process: requestCert in Controller's   *)
(* Start, one node at a time under certMu, the daily renewal task, and the *)
(* monitor's rebuild, which loads what is on disk.  Certificate and key    *)
(* are two files, each emptied before it is written; any of it may fail,   *)
(* the process may crash at any time, and a reload abandons a renewal that *)
(* does not return.                                                        *)
(***************************************************************************)
EXTENDS Naturals

CONSTANTS
    TlsNodes, Nobody,
    DnsKeys,            \* the variables of the DNS provider, which every node's DNSEnv sets
    Deployments         \* CertMode of the panel and of the local configuration, and how many
                        \*   panel changes, stops, agings and I/O faults

ASSUME CertAssumption ==
    /\ Nobody \notin TlsNodes /\ DnsKeys # {}
    /\ Deployments \subseteq [panel : [TlsNodes -> {"none", "self", "remote", "dns"}],
                              local : [TlsNodes -> {"", "dns"}], events : Nat]

VARIABLES
    panelSends, localMode,      \* mode, certificate and port; the local mode or ""
    node,               \* controller: c.info, how far Start is, what the inbound serves,
                        \*   whether there is a renewal task; history since Start: the
                        \*   panel's certificate was rotated, the inbound rebuilt
    certMu, dnsEnv,     \* the mutex, and whose value each variable of the environment has
    lego,               \* an issue or a renewal under way
    issued,             \* certificates made on this host
    disk,               \* certificate, key, whether it is due; history: the pair is torn
    account,            \* the ACME user's file, shared by the nodes
    crossed,            \* history: a renewal set its credentials during an issue
    left                \* of the deployment's events

diskVars == <<disk, account>>
certVars == <<panelSends, localMode, node, certMu, dnsEnv, lego, issued, diskVars, crossed, left>>

NoFile    == [by |-> "nobody", number |-> 0]
Cut       == [by |-> "cut", number |-> 0]          \* the file is there, and holds nothing usable
Down      == [by |-> "down", number |-> 0]
Plain     == [by |-> "plain", number |-> 0]
Broken    == [by |-> "mismatch", number |-> 0]     \* TLS, and no usable certificate
Remote(i) == [by |-> "panel", number |-> i]
Own(i)    == [by |-> "host", number |-> i]
NoLego    == [at |-> "out", mode |-> "", set |-> {}, creds |-> {}, held |-> NoFile]
Stopped   == [info |-> [mode |-> "", cert |-> 0, port |-> 0], at |-> "down", serves |-> Down,
              renewing |-> FALSE, rotated |-> FALSE, rebuilt |-> FALSE]

Goroutines == {"start", "renew"} \X TlsNodes

CertTypeOK ==
    /\ account \in {"none", "torn", "saved"} /\ dnsEnv \in [DnsKeys -> TlsNodes \cup {Nobody}]
    /\ \A n \in TlsNodes :
         /\ node[n].at \in {"down", "lock", "request", "issue", "add", "up", "failed"}
         /\ certMu = n <=> node[n].at \in {"request", "issue"}
         /\ lego[<<"start", n>>] # NoLego <=> node[n].at = "issue"
         /\ disk[n].cert = NoFile => ~disk[n].due
    /\ \A g \in Goroutines : lego[g].at \in {"out", "account", "save", "setenv", "check", "obtain",
                                             "cert", "certcut", "key", "keycut"}

Spend == left > 0 /\ left' = left - 1

-----------------------------------------------------------------------------
(* Issuing and renewing: lego.go.                                           *)

\* Mutant: certMu stays locked after a failure.
ReturnsLocked(g, ok) ==
    /\ lego' = [lego EXCEPT ![g] = NoLego]
    /\ IF g[1] = "renew" \/ ~ok THEN UNCHANGED <<certMu, node>>
       ELSE certMu' = Nobody /\ node' = [node EXCEPT ![g[2]].at = "add"]

\* A renewal's error is logged; Start fails.
Returns(g, ok) ==
    /\ lego' = [lego EXCEPT ![g] = NoLego]
    /\ IF g[1] = "renew" THEN UNCHANGED <<certMu, node>>
       ELSE certMu' = Nobody /\ node' = [node EXCEPT ![g[2]].at = IF ok THEN "add" ELSE "failed"]

Step(g, next) == lego' = [lego EXCEPT ![g].at = next] /\ UNCHANGED <<certMu, node>>

Elsewhere == UNCHANGED <<panelSends, localMode>>

\* The account is registered if it has no file, which Save truncates first; one that
\* cannot be decoded is an error, now and ever after.
NewLegoUser(g) ==
    /\ lego[g].at = "account"
    /\ \/ account = "saved" /\ Step(g, "setenv") /\ UNCHANGED <<account, left>>
       \/ account = "none" /\ Step(g, "save") /\ account' = "torn" /\ UNCHANGED left
       \/ account = "none" /\ Spend /\ Returns(g, FALSE) /\ UNCHANGED account
       \/ account = "torn" /\ Returns(g, FALSE) /\ UNCHANGED <<account, left>>
    /\ UNCHANGED <<dnsEnv, issued, disk, crossed>> /\ Elsewhere

Save(g) ==
    /\ lego[g].at = "save"
    /\ \/ account' = "saved" /\ Step(g, "setenv") /\ UNCHANGED left
       \/ Spend /\ Returns(g, FALSE) /\ UNCHANGED account
    /\ UNCHANGED <<dnsEnv, issued, disk, crossed>> /\ Elsewhere

\* The credentials go into the process's environment one by one, as the map's order has it,
\* and nothing takes them out again.
SetProviderEnv(g) ==
    /\ lego[g].at = "setenv" /\ lego[g].mode = "dns"
    /\ \E k \in DnsKeys \ lego[g].set :
         /\ dnsEnv' = [dnsEnv EXCEPT ![k] = g[2]]
         /\ lego' = [lego EXCEPT ![g].set = @ \cup {k}]
    /\ crossed' = (crossed \/ (g[1] = "renew" /\ certMu # Nobody))
    /\ UNCHANGED <<certMu, node, issued, diskVars, left>> /\ Elsewhere

\* The provider takes them from there, whoever set them last.
SetProvider(g) ==
    /\ lego[g].at = "setenv" /\ (lego[g].mode = "dns" => lego[g].set = DnsKeys)
    /\ lego' = [lego EXCEPT ![g].at = IF g[1] = "renew" THEN "check" ELSE "obtain",
                            ![g].creds = {dnsEnv[k] : k \in lego[g].set}]
    /\ UNCHANGED <<certMu, node, dnsEnv, issued, diskVars, crossed, left>> /\ Elsewhere

\* RenewCert goes on only with a certificate that can be parsed and ends within 30 days.
CheckCert(g) ==
    /\ lego[g].at = "check"
    /\ IF disk[g[2]].due THEN Step(g, "obtain") ELSE Returns(g, FALSE)
    /\ UNCHANGED <<dnsEnv, issued, diskVars, crossed, left>> /\ Elsewhere

\* The challenge needs a provider with this node's credentials.
Obtain(g) ==
    /\ lego[g].at = "obtain"
    /\ \/ /\ lego[g].creds = {g[2]}
          /\ issued' = issued + 1
          /\ lego' = [lego EXCEPT ![g].at = "cert", ![g].held = Own(issued + 1)]
          /\ UNCHANGED <<certMu, node, left>>
       \/ /\ IF lego[g].creds = {g[2]} THEN Spend ELSE UNCHANGED left
          /\ Returns(g, FALSE)
          /\ UNCHANGED issued
    /\ UNCHANGED <<dnsEnv, diskVars, crossed>> /\ Elsewhere

\* The four steps of the two writes, for a host's certificate and for the panel's: a file is
\* emptied when it is opened (or created empty), then filled.  generateSelfSslCertificate
\* does not empty a file it finds, and overwrites it in place.
OpenCert(g) ==
    /\ lego[g].at = "cert"
    /\ \/ /\ disk' = [disk EXCEPT ![g[2]].cert = Cut, ![g[2]].due = FALSE]
          /\ Step(g, "certcut") /\ UNCHANGED left
       \/ Spend /\ Returns(g, FALSE) /\ UNCHANGED disk
    /\ UNCHANGED <<dnsEnv, issued, account, crossed>> /\ Elsewhere

\* Between the first and the last step of the two writes.
Between(g) == lego[g].at \in {"certcut", "key", "keycut"}

\* From here on an end before the last step leaves a torn pair.
EndsTorn(g) == Spend /\ Returns(g, FALSE) /\ disk' = [disk EXCEPT ![g[2]].torn = TRUE]

writeCert(g) ==
    /\ lego[g].at = "certcut"
    /\ \/ disk' = [disk EXCEPT ![g[2]].cert = lego[g].held] /\ Step(g, "key") /\ UNCHANGED left
       \/ EndsTorn(g)
    /\ UNCHANGED <<dnsEnv, issued, account, crossed>> /\ Elsewhere

OpenKey(g) ==
    /\ lego[g].at = "key"
    /\ \/ disk' = [disk EXCEPT ![g[2]].key = Cut] /\ Step(g, "keycut") /\ UNCHANGED left
       \/ EndsTorn(g)
    /\ UNCHANGED <<dnsEnv, issued, account, crossed>> /\ Elsewhere

writeKey(g) ==
    /\ lego[g].at = "keycut"
    /\ \/ /\ disk' = [disk EXCEPT ![g[2]].key = lego[g].held, ![g[2]].torn = FALSE]
          /\ Returns(g, TRUE) /\ UNCHANGED left
       \/ EndsTorn(g)
    /\ UNCHANGED <<dnsEnv, issued, account, crossed>> /\ Elsewhere

-----------------------------------------------------------------------------
(* Controller.Start, as far as certificates go.                             *)

\* Mutant: the local certificate settings are not laid over the panel's.
overrideForgotten(n, sent) == sent

applyCertOverride(n, sent) ==
    IF localMode[n] = "" THEN sent ELSE [sent EXCEPT !.mode = localMode[n]]

CertStart(n) ==
    /\ node[n].at = "down"
    /\ node' = [node EXCEPT ![n] = [Stopped EXCEPT !.info = applyCertOverride(n, panelSends[n]),
                                                   !.at = "lock"]]
    /\ UNCHANGED <<certMu, dnsEnv, lego, issued, diskVars, crossed, left>> /\ Elsewhere

\* Mutant: certificates are requested without the mutex.
LockForgotten(n) ==
    /\ node[n].at = "lock"
    /\ node' = [node EXCEPT ![n].at = "request"]
    /\ certMu' = n
    /\ crossed' = FALSE
    /\ UNCHANGED <<dnsEnv, lego, issued, diskVars, left>> /\ Elsewhere

LockCertMu(n) ==
    /\ node[n].at = "lock" /\ certMu = Nobody
    /\ node' = [node EXCEPT ![n].at = "request"]
    /\ certMu' = n
    /\ crossed' = FALSE
    /\ UNCHANGED <<dnsEnv, lego, issued, diskVars, left>> /\ Elsewhere

\* Mutant: the certificate's file is enough.
CertFileOnly(n, mode) == mode \in {"self", "dns"} /\ disk[n].cert # NoFile

\* Files that exist are taken as they are, whatever they hold; the panel's are rewritten.
AlreadyThere(n, mode) == mode \in {"self", "dns"} /\ disk[n].cert # NoFile /\ disk[n].key # NoFile

generateSelfSslCertificate == Own(issued + 1)

requestCert(n) ==
    LET mode   == node[n].info.mode
        goOn   == certMu' = Nobody /\ node' = [node EXCEPT ![n].at = "add"] /\ UNCHANGED lego
        through(at, held) ==
            /\ lego' = [lego EXCEPT ![<<"start", n>>] = [NoLego EXCEPT !.at = at, !.mode = mode,
                                                                        !.held = held]]
            /\ node' = [node EXCEPT ![n].at = "issue"] /\ UNCHANGED certMu
    IN /\ node[n].at = "request"
       /\ \/ (mode = "none" \/ AlreadyThere(n, mode)) /\ goOn /\ UNCHANGED issued
          \/ /\ mode = "self" /\ ~AlreadyThere(n, mode)
             /\ through("cert", generateSelfSslCertificate) /\ issued' = issued + 1
          \/ /\ mode = "remote" /\ ~AlreadyThere(n, mode)
             /\ through("cert", Remote(node[n].info.cert)) /\ UNCHANGED issued
          \/ /\ mode = "dns" /\ ~AlreadyThere(n, mode)
             /\ through("account", NoFile) /\ UNCHANGED issued
       /\ UNCHANGED <<dnsEnv, diskVars, crossed, left>> /\ Elsewhere

\* buildInbound: the pair is read once, and a pair that cannot be used is no error.
Loaded(n, mode) == IF mode = "none" THEN Plain
                   ELSE IF disk[n].cert = disk[n].key /\ disk[n].cert # Cut THEN disk[n].cert
                   ELSE Broken

\* AddNode, and the renewal task of a node whose certificate is issued here.
CertAddNode(n) ==
    /\ node[n].at = "add"
    /\ node' = [node EXCEPT ![n].at = "up", ![n].serves = Loaded(n, node[n].info.mode),
                            ![n].renewing = node[n].info.mode = "dns"]
    /\ UNCHANGED <<certMu, dnsEnv, lego, issued, diskVars, crossed, left>> /\ Elsewhere

-----------------------------------------------------------------------------
(* The node's tasks.                                                        *)

\* What the panel sends now takes the place of c.info, local settings included; a changed
\* port or certificate rebuilds the inbound from what is on disk.
CertMonitor(n) ==
    LET sent     == panelSends[n]
        rebuilds == sent.port # node[n].info.port \/ sent.cert # node[n].info.cert
    IN /\ node[n].at = "up"
       /\ node' = [node EXCEPT ![n].info = sent, ![n].rebuilt = @ \/ rebuilds,
                               ![n].serves = IF rebuilds THEN Loaded(n, sent.mode) ELSE @]
       /\ UNCHANGED <<certMu, dnsEnv, lego, issued, diskVars, crossed, left>> /\ Elsewhere

\* One renewal of a node at a time (a bound: an abandoned one may still be running).
renewCertTask(n) ==
    /\ node[n].renewing /\ lego[<<"renew", n>>] = NoLego
    /\ lego' = [lego EXCEPT ![<<"renew", n>>] = [NoLego EXCEPT !.at = "account",
                                                              !.mode = node[n].info.mode]]
    /\ UNCHANGED <<node, certMu, dnsEnv, issued, diskVars, crossed, left>> /\ Elsewhere

-----------------------------------------------------------------------------
(* The surroundings.                                                        *)

PanelRotates(n) ==
    /\ Spend /\ panelSends[n].mode = "remote"
    /\ panelSends' = [panelSends EXCEPT ![n].cert = @ + 1]
    /\ node' = [node EXCEPT ![n].rotated = TRUE]
    /\ UNCHANGED <<localMode, certMu, dnsEnv, lego, issued, diskVars, crossed>>

PanelMovesPort(n) ==
    /\ Spend
    /\ panelSends' = [panelSends EXCEPT ![n].port = @ + 1]
    /\ UNCHANGED <<localMode, node, certMu, dnsEnv, lego, issued, diskVars, crossed>>

CertAges(n) ==
    /\ Spend /\ disk[n].cert.by = "host" /\ ~disk[n].due
    /\ disk' = [disk EXCEPT ![n].due = TRUE]
    /\ UNCHANGED <<node, certMu, dnsEnv, lego, issued, account, crossed>> /\ Elsewhere

\* A reload closes what Start has left up or failed, and a renewal that does not return
\* within the task's timeout goes on.
CertReload ==
    /\ Spend /\ \A n \in TlsNodes : node[n].at \in {"up", "failed"}
    /\ node' = [n \in TlsNodes |-> Stopped]
    /\ UNCHANGED <<certMu, dnsEnv, lego, issued, diskVars, crossed>> /\ Elsewhere

Crash ==
    /\ Spend
    /\ node' = [n \in TlsNodes |-> Stopped] /\ lego' = [g \in Goroutines |-> NoLego]
    /\ certMu' = Nobody /\ dnsEnv' = [k \in DnsKeys |-> Nobody] /\ crossed' = FALSE
    /\ disk' = [n \in TlsNodes |-> [disk[n] EXCEPT
                   !.torn = @ \/ \E k \in {"start", "renew"} : Between(<<k, n>>)]]
    /\ UNCHANGED <<issued, account>> /\ Elsewhere

-----------------------------------------------------------------------------
CertInit ==
    /\ \E d \in Deployments :
         /\ panelSends = [n \in TlsNodes |-> [mode |-> d.panel[n], cert |-> 1, port |-> 1]]
         /\ localMode = d.local /\ left = d.events
    /\ node = [n \in TlsNodes |-> Stopped]
    /\ certMu = Nobody /\ dnsEnv = [k \in DnsKeys |-> Nobody]
    /\ lego = [g \in Goroutines |-> NoLego]
    /\ issued = 0 /\ account = "none" /\ crossed = FALSE
    /\ disk = [n \in TlsNodes |-> [cert |-> NoFile, key |-> NoFile, due |-> FALSE, torn |-> FALSE]]

LegoStep(g) == NewLegoUser(g) \/ Save(g) \/ SetProviderEnv(g) \/ SetProvider(g) \/ CheckCert(g)
               \/ Obtain(g) \/ OpenCert(g) \/ writeCert(g) \/ OpenKey(g) \/ writeKey(g)

StartStep(n) == requestCert(n) \/ LegoStep(<<"start", n>>) \/ CertAddNode(n)

CertNext ==
    \/ \E n \in TlsNodes : CertStart(n) \/ LockCertMu(n) \/ StartStep(n) \/ CertMonitor(n)
                          \/ renewCertTask(n) \/ LegoStep(<<"renew", n>>)
    \/ \E n \in TlsNodes : PanelRotates(n) \/ PanelMovesPort(n) \/ CertAges(n)
    \/ CertReload \/ Crash

\* A waiter gets the mutex in the end, and lego's requests time out.  No renewal is
\* promised to end, and nothing outside is promised to happen.
CertFairness == \A n \in TlsNodes : WF_certVars(LockCertMu(n) \/ StartStep(n))

CertSpec == CertInit /\ [][CertNext]_certVars /\ CertFairness

-----------------------------------------------------------------------------
(* Properties.                                                              *)

\* What a start takes into service is a pair: one of which only the certificate's file was
\* there when the process died or a write failed is issued again (cert.go, IsExist of
\* both), and the two files belong together, unless a renewal that outlived a reload is
\* between the two, or a crash or a failed write has ended one there.  Such a pair, an
\* emptied certificate beside the old key among them, is never issued again, since both
\* files exist, nor renewed, if it is the certificate that cannot be parsed.
PairIsWhole ==
    \A n \in TlsNodes : node[n].at = "add" /\ node[n].info.mode # "none" =>
        /\ NoFile \notin {disk[n].cert, disk[n].key}
        /\ \/ disk[n].cert = disk[n].key /\ disk[n].cert # Cut
           \/ disk[n].torn \/ Between(<<"renew", n>>)

\* A node serves as it is configured.  In remote mode that is the certificate its clients
\* pin, after every restart and whatever is on disk, unless the panel rotated it since
\* Start: the rebuild a rotation causes does not write the new one (cert.go:74 says it is
\* rewritten on every rebuild).  A node the operator gave a certificate of its own never
\* serves without TLS before its first rebuild, which loses the local settings (task.go,
\* c.info = newN).
ServesAsConfigured ==
    \A n \in TlsNodes :
        /\ node[n].at = "up" /\ panelSends[n].mode = "remote" /\ localMode[n] = "" /\ ~node[n].rotated
              => node[n].serves = Remote(panelSends[n].cert)
        /\ node[n].serves = Plain
              => panelSends[n].mode = "none" /\ (localMode[n] = "" \/ node[n].rebuilt)

\* A certificate is requested in Start with the node's own DNS credentials: certMu keeps
\* other starts out of the environment, and only a renewal, which does not take it, can
\* come between.
IssuedWithOwnCredentials ==
    \A n \in TlsNodes : lego[<<"start", n>>].at = "obtain"
                            => lego[<<"start", n>>].creds = {n} \/ crossed

\* A start comes to an end, with the node up or failed, however many wait for certMu and
\* whichever step fails.
StartsReturn ==
    \A n \in TlsNodes : node[n].at \in {"lock", "request", "issue", "add"}
                            ~> node[n].at \in {"up", "failed", "down"}
=============================================================================
