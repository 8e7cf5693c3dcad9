------------------------------- MODULE Relay -------------------------------
(***************************************************************************)
(* A relayed session of one of the three relays that are v2node's own: the *)
(* SNI router in front of Reality's decoys, the simple-obfs front, and the *)
(* bridge of a mieru session.  A handler goroutine reads the client's      *)
(* hello or request, gets the upstream, and runs two copiers under an      *)
(* inactivity timer.  The peers send the units 1, 2, ... or end; a peer    *)
(* that does not read blocks the copier that writes to it.                 *)
(***************************************************************************)
EXTENDS Naturals, Sequences

CONSTANTS
    MaxUnits,       \* units a peer sends at most
    IdleTimeout,    \* relayIdleTimeout, obfsRelayIdle, bridgeIdleTimeout, in ticks
    OneWayTimeout   \* bridgeOneWayTimeout

ASSUME RelayAssumption ==
    /\ MaxUnits \in Nat
    /\ {IdleTimeout, OneWayTimeout} \subseteq Nat \ {0}
    /\ OneWayTimeout <= IdleTimeout

Peers == {"client", "upstream"}
Other(p) == CHOOSE q \in Peers : q # p

VARIABLES
    relay,          \* "snirouter", "obfs" or "mieru"
    session,        \* the handler: "none", "hello", "dial", "replay", "relay", "closing", "over"
    sent, ended,    \* what each peer has sent, and whether it has ended
    taken,          \* how much of it was read
    peeked,         \* peekableConn.buf, or the request of mieru
    got,            \* what each peer has received, 0 being the relay's own greeting
    copier, held,   \* the copier that reads from a peer, the unit it is to write
    idle, armed, limit,     \* the inactivity timer
    firing,         \* its function has been started and has not closed anything yet
    quiet,          \* history: ticks since something was read or the timeout was set
    failed,         \* a copier ended with an error
    closedBoth

copyVars  == <<taken, got, copier, held, failed>>
timerVars == <<idle, armed, limit, firing, quiet>>
relayVars == <<relay, session, sent, ended, peeked, copyVars, timerVars, closedBoth>>

RelayTypeOK ==
    /\ session \in {"none", "hello", "dial", "replay", "relay", "closing", "over"}
    /\ sent \in [Peers -> 0 .. MaxUnits] /\ ended \in [Peers -> BOOLEAN]
    /\ taken \in [Peers -> 0 .. MaxUnits] /\ held \in [Peers -> 0 .. MaxUnits]
    /\ peeked \in Seq(1 .. MaxUnits) /\ got \in [Peers -> Seq(0 .. MaxUnits)]
    /\ copier \in [Peers -> {"off", "read", "write", "done"}]
    /\ limit \in {IdleTimeout, OneWayTimeout} /\ idle \in 0 .. limit /\ quiet \in 0 .. IdleTimeout
    /\ {armed, firing, failed, closedBoth} \subseteq BOOLEAN

-----------------------------------------------------------------------------
(* The peers.                                                               *)

PeerSends(p) ==
    /\ ~ended[p] /\ sent[p] < MaxUnits
    /\ session # "none" /\ (p = "upstream" => session \in {"replay", "relay"})
    /\ sent' = [sent EXCEPT ![p] = @ + 1]
    /\ UNCHANGED <<relay, session, ended, peeked, copyVars, timerVars, closedBoth>>

PeerEnds(p) ==
    /\ ~ended[p]
    /\ p = "upstream" => session \in {"replay", "relay"}
    /\ ended' = [ended EXCEPT ![p] = TRUE]
    /\ UNCHANGED <<relay, session, sent, peeked, copyVars, timerVars, closedBoth>>

-----------------------------------------------------------------------------
(* The handler.                                                             *)

Handler(next) == session' = next /\ UNCHANGED <<relay, sent, ended, timerVars>>

\* acceptLoop starts a handler; obfs dials before it reads anything.
Accept ==
    /\ session = "none"
    /\ Handler(IF relay = "obfs" THEN "dial" ELSE "hello")
    /\ UNCHANGED <<peeked, copyVars, closedBoth>>

Greet(p) == got' = [got EXCEPT ![p] = Append(@, 0)]

\* The hello is read, in as many reads as it takes, or what was read is none.  The
\* handshake of the SNI router is aborted, on purpose if there was a hello, upon which
\* crypto/tls sends the client an alert.
ReadHello(complete) ==
    /\ session = "hello" /\ taken["client"] < sent["client"]
    /\ relay = "mieru" => complete
    /\ peeked' = Append(peeked, taken["client"] + 1)
    /\ taken' = [taken EXCEPT !["client"] = @ + 1]
    /\ IF complete /\ relay = "snirouter" THEN Greet("client") ELSE UNCHANGED got
    /\ Handler(IF complete THEN "dial" ELSE "hello")
    /\ UNCHANGED <<copier, held, failed, closedBoth>>

\* No hello within the read deadline, or the client ends: mieru gives up, the SNI
\* router goes on to its default with what it has.
HelloFails ==
    /\ session = "hello"
    /\ Handler(IF relay = "mieru" THEN "over" ELSE "dial")
    /\ closedBoth' = (relay = "mieru")
    /\ UNCHANGED <<peeked, copyVars>>

\* No destination for the name, a dial that fails or times out, a refused dispatch.
DialFails ==
    /\ session = "dial"
    /\ Handler("over")
    /\ closedBoth' = TRUE
    /\ UNCHANGED <<peeked, copyVars>>

Dial ==
    /\ session = "dial"
    /\ Handler("replay")
    /\ UNCHANGED <<peeked, copyVars, closedBoth>>

\* The SNI router writes to the upstream, mieru to the client.
ReplayFails ==
    /\ session = "replay"
    /\ \/ relay = "snirouter" /\ ended["upstream"]
       \/ relay = "mieru" /\ ended["client"]
    /\ Handler("over")
    /\ closedBoth' = TRUE
    /\ UNCHANGED <<peeked, copyVars>>

StartCopiers ==
    /\ copier' = [p \in Peers |-> "read"]
    /\ armed' = TRUE /\ idle' = 0 /\ quiet' = 0
    /\ session' = "relay"
    /\ UNCHANGED <<relay, sent, ended, taken, held, limit, firing, failed, closedBoth>>

\* Mutant: the bytes the hello was read from are not replayed.
ReplayForgotten == session = "replay" /\ StartCopiers /\ UNCHANGED got /\ peeked' = <<>>

\* The SNI router replays what it peeked; mieru answers the request.
Replay ==
    /\ session = "replay"
    /\ \/ relay = "snirouter" /\ got' = [got EXCEPT !["upstream"] = @ \o peeked] /\ peeked' = <<>>
       \/ relay = "mieru" /\ Greet("client") /\ UNCHANGED peeked
       \/ relay = "obfs" /\ UNCHANGED <<got, peeked>>
    /\ StartCopiers

\* Mutant: nobody closes the connections when one direction ends.
RelayEndedOpen ==
    /\ session = "relay" /\ relay # "mieru" /\ \E p \in Peers : copier[p] = "done"
    /\ session' = "closing"
    /\ armed' = FALSE
    /\ UNCHANGED <<relay, sent, ended, peeked, copyVars, idle, limit, firing, quiet, closedBoth>>

\* One direction has ended: the timer is stopped and both connections are closed.
\* mieru waits for both directions, an error or the cancelled context.
RelayEnded ==
    /\ session = "relay"
    /\ IF relay = "mieru"
       THEN failed \/ closedBoth \/ \A p \in Peers : copier[p] = "done"
       ELSE \E p \in Peers : copier[p] = "done"
    /\ session' = IF relay = "mieru" THEN "over" ELSE "closing"
    /\ armed' = FALSE /\ closedBoth' = TRUE
    /\ UNCHANGED <<relay, sent, ended, peeked, copyVars, idle, limit, firing, quiet>>

BothEnded ==
    /\ session = "closing" /\ \A p \in Peers : copier[p] = "done"
    /\ session' = "over"
    /\ UNCHANGED <<relay, sent, ended, peeked, copyVars, timerVars, closedBoth>>

-----------------------------------------------------------------------------
(* The copiers, one per peer that is read.                                  *)

Reads(p) ==
    /\ copier[p] = "read" /\ taken[p] < sent[p] /\ ~closedBoth
    /\ taken' = [taken EXCEPT ![p] = @ + 1]
    /\ held' = [held EXCEPT ![p] = taken[p] + 1]
    /\ copier' = [copier EXCEPT ![p] = "write"]
    /\ quiet' = 0
    /\ UNCHANGED <<relay, session, sent, ended, peeked, got, failed, limit, firing, closedBoth>>

\* Mutant: only what the client sends counts as activity.
CopyReadUntouched(p) ==
    /\ Reads(p)
    /\ IF p = "client" THEN idle' = 0 /\ armed' = TRUE ELSE UNCHANGED <<idle, armed>>

\* touch resets the timer, even one that was stopped or whose function is running.
CopyRead(p) == Reads(p) /\ idle' = 0 /\ armed' = TRUE

\* The obfs front puts its fake handshake before the first unit for the client.
CopyWrite(p) ==
    LET q == Other(p)
        greeting == IF relay = "obfs" /\ p = "upstream" /\ got[q] = <<>> THEN <<0>> ELSE <<>> IN
    /\ copier[p] = "write" /\ ~closedBoth
    /\ got' = [got EXCEPT ![q] = @ \o greeting \o <<held[p]>>]
    /\ held' = [held EXCEPT ![p] = 0]
    /\ copier' = [copier EXCEPT ![p] = "read"]
    /\ UNCHANGED <<relay, session, sent, ended, peeked, taken, failed, timerVars, closedBoth>>

\* mieru gives the other direction the one-way timeout, however this one ended.
Ends(p) ==
    /\ copier' = [copier EXCEPT ![p] = "done"]
    /\ IF relay = "mieru" THEN limit' = OneWayTimeout /\ idle' = 0 /\ quiet' = 0
       ELSE UNCHANGED <<limit, idle, quiet>>
    /\ UNCHANGED <<relay, session, sent, ended, peeked, taken, got, held, armed, firing, closedBoth>>

CopyEof(p) ==
    /\ copier[p] = "read" /\ ended[p] /\ taken[p] = sent[p] /\ ~closedBoth
    /\ Ends(p)
    /\ UNCHANGED failed

\* A closed connection, a peer that is gone, a read that ends with an error and not
\* with the end of the stream, a hello that is none or comes too late.
CopyFails(p) ==
    /\ \/ copier[p] \in {"read", "write"} /\ closedBoth
       \/ copier[p] = "write" /\ ended[Other(p)]
       \/ copier[p] = "read" /\ ended[p]
       \/ relay = "obfs" /\ p = "client" /\ copier[p] = "read" /\ taken[p] = 0
    /\ Ends(p)
    /\ failed' = TRUE

-----------------------------------------------------------------------------
(* The timer.  Its function is closeBoth, or the cancel of the context      *)
(* whose watcher closes: it runs on a goroutine of its own, and a read may  *)
(* complete before it has closed anything.                                  *)

RelayTick ==
    /\ armed /\ idle < limit
    /\ idle' = idle + 1
    /\ quiet' = IF quiet < IdleTimeout THEN quiet + 1 ELSE quiet
    /\ UNCHANGED <<relay, session, sent, ended, peeked, copyVars, armed, limit, firing, closedBoth>>

TimerFires ==
    /\ armed /\ idle = limit
    /\ armed' = FALSE /\ firing' = TRUE
    /\ UNCHANGED <<relay, session, sent, ended, peeked, copyVars, idle, limit, quiet, closedBoth>>

closeBoth ==
    /\ firing
    /\ firing' = FALSE /\ closedBoth' = TRUE
    /\ UNCHANGED <<relay, session, sent, ended, peeked, copyVars, idle, armed, limit, quiet>>

-----------------------------------------------------------------------------

RelayInit ==
    /\ relay \in {"snirouter", "obfs", "mieru"}
    /\ session = "none"
    /\ sent = [p \in Peers |-> 0] /\ ended = [p \in Peers |-> FALSE]
    /\ taken = [p \in Peers |-> 0] /\ held = [p \in Peers |-> 0]
    /\ peeked = <<>> /\ got = [p \in Peers |-> <<>>]
    /\ copier = [p \in Peers |-> "off"]
    /\ idle = 0 /\ armed = FALSE /\ limit = IdleTimeout /\ firing = FALSE /\ quiet = 0
    /\ failed = FALSE /\ closedBoth = FALSE

HandlerStep == (\E complete \in BOOLEAN : ReadHello(complete)) \/ HelloFails \/ DialFails \/ Dial
               \/ ReplayFails \/ Replay \/ RelayEnded \/ BothEnded
CopierStep(p) == CopyRead(p) \/ CopyEof(p) \/ CopyFails(p)

RelayNext ==
    \/ \E p \in Peers : PeerSends(p) \/ PeerEnds(p) \/ CopierStep(p) \/ CopyWrite(p)
    \/ Accept \/ HandlerStep
    \/ RelayTick \/ TimerFires \/ closeBoth

\* Reads, dials and replays have deadlines or peers that are there; a write has none,
\* it ends when the peer reads or when the connection is closed.
RelayFairness ==
    /\ WF_relayVars(HandlerStep)
    /\ \A p \in Peers : WF_relayVars(CopierStep(p))
    /\ WF_relayVars(RelayTick) /\ WF_relayVars(TimerFires) /\ WF_relayVars(closeBoth)

RelaySpec == RelayInit /\ [][RelayNext]_relayVars /\ RelayFairness

-----------------------------------------------------------------------------
(* Properties.                                                              *)

Holding(p) == IF held[p] = 0 THEN <<>> ELSE <<held[p]>>

\* The upstream gets the client's stream from its first byte and in order, although
\* the hello was read before there was an upstream; the client gets the upstream's
\* behind at most one message of the relay's own: obfs' fake handshake, mieru's answer
\* to the request, the alert of the SNI router's aborted handshake.  What is missing is
\* in a copier's hands.
RelayedInOrder ==
    /\ peeked \o got["upstream"] \o Holding("client") = [n \in 1 .. taken["client"] |-> n]
    /\ \E greeting \in {<<>>, <<0>>} :
          got["client"] \o Holding("upstream") = greeting \o [n \in 1 .. taken["upstream"] |-> n]

\* A probe of the SNI router receives what the real site sends and nothing else.
\* (router.go: "This makes active probing indistinguishable from direct connections to
\* the real websites")
ProbeSeesOnlyTheSite == relay = "snirouter" => \A i \in DOMAIN got["client"] : got["client"][i] # 0

\* The timer starts to close a session only after nothing was read from either side for
\* the whole timeout: a long download from a silent client is not cut.  Nothing but the
\* handler or a timer that has run out closes the connections.
OnlyIdleIsCut ==
    [][/\ ~firing /\ firing' => quiet >= limit
       /\ ~closedBoth /\ closedBoth' /\ session' = session => firing]_relayVars

\* No session keeps its goroutines and connections for good, whichever side ends,
\* falls silent or stops reading.
SessionReleased ==
    session \notin {"none", "over"} ~>
                        /\ session = "over" /\ closedBoth
                        /\ \A p \in Peers : copier[p] \in {"off", "done"}
=============================================================================
