------------------------------ MODULE Dispatch ------------------------------
(***************************************************************************)
(* One connection in the dispatcher (core/app/dispatcher): admission by    *)
(* the limiter, sniffing of the first bytes through a cachedReader, the    *)
(* rewritten destination, routing, and the outbound reading what the       *)
(* client wrote.  Dispatch reads from a pipe that it made, DispatchLink    *)
(* from the inbound's own reader behind a CounterReader.                   *)
(*                                                                         *)
(* The client's bytes are the chunks 1, 2, ...  What an Xray sniffer and   *)
(* the router answer is a free choice.  There is no FakeDNS engine: the    *)
(* core installs none, so the metadata sniffer always fails.               *)
(***************************************************************************)
EXTENDS Naturals, Sequences, FiniteSets

CONSTANTS
    Chunks,         \* chunks the client may write
    Sniffers,       \* content sniffers of the connection's network
    Nameless,       \* those whose result has no domain, such as bittorrent
    SniffBudget     \* cacheDeadline, in ticks

ASSUME DispatchAssumption ==
    /\ Chunks \in Nat /\ SniffBudget \in Nat \ {0}
    /\ Nameless \subseteq Sniffers

VARIABLES
    entry,          \* "Dispatch" or "DispatchLink"
    parting,        \* the client's last chunk and its end are read together
    at,             \* "start", "sniff", "route", "handed", "closed"
    upstream,       \* written and not read
    pendingRead, gotten,    \* TimeoutWrapperReader: a read under way, what it got
    written, eof,   \* the client: chunks written, its end
    cache,          \* cachedReader.cache
    delivered,      \* what the outbound has read
    dropped,        \* history: read and thrown away
    uplink,         \* UpCounter
    pending, budget, attempts,  \* Sniffer.sniffer, cacheDeadline, totalAttempt
    protocol,       \* content.Protocol: the sniffer that recognised the connection
    target          \* the session's Target: the one given (""), or what a sniffer read

streamVars == <<upstream, pendingRead, gotten, written, eof, cache, delivered, dropped, uplink>>
sniffVars  == <<pending, budget, attempts, protocol, target>>
dispatchVars == <<entry, parting, at, streamVars, sniffVars>>

DispatchTypeOK ==
    /\ at \in {"start", "sniff", "route", "handed", "closed"}
    /\ written \in 0 .. Chunks /\ uplink \in 0 .. Chunks
    /\ {upstream, gotten, cache, delivered, dropped} \subseteq Seq(1 .. Chunks)
    /\ pending \subseteq Sniffers
    /\ budget \in 0 .. SniffBudget /\ attempts \in 0 .. 2
    /\ protocol \in {""} \cup Sniffers /\ target \in {""} \cup (Sniffers \ Nameless)

-----------------------------------------------------------------------------
(* The client, and the reader the dispatcher has.                           *)

\* In Dispatch the SizeStatWriter of the inbound's link counts what enters the pipe.
ClientWrites ==
    /\ at \notin {"start", "closed"} /\ ~eof /\ written < Chunks
    /\ written' = written + 1
    /\ upstream' = Append(upstream, written + 1)
    /\ uplink' = IF entry = "Dispatch" THEN uplink + 1 ELSE uplink
    /\ eof' = (parting /\ written' = Chunks)
    /\ UNCHANGED <<entry, parting, at, pendingRead, gotten, cache, delivered, dropped, sniffVars>>

ClientEnds ==
    /\ at \notin {"start", "closed"} /\ ~eof
    /\ eof' = TRUE
    /\ UNCHANGED <<entry, parting, at, upstream, pendingRead, gotten, written, cache, delivered,
                   dropped, uplink, sniffVars>>

\* The goroutine of a read that outlived its timeout.
PendingReads ==
    /\ pendingRead /\ gotten = <<>> /\ upstream # <<>>
    /\ gotten' = <<Head(upstream)>>
    /\ upstream' = Tail(upstream)
    /\ UNCHANGED <<entry, parting, at, pendingRead, written, eof, cache, delivered, dropped,
                   uplink, sniffVars>>

\* A read takes all that is in a pipe, or what one read of the connection gets.
Take(mb) ==
    \/ /\ entry = "Dispatch" /\ upstream # <<>>
       /\ mb = upstream
       /\ upstream' = <<>>
       /\ UNCHANGED <<gotten, pendingRead>>
    \/ /\ entry = "DispatchLink" /\ gotten # <<>>
       /\ mb = gotten
       /\ gotten' = <<>> /\ pendingRead' = FALSE
       /\ UNCHANGED upstream
    \/ /\ entry = "DispatchLink" /\ gotten = <<>> /\ upstream # <<>>
       /\ mb = <<Head(upstream)>>
       /\ upstream' = Tail(upstream) /\ pendingRead' = FALSE
       /\ UNCHANGED gotten

\* Data that comes together with the end of the stream.
WithEof(mb) == parting /\ entry = "DispatchLink" /\ mb = <<Chunks>>

\* CounterReader, which returns no data together with an error.
ReadData(mb) ==
    /\ Take(mb) /\ ~WithEof(mb)
    /\ uplink' = IF entry = "DispatchLink" THEN uplink + Len(mb) ELSE uplink
    /\ UNCHANGED <<written, eof, dropped>>

ReadError ==
    \/ /\ \E n \in 1 .. Chunks : Take(<<n>>) /\ WithEof(<<n>>) /\ dropped' = dropped \o <<n>>
       /\ UNCHANGED <<written, eof, uplink>>
    \/ /\ eof /\ upstream = <<>> /\ gotten = <<>>
       /\ pendingRead' = FALSE
       /\ UNCHANGED <<upstream, gotten, written, eof, uplink, dropped>>

-----------------------------------------------------------------------------
(* Dispatch and DispatchLink.                                               *)

CloseLink ==
    /\ at' = "closed"
    /\ UNCHANGED <<entry, parting, streamVars, sniffVars>>

\* The limiter is gone, or refuses: the link is closed, and nothing is dispatched.
NotAdmitted == at = "start" /\ CloseLink

Admitted(enabled) ==
    /\ at = "start"
    /\ at' = IF enabled THEN "sniff" ELSE "route"
    /\ UNCHANGED <<entry, parting, streamVars, sniffVars>>

\* The inbounds ask for every protocol that names a domain, exclude nothing, and do
\* not set RouteOnly: the domain becomes the target.
shouldOverride(result) == result \in Sniffers \ Nameless

\* sniffer returns: a result of the content, or none ("").
Conclude(result) ==
    /\ protocol' = result
    /\ target' = IF shouldOverride(result) THEN result ELSE target
    /\ at' = "route"

Continue == UNCHANGED <<at, protocol, target>>

EndOfAttempt ==
    IF attempts' >= 2 \/ budget' = 0 THEN Conclude("") ELSE Continue

\* Sniffer.Sniff on a payload that has grown.  At most one protocol recognises it;
\* a sniffer whose answer is neither a result nor ErrNoClue is not asked again, one
\* that needs more data included.
Sniff ==
    \E match, noclue \in SUBSET pending :
        /\ Cardinality(match) <= 1 /\ noclue \cap match = {}
        /\ \/ \E s \in match : /\ Conclude(s)
                               /\ UNCHANGED <<pending, attempts>>
           \/ /\ match = {} /\ noclue # {}
              /\ pending' = noclue /\ attempts' = attempts + 1
              /\ EndOfAttempt
           \/ /\ match = {} /\ noclue = {}
              /\ Conclude("")
              /\ UNCHANGED <<pending, attempts>>

\* Mutant: what is read replaces the cache.
CacheReplaces ==
    /\ at = "sniff"
    /\ \E mb \in {<<n>> : n \in 1 .. Chunks} \cup {upstream} : ReadData(mb) /\ cache' = mb
    /\ \E elapsed \in 0 .. budget : budget' = budget - elapsed
    /\ Sniff
    /\ UNCHANGED <<entry, parting, delivered>>

\* An iteration in which Cache reads something.
Cache ==
    /\ at = "sniff"
    /\ \E mb \in {<<n>> : n \in 1 .. Chunks} \cup {upstream} : ReadData(mb) /\ cache' = cache \o mb
    /\ \E elapsed \in 0 .. budget : budget' = budget - elapsed
    /\ Sniff
    /\ UNCHANGED <<entry, parting, delivered>>

\* Mutant: the time a read took is not subtracted, an attempt without data not counted.
CacheTimesOutForFree ==
    /\ at = "sniff" /\ entry = "DispatchLink"
    /\ pendingRead' = TRUE
    /\ UNCHANGED <<entry, parting, upstream, gotten, written, eof, cache, delivered, dropped, uplink,
                   at, sniffVars>>

\* CounterReader waits a second whatever it is asked for, and then returns nothing:
\* the sniffers that are left answer as before.
CacheTimesOut ==
    /\ at = "sniff" /\ entry = "DispatchLink"
    /\ pendingRead' = TRUE
    /\ budget' = 0 /\ attempts' = attempts + 1
    /\ Conclude("")
    /\ UNCHANGED <<entry, parting, upstream, gotten, written, eof, cache, delivered, dropped, uplink,
                   pending>>

\* The read fails, or a pipe's read times out.
CacheFails ==
    /\ at = "sniff"
    /\ \/ ReadError
       \/ /\ entry = "Dispatch"
          /\ UNCHANGED <<upstream, gotten, pendingRead, written, eof, dropped, uplink>>
    /\ Conclude("")
    /\ UNCHANGED <<entry, parting, cache, delivered, pending, budget, attempts>>

\* The context ends between two reads.
ContextDone ==
    /\ at = "sniff"
    /\ Conclude("")
    /\ UNCHANGED <<entry, parting, streamVars, pending, budget, attempts>>

\* A forced tag or the route's tag without handler, or no default handler.
RouteMissing == at = "route" /\ CloseLink

routedDispatch ==
    /\ at = "route"
    /\ at' = "handed"
    /\ UNCHANGED <<entry, parting, streamVars, sniffVars>>

-----------------------------------------------------------------------------
(* The outbound.                                                            *)

readInternal ==
    /\ at = "handed" /\ cache # <<>>
    /\ delivered' = delivered \o cache
    /\ cache' = <<>>
    /\ UNCHANGED <<entry, parting, at, upstream, gotten, pendingRead, written, eof, dropped, uplink,
                   sniffVars>>

ReadMultiBuffer ==
    /\ at = "handed" /\ cache = <<>>
    /\ \E mb \in {<<n>> : n \in 1 .. Chunks} \cup {upstream} :
          ReadData(mb) /\ delivered' = delivered \o mb
    /\ UNCHANGED <<entry, parting, at, cache, sniffVars>>

\* The end of the stream or the outbound's own: the link is closed and interrupted.
OutboundEnds ==
    /\ at = "handed"
    /\ \/ cache = <<>> /\ ReadError /\ UNCHANGED cache
       \/ /\ dropped' = cache \o dropped
          /\ cache' = <<>>
          /\ UNCHANGED <<upstream, gotten, pendingRead, written, eof, uplink>>
    /\ at' = "closed"
    /\ UNCHANGED <<entry, parting, delivered, sniffVars>>

-----------------------------------------------------------------------------

DispatchInit ==
    /\ entry \in {"Dispatch", "DispatchLink"} /\ parting \in BOOLEAN
    /\ at = "start"
    /\ upstream = <<>> /\ pendingRead = FALSE /\ gotten = <<>>
    /\ written = 0 /\ eof = FALSE /\ uplink = 0
    /\ cache = <<>> /\ delivered = <<>> /\ dropped = <<>>
    /\ pending = Sniffers /\ budget = SniffBudget /\ attempts = 0
    /\ protocol = "" /\ target = ""

Admission == NotAdmitted \/ \E enabled \in BOOLEAN : Admitted(enabled)
Sniffing  == Cache \/ CacheTimesOut \/ CacheFails
Routing   == RouteMissing \/ routedDispatch
Outbound  == readInternal \/ ReadMultiBuffer \/ OutboundEnds

DispatchNext == ClientWrites \/ ClientEnds \/ PendingReads \/ Admission \/ Sniffing \/ ContextDone
                \/ Routing \/ Outbound

\* The dispatcher's goroutine keeps running; every read of it has a timeout.
DispatchFairness == WF_dispatchVars(Admission) /\ WF_dispatchVars(Sniffing) /\ WF_dispatchVars(Routing)

DispatchSpec == DispatchInit /\ [][DispatchNext]_dispatchVars /\ DispatchFairness

-----------------------------------------------------------------------------
(* Properties.                                                              *)

\* However the first bytes were read - cached, by a read that outlived its timeout,
\* or directly - the outbound gets what the client wrote, in order, nothing lost and
\* nothing twice, and the user is charged for it once, although sniffing reads before
\* the outbound does.  What is missing in the end was thrown away by an Interrupt, or
\* came in one read with the end of the stream.
StreamIntact ==
    /\ delivered \o cache \o dropped \o gotten \o upstream = [n \in 1 .. written |-> n]
    /\ IF entry = "Dispatch" THEN uplink = written
       ELSE LET reached == Len(delivered) + Len(cache)
            IN  reached <= uplink /\ uplink <= reached + Len(dropped)

\* Sniffing never holds a connection for good: every link is handed to an outbound or
\* closed, even if the client stays silent.
LinkSettles == at \in {"sniff", "route"} ~> at \in {"handed", "closed"}
=============================================================================
