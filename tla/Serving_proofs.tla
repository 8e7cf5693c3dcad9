---------------------------- MODULE Serving_proofs ----------------------------
(***************************************************************************)
(* What serves the connections - the dispatcher, the relays, the loopback  *)
(* fronts and the shaping of shadowflow - for any stream, any number of    *)
(* nodes, ports and links, and any profile.                                *)
(***************************************************************************)
EXTENDS Dispatch, Relay, Front, Camouflage, SequenceTheorems, TLAPS

-----------------------------------------------------------------------------
(* Streams: the units o + 1, o + 2, ... in order.                           *)

Run(s, o) == s \in Seq(Nat) /\ \A i \in 1 .. Len(s) : s[i] = o + i

LEMMA RunEmpty == ASSUME NEW o \in Nat PROVE Run(<<>>, o) /\ Len(<<>>) = 0
  BY DEF Run

LEMMA RunOne == ASSUME NEW o \in Nat PROVE Run(<<o + 1>>, o) /\ Len(<<o + 1>>) = 1
  BY DEF Run

LEMMA RunLen == ASSUME NEW s, NEW o \in Nat, Run(s, o) PROVE Len(s) \in Nat /\ (Len(s) = 0 <=> s = <<>>)
  BY DEF Run

LEMMA RunJoins ==
    ASSUME NEW s, NEW t, NEW o \in Nat, Run(s, o), Run(t, o + Len(s))
    PROVE  Run(s \o t, o) /\ Len(s \o t) = Len(s) + Len(t)
<1>1. s \in Seq(Nat) /\ t \in Seq(Nat) /\ Len(s) \in Nat /\ Len(t) \in Nat
  BY DEF Run
<1>2. s \o t \in Seq(Nat) /\ Len(s \o t) = Len(s) + Len(t)
  BY <1>1
<1>3. ASSUME NEW i \in 1 .. Len(s \o t) PROVE (s \o t)[i] = o + i
  <2>1. CASE i <= Len(s)
    BY <1>1, <1>2, <1>3, <2>1 DEF Run
  <2>2. CASE i > Len(s)
    <3>1. (s \o t)[i] = t[i - Len(s)] /\ i - Len(s) \in 1 .. Len(t)
      BY <1>1, <1>2, <1>3, <2>2
    <3>2. t[i - Len(s)] = (o + Len(s)) + (i - Len(s))
      BY <3>1 DEF Run
    <3>3. QED
      BY <1>1, <3>1, <3>2
  <2>3. QED
    BY <1>1, <1>3, <2>1, <2>2
<1>4. QED
  BY <1>2, <1>3 DEF Run

LEMMA RunTail ==
    ASSUME NEW s, NEW o \in Nat, Run(s, o), s # <<>>
    PROVE  /\ Head(s) = o + 1 /\ Run(<<Head(s)>>, o)
           /\ Run(Tail(s), o + 1) /\ Len(Tail(s)) = Len(s) - 1
<1>1. s \in Seq(Nat) /\ Len(s) \in Nat /\ Len(s) >= 1
  BY DEF Run
<1>2. Head(s) = o + 1
  BY <1>1 DEF Run
<1>3. Tail(s) \in Seq(Nat) /\ Len(Tail(s)) = Len(s) - 1 /\ \A i \in 1 .. Len(s) - 1 : Tail(s)[i] = s[i + 1]
  BY <1>1
<1>4. QED
  BY <1>1, <1>2, <1>3 DEF Run

LEMMA RunWhole ==
    ASSUME NEW s, Run(s, 0)
    PROVE  s = [n \in 1 .. Len(s) |-> n]
<1>1. s \in Seq(Nat) /\ Len(s) \in Nat
  BY DEF Run
<1>2. DOMAIN s = 1 .. Len(s) /\ s = [n \in DOMAIN s |-> s[n]]
  BY <1>1
<1>3. \A n \in 1 .. Len(s) : s[n] = n
  BY <1>1 DEF Run
<1>4. QED
  BY <1>2, <1>3

-----------------------------------------------------------------------------
(* The dispatcher.                                                          *)

\* The client's bytes are in five places, one behind the other.
Before == Len(delivered) + Len(cache) + Len(dropped)

Places ==
    /\ Run(delivered, 0) /\ Run(cache, Len(delivered)) /\ Run(dropped, Len(delivered) + Len(cache))
    /\ Run(gotten, Before) /\ Run(upstream, Before + Len(gotten))
    /\ Before + Len(gotten) + Len(upstream) = written /\ written \in 0 .. Chunks

\* Who has read, in either entry, and that it was charged once.
Charged ==
    /\ uplink \in Nat /\ entry \in {"Dispatch", "DispatchLink"}
    /\ entry = "Dispatch" => uplink = written
    /\ entry = "DispatchLink" => /\ Len(delivered) + Len(cache) <= uplink
                                 /\ uplink <= Before

\* Nothing is read behind what was thrown away: that was the last of the stream, or the
\* link is closed.  Dispatch's pipe has no read that outlives its timeout.
NothingBehind ==
    /\ dropped # <<>> => \/ at = "closed"
                         \/ /\ at \notin {"start", "sniff"}
                            /\ gotten = <<>> /\ upstream = <<>> /\ written = Chunks
    /\ entry = "Dispatch" => gotten = <<>> /\ pendingRead = FALSE

StreamInv == Places /\ Charged /\ NothingBehind

LEMMA PlacesLens ==
    ASSUME Places
    PROVE  /\ Len(delivered) \in Nat /\ Len(cache) \in Nat /\ Len(dropped) \in Nat /\ Len(gotten) \in Nat
           /\ Len(upstream) \in Nat /\ Before \in Nat
           /\ (dropped = <<>> => Len(dropped) = 0) /\ (gotten = <<>> => Len(gotten) = 0)
           /\ (upstream = <<>> => Len(upstream) = 0) /\ (cache = <<>> => Len(cache) = 0)
<1>1. delivered \in Seq(Nat) /\ cache \in Seq(Nat) /\ dropped \in Seq(Nat) /\ gotten \in Seq(Nat)
      /\ upstream \in Seq(Nat)
  BY DEF Places, Run
<1>2. QED
  BY <1>1 DEF Before

LEMMA StreamInit == DispatchInit => StreamInv
<1> SUFFICES ASSUME DispatchInit PROVE StreamInv
  OBVIOUS
<1>1. /\ delivered = <<>> /\ cache = <<>> /\ dropped = <<>> /\ gotten = <<>> /\ upstream = <<>>
      /\ written = 0 /\ uplink = 0 /\ entry \in {"Dispatch", "DispatchLink"} /\ pendingRead = FALSE
  BY DEF DispatchInit
<1>2. /\ Run(<<>>, 0) /\ Len(delivered) = 0 /\ Len(cache) = 0 /\ Len(dropped) = 0 /\ Len(gotten) = 0
      /\ Len(upstream) = 0 /\ Before = 0
  BY <1>1, RunEmpty DEF Before
<1>3. Places
  BY <1>1, <1>2, DispatchAssumption DEF Places
<1>4. Charged /\ NothingBehind
  BY <1>1, <1>2 DEF Charged, NothingBehind
<1>5. QED
  BY <1>3, <1>4 DEF StreamInv

\* A read takes the bytes that come next, from one of the two places left.
LEMMA TakesNext ==
    ASSUME StreamInv, NEW mb, Take(mb)
    PROVE  /\ Run(mb, Before) /\ mb # <<>> /\ Len(mb) \in Nat /\ Len(mb) > 0
           /\ Run(gotten', Before + Len(mb)) /\ Run(upstream', Before + Len(mb) + Len(gotten'))
           /\ Len(mb) + Len(gotten') + Len(upstream') = Len(gotten) + Len(upstream)
           /\ Len(gotten') \in Nat /\ Len(upstream') \in Nat
           /\ entry = "Dispatch" => gotten' = <<>> /\ UNCHANGED pendingRead
<1>0. /\ Before \in Nat /\ Len(gotten) \in Nat /\ Len(upstream) \in Nat
      /\ Run(gotten, Before) /\ Run(upstream, Before + Len(gotten))
  BY PlacesLens DEF StreamInv, Places
<1>1. CASE /\ entry = "Dispatch" /\ upstream # <<>> /\ mb = upstream /\ upstream' = <<>>
           /\ UNCHANGED <<gotten, pendingRead>>
  <2>1. gotten = <<>> /\ Len(gotten) = 0
    BY <1>1, RunEmpty DEF StreamInv, NothingBehind
  <2>2. Run(upstream, Before)
    BY <1>0, <2>1
  <2>3. Len(upstream) > 0
    BY <1>0, <1>1, <2>2, RunLen
  <2>4. Run(<<>>, Before + Len(mb)) /\ Len(<<>>) = 0
    BY <1>0, <1>1, RunEmpty
  <2>5. QED
    BY <1>0, <1>1, <2>1, <2>2, <2>3, <2>4
<1>2. CASE entry = "DispatchLink" /\ gotten # <<>> /\ mb = gotten /\ gotten' = <<>> /\ UNCHANGED upstream
  <2>1. Run(<<>>, Before + Len(mb)) /\ Len(<<>>) = 0 /\ Len(gotten) > 0
    BY <1>0, <1>2, RunEmpty, RunLen
  <2>2. QED
    BY <1>0, <1>2, <2>1
<1>3. CASE /\ entry = "DispatchLink" /\ gotten = <<>> /\ upstream # <<>> /\ mb = <<Head(upstream)>>
           /\ upstream' = Tail(upstream) /\ UNCHANGED gotten
  <2>1. Len(gotten) = 0 /\ Len(gotten') = 0 /\ Len(mb) = 1
    BY <1>3
  <2>2. Run(upstream, Before)
    BY <1>0, <2>1
  <2>3. Run(mb, Before) /\ Run(Tail(upstream), Before + 1) /\ Len(Tail(upstream)) = Len(upstream) - 1
    BY <1>0, <1>3, <2>2, RunTail
  <2>4. Run(gotten', Before + Len(mb)) /\ Len(upstream) > 0
    BY <1>0, <1>3, <2>1, <2>2, RunEmpty, RunLen
  <2>5. QED
    BY <1>0, <1>3, <2>1, <2>3, <2>4
<1>4. QED
  BY <1>1, <1>2, <1>3 DEF Take

LEMMA NothingDropped ==
    ASSUME StreamInv, NEW mb, Take(mb), at # "closed"
    PROVE  dropped = <<>> /\ Len(dropped) = 0 /\ Before = Len(delivered) + Len(cache)
<1>1. Len(mb) > 0 /\ Len(mb) \in Nat /\ Len(gotten') \in Nat /\ Len(upstream') \in Nat
      /\ Len(mb) + Len(gotten') + Len(upstream') = Len(gotten) + Len(upstream)
  BY TakesNext
<1>2. ASSUME dropped # <<>> PROVE FALSE
  <2>1. Len(gotten) = 0 /\ Len(upstream) = 0
    BY <1>2, PlacesLens DEF StreamInv, NothingBehind
  <2>2. QED
    BY <1>1, <2>1
<1>3. Len(dropped) = 0 /\ Len(delivered) \in Nat /\ Len(cache) \in Nat
  BY <1>2, PlacesLens DEF StreamInv
<1>4. QED
  BY <1>2, <1>3 DEF Before

\* What is read goes behind everything that was read before.
LEMMA StreamReads ==
    ASSUME StreamInv, NEW mb, ReadData(mb), at # "closed", UNCHANGED entry,
           Run(delivered', 0), Run(cache', Len(delivered')), Len(delivered') \in Nat, Len(cache') \in Nat,
           Len(delivered') + Len(cache') = Len(delivered) + Len(cache) + Len(mb)
    PROVE  StreamInv'
<1>1. Take(mb) /\ uplink' = (IF entry = "DispatchLink" THEN uplink + Len(mb) ELSE uplink)
      /\ UNCHANGED <<written, dropped>>
  BY DEF ReadData
<1>2. /\ Len(mb) \in Nat
      /\ Run(gotten', Before + Len(mb)) /\ Run(upstream', Before + Len(mb) + Len(gotten'))
      /\ Len(mb) + Len(gotten') + Len(upstream') = Len(gotten) + Len(upstream)
      /\ Len(gotten') \in Nat /\ Len(upstream') \in Nat
      /\ entry = "Dispatch" => gotten' = <<>> /\ UNCHANGED pendingRead
  BY <1>1, TakesNext
<1>3. /\ Before + Len(gotten) + Len(upstream) = written /\ written \in 0 .. Chunks
      /\ Before \in Nat /\ Len(gotten) \in Nat /\ Len(upstream) \in Nat
  BY PlacesLens DEF StreamInv, Places
<1>4. dropped = <<>> /\ Len(dropped) = 0 /\ Before = Len(delivered) + Len(cache)
  BY <1>1, NothingDropped
<1>5. Before' = Before + Len(mb) /\ Run(dropped', Len(delivered') + Len(cache'))
  BY <1>1, <1>2, <1>3, <1>4, RunEmpty DEF Before
<1>6. Places'
  <2>1. Run(gotten', Before') /\ Run(upstream', Before' + Len(gotten'))
    BY <1>2, <1>5
  <2>2. Before' + Len(gotten') + Len(upstream') = written'
    BY <1>1, <1>2, <1>3, <1>5
  <2>3. QED
    BY <1>1, <1>3, <1>5, <2>1, <2>2 DEF Places
<1>7. Charged'
  <2>1. uplink \in Nat /\ Len(delivered') + Len(cache') = Before'
    BY <1>4, <1>5 DEF StreamInv, Charged
  <2>2. CASE entry = "Dispatch"
    BY <1>1, <2>1, <2>2 DEF StreamInv, Charged
  <2>3. CASE entry = "DispatchLink"
    <3>1. uplink = Before /\ uplink' = Before + Len(mb)
      BY <1>1, <1>3, <1>4, <2>1, <2>3 DEF StreamInv, Charged
    <3>2. QED
      BY <1>2, <1>3, <1>5, <2>1, <2>3, <3>1 DEF Charged
  <2>4. QED
    BY <2>2, <2>3 DEF StreamInv, Charged
<1>8. NothingBehind'
  BY <1>1, <1>2, <1>4 DEF StreamInv, NothingBehind
<1>9. QED
  BY <1>6, <1>7, <1>8 DEF StreamInv

\* The stream stands still: only where the connection is may change, which at the end of
\* sniffing leaves no part of it behind.
LEMMA StreamStands ==
    ASSUME StreamInv,
           UNCHANGED <<entry, upstream, gotten, written, cache, delivered, dropped, uplink>>,
           entry = "Dispatch" => pendingRead' = pendingRead \/ pendingRead' = FALSE,
           at' = at \/ (at' \notin {"start", "sniff"} /\ at # "closed") \/ dropped = <<>>
    PROVE  StreamInv'
<1>1. Places'
  BY DEF StreamInv, Places, Before
<1>2. Charged'
  BY DEF StreamInv, Charged, Before
<1>3. NothingBehind'
  BY DEF StreamInv, NothingBehind
<1>4. QED
  BY <1>1, <1>2, <1>3 DEF StreamInv

\* Sniffing reads into the cache, the outbound directly.
LEMMA StreamRead ==
    ASSUME StreamInv, Cache \/ ReadMultiBuffer
    PROVE  StreamInv'
<1>0. /\ Run(delivered, 0) /\ Run(cache, Len(delivered)) /\ Len(delivered) \in Nat /\ Len(cache) \in Nat
      /\ cache = <<>> => Len(cache) = 0
  BY PlacesLens DEF StreamInv, Places
<1>1. ASSUME Cache PROVE StreamInv'
  <2>1. PICK mb : ReadData(mb) /\ cache' = cache \o mb
    BY <1>1 DEF Cache
  <2>2. at # "closed" /\ UNCHANGED <<entry, delivered>> /\ Take(mb)
    BY <1>1, <2>1 DEF Cache, ReadData
  <2>3. Run(mb, Len(delivered) + Len(cache)) /\ Len(mb) \in Nat
    BY <2>2, TakesNext, NothingDropped
  <2>4. Run(cache \o mb, Len(delivered)) /\ Len(cache \o mb) = Len(cache) + Len(mb)
    BY <1>0, <2>3, RunJoins
  <2>5. /\ Run(delivered', 0) /\ Run(cache', Len(delivered')) /\ Len(delivered') \in Nat
        /\ Len(cache') = Len(cache) + Len(mb)
    BY <1>0, <2>1, <2>2, <2>4
  <2>6. Len(cache') \in Nat /\ Len(delivered') + Len(cache') = Len(delivered) + Len(cache) + Len(mb)
    BY <1>0, <2>2, <2>3, <2>5
  <2>7. QED
    BY <2>1, <2>2, <2>5, <2>6, StreamReads
<1>2. ASSUME ReadMultiBuffer PROVE StreamInv'
  <2>1. PICK mb : ReadData(mb) /\ delivered' = delivered \o mb
    BY <1>2 DEF ReadMultiBuffer
  <2>2. at # "closed" /\ UNCHANGED <<entry, cache>> /\ Take(mb) /\ cache = <<>>
    BY <1>2, <2>1 DEF ReadMultiBuffer, ReadData
  <2>3. Run(mb, Len(delivered) + Len(cache)) /\ Len(mb) \in Nat /\ Len(cache) = 0
    BY <1>0, <2>2, TakesNext, NothingDropped
  <2>4. Run(mb, 0 + Len(delivered))
    BY <1>0, <2>3
  <2>5. Run(delivered \o mb, 0) /\ Len(delivered \o mb) = Len(delivered) + Len(mb)
    BY <1>0, <2>4, RunJoins
  <2>6. Run(delivered', 0) /\ Len(delivered') = Len(delivered) + Len(mb) /\ Len(delivered') \in Nat
    BY <1>0, <2>1, <2>3, <2>5
  <2>7. Run(cache', Len(delivered')) /\ Len(cache') = 0
    BY <2>2, <2>3, <2>6, RunEmpty
  <2>8. Len(cache') \in Nat /\ Len(delivered') + Len(cache') = Len(delivered) + Len(cache) + Len(mb)
    BY <1>0, <2>3, <2>6, <2>7
  <2>9. QED
    BY <2>1, <2>2, <2>6, <2>7, <2>8, StreamReads
<1>3. QED
  BY <1>1, <1>2

\* Data that comes together with the end is the last there is, and is thrown away.
LEMMA StreamLast ==
    ASSUME StreamInv, ReadError, at # "closed", at' \notin {"start", "sniff"},
           UNCHANGED <<entry, cache, delivered>>
    PROVE  StreamInv'
<1>1. CASE eof /\ upstream = <<>> /\ gotten = <<>> /\ pendingRead' = FALSE
           /\ UNCHANGED <<upstream, gotten, written, eof, uplink, dropped>>
  BY <1>1, StreamStands
<1>2. ASSUME NEW n \in 1 .. Chunks, Take(<<n>>), WithEof(<<n>>), dropped' = dropped \o <<n>>,
             UNCHANGED <<written, uplink>>
      PROVE  StreamInv'
  <2>1. n = Chunks /\ entry = "DispatchLink" /\ <<n>>[1] = n /\ Len(<<n>>) = 1
    BY <1>2 DEF WithEof
  <2>2. /\ Run(<<n>>, Before) /\ Run(gotten', Before + 1) /\ Run(upstream', Before + 1 + Len(gotten'))
        /\ 1 + Len(gotten') + Len(upstream') = Len(gotten) + Len(upstream)
        /\ Len(gotten') \in Nat /\ Len(upstream') \in Nat
    BY <1>2, <2>1, TakesNext
  <2>3. dropped = <<>> /\ Len(dropped) = 0 /\ Before = Len(delivered) + Len(cache)
    BY <1>2, NothingDropped
  <2>4. /\ Before \in Nat /\ Before + Len(gotten) + Len(upstream) = written /\ written \in 0 .. Chunks
        /\ Len(gotten) \in Nat /\ Len(upstream) \in Nat
    BY PlacesLens DEF StreamInv, Places
  <2>5. n = Before + 1
    BY <2>1, <2>2 DEF Run
  <2>6. Len(gotten') = 0 /\ Len(upstream') = 0 /\ written = Chunks
    BY <2>1, <2>2, <2>4, <2>5, DispatchAssumption
  <2>7. gotten' = <<>> /\ upstream' = <<>>
    BY <2>2, <2>4, <2>6, RunLen
  <2>8. dropped' = <<n>>
    BY <1>2, <2>3
  <2>9. Len(dropped') = 1 /\ Run(dropped', Len(delivered) + Len(cache)) /\ Before' = Before + 1
    BY <2>1, <2>2, <2>3, <2>8 DEF Before
  <2>10. Places'
    BY <1>2, <2>2, <2>4, <2>6, <2>9 DEF Places, StreamInv
  <2>11. Charged'
    BY <1>2, <2>1, <2>3, <2>4, <2>9 DEF Charged, StreamInv
  <2>12. NothingBehind'
    BY <1>2, <2>1, <2>6, <2>7 DEF NothingBehind, StreamInv
  <2>13. QED
    BY <2>10, <2>11, <2>12 DEF StreamInv
<1>3. QED
  BY <1>1, <1>2 DEF ReadError

\* An Interrupt throws the cache away.
LEMMA StreamInterrupted ==
    ASSUME StreamInv, dropped' = cache \o dropped, cache' = <<>>, at' = "closed",
           UNCHANGED <<entry, upstream, gotten, pendingRead, written, uplink, delivered>>
    PROVE  StreamInv'
<1>1. /\ Run(cache, Len(delivered)) /\ Run(dropped, Len(delivered) + Len(cache))
      /\ Len(delivered) \in Nat /\ Len(cache) \in Nat /\ Len(dropped) \in Nat
  BY PlacesLens DEF StreamInv, Places
<1>2. Run(cache \o dropped, Len(delivered)) /\ Len(cache \o dropped) = Len(cache) + Len(dropped)
  BY <1>1, RunJoins
<1>3. Run(dropped', Len(delivered)) /\ Len(dropped') = Len(cache) + Len(dropped)
  BY <1>2
<1>4. Run(cache', Len(delivered)) /\ Len(cache') = 0
  BY <1>1, RunEmpty
<1>5. Len(delivered') = Len(delivered) /\ Len(delivered') + Len(cache') = Len(delivered)
  BY <1>1, <1>4
<1>6. Before' = Before
  BY <1>1, <1>3, <1>4, <1>5 DEF Before
<1>7. Places'
  BY <1>3, <1>4, <1>5, <1>6 DEF StreamInv, Places
<1>8. Charged'
  BY <1>1, <1>5, <1>6 DEF StreamInv, Charged
<1>9. NothingBehind'
  BY DEF StreamInv, NothingBehind
<1>10. QED
  BY <1>7, <1>8, <1>9 DEF StreamInv

LEMMA StreamHanded ==
    ASSUME StreamInv, readInternal
    PROVE  StreamInv'
<1>1. /\ Run(delivered, 0) /\ Run(cache, Len(delivered)) /\ Run(cache, 0 + Len(delivered))
      /\ Len(delivered) \in Nat /\ Len(cache) \in Nat /\ Len(dropped) \in Nat
  BY PlacesLens DEF StreamInv, Places
<1>2. Run(delivered \o cache, 0) /\ Len(delivered \o cache) = Len(delivered) + Len(cache)
  BY <1>1, RunJoins
<1>3. /\ delivered' = delivered \o cache /\ cache' = <<>>
      /\ UNCHANGED <<entry, at, upstream, gotten, pendingRead, written, dropped, uplink>>
  BY DEF readInternal
<1>4. Run(delivered', 0) /\ Len(delivered') = Len(delivered) + Len(cache) /\ Len(delivered') \in Nat
  BY <1>1, <1>2, <1>3
<1>5. Run(cache', Len(delivered')) /\ Len(cache') = 0
  BY <1>3, <1>4, RunEmpty
<1>6. Len(delivered') + Len(cache') = Len(delivered) + Len(cache) /\ Before' = Before
  BY <1>1, <1>3, <1>4, <1>5 DEF Before
<1>7. Places'
  BY <1>3, <1>4, <1>5, <1>6 DEF StreamInv, Places
<1>8. Charged'
  BY <1>3, <1>6 DEF StreamInv, Charged
<1>9. NothingBehind'
  BY <1>3 DEF StreamInv, NothingBehind
<1>10. QED
  BY <1>7, <1>8, <1>9 DEF StreamInv

LEMMA StreamWritten ==
    ASSUME StreamInv, ClientWrites
    PROVE  StreamInv'
<1>1. /\ at \notin {"start", "closed"} /\ written < Chunks /\ written' = written + 1
      /\ uplink' = (IF entry = "Dispatch" THEN uplink + 1 ELSE uplink)
      /\ UNCHANGED <<entry, at, pendingRead, gotten, cache, delivered, dropped>>
  BY DEF ClientWrites
<1>2. /\ Before \in Nat /\ Len(gotten) \in Nat /\ Len(upstream) \in Nat
      /\ Before + Len(gotten) + Len(upstream) = written /\ written \in 0 .. Chunks
      /\ Run(upstream, Before + Len(gotten)) /\ upstream \in Seq(Nat)
  BY PlacesLens DEF StreamInv, Places, Run
<1>3. upstream' = upstream \o <<written + 1>>
  BY <1>2 DEF ClientWrites
<1>4. Run(<<written + 1>>, written) /\ Len(<<written + 1>>) = 1
  BY <1>2, RunOne
<1>5. Run(<<written + 1>>, (Before + Len(gotten)) + Len(upstream))
  BY <1>2, <1>4
<1>6. /\ Run(upstream \o <<written + 1>>, Before + Len(gotten))
      /\ Len(upstream \o <<written + 1>>) = Len(upstream) + Len(<<written + 1>>)
  <2>1. Before + Len(gotten) \in Nat
    BY <1>2
  <2>2. QED
    BY <1>2, <1>5, <2>1, RunJoins
<1>7. Run(upstream', Before + Len(gotten)) /\ Len(upstream') = Len(upstream) + 1 /\ Before' = Before
  BY <1>1, <1>3, <1>4, <1>6 DEF Before
<1>8. Before' + Len(gotten') + Len(upstream') = written' /\ written' \in 0 .. Chunks
  BY <1>1, <1>2, <1>7, DispatchAssumption
<1>9. Places'
  BY <1>1, <1>7, <1>8 DEF StreamInv, Places
<1>10. Charged'
  BY <1>1, <1>2, <1>7 DEF StreamInv, Charged
<1>11. NothingBehind'
  BY <1>1, <1>2 DEF StreamInv, NothingBehind
<1>12. QED
  BY <1>9, <1>10, <1>11 DEF StreamInv

\* A read that outlived its timeout keeps what it gets for the next one.
LEMMA StreamPending ==
    ASSUME StreamInv, PendingReads
    PROVE  StreamInv'
<1>1. /\ gotten = <<>> /\ upstream # <<>> /\ gotten' = <<Head(upstream)>> /\ upstream' = Tail(upstream)
      /\ UNCHANGED <<entry, at, pendingRead, written, cache, delivered, dropped, uplink>>
  BY DEF PendingReads
<1>2. pendingRead # FALSE
  BY DEF PendingReads
<1>3. /\ Before \in Nat /\ Len(gotten) = 0 /\ Len(upstream) \in Nat
      /\ Before + Len(gotten) + Len(upstream) = written /\ Run(upstream, Before + Len(gotten))
  BY <1>1, PlacesLens DEF StreamInv, Places
<1>4. Run(upstream, Before)
  BY <1>3
<1>5. /\ Run(gotten', Before) /\ Run(upstream', Before + 1) /\ Len(upstream') = Len(upstream) - 1
      /\ Len(gotten') = 1 /\ Before' = Before
  BY <1>1, <1>3, <1>4, RunTail DEF Before
<1>6. Places'
  <2>1. Before' + Len(gotten') + Len(upstream') = written'
    BY <1>1, <1>3, <1>5
  <2>2. QED
    BY <1>1, <1>5, <2>1 DEF StreamInv, Places
<1>7. Charged'
  BY <1>1, <1>5 DEF StreamInv, Charged
<1>8. NothingBehind'
  BY <1>1, <1>2 DEF StreamInv, NothingBehind
<1>9. QED
  BY <1>6, <1>7, <1>8 DEF StreamInv

LEMMA StreamInductive == DispatchSpec => []StreamInv
<1>1. StreamInv /\ [DispatchNext]_dispatchVars => StreamInv'
  <2> SUFFICES ASSUME StreamInv, [DispatchNext]_dispatchVars PROVE StreamInv'
    OBVIOUS
  <2>1. CASE ClientWrites \/ PendingReads \/ Cache \/ ReadMultiBuffer \/ readInternal
    BY <2>1, StreamWritten, StreamPending, StreamRead, StreamHanded
  <2>2. CASE ClientEnds
    BY <2>2, StreamStands DEF ClientEnds
  <2>3. CASE NotAdmitted \/ RouteMissing
    BY <2>3, StreamStands DEF NotAdmitted, RouteMissing, CloseLink, streamVars
  <2>4. CASE \E enabled \in BOOLEAN : Admitted(enabled)
    <3>1. at = "start" /\ at' \in {"sniff", "route"} /\ UNCHANGED <<entry, streamVars>>
      BY <2>4 DEF Admitted
    <3>2. dropped = <<>>
      BY <3>1 DEF StreamInv, NothingBehind
    <3>3. QED
      BY <3>1, <3>2, StreamStands DEF streamVars
  <2>5. CASE CacheTimesOut
    <3>1. /\ entry = "DispatchLink" /\ at = "sniff" /\ at' = "route"
          /\ UNCHANGED <<entry, upstream, gotten, written, cache, delivered, dropped, uplink>>
      BY <2>5 DEF CacheTimesOut, Conclude
    <3>2. QED
      BY <3>1, StreamStands
  <2>6. CASE CacheFails
    <3>1. at = "sniff" /\ at' = "route" /\ UNCHANGED <<entry, cache, delivered>>
      BY <2>6 DEF CacheFails, Conclude
    <3>2. CASE ReadError
      BY <3>1, <3>2, StreamLast
    <3>3. CASE UNCHANGED <<upstream, gotten, pendingRead, written, eof, dropped, uplink>>
      BY <3>1, <3>3, StreamStands
    <3>4. QED
      BY <2>6, <3>2, <3>3 DEF CacheFails
  <2>7. CASE ContextDone
    <3>1. at = "sniff" /\ at' = "route" /\ UNCHANGED <<entry, streamVars>>
      BY <2>7 DEF ContextDone, Conclude
    <3>2. QED
      BY <3>1, StreamStands DEF streamVars
  <2>8. CASE routedDispatch
    BY <2>8, StreamStands DEF routedDispatch, streamVars
  <2>9. CASE OutboundEnds
    <3>1. at = "handed" /\ at' = "closed" /\ UNCHANGED <<entry, delivered>>
      BY <2>9 DEF OutboundEnds
    <3>2. CASE ReadError /\ UNCHANGED cache
      BY <3>1, <3>2, StreamLast
    <3>3. CASE /\ dropped' = cache \o dropped /\ cache' = <<>>
               /\ UNCHANGED <<upstream, gotten, pendingRead, written, eof, uplink>>
      BY <3>1, <3>3, StreamInterrupted
    <3>4. QED
      BY <2>9, <3>2, <3>3 DEF OutboundEnds
  <2>10. CASE UNCHANGED dispatchVars
    BY <2>10, StreamStands DEF dispatchVars, streamVars
  <2>11. QED
    BY <2>1, <2>2, <2>3, <2>4, <2>5, <2>6, <2>7, <2>8, <2>9, <2>10
    DEF DispatchNext, Admission, Sniffing, Routing, Outbound
<1>2. QED
  BY <1>1, StreamInit, PTL DEF DispatchSpec

\* Whatever sniffing reads before the outbound does, in a pipe or in the inbound's reader,
\* and whichever read outlives its timeout: nothing is lost, repeated or out of order, and
\* all of it is charged once.
THEOREM StreamStaysIntact == DispatchSpec => []StreamIntact
<1>1. StreamInv => StreamIntact
  <2> SUFFICES ASSUME StreamInv PROVE StreamIntact
    OBVIOUS
  <2>1. /\ Len(delivered) \in Nat /\ Len(cache) \in Nat /\ Len(dropped) \in Nat /\ Len(gotten) \in Nat
        /\ Len(upstream) \in Nat /\ Before \in Nat /\ Places
    BY PlacesLens DEF StreamInv
  <2>2. Run(delivered \o cache, 0) /\ Len(delivered \o cache) = Len(delivered) + Len(cache)
    <3>1. Run(delivered, 0) /\ Run(cache, 0 + Len(delivered))
      BY <2>1 DEF Places
    <3>2. QED
      BY <3>1, RunJoins
  <2>3. Run((delivered \o cache) \o dropped, 0) /\ Len((delivered \o cache) \o dropped) = Before
    <3>1. Run(dropped, 0 + Len(delivered \o cache))
      BY <2>1, <2>2 DEF Places
    <3>2. Len((delivered \o cache) \o dropped) = Len(delivered \o cache) + Len(dropped)
          /\ Run((delivered \o cache) \o dropped, 0)
      BY <2>2, <3>1, RunJoins
    <3>3. QED
      BY <2>2, <3>2 DEF Before
  <2> DEFINE read == (delivered \o cache) \o dropped
  <2> HIDE DEF read
  <2>4. Run(read \o gotten, 0) /\ Len(read \o gotten) = Before + Len(gotten)
    <3>1. Run(read, 0) /\ Len(read) = Before
      BY <2>3 DEF read
    <3>2. Run(gotten, 0 + Len(read))
      BY <2>1, <3>1 DEF Places
    <3>3. QED
      BY <3>1, <3>2, RunJoins
  <2> DEFINE seen == read \o gotten
  <2> HIDE DEF seen
  <2>5. Run(seen \o upstream, 0) /\ Len(seen \o upstream) = written
    <3>1. Run(seen, 0) /\ Len(seen) = Before + Len(gotten)
      BY <2>4 DEF seen
    <3>2. Run(upstream, 0 + Len(seen))
      BY <2>1, <3>1 DEF Places
    <3>3. Run(seen \o upstream, 0) /\ Len(seen \o upstream) = Len(seen) + Len(upstream)
      BY <3>1, <3>2, RunJoins
    <3>4. QED
      BY <2>1, <3>1, <3>3 DEF Places
  <2>6. seen \o upstream = [n \in 1 .. written |-> n]
    BY <2>5, RunWhole
  <2>7. delivered \o cache \o dropped \o gotten \o upstream = [n \in 1 .. written |-> n]
    BY <2>6 DEF seen, read
  <2>8. entry = "Dispatch" => uplink = written
    BY DEF StreamInv, Charged
  <2>9. entry # "Dispatch" => /\ Len(delivered) + Len(cache) <= uplink
                              /\ uplink <= Len(delivered) + Len(cache) + Len(dropped)
    BY DEF StreamInv, Charged, Before
  <2>10. QED
    BY <2>7, <2>8, <2>9 DEF StreamIntact
<1>2. QED
  BY <1>1, StreamInductive, PTL

-----------------------------------------------------------------------------
(* The relays.                                                              *)

\* The upstream's units behind the relay's greeting.
Greeted(s) == s \in Seq(Nat) /\ Len(s) > 0 /\ \A i \in 1 .. Len(s) : s[i] + 1 = i

LEMMA GreetedOne == Greeted(<<0>>) /\ Len(<<0>>) = 1
  BY DEF Greeted

LEMMA GreetedLen == ASSUME NEW s, Greeted(s) PROVE Len(s) \in Nat /\ Len(s) > 0 /\ s # <<>>
  BY DEF Greeted

LEMMA GreetedJoins ==
    ASSUME NEW s, Greeted(s)
    PROVE  Greeted(s \o <<Len(s)>>) /\ Len(s \o <<Len(s)>>) = Len(s) + 1
<1> DEFINE t == <<Len(s)>>
<1>1. s \in Seq(Nat) /\ Len(s) \in Nat /\ t \in Seq(Nat) /\ Len(t) = 1 /\ t[1] = Len(s)
  BY DEF Greeted
<1> HIDE DEF t
<1>2. s \o t \in Seq(Nat) /\ Len(s \o t) = Len(s) + 1
  <2>1. s \o t \in Seq(Nat) /\ Len(s \o t) = Len(s) + Len(t)
    BY <1>1, ConcatProperties
  <2>2. QED
    BY <1>1, <2>1
<1>3. ASSUME NEW i \in 1 .. Len(s \o t) PROVE (s \o t)[i] + 1 = i
  <2>1. CASE i <= Len(s)
    BY <1>1, <1>2, <1>3, <2>1 DEF Greeted
  <2>2. CASE i = Len(s) + 1
    <3>1. (s \o t)[i] = t[1]
      BY <1>1, <1>2, <1>3, <2>2
    <3>2. QED
      BY <1>1, <2>2, <3>1
  <2>3. QED
    BY <1>1, <1>2, <1>3, <2>1, <2>2
<1>4. Len(s \o t) > 0
  BY <1>1, <1>2
<1>5. QED
  BY <1>2, <1>3, <1>4 DEF Greeted, t

LEMMA GreetedWhole ==
    ASSUME NEW s, Greeted(s), NEW k \in Nat, Len(s) = k + 1
    PROVE  s = <<0>> \o [n \in 1 .. k |-> n]
<1> DEFINE t == [n \in 1 .. k |-> n]
<1>1. t \in Seq(Nat) /\ Len(t) = k /\ \A i \in 1 .. k : t[i] = i
  OBVIOUS
<1> HIDE DEF t
<1>2. /\ s \in Seq(Nat) /\ <<0>> \o t \in Seq(Nat) /\ Len(<<0>> \o t) = k + 1
      /\ \A i \in 1 .. k + 1 : (<<0>> \o t)[i] = IF i = 1 THEN 0 ELSE t[i - 1]
  BY <1>1 DEF Greeted
<1>3. \A i \in 1 .. k + 1 : s[i] = (<<0>> \o t)[i]
  <2>1. ASSUME NEW i \in 1 .. k + 1 PROVE s[i] = (<<0>> \o t)[i]
    <3>1. s[i] \in Nat /\ s[i] + 1 = i
      BY <1>2 DEF Greeted
    <3>2. CASE i = 1
      <4>1. (<<0>> \o t)[i] = 0
        BY <1>2, <3>2
      <4>2. QED
        BY <3>1, <3>2, <4>1
    <3>3. CASE i # 1
      <4>1. i - 1 \in 1 .. k /\ t[i - 1] = i - 1
        BY <1>1, <3>3
      <4>2. (<<0>> \o t)[i] = t[i - 1]
        BY <1>2, <3>3
      <4>3. s[i] = i - 1
        BY <3>1
      <4>4. QED
        BY <4>1, <4>2, <4>3
    <3>4. QED
      BY <3>2, <3>3
  <2>2. QED
    BY <2>1
<1>4. s = <<0>> \o t
  BY <1>2, <1>3, SeqEqual
<1>5. QED
  BY <1>4 DEF t

\* A copier has written n units, and may have one more in its hands.
InHand(p, n) ==
    \/ held[p] = 0 /\ taken[p] = n
    \/ held[p] = n + 1 /\ taken[p] = n + 1 /\ copier[p] \in {"write", "done"}

\* The client's units are in the handler's hands, at the upstream, or in a copier's.
ToUpstream ==
    /\ Run(peeked, 0) /\ Run(got["upstream"], Len(peeked))
    /\ InHand("client", Len(peeked) + Len(got["upstream"]))

ToClient ==
    \/ Run(got["client"], 0) /\ InHand("upstream", Len(got["client"]))
    \/ Greeted(got["client"]) /\ InHand("upstream", Len(got["client"]) - 1)

\* Until the replay is done nothing is copied, and only the SNI router has greeted.
BeforeCopying ==
    /\ session \in {"none", "hello", "dial", "replay"} =>
          /\ got["upstream"] = <<>> /\ taken["upstream"] = 0
          /\ \A p \in Peers : copier[p] = "off"
          /\ got["client"] = <<>> \/ (relay = "snirouter" /\ got["client"] = <<0>>)
    /\ session \in {"none", "hello"} => got["client"] = <<>>

CopierShape ==
    /\ DOMAIN got = Peers /\ DOMAIN taken = Peers /\ DOMAIN held = Peers /\ DOMAIN copier = Peers
    /\ \A p \in Peers : /\ copier[p] \in {"off", "read"} => held[p] = 0
                        /\ copier[p] = "write" => held[p] # 0

RelayInv == CopierShape /\ BeforeCopying /\ ToUpstream /\ ToClient

LEMMA TwoPeers ==
    /\ "client" \in Peers /\ "upstream" \in Peers /\ \A p \in Peers : p \in {"client", "upstream"}
    /\ Other("client") = "upstream" /\ Other("upstream") = "client"
  BY DEF Peers, Other

LEMMA RelayStart == RelayInit => RelayInv
<1> SUFFICES ASSUME RelayInit PROVE RelayInv
  OBVIOUS
<1>1. /\ \A p \in Peers : taken[p] = 0 /\ held[p] = 0 /\ got[p] = <<>> /\ copier[p] = "off"
      /\ DOMAIN got = Peers /\ DOMAIN taken = Peers /\ DOMAIN held = Peers /\ DOMAIN copier = Peers
      /\ peeked = <<>>
  BY DEF RelayInit
<1>2. CopierShape /\ BeforeCopying
  BY <1>1, TwoPeers DEF CopierShape, BeforeCopying
<1>3. /\ Run(peeked, 0) /\ Len(peeked) = 0 /\ Run(got["upstream"], Len(peeked)) /\ Len(got["upstream"]) = 0
      /\ Run(got["client"], 0) /\ Len(got["client"]) = 0
  BY <1>1, TwoPeers, RunEmpty
<1>4. ToUpstream /\ ToClient
  BY <1>1, <1>3, TwoPeers DEF ToUpstream, ToClient, InHand
<1>5. QED
  BY <1>2, <1>4 DEF RelayInv

\* The streams stand still; a copier may end, and the handler go on.
LEMMA RelayStands ==
    ASSUME RelayInv, UNCHANGED <<relay, peeked, taken, got, held>>,
           \/ UNCHANGED copier
           \/ \E p \in Peers : copier[p] # "off" /\ copier' = [copier EXCEPT ![p] = "done"],
           session' \in {"none", "hello", "dial", "replay"} =>
              session \in {"none", "hello", "dial", "replay"},
           session' \in {"none", "hello"} => session \in {"none", "hello"}
    PROVE  RelayInv'
<1>1. DOMAIN copier' = Peers /\ \A p \in Peers : copier'[p] = copier[p] \/ copier'[p] = "done"
  BY DEF RelayInv, CopierShape
<1>2. ASSUME session' \in {"none", "hello", "dial", "replay"} PROVE UNCHANGED copier
  BY <1>2 DEF RelayInv, BeforeCopying
<1>3. CopierShape'
  BY <1>1 DEF RelayInv, CopierShape
<1>4. BeforeCopying'
  BY <1>2 DEF RelayInv, BeforeCopying
<1>5. \A p \in Peers : \A n : InHand(p, n) => InHand(p, n)'
  BY <1>1 DEF InHand
<1>6. ToUpstream'
  BY <1>5, TwoPeers DEF RelayInv, ToUpstream
<1>7. ToClient'
  BY <1>5, TwoPeers DEF RelayInv, ToClient
<1>8. QED
  BY <1>3, <1>4, <1>6, <1>7 DEF RelayInv

LEMMA NothingGot ==
    got'["client"] \in {<<>>, <<0>>} /\ taken'["upstream"] = 0 /\ held'["upstream"] = 0 => ToClient'
<1> HAVE got'["client"] \in {<<>>, <<0>>} /\ taken'["upstream"] = 0 /\ held'["upstream"] = 0
<1>1. CASE got'["client"] = <<>>
  <2>1. Run(got'["client"], 0) /\ Len(got'["client"]) = 0
    BY <1>1, RunEmpty
  <2>2. QED
    BY <2>1 DEF ToClient, InHand
<1>2. CASE got'["client"] = <<0>>
  <2>1. Greeted(got'["client"]) /\ Len(got'["client"]) - 1 = 0
    BY <1>2, GreetedOne
  <2>2. QED
    BY <2>1 DEF ToClient, InHand
<1>3. QED
  BY <1>1, <1>2

\* The handler reads the hello before there is a copier.
LEMMA RelayHello ==
    ASSUME RelayInv, NEW complete \in BOOLEAN, ReadHello(complete)
    PROVE  RelayInv'
<1>1. /\ session = "hello" /\ session' \in {"hello", "dial"} /\ UNCHANGED <<relay, copier, held>>
      /\ peeked' = Append(peeked, taken["client"] + 1)
      /\ taken' = [taken EXCEPT !["client"] = @ + 1]
  BY DEF ReadHello, Handler
<1>2. /\ got["upstream"] = <<>> /\ got["client"] = <<>> /\ taken["upstream"] = 0
      /\ \A p \in Peers : copier[p] = "off" /\ held[p] = 0
  BY <1>1 DEF RelayInv, BeforeCopying, CopierShape
<1>3. /\ peeked \in Seq(Nat) /\ Len(peeked) \in Nat /\ Len(<<>>) = 0 /\ Run(peeked, 0)
      /\ taken["client"] = Len(peeked)
  <2>1. Run(peeked, 0) /\ peeked \in Seq(Nat) /\ Len(peeked) \in Nat /\ Len(<<>>) = 0
    BY DEF RelayInv, ToUpstream, Run
  <2>2. QED
    BY <1>2, <2>1, TwoPeers DEF RelayInv, ToUpstream, InHand
<1>4. peeked' = peeked \o <<taken["client"] + 1>>
  BY <1>1, <1>3
<1>5. Run(<<taken["client"] + 1>>, 0 + Len(peeked)) /\ Len(<<taken["client"] + 1>>) = 1
  BY <1>3, RunOne
<1>6. Run(peeked', 0) /\ Len(peeked') = Len(peeked) + 1
  BY <1>3, <1>4, <1>5, RunJoins
<1>7. /\ DOMAIN got' = Peers /\ got'["upstream"] = <<>>
      /\ \/ got'["client"] = <<>>
         \/ relay = "snirouter" /\ session' = "dial" /\ got'["client"] = <<0>>
  <2>1. CASE UNCHANGED got
    BY <1>2, <2>1 DEF RelayInv, CopierShape
  <2>2. CASE Greet("client") /\ relay = "snirouter" /\ complete
    <3>1. session' = "dial"
      BY <2>2 DEF ReadHello, Handler
    <3>2. QED
      BY <1>2, <2>2, <3>1, TwoPeers DEF Greet, RelayInv, CopierShape
  <2>3. QED
    BY <2>1, <2>2 DEF ReadHello
<1>8. DOMAIN taken' = Peers /\ taken'["client"] = taken["client"] + 1 /\ taken'["upstream"] = 0
  BY <1>1, <1>2, TwoPeers DEF RelayInv, CopierShape
<1>9. CopierShape' /\ BeforeCopying'
  BY <1>1, <1>2, <1>7, <1>8 DEF RelayInv, CopierShape, BeforeCopying
<1>10. ToUpstream'
  <2>1. Run(got'["upstream"], Len(peeked')) /\ Len(got'["upstream"]) = 0
    BY <1>3, <1>6, <1>7, RunEmpty
  <2>2. QED
    BY <1>1, <1>2, <1>3, <1>6, <1>8, <2>1, TwoPeers DEF ToUpstream, InHand
<1>11. ToClient'
  BY <1>1, <1>2, <1>7, <1>8, TwoPeers, NothingGot
<1>12. QED
  BY <1>9, <1>10, <1>11 DEF RelayInv

\* The upstream gets what was peeked before the copiers start.
LEMMA RelayReplay ==
    ASSUME RelayInv, Replay
    PROVE  RelayInv'
<1>1. /\ session = "replay" /\ session' = "relay" /\ UNCHANGED <<relay, taken, held>>
      /\ copier' = [p \in Peers |-> "read"]
  BY DEF Replay, StartCopiers
<1>2. /\ got["upstream"] = <<>> /\ taken["upstream"] = 0 /\ \A p \in Peers : held[p] = 0
      /\ got["client"] = <<>> \/ (relay = "snirouter" /\ got["client"] = <<0>>)
      /\ DOMAIN got = Peers
  BY <1>1 DEF RelayInv, BeforeCopying, CopierShape
<1>3. /\ Run(peeked, 0) /\ peeked \in Seq(Nat) /\ Len(peeked) \in Nat /\ Len(<<>>) = 0
  BY DEF RelayInv, ToUpstream, Run
<1>4. taken["client"] = Len(peeked)
  BY <1>2, <1>3, TwoPeers DEF RelayInv, ToUpstream, InHand
<1>5. CopierShape'
  <2>1. DOMAIN got' = Peers
    BY <1>2 DEF Replay, Greet
  <2>2. QED
    BY <1>1, <1>2, <2>1 DEF RelayInv, CopierShape
<1>6. BeforeCopying'
  BY <1>1 DEF BeforeCopying
<1>7. got'["client"] \in {<<>>, <<0>>}
  <2>1. CASE relay = "mieru" /\ Greet("client")
    <3>1. got'["client"] = Append(got["client"], 0) /\ got["client"] = <<>>
      BY <1>2, <2>1, TwoPeers DEF Greet
    <3>2. QED
      BY <3>1
  <2>2. CASE got' = [got EXCEPT !["upstream"] = @ \o peeked] \/ UNCHANGED got
    <3>1. got'["client"] = got["client"]
      BY <1>2, <2>2, TwoPeers
    <3>2. QED
      BY <1>2, <3>1
  <2>3. QED
    BY <2>1, <2>2 DEF Replay
<1>8. ToClient'
  BY <1>1, <1>2, <1>7, TwoPeers, NothingGot
<1>9. ToUpstream'
  <2>1. CASE got' = [got EXCEPT !["upstream"] = @ \o peeked] /\ peeked' = <<>>
    <3>1. got'["upstream"] = peeked
      BY <1>2, <1>3, <2>1, TwoPeers, ConcatEmptySeq
    <3>2. Run(peeked', 0) /\ Len(peeked') = 0
      BY <2>1, RunEmpty
    <3>3. Run(got'["upstream"], Len(peeked')) /\ Len(peeked') + Len(got'["upstream"]) = taken'["client"]
      BY <1>1, <1>3, <1>4, <3>1, <3>2
    <3>4. QED
      BY <1>1, <1>2, <3>2, <3>3, TwoPeers DEF ToUpstream, InHand
  <2>2. CASE got'["upstream"] = <<>> /\ UNCHANGED peeked
    <3>1. Run(peeked', 0) /\ Run(got'["upstream"], Len(peeked'))
      BY <1>3, <2>2, RunEmpty
    <3>2. Len(peeked') + Len(got'["upstream"]) = taken'["client"]
      BY <1>1, <1>3, <1>4, <2>2
    <3>3. QED
      BY <1>1, <1>2, <3>1, <3>2, TwoPeers DEF ToUpstream, InHand
  <2>3. QED
    <3>1. CASE relay = "mieru" /\ Greet("client") /\ UNCHANGED peeked
      BY <1>2, <2>2, <3>1 DEF Greet
    <3>2. CASE UNCHANGED <<got, peeked>>
      BY <1>2, <2>2, <3>2
    <3>3. QED
      BY <2>1, <3>1, <3>2 DEF Replay
<1>10. QED
  BY <1>5, <1>6, <1>8, <1>9 DEF RelayInv

LEMMA EmptyHanded ==
    ASSUME NEW p, NEW n \in Nat, InHand(p, n), held[p] = 0
    PROVE  taken[p] \in Nat /\ taken[p] = n
  BY DEF InHand

LEMMA FullHanded ==
    ASSUME NEW p, NEW n \in Nat, InHand(p, n), held[p] # 0
    PROVE  taken[p] = n + 1 /\ held[p] = n + 1
  BY DEF InHand

\* A copier takes the next unit into its hands.
LEMMA RelayTakes ==
    ASSUME RelayInv, NEW p \in Peers, Reads(p)
    PROVE  RelayInv'
<1>1. /\ copier[p] = "read" /\ held[p] = 0 /\ UNCHANGED <<relay, session, peeked, got>>
      /\ taken' = [taken EXCEPT ![p] = @ + 1] /\ held' = [held EXCEPT ![p] = taken[p] + 1]
      /\ copier' = [copier EXCEPT ![p] = "write"]
  BY DEF Reads, RelayInv, CopierShape
<1>2. /\ DOMAIN taken' = Peers /\ DOMAIN held' = Peers /\ DOMAIN copier' = Peers
      /\ taken'[p] = taken[p] + 1 /\ held'[p] = taken[p] + 1 /\ copier'[p] = "write"
      /\ \A q \in Peers \ {p} : taken'[q] = taken[q] /\ held'[q] = held[q] /\ copier'[q] = copier[q]
  BY <1>1 DEF RelayInv, CopierShape
<1>3. \A q \in Peers : \A n : InHand(q, n) => InHand(q, n)'
  BY <1>1, <1>2 DEF InHand
<1>4. Len(peeked) \in Nat /\ Len(got["upstream"]) \in Nat /\ Len(got["client"]) \in Nat
  <2>1. Len(peeked) \in Nat
    BY DEF RelayInv, ToUpstream, Run
  <2>2. Len(got["upstream"]) \in Nat
    BY DEF RelayInv, ToUpstream, Run
  <2>3. Len(got["client"]) \in Nat
    BY DEF RelayInv, ToClient, Run, Greeted
  <2>4. QED
    BY <2>1, <2>2, <2>3
<1>5. taken[p] \in Nat
  <2>1. CASE p = "client"
    <3>1. InHand("client", Len(peeked) + Len(got["upstream"]))
      BY DEF RelayInv, ToUpstream
    <3>2. QED
      BY <1>1, <1>4, <2>1, <3>1, EmptyHanded
  <2>2. CASE p = "upstream"
    <3>1. CASE InHand("upstream", Len(got["client"]))
      BY <1>1, <1>4, <2>2, <3>1, EmptyHanded
    <3>2. CASE Greeted(got["client"]) /\ InHand("upstream", Len(got["client"]) - 1)
      <4>1. Len(got["client"]) - 1 \in Nat
        BY <1>4, <3>2, GreetedLen
      <4>2. QED
        BY <1>1, <2>2, <3>2, <4>1, EmptyHanded
    <3>3. QED
      BY <3>1, <3>2 DEF RelayInv, ToClient
  <2>3. QED
    BY <2>1, <2>2, TwoPeers
<1>6. CopierShape'
  BY <1>1, <1>2, <1>5 DEF RelayInv, CopierShape
<1>7. BeforeCopying'
  BY <1>1 DEF RelayInv, BeforeCopying
<1>8. ToUpstream'
  BY <1>1, <1>3, TwoPeers DEF RelayInv, ToUpstream
<1>9. ToClient'
  BY <1>1, <1>3, TwoPeers DEF RelayInv, ToClient
<1>10. QED
  BY <1>6, <1>7, <1>8, <1>9 DEF RelayInv

LEMMA PlusOne ==
    ASSUME NEW a \in Nat, NEW b \in Nat, NEW c, c = b + 1
    PROVE  a + c = (a + b) + 1
  OBVIOUS

\* A copier writes what it holds, the obfs front behind its fake handshake.
LEMMA RelayWrites ==
    ASSUME RelayInv, NEW p \in Peers, CopyWrite(p)
    PROVE  RelayInv'
<1> DEFINE greeting == IF relay = "obfs" /\ p = "upstream" /\ got[Other(p)] = <<>> THEN <<0>> ELSE <<>>
<1>1. /\ copier[p] = "write" /\ held[p] # 0 /\ UNCHANGED <<relay, session, peeked, taken>>
      /\ got' = [got EXCEPT ![Other(p)] = @ \o greeting \o <<held[p]>>]
      /\ held' = [held EXCEPT ![p] = 0] /\ copier' = [copier EXCEPT ![p] = "read"]
  BY DEF CopyWrite, RelayInv, CopierShape
<1>2. Other(p) \in Peers /\ Other(p) # p
  BY TwoPeers
<1>3. /\ DOMAIN got' = Peers /\ DOMAIN held' = Peers /\ DOMAIN copier' = Peers
      /\ got'[Other(p)] = got[Other(p)] \o greeting \o <<held[p]>> /\ got'[p] = got[p]
      /\ held'[p] = 0 /\ copier'[p] = "read"
      /\ \A q \in Peers \ {p} : held'[q] = held[q] /\ copier'[q] = copier[q]
  BY <1>1, <1>2 DEF RelayInv, CopierShape
<1>4. CopierShape'
  BY <1>1, <1>3 DEF RelayInv, CopierShape
<1>5. session \notin {"none", "hello", "dial", "replay"}
  BY <1>1 DEF RelayInv, BeforeCopying
<1>6. BeforeCopying'
  BY <1>1, <1>5 DEF BeforeCopying
<1>7. Len(peeked) \in Nat /\ Len(got["upstream"]) \in Nat /\ Len(got["client"]) \in Nat
  <2>1. Len(peeked) \in Nat
    BY DEF RelayInv, ToUpstream, Run
  <2>2. Len(got["upstream"]) \in Nat
    BY DEF RelayInv, ToUpstream, Run
  <2>3. Len(got["client"]) \in Nat
    BY DEF RelayInv, ToClient, Run, Greeted
  <2>4. QED
    BY <2>1, <2>2, <2>3
<1> HIDE DEF greeting
<1>8. CASE p = "client"
  <2> DEFINE n == Len(peeked) + Len(got["upstream"])
  <2>1. n \in Nat /\ InHand("client", n) /\ held["client"] = n + 1 /\ taken["client"] = n + 1
    <3>1. n \in Nat /\ InHand("client", n)
      BY <1>7 DEF RelayInv, ToUpstream
    <3>2. QED
      BY <1>1, <1>8, <3>1, FullHanded
  <2>2. Run(got["upstream"], Len(peeked)) /\ got["upstream"] \in Seq(Nat)
    BY DEF RelayInv, ToUpstream, Run
  <2>3. got'["upstream"] = got["upstream"] \o <<held["client"]>>
    <3>1. greeting = <<>>
      BY <1>8 DEF greeting
    <3>2. QED
      BY <1>3, <1>8, <2>2, <3>1, TwoPeers, ConcatEmptySeq
  <2>4. Run(<<held["client"]>>, Len(peeked) + Len(got["upstream"])) /\ Len(<<held["client"]>>) = 1
    BY <2>1, RunOne
  <2>5. Run(got'["upstream"], Len(peeked)) /\ Len(got'["upstream"]) = Len(got["upstream"]) + 1
    BY <1>7, <2>2, <2>3, <2>4, RunJoins
  <2>6. Len(peeked') + Len(got'["upstream"]) = taken'["client"]
    <3>1. taken'["client"] = n + 1 /\ Len(peeked') = Len(peeked)
      BY <1>1, <2>1
    <3>2. Len(peeked) + Len(got'["upstream"]) = n + 1
      BY <1>7, <2>5, PlusOne DEF n
    <3>3. QED
      BY <3>1, <3>2
  <2>7. ToUpstream'
    <3>1. Run(peeked', 0) /\ Run(got'["upstream"], Len(peeked'))
      BY <1>1, <2>5 DEF RelayInv, ToUpstream
    <3>2. QED
      BY <1>3, <1>8, <2>6, <3>1 DEF ToUpstream, InHand
  <2>8. ToClient'
    BY <1>1, <1>3, <1>8, TwoPeers DEF RelayInv, ToClient, InHand
  <2>9. QED
    BY <1>4, <1>6, <2>7, <2>8 DEF RelayInv
<1>9. CASE p = "upstream"
  <2>1. ToUpstream'
    BY <1>1, <1>3, <1>9, TwoPeers DEF RelayInv, ToUpstream, InHand
  <2>2. got'["client"] = got["client"] \o greeting \o <<held["upstream"]>> /\ held'["upstream"] = 0
    BY <1>3, <1>9, TwoPeers
  <2>3. ASSUME Run(got["client"], 0), InHand("upstream", Len(got["client"]))
        PROVE  ToClient'
    <3>1. held["upstream"] = Len(got["client"]) + 1 /\ taken["upstream"] = Len(got["client"]) + 1
      BY <1>1, <1>7, <1>9, <2>3, FullHanded
    <3>2. got["client"] \in Seq(Nat)
      BY <2>3 DEF Run
    <3>3. CASE greeting = <<>>
      <4>1. got'["client"] = got["client"] \o <<held["upstream"]>>
        BY <2>2, <3>2, <3>3, ConcatEmptySeq
      <4>2. Run(<<held["upstream"]>>, 0 + Len(got["client"])) /\ Len(<<held["upstream"]>>) = 1
        BY <1>7, <3>1, RunOne
      <4>3. Run(got'["client"], 0) /\ Len(got'["client"]) = Len(got["client"]) + 1
        BY <1>7, <2>3, <4>1, <4>2, RunJoins
      <4>4. QED
        BY <1>1, <2>2, <3>1, <4>3 DEF ToClient, InHand
    <3>4. CASE greeting = <<0>> /\ got["client"] = <<>>
      <4>1. held["upstream"] = 1 /\ taken["upstream"] = 1
        BY <3>1, <3>4
      <4>2. got'["client"] = <<0>> \o <<Len(<<0>>)>>
        BY <2>2, <3>4, <4>1
      <4>3. Greeted(got'["client"]) /\ Len(got'["client"]) - 1 = 1
        <5>1. Len(<<0>>) = 1 /\ Greeted(<<0>>)
          BY GreetedOne
        <5>2. Greeted(<<0>> \o <<Len(<<0>>)>>) /\ Len(<<0>> \o <<Len(<<0>>)>>) = Len(<<0>>) + 1
          BY <5>1, GreetedJoins
        <5>3. Len(got'["client"]) = Len(<<0>>) + 1
          BY <4>2, <5>2
        <5>4. QED
          BY <4>2, <5>1, <5>2, <5>3
      <4>4. QED
        BY <1>1, <2>2, <4>1, <4>3 DEF ToClient, InHand
    <3>5. QED
      BY <1>9, <3>3, <3>4, TwoPeers DEF greeting
  <2>4. ASSUME Greeted(got["client"]), InHand("upstream", Len(got["client"]) - 1)
        PROVE  ToClient'
    <3>1. /\ Len(got["client"]) - 1 \in Nat /\ (Len(got["client"]) - 1) + 1 = Len(got["client"])
          /\ got["client"] # <<>>
      BY <1>7, <2>4, GreetedLen
    <3>2. held["upstream"] = Len(got["client"]) /\ taken["upstream"] = Len(got["client"])
      <4>1. /\ held["upstream"] = (Len(got["client"]) - 1) + 1
            /\ taken["upstream"] = (Len(got["client"]) - 1) + 1
        BY <1>1, <1>9, <2>4, <3>1, FullHanded
      <4>2. QED
        BY <3>1, <4>1
    <3>3. greeting = <<>> /\ got["client"] \in Seq(Nat)
      BY <1>9, <2>4, <3>1, TwoPeers DEF greeting, Greeted
    <3>4. got'["client"] = got["client"] \o <<Len(got["client"])>>
      BY <2>2, <3>2, <3>3, ConcatEmptySeq
    <3>5. Greeted(got'["client"]) /\ Len(got'["client"]) = Len(got["client"]) + 1
      BY <2>4, <3>4, GreetedJoins
    <3>6. Len(got'["client"]) - 1 = taken'["upstream"]
      BY <1>1, <1>7, <3>2, <3>5
    <3>7. QED
      BY <2>2, <3>5, <3>6 DEF ToClient, InHand
  <2>5. ToClient'
    BY <2>3, <2>4 DEF RelayInv, ToClient
  <2>6. QED
    BY <1>4, <1>6, <2>1, <2>5 DEF RelayInv
<1>10. QED
  BY <1>8, <1>9, TwoPeers

LEMMA RelayInductive == ASSUME RelayInv, [RelayNext]_relayVars PROVE RelayInv'
<1>1. CASE UNCHANGED relayVars
  BY <1>1, RelayStands DEF relayVars, copyVars
<1>2. ASSUME NEW p \in Peers, PeerSends(p) \/ PeerEnds(p) \/ CopyEof(p) \/ CopyFails(p) PROVE RelayInv'
  <2>1. UNCHANGED <<relay, session, peeked, taken, got, held>>
    BY <1>2 DEF PeerSends, PeerEnds, CopyEof, CopyFails, Ends, copyVars
  <2>2. UNCHANGED copier \/ (copier[p] # "off" /\ copier' = [copier EXCEPT ![p] = "done"])
    BY <1>2 DEF PeerSends, PeerEnds, CopyEof, CopyFails, Ends, copyVars
  <2>3. QED
    BY <2>1, <2>2, RelayStands
<1>3. CASE Accept \/ HelloFails \/ DialFails \/ Dial \/ ReplayFails \/ RelayEnded \/ BothEnded
  <2>1. /\ UNCHANGED <<relay, peeked, taken, got, held, copier>>
        /\ \/ session = "none" /\ session' \in {"hello", "dial"}
           \/ session = "hello" /\ session' \in {"over", "dial"}
           \/ session = "dial" /\ session' \in {"over", "replay"}
           \/ session' \in {"over", "closing"}
    BY <1>3 DEF Accept, HelloFails, DialFails, Dial, ReplayFails, RelayEnded, BothEnded, Handler, copyVars
  <2>2. QED
    BY <2>1, RelayStands
<1>4. CASE RelayTick \/ TimerFires \/ closeBoth
  BY <1>4, RelayStands DEF RelayTick, TimerFires, closeBoth, copyVars
<1>5. QED
  BY <1>1, <1>2, <1>3, <1>4, RelayHello, RelayReplay, RelayTakes, RelayWrites
     DEF RelayNext, HandlerStep, CopierStep, CopyRead

LEMMA RelayAlways == RelaySpec => []RelayInv
<1>1. QED
  BY RelayStart, RelayInductive, PTL DEF RelaySpec

\* What a copier holds joins what it has written to all that was taken.
LEMMA RunWithHolding ==
    ASSUME NEW p, NEW s, NEW o \in Nat, Run(s, o), InHand(p, o + Len(s))
    PROVE  Run(s \o Holding(p), o) /\ o + Len(s \o Holding(p)) = taken[p]
<1>1. s \in Seq(Nat) /\ Len(s) \in Nat /\ o + Len(s) \in Nat
  BY DEF Run
<1>2. CASE held[p] = 0
  <2>1. Holding(p) = <<>> /\ taken[p] = o + Len(s)
    BY <1>1, <1>2 DEF InHand, Holding
  <2>2. s \o Holding(p) = s
    BY <1>1, <2>1, ConcatEmptySeq
  <2>3. QED
    BY <2>1, <2>2
<1>3. CASE held[p] # 0
  <2>1. held[p] = (o + Len(s)) + 1 /\ taken[p] = (o + Len(s)) + 1
    BY <1>1, <1>3, FullHanded
  <2>2. Holding(p) = <<held[p]>> /\ Run(Holding(p), o + Len(s)) /\ Len(Holding(p)) = 1
    BY <1>1, <1>3, <2>1, RunOne DEF Holding
  <2>3. Run(s \o Holding(p), o) /\ Len(s \o Holding(p)) = Len(s) + 1
    BY <1>1, <2>2, RunJoins
  <2>4. QED
    BY <1>1, <2>1, <2>3, PlusOne
<1>4. QED
  BY <1>2, <1>3

LEMMA GreetedWithHolding ==
    ASSUME NEW p, NEW s, Greeted(s), InHand(p, Len(s) - 1)
    PROVE  /\ taken[p] \in Nat
           /\ Greeted(s \o Holding(p)) /\ Len(s \o Holding(p)) = taken[p] + 1
<1>1. /\ s \in Seq(Nat) /\ Len(s) \in Nat /\ Len(s) > 0
      /\ Len(s) - 1 \in Nat /\ (Len(s) - 1) + 1 = Len(s)
  BY DEF Greeted
<1>2. CASE held[p] = 0
  <2>1. Holding(p) = <<>> /\ taken[p] = Len(s) - 1
    BY <1>1, <1>2 DEF InHand, Holding
  <2>2. s \o Holding(p) = s
    BY <1>1, <2>1, ConcatEmptySeq
  <2>3. QED
    BY <1>1, <2>1, <2>2
<1>3. CASE held[p] # 0
  <2>1. held[p] = (Len(s) - 1) + 1 /\ taken[p] = (Len(s) - 1) + 1
    BY <1>1, <1>3, FullHanded
  <2>2. Holding(p) = <<Len(s)>> /\ taken[p] = Len(s)
    BY <1>1, <1>3, <2>1 DEF Holding
  <2>3. QED
    BY <1>1, <2>2, GreetedJoins
<1>4. QED
  BY <1>2, <1>3

\* The upstream gets the client's stream from its first byte and in order, and the
\* client the upstream's behind at most one greeting: peekableConn's replay, the two
\* copiers and the greetings of the SNI router, the obfs front and the mieru bridge,
\* for every number of units and every timeout.
THEOREM StreamsRelayedInOrder == RelaySpec => []RelayedInOrder
<1>1. RelayInv => RelayedInOrder
  <2> SUFFICES ASSUME RelayInv PROVE RelayedInOrder
    OBVIOUS
  <2>1. peeked \o got["upstream"] \o Holding("client") = [n \in 1 .. taken["client"] |-> n]
    <3> DEFINE s == peeked \o got["upstream"]
    <3>1. /\ Run(peeked, 0) /\ Run(got["upstream"], Len(peeked)) /\ Len(peeked) \in Nat
          /\ InHand("client", Len(peeked) + Len(got["upstream"]))
      BY DEF RelayInv, ToUpstream, Run
    <3>2. Run(s, 0) /\ Len(s) = Len(peeked) + Len(got["upstream"])
      BY <3>1, RunJoins
    <3>3. InHand("client", Len(s)) /\ Len(s) \in Nat
      BY <3>1, <3>2 DEF Run
    <3> HIDE DEF s
    <3>4. Run(s \o Holding("client"), 0) /\ 0 + Len(s \o Holding("client")) = taken["client"]
      BY <3>2, <3>3, RunWithHolding
    <3>5. Len(s \o Holding("client")) = taken["client"]
      BY <3>4 DEF Run
    <3>6. s \o Holding("client") = [n \in 1 .. taken["client"] |-> n]
      BY <3>4, <3>5, RunWhole
    <3>7. QED
      BY <3>6 DEF s
  <2>2. \E greeting \in {<<>>, <<0>>} :
           got["client"] \o Holding("upstream") = greeting \o [n \in 1 .. taken["upstream"] |-> n]
    <3> DEFINE all == got["client"] \o Holding("upstream")
               units == [n \in 1 .. taken["upstream"] |-> n]
    <3>1. CASE Run(got["client"], 0) /\ InHand("upstream", Len(got["client"]))
      <4>1. InHand("upstream", 0 + Len(got["client"]))
        BY <3>1 DEF Run
      <4>2. Run(all, 0) /\ 0 + Len(all) = taken["upstream"]
        BY <3>1, <4>1, RunWithHolding
      <4>3. Len(all) = taken["upstream"] /\ all \in Seq(Nat)
        BY <4>2 DEF Run
      <4>4. all = units
        BY <4>2, <4>3, RunWhole
      <4>5. all = <<>> \o all
        BY <4>3, ConcatEmptySeq
      <4>6. QED
        BY <4>4, <4>5
    <3>2. CASE Greeted(got["client"]) /\ InHand("upstream", Len(got["client"]) - 1)
      <4>1. taken["upstream"] \in Nat /\ Greeted(all) /\ Len(all) = taken["upstream"] + 1
        BY <3>2, GreetedWithHolding
      <4>2. all = <<0>> \o units
        BY <4>1, GreetedWhole
      <4>3. QED
        BY <4>2
    <3>3. QED
      BY <3>1, <3>2 DEF RelayInv, ToClient
  <2>3. QED
    BY <2>1, <2>2 DEF RelayedInOrder
<1>2. QED
  BY <1>1, RelayAlways, PTL

\* The timer never shows more than the time since something was read.
TimerInv ==
    /\ limit \in {IdleTimeout, OneWayTimeout}
    /\ idle \in Nat /\ quiet \in Nat /\ idle <= quiet

LEMMA TimerInductive == ASSUME TimerInv, [RelayNext]_relayVars PROVE TimerInv'
<1>1. CASE UNCHANGED timerVars
  BY <1>1 DEF TimerInv, timerVars
<1>2. ASSUME idle' = 0, quiet' = 0, limit' \in {limit, OneWayTimeout} PROVE TimerInv'
  BY <1>2 DEF TimerInv
<1>3. CASE RelayTick
  <2>1. limit \in Nat /\ IdleTimeout \in Nat /\ limit <= IdleTimeout
    BY RelayAssumption DEF TimerInv
  <2>2. QED
    BY <1>3, <2>1 DEF RelayTick, TimerInv
<1>4. CASE TimerFires \/ closeBoth \/ RelayEnded
  BY <1>4 DEF TimerFires, closeBoth, RelayEnded, TimerInv
<1>5. CASE Replay
  BY <1>2, <1>5 DEF Replay, StartCopiers
<1>6. ASSUME NEW p \in Peers, PeerSends(p) \/ PeerEnds(p) \/ CopierStep(p) \/ CopyWrite(p) PROVE TimerInv'
  <2>1. CASE CopyRead(p)
    BY <1>2, <2>1 DEF CopyRead, Reads
  <2>2. CASE Ends(p)
    <3>1. CASE relay = "mieru"
      BY <1>2, <2>2, <3>1 DEF Ends
    <3>2. CASE relay # "mieru"
      BY <2>2, <3>2 DEF Ends, TimerInv
    <3>3. QED
      BY <3>1, <3>2
  <2>3. QED
    BY <1>1, <1>6, <2>1, <2>2 DEF PeerSends, PeerEnds, CopierStep, CopyEof, CopyFails, CopyWrite
<1>7. CASE Accept \/ HelloFails \/ DialFails \/ Dial \/ ReplayFails \/ BothEnded
           \/ \E complete \in BOOLEAN : ReadHello(complete)
  BY <1>1, <1>7 DEF Accept, HelloFails, DialFails, Dial, ReplayFails, BothEnded, ReadHello, Handler
<1>8. CASE UNCHANGED relayVars
  BY <1>1, <1>8 DEF relayVars
<1>9. QED
  BY <1>3, <1>4, <1>5, <1>6, <1>7, <1>8 DEF RelayNext, HandlerStep

LEMMA TimerAlways == RelaySpec => []TimerInv
<1>1. RelayInit => TimerInv
  BY RelayAssumption DEF RelayInit, TimerInv
<1>2. QED
  BY <1>1, TimerInductive, PTL DEF RelaySpec

\* The inactivity timer of a relay fires only after nothing was read from either side
\* for the whole of its timeout, the one-way timeout of mieru included, and the
\* connections are closed by the handler or by a timer that has fired.
THEOREM TimerCutsIdle == RelaySpec => OnlyIdleIsCut
<1>1. ASSUME TimerInv, [RelayNext]_relayVars
      PROVE  /\ ~firing /\ firing' => quiet >= limit
             /\ ~closedBoth /\ closedBoth' /\ session' = session => firing
  <2>1. CASE UNCHANGED <<firing, closedBoth>>
    BY <2>1
  <2>2. CASE TimerFires
    <3>1. idle = limit /\ limit \in Nat
      BY <1>1, <2>2, RelayAssumption DEF TimerFires, TimerInv
    <3>2. QED
      BY <1>1, <2>2, <3>1 DEF TimerInv, TimerFires
  <2>3. CASE closeBoth
    BY <2>3 DEF closeBoth
  <2>4. CASE HelloFails \/ DialFails \/ ReplayFails \/ RelayEnded
    <3>1. UNCHANGED firing /\ session' # session
      BY <2>4 DEF HelloFails, DialFails, ReplayFails, RelayEnded, Handler, timerVars
    <3>2. QED
      BY <3>1
  <2>5. ASSUME NEW p \in Peers, PeerSends(p) \/ PeerEnds(p) \/ CopierStep(p) \/ CopyWrite(p)
        PROVE  UNCHANGED <<firing, closedBoth>>
    BY <2>5 DEF PeerSends, PeerEnds, CopierStep, CopyRead, Reads, CopyEof, CopyFails, Ends, CopyWrite,
                timerVars
  <2>6. ASSUME Accept \/ Dial \/ Replay \/ BothEnded \/ RelayTick
               \/ \E complete \in BOOLEAN : ReadHello(complete)
        PROVE  UNCHANGED <<firing, closedBoth>>
    BY <2>6 DEF Accept, Dial, Replay, StartCopiers, BothEnded, RelayTick, ReadHello, Handler, timerVars
  <2>7. QED
    BY <1>1, <2>1, <2>2, <2>3, <2>4, <2>5, <2>6 DEF RelayNext, HandlerStep, relayVars, timerVars
<1>2. QED
  BY <1>1, TimerAlways, PTL DEF RelaySpec, OnlyIdleIsCut

-----------------------------------------------------------------------------
(* Front.                                                                   *)

FrontShape ==
    /\ DOMAIN reserved = Ports /\ DOMAIN bound = Ports /\ DOMAIN inbound = Tags /\ DOMAIN front = Tags
    /\ DOMAIN object = Instances /\ DOMAIN adder = Adders /\ DOMAIN file = Tags
    /\ \A o \in Instances : DOMAIN object[o] = {"tag", "port", "state", "stopping"}
    /\ \A c \in Adders : /\ DOMAIN adder[c] = {"op", "tag", "at", "port", "obj"}
                         /\ adder[c].tag \in Tags \/ (adder[c].tag = NoOne /\ adder[c].at = "")

Unbound(t) == \A p \in Ports : bound[p] # t
Unreserved(t) == \A p \in Ports : reserved[p] # t
NoFile(t) == t \in ShadowTLS => file[t] # "whole"
HasFile(t) == t \in ShadowTLS => file[t] = "whole"
Listens(t, p) == p \in Ports /\ inbound[t] = p /\ bound[p] = t

\* A handler that does not listen may be left of a node that is gone.
Gone(t) == front[t] = NoOne /\ Unbound(t) /\ NoFile(t) /\ (t \in panicked \/ Unreserved(t))
Up(t) == front[t] \in Instances /\ Listens(t, object[front[t]].port) /\ HasFile(t)

\* What a call that is under way has built of its node, or taken down.
AddMidway(c, t) ==
    \/ adder[c].at = "alloc" /\ Gone(t)
    \/ /\ adder[c].at \in {"build", "bind"} /\ adder[c].port \in Ports
       /\ front[t] = NoOne /\ Unbound(t) /\ NoFile(t)
    \/ /\ adder[c].at = "write"
       /\ front[t] = NoOne /\ Listens(t, adder[c].port) /\ NoFile(t)
    \/ /\ adder[c].at \in {"stop", "register"}
       /\ front[t] = NoOne /\ Listens(t, adder[c].port) /\ HasFile(t)

DelMidway(c, t) ==
    \/ adder[c].at = "stop" /\ (Gone(t) \/ Up(t))
    \/ adder[c].at \in {"wait", "remove"} /\ front[t] = NoOne /\ Unreserved(t)
    \/ adder[c].at = "unbind" /\ front[t] = NoOne /\ Unreserved(t) /\ NoFile(t)

Midway(c, t) == \/ adder[c].op = "add" /\ AddMidway(c, t)
                \/ adder[c].op = "del" /\ DelMidway(c, t)

\* A tag whose calls never met has one call under way or none.
Alone(t) ==
    /\ \A c, d \in Adders : adder[c].tag = t /\ adder[d].tag = t => c = d
    /\ (\A c \in Adders : adder[c].tag # t) => Gone(t) \/ Up(t)
    /\ \A c \in Adders : adder[c].tag = t => Midway(c, t)

FrontInv == FrontShape /\ \A t \in Tags : t \notin crossed => Alone(t)

\* What a step of another tag's call, or of a supervisor, leaves a tag.
Untouched(t) ==
    /\ front'[t] = front[t] /\ inbound'[t] = inbound[t]
    /\ file'[t] = file[t]
    /\ \A p \in Ports : bound'[p] = t <=> bound[p] = t
    /\ t \in panicked => t \in panicked'
    /\ \A p \in Ports : reserved'[p] = t => reserved[p] = t
    /\ front[t] \in Instances => object'[front[t]].port = object[front[t]].port
    /\ \A c \in Adders : adder[c].tag = t \/ adder'[c].tag = t => adder'[c] = adder[c]

LEMMA TagStands == ASSUME NEW t \in Tags, Alone(t), Untouched(t) PROVE Alone(t)'
<1>1. Gone(t) => Gone(t)'
  BY DEF Untouched, Gone, NoFile, Unreserved, Unbound
<1>2. Up(t) => Up(t)'
  BY DEF Untouched, Up, HasFile, Listens
<1>3. \A c \in Adders : adder'[c].tag = t => adder[c].tag = t /\ adder'[c] = adder[c]
  BY DEF Untouched
<1>4. ASSUME NEW c \in Adders, adder'[c] = adder[c], Midway(c, t) PROVE Midway(c, t)'
  <2>1. AddMidway(c, t) => AddMidway(c, t)'
    BY <1>1, <1>4 DEF AddMidway, Untouched, NoFile, HasFile, Unbound, Listens
  <2>2. DelMidway(c, t) => DelMidway(c, t)'
    BY <1>1, <1>2, <1>4 DEF DelMidway, Untouched, NoFile, Unreserved
  <2>3. QED
    BY <1>4, <2>1, <2>2 DEF Midway
<1>5. (\A c \in Adders : adder'[c].tag # t) => \A c \in Adders : adder[c].tag # t
  BY DEF Untouched
<1>6. QED
  BY <1>1, <1>2, <1>3, <1>4, <1>5 DEF Alone

\* The one call of a tag goes on, or returns.
LEMMA TagMoves ==
    ASSUME NEW t \in Tags, Alone(t), NEW c \in Adders, adder[c].tag = t,
           \A d \in Adders \ {c} : adder'[d] = adder[d],
           \/ adder'[c].tag = t /\ Midway(c, t)'
           \/ adder'[c].tag # t /\ (Gone(t)' \/ Up(t)')
    PROVE  Alone(t)'
<1>1. \A d \in Adders : adder'[d].tag = t => d = c
  BY DEF Alone
<1>2. CASE adder'[c].tag = t /\ Midway(c, t)'
  BY <1>1, <1>2 DEF Alone
<1>3. CASE adder'[c].tag # t /\ (Gone(t)' \/ Up(t)')
  BY <1>1, <1>3 DEF Alone
<1>4. QED
  BY <1>2, <1>3

LEMMA FrontStart == FrontInit => FrontInv
<1> SUFFICES ASSUME FrontInit PROVE FrontInv
  OBVIOUS
<1>1. FrontShape
  BY DEF FrontInit, FrontShape, NoAdder, NoObject
<1>2. ASSUME NEW t \in Tags PROVE Alone(t)
  <2>1. Gone(t)
    BY <1>2, FrontAssumption DEF FrontInit, Gone, NoFile, Unreserved, Unbound
  <2>2. \A c \in Adders : adder[c].tag # t
    BY <1>2, FrontAssumption DEF FrontInit, NoAdder
  <2>3. QED
    BY <2>1, <2>2 DEF Alone
<1>3. QED
  BY <1>1, <1>2 DEF FrontInv

\* One call moves, by one of its steps.
LEMMA CallShape ==
    ASSUME FrontShape, NEW c \in Adders, CallStep(c)
    PROVE  /\ FrontShape' /\ adder[c].tag \in Tags
           /\ adder'[c].tag \in {adder[c].tag, NoOne} /\ crossed' = crossed
           /\ \A d \in Adders \ {c} : adder'[d] = adder[d]
<1>1. adder[c].tag \in Tags
  <2>1. adder[c].at # ""
    BY DEF CallStep, AllocFails, AllocPort, BuildFails, Build, addInboundFails, addInbound, StartFails,
           WriteFile, Register, StopLookup, StopWait, StopRemove, DelInbound
  <2>2. QED
    BY <2>1 DEF FrontShape
<1>2. ASSUME Done(c)
      PROVE  /\ DOMAIN adder' = Adders /\ adder'[c] = NoAdder /\ \A d \in Adders \ {c} : adder'[d] = adder[d]
  BY <1>2 DEF Done, FrontShape
<1>3. ASSUME NEW next, To(c, next)
      PROVE  /\ DOMAIN adder' = Adders /\ DOMAIN adder'[c] = {"op", "tag", "at", "port", "obj"}
             /\ adder'[c].tag = adder[c].tag
             /\ \A d \in Adders \ {c} : adder'[d] = adder[d]
  BY <1>1, <1>3 DEF To, FrontShape
<1>4. /\ DOMAIN adder' = Adders /\ DOMAIN adder'[c] = {"op", "tag", "at", "port", "obj"}
      /\ adder'[c].tag = adder[c].tag \/ (adder'[c].tag = NoOne /\ adder'[c].at = "")
      /\ \A d \in Adders \ {c} : adder'[d] = adder[d]
  <2>1. CASE Done(c)
    <3>1. /\ DOMAIN NoAdder = {"op", "tag", "at", "port", "obj"}
          /\ NoAdder.tag = NoOne /\ NoAdder.at = ""
      BY DEF NoAdder
    <3>2. QED
      BY <1>2, <2>1, <3>1
  <2>2. CASE \E next : To(c, next)
    BY <1>3, <2>2
  <2>3. CASE \E p \in Ports : AllocPort(c, p)
    <3>1. PICK p \in Ports : adder' = [adder EXCEPT ![c].port = p, ![c].at = "build"]
      BY <2>3 DEF AllocPort
    <3>2. /\ adder'[c] = [adder[c] EXCEPT !.port = p, !.at = "build"] /\ DOMAIN adder' = Adders
          /\ \A d \in Adders \ {c} : adder'[d] = adder[d]
      BY <3>1 DEF FrontShape
    <3>3. DOMAIN adder[c] = {"op", "tag", "at", "port", "obj"}
      BY DEF FrontShape
    <3>4. DOMAIN adder'[c] = DOMAIN adder[c]
      BY <3>2
    <3>5. adder'[c].tag = adder[c].tag
      BY <3>2, <3>3
    <3>6. QED
      BY <3>2, <3>3, <3>4, <3>5
  <2>4. CASE StopLookup(c)
    <3>1. CASE front[adder[c].tag] = NoOne
      BY <2>2, <2>4, <3>1 DEF StopLookup
    <3>2. CASE front[adder[c].tag] # NoOne
      <4>1. PICK o, next : adder' = [adder EXCEPT ![c].obj = o, ![c].at = next]
        BY <2>4, <3>2 DEF StopLookup
      <4>2. /\ adder'[c] = [adder[c] EXCEPT !.obj = o, !.at = next] /\ DOMAIN adder' = Adders
            /\ \A d \in Adders \ {c} : adder'[d] = adder[d]
        BY <4>1 DEF FrontShape
      <4>3. DOMAIN adder[c] = {"op", "tag", "at", "port", "obj"}
        BY DEF FrontShape
      <4>4. DOMAIN adder'[c] = DOMAIN adder[c]
        BY <4>2
      <4>5. adder'[c].tag = adder[c].tag
        BY <4>2, <4>3
      <4>6. QED
        BY <4>2, <4>3, <4>4, <4>5
    <3>3. QED
      BY <3>1, <3>2
  <2>5. QED
    BY <2>1, <2>2, <2>3, <2>4 DEF CallStep, AllocFails, BuildFails, Build, addInboundFails, addInbound,
          StartFails, WriteFile, Register, StopWait, StopRemove, DelInbound
<1>5. /\ DOMAIN reserved' = Ports /\ DOMAIN bound' = Ports /\ DOMAIN inbound' = Tags
      /\ DOMAIN file' = Tags /\ crossed' = crossed
  BY DEF CallStep, AllocFails, AllocPort, BuildFails, Build, addInboundFails, addInbound, StartFails,
         WriteFile, Register, StopLookup, StopWait, StopRemove, DelInbound, FrontShape, Release,
         removeInbound, Kept, nodeVars, objVars
<1>6. /\ DOMAIN front' = Tags /\ DOMAIN object' = Instances
      /\ \A o \in Instances : DOMAIN object'[o] = {"tag", "port", "state", "stopping"}
  <2>1. CASE Register(c)
    BY <2>1 DEF Register, FrontShape
  <2>2. CASE StopLookup(c)
    BY <2>2 DEF StopLookup, FrontShape
  <2>3. CASE UNCHANGED <<front, object>>
    BY <2>3 DEF FrontShape
  <2>4. QED
    BY <2>1, <2>2, <2>3
       DEF CallStep, AllocFails, AllocPort, BuildFails, Build, addInboundFails, addInbound, StartFails,
           WriteFile, StopWait, StopRemove, DelInbound, objVars
<1>7. FrontShape'
  BY <1>1, <1>4, <1>5, <1>6 DEF FrontShape
<1>8. QED
  BY <1>1, <1>4, <1>5, <1>7

\* A call touches no tag but its own: of another it can only take a reservation away.
LEMMA CallLeaves ==
    ASSUME FrontShape, NEW c \in Adders, CallStep(c), NEW t \in Tags, adder[c].tag # t
    PROVE  Untouched(t)
<1>1. adder[c].tag \in Tags /\ FrontShape' /\ crossed' = crossed
  BY CallShape
<1>2. \A d \in Adders : adder[d].tag = t \/ adder'[d].tag = t => adder'[d] = adder[d]
  BY CallShape, FrontAssumption
<1>3. front'[t] = front[t]
  BY <1>1 DEF CallStep, AllocFails, AllocPort, BuildFails, Build, addInboundFails, addInbound, StartFails,
         WriteFile, Register, StopLookup, StopWait, StopRemove, DelInbound, FrontShape, objVars
<1>4. inbound'[t] = inbound[t]
  BY <1>1 DEF CallStep, AllocFails, AllocPort, BuildFails, Build, addInboundFails, addInbound, StartFails,
         WriteFile, Register, StopLookup, StopWait, StopRemove, DelInbound, FrontShape, removeInbound,
         nodeVars
<1>5. file'[t] = file[t]
  BY <1>1 DEF CallStep, AllocFails, AllocPort, BuildFails, Build, addInboundFails, addInbound, StartFails,
         WriteFile, Register, StopLookup, StopWait, StopRemove, DelInbound, objVars, FrontShape
<1>10. ASSUME NEW p \in Ports PROVE bound'[p] = t <=> bound[p] = t
  <2>1. CASE UNCHANGED bound
    BY <2>1
  <2>2. ASSUME removeInbound(adder[c].tag) PROVE bound'[p] = t <=> bound[p] = t
    BY <1>10, <2>2, FrontAssumption DEF removeInbound
  <2>3. CASE addInbound(c)
    BY <1>10, <2>3, FrontAssumption DEF addInbound, FrontShape
  <2>4. QED
    BY <2>1, <2>2, <2>3
       DEF CallStep, AllocFails, AllocPort, BuildFails, Build, addInboundFails, StartFails,
           WriteFile, Register, StopLookup, StopWait, StopRemove, DelInbound, nodeVars
<1>6. t \in panicked => t \in panicked'
  BY DEF CallStep, AllocFails, AllocPort, BuildFails, Build, addInboundFails, addInbound, StartFails,
         WriteFile, Register, StopLookup, StopWait, StopRemove, DelInbound
<1>7. ASSUME NEW p \in Ports, reserved'[p] = t PROVE reserved[p] = t
  <2>1. ASSUME Release(adder[c].tag) PROVE reserved[p] = t
    BY <1>7, <2>1, FrontAssumption DEF Release
  <2>2. CASE UNCHANGED reserved
    BY <1>7, <2>2
  <2>3. ASSUME NEW q, reserved' = [reserved EXCEPT ![q] = adder[c].tag] PROVE reserved[p] = t
    BY <1>7, <2>3 DEF FrontShape
  <2>4. QED
    BY <2>1, <2>2, <2>3
       DEF CallStep, AllocFails, AllocPort, BuildFails, Build, addInboundFails, addInbound, StartFails,
           WriteFile, Register, StopLookup, StopWait, StopRemove, DelInbound, nodeVars
<1>8. ASSUME front[t] \in Instances PROVE object'[front[t]].port = object[front[t]].port
  <2>1. CASE Register(c)
    <3>1. PICK o \in Instances :
             /\ FreeObject(o)
             /\ \A q \in Instances \ {o} : \/ object'[q] = object[q]
                                          \/ object'[q] = [object[q] EXCEPT !.stopping = TRUE]
      BY <2>1 DEF Register
    <3>2. front[t] # o
      BY <3>1 DEF FreeObject
    <3>3. QED
      <4>1. DOMAIN object[front[t]] = {"tag", "port", "state", "stopping"}
        BY <1>8 DEF FrontShape
      <4>2. CASE object'[front[t]] = [object[front[t]] EXCEPT !.stopping = TRUE]
        BY <4>1, <4>2
      <4>3. QED
        BY <1>8, <3>1, <3>2, <4>2
  <2>2. CASE StopLookup(c)
    <3>1. DOMAIN object[front[t]] = {"tag", "port", "state", "stopping"} /\ DOMAIN object = Instances
      BY <1>8 DEF FrontShape
    <3>2. \/ UNCHANGED object
          \/ object' = [object EXCEPT ![front[adder[c].tag]].stopping = TRUE]
      BY <2>2 DEF StopLookup
    <3>3. CASE front[t] = front[adder[c].tag]
      BY <1>8, <3>1, <3>2, <3>3
    <3>4. CASE front[t] # front[adder[c].tag]
      BY <1>8, <3>1, <3>2, <3>4
    <3>5. QED
      BY <3>3, <3>4
  <2>3. CASE UNCHANGED object
    BY <2>3
  <2>4. QED
    BY <2>1, <2>2, <2>3
       DEF CallStep, AllocFails, AllocPort, BuildFails, Build, addInboundFails, addInbound, StartFails,
           WriteFile, StopWait, StopRemove, DelInbound, objVars
<1>9. QED
  BY <1>2, <1>3, <1>4, <1>5, <1>6, <1>7, <1>8, <1>10 DEF Untouched

\* Each step of a tag's only call leaves the node as far as the next step expects it.
LEMMA CallOwn ==
    ASSUME FrontShape, NEW c \in Adders, CallStep(c), NEW t \in Tags, adder[c].tag = t, Alone(t)
    PROVE  Alone(t)'
<1>1. /\ FrontShape' /\ \A d \in Adders \ {c} : adder'[d] = adder[d]
      /\ DOMAIN adder = Adders /\ DOMAIN adder[c] = {"op", "tag", "at", "port", "obj"}
  BY CallShape DEF FrontShape
<1>2. Midway(c, t)
  BY DEF Alone
<1>3. ASSUME Done(c), Gone(t)' \/ Up(t)' PROVE Alone(t)'
  <2>1. adder'[c].tag # t
    BY <1>1, <1>3, FrontAssumption DEF Done, NoAdder
  <2>2. QED
    BY <1>1, <1>3, <2>1, TagMoves
<1>4. ASSUME NEW next, To(c, next)
      PROVE  /\ adder'[c].op = adder[c].op /\ adder'[c].tag = t /\ adder'[c].at = next
             /\ adder'[c].port = adder[c].port
  BY <1>1, <1>4 DEF To
<1>5. ASSUME Release(t) PROVE Unreserved(t)'
  BY <1>5, FrontAssumption DEF Release, Unreserved
<1>6. ASSUME UNCHANGED <<front, bound, file>>, front[t] = NoOne, Unbound(t), NoFile(t),
             Unreserved(t)' \/ t \in panicked'
      PROVE  Gone(t)'
  BY <1>6 DEF Gone, NoFile, Unbound
<1>7. ASSUME removeInbound(t), UNCHANGED front, front[t] = NoOne, NoFile(t)', Unreserved(t)'
      PROVE  Gone(t)'
  BY <1>7, FrontAssumption DEF Gone, Unbound, removeInbound
<1>8. CASE AllocFails(c)
  <2>1. Gone(t)
    BY <1>2, <1>8 DEF AllocFails, Midway, AddMidway, DelMidway
  <2>2. Gone(t)'
    BY <1>8, <2>1 DEF AllocFails, Gone, NoFile, Unreserved, Unbound, nodeVars, objVars
  <2>3. QED
    BY <1>3, <1>8, <2>2 DEF AllocFails
<1>9. ASSUME NEW p \in Ports, AllocPort(c, p) PROVE Alone(t)'
  <2>1. Gone(t) /\ adder[c].op = "add"
    BY <1>2, <1>9 DEF AllocPort, Midway, AddMidway, DelMidway
  <2>2. adder'[c].op = "add" /\ adder'[c].tag = t /\ adder'[c].at = "build" /\ adder'[c].port = p
    BY <1>1, <1>9, <2>1 DEF AllocPort
  <2>3. Midway(c, t)'
    BY <1>9, <2>1, <2>2 DEF AllocPort, Midway, AddMidway, Gone, NoFile, Unbound, objVars
  <2>4. QED
    BY <1>1, <2>2, <2>3, TagMoves
<1>10. CASE BuildFails(c)
  <2>1. front[t] = NoOne /\ Unbound(t) /\ NoFile(t)
    BY <1>2, <1>10 DEF BuildFails, Midway, AddMidway, DelMidway
  <2>2. Gone(t)'
    BY <1>5, <1>6, <1>10, <2>1 DEF BuildFails, objVars
  <2>3. QED
    BY <1>3, <1>10, <2>2 DEF BuildFails
<1>11. CASE Build(c)
  <2>1. /\ adder[c].op = "add" /\ adder[c].port \in Ports
        /\ front[t] = NoOne /\ Unbound(t) /\ NoFile(t)
    BY <1>2, <1>11 DEF Build, Midway, AddMidway, DelMidway
  <2>2. Midway(c, t)' /\ adder'[c].tag = t
    BY <1>4, <1>11, <2>1 DEF Build, Midway, AddMidway, NoFile, Unbound, nodeVars, objVars
  <2>3. QED
    BY <1>1, <2>2, TagMoves
<1>12. CASE addInboundFails(c)
  <2>1. front[t] = NoOne /\ Unbound(t) /\ NoFile(t)
    BY <1>2, <1>12 DEF addInboundFails, Midway, AddMidway, DelMidway
  <2>2. Gone(t)'
    BY <1>5, <1>6, <1>12, <2>1 DEF addInboundFails, objVars
  <2>3. QED
    BY <1>3, <1>12, <2>2 DEF addInboundFails
<1>13. CASE addInbound(c)
  <2>1. adder[c].op = "add" /\ adder[c].port \in Ports /\ front[t] = NoOne /\ NoFile(t)
    BY <1>2, <1>13 DEF addInbound, Midway, AddMidway, DelMidway
  <2>2. inbound'[t] = adder[c].port /\ bound'[adder[c].port] = t /\ UNCHANGED <<front, file>>
    BY <1>13, <2>1 DEF addInbound, FrontShape, objVars
  <2>3. /\ adder'[c].op = "add" /\ adder'[c].tag = t /\ adder'[c].port = adder[c].port
        /\ adder'[c].at = IF t \in ShadowTLS THEN "write" ELSE "register"
    BY <1>4, <1>13, <2>1 DEF addInbound
  <2>4. Midway(c, t)'
    BY <2>1, <2>2, <2>3 DEF Midway, AddMidway, NoFile, HasFile, Listens
  <2>5. QED
    BY <1>1, <2>3, <2>4, TagMoves
<1>14. CASE StartFails(c)
  <2>1. front[t] = NoOne /\ NoFile(t)
    BY <1>2, <1>14 DEF StartFails, Midway, AddMidway, DelMidway, NoFile
  <2>2. NoFile(t)'
    BY <1>14, <2>1 DEF StartFails, NoFile, FrontShape
  <2>3. Gone(t)'
    BY <1>5, <1>7, <1>14, <2>1, <2>2 DEF StartFails
  <2>4. QED
    BY <1>3, <1>14, <2>3 DEF StartFails
<1>15. CASE WriteFile(c)
  <2>1. adder[c].op = "add" /\ front[t] = NoOne /\ Listens(t, adder[c].port)
    BY <1>2, <1>15 DEF WriteFile, Midway, AddMidway, DelMidway
  <2>2. Midway(c, t)' /\ adder'[c].tag = t
    BY <1>4, <1>15, <2>1 DEF WriteFile, Midway, AddMidway, HasFile, Listens, FrontShape, nodeVars
  <2>3. QED
    BY <1>1, <2>2, TagMoves
<1>16. CASE Register(c)
  <2>1. front[t] = NoOne /\ Listens(t, adder[c].port) /\ HasFile(t)
    BY <1>2, <1>16 DEF Register, Midway, AddMidway, DelMidway
  <2>2. PICK o \in Instances : front' = [front EXCEPT ![t] = o] /\ object'[o].port = adder[c].port
    BY <1>16 DEF Register
  <2>3. front'[t] = o /\ UNCHANGED <<inbound, bound, file>>
    BY <1>16, <2>2 DEF FrontShape, Register
  <2>4. Up(t)'
    BY <2>1, <2>2, <2>3 DEF Up, HasFile, Listens
  <2>5. QED
    BY <1>3, <1>16, <2>4 DEF Register
<1>17. CASE StopLookup(c)
  <2>1. front'[t] = NoOne /\ Unreserved(t)' /\ UNCHANGED <<inbound, bound, file>>
    BY <1>5, <1>17 DEF StopLookup, FrontShape
  <2>2. CASE adder[c].op = "add"
    <3>1. front[t] = NoOne /\ Listens(t, adder[c].port) /\ HasFile(t)
      BY <1>2, <1>17, <2>2 DEF StopLookup, Midway, AddMidway
    <3>2. To(c, "register")
      BY <1>17, <2>2, <3>1 DEF StopLookup, AfterStop
    <3>3. Midway(c, t)' /\ adder'[c].tag = t
      BY <1>4, <2>1, <2>2, <3>1, <3>2 DEF Midway, AddMidway, HasFile, Listens
    <3>4. QED
      BY <1>1, <3>3, TagMoves
  <2>3. CASE adder[c].op = "del"
    <3>1. Gone(t) \/ Up(t)
      BY <1>2, <1>17, <2>3 DEF StopLookup, Midway, DelMidway
    <3>2. CASE front[t] = NoOne
      <4>1. NoFile(t)
        BY <3>1, <3>2, FrontAssumption DEF Gone, Up
      <4>2. To(c, "unbind")
        BY <1>17, <2>3, <3>2 DEF StopLookup, AfterStop
      <4>3. Midway(c, t)' /\ adder'[c].tag = t
        BY <1>4, <2>1, <2>3, <4>1, <4>2 DEF Midway, DelMidway, NoFile
      <4>4. QED
        BY <1>1, <4>3, TagMoves
    <3>3. CASE front[t] # NoOne
      <4>1. adder' = [adder EXCEPT ![c].obj = front[t],
                                   ![c].at = IF t \in ShadowTLS THEN "wait" ELSE AfterStop(c)]
        BY <1>17, <3>3 DEF StopLookup
      <4>2. /\ adder'[c].op = "del" /\ adder'[c].tag = t
            /\ adder'[c].at = IF t \in ShadowTLS THEN "wait" ELSE "unbind"
        BY <1>1, <2>3, <4>1 DEF AfterStop
      <4>3. Midway(c, t)'
        BY <2>1, <4>2 DEF Midway, DelMidway, NoFile
      <4>4. QED
        BY <1>1, <4>2, <4>3, TagMoves
    <3>4. QED
      BY <3>2, <3>3
  <2>4. QED
    BY <1>2, <2>2, <2>3 DEF Midway
<1>18. CASE StopWait(c)
  <2>1. adder[c].op = "del" /\ front[t] = NoOne /\ Unreserved(t)
    BY <1>2, <1>18 DEF StopWait, Midway, AddMidway, DelMidway
  <2>2. Midway(c, t)' /\ adder'[c].tag = t
    BY <1>4, <1>18, <2>1 DEF StopWait, Midway, DelMidway, Unreserved, nodeVars, objVars
  <2>3. QED
    BY <1>1, <2>2, TagMoves
<1>19. CASE StopRemove(c)
  <2>1. adder[c].op = "del" /\ front[t] = NoOne /\ Unreserved(t)
    BY <1>2, <1>19 DEF StopRemove, Midway, AddMidway, DelMidway
  <2>2. Midway(c, t)' /\ adder'[c].tag = t
    BY <1>4, <1>19, <2>1 DEF StopRemove, Midway, DelMidway, Unreserved, NoFile, AfterStop, FrontShape,
                           nodeVars
  <2>3. QED
    BY <1>1, <2>2, TagMoves
<1>20. CASE DelInbound(c)
  <2>1. front[t] = NoOne /\ Unreserved(t) /\ NoFile(t)
    BY <1>2, <1>20 DEF DelInbound, Midway, AddMidway, DelMidway
  <2>2. Gone(t)'
    BY <1>7, <1>20, <2>1 DEF DelInbound, Unreserved, NoFile, objVars
  <2>3. QED
    BY <1>3, <1>20, <2>2 DEF DelInbound
<1>21. QED
  BY <1>8, <1>9, <1>10, <1>11, <1>12, <1>13, <1>14, <1>15, <1>16, <1>17, <1>18, <1>19, <1>20 DEF CallStep

\* A call begins: a second one for a busy tag crosses it.
LEMMA CallBegins ==
    ASSUME FrontInv, NEW c \in Adders, NEW u \in Tags, AddNode(c, u) \/ DelNode(c, u)
    PROVE  FrontInv'
<1> USE DEF FrontInv
<1>1. PICK op \in {"add", "del"}, first \in {"alloc", "stop"} :
         /\ Begin(c, op, u, first)
         /\ op = "add" => first = "alloc" /\ (inbound[u] = NoOne \/ Busy(u))
         /\ op = "del" => first = "stop"
  BY DEF AddNode, DelNode
<1>2. /\ adder[c] = NoAdder /\ NoAdder.tag = NoOne /\ NoOne \notin Tags \cup Instances
      /\ UNCHANGED <<reserved, bound, inbound, front, object, file, panicked>>
  BY <1>1, FrontAssumption DEF Begin, nodeVars, objVars, NoAdder
<1>3. /\ DOMAIN adder' = Adders
      /\ adder'[c] = [op |-> op, tag |-> u, at |-> first, port |-> NoOne, obj |-> NoOne]
      /\ \A d \in Adders \ {c} : adder'[d] = adder[d]
  BY <1>1 DEF Begin, NoAdder, FrontShape
<1>4. /\ DOMAIN adder'[c] = {"op", "tag", "at", "port", "obj"}
      /\ adder'[c].op = op /\ adder'[c].tag = u /\ adder'[c].at = first
  BY <1>3
<1>5. FrontShape'
  <2>1. ASSUME NEW d \in Adders
        PROVE  /\ DOMAIN adder'[d] = {"op", "tag", "at", "port", "obj"}
               /\ adder'[d].tag \in Tags \/ (adder'[d].tag = NoOne /\ adder'[d].at = "")
    <3>1. CASE d = c
      BY <1>4, <3>1
    <3>2. CASE d # c
      BY <1>3, <3>2 DEF FrontShape
    <3>3. QED
      BY <3>1, <3>2
  <2>2. QED
    BY <1>2, <1>3, <2>1 DEF FrontShape
<1>7. ASSUME NEW t \in Tags, t \notin crossed' PROVE Alone(t)'
  <2>1. t \notin crossed /\ (t = u => ~Busy(u))
    BY <1>1, <1>7 DEF Begin
  <2>2. CASE t # u
    <3>1. \A d \in Adders : adder[d].tag = t \/ adder'[d].tag = t => adder'[d] = adder[d]
      BY <1>2, <1>3, <1>4, <2>2
    <3>2. Untouched(t)
      BY <1>2, <3>1 DEF Untouched
    <3>3. QED
      BY <2>1, <3>2, TagStands
  <2>3. CASE t = u
    <3>1. \A d \in Adders : adder[d].tag # t
      BY <2>1, <2>3 DEF Busy
    <3>2. Gone(t) \/ Up(t)
      BY <2>1, <3>1 DEF Alone
    <3>3. (Gone(t) => Gone(t)') /\ (Up(t) => Up(t)')
      BY <1>2 DEF Gone, Up, NoFile, HasFile, Unreserved, Unbound, Listens
    <3>4. op = "add" => Gone(t)
      BY <1>1, <2>1, <2>3, <3>2, FrontAssumption DEF Up, Listens
    <3>5. Midway(c, t)'
      BY <1>1, <1>4, <3>2, <3>3, <3>4 DEF Midway, AddMidway, DelMidway
    <3>6. \A d \in Adders : adder'[d].tag = t => d = c
      BY <1>3, <3>1
    <3>7. QED
      BY <1>4, <2>3, <3>5, <3>6 DEF Alone
  <2>4. QED
    BY <2>2, <2>3
<1>8. QED
  BY <1>5, <1>7

\* A supervisor, or a listener's loop, moves.
LEMMA ObjectMoves ==
    ASSUME FrontInv, NEW o \in Instances, SuperviseStep(o) \/ ProcessExits(o)
    PROVE  FrontInv'
<1>1. PICK next : ObjectStep(o, next)
  BY DEF SuperviseStep, ProcessExits, Spawn, BackoffOver, Terminate
<1>2. /\ object' = [object EXCEPT ![o].state = next]
      /\ UNCHANGED <<reserved, bound, inbound, front, file, adder, crossed, panicked>>
  BY <1>1 DEF ObjectStep, nodeVars
<1>3. /\ DOMAIN object = Instances
      /\ \A q \in Instances : DOMAIN object[q] = {"tag", "port", "state", "stopping"}
  BY DEF FrontInv, FrontShape
<1>4. DOMAIN object' = Instances /\ \A q \in Instances : DOMAIN object'[q] = DOMAIN object[q]
  BY <1>2, <1>3
<1>5. \A q \in Instances : object'[q].port = object[q].port
  <2>1. ASSUME NEW q \in Instances PROVE object'[q].port = object[q].port
    <3>1. CASE q = o
      BY <1>2, <1>3, <3>1
    <3>2. CASE q # o
      BY <1>2, <1>3, <3>2
    <3>3. QED
      BY <3>1, <3>2
  <2>2. QED
    BY <2>1
<1>6. FrontShape'
  BY <1>2, <1>3, <1>4 DEF FrontInv, FrontShape
<1>7. \A t \in Tags : Untouched(t)
  BY <1>2, <1>5 DEF Untouched
<1>8. QED
  BY <1>2, <1>6, <1>7, TagStands DEF FrontInv

LEMMA FrontInductive == ASSUME FrontInv, [FrontNext]_frontVars PROVE FrontInv'
<1>1. CASE UNCHANGED frontVars
  <2>1. UNCHANGED <<reserved, bound, inbound, front, object, file, adder, crossed, panicked>>
    BY <1>1 DEF frontVars, nodeVars, objVars
  <2>2. FrontShape' /\ \A t \in Tags : Untouched(t)
    BY <2>1 DEF FrontInv, FrontShape, Untouched
  <2>3. QED
    BY <2>1, <2>2, TagStands DEF FrontInv
<1>2. ASSUME NEW c \in Adders, CallStep(c) PROVE FrontInv'
  <2>1. FrontShape' /\ crossed' = crossed
    BY <1>2, CallShape DEF FrontInv
  <2>2. ASSUME NEW t \in Tags, t \notin crossed PROVE Alone(t)'
    <3>1. CASE adder[c].tag = t
      BY <1>2, <2>2, <3>1, CallOwn DEF FrontInv
    <3>2. CASE adder[c].tag # t
      BY <1>2, <2>2, <3>2, CallLeaves, TagStands DEF FrontInv
    <3>3. QED
      BY <3>1, <3>2
  <2>3. QED
    BY <2>1, <2>2 DEF FrontInv
<1>3. QED
  BY <1>1, <1>2, CallBegins, ObjectMoves DEF FrontNext

\* Between the calls for a tag that never met, AddNode's rollbacks and DelNode leave a
\* node behind a front up as a whole - front, listening inbound, whole file - or without
\* front, listener and reservation, for any number of nodes, ports, callers, calls and
\* faults.
THEOREM FrontIsWhole == FrontSpec => []FrontReachesItsInbound
<1>1. FrontInv => FrontReachesItsInbound
  <2> SUFFICES ASSUME FrontInv, NEW t \in Tags, Quiet(t)
               PROVE  /\ t \in ShadowTLS => (front[t] # NoOne <=> file[t] = "whole")
                      /\ IF front[t] = NoOne
                         THEN \A p \in Ports : bound[p] # t /\ (t \in panicked \/ reserved[p] # t)
                         ELSE inbound[t] = object[front[t]].port /\ bound[inbound[t]] = t
    BY DEF FrontReachesItsInbound
  <2>1. Gone(t) \/ Up(t)
    BY DEF FrontInv, Alone, Quiet, Busy
  <2>2. NoOne \notin Ports \cup Instances
    BY FrontAssumption
  <2>3. CASE Gone(t)
    BY <2>2, <2>3 DEF Gone, NoFile, Unreserved, Unbound
  <2>4. CASE Up(t)
    BY <2>2, <2>4 DEF Up, HasFile, Listens
  <2>5. QED
    BY <2>1, <2>3, <2>4
<1>2. QED
  BY <1>1, FrontStart, FrontInductive, PTL DEF FrontSpec

-----------------------------------------------------------------------------
(* Camouflage.                                                              *)

IsSequence(s) == Len(s) \in Nat /\ s = [i \in 1 .. Len(s) |-> s[i]]

CamouflageShape ==
    /\ IsSequence(engines) /\ cachedEngine \in {0} \cup Engines
    /\ \A e \in Engines : /\ DOMAIN engines[e] = {"config", "profile", "stopped", "switcher"}
                          /\ engines[e].profile \in Profiles
    /\ DOMAIN link = Links
    /\ \A c \in Links : /\ DOMAIN link[c] = {"at", "engine"}
                        /\ link[c].at \in {"built", "open"} => link[c].engine \in Engines

\* At most one link builds an engine, for a tag that has none; what it builds for an
\* unconfigured tag is early.
OneBuilds ==
    /\ \A c, d \in Missing : c = d
    /\ \A c \in Missing : cleaner = "out" /\ cachedEngine = 0 /\ (nodeConfig = NoConfig => early)

\* What was built and what is stored is of the node's configuration, or early.
OfConfig(e) ==
    /\ ~engines[e].stopped
    /\ \/ nodeConfig # NoConfig /\ engines[e].config = nodeConfig
       \/ early /\ engines[e].config = DefaultConfig

EnginesOfConfig ==
    /\ \A c \in Links : link[c].at = "built" => OfConfig(link[c].engine)
    /\ cachedEngine # 0 => cleaner = "out" /\ OfConfig(cachedEngine)

Followed(e) ==
    \/ cachedEngine = e \/ engines[e].stopped \/ engines[e].switcher # "running"
    \/ \E c \in Links : link[c].at = "built" /\ link[c].engine = e

EngineInv ==
    /\ CamouflageShape
    /\ ~concurrent => OneBuilds /\ EnginesOfConfig /\ \A e \in Engines : Followed(e)

LEMMA Appended ==
    ASSUME NEW s, IsSequence(s), NEW x
    PROVE  /\ IsSequence(Append(s, x)) /\ Len(Append(s, x)) = Len(s) + 1
           /\ \A i \in 1 .. Len(s) : Append(s, x)[i] = s[i]
           /\ Append(s, x)[Len(s) + 1] = x
<1> DEFINE S == {s[i] : i \in 1 .. Len(s)} \cup {x}
<1>1. s \in Seq(S) /\ x \in S
  <2>1. s \in [1 .. Len(s) -> S] /\ Len(s) \in Nat
    BY DEF IsSequence
  <2>2. QED
    BY <2>1
<1> HIDE DEF S
<1>2. Append(s, x) \in Seq(S) /\ Len(Append(s, x)) = Len(s) + 1
  BY <1>1
<1>3. /\ \A i \in 1 .. Len(s) : Append(s, x)[i] = s[i]
      /\ Append(s, x)[Len(s) + 1] = x
  BY <1>1
<1> DEFINE t == Append(s, x)
<1>4. Len(t) \in Nat /\ t \in [1 .. Len(t) -> S]
  BY <1>2, LenProperties
<1> HIDE DEF t
<1>5. IsSequence(t)
  BY <1>4 DEF IsSequence
<1>6. QED
  BY <1>2, <1>3, <1>5 DEF t

LEMMA EngineStart == CamouflageInit => EngineInv
<1> SUFFICES ASSUME CamouflageInit PROVE EngineInv
  OBVIOUS
<1>1. engines = <<>> /\ Engines = {} /\ NoLink.at = "new" /\ NoLink.engine = 0
  BY DEF CamouflageInit, Engines, NoLink
<1>2. \A c \in Links : link[c] = NoLink
  BY DEF CamouflageInit
<1>3. CamouflageShape
  <2>1. DOMAIN NoLink = {"at", "engine"} /\ Len(<<>>) = 0 /\ IsSequence(<<>>)
    BY DEF NoLink, IsSequence
  <2>2. QED
    BY <1>1, <1>2, <2>1 DEF CamouflageInit, CamouflageShape
<1>4. OneBuilds /\ EnginesOfConfig /\ \A e \in Engines : Followed(e)
  BY <1>1, <1>2 DEF CamouflageInit, OneBuilds, EnginesOfConfig, Missing
<1>5. QED
  BY <1>3, <1>4 DEF EngineInv

\* The engines and the links stand as they are.
LEMMA EnginesStand ==
    ASSUME EngineInv, UNCHANGED <<engines, cachedEngine, link, concurrent, early>>,
           ~concurrent /\ (nodeConfig' # nodeConfig \/ cleaner' # cleaner) =>
               (cachedEngine = 0 /\ Missing = {}) \/ (nodeConfig = NoConfig /\ cleaner' = cleaner)
    PROVE  EngineInv'
<1>1. CamouflageShape' /\ Engines' = Engines /\ Missing' = Missing
  BY DEF EngineInv, CamouflageShape, Engines, Missing
<1>2. ASSUME ~concurrent PROVE OneBuilds' /\ EnginesOfConfig' /\ \A e \in Engines : Followed(e)'
  <2>1. OneBuilds /\ EnginesOfConfig /\ \A e \in Engines : Followed(e)
    BY <1>2 DEF EngineInv
  <2>2. \A e \in Engines : Followed(e)'
    BY <2>1 DEF Followed
  <2>3. CASE nodeConfig' = nodeConfig /\ cleaner' = cleaner
    BY <1>1, <2>1, <2>2, <2>3 DEF OneBuilds, EnginesOfConfig, OfConfig
  <2>4. CASE cachedEngine = 0 /\ Missing = {}
    BY <1>1, <2>1, <2>2, <2>4 DEF OneBuilds, EnginesOfConfig, OfConfig, Missing
  <2>5. CASE nodeConfig = NoConfig /\ cleaner' = cleaner
    <3>1. ASSUME NEW e PROVE OfConfig(e) => OfConfig(e)'
      BY <2>5 DEF OfConfig, DefaultConfig, NoConfig
    <3>2. EnginesOfConfig'
      BY <2>1, <2>5, <3>1 DEF EnginesOfConfig
    <3>3. OneBuilds'
      BY <1>1, <2>1, <2>5 DEF OneBuilds
    <3>4. QED
      BY <2>2, <3>2, <3>3
  <2>6. QED
    BY <1>2, <2>3, <2>4, <2>5
<1>3. QED
  BY <1>1, <1>2 DEF EngineInv

\* The cached engine is taken out and told to stop.
LEMMA EngineTaken ==
    ASSUME EngineInv, cleanupNodeState
    PROVE  EngineInv'
<1>1. /\ cachedEngine' = 0 /\ UNCHANGED <<nodeConfig, link>>
      /\ engines' = [e \in Engines |-> [engines[e] EXCEPT !.stopped = @ \/ e = cachedEngine]]
      /\ concurrent' = (concurrent \/ Missing # {})
  BY DEF cleanupNodeState
<1>2. Len(engines) \in Nat /\ Engines = 1 .. Len(engines)
  BY DEF EngineInv, CamouflageShape, IsSequence, Engines
<1>3. IsSequence(engines') /\ Len(engines') = Len(engines) /\ Engines' = Engines
  BY <1>1, <1>2 DEF IsSequence, Engines
<1>4. \A e \in Engines : DOMAIN engines[e] = {"config", "profile", "stopped", "switcher"}
  BY DEF EngineInv, CamouflageShape
<1>5. ASSUME NEW e \in Engines
      PROVE  /\ DOMAIN engines'[e] = {"config", "profile", "stopped", "switcher"}
             /\ engines'[e].profile = engines[e].profile /\ engines'[e].switcher = engines[e].switcher
             /\ engines'[e].stopped = (engines[e].stopped \/ e = cachedEngine)
  <2>1. engines'[e] = [engines[e] EXCEPT !.stopped = @ \/ e = cachedEngine]
    BY <1>1
  <2>2. QED
    BY <1>4, <2>1
<1>6. CamouflageShape'
  BY <1>1, <1>3, <1>5 DEF EngineInv, CamouflageShape
<1>7. ASSUME ~concurrent' PROVE OneBuilds' /\ EnginesOfConfig' /\ \A e \in Engines' : Followed(e)'
  <2>1. ~concurrent /\ Missing = {}
    BY <1>1, <1>7
  <2>2. Missing' = {}
    BY <1>1, <2>1 DEF Missing
  <2>3. OneBuilds' /\ EnginesOfConfig'
    BY <1>1, <2>2 DEF OneBuilds, EnginesOfConfig, Missing
  <2>4. ASSUME NEW e \in Engines PROVE Followed(e)'
    <3>1. Followed(e)
      BY <2>1 DEF EngineInv
    <3>2. CASE cachedEngine = e \/ engines[e].stopped
      <4>1. engines'[e].stopped
        BY <1>5, <3>2
      <4>2. QED
        BY <4>1 DEF Followed
    <3>3. CASE engines[e].switcher # "running"
      BY <1>5, <3>3 DEF Followed
    <3>4. CASE \E c \in Links : link[c].at = "built" /\ link[c].engine = e
      BY <2>1, <3>4 DEF Missing
    <3>5. QED
      BY <3>1, <3>2, <3>3, <3>4 DEF Followed
  <2>5. QED
    BY <1>3, <2>3, <2>4
<1>8. QED
  BY <1>6, <1>7 DEF EngineInv

\* A link finds the engine, or misses it; a link ends.
LEMMA LinkMoves ==
    ASSUME EngineInv, NEW c \in Links, LoadEngine(c) \/ LinkEnds(c)
    PROVE  EngineInv'
<1>1. /\ UNCHANGED <<engines, cachedEngine, nodeConfig, cleaner>>
      /\ DOMAIN link = Links /\ DOMAIN link[c] = {"at", "engine"}
  BY DEF LoadEngine, LinkEnds, configVars, engineVars, EngineInv, CamouflageShape
<1>2. link[c].at \notin {"missed", "built"}
  BY DEF LoadEngine, LinkEnds
<1>3. /\ DOMAIN link' = Links /\ DOMAIN link'[c] = {"at", "engine"}
      /\ \A d \in Links \ {c} : link'[d] = link[d]
      /\ \/ link'[c].at = "open" /\ link'[c].engine = cachedEngine /\ cachedEngine # 0
         \/ /\ link'[c].at = "missed" /\ cachedEngine = 0
            /\ ~concurrent' => Missing = {} /\ cleaner = "out"
            /\ nodeConfig = NoConfig => early'
         \/ link'[c].at = "new"
      /\ ~concurrent' => ~concurrent
      /\ early => early'
  <2>1. CASE LinkEnds(c)
    <3>1. DOMAIN NoLink = {"at", "engine"} /\ NoLink.at = "new"
      BY DEF NoLink
    <3>2. link' = [link EXCEPT ![c] = NoLink] /\ concurrent' = concurrent /\ early' = early
      BY <2>1 DEF LinkEnds, historyVars
    <3>3. QED
      BY <1>1, <3>1, <3>2
  <2>2. CASE LoadEngine(c)
    <3>1. link' = [link EXCEPT ![c].at = IF cachedEngine = 0 THEN "missed" ELSE "open",
                               ![c].engine = cachedEngine]
      BY <2>2 DEF LoadEngine
    <3>2. /\ DOMAIN link' = Links /\ DOMAIN link'[c] = {"at", "engine"}
          /\ \A d \in Links \ {c} : link'[d] = link[d]
          /\ link'[c].at = (IF cachedEngine = 0 THEN "missed" ELSE "open") /\ link'[c].engine = cachedEngine
      BY <1>1, <3>1
    <3>3. /\ concurrent' = \/ concurrent
                           \/ cachedEngine = 0 /\ (Missing # {} \/ cleaner # "out")
          /\ early' = (early \/ (cachedEngine = 0 /\ nodeConfig = NoConfig))
      BY <2>2 DEF LoadEngine
    <3>4. CASE cachedEngine = 0
      BY <3>2, <3>3, <3>4
    <3>5. CASE cachedEngine # 0
      BY <3>2, <3>3, <3>5
    <3>6. QED
      BY <3>4, <3>5
  <2>3. QED
    BY <2>1, <2>2
<1>4. CamouflageShape' /\ Engines' = Engines
  BY <1>1, <1>3 DEF EngineInv, CamouflageShape, Engines
<1>5. ASSUME ~concurrent' PROVE OneBuilds' /\ EnginesOfConfig' /\ \A e \in Engines : Followed(e)'
  <2>1. OneBuilds /\ EnginesOfConfig /\ \A e \in Engines : Followed(e)
    BY <1>3, <1>5 DEF EngineInv
  <2>2. \A d \in Links : link'[d].at = "built" => d # c /\ link'[d] = link[d] /\ link[d].at = "built"
    BY <1>3
  <2>3. \A d \in Links : link[d].at = "built" => d # c /\ link'[d] = link[d]
    BY <1>2, <1>3
  <2>4. EnginesOfConfig'
    BY <1>1, <1>3, <2>1, <2>2 DEF EnginesOfConfig, OfConfig, NoConfig, DefaultConfig
  <2>5. \A e \in Engines : Followed(e)'
    BY <1>1, <2>1, <2>3 DEF Followed
  <2>6. OneBuilds'
    <3>1. CASE link'[c].at # "missed"
      <4>1. \A d \in Missing' : d \in Missing
        BY <1>3, <3>1 DEF Missing
      <4>2. QED
        BY <1>1, <1>3, <2>1, <4>1 DEF OneBuilds
    <3>2. CASE link'[c].at = "missed"
      <4>1. cachedEngine = 0 /\ Missing = {} /\ cleaner = "out" /\ (nodeConfig = NoConfig => early')
        BY <1>3, <1>5, <3>2
      <4>2. \A d \in Missing' : d = c
        BY <1>3, <4>1 DEF Missing
      <4>3. QED
        BY <1>1, <4>1, <4>2 DEF OneBuilds
    <3>3. QED
      BY <3>1, <3>2
  <2>7. QED
    BY <2>4, <2>5, <2>6
<1>6. QED
  BY <1>4, <1>5 DEF EngineInv

\* A link that missed builds an engine of the configuration it finds.
LEMMA EngineBuilt ==
    ASSUME EngineInv, NEW c \in Links, BuildCamouflageEngine(c)
    PROVE  EngineInv'
<1> DEFINE config == IF nodeConfig = NoConfig THEN DefaultConfig ELSE nodeConfig
           new == [config |-> config, profile |-> FirstProfile, stopped |-> FALSE,
                   switcher |-> IF config.mode = "dynamic" THEN "running" ELSE "none"]
<1>0. PICK n : n = Len(engines) + 1
  OBVIOUS
<1>1. /\ link[c].at = "missed" /\ engines' = Append(engines, new)
      /\ link' = [link EXCEPT ![c].at = "built", ![c].engine = n]
      /\ UNCHANGED <<cachedEngine, nodeConfig, cleaner, concurrent, early>>
  BY <1>0 DEF BuildCamouflageEngine, configVars, historyVars
<1>2. /\ DOMAIN new = {"config", "profile", "stopped", "switcher"} /\ new.profile \in Profiles
      /\ new.stopped = FALSE /\ new.config = config
  BY CamouflageAssumption
<1> HIDE DEF new
<1>3. IsSequence(engines) /\ Len(engines) \in Nat /\ Engines = 1 .. Len(engines)
  BY DEF EngineInv, CamouflageShape, IsSequence, Engines
<1>4. /\ IsSequence(engines') /\ Len(engines') = n /\ Engines' = Engines \cup {n} /\ n \notin Engines /\ n # 0
      /\ \A e \in Engines : engines'[e] = engines[e]
      /\ engines'[n] = new
  <2>1. /\ IsSequence(engines') /\ Len(engines') = n /\ engines'[n] = new
        /\ \A e \in Engines : engines'[e] = engines[e]
    BY <1>0, <1>1, <1>3, Appended
  <2>2. Engines' = Engines \cup {n} /\ n \notin Engines /\ n # 0
    BY <1>0, <1>3, <2>1 DEF Engines
  <2>3. QED
    BY <2>1, <2>2
<1>5. /\ DOMAIN link' = Links /\ DOMAIN link'[c] = {"at", "engine"}
      /\ link'[c].at = "built" /\ link'[c].engine = n
      /\ \A d \in Links \ {c} : link'[d] = link[d]
  BY <1>1 DEF EngineInv, CamouflageShape
<1>6. CamouflageShape'
  <2>1. ASSUME NEW e \in Engines'
        PROVE  /\ DOMAIN engines'[e] = {"config", "profile", "stopped", "switcher"}
               /\ engines'[e].profile \in Profiles
    <3>1. CASE e = n
      BY <1>2, <1>4, <3>1
    <3>2. CASE e \in Engines
      BY <1>4, <3>2 DEF EngineInv, CamouflageShape
    <3>3. QED
      BY <1>4, <3>1, <3>2
  <2>2. ASSUME NEW d \in Links
        PROVE  /\ DOMAIN link'[d] = {"at", "engine"}
               /\ link'[d].at \in {"built", "open"} => link'[d].engine \in Engines'
    <3>1. CASE d = c
      BY <1>4, <1>5, <3>1
    <3>2. CASE d # c
      BY <1>4, <1>5, <3>2 DEF EngineInv, CamouflageShape
    <3>3. QED
      BY <3>1, <3>2
  <2>3. cachedEngine' \in {0} \cup Engines'
    BY <1>1, <1>4 DEF EngineInv, CamouflageShape
  <2>4. QED
    BY <1>4, <1>5, <2>1, <2>2, <2>3 DEF CamouflageShape
<1>7. ASSUME ~concurrent' PROVE OneBuilds' /\ EnginesOfConfig' /\ \A e \in Engines' : Followed(e)'
  <2>1. OneBuilds /\ EnginesOfConfig /\ \A e \in Engines : Followed(e)
    BY <1>1, <1>7 DEF EngineInv
  <2>2. c \in Missing /\ Missing' = Missing
    BY <1>1, <1>5 DEF Missing
  <2>3. (nodeConfig = NoConfig => early) /\ cachedEngine = 0 /\ OneBuilds' /\ \A d \in Missing : d = c
    BY <1>1, <2>1, <2>2 DEF OneBuilds
  <2>4. EnginesOfConfig'
    <3>1. \A d \in Links : link'[d].at = "built" => d = c
      BY <1>5, <2>3 DEF Missing
    <3>2. /\ engines'[n].stopped = FALSE
          /\ engines'[n].config = IF nodeConfig = NoConfig THEN DefaultConfig ELSE nodeConfig
      BY <1>2, <1>4
    <3>3. OfConfig(n)'
      BY <1>1, <2>3, <3>2 DEF OfConfig, NoConfig, DefaultConfig
    <3>4. QED
      BY <1>1, <1>5, <2>3, <3>1, <3>3 DEF EnginesOfConfig
  <2>5. ASSUME NEW e \in Engines PROVE Followed(e)'
    <3>1. ~\E d \in Links : link[d].at = "built" /\ link[d].engine = e
      BY <1>1, <2>3 DEF Missing
    <3>2. engines[e].stopped \/ engines[e].switcher # "running" \/ cachedEngine = e
      BY <2>1, <3>1 DEF Followed
    <3>3. engines'[e] = engines[e] /\ cachedEngine' = cachedEngine
      BY <1>1, <1>4
    <3>4. QED
      BY <3>2, <3>3 DEF Followed
  <2>6. Followed(n)'
    BY <1>5 DEF Followed
  <2>7. QED
    BY <1>4, <2>3, <2>4, <2>5, <2>6
<1>8. QED
  BY <1>6, <1>7 DEF EngineInv

\* The engine is stored: nobody else has stored one meanwhile.
LEMMA EngineStored ==
    ASSUME EngineInv, NEW c \in Links, StoreEngine(c)
    PROVE  EngineInv'
<1>1. /\ link[c].at = "built" /\ cachedEngine' = link[c].engine
      /\ link' = [link EXCEPT ![c].at = "open"]
      /\ UNCHANGED <<engines, nodeConfig, cleaner, concurrent, early>>
  BY DEF StoreEngine, configVars, historyVars
<1>2. link[c].engine \in Engines /\ Engines' = Engines
  BY <1>1 DEF EngineInv, CamouflageShape, Engines
<1>3. /\ DOMAIN link' = Links /\ DOMAIN link'[c] = {"at", "engine"}
      /\ link'[c].at = "open" /\ link'[c].engine = link[c].engine
      /\ \A d \in Links \ {c} : link'[d] = link[d]
  BY <1>1 DEF EngineInv, CamouflageShape
<1>4. CamouflageShape'
  BY <1>1, <1>2, <1>3 DEF EngineInv, CamouflageShape
<1>5. ASSUME ~concurrent' PROVE OneBuilds' /\ EnginesOfConfig' /\ \A e \in Engines : Followed(e)'
  <2>1. OneBuilds /\ EnginesOfConfig /\ \A e \in Engines : Followed(e)
    BY <1>1, <1>5 DEF EngineInv
  <2>2. c \in Missing /\ cleaner = "out" /\ cachedEngine = 0 /\ Missing = {c}
    BY <1>1, <2>1 DEF OneBuilds, Missing
  <2>3. Missing' = {} /\ \A d \in Links : link'[d].at # "built"
    BY <1>3, <2>2 DEF Missing
  <2>4. OneBuilds' /\ EnginesOfConfig'
    <3>1. OfConfig(link[c].engine)
      BY <1>1, <2>1 DEF EnginesOfConfig
    <3>2. OfConfig(cachedEngine)'
      BY <1>1, <3>1 DEF OfConfig, NoConfig, DefaultConfig
    <3>3. QED
      BY <1>1, <2>2, <2>3, <3>2 DEF OneBuilds, EnginesOfConfig
  <2>5. ASSUME NEW e \in Engines PROVE Followed(e)'
    <3>1. 0 \notin Engines
      BY DEF Engines, EngineInv, CamouflageShape, IsSequence
    <3>2. CASE \E d \in Links : link[d].at = "built" /\ link[d].engine = e
      <4>1. link[c].engine = e
        BY <2>2, <3>2 DEF Missing
      <4>2. QED
        BY <1>1, <4>1 DEF Followed
    <3>3. CASE engines[e].stopped \/ engines[e].switcher # "running"
      BY <1>1, <3>3 DEF Followed
    <3>4. QED
      BY <2>1, <2>2, <3>1, <3>2, <3>3 DEF Followed
  <2>6. QED
    BY <2>4, <2>5
<1>6. QED
  BY <1>2, <1>4, <1>5 DEF EngineInv

\* The switcher changes the profile, or ends.
LEMMA SwitcherMoves ==
    ASSUME EngineInv, NEW e \in Engines, SwitcherExits(e) \/ \E p \in Profiles : Switch(e, p)
    PROVE  EngineInv'
<1>1. /\ UNCHANGED <<cachedEngine, nodeConfig, cleaner, link, concurrent, early>>
      /\ \/ engines' = [engines EXCEPT ![e].switcher = "exited"]
         \/ \E p \in Profiles : engines' = [engines EXCEPT ![e].profile = p]
  BY DEF SwitcherExits, Switch, configVars, historyVars
<1>2. /\ Len(engines) \in Nat /\ Engines = 1 .. Len(engines)
      /\ engines = [i \in 1 .. Len(engines) |-> engines[i]]
      /\ \A i \in Engines : DOMAIN engines[i] = {"config", "profile", "stopped", "switcher"}
  BY DEF EngineInv, CamouflageShape, IsSequence, Engines
<1>3. DOMAIN engines = Engines
  BY <1>2
<1>4. IsSequence(engines') /\ Engines' = Engines
  <2>1. PICK x : engines' = [i \in Engines |-> IF i = e THEN x ELSE engines[i]]
    <3>1. CASE engines' = [engines EXCEPT ![e].switcher = "exited"]
      BY <1>3, <3>1
    <3>2. CASE \E p \in Profiles : engines' = [engines EXCEPT ![e].profile = p]
      BY <1>3, <3>2
    <3>3. QED
      BY <1>1, <3>1, <3>2
  <2>2. Len(engines') = Len(engines) /\ DOMAIN engines' = 1 .. Len(engines)
    BY <1>2, <2>1
  <2>3. QED
    BY <1>2, <2>1, <2>2 DEF IsSequence, Engines
<1>5. ASSUME NEW i \in Engines
      PROVE  /\ DOMAIN engines'[i] = DOMAIN engines[i] /\ engines'[i].config = engines[i].config
             /\ engines'[i].stopped = engines[i].stopped
             /\ engines'[i].profile = engines[i].profile \/ engines'[i].profile \in Profiles
             /\ engines'[i].switcher = engines[i].switcher \/ engines'[i].switcher = "exited"
  <2>1. CASE engines' = [engines EXCEPT ![e].switcher = "exited"]
    <3>1. CASE i = e
      BY <1>2, <1>3, <2>1, <3>1
    <3>2. CASE i # e
      BY <1>3, <2>1, <3>2
    <3>3. QED
      BY <3>1, <3>2
  <2>2. ASSUME NEW p \in Profiles, engines' = [engines EXCEPT ![e].profile = p]
        PROVE  /\ DOMAIN engines'[i] = DOMAIN engines[i] /\ engines'[i].config = engines[i].config
               /\ engines'[i].stopped = engines[i].stopped
               /\ engines'[i].profile = engines[i].profile \/ engines'[i].profile \in Profiles
               /\ engines'[i].switcher = engines[i].switcher
    <3>1. CASE i = e
      BY <1>2, <1>3, <2>2, <3>1
    <3>2. CASE i # e
      BY <1>3, <2>2, <3>2
    <3>3. QED
      BY <3>1, <3>2
  <2>3. QED
    BY <1>1, <2>1, <2>2
<1>6. CamouflageShape' /\ Missing' = Missing
  BY <1>1, <1>2, <1>4, <1>5 DEF EngineInv, CamouflageShape, Missing
<1>7. ASSUME NEW i \in Engines PROVE (OfConfig(i) => OfConfig(i)') /\ (Followed(i) => Followed(i)')
  <2>1. OfConfig(i) => OfConfig(i)'
    BY <1>1, <1>5 DEF OfConfig, NoConfig, DefaultConfig
  <2>2. Followed(i) => Followed(i)'
    BY <1>1, <1>5 DEF Followed
  <2>3. QED
    BY <2>1, <2>2
<1>8. ASSUME ~concurrent PROVE OneBuilds' /\ EnginesOfConfig'
  <2>1. OneBuilds /\ EnginesOfConfig
    BY <1>8 DEF EngineInv
  <2>2. EnginesOfConfig'
    BY <1>1, <1>7, <2>1 DEF EnginesOfConfig, EngineInv, CamouflageShape
  <2>3. QED
    BY <1>1, <1>6, <2>1, <2>2 DEF OneBuilds
<1>9. QED
  BY <1>1, <1>4, <1>6, <1>7, <1>8 DEF EngineInv

LEMMA EngineInductive == ASSUME EngineInv, [CamouflageNext]_camouflageVars PROVE EngineInv'
<1>1. CASE UNCHANGED camouflageVars
  BY <1>1, EnginesStand DEF camouflageVars, configVars, engineVars, historyVars
<1>2. CASE CloseWaits \/ DeleteNodeConfig
  <2>1. UNCHANGED <<engines, cachedEngine, link, concurrent, early>> /\ cleaner # "out"
    BY <1>2 DEF CloseWaits, DeleteNodeConfig, engineVars, historyVars
  <2>2. ~concurrent => cachedEngine = 0 /\ Missing = {}
    BY <2>1 DEF EngineInv, OneBuilds, EnginesOfConfig
  <2>3. QED
    BY <2>1, <2>2, EnginesStand
<1>3. ASSUME NEW config \in PanelConfigs, SetNodeConfig(config) PROVE EngineInv'
  <2>1. /\ UNCHANGED <<engines, cachedEngine, link, concurrent, early>>
        /\ nodeConfig = NoConfig /\ cleaner' = cleaner
    BY <1>3 DEF SetNodeConfig, engineVars, historyVars
  <2>2. QED
    BY <2>1, EnginesStand
<1>4. CASE Chunk
  BY <1>4, EnginesStand DEF Chunk, configVars, engineVars, historyVars
<1>5. ASSUME NEW c \in Links, NEW n \in WriteSizes, WriteMultiBuffer(c, n) PROVE EngineInv'
  BY <1>5, EnginesStand DEF WriteMultiBuffer, configVars, engineVars, historyVars
<1>6. ASSUME NEW e \in Engines, SwitcherPanics(e) PROVE EngineInv'
  BY <1>6, EnginesStand DEF SwitcherPanics, configVars, engineVars, historyVars
<1>7. QED
  BY <1>1, <1>2, <1>3, <1>4, <1>5, <1>6, EngineTaken, LinkMoves, EngineBuilt, EngineStored, SwitcherMoves
     DEF CamouflageNext

LEMMA EngineAlways == CamouflageSpec => []EngineInv
<1>1. QED
  BY EngineStart, EngineInductive, PTL DEF CamouflageSpec

\* As long as no link misses the engine next to another's miss or to a cleanup, a switcher
\* that runs belongs to an engine that is stored, being stored or told to stop, and the
\* engine of a node that is up is of its configuration, or the default engine of a link that
\* came between the cleanup and buildShadowflow: getLink's Load and Store, cleanupNodeState
\* and buildShadowflow, for any number of links, engines, rebuilds and configurations.
THEOREM EnginesFollow == CamouflageSpec => []EngineFollowsConfig
<1>1. EngineInv => EngineFollowsConfig
  <2> SUFFICES ASSUME EngineInv, ~concurrent PROVE EngineFollowsConfig
    BY DEF EngineFollowsConfig
  <2>1. EnginesOfConfig /\ \A e \in Engines : Followed(e)
    BY DEF EngineInv
  <2>2. \A e \in Engines : engines[e].switcher = "running" =>
              \/ cachedEngine = e \/ engines[e].stopped
              \/ \E c \in Links : link[c].at = "built" /\ link[c].engine = e
    BY <2>1 DEF Followed
  <2>3. cachedEngine # 0 =>
            /\ ~engines[cachedEngine].stopped
            /\ \/ engines[cachedEngine].config = nodeConfig
               \/ early /\ engines[cachedEngine].config = DefaultConfig
    BY <2>1 DEF EnginesOfConfig, OfConfig
  <2>4. QED
    BY <2>2, <2>3 DEF EngineFollowsConfig
<1>2. QED
  BY <1>1, EngineAlways, PTL

\* The bytes s of a write, in records of at most max, up to the offset.
Carries(s, off, size, max) ==
    /\ s = <<>> => off = 0
    /\ s # <<>> => s[1] = 1
    /\ \A i \in 1 .. Len(s) - 1 : Follows(s, i, s[i + 1], size, max)
    /\ s # <<>> /\ s[Len(s)] # 0 => Follows(s, Len(s), off + 1, size, max)

\* The records so far carry the bytes up to the offset; only the last is padded.
WriteInv ==
    /\ DOMAIN write = {"profile", "size", "offset", "shaped"}
    /\ write = NoWrite \/ write.profile \in Profiles
    /\ write.size \in Nat /\ write.offset \in Nat /\ write.offset <= write.size /\ write.shaped \in Seq(Nat)
    /\ write # NoWrite =>
          /\ Carries(write.shaped, write.offset, write.size, MaxRecordPayload[write.profile])
          /\ write.offset < write.size /\ write.shaped # <<>> => write.shaped[Len(write.shaped)] # 0

LEMMA RecordBounds ==
    ASSUME NEW p \in Profiles
    PROVE  /\ MinRecordPayload[p] \in Nat /\ MaxRecordPayload[p] \in Nat /\ BufSize \in Nat
           /\ 0 < MinRecordPayload[p] /\ MinRecordPayload[p] <= MaxRecordPayload[p]
           /\ MinRecordPayload[p] <= BufSize
  BY CamouflageAssumption

LEMMA ChunkIs ==
    ASSUME NEW off \in Nat, NEW end \in Nat, off < end
    PROVE  LET chunk == [i \in 1 .. end - off |-> off + i] IN
           /\ chunk \in Seq(Nat) /\ Len(chunk) = end - off
           /\ \A i \in 1 .. end - off : chunk[i] = off + i
  OBVIOUS

LEMMA Padded ==
    ASSUME NEW chunk \in Seq(Nat), NEW p \in Profiles
    PROVE  /\ padChunk(chunk, p) \in Seq(Nat)
           /\ Len(padChunk(chunk, p)) =
                  IF Len(chunk) < MinRecordPayload[p] THEN MinRecordPayload[p] ELSE Len(chunk)
           /\ \A i \in 1 .. Len(padChunk(chunk, p)) :
                 padChunk(chunk, p)[i] = IF i <= Len(chunk) THEN chunk[i] ELSE 0
<1> DEFINE m == IF Len(chunk) < MinRecordPayload[p] THEN MinRecordPayload[p] ELSE Len(chunk)
           s == [i \in 1 .. m |-> IF i <= Len(chunk) THEN chunk[i] ELSE 0]
<1>1. m \in Nat /\ Len(chunk) \in Nat
  BY RecordBounds
<1>2. padChunk(chunk, p) = s
  BY DEF padChunk
<1>3. \A i \in 1 .. m : (IF i <= Len(chunk) THEN chunk[i] ELSE 0) \in Nat
  BY <1>1
<1> HIDE DEF m
<1>4. s \in Seq(Nat) /\ Len(s) = m /\ \A i \in 1 .. m : s[i] = IF i <= Len(chunk) THEN chunk[i] ELSE 0
  BY <1>1, <1>3
<1> HIDE DEF s
<1>5. QED
  BY <1>2, <1>4 DEF m

LEMMA Buffered ==
    ASSUME NEW s \in Seq(Nat)
    PROVE  /\ BufWrite(s) \in Seq(Nat)
           /\ Len(BufWrite(s)) = IF Len(s) > BufSize THEN BufSize ELSE Len(s)
           /\ \A i \in 1 .. Len(BufWrite(s)) : BufWrite(s)[i] = s[i]
<1>1. BufSize \in Nat /\ Len(s) \in Nat
  BY CamouflageAssumption
<1>2. CASE Len(s) > BufSize
  <2>1. BufWrite(s) = SubSeq(s, 1, BufSize)
    BY <1>2 DEF BufWrite
  <2>2. /\ SubSeq(s, 1, BufSize) \in Seq(Nat) /\ Len(SubSeq(s, 1, BufSize)) = BufSize
        /\ \A i \in 1 .. BufSize : SubSeq(s, 1, BufSize)[i] = s[i]
    BY <1>1, <1>2
  <2>3. QED
    BY <1>2, <2>1, <2>2
<1>3. CASE ~(Len(s) > BufSize)
  BY <1>3 DEF BufWrite
<1>4. QED
  BY <1>2, <1>3

\* One record: the next bytes of the write, cut where the buffer is full, filled up if it
\* is the last.
RecordOf(max, off, size, end, record) ==
    /\ end \in Nat /\ off < end /\ end <= size
    /\ record \in Seq(Nat) /\ 0 < Len(record)
    /\ \A i \in 1 .. Len(record) : record[i] = IF i <= end - off THEN off + i ELSE 0
    /\ end - off < Len(record) => end = size
    /\ Len(record) < end - off => Len(record) = BufSize /\ end - off <= max

LEMMA RecordIs ==
    ASSUME NEW p \in Profiles, NEW off \in Nat, NEW size \in Nat, off < size, NEW want \in getTargetSize(p),
           NEW end, end = IF off + want > size THEN size ELSE off + want,
           NEW chunk, chunk = [i \in 1 .. end - off |-> off + i],
           NEW record, record = BufWrite(IF end = size THEN padChunk(chunk, p) ELSE chunk)
    PROVE  RecordOf(MaxRecordPayload[p], off, size, end, record)
<1> DEFINE min == MinRecordPayload[p]
           max == MaxRecordPayload[p]
           k == end - off
<1>1. min \in Nat /\ max \in Nat /\ BufSize \in Nat /\ 0 < min /\ min <= max /\ min <= BufSize
  BY RecordBounds
<1>2. want \in Nat /\ min <= want /\ want <= max
  BY <1>1 DEF getTargetSize
<1>3. end \in Nat /\ off < end /\ end <= size /\ k \in Nat /\ 0 < k /\ k <= want
  <2>1. CASE off + want > size
    BY <1>1, <1>2, <2>1
  <2>2. CASE ~(off + want > size)
    <3>1. end = off + want
      BY <2>2
    <3>2. QED
      BY <1>1, <1>2, <2>2, <3>1
  <2>3. QED
    BY <2>1, <2>2
<1>4. chunk \in Seq(Nat) /\ Len(chunk) = k /\ \A i \in 1 .. k : chunk[i] = off + i
  BY <1>3, ChunkIs
<1> DEFINE r == IF end = size THEN padChunk(chunk, p) ELSE chunk
<1>5. /\ r \in Seq(Nat) /\ Len(r) \in Nat /\ k <= Len(r)
      /\ k < Len(r) => end = size /\ Len(r) = min
      /\ \A i \in 1 .. Len(r) : r[i] = IF i <= k THEN off + i ELSE 0
  <2>1. CASE end = size
    <3>1. /\ r \in Seq(Nat) /\ Len(r) = IF k < min THEN min ELSE k
          /\ \A i \in 1 .. Len(r) : r[i] = IF i <= k THEN chunk[i] ELSE 0
      BY <1>4, <2>1, Padded
    <3> HIDE DEF r
    <3>2. Len(r) \in Nat /\ k <= Len(r) /\ (k < Len(r) => Len(r) = min)
      BY <1>1, <1>3, <3>1
    <3>3. \A i \in 1 .. Len(r) : r[i] = IF i <= k THEN off + i ELSE 0
      BY <1>3, <1>4, <3>1, <3>2
    <3>4. QED
      BY <2>1, <3>1, <3>2, <3>3
  <2>2. CASE end # size
    <3>1. r = chunk
      BY <2>2
    <3> HIDE DEF r
    <3>2. \A i \in 1 .. k : i <= k
      BY <1>3
    <3>3. r \in Seq(Nat) /\ Len(r) = k /\ \A i \in 1 .. Len(r) : r[i] = off + i /\ i <= k
      BY <1>4, <3>1, <3>2
    <3>4. \A i \in 1 .. Len(r) : r[i] = IF i <= k THEN off + i ELSE 0
      BY <3>3
    <3>5. QED
      BY <1>3, <3>3, <3>4
  <2>3. QED
    BY <2>1, <2>2
<1>6. record = BufWrite(r)
  OBVIOUS
<1> HIDE DEF r
<1>7. /\ record \in Seq(Nat)
      /\ Len(record) = IF Len(r) > BufSize THEN BufSize ELSE Len(r)
      /\ \A i \in 1 .. Len(record) : record[i] = r[i]
  <2>1. r \in Seq(Nat)
    BY <1>5
  <2>2. QED
    BY <1>6, <2>1, Buffered
<1>8. /\ 0 < Len(record) /\ Len(record) <= Len(r) /\ Len(record) \in Nat
      /\ k < Len(record) => end = size
      /\ Len(record) < k => Len(record) = BufSize /\ k <= max
  <2>1. /\ Len(r) \in Nat /\ k \in Nat /\ 0 < k /\ k <= max /\ k <= Len(r)
        /\ 0 < BufSize /\ (k < Len(r) => end = size)
    BY <1>1, <1>2, <1>3, <1>5
  <2> HIDE DEF k, max, min
  <2>2. BufSize \in Nat
    BY <1>1
  <2>3. CASE Len(r) > BufSize
    <3>1. Len(record) = BufSize
      BY <1>7, <2>3
    <3>2. QED
      BY <2>1, <2>2, <2>3, <3>1
  <2>4. CASE ~(Len(r) > BufSize)
    <3>1. Len(record) = Len(r)
      BY <1>7, <2>4
    <3>2. QED
      BY <2>1, <3>1
  <2>5. QED
    BY <2>3, <2>4
<1>9. \A i \in 1 .. Len(record) : record[i] = IF i <= k THEN off + i ELSE 0
  <2>1. \A i \in 1 .. Len(record) : i \in 1 .. Len(r)
    BY <1>5, <1>8
  <2>2. QED
    BY <1>5, <1>7, <2>1
<1>10. QED
  BY <1>3, <1>7, <1>8, <1>9 DEF RecordOf

\* Inside a record one byte follows the other, and padding the last byte of the write.
LEMMA RecordInside ==
    ASSUME NEW max, NEW off \in Nat, NEW size \in Nat, NEW end, NEW r,
           RecordOf(max, off, size, end, r), NEW i \in 1 .. Len(r) - 1
    PROVE  \/ r[i + 1] = 0 /\ r[i] \in {0, size}
           \/ r[i] # 0 /\ r[i + 1] = r[i] + 1
<1>1. /\ end \in Nat /\ off < end /\ end <= size /\ Len(r) \in Nat
      /\ end - off < Len(r) => end = size
      /\ r[i] = IF i <= end - off THEN off + i ELSE 0
      /\ r[i + 1] = IF i + 1 <= end - off THEN off + i + 1 ELSE 0
  <2>1. Len(r) \in Nat /\ i \in 1 .. Len(r) /\ i + 1 \in 1 .. Len(r)
    BY DEF RecordOf
  <2>2. QED
    BY <2>1 DEF RecordOf
<1>2. QED
  BY <1>1

LEMMA RecordJoins ==
    ASSUME NEW max \in Nat, NEW size \in Nat, NEW off \in Nat, NEW s \in Seq(Nat),
           Carries(s, off, size, max), s # <<>> => s[Len(s)] # 0,
           NEW end, NEW r, RecordOf(max, off, size, end, r)
    PROVE  /\ Carries(s \o r, end, size, max) /\ s \o r \in Seq(Nat) /\ s \o r # <<>>
           /\ end < size => (s \o r)[Len(s \o r)] # 0
<1> DEFINE t == s \o r
           n == Len(s)
           m == Len(r)
<1>1. /\ end \in Nat /\ off < end /\ end <= size /\ r \in Seq(Nat) /\ n \in Nat /\ m \in Nat /\ 0 < m
      /\ \A i \in 1 .. m : r[i] = IF i <= end - off THEN off + i ELSE 0
      /\ end - off < m => end = size
      /\ m < end - off => m = BufSize /\ end - off <= max
  BY DEF RecordOf
<1>2. /\ t \in Seq(Nat) /\ Len(t) = n + m
      /\ \A i \in 1 .. n + m : t[i] = IF i <= n THEN s[i] ELSE r[i - n]
  BY <1>1, ConcatProperties
<1>3. /\ \A i \in 1 .. n : t[i] = s[i]
      /\ \A j \in 1 .. m : t[n + j] = r[j]
      /\ \A i \in 1 .. n + m : i \in 1 .. n \/ i - n \in 1 .. m
      /\ s = <<>> <=> n = 0
  <2>1. \A j \in 1 .. m : n + j \in 1 .. n + m /\ ~(n + j <= n) /\ (n + j) - n = j
    BY <1>1
  <2>2. \A i \in 1 .. n : i \in 1 .. n + m /\ i <= n
    BY <1>1
  <2>3. \A i \in 1 .. n + m : i \in 1 .. n \/ i - n \in 1 .. m
    BY <1>1
  <2>4. QED
    BY <1>1, <1>2, <2>1, <2>2, <2>3
<1> HIDE DEF t, n, m
<1>4. BufSize \in Nat
  BY CamouflageAssumption
<1>5. r[1] = off + 1
  BY <1>1
<1>6. t # <<>> /\ t[1] = 1
  <2>1. CASE n = 0
    BY <1>1, <1>2, <1>3, <1>5, <2>1 DEF Carries
  <2>2. CASE n # 0
    <3>1. 1 \in 1 .. n /\ Len(t) # 0
      BY <1>1, <1>2, <2>2
    <3>2. t[1] = s[1] /\ s # <<>> /\ t # <<>>
      BY <1>2, <1>3, <2>2, <3>1
    <3>3. QED
      BY <3>2 DEF Carries
  <2>3. QED
    BY <2>1, <2>2
<1>7. ASSUME NEW i \in 1 .. n, NEW b, Follows(s, i, b, size, max) PROVE Follows(t, i, b, size, max)
  <2>1. t[i] = s[i] /\ (BufSize <= i => (i - BufSize + 1 \in 1 .. n \/ BufSize = 0))
    BY <1>1, <1>3, <1>4
  <2>2. BufSize # 0
    BY <1>4, CamouflageAssumption
  <2>3. BufSize <= i => t[i - BufSize + 1] = s[i - BufSize + 1]
    BY <1>3, <2>1, <2>2
  <2>4. QED
    BY <1>7, <2>1, <2>3 DEF Follows
<1>8. ASSUME NEW i \in 1 .. Len(t) - 1 PROVE Follows(t, i, t[i + 1], size, max)
  <2>1. CASE i < n
    <3>1. i \in 1 .. n /\ i \in 1 .. n - 1 /\ i + 1 \in 1 .. n
      BY <1>1, <2>1
    <3>2. Follows(s, i, s[i + 1], size, max)
      BY <3>1 DEF Carries, n
    <3>3. t[i + 1] = s[i + 1]
      BY <1>3, <3>1
    <3>4. QED
      BY <1>7, <3>1, <3>2, <3>3
  <2>2. CASE i = n
    <3>1. n \in 1 .. n /\ n # 0 /\ s # <<>>
      BY <1>1, <1>3, <2>2
    <3>2. Follows(s, n, off + 1, size, max)
      BY <3>1 DEF Carries, n
    <3>3. t[n + 1] = off + 1
      BY <1>1, <1>3, <1>5
    <3>4. QED
      BY <1>7, <2>2, <3>1, <3>2, <3>3
  <2>3. CASE n < i
    <3>1. PICK j : j = i - n
      OBVIOUS
    <3>2. j \in 1 .. m - 1 /\ j \in 1 .. m /\ j + 1 \in 1 .. m /\ i = n + j /\ i + 1 = n + (j + 1)
      BY <1>1, <1>2, <2>3, <3>1
    <3>3. t[i] = r[j] /\ t[i + 1] = r[j + 1]
      BY <1>3, <3>2
    <3>4. \/ r[j + 1] = 0 /\ r[j] \in {0, size}
          \/ r[j] # 0 /\ r[j + 1] = r[j] + 1
      BY <3>2, RecordInside DEF m
    <3>5. QED
      BY <3>3, <3>4 DEF Follows
  <2>4. QED
    BY <1>1, <1>2, <2>1, <2>2, <2>3
<1>9. t[n + m] = r[m] /\ r[m] = IF m <= end - off THEN off + m ELSE 0
  BY <1>1, <1>3
<1>10. end < size => r[m] # 0
  BY <1>1, <1>9
<1>11. ASSUME r[m] # 0 PROVE Follows(t, n + m, end + 1, size, max)
  <2>1. m <= end - off /\ r[m] = off + m
    BY <1>9, <1>11
  <2>2. CASE m = end - off
    BY <1>1, <1>9, <2>1, <2>2 DEF Follows
  <2>3. CASE m # end - off
    <3>1. m < end - off /\ m = BufSize /\ end - off <= max
      BY <1>1, <2>1, <2>3
    <3>2. t[n + 1] = off + 1 /\ n + m - BufSize + 1 = n + 1
      BY <1>1, <1>3, <1>5, <3>1
    <3>3. /\ t[n + m] # 0 /\ t[n + m] + 1 < end + 1 /\ end + 1 <= t[n + m] + 1 + max - BufSize
          /\ BufSize <= n + m /\ off + 1 = t[n + m] - BufSize + 1
      BY <1>1, <1>9, <2>1, <3>1
    <3>4. t[n + m - BufSize + 1] = t[n + m] - BufSize + 1
      BY <3>2, <3>3
    <3>5. PICK i, b : i = n + m /\ b = end + 1
      OBVIOUS
    <3>6. /\ t[i] # 0 /\ t[i] + 1 < b /\ b <= t[i] + 1 + max - BufSize
          /\ BufSize <= i /\ t[i - BufSize + 1] = t[i] - BufSize + 1
      <4>1. t[i] # 0 /\ t[i] + 1 < b /\ b <= t[i] + 1 + max - BufSize /\ BufSize <= i
        BY <3>3, <3>5
      <4>2. i \in Nat /\ i - BufSize + 1 = n + m - BufSize + 1
        BY <1>1, <1>4, <3>5
      <4>3. t[i - BufSize + 1] = t[i] - BufSize + 1
        BY <3>4, <3>5, <4>2, Zenon
      <4>4. QED
        BY <4>1, <4>3
    <3>7. Follows(t, i, b, size, max)
      BY ONLY <3>6 DEF Follows
    <3>8. QED
      BY <3>5, <3>7
  <2>4. QED
    BY <2>2, <2>3
<1>12. QED
  BY <1>2, <1>6, <1>8, <1>9, <1>10, <1>11 DEF Carries, t

LEMMA WriteBegins ==
    ASSUME EngineInv, NEW c \in Links, NEW n \in WriteSizes, WriteMultiBuffer(c, n)
    PROVE  WriteInv'
<1>1. engines[link[c].engine].profile \in Profiles /\ n \in Nat /\ n > 0
  BY CamouflageAssumption DEF WriteMultiBuffer, EngineInv, CamouflageShape
<1>2. write' = [profile |-> engines[link[c].engine].profile, size |-> n, offset |-> 0, shaped |-> <<>>]
  BY DEF WriteMultiBuffer, NoWrite
<1>3. /\ DOMAIN write' = {"profile", "size", "offset", "shaped"}
      /\ write'.profile \in Profiles /\ write'.size = n /\ write'.offset = 0 /\ write'.shaped = <<>>
  BY <1>1, <1>2
<1>4. ASSUME NEW max PROVE Carries(<<>>, 0, n, max)
  BY DEF Carries
<1>5. QED
  BY <1>1, <1>3, <1>4 DEF WriteInv

LEMMA WriteGoesOn ==
    ASSUME WriteInv, Chunk
    PROVE  WriteInv'
<1>1. /\ write.offset < write.size /\ write.size \in Nat /\ write.offset \in Nat /\ write.shaped \in Seq(Nat)
      /\ DOMAIN write = {"profile", "size", "offset", "shaped"}
  BY DEF WriteInv, Chunk
<1>2. write # NoWrite /\ write.profile \in Profiles
  <2>1. NoWrite.offset = 0 /\ NoWrite.size = 0
    BY DEF NoWrite
  <2>2. write # NoWrite
    BY <1>1, <2>1
  <2>3. QED
    BY <2>2 DEF WriteInv
<1>3. PICK want, end, chunk, record :
         /\ want \in getTargetSize(write.profile)
         /\ end = IF write.offset + want > write.size THEN write.size ELSE write.offset + want
         /\ chunk = [i \in 1 .. end - write.offset |-> write.offset + i]
         /\ record = BufWrite(IF end = write.size THEN padChunk(chunk, write.profile) ELSE chunk)
         /\ write' = [write EXCEPT !.offset = end, !.shaped = @ \o record]
  BY DEF Chunk
<1>4. RecordOf(MaxRecordPayload[write.profile], write.offset, write.size, end, record)
  BY <1>1, <1>2, <1>3, RecordIs
<1>5. end \in Nat /\ end <= write.size
  BY <1>4 DEF RecordOf
<1>6. /\ DOMAIN write' = DOMAIN write /\ write'.profile = write.profile /\ write'.size = write.size
      /\ write'.offset = end /\ write'.shaped = write.shaped \o record
  BY <1>1, <1>3
<1>7. /\ Carries(write.shaped, write.offset, write.size, MaxRecordPayload[write.profile])
      /\ write.shaped # <<>> => write.shaped[Len(write.shaped)] # 0
      /\ MaxRecordPayload[write.profile] \in Nat
  BY <1>1, <1>2, RecordBounds DEF WriteInv
<1>8. /\ Carries(write'.shaped, end, write.size, MaxRecordPayload[write.profile])
      /\ write'.shaped \in Seq(Nat)
      /\ end < write.size => write'.shaped[Len(write'.shaped)] # 0
  BY <1>1, <1>4, <1>6, <1>7, RecordJoins
<1>9. QED
  BY <1>1, <1>2, <1>5, <1>6, <1>8 DEF WriteInv

LEMMA WriteInductive ==
    ASSUME EngineInv, WriteInv, [CamouflageNext]_camouflageVars
    PROVE  WriteInv'
<1>1. CASE UNCHANGED write
  <2>1. QED
    BY <1>1 DEF WriteInv, NoWrite
<1>2. ASSUME NEW c \in Links, LoadEngine(c) \/ BuildCamouflageEngine(c) \/ StoreEngine(c) \/ LinkEnds(c)
      PROVE  UNCHANGED write
  BY <1>2 DEF LoadEngine, BuildCamouflageEngine, StoreEngine, LinkEnds
<1>3. ASSUME NEW e \in Engines, SwitcherExits(e) \/ SwitcherPanics(e) \/ \E p \in Profiles : Switch(e, p)
      PROVE  UNCHANGED write
  BY <1>3 DEF SwitcherExits, SwitcherPanics, Switch
<1>4. ASSUME \/ cleanupNodeState \/ CloseWaits \/ DeleteNodeConfig
             \/ \E config \in PanelConfigs : SetNodeConfig(config)
      PROVE  UNCHANGED write
  BY <1>4 DEF cleanupNodeState, CloseWaits, DeleteNodeConfig, SetNodeConfig
<1>5. CASE UNCHANGED camouflageVars
  BY <1>1, <1>5 DEF camouflageVars
<1>6. QED
  BY <1>1, <1>2, <1>3, <1>4, <1>5, WriteBegins, WriteGoesOn DEF CamouflageNext

\* ShapedBufWriter sends the bytes of a write in order, none twice, with padding only
\* behind the last one, and loses only what a record has beyond the size of a buffer: for
\* every set of profiles whose smallest record fits a buffer, and every size of a write.
THEOREM RecordsAreOrdered == CamouflageSpec => []RecordsCarryTheWrite
<1>1. CamouflageInit => WriteInv
  <2>1. /\ DOMAIN NoWrite = {"profile", "size", "offset", "shaped"}
        /\ NoWrite.size = 0 /\ NoWrite.offset = 0 /\ NoWrite.shaped = <<>>
    BY DEF NoWrite
  <2>2. ASSUME write = NoWrite PROVE WriteInv
    <3>1. <<>> \in Seq(Nat)
      OBVIOUS
    <3>2. /\ DOMAIN write = {"profile", "size", "offset", "shaped"}
          /\ write.size = 0 /\ write.offset = 0 /\ write.shaped = <<>>
      BY <2>1, <2>2
    <3>3. QED
      BY <2>2, <3>1, <3>2 DEF WriteInv
  <2>3. QED
    BY <2>2 DEF CamouflageInit
<1>2. WriteInv => RecordsCarryTheWrite
  <2> SUFFICES ASSUME WriteInv, write.shaped # <<>> PROVE RecordsCarryTheWrite
    BY DEF RecordsCarryTheWrite
  <2>1. write # NoWrite
    <3>1. NoWrite.shaped = <<>>
      BY DEF NoWrite
    <3>2. QED
      BY <3>1
  <2>2. QED
    BY <2>1 DEF WriteInv, Carries, RecordsCarryTheWrite
<1>3. QED
  BY <1>1, <1>2, EngineAlways, WriteInductive, PTL DEF CamouflageSpec
=============================================================================
