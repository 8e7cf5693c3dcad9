----------------------------- MODULE Camouflage -----------------------------
(***************************************************************************)
(* The traffic shaping of a shadowflow node: the camouflage engine that    *)
(* the dispatcher keeps per tag and builds when a link needs one, its      *)
(* switcher goroutine, cleanupNodeState and buildShadowflow around a       *)
(* rebuild, and the ShapedBufWriter of a link, which cuts what is written  *)
(* into records of the active profile's sizes.                             *)
(*                                                                         *)
(* A write's bytes are 1, 2, ...; 0 is a byte of padding.  A size that is  *)
(* sampled, from the initial sequence or the distribution, is clamped to   *)
(* the profile's bounds, so that it is any size between them.              *)
(***************************************************************************)
EXTENDS Naturals, Sequences

CONSTANTS
    Links,              \* connections of the node
    MaxEngines,         \* engines built
    Profiles, MinRecordPayload, MaxRecordPayload,
    FirstProfile,       \* the one in the configuration
    PanelConfigs,       \* what the panel sends: mode, minimum and maximum interval
    DefaultMin, DefaultMax,     \* 30 and 120 seconds
    BufSize,            \* size of a buf.Buffer
    WriteSizes          \* bytes of one write

ASSUME CamouflageAssumption ==
    /\ MaxEngines \in Nat /\ BufSize \in Nat
    /\ WriteSizes \subseteq Nat \ {0}
    /\ PanelConfigs \subseteq [mode : {"random", "dynamic"}, interval : Nat \X Nat]
    /\ FirstProfile \in Profiles
    /\ DefaultMin \in Nat /\ DefaultMax \in Nat /\ 0 < DefaultMin /\ DefaultMin <= DefaultMax
    /\ MinRecordPayload \in [Profiles -> Nat] /\ MaxRecordPayload \in [Profiles -> Nat]
    /\ \A p \in Profiles : /\ 0 < MinRecordPayload[p] /\ MinRecordPayload[p] <= MaxRecordPayload[p]
                           /\ MinRecordPayload[p] <= BufSize

VARIABLES
    nodeConfig,     \* configStore of the tag, NoConfig if there is none
    cachedEngine,   \* CamouflageEngines of the tag, 0 if there is none
    engines,        \* the engines built: configuration, profile, switcher, stopped
    cleaner,        \* cleanupNodeState: "out", "wait" for the switcher, "config"
    closing,        \* the engine it closes
    link,           \* per connection: where it is in getLink, its engine
    write,          \* one link's write: writes of different links share the profile only
    concurrent,     \* history: a link missed the engine next to another's miss, or next to a cleanup
    early,          \* history: since the last cleanup a link missed the engine of an unconfigured tag
    processDown     \* a goroutine has panicked

configVars == <<nodeConfig, cleaner, closing>>
engineVars == <<cachedEngine, engines>>
historyVars == <<concurrent, early>>
camouflageVars == <<configVars, engineVars, link, write, historyVars, processDown>>

Engines  == 1 .. Len(engines)
NoConfig == [mode |-> "none", interval |-> <<DefaultMin, DefaultMax>>]
DefaultConfig == [NoConfig EXCEPT !.mode = "random"]
NoLink   == [at |-> "new", engine |-> 0]
NoWrite  == [profile |-> "", size |-> 0, offset |-> 0, shaped |-> <<>>]

CamouflageTypeOK ==
    /\ nodeConfig.mode \in {"none", "random", "dynamic"} /\ cleaner \in {"out", "wait", "config"}
    /\ cachedEngine \in 0 .. Len(engines) /\ closing \in 0 .. Len(engines)
    /\ \A e \in Engines : /\ engines[e].config.mode \in {"random", "dynamic"}
                          /\ engines[e].profile \in Profiles
                          /\ engines[e].switcher \in {"none", "running", "exited"}
    /\ \A c \in Links : /\ link[c].at \in {"new", "missed", "built", "open"}
                        /\ link[c].engine \in 0 .. Len(engines)
    /\ write.offset \in 0 .. write.size /\ write.size \in WriteSizes \cup {0}

-----------------------------------------------------------------------------
(* The node: DelNode's cleanup, and AddNode.                                *)

Missing == {c \in Links : link[c].at \in {"missed", "built"}}

\* Mutant: the engine is forgotten, not closed.
cleanupForgetsEngine ==
    /\ cleaner = "out" /\ (nodeConfig # NoConfig \/ cachedEngine # 0)
    /\ closing' = 0 /\ cleaner' = "config" /\ cachedEngine' = 0
    /\ concurrent' = (concurrent \/ Missing # {}) /\ early' = FALSE
    /\ UNCHANGED <<nodeConfig, engines, link, write, processDown>>

\* LoadAndDelete, and the first half of Close.
cleanupNodeState ==
    /\ cleaner = "out" /\ (nodeConfig # NoConfig \/ cachedEngine # 0)
    /\ closing' = cachedEngine /\ cachedEngine' = 0
    /\ cleaner' = IF cachedEngine = 0 THEN "config" ELSE "wait"
    /\ engines' = [e \in Engines |-> [engines[e] EXCEPT !.stopped = @ \/ e = cachedEngine]]
    /\ concurrent' = (concurrent \/ Missing # {}) /\ early' = FALSE
    /\ UNCHANGED <<nodeConfig, link, write, processDown>>

\* Close waits for the switcher.
CloseWaits ==
    /\ cleaner = "wait" /\ engines[closing].switcher # "running"
    /\ cleaner' = "config" /\ closing' = 0
    /\ UNCHANGED <<nodeConfig, engineVars, link, write, historyVars, processDown>>

DeleteNodeConfig ==
    /\ cleaner = "config"
    /\ nodeConfig' = NoConfig /\ cleaner' = "out"
    /\ UNCHANGED <<closing, engineVars, link, write, historyVars, processDown>>

\* Done by ParseFromCommonNode and once more when the switcher starts.
Interval(interval) ==
    LET min == IF interval[1] = 0 THEN DefaultMin ELSE interval[1]
        max == IF interval[2] = 0 \/ interval[2] < min THEN DefaultMax ELSE interval[2]
    IN  <<min, max>>

\* buildShadowflow, in AddNode.
SetNodeConfig(config) ==
    /\ cleaner = "out" /\ nodeConfig = NoConfig
    /\ nodeConfig' = [config EXCEPT !.interval = Interval(@)]
    /\ UNCHANGED <<cleaner, closing, engineVars, link, write, historyVars, processDown>>

-----------------------------------------------------------------------------
(* getLink.                                                                 *)

LoadEngine(c) ==
    /\ link[c].at = "new"
    /\ link' = [link EXCEPT ![c].at = IF cachedEngine = 0 THEN "missed" ELSE "open",
                            ![c].engine = cachedEngine]
    /\ concurrent' = \/ concurrent
                     \/ cachedEngine = 0 /\ (Missing # {} \/ cleaner # "out")
    /\ early' = (early \/ (cachedEngine = 0 /\ nodeConfig = NoConfig))
    /\ UNCHANGED <<write, configVars, engineVars, processDown>>

\* BuildCamouflageEngine, or the default engine when there is no configuration; in
\* dynamic mode it starts a switcher.
BuildCamouflageEngine(c) ==
    LET config == IF nodeConfig = NoConfig THEN DefaultConfig ELSE nodeConfig IN
    /\ link[c].at = "missed" /\ Len(engines) < MaxEngines
    /\ engines' = Append(engines, [config |-> config, profile |-> FirstProfile, stopped |-> FALSE,
                                   switcher |-> IF config.mode = "dynamic" THEN "running" ELSE "none"])
    /\ link' = [link EXCEPT ![c].at = "built", ![c].engine = Len(engines) + 1]
    /\ UNCHANGED <<write, configVars, cachedEngine, historyVars, processDown>>

StoreEngine(c) ==
    /\ link[c].at = "built"
    /\ cachedEngine' = link[c].engine
    /\ link' = [link EXCEPT ![c].at = "open"]
    /\ UNCHANGED <<write, configVars, engines, historyVars, processDown>>

LinkEnds(c) ==
    /\ link[c].at = "open"
    /\ link' = [link EXCEPT ![c] = NoLink]
    /\ UNCHANGED <<write, configVars, engineVars, historyVars, processDown>>

-----------------------------------------------------------------------------
(* The switcher: an interval is drawn, and then it waits for it and stopCh. *)

Draws(e) == engines[e].config.interval[1] <= engines[e].config.interval[2]

\* rand.Intn of a number that is not positive panics; nothing recovers.
SwitcherPanics(e) ==
    /\ engines[e].switcher = "running" /\ ~Draws(e)
    /\ processDown' = TRUE
    /\ UNCHANGED <<configVars, engineVars, link, write, historyVars>>

Switch(e, p) ==
    /\ engines[e].switcher = "running" /\ Draws(e) /\ ~engines[e].stopped
    /\ engines' = [engines EXCEPT ![e].profile = p]
    /\ UNCHANGED <<configVars, cachedEngine, link, write, historyVars, processDown>>

SwitcherExits(e) ==
    /\ engines[e].switcher = "running" /\ Draws(e) /\ engines[e].stopped
    /\ engines' = [engines EXCEPT ![e].switcher = "exited"]
    /\ UNCHANGED <<configVars, cachedEngine, link, write, historyVars, processDown>>

-----------------------------------------------------------------------------
(* ShapedBufWriter.                                                         *)

\* The profile is read once per write, whatever the switcher does meanwhile.
WriteMultiBuffer(c, n) ==
    /\ link[c].at = "open" /\ write.offset = write.size
    /\ write' = [NoWrite EXCEPT !.profile = engines[link[c].engine].profile, !.size = n]
    /\ UNCHANGED <<configVars, engineVars, link, historyVars, processDown>>

\* Mutant: the data is put after the random bytes.
padFront(chunk, p) ==
    [i \in 1 .. (IF Len(chunk) < MinRecordPayload[p] THEN MinRecordPayload[p] ELSE Len(chunk)) |->
        IF i > MinRecordPayload[p] - Len(chunk) THEN chunk[i + Len(chunk) - MinRecordPayload[p]] ELSE 0]

\* Filled up to the minimum; nothing says how much of it is padding.
padChunk(chunk, p) ==
    [i \in 1 .. (IF Len(chunk) < MinRecordPayload[p] THEN MinRecordPayload[p] ELSE Len(chunk)) |->
        IF i <= Len(chunk) THEN chunk[i] ELSE 0]

\* A buf.Buffer takes what fits; the error is ignored.
BufWrite(chunk) == IF Len(chunk) > BufSize THEN SubSeq(chunk, 1, BufSize) ELSE chunk

getTargetSize(p) == MinRecordPayload[p] .. MaxRecordPayload[p]

\* One round of the loop; only a last chunk is padded.
Chunk ==
    /\ write.offset < write.size
    /\ \E want \in getTargetSize(write.profile) :
         LET end    == IF write.offset + want > write.size THEN write.size ELSE write.offset + want
             chunk  == [i \in 1 .. end - write.offset |-> write.offset + i]
             record == BufWrite(IF end = write.size THEN padChunk(chunk, write.profile) ELSE chunk) IN
         write' = [write EXCEPT !.offset = end, !.shaped = @ \o record]
    /\ UNCHANGED <<configVars, engineVars, link, historyVars, processDown>>

-----------------------------------------------------------------------------

CamouflageInit ==
    /\ nodeConfig = NoConfig /\ cachedEngine = 0 /\ engines = <<>>
    /\ cleaner = "out" /\ closing = 0
    /\ link = [c \in Links |-> NoLink] /\ write = NoWrite
    /\ concurrent = FALSE /\ early = FALSE /\ processDown = FALSE

CamouflageNext ==
    /\ ~processDown
    /\ \/ cleanupNodeState \/ CloseWaits \/ DeleteNodeConfig \/ Chunk
       \/ \E config \in PanelConfigs : SetNodeConfig(config)
       \/ \E c \in Links : \/ LoadEngine(c) \/ BuildCamouflageEngine(c) \/ StoreEngine(c) \/ LinkEnds(c)
                          \/ \E n \in WriteSizes : WriteMultiBuffer(c, n)
       \/ \E e \in Engines : \/ SwitcherExits(e) \/ SwitcherPanics(e)
                            \/ \E p \in Profiles : Switch(e, p)

CamouflageSpec == CamouflageInit /\ [][CamouflageNext]_camouflageVars

-----------------------------------------------------------------------------
(* Properties.                                                              *)

\* Engines follow the node: a switcher that runs belongs to the tag's engine, to one
\* being stored or to one being closed, so that the churn of nodes leaves none behind,
\* and the engine of a node that is up is not stopped and was built from the node's
\* configuration, or it is the default engine of a link that came between the cleanup and
\* buildShadowflow: DelNode cleans up before it removes the inbound, and the engine such a
\* link stores outlives the configuration that arrives after it.  getLink's Load and Store
\* are not one step: a miss next to another link's, or next to a cleanup, is excepted.
EngineFollowsConfig ==
    ~concurrent =>
        /\ \A e \in Engines : engines[e].switcher = "running" =>
              \/ cachedEngine = e \/ engines[e].stopped
              \/ \E c \in Links : link[c].at = "built" /\ link[c].engine = e
        /\ cleaner = "out" /\ nodeConfig # NoConfig /\ cachedEngine # 0 =>
              /\ ~engines[cachedEngine].stopped
              /\ \/ engines[cachedEngine].config = nodeConfig
                 \/ early /\ engines[cachedEngine].config = DefaultConfig

\* The byte n may come right behind the i-th byte sent, of a write of this size: it is
\* the next one, or padding behind the last; bytes are missing only between a record that
\* filled a buffer and the next one, no more than a record can exceed the buffer by.
Follows(s, i, n, size, max) ==
    \/ n = 0 /\ s[i] \in {0, size}
    \/ s[i] # 0 /\ n = s[i] + 1
    \/ /\ s[i] # 0 /\ s[i] + 1 < n /\ n <= s[i] + 1 + max - BufSize
       /\ BufSize <= i /\ s[i - BufSize + 1] = s[i] - BufSize + 1

\* However the switcher interferes, the records of a write carry its bytes in order and
\* none twice, from the first; padding comes only behind the last byte of the write, where
\* nothing tells the receiver to strip it; and bytes are lost only where a record exceeds
\* the buffer, which takes BufSize of them and whose error is ignored (every profile has
\* records of up to 16384 bytes, a buffer takes 8192).
RecordsCarryTheWrite ==
    LET s == write.shaped IN
    write.profile \in Profiles /\ s # <<>> =>
        /\ s[1] = 1
        /\ \A i \in 1 .. Len(s) - 1 :
              Follows(s, i, s[i + 1], write.size, MaxRecordPayload[write.profile])
        /\ s[Len(s)] # 0 =>
              Follows(s, Len(s), write.offset + 1, write.size, MaxRecordPayload[write.profile])
=============================================================================
