-------------------------- MODULE Reporting_proofs --------------------------
(***************************************************************************)
(* Proofs about the calls to the panel and the traffic accounting, for     *)
(* every number of users, connections, retries and lost messages.          *)
(***************************************************************************)
EXTENDS Panel, Traffic, FiniteSetTheorems, TLAPS

-----------------------------------------------------------------------------
(* Amounts of sets of storages.                                             *)

LEMMA UnitsFinite ==
    ASSUME NEW ss \in SUBSET Conns
    PROVE  IsFiniteSet(Units(ss)) /\ Amount(ss) \in Nat
<1>1. IsFiniteSet(1 .. MaxBytes)
  BY TrafficBounds, FS_Interval
<1>2. IsFiniteSet(Conns \X (1 .. MaxBytes))
  BY <1>1, TrafficBounds, FS_Product
<1>3. Units(ss) \subseteq Conns \X (1 .. MaxBytes)
  BY DEF Units
<1>4. IsFiniteSet(Units(ss))
  BY <1>2, <1>3, FS_Subset
<1> QED BY <1>4, FS_CardinalityType DEF Amount

\* Fewer storages and smaller values make no larger amount.
LEMMA AmountShrinks ==
    ASSUME NEW ss \in SUBSET Conns, NEW ss2 \in SUBSET Conns, Units(ss2)' \subseteq Units(ss)
    PROVE  Amount(ss2)' \in Nat /\ Amount(ss2)' <= Amount(ss)
<1>1. IsFiniteSet(Units(ss)) /\ Amount(ss) \in Nat
  BY UnitsFinite
<1>2. IsFiniteSet(Units(ss2)') /\ Cardinality(Units(ss2)') <= Cardinality(Units(ss))
  BY <1>1, FS_Subset
<1>3. Cardinality(Units(ss2)') \in Nat
  BY <1>2, FS_CardinalityType
<1> QED BY <1>2, <1>3 DEF Amount

\* One more unit in a storage is at most one more in the amount.
LEMMA AmountGrows ==
    ASSUME NEW ss \in SUBSET Conns, NEW x, Units(ss)' \subseteq Units(ss) \cup {x}
    PROVE  Amount(ss)' \in Nat /\ Amount(ss)' <= Amount(ss) + 1
<1>1. IsFiniteSet(Units(ss)) /\ Amount(ss) \in Nat
  BY UnitsFinite
<1>2. /\ IsFiniteSet(Units(ss) \cup {x})
      /\ Cardinality(Units(ss) \cup {x}) \in {Cardinality(Units(ss)), Cardinality(Units(ss)) + 1}
  BY <1>1, FS_AddElement
<1>3. /\ IsFiniteSet(Units(ss)') /\ Cardinality(Units(ss)') <= Cardinality(Units(ss) \cup {x})
  BY <1>2, FS_Subset
<1>4. Cardinality(Units(ss)') \in Nat
  BY <1>3, FS_CardinalityType
<1> QED BY <1>1, <1>2, <1>3, <1>4 DEF Amount

\* A storage that is emptied takes its value out of the amount.
LEMMA AmountTaken ==
    ASSUME NEW ss \in SUBSET Conns, NEW s \in ss, NEW v \in 0 .. MaxBytes, value[s] = v,
           DOMAIN value = Conns, value' = [value EXCEPT ![s] = 0]
    PROVE  Amount(ss)' \in Nat /\ Amount(ss)' + v <= Amount(ss)
<1> DEFINE A == Units(ss)'
           B == {s} \X (1 .. v)
<1>0. v \in Nat /\ MaxBytes \in Nat
  BY TrafficBounds
<1>1. IsFiniteSet(Units(ss)) /\ Amount(ss) \in Nat
  BY UnitsFinite
<1>2. A \subseteq Units(ss) /\ A \cap B = {}
  BY <1>0 DEF Units
<1>3. B \subseteq Units(ss)
  BY <1>0 DEF Units
<1>4. IsFiniteSet(A) /\ IsFiniteSet(B) /\ Cardinality(A) \in Nat
  <2>1. IsFiniteSet(A) /\ IsFiniteSet(B)
    BY <1>1, <1>2, <1>3, FS_Subset
  <2> HIDE DEF A
  <2> QED BY <2>1, FS_CardinalityType
<1>5. Cardinality(B) = v
  <2>1. IsFiniteSet(1 .. v) /\ Cardinality(1 .. v) = v
    BY <1>0, FS_Interval
  <2>2. IsFiniteSet({s}) /\ Cardinality({s}) = 1
    BY FS_Singleton
  <2>3. Cardinality(B) = Cardinality({s}) * Cardinality(1 .. v)
    BY <2>1, <2>2, FS_Product
  <2> QED BY <1>0, <2>1, <2>2, <2>3
<1> HIDE DEF A, B
<1>6. Cardinality(A \cup B) = Cardinality(A) + v
  <2>1. Cardinality(A \cap B) = 0
    BY <1>2, FS_EmptySet
  <2>2. Cardinality(A \cup B) = Cardinality(A) + Cardinality(B) - Cardinality(A \cap B)
    BY <1>4, FS_Union
  <2> QED BY <1>0, <1>4, <1>5, <2>1, <2>2
<1>7. Cardinality(A \cup B) <= Cardinality(Units(ss))
  BY <1>1, <1>2, <1>3, FS_Subset
<1> QED BY <1>4, <1>6, <1>7 DEF Amount, A

-----------------------------------------------------------------------------
(* Traffic: whose a storage is.                                             *)

Opened == {"open", "closed"}

TrafficShape ==
    /\ DOMAIN value = Conns /\ (\A s \in Conns : value[s] \in Nat)
    /\ DOMAIN Counters = Conns /\ (\A t \in Conns : DOMAIN Counters[t] = Users)
    /\ \A t \in Conns, u \in Users : Counters[t][u] \in Conns \cup {NoCounter}
    /\ Counter \in Conns \cup {NoCounter}
    /\ DOMAIN linkPc = Conns /\ DOMAIN conn = Conns
    /\ \A c \in Conns :
          /\ DOMAIN conn[c] = {"user", "tc", "ts"} /\ conn[c].ts \in Conns \cup {NoCounter}
          /\ linkPc[c] \in {"load", "store", "get", "loadOrStore", "open"} => conn[c].user \in Users
          /\ linkPc[c] \in {"get", "loadOrStore"} => conn[c].tc \in Conns
          /\ linkPc[c] = "open" => conn[c].ts \in Conns
          /\ linkPc[c] # "open" => conn[c].ts = NoCounter
    /\ rpc \in {"range", "judge", "prune"} => rc \in Conns
    /\ rpc \in {"judge", "prune"} => ru \in Users
    /\ mpc = "counter" => mu \in Users
    /\ amount \in Nat /\ slice \in [Users -> Nat]
    /\ counted \in [Users -> Nat] /\ billed \in [Users -> Nat] /\ repeated \in [Users -> Nat]
    /\ \A u \in Users : counted[u] <= MaxBytes

\* A storage is in the counters of a user, or counts for a connection of it.
UsedBy(s, u) ==
    \/ \E t \in Conns : Counters[t][u] = s
    \/ \E c \in Conns : conn[c].ts = s /\ conn[c].user = u

\* It is one user's and has no more than the user transferred.  One that is not in use
\* yet is empty.
StoragesOwned ==
    /\ \A s \in Conns, u \in Users : UsedBy(s, u) =>
          /\ value[s] <= counted[u]
          /\ linkPc[s] \in Opened
          /\ \A v \in Users : UsedBy(s, v) => v = u
    /\ \A s \in Conns : linkPc[s] \notin Opened => value[s] = 0

Held(u) == IF rpc \in {"judge", "prune"} /\ ru = u THEN amount ELSE 0
Due(u)  == IF received THEN 0 ELSE slice[u]

Covered(u) == billed[u] + Due(u) + Held(u) + Amount(StoragesOf(u)) <= counted[u] + repeated[u]

BillInv == TrafficShape /\ StoragesOwned /\ \A u \in Users : Covered(u)

LEMMA StoragesAreConns ==
    ASSUME TrafficShape, NEW u \in Users
    PROVE  /\ StoragesOf(u) \in SUBSET Conns
           /\ \A s \in StoragesOf(u) : UsedBy(s, u) /\ s # NoCounter
           /\ Amount(StoragesOf(u)) \in Nat
<1>1. /\ StoragesOf(u) \in SUBSET Conns
      /\ \A s \in StoragesOf(u) : UsedBy(s, u) /\ s # NoCounter
  BY DEF TrafficShape, StoragesOf, UsedBy
<1>2. PICK ss \in SUBSET Conns : ss = StoragesOf(u)
  BY <1>1
<1> QED BY <1>1, <1>2, UnitsFinite

LEMMA DueHeldNat ==
    ASSUME TrafficShape, NEW u \in Users
    PROVE  Due(u) \in Nat /\ Held(u) \in Nat
BY DEF TrafficShape, Due, Held

\* The same of the next state.
Sums == \A u \in Users : /\ StoragesOf(u) \in SUBSET Conns /\ Amount(StoragesOf(u)) \in Nat
                         /\ Due(u) \in Nat /\ Held(u) \in Nat

LEMMA SumsOfState == TrafficShape => Sums
BY StoragesAreConns, DueHeldNat DEF Sums

LEMMA SumsOfNext == TrafficShape' => Sums'
BY SumsOfState, PTL

LEMMA BillInit == TrafficInit => BillInv
<1> SUFFICES ASSUME TrafficInit PROVE BillInv
  OBVIOUS
<1>1. TrafficShape
  <2>1. DOMAIN NoLocals = {"user", "tc", "ts"} /\ NoLocals.ts = NoCounter
    BY DEF NoLocals
  <2> QED BY <2>1, TrafficBounds DEF TrafficInit, TrafficShape, NoSlice
<1>2. StoragesOwned
  <2>1. NoLocals.ts = NoCounter
    BY DEF NoLocals
  <2>2. ASSUME NEW s \in Conns, NEW u \in Users PROVE ~UsedBy(s, u)
    BY <2>1, TrafficNone DEF TrafficInit, UsedBy
  <2> QED BY <2>2 DEF TrafficInit, StoragesOwned
<1>3. ASSUME NEW u \in Users PROVE Covered(u)
  <2>1. StoragesOf(u) = {}
    BY DEF TrafficInit, StoragesOf
  <2>2. Units(StoragesOf(u)) = {}
    BY <2>1 DEF Units
  <2>3. Amount(StoragesOf(u)) = 0
    BY <2>2, FS_EmptySet DEF Amount
  <2> QED BY <2>3 DEF TrafficInit, Covered, Due, Held, NoSlice
<1> QED BY <1>1, <1>2, <1>3 DEF BillInv

-----------------------------------------------------------------------------
\* Steps after which no storage has a new user and none another value.
LEMMA OwnedStands ==
    ASSUME StoragesOwned, UNCHANGED <<value, counted>>,
           \A s \in Conns, u \in Users : UsedBy(s, u)' => UsedBy(s, u),
           \A c \in Conns : linkPc[c] \in Opened => linkPc'[c] \in Opened
    PROVE  StoragesOwned'
BY DEF StoragesOwned

\* Steps that add nothing to what is billed, due, held or stored.
LEMMA CoveredStands ==
    ASSUME TrafficShape, TrafficShape', NEW u \in Users, Covered(u),
           Units(StoragesOf(u))' \subseteq Units(StoragesOf(u)),
           counted'[u] = counted[u],
           billed'[u] + Due(u)' + Held(u)' + repeated[u] <= billed[u] + Due(u) + Held(u) + repeated'[u]
    PROVE  Covered(u)'
<1>1. StoragesOf(u) \in SUBSET Conns /\ Amount(StoragesOf(u)) \in Nat
  BY StoragesAreConns
<1>2. StoragesOf(u)' \in SUBSET Conns /\ Amount(StoragesOf(u))' \in Nat
  BY SumsOfNext DEF Sums
<1>3. PICK ss \in SUBSET Conns, ss2 \in SUBSET Conns : ss = StoragesOf(u) /\ ss2 = StoragesOf(u)'
  BY <1>1, <1>2
<1>4. Units(ss2)' = Units(StoragesOf(u))' /\ Amount(ss2)' = Amount(StoragesOf(u))'
  BY <1>3 DEF Units, Amount
<1>5. Amount(ss2)' <= Amount(ss)
  BY <1>3, <1>4, AmountShrinks
<1>6. Due(u) \in Nat /\ Held(u) \in Nat /\ Due(u)' \in Nat /\ Held(u)' \in Nat
  BY DueHeldNat, SumsOfNext DEF Sums
<1>7. /\ billed[u] \in Nat /\ billed'[u] \in Nat /\ repeated[u] \in Nat /\ repeated'[u] \in Nat
      /\ counted[u] \in Nat
  BY DEF TrafficShape
<1> QED BY <1>1, <1>2, <1>3, <1>4, <1>5, <1>6, <1>7 DEF Covered

\* Fewer entries in the counters, the same values.
LEMMA FewerUnits ==
    ASSUME UNCHANGED value, NEW u, StoragesOf(u)' \subseteq StoragesOf(u)
    PROVE  Units(StoragesOf(u))' \subseteq Units(StoragesOf(u))
BY DEF Units

\* Steps that leave the counters, the values and the bills alone.
LEMMA BillStands ==
    ASSUME BillInv, TrafficShape', UNCHANGED <<Counters, value, counted, billed, repeated>>,
           \A c \in Conns : conn'[c].ts = NoCounter \/ UsedBy(conn'[c].ts, conn'[c].user),
           \A c \in Conns : linkPc[c] \in Opened => linkPc'[c] \in Opened,
           \A u \in Users : Due(u)' + Held(u)' <= Due(u) + Held(u)
    PROVE  BillInv'
<1>1. ASSUME NEW s \in Conns, NEW u \in Users, UsedBy(s, u)' PROVE UsedBy(s, u)
  BY <1>1, TrafficNone DEF UsedBy
<1>2. StoragesOwned'
  BY <1>1, OwnedStands DEF BillInv
<1>3. ASSUME NEW u \in Users PROVE Covered(u)'
  <2>1. StoragesOf(u)' \subseteq StoragesOf(u)
    BY DEF StoragesOf
  <2>2. Due(u) \in Nat /\ Held(u) \in Nat /\ Due(u)' \in Nat /\ Held(u)' \in Nat
    BY DueHeldNat, SumsOfNext DEF BillInv, Sums
  <2>3. billed[u] \in Nat /\ repeated[u] \in Nat
    BY DEF BillInv, TrafficShape
  <2>4. billed'[u] + Due(u)' + Held(u)' + repeated[u] <= billed[u] + Due(u) + Held(u) + repeated'[u]
    BY <2>2, <2>3
  <2> QED BY <2>1, <2>4, FewerUnits, CoveredStands DEF BillInv
<1> QED BY <1>2, <1>3 DEF BillInv

-----------------------------------------------------------------------------
\* Connection c goes to l with the locals r, the others stay.
LinkStep(c, l, r) ==
    /\ DOMAIN linkPc' = Conns /\ DOMAIN conn' = Conns
    /\ linkPc'[c] = l /\ conn'[c] = r
    /\ \A d \in Conns \ {c} : linkPc'[d] = linkPc[d] /\ conn'[d] = conn[d]

\* A step of a connection that allocates nothing.
LEMMA LinkKeepsBill ==
    ASSUME BillInv, NEW c \in Conns, NEW l, NEW r, LinkStep(c, l, r),
           UNCHANGED <<Counters, value, counted, reportVars, mpc, mu>>,
           Counter' \in Conns \cup {NoCounter},
           DOMAIN r = {"user", "tc", "ts"}, r.ts \in Conns \cup {NoCounter},
           l \in {"load", "store", "get", "loadOrStore", "open"} => r.user \in Users,
           l \in {"get", "loadOrStore"} => r.tc \in Conns,
           l = "open" <=> r.ts \in Conns, r.ts = NoCounter \/ UsedBy(r.ts, r.user),
           linkPc[c] \in Opened => l \in Opened
    PROVE  BillInv'
<1>1. TrafficShape'
  BY TrafficNone DEF BillInv, TrafficShape, LinkStep, reportVars, billVars
<1>2. ASSUME NEW d \in Conns PROVE conn'[d].ts = NoCounter \/ UsedBy(conn'[d].ts, conn'[d].user)
  BY DEF LinkStep, UsedBy
<1>3. \A d \in Conns : linkPc[d] \in Opened => linkPc'[d] \in Opened
  BY DEF LinkStep
<1>4. ASSUME NEW u \in Users PROVE Due(u)' + Held(u)' <= Due(u) + Held(u)
  <2>1. Due(u)' = Due(u) /\ Held(u)' = Held(u) /\ Due(u) \in Nat /\ Held(u) \in Nat
    BY DueHeldNat DEF Due, Held, reportVars, billVars, BillInv
  <2> QED BY <2>1
<1> QED BY <1>1, <1>2, <1>3, <1>4, BillStands DEF reportVars, billVars

LEMMA OpenLinkKeepsBill ==
    ASSUME BillInv, NEW c \in Conns, NEW u \in Users, OpenLink(c, u)
    PROVE  BillInv'
<1> DEFINE r == [conn[c] EXCEPT !.user = u]
<1>0. linkPc[c] = "new" /\ DOMAIN conn[c] = {"user", "tc", "ts"} /\ conn[c].ts = NoCounter
  BY DEF OpenLink, BillInv, TrafficShape
<1>1. LinkStep(c, "load", r)
  BY <1>0 DEF OpenLink, Goto, LinkStep, BillInv, TrafficShape
<1>2. DOMAIN r = {"user", "tc", "ts"} /\ r.user = u /\ r.ts = NoCounter
  BY <1>0
<1>3. UNCHANGED <<Counter, Counters, value, counted, reportVars, mpc, mu>>
  BY DEF OpenLink, counterVars, monVars
<1>4. Counter' \in Conns \cup {NoCounter} /\ linkPc[c] \notin Opened
  BY <1>0, <1>3 DEF BillInv, TrafficShape, Opened
<1> HIDE DEF r
<1> QED BY <1>1, <1>2, <1>3, <1>4, TrafficNone, LinkKeepsBill

LEMMA LoadCounterKeepsBill ==
    ASSUME BillInv, NEW c \in Conns, LoadCounter(c)
    PROVE  BillInv'
<1>0. /\ linkPc[c] = "load" /\ DOMAIN conn[c] = {"user", "tc", "ts"} /\ conn[c].ts = NoCounter
      /\ conn[c].user \in Users /\ DOMAIN conn = Conns /\ Counter \in Conns \cup {NoCounter}
  BY DEF LoadCounter, BillInv, TrafficShape
<1>1. UNCHANGED <<Counter, Counters, value, counted, reportVars, mpc, mu>> /\ linkPc[c] \notin Opened
  BY <1>0 DEF LoadCounter, counterVars, monVars, Opened
<1>2. CASE Counter = NoCounter
  <2>1. LinkStep(c, "store", conn[c])
    BY <1>2 DEF LoadCounter, Goto, LinkStep, BillInv, TrafficShape
  <2> QED BY <1>0, <1>1, <2>1, TrafficNone, LinkKeepsBill
<1>3. CASE Counter # NoCounter
  <2> DEFINE r == [conn[c] EXCEPT !.tc = Counter]
  <2>1. LinkStep(c, "get", r)
    BY <1>0, <1>3 DEF LoadCounter, Goto, LinkStep, BillInv, TrafficShape
  <2>2. DOMAIN r = {"user", "tc", "ts"} /\ r.user = conn[c].user /\ r.ts = NoCounter /\ r.tc = Counter
    BY <1>0
  <2> HIDE DEF r
  <2> QED BY <1>0, <1>1, <1>3, <2>1, <2>2, TrafficNone, LinkKeepsBill
<1> QED BY <1>2, <1>3

LEMMA StoreCounterKeepsBill ==
    ASSUME BillInv, NEW c \in Conns, StoreCounter(c)
    PROVE  BillInv'
<1> DEFINE r == [conn[c] EXCEPT !.tc = c]
<1>0. /\ linkPc[c] = "store" /\ DOMAIN conn[c] = {"user", "tc", "ts"} /\ conn[c].ts = NoCounter
      /\ conn[c].user \in Users /\ DOMAIN conn = Conns
  BY DEF StoreCounter, BillInv, TrafficShape
<1>1. LinkStep(c, "get", r) /\ Counter' = c
  BY <1>0 DEF StoreCounter, Goto, LinkStep, BillInv, TrafficShape
<1>2. DOMAIN r = {"user", "tc", "ts"} /\ r.user = conn[c].user /\ r.ts = NoCounter /\ r.tc = c
  BY <1>0
<1>3. UNCHANGED <<Counters, value, counted, reportVars, mpc, mu>> /\ linkPc[c] \notin Opened
  BY <1>0 DEF StoreCounter, monVars, Opened
<1> HIDE DEF r
<1> QED BY <1>0, <1>1, <1>2, <1>3, TrafficNone, LinkKeepsBill

\* A storage that is in the counters is shared.
LEMMA SharedStorageKeepsBill ==
    ASSUME BillInv, NEW c \in Conns, linkPc[c] \in {"get", "loadOrStore"}, NEW ts,
           ts = Counters[conn[c].tc][conn[c].user], ts # NoCounter,
           conn' = [conn EXCEPT ![c].ts = ts], Goto(c, "open"),
           UNCHANGED <<counterVars, counted, reportVars, monVars>>
    PROVE  BillInv'
<1> DEFINE r == [conn[c] EXCEPT !.ts = ts]
<1>0. /\ DOMAIN conn[c] = {"user", "tc", "ts"} /\ conn[c].user \in Users /\ conn[c].tc \in Conns
      /\ DOMAIN conn = Conns /\ ts \in Conns /\ Counter \in Conns \cup {NoCounter}
  BY DEF BillInv, TrafficShape
<1>1. LinkStep(c, "open", r)
  BY <1>0 DEF Goto, LinkStep, BillInv, TrafficShape
<1>2. DOMAIN r = {"user", "tc", "ts"} /\ r.user = conn[c].user /\ r.ts = ts
  BY <1>0
<1>3. UNCHANGED <<Counter, Counters, value, counted, reportVars, mpc, mu>> /\ "open" \in Opened
  BY DEF counterVars, monVars, Opened
<1>4. UsedBy(r.ts, r.user)
  BY <1>0, <1>2 DEF UsedBy
<1> HIDE DEF r
<1> QED BY <1>0, <1>1, <1>2, <1>3, <1>4, LinkKeepsBill

LEMMA LoadStorageKeepsBill ==
    ASSUME BillInv, NEW c \in Conns, LoadStorage(c)
    PROVE  BillInv'
<1> DEFINE ts == Counters[conn[c].tc][conn[c].user]
<1>0. /\ linkPc[c] = "get" /\ UNCHANGED <<counterVars, counted, reportVars, monVars>>
  BY DEF LoadStorage
<1>1. CASE ts = NoCounter
  <2>1. LinkStep(c, "loadOrStore", conn[c])
    BY <1>1 DEF LoadStorage, Goto, LinkStep, BillInv, TrafficShape
  <2>2. /\ DOMAIN conn[c] = {"user", "tc", "ts"} /\ conn[c].user \in Users /\ conn[c].tc \in Conns
        /\ conn[c].ts = NoCounter /\ Counter \in Conns \cup {NoCounter}
    BY <1>0 DEF BillInv, TrafficShape
  <2>3. UNCHANGED <<Counter, Counters, value, counted, reportVars, mpc, mu>> /\ linkPc[c] \notin Opened
    BY <1>0 DEF counterVars, monVars, Opened
  <2> QED BY <2>1, <2>2, <2>3, TrafficNone, LinkKeepsBill
<1>2. CASE ts # NoCounter
  BY <1>0, <1>2, SharedStorageKeepsBill DEF LoadStorage
<1> QED BY <1>1, <1>2

LEMMA CloseLinkKeepsBill ==
    ASSUME BillInv, NEW c \in Conns, LinkCloses(c)
    PROVE  BillInv'
<1>1. LinkStep(c, "closed", NoLocals)
  BY DEF LinkCloses, Goto, LinkStep, BillInv, TrafficShape
<1>2. DOMAIN NoLocals = {"user", "tc", "ts"} /\ NoLocals.ts = NoCounter
  BY DEF NoLocals
<1>3. UNCHANGED <<Counter, Counters, value, counted, reportVars, mpc, mu>> /\ "closed" \in Opened
  BY DEF LinkCloses, counterVars, monVars, Opened
<1>4. Counter' \in Conns \cup {NoCounter}
  BY <1>3 DEF BillInv, TrafficShape
<1> QED BY <1>1, <1>2, <1>3, <1>4, TrafficNone, LinkKeepsBill

LEMMA LoadOrStoreStorageKeepsBill ==
    ASSUME BillInv, NEW c \in Conns, LoadOrStoreStorage(c)
    PROVE  BillInv'
<1>0. /\ linkPc[c] = "loadOrStore" /\ Goto(c, "open")
      /\ UNCHANGED <<Counter, value, counted, reportVars, monVars>>
      /\ DOMAIN conn[c] = {"user", "tc", "ts"} /\ DOMAIN conn = Conns /\ DOMAIN Counters = Conns
  BY DEF LoadOrStoreStorage, BillInv, TrafficShape
<1>1. PICK w \in Users, tc \in Conns : w = conn[c].user /\ tc = conn[c].tc
  BY <1>0 DEF BillInv, TrafficShape
<1>2. CASE Counters[tc][w] # NoCounter
  BY <1>0, <1>1, <1>2, SharedStorageKeepsBill DEF LoadOrStoreStorage, counterVars
<1>3. CASE Counters[tc][w] = NoCounter
  <2>1. /\ conn' = [conn EXCEPT ![c].ts = c]
        /\ Counters' = [Counters EXCEPT ![tc][w] = c]
    BY <1>1, <1>3 DEF LoadOrStoreStorage
  <2>2. /\ DOMAIN linkPc' = Conns /\ DOMAIN conn' = Conns /\ linkPc'[c] = "open"
        /\ DOMAIN conn'[c] = {"user", "tc", "ts"}
        /\ conn'[c].user = w /\ conn'[c].tc = tc /\ conn'[c].ts = c
        /\ \A d \in Conns \ {c} : linkPc'[d] = linkPc[d] /\ conn'[d] = conn[d]
    BY <1>0, <1>1, <2>1 DEF Goto, BillInv, TrafficShape
  <2>3. /\ DOMAIN Counters' = Conns /\ (\A t \in Conns : DOMAIN Counters'[t] = Users)
        /\ Counters'[tc][w] = c
        /\ \A t \in Conns, v \in Users : (t # tc \/ v # w) => Counters'[t][v] = Counters[t][v]
    BY <2>1 DEF BillInv, TrafficShape
  <2>4. linkPc[c] \notin Opened /\ value[c] = 0 /\ \A v \in Users : ~UsedBy(c, v)
    BY <1>0 DEF BillInv, StoragesOwned, Opened
  <2>5. TrafficShape'
    BY <1>0, <2>2, <2>3, TrafficNone DEF BillInv, TrafficShape, reportVars, billVars, monVars
  <2>6. ASSUME NEW s \in Conns, NEW v \in Users, UsedBy(s, v)'
        PROVE  (s = c /\ v = w) \/ (s # c /\ UsedBy(s, v))
    <3>1. CASE s = c
      BY <2>2, <2>3, <2>4, <2>6, <3>1 DEF UsedBy
    <3>2. CASE s # c
      BY <2>2, <2>3, <2>6, <3>2 DEF UsedBy
    <3> QED BY <3>1, <3>2
  <2>7. StoragesOwned'
    <3>1. \A d \in Conns : d # c => linkPc'[d] = linkPc[d]
      BY <2>2
    <3>2. counted[w] \in Nat /\ linkPc'[c] \in Opened
      BY <2>2 DEF BillInv, TrafficShape, Opened
    <3>3. ASSUME NEW s \in Conns, NEW v \in Users, UsedBy(s, v)'
          PROVE  /\ value'[s] <= counted'[v] /\ linkPc'[s] \in Opened
                 /\ \A x \in Users : UsedBy(s, x)' => x = v
      <4>1. CASE s = c
        BY <1>0, <2>4, <2>6, <3>2, <3>3, <4>1
      <4>2. CASE s # c
        BY <1>0, <2>6, <3>1, <3>3, <4>2 DEF BillInv, StoragesOwned
      <4> QED BY <4>1, <4>2
    <3>4. \A s \in Conns : linkPc'[s] \notin Opened => value'[s] = 0
      BY <1>0, <2>4, <3>1 DEF BillInv, StoragesOwned
    <3> QED BY <3>3, <3>4 DEF StoragesOwned
  <2>8. ASSUME NEW u \in Users PROVE Covered(u)'
    <3>1. StoragesOf(u)' \subseteq StoragesOf(u) \cup {c}
      BY <2>3 DEF StoragesOf
    <3>2. Units(StoragesOf(u))' \subseteq Units(StoragesOf(u))
      BY <1>0, <2>4, <3>1 DEF Units
    <3>3. Due(u)' = Due(u) /\ Held(u)' = Held(u) /\ billed' = billed /\ repeated' = repeated
      BY <1>0 DEF Due, Held, reportVars, billVars
    <3>4. Due(u) \in Nat /\ Held(u) \in Nat /\ billed[u] \in Nat /\ repeated[u] \in Nat
      BY DueHeldNat DEF BillInv, TrafficShape
    <3>5. billed'[u] + Due(u)' + Held(u)' + repeated[u] <= billed[u] + Due(u) + Held(u) + repeated'[u]
      BY <3>3, <3>4
    <3> QED BY <1>0, <2>5, <3>2, <3>5, CoveredStands DEF BillInv
  <2> QED BY <2>5, <2>7, <2>8 DEF BillInv
<1> QED BY <1>2, <1>3

LEMMA TransferKeepsBill ==
    ASSUME BillInv, NEW c \in Conns, Transfer(c)
    PROVE  BillInv'
<1>0. /\ linkPc[c] = "open" /\ counted[conn[c].user] < MaxBytes
      /\ UNCHANGED <<Counter, Counters, linkPc, conn, reportVars, monVars>>
  BY DEF Transfer
<1>1. PICK w \in Users, s \in Conns : w = conn[c].user /\ s = conn[c].ts
  BY <1>0 DEF BillInv, TrafficShape
<1>2. /\ DOMAIN value' = Conns /\ value'[s] = value[s] + 1
      /\ (\A k \in Conns : k # s => value'[k] = value[k])
      /\ counted' \in [Users -> Nat] /\ counted'[w] = counted[w] + 1
      /\ \A v \in Users : v # w => counted'[v] = counted[v]
      /\ value[s] \in Nat /\ counted[w] \in Nat /\ MaxBytes \in Nat
  BY <1>1, TrafficBounds DEF Transfer, BillInv, TrafficShape
<1>3. UsedBy(s, w)
  BY <1>1 DEF UsedBy
<1>4. TrafficShape'
  BY <1>0, <1>1, <1>2 DEF BillInv, TrafficShape, reportVars, billVars, monVars
<1>5. \A k \in Conns, v \in Users : UsedBy(k, v)' <=> UsedBy(k, v)
  BY <1>0 DEF UsedBy
<1>6. StoragesOwned'
  <2>1. ASSUME NEW k \in Conns, NEW v \in Users, UsedBy(k, v)'
        PROVE  /\ value'[k] <= counted'[v] /\ linkPc'[k] \in Opened
               /\ \A x \in Users : UsedBy(k, x)' => x = v
    <3>1. /\ value[k] <= counted[v] /\ linkPc[k] \in Opened
          /\ \A x \in Users : UsedBy(k, x) => x = v
      BY <1>5, <2>1 DEF BillInv, StoragesOwned
    <3>2. k = s => v = w
      BY <1>3, <3>1
    <3>3. value[k] \in Nat /\ counted[v] \in Nat
      BY DEF BillInv, TrafficShape
    <3>4. value'[k] <= counted'[v]
      BY <1>2, <3>1, <3>2, <3>3
    <3> QED BY <1>0, <1>5, <3>1, <3>4
  <2>2. ASSUME NEW k \in Conns, linkPc'[k] \notin Opened PROVE value'[k] = 0
    <3>1. k # s
      BY <1>0, <1>3, <2>2 DEF BillInv, StoragesOwned
    <3> QED BY <1>0, <1>2, <2>2, <3>1 DEF BillInv, StoragesOwned
  <2> QED BY <2>1, <2>2 DEF StoragesOwned
<1>7. ASSUME NEW u \in Users PROVE Covered(u)'
  <2>1. Due(u)' = Due(u) /\ Held(u)' = Held(u) /\ billed' = billed /\ repeated' = repeated
    BY <1>0 DEF Due, Held, reportVars, billVars
  <2>2. Due(u) \in Nat /\ Held(u) \in Nat /\ billed[u] \in Nat /\ repeated[u] \in Nat /\ counted[u] \in Nat
    BY DueHeldNat DEF BillInv, TrafficShape
  <2>3. StoragesOf(u)' = StoragesOf(u)
    BY <1>0 DEF StoragesOf
  <2>4. PICK ss \in SUBSET Conns : ss = StoragesOf(u) /\ \A k \in ss : UsedBy(k, u)
    BY StoragesAreConns DEF BillInv
  <2>5. Amount(ss) \in Nat
    BY UnitsFinite
  <2>6. CASE u = w
    <3>1. Units(ss)' \subseteq Units(ss) \cup {<<s, value[s] + 1>>}
      <4> SUFFICES ASSUME NEW k \in ss, NEW n \in 1 .. MaxBytes, n <= value'[k],
                          <<k, n>> # <<s, value[s] + 1>>
                   PROVE  n <= value[k]
        BY DEF Units
      <4>1. value[k] \in Nat
        BY DEF BillInv, TrafficShape
      <4> QED BY <1>2, <4>1
    <3>2. Amount(ss)' \in Nat /\ Amount(ss)' <= Amount(ss) + 1
      BY <3>1, AmountGrows
    <3>3. Amount(StoragesOf(u))' = Amount(ss)'
      BY <2>3, <2>4 DEF Amount, Units
    <3> QED BY <1>2, <2>1, <2>2, <2>4, <2>5, <2>6, <3>2, <3>3 DEF BillInv, Covered
  <2>7. CASE u # w
    <3>1. s \notin ss
      BY <1>3, <2>4, <2>7 DEF BillInv, StoragesOwned
    <3>2. Units(StoragesOf(u))' \subseteq Units(StoragesOf(u))
      BY <1>2, <2>3, <2>4, <3>1 DEF Units
    <3>3. counted'[u] = counted[u]
      BY <1>2, <2>7
    <3>4. billed'[u] + Due(u)' + Held(u)' + repeated[u] <= billed[u] + Due(u) + Held(u) + repeated'[u]
      BY <2>1, <2>2
    <3> QED BY <1>4, <3>2, <3>3, <3>4, CoveredStands DEF BillInv
  <2> QED BY <2>6, <2>7
<1> QED BY <1>4, <1>6, <1>7 DEF BillInv

-----------------------------------------------------------------------------
(* The report task and the monitor.                                         *)

\* An entry leaves the counters; a connection may still count in its storage.
LEMMA DroppedEntryKeepsBill ==
    ASSUME BillInv, TrafficShape', NEW t \in Conns, NEW w \in Users,
           Counters' = [Counters EXCEPT ![t][w] = NoCounter],
           UNCHANGED <<value, connVars, billed, repeated>>,
           \A u \in Users : Due(u)' + Held(u)' <= Due(u) + Held(u)
    PROVE  BillInv'
<1>1. /\ Counters'[t][w] = NoCounter
      /\ \A k \in Conns, u \in Users : (k # t \/ u # w) => Counters'[k][u] = Counters[k][u]
  BY DEF BillInv, TrafficShape
<1>2. ASSUME NEW s \in Conns, NEW u \in Users, UsedBy(s, u)' PROVE UsedBy(s, u)
  BY <1>1, <1>2, TrafficNone DEF UsedBy, connVars
<1>3. StoragesOwned'
  BY <1>2, OwnedStands DEF BillInv, connVars
<1>4. ASSUME NEW u \in Users PROVE Covered(u)'
  <2>1. StoragesOf(u)' \subseteq StoragesOf(u)
    BY <1>1 DEF StoragesOf
  <2>2. Due(u) \in Nat /\ Held(u) \in Nat /\ Due(u)' \in Nat /\ Held(u)' \in Nat
    BY DueHeldNat, SumsOfNext DEF BillInv, Sums
  <2>3. billed[u] \in Nat /\ repeated[u] \in Nat
    BY DEF BillInv, TrafficShape
  <2>4. billed'[u] + Due(u)' + Held(u)' + repeated[u] <= billed[u] + Due(u) + Held(u) + repeated'[u]
    BY <2>2, <2>3
  <2> QED BY <2>1, <2>4, FewerUnits, CoveredStands DEF BillInv, connVars
<1> QED BY <1>3, <1>4 DEF BillInv

\* Steps of the two tasks that only move amounts on, or drop them.
LEMMA TaskKeepsBill ==
    ASSUME BillInv, TrafficShape', UNCHANGED <<Counters, value, connVars, billed, repeated>>,
           \A u \in Users : Due(u)' + Held(u)' <= Due(u) + Held(u)
    PROVE  BillInv'
<1>1. UNCHANGED <<linkPc, conn, counted>>
  BY DEF connVars
<1>2. ASSUME NEW c \in Conns PROVE conn'[c].ts = NoCounter \/ UsedBy(conn'[c].ts, conn'[c].user)
  <2>1. conn[c].ts = NoCounter \/ linkPc[c] = "open"
    BY DEF BillInv, TrafficShape
  <2> QED BY <1>1, <2>1 DEF UsedBy
<1> QED BY <1>1, <1>2, BillStands

LEMMA GetUserTrafficSliceKeepsBill ==
    ASSUME BillInv, GetUserTrafficSlice
    PROVE  BillInv'
<1>1. TrafficShape'
  BY DEF BillInv, TrafficShape, GetUserTrafficSlice, counterVars, connVars, billVars, monVars
<1>2. ASSUME NEW u \in Users PROVE Due(u)' + Held(u)' <= Due(u) + Held(u)
  <2>1. Due(u)' = Due(u) /\ Held(u)' = 0 /\ Held(u) = 0
    BY DEF GetUserTrafficSlice, Due, Held, billVars
  <2>2. Due(u) \in Nat
    BY DueHeldNat DEF BillInv
  <2> QED BY <2>1, <2>2
<1> QED BY <1>1, <1>2, TaskKeepsBill DEF GetUserTrafficSlice, counterVars, billVars

LEMMA SwapStorageKeepsBill ==
    ASSUME BillInv, NEW w \in Users, SwapStorage(w)
    PROVE  BillInv'
<1>0. /\ rpc = "range" /\ rc \in Conns
      /\ UNCHANGED <<Counter, Counters, connVars, rc, slice, billVars, monVars>>
  BY DEF SwapStorage, BillInv, TrafficShape
<1>1. CASE Counters[rc][w] = NoCounter
  <2>1. UNCHANGED <<rpc, ru, amount, value>>
    BY <1>1 DEF SwapStorage
  <2>2. TrafficShape'
    BY <1>0, <2>1 DEF BillInv, TrafficShape, connVars, billVars, monVars
  <2>3. ASSUME NEW u \in Users PROVE Due(u)' + Held(u)' <= Due(u) + Held(u)
    <3>1. Due(u)' = Due(u) /\ Held(u)' = Held(u) /\ Due(u) \in Nat /\ Held(u) \in Nat
      BY <1>0, <2>1, DueHeldNat DEF BillInv, Due, Held, billVars
    <3> QED BY <3>1
  <2> QED BY <1>0, <2>1, <2>2, <2>3, TaskKeepsBill DEF billVars
<1>2. CASE Counters[rc][w] # NoCounter
  <2>1. PICK s \in Conns : s = Counters[rc][w] /\ UsedBy(s, w)
    BY <1>0, <1>2 DEF BillInv, TrafficShape, UsedBy
  <2>2. PICK n \in 0 .. MaxBytes : n = value[s]
    <3>1. value[s] \in Nat /\ value[s] <= counted[w] /\ counted[w] \in Nat /\ counted[w] <= MaxBytes
      BY <2>1 DEF BillInv, TrafficShape, StoragesOwned
    <3> QED BY <3>1, TrafficBounds
  <2>3. /\ rpc' = "judge" /\ ru' = w /\ amount' = n /\ value' = [value EXCEPT ![s] = 0]
        /\ n \in Nat
    BY <1>2, <2>1, <2>2 DEF SwapStorage
  <2>4. /\ DOMAIN value = Conns /\ DOMAIN value' = Conns /\ value'[s] = 0
        /\ \A k \in Conns : value[k] \in Nat /\ (k # s => value'[k] = value[k])
    BY <2>3 DEF BillInv, TrafficShape
  <2>5. TrafficShape'
    BY <1>0, <2>3, <2>4 DEF BillInv, TrafficShape, connVars, billVars, monVars
  <2>6. StoragesOwned'
    <3>1. \A k \in Conns, v \in Users : UsedBy(k, v)' <=> UsedBy(k, v)
      BY <1>0 DEF UsedBy, connVars
    <3>2. UNCHANGED <<linkPc, counted>> /\ \A v \in Users : counted[v] \in Nat
      BY <1>0 DEF connVars, BillInv, TrafficShape
    <3>3. ASSUME NEW k \in Conns, NEW v \in Users, UsedBy(k, v)'
          PROVE  /\ value'[k] <= counted'[v] /\ linkPc'[k] \in Opened
                 /\ \A x \in Users : UsedBy(k, x)' => x = v
      <4>1. /\ value[k] <= counted[v] /\ linkPc[k] \in Opened
            /\ \A x \in Users : UsedBy(k, x) => x = v
        BY <3>1, <3>3 DEF BillInv, StoragesOwned
      <4> QED BY <2>4, <3>1, <3>2, <4>1
    <3>4. \A k \in Conns : linkPc'[k] \notin Opened => value'[k] = 0
      BY <2>4, <3>2 DEF BillInv, StoragesOwned
    <3> QED BY <3>3, <3>4 DEF StoragesOwned
  <2>7. ASSUME NEW u \in Users PROVE Covered(u)'
    <3>1. /\ Due(u)' = Due(u) /\ billed' = billed /\ repeated' = repeated /\ counted' = counted
          /\ Held(u) = 0 /\ Held(u)' = IF u = w THEN n ELSE 0
      BY <1>0, <2>3 DEF Due, Held, billVars, connVars
    <3>2. Due(u) \in Nat /\ billed[u] \in Nat /\ repeated[u] \in Nat /\ counted[u] \in Nat
      BY DueHeldNat DEF BillInv, TrafficShape
    <3>3. StoragesOf(u)' = StoragesOf(u)
      BY <1>0 DEF StoragesOf
    <3>4. PICK ss \in SUBSET Conns : ss = StoragesOf(u) /\ \A k \in ss : UsedBy(k, u)
      BY StoragesAreConns DEF BillInv
    <3>5. Amount(ss) \in Nat
      BY UnitsFinite
    <3>6. CASE u = w
      <4>1. s \in ss
        BY <1>0, <2>1, <3>4, <3>6, TrafficNone DEF StoragesOf
      <4>2. Amount(ss)' \in Nat /\ Amount(ss)' + n <= Amount(ss)
        BY <2>2, <2>3, <2>4, <4>1, AmountTaken
      <4>3. Amount(StoragesOf(u))' = Amount(ss)'
        BY <3>3, <3>4 DEF Amount, Units
      <4> QED BY <2>3, <3>1, <3>2, <3>4, <3>5, <3>6, <4>2, <4>3 DEF BillInv, Covered
    <3>7. CASE u # w
      <4>1. s \notin ss
        BY <2>1, <3>4, <3>7 DEF BillInv, StoragesOwned
      <4>2. Units(StoragesOf(u))' \subseteq Units(StoragesOf(u))
        BY <2>4, <3>3, <3>4, <4>1 DEF Units
      <4>3. billed'[u] + Due(u)' + Held(u)' + repeated[u] <= billed[u] + Due(u) + Held(u) + repeated'[u]
        BY <3>1, <3>2, <3>7
      <4> QED BY <2>5, <3>1, <4>2, <4>3, CoveredStands DEF BillInv
    <3> QED BY <3>6, <3>7
  <2> QED BY <2>5, <2>6, <2>7 DEF BillInv
<1> QED BY <1>1, <1>2

LEMMA JudgeKeepsBill ==
    ASSUME BillInv, Judge
    PROVE  BillInv'
<1>0. /\ rpc = "judge" /\ ru \in Users /\ amount \in Nat /\ slice \in [Users -> Nat]
      /\ UNCHANGED <<counterVars, connVars, rc, uncollected, ru, amount, billVars, monVars>>
  BY DEF Judge, BillInv, TrafficShape
<1>1. /\ rpc' \in {"range", "prune"} /\ slice' \in [Users -> Nat]
      /\ slice' = slice \/ (rpc' = "range" /\ slice' = [slice EXCEPT ![ru] = amount])
  BY <1>0 DEF Judge
<1>2. TrafficShape'
  BY <1>0, <1>1 DEF BillInv, TrafficShape, counterVars, connVars, billVars, monVars
<1>3. ASSUME NEW u \in Users PROVE Due(u)' + Held(u)' <= Due(u) + Held(u)
  <2>1. slice[u] \in Nat /\ slice'[u] \in Nat /\ received' = received
    BY <1>0, <1>1 DEF billVars
  <2>2. slice'[u] = slice[u] \/ (rpc' = "range" /\ u = ru /\ slice'[u] = amount)
    BY <1>0, <1>1
  <2> QED BY <1>0, <1>1, <2>1, <2>2 DEF Due, Held
<1> QED BY <1>0, <1>2, <1>3, TaskKeepsBill DEF counterVars, billVars

LEMMA PruneCounterKeepsBill ==
    ASSUME BillInv, PruneCounter
    PROVE  BillInv'
<1>0. /\ rpc = "prune" /\ rpc' = "range" /\ rc \in Conns /\ ru \in Users
      /\ Counters' = [Counters EXCEPT ![rc][ru] = NoCounter]
      /\ UNCHANGED <<Counter, value, connVars, rc, ru, amount, slice, billVars, monVars>>
  BY DEF PruneCounter, BillInv, TrafficShape
<1>1. /\ DOMAIN Counters' = Conns /\ (\A t \in Conns : DOMAIN Counters'[t] = Users)
      /\ \A t \in Conns, u \in Users : Counters'[t][u] \in Conns \cup {NoCounter}
  BY <1>0 DEF BillInv, TrafficShape
<1>2. TrafficShape'
  BY <1>0, <1>1 DEF BillInv, TrafficShape, connVars, billVars, monVars
<1>3. ASSUME NEW u \in Users PROVE Due(u)' + Held(u)' <= Due(u) + Held(u)
  <2>1. Due(u)' = Due(u) /\ Held(u)' = 0
    BY <1>0 DEF Due, Held, billVars
  <2>2. Due(u) \in Nat /\ Held(u) \in Nat
    BY DueHeldNat DEF BillInv
  <2> QED BY <2>1, <2>2
<1> QED BY <1>0, <1>2, <1>3, DroppedEntryKeepsBill DEF billVars

LEMMA SliceReadyKeepsBill ==
    ASSUME BillInv, SliceReady
    PROVE  BillInv'
<1>1. TrafficShape'
  BY DEF BillInv, TrafficShape, SliceReady, counterVars, connVars, billVars, monVars
<1>2. ASSUME NEW u \in Users PROVE Due(u)' + Held(u)' <= Due(u) + Held(u)
  <2>1. Due(u)' = Due(u) /\ Held(u)' = 0 /\ Held(u) = 0
    BY DEF SliceReady, Due, Held, billVars
  <2>2. Due(u) \in Nat
    BY DueHeldNat DEF BillInv
  <2> QED BY <2>1, <2>2
<1> QED BY <1>1, <1>2, TaskKeepsBill DEF SliceReady, counterVars, billVars

\* A push, or one more try of it: what arrives is billed and no longer due, and what
\* arrives a second time is counted as repeated.
LEMMA ReportUserTrafficKeepsBill ==
    ASSUME BillInv, ReportUserTraffic
    PROVE  BillInv'
<1>0. /\ rpc = "send" /\ UNCHANGED <<counterVars, connVars, monVars>>
      /\ slice \in [Users -> Nat] /\ billed \in [Users -> Nat] /\ repeated \in [Users -> Nat]
  BY DEF ReportUserTraffic, BillInv, TrafficShape
<1>1. PICK arrives \in BOOLEAN :
        /\ billed' = [u \in Users |-> billed[u] + IF arrives THEN slice[u] ELSE 0]
        /\ repeated' = [u \in Users |-> repeated[u] + IF arrives /\ received THEN slice[u] ELSE 0]
        /\ PushDone \/ PushRetried(arrives)
  BY DEF ReportUserTraffic
<1>2. billed' \in [Users -> Nat] /\ repeated' \in [Users -> Nat]
  BY <1>0, <1>1
<1>3. /\ rpc' \in {"idle", "send"} /\ amount' \in Nat /\ slice' \in [Users -> Nat]
  BY <1>0, <1>1 DEF PushDone, PushRetried, NoSlice, BillInv, TrafficShape
<1>4. TrafficShape'
  BY <1>0, <1>2, <1>3 DEF BillInv, TrafficShape, counterVars, connVars, monVars
<1>5. UNCHANGED <<Counter, Counters, value, linkPc, conn, counted>>
  BY <1>0 DEF counterVars, connVars
<1>6. StoragesOwned'
  <2>1. \A s \in Conns, u \in Users : UsedBy(s, u)' => UsedBy(s, u)
    BY <1>5 DEF UsedBy
  <2> QED BY <1>5, <2>1, OwnedStands DEF BillInv
<1>7. ASSUME NEW u \in Users PROVE Covered(u)'
  <2>1. Held(u) = 0 /\ Held(u)' = 0
    BY <1>0, <1>3 DEF Held
  <2>2. slice[u] \in Nat /\ billed[u] \in Nat /\ repeated[u] \in Nat
    BY <1>0
  <2>3. /\ billed'[u] = billed[u] + IF arrives THEN slice[u] ELSE 0
        /\ repeated'[u] = repeated[u] + IF arrives /\ received THEN slice[u] ELSE 0
    BY <1>1
  <2>4. Due(u)' = IF arrives \/ received THEN 0 ELSE Due(u)'
    BY <1>1 DEF PushDone, PushRetried, NoSlice, Due
  <2>5. Due(u)' = 0 \/ Due(u)' = slice[u]
    BY <1>1 DEF PushDone, PushRetried, NoSlice, Due
  <2>6. Due(u) = IF received THEN 0 ELSE slice[u]
    BY DEF Due
  <2>7. billed'[u] + Due(u)' + Held(u)' + repeated[u] <= billed[u] + Due(u) + Held(u) + repeated'[u]
    <3>1. CASE arrives /\ received
      BY <2>1, <2>2, <2>3, <2>4, <2>6, <3>1
    <3>2. CASE arrives /\ ~received
      BY <2>1, <2>2, <2>3, <2>4, <2>6, <3>2
    <3>3. CASE ~arrives /\ received
      BY <2>1, <2>2, <2>3, <2>4, <2>6, <3>3
    <3>4. CASE ~arrives /\ ~received
      BY <2>1, <2>2, <2>3, <2>5, <2>6, <3>4
    <3> QED BY <3>1, <3>2, <3>3, <3>4
  <2>8. StoragesOf(u)' \subseteq StoragesOf(u)
    BY <1>5 DEF StoragesOf
  <2> QED BY <1>4, <1>5, <2>7, <2>8, FewerUnits, CoveredStands DEF BillInv
<1> QED BY <1>4, <1>6, <1>7 DEF BillInv

\* The monitor bills nothing and counts nothing.
LEMMA MonitorKeepsBill ==
    ASSUME BillInv, UNCHANGED <<value, connVars, reportVars>>,
           Counter' \in Conns \cup {NoCounter}, mpc' = "counter" => mu' \in Users,
           \/ UNCHANGED Counters
           \/ \E t \in Conns, w \in Users : Counters' = [Counters EXCEPT ![t][w] = NoCounter]
    PROVE  BillInv'
<1>1. /\ DOMAIN Counters' = Conns /\ (\A t \in Conns : DOMAIN Counters'[t] = Users)
      /\ \A t \in Conns, u \in Users : Counters'[t][u] \in Conns \cup {NoCounter}
  BY DEF BillInv, TrafficShape
<1>2. UNCHANGED <<value, linkPc, conn, counted, rpc, rc, ru, amount, slice, billed, repeated, received>>
  BY DEF connVars, reportVars, billVars
<1>3. TrafficShape'
  BY <1>1, <1>2 DEF BillInv, TrafficShape
<1>4. ASSUME NEW u \in Users PROVE Due(u)' + Held(u)' <= Due(u) + Held(u)
  <2>1. Due(u)' = Due(u) /\ Held(u)' = Held(u) /\ Due(u) \in Nat /\ Held(u) \in Nat
    BY <1>2, DueHeldNat DEF Due, Held, BillInv
  <2> QED BY <2>1
<1>5. CASE UNCHANGED Counters
  BY <1>2, <1>3, <1>4, <1>5, TaskKeepsBill DEF connVars
<1>6. ASSUME NEW t \in Conns, NEW w \in Users, Counters' = [Counters EXCEPT ![t][w] = NoCounter]
      PROVE  BillInv'
  BY <1>2, <1>3, <1>4, <1>6, DroppedEntryKeepsBill DEF connVars
<1> QED BY <1>5, <1>6

LEMMA UserChangeKeepsBill ==
    ASSUME BillInv, NEW u \in Users, AddUsers(u) \/ DelUsers(u)
    PROVE  BillInv'
<1>1. UNCHANGED <<Counter, Counters, value, connVars, reportVars>>
  BY DEF AddUsers, DelUsers, counterVars
<1>2. mpc' = "counter" => mu' \in Users
  BY DEF AddUsers, DelUsers, BillInv, TrafficShape
<1>3. Counter' \in Conns \cup {NoCounter}
  BY <1>1 DEF BillInv, TrafficShape
<1> QED BY <1>1, <1>2, <1>3, MonitorKeepsBill

LEMMA DelUserCounterKeepsBill ==
    ASSUME BillInv, DelUserCounter
    PROVE  BillInv'
<1>1. UNCHANGED <<Counter, value, connVars, reportVars>> /\ mpc' = "idle"
  BY DEF DelUserCounter
<1>2. Counter \in Conns \cup {NoCounter} /\ mu \in Users
  BY DEF DelUserCounter, BillInv, TrafficShape
<1>3. \/ UNCHANGED Counters
      \/ \E t \in Conns, w \in Users : Counters' = [Counters EXCEPT ![t][w] = NoCounter]
  <2>1. CASE Counter = NoCounter
    BY <2>1 DEF DelUserCounter
  <2>2. CASE Counter # NoCounter
    <3>1. Counter \in Conns /\ Counters' = [Counters EXCEPT ![Counter][mu] = NoCounter]
      BY <1>2, <2>2 DEF DelUserCounter
    <3> QED BY <1>2, <3>1
  <2> QED BY <2>1, <2>2
<1> QED BY <1>1, <1>2, <1>3, MonitorKeepsBill

LEMMA cleanupNodeStateKeepsBill ==
    ASSUME BillInv, cleanupNodeState
    PROVE  BillInv'
<1>1. UNCHANGED <<Counters, value, connVars, reportVars, mpc, mu>> /\ Counter' = NoCounter
  BY DEF cleanupNodeState
<1>2. mpc' = "counter" => mu' \in Users
  BY <1>1 DEF BillInv, TrafficShape
<1> QED BY <1>1, <1>2, MonitorKeepsBill

LEMMA BillStep ==
    ASSUME BillInv, [TrafficNext]_trafficVars
    PROVE  BillInv'
<1>1. ASSUME NEW c \in Conns, NEW u \in Users, OpenLink(c, u) PROVE BillInv'
  BY <1>1, OpenLinkKeepsBill
<1>2. ASSUME NEW c \in Conns, getLink(c) PROVE BillInv'
  BY <1>2, LoadCounterKeepsBill, StoreCounterKeepsBill, LoadStorageKeepsBill,
     LoadOrStoreStorageKeepsBill DEF getLink
<1>3. ASSUME NEW c \in Conns, Transfer(c) \/ LinkCloses(c) PROVE BillInv'
  BY <1>3, TransferKeepsBill, CloseLinkKeepsBill
<1>4. CASE reportUserTrafficTask
  BY <1>4, GetUserTrafficSliceKeepsBill, SwapStorageKeepsBill, JudgeKeepsBill, PruneCounterKeepsBill,
     SliceReadyKeepsBill, ReportUserTrafficKeepsBill DEF reportUserTrafficTask
<1>5. ASSUME NEW u \in Users, AddUsers(u) \/ DelUsers(u) PROVE BillInv'
  BY <1>5, UserChangeKeepsBill
<1>6. CASE DelUserCounter \/ cleanupNodeState
  BY <1>6, DelUserCounterKeepsBill, cleanupNodeStateKeepsBill
<1>7. CASE UNCHANGED trafficVars
  <2>1. UNCHANGED <<Counter, Counters, value, connVars, reportVars, mpc, mu>>
    BY <1>7 DEF trafficVars, counterVars, monVars
  <2>2. Counter' \in Conns \cup {NoCounter} /\ (mpc' = "counter" => mu' \in Users)
    BY <2>1 DEF BillInv, TrafficShape
  <2> QED BY <2>1, <2>2, MonitorKeepsBill
<1> QED BY <1>1, <1>2, <1>3, <1>4, <1>5, <1>6, <1>7 DEF TrafficNext

\* Nothing is billed that was not transferred, and nothing twice but by a retry, in any
\* interleaving of counting, collecting, pruning, removing users, rebuilding the node
\* and pushing again (TrafficStorage's counters and GetUserTrafficSlice's Swap).
THEOREM NothingIsOverBilled == TrafficSpec => []NeverOverBilled
<1>1. BillInv => NeverOverBilled
  BY DEF BillInv, Covered, Held, Due, NeverOverBilled
<1> QED BY <1>1, BillInit, BillStep, PTL DEF TrafficSpec

-----------------------------------------------------------------------------
(* Panel: the answer a call decodes.                                        *)

\* An answer was made during the call, from what the panel had then.
AnswerInv ==
    /\ version \in Nat /\ since \in Nat /\ since <= version
    /\ answer # NoAnswer =>
          answer.version \in Nat /\ since <= answer.version /\ answer.version <= version
    /\ exchange = "answered" => answer # NoAnswer

LEMMA AnswerInit == PanelInit => AnswerInv
<1>1. PanelInit => version = 1 /\ since = 0 /\ answer = NoAnswer /\ exchange = "no"
  BY DEF PanelInit
<1> QED BY <1>1 DEF AnswerInv

\* A call that returns takes its answer with it.
LEMMA ReturnKeepsAnswer ==
    ASSUME AnswerInv, NEW result, Return(result)
    PROVE  AnswerInv'
BY DEF AnswerInv, Return

LEMMA AttemptFailsKeepsAnswer ==
    ASSUME AnswerInv, AttemptFails
    PROVE  AnswerInv'
<1>1. CASE Return(Failure)
  BY <1>1, ReturnKeepsAnswer
<1>2. CASE ~Return(Failure)
  BY <1>2 DEF AttemptFails, AnswerInv
<1> QED BY <1>1, <1>2

LEMMA AnswerStep ==
    ASSUME AnswerInv, [PanelNext]_panelVars
    PROVE  AnswerInv'
<1>1. ASSUME NEW kind, StartCycle(kind) PROVE AnswerInv'
  BY <1>1 DEF StartCycle, AnswerInv
<1>2. CASE Send
  BY <1>2 DEF Send, AnswerInv
<1>3. CASE AttemptFails
  BY <1>3, AttemptFailsKeepsAnswer
<1>4. CASE Backoff
  <2>1. CASE Return(Failure)
    BY <2>1, ReturnKeepsAnswer
  <2>2. CASE ~Return(Failure)
    BY <1>4, <2>2 DEF Backoff, AnswerInv
  <2> QED BY <2>1, <2>2
<1>5. CASE Answered
  BY <1>5 DEF Answered, AnswerInv
<1>6. CASE Decode
  BY <1>6, ReturnKeepsAnswer DEF Decode
<1>7. CASE PanelChanges
  <2>1. UNCHANGED <<exchange, answer, since>> /\ version' = version + 1
    BY <1>7 DEF PanelChanges, exchangeVars
  <2> QED BY <2>1 DEF AnswerInv
<1>8. CASE PanelTick
  BY <1>8 DEF PanelTick, AnswerInv
<1>9. ASSUME NEW body \in Bodies, PanelAnswers(body) PROVE AnswerInv'
  <2>1. /\ exchange = "flight" /\ UNCHANGED <<exchange, version, since>>
        /\ answer' = [body |-> body, version |-> version]
    BY <1>9 DEF PanelAnswers
  <2>2. answer'.version = version
    BY <2>1
  <2> QED BY <2>1, <2>2 DEF AnswerInv
<1>10. CASE UNCHANGED panelVars
  BY <1>10 DEF panelVars, exchangeVars, AnswerInv
<1> QED BY <1>1, <1>2, <1>3, <1>4, <1>5, <1>6, <1>7, <1>8, <1>9, <1>10
        DEF PanelNext, ClientStep, TimesOut

\* What a call may take for a configuration or a list of users.
Applies(r) ==
    r.ok /\ r.call \in {"GetNodeInfo", "GetUserList"} =>
        \/ r.value >= since /\ r.value <= version /\ answer.body = "whole"
        \/ r.value = 0 /\ nodeType # "" /\ r.call = "GetNodeInfo" /\ answer.body = "error"

LEMMA FailureApplies == Applies(Failure)
BY DEF Applies, Failure, GetUserAlive, Returned

LEMMA ResultApplies ==
    ASSUME AnswerInv, answer # NoAnswer
    PROVE  Applies(Result(answer))
<1>1. since <= answer.version /\ answer.version <= version /\ answer.version \in Nat /\ since \in Nat
  BY DEF AnswerInv
<1>2. CASE Current = "GetNodeInfo"
  <2>1. CASE nodeType = ""
    BY <1>1, <1>2, <2>1 DEF Applies, Result, GetNodeInfo, getNodeInfoV2, Returned
  <2>2. CASE nodeType # ""
    BY <1>1, <1>2, <2>2 DEF Applies, Result, GetNodeInfo, getNodeInfoUniProxy, Returned
  <2> QED BY <2>1, <2>2
<1>3. CASE Current = "GetUserList"
  BY <1>1, <1>3 DEF Applies, Result, GetUserList, Returned
<1>4. CASE Current = "GetUserAlive"
  BY <1>4 DEF Applies, Result, GetUserAlive, Returned
<1>5. CASE Current \notin {"GetNodeInfo", "GetUserList", "GetUserAlive"}
  BY <1>5 DEF Applies, Result, Report, Returned
<1> QED BY <1>2, <1>3, <1>4, <1>5

LEMMA ReturnsApply ==
    ASSUME AnswerInv, [PanelNext]_panelVars
    PROVE  returned' = returned \/ Applies(returned')
<1>1. CASE Return(Failure)
  BY <1>1, FailureApplies DEF Return
<1>2. CASE Decode
  <2>1. answer # NoAnswer /\ returned' = Result(answer)
    BY <1>2 DEF Decode, Return, AnswerInv
  <2> QED BY <2>1, ResultApplies
<1>3. CASE ~Return(Failure) /\ ~Decode
  BY <1>3 DEF PanelNext, ClientStep, TimesOut, StartCycle, Send, AttemptFails, Backoff, Answered,
     PanelChanges, PanelTick, PanelAnswers, panelVars
<1> QED BY <1>1, <1>2, <1>3

\* A configuration or a user list that a call returns came whole from the panel during
\* the call, whatever was lost, delayed, cut or retried (Client.GetNodeInfo and
\* Client.GetUserList); the one exception is the empty configuration that
\* getNodeInfoUniProxy makes of an error in JSON.
THEOREM AnswersAreCurrent == PanelSpec => OnlyCurrentAnswersApply
<1>1. AnswerInv /\ [PanelNext]_panelVars =>
        [LET r == returned' IN
         exchange # "no" /\ returned' # returned /\ r.ok /\ r.call \in {"GetNodeInfo", "GetUserList"} =>
            \/ r.value >= since /\ r.value <= version /\ answer.body = "whole"
            \/ r.value = 0 /\ nodeType # "" /\ r.call = "GetNodeInfo" /\ answer.body = "error"]_panelVars
  BY ReturnsApply DEF Applies
<1> QED BY <1>1, AnswerInit, AnswerStep, PTL DEF PanelSpec, OnlyCurrentAnswersApply

-----------------------------------------------------------------------------
(* Panel: how often a report is applied.                                    *)

\* The panel applies a report at most once per attempt that was sent.
AttemptInv ==
    /\ attempt \in Nat /\ applied \in Nat /\ attempt <= RetryCount + 1
    /\ exchange # "no" => attempt >= 1
    /\ exchange = "send" /\ attempt > 1 => applied < attempt
    /\ exchange = "flight" /\ answer = NoAnswer => applied < attempt
    /\ exchange \in {"flight", "backoff", "answered"} => applied <= attempt
    /\ exchange = "backoff" => attempt <= RetryCount
    /\ exchange \in {"no", "send", "flight", "backoff", "answered"}
    /\ applied <= RetryCount + 1

AppliedPerAttempt ==
    /\ exchange \in {"flight", "backoff", "answered"} => applied <= attempt
    /\ applied <= RetryCount + 1

LEMMA ReturnKeepsAttempt ==
    ASSUME AttemptInv, NEW result, Return(result)
    PROVE  AttemptInv'
<1>1. \/ exchange' = "no" /\ attempt' = 0
      \/ exchange' = "send" /\ attempt' = 1
  BY DEF Return
<1>2. applied' = applied
  BY DEF Return
<1> QED BY <1>1, <1>2, PanelAssumption DEF AttemptInv

LEMMA AttemptStep ==
    ASSUME AttemptInv, [PanelNext]_panelVars
    PROVE  AttemptInv'
<1> USE PanelAssumption DEF AttemptInv
<1>1. ASSUME NEW kind, StartCycle(kind) PROVE AttemptInv'
  BY <1>1 DEF StartCycle
<1>2. CASE Send
  BY <1>2 DEF Send
<1>3. CASE AttemptFails
  <2>1. CASE Return(Failure)
    BY <2>1, ReturnKeepsAttempt
  <2>2. CASE ~Return(Failure)
    <3>1. /\ exchange = "flight" /\ exchange' = "backoff" /\ attempt <= RetryCount
          /\ UNCHANGED <<attempt, answer, applied>>
      BY <1>3, <2>2 DEF AttemptFails, Retries
    <3> QED BY <3>1
  <2> QED BY <2>1, <2>2
<1>4. CASE Backoff
  <2>1. CASE Return(Failure)
    BY <2>1, ReturnKeepsAttempt
  <2>2. CASE ~Return(Failure)
    <3>1. /\ exchange = "backoff" /\ exchange' = "send" /\ attempt' = attempt + 1
          /\ UNCHANGED <<answer, applied>>
      BY <1>4, <2>2 DEF Backoff
    <3> QED BY <3>1
  <2> QED BY <2>1, <2>2
<1>5. CASE Answered
  BY <1>5 DEF Answered
<1>6. CASE Decode
  BY <1>6, ReturnKeepsAttempt DEF Decode
<1>7. CASE PanelChanges \/ PanelTick \/ UNCHANGED panelVars
  <2>1. UNCHANGED <<exchange, attempt, answer, applied>>
    BY <1>7 DEF PanelChanges, PanelTick, panelVars, exchangeVars
  <2> QED BY <2>1
<1>8. ASSUME NEW body \in Bodies, PanelAnswers(body) PROVE AttemptInv'
  <2>1. /\ exchange = "flight" /\ answer = NoAnswer /\ UNCHANGED <<exchange, attempt>>
        /\ applied' = applied \/ applied' = applied + 1
    BY <1>8 DEF PanelAnswers
  <2>2. answer' # NoAnswer
    <3>1. answer'.body = body /\ body # "none"
      BY <1>8 DEF PanelAnswers, Bodies
    <3>2. NoAnswer.body = "none"
      BY DEF NoAnswer
    <3> QED BY <3>1, <3>2
  <2> QED BY <2>1, <2>2
<1> QED BY <1>1, <1>2, <1>3, <1>4, <1>5, <1>6, <1>7, <1>8 DEF PanelNext, ClientStep, TimesOut

\* A report that is sent again because its answer got lost is applied by the panel at
\* most once per attempt, and so no more than RetryCount + 1 times (New's SetRetryCount),
\* however its answers are lost and whatever the panel answers.
THEOREM AppliedOncePerAttempt == PanelSpec => []AppliedPerAttempt
<1>1. PanelInit => AttemptInv
  <2>1. PanelInit => exchange = "no" /\ attempt = 0 /\ applied = 0
    BY DEF PanelInit
  <2> QED BY <2>1, PanelAssumption DEF AttemptInv
<1>2. AttemptInv => AppliedPerAttempt
  BY DEF AttemptInv, AppliedPerAttempt
<1> QED BY <1>1, <1>2, AttemptStep, PTL DEF PanelSpec
=============================================================================
