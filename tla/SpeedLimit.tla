----------------------------- MODULE SpeedLimit -----------------------------
(***************************************************************************)
(* The speed side of a node's limiter (limiter/limiter.go, common/rate):   *)
(* CheckLimit hands every connection a token bucket, at best the one the   *)
(* user's other connections have; the monitor's UpdateUser changes limits  *)
(* and buckets; applyAutoSpeedLimit of the report task throttles users.    *)
(* They share two sync.Maps and no lock: one step is one map operation.    *)
(***************************************************************************)
EXTENDS LimiterNames, Naturals, FiniteSets, FiniteSetsExt

CONSTANTS
    Speeds,         \* limits the panel sends, 0 meaning none
    NodeLimit,      \* the node's own limit
    LimitSpeed, LimitDuration, WarnTimes,   \* AutoSpeedLimitConfig
    MaxTime, MaxChanges

ASSUME SpeedAssumption ==
    /\ Speeds \subseteq Nat /\ 0 \in Speeds
    /\ {NodeLimit, LimitSpeed, LimitDuration, WarnTimes, MaxTime, MaxChanges} \subseteq Nat

VARIABLES
    info,           \* UserLimitInfo
    SpeedLimiter,   \* user -> bucket, or None
    rate,           \* DynamicBucket.v: the rate of each bucket
    stage, held,       \* CheckLimit of each connection, then what it holds
    upd,            \* UpdateUser's modified user and what it is to do next
    speedWarn,
    now, changes,
    over,           \* history: cycles in a row that a user was over the limit in
    raced,          \* history: users a limit change overtook a CheckLimit of
    split           \* history: users whose connections need not share a bucket

speedVars == <<info, SpeedLimiter, rate, stage, held, upd, speedWarn, now, changes, over, raced, split>>
marks == <<over, raced, split>>

Buckets == 1 .. Cardinality(Users) + Cardinality(Conns) + 1
LimitInfo == [speed : Speeds, dyn : {0, LimitSpeed}, expire : 0 .. MaxTime + LimitDuration]

ASSUME NoneIsNothing == None \notin Users \cup Buckets /\ None \notin LimitInfo

NoneHeld == [user |-> None, limit |-> 0, bucket |-> None]
NoUpd  == [user |-> None, limit |-> 0, at |-> "idle"]

SpeedTypeOK ==
    /\ info \in [Users -> LimitInfo \cup {None}]
    /\ SpeedLimiter \in [Users -> Buckets \cup {None}]
    /\ rate \in [Buckets -> Nat]
    /\ stage \in [Conns -> {"none", "load", "store", "open"}]
    /\ held \in [Conns -> [user : Users \cup {None}, limit : Nat, bucket : Buckets \cup {None}]]
    /\ upd \in [user : Users \cup {None}, limit : Nat, at : {"idle", "load", "store"}]
    /\ speedWarn \in [Users -> 0 .. WarnTimes] /\ over \in [Users -> Nat]
    /\ now \in 0 .. MaxTime /\ changes \in 0 .. MaxChanges
    /\ raced \subseteq Users /\ split \subseteq Users

\* The smaller one of two limits, 0 meaning none.
determineSpeedLimit(a, b) == IF a = 0 \/ b = 0 THEN Max({a, b}) ELSE Min({a, b})

-----------------------------------------------------------------------------
(* CheckLimit, the speed part.                                              *)

Expired(i) == i.expire # 0 /\ i.expire < now

\* The user's limit; a throttle that has run out is cleared on the way.  A user
\* without entry is rejected, one without limit gets no bucket.
CheckSpeed(c, u) ==
    LET i == info[u]
        userLimit == IF Expired(i) THEN i.speed ELSE determineSpeedLimit(i.speed, i.dyn)
        limit == determineSpeedLimit(NodeLimit, userLimit) IN
    /\ stage[c] = "none" /\ i # None
    /\ info' = IF Expired(i) THEN [info EXCEPT ![u].dyn = 0, ![u].expire = 0] ELSE info
    /\ held' = [held EXCEPT ![c] = [user |-> u, limit |-> limit, bucket |-> None]]
    /\ stage' = [stage EXCEPT ![c] = IF limit > 0 THEN "load" ELSE "open"]
    /\ UNCHANGED <<SpeedLimiter, rate, upd, speedWarn, now, changes, marks>>

\* Mutant: every connection gets a bucket of its own.
LoadBucketNever(c) ==
    /\ stage[c] = "load"
    /\ stage' = [stage EXCEPT ![c] = "store"]
    /\ UNCHANGED <<info, SpeedLimiter, rate, held, upd, speedWarn, now, changes, marks>>

LoadBucket(c) ==
    LET u == held[c].user IN
    /\ stage[c] = "load"
    /\ IF SpeedLimiter[u] # None
       THEN /\ held' = [held EXCEPT ![c].bucket = SpeedLimiter[u]]
            /\ stage' = [stage EXCEPT ![c] = "open"]
            /\ UNCHANGED split
       ELSE /\ stage' = [stage EXCEPT ![c] = "store"]
            /\ split' = IF \/ upd.user = u /\ upd.at = "store"
                           \/ \E d \in Conns : stage[d] = "store" /\ held[d].user = u
                        THEN split \cup {u} ELSE split
            /\ UNCHANGED held
    /\ UNCHANGED <<info, SpeedLimiter, rate, upd, speedWarn, now, changes, over, raced>>

Unused == Buckets \ ({SpeedLimiter[v] : v \in Users} \cup {held[c].bucket : c \in Conns})

\* NewDynamicBucket; an object nobody refers to any more is used again.
NewBucket(u, limit) ==
    \E b \in Unused :
        /\ \A k \in Unused : b <= k
        /\ rate' = [rate EXCEPT ![b] = limit]
        /\ SpeedLimiter' = [SpeedLimiter EXCEPT ![u] = b]

StoreBucket(c) ==
    /\ stage[c] = "store"
    /\ NewBucket(held[c].user, held[c].limit)
    /\ held' = [held EXCEPT ![c].bucket = SpeedLimiter'[held[c].user]]
    /\ stage' = [stage EXCEPT ![c] = "open"]
    /\ UNCHANGED <<info, upd, speedWarn, now, changes, marks>>

Release(c) ==
    /\ stage[c] = "open"
    /\ stage' = [stage EXCEPT ![c] = "none"]
    /\ held' = [held EXCEPT ![c] = NoneHeld]
    /\ UNCHANGED <<info, SpeedLimiter, rate, upd, speedWarn, now, changes, marks>>

-----------------------------------------------------------------------------
(* UpdateUser, with one user at a time.                                     *)

BeingLimited(u) == \E c \in Conns : stage[c] \in {"load", "store"} /\ held[c].user = u
Holders(u)  == \E c \in Conns : held[c].user = u
Mark(S, u, b) == IF b THEN S \cup {u} ELSE S \ {u}

Change == upd = NoUpd /\ changes < MaxChanges /\ changes' = changes + 1

SpeedUserDeleted(u) ==
    /\ Change /\ info[u] # None
    /\ info' = [info EXCEPT ![u] = None]
    /\ SpeedLimiter' = [SpeedLimiter EXCEPT ![u] = None]
    /\ raced' = Mark(raced, u, BeingLimited(u))
    /\ split' = Mark(split, u, Holders(u))
    /\ UNCHANGED <<rate, stage, held, upd, speedWarn, now, over>>

SpeedUserAdded(u, s) ==
    /\ Change /\ info[u] = None
    /\ info' = [info EXCEPT ![u] = [speed |-> s, dyn |-> 0, expire |-> 0]]
    /\ UNCHANGED <<SpeedLimiter, rate, stage, held, upd, speedWarn, now, marks>>

\* A modified user: the entry is changed in place, the throttle kept ...
SpeedUserModified(u, s) ==
    LET limit == determineSpeedLimit(NodeLimit, s) IN
    /\ Change /\ info[u] # None /\ info[u].speed # s
    /\ info' = [info EXCEPT ![u].speed = s]
    /\ upd' = [user |-> u, limit |-> limit, at |-> "load"]
    /\ raced' = Mark(raced, u, BeingLimited(u))
    /\ UNCHANGED <<SpeedLimiter, rate, stage, held, speedWarn, now, over, split>>

\* ... then the bucket it has is given the new rate, or dropped.
UpdateUserBucket ==
    LET u == upd.user
        b == SpeedLimiter[u] IN
    /\ upd.at = "load"
    /\ \/ /\ upd.limit = 0
          /\ SpeedLimiter' = [SpeedLimiter EXCEPT ![u] = None]
          /\ split' = Mark(split, u, Holders(u))
          /\ upd' = NoUpd
          /\ UNCHANGED rate
       \/ /\ upd.limit > 0 /\ b # None
          /\ rate' = [rate EXCEPT ![b] = upd.limit]
          /\ upd' = NoUpd
          /\ UNCHANGED <<SpeedLimiter, split>>
       \/ /\ upd.limit > 0 /\ b = None
          /\ upd' = [upd EXCEPT !.at = "store"]
          /\ split' = split \cup {v \in {u} : BeingLimited(v)}
          /\ UNCHANGED <<SpeedLimiter, rate>>
    /\ UNCHANGED <<info, stage, held, speedWarn, now, changes, over, raced>>

UpdateUserStore ==
    /\ upd.at = "store"
    /\ NewBucket(upd.user, upd.limit)
    /\ upd' = NoUpd
    /\ UNCHANGED <<info, stage, held, speedWarn, now, changes, marks>>

-----------------------------------------------------------------------------
(* The report task.                                                         *)

\* One cycle: the report's traffic has the users in high, over the limit, and those in low.
\* Users that are idle or below the reporting minimum are not in it, and their warnings
\* stay.  SetDynamicSpeedLimitByUID changes the entry only: no bucket is touched.
applyAutoSpeedLimit(high, low) ==
    LET throttled == {u \in high : speedWarn[u] + 1 >= WarnTimes} IN
    /\ speedWarn' = [u \in Users |-> IF u \in high \ throttled THEN speedWarn[u] + 1
                                     ELSE IF u \in throttled \cup low THEN 0 ELSE speedWarn[u]]
    /\ info' = [u \in Users |-> IF u \in throttled /\ info[u] # None
                                THEN [info[u] EXCEPT !.dyn = LimitSpeed, !.expire = now + LimitDuration]
                                ELSE info[u]]
    /\ over' = [u \in Users |-> IF u \in high \ throttled THEN over[u] + 1 ELSE 0]
    /\ UNCHANGED <<SpeedLimiter, rate, stage, held, upd, now, changes, raced, split>>

Tick ==
    /\ now < MaxTime /\ now' = now + 1
    /\ UNCHANGED <<info, SpeedLimiter, rate, stage, held, upd, speedWarn, changes, marks>>

SpeedInit ==
    /\ info \in [Users -> [speed : Speeds, dyn : {0}, expire : {0}]]
    /\ SpeedLimiter = [u \in Users |-> None]
    /\ rate = [b \in Buckets |-> 0]
    /\ stage = [c \in Conns |-> "none"]
    /\ held = [c \in Conns |-> NoneHeld]
    /\ upd = NoUpd
    /\ speedWarn = [u \in Users |-> 0] /\ over = [u \in Users |-> 0]
    /\ now = 0 /\ changes = 0
    /\ raced = {} /\ split = {}

SpeedNext ==
    \/ \E c \in Conns : \/ \E u \in Users : CheckSpeed(c, u)
                        \/ LoadBucket(c) \/ StoreBucket(c) \/ Release(c)
    \/ \E u \in Users : \/ SpeedUserDeleted(u)
                        \/ \E s \in Speeds : SpeedUserAdded(u, s) \/ SpeedUserModified(u, s)
    \/ \E high \in SUBSET Users : \E low \in SUBSET (Users \ high) : applyAutoSpeedLimit(high, low)
    \/ UpdateUserBucket \/ UpdateUserStore
    \/ Tick

SpeedSpec == SpeedInit /\ [][SpeedNext]_speedVars

-----------------------------------------------------------------------------
(* Properties.                                                              *)

Settled(u) == info[u] # None /\ upd.user # u

\* A limited connection is never faster than the panel's and the node's limits as they
\* are now, whatever throttles came and went: all connections of a user draw on the
\* bucket that UpdateUser reaches.  Not so if the change of the limit overtook a
\* CheckLimit, if two first connections missed the map at once, or if the entry was
\* dropped under them.
HeldWithinLimit ==
    \A c \in Conns :
        LET u == held[c].user IN
        stage[c] = "open" /\ held[c].bucket # None /\ Settled(u) /\ u \notin raced \cup split =>
            LET limit == determineSpeedLimit(NodeLimit, info[u].speed) IN
            limit > 0 => rate[held[c].bucket] <= limit

\* A user is throttled only when it was over the limit in WarnTimes cycles in a row.
\* (node/user.go: applyAutoSpeedLimit throttles users over the limit "for WarnTimes
\* consecutive cycles"; "warns must be consecutive")
ThrottledAfterConsecutive ==
    [][\A u \in Users :
         info[u] # None /\ info'[u] # None /\ info[u].expire < info'[u].expire =>
             over[u] + 1 >= WarnTimes]_speedVars

\* A connection whose CheckLimit found its user throttled is not faster than the
\* throttle.  (limiter.go: SetDynamicSpeedLimitByUID "throttles a user (by UID) to
\* limit Mbps until expire")
ThrottleInForce ==
    \A c \in Conns :
        stage[c] = "open" /\ held[c].limit \in 1 .. LimitSpeed => rate[held[c].bucket] <= LimitSpeed
=============================================================================
