------------------------------- MODULE Front -------------------------------
(***************************************************************************)
(* Shadowsocks nodes behind a front: AddNode reserves a loopback port,     *)
(* binds the Xray inbound to it and starts the front on the public port (a *)
(* supervised sing-box process for shadow-tls, a listener of its own for   *)
(* simple-obfs), rolling back on failure; DelNode takes both down.  Calls  *)
(* for one tag come from its controller one after the other, except that a *)
(* cycle the watchdog abandoned may still be in one.                       *)
(***************************************************************************)
EXTENDS Naturals, FiniteSets

CONSTANTS
    Tags, ShadowTLS,    \* nodes with a front; those of them with shadow-tls
    Ports,              \* loopback ports
    Adders,             \* goroutines that call AddNode and DelNode
    Instances,          \* instance and front objects
    NoOne,
    MaxFrontCalls, MaxExits     \* calls, process exits, faults

ASSUME FrontAssumption ==
    /\ ShadowTLS \subseteq Tags /\ NoOne \notin Tags \cup Ports \cup Instances
    /\ MaxFrontCalls \in Nat /\ MaxExits \in Nat

VARIABLES
    reserved,       \* Manager.ports: port -> tag
    bound,          \* the kernel: port -> node whose inbound listens there
    inbound,        \* Xray's inbound handler of a tag: its port, listening or not
    front,          \* Manager.insts or fronts: tag -> object
    object,         \* instance or front: its tag, port, state of the supervisor or listener
    file,           \* the sing-box configuration file of a tag: "none", "cut" short, "whole"
    adder,          \* per caller: operation, tag, next step, port, the object being stopped
    crossed,        \* history: tags with two calls under way at a time
    panicked,       \* history: tags whose AddNode has panicked
    frontCalls, exits

nodeVars  == <<reserved, bound, inbound>>
objVars   == <<front, object, file>>
frontVars == <<nodeVars, objVars, adder, crossed, panicked, frontCalls, exits>>

NoAdder  == [op |-> "none", tag |-> NoOne, at |-> "", port |-> NoOne, obj |-> NoOne]
NoObject == [tag |-> NoOne, port |-> NoOne, state |-> "unused", stopping |-> FALSE]

FrontTypeOK ==
    /\ reserved \in [Ports -> Tags \cup {NoOne}] /\ bound \in [Ports -> Tags \cup {NoOne}]
    /\ inbound \in [Tags -> Ports \cup {NoOne}]
    /\ front \in [Tags -> Instances \cup {NoOne}]
    /\ object \in [Instances -> [tag : Tags \cup {NoOne}, port : Ports \cup {NoOne}, stopping : BOOLEAN,
           state : {"unused", "spawn", "running", "backoff", "listening", "exited"}]]
    /\ file \in [Tags -> {"none", "cut", "whole"}] /\ crossed \subseteq Tags /\ panicked \subseteq Tags
    /\ \A c \in Adders :
         /\ adder[c].at \in {"", "alloc", "build", "bind", "write", "replace", "register",
                             "stop", "wait", "remove", "unbind"}
         /\ adder[c].at \in {"wait", "remove"} => adder[c].obj \in Instances

-----------------------------------------------------------------------------
(* Helpers.                                                                 *)

Busy(t) == \E c \in Adders : adder[c].tag = t
To(c, next) == adder' = [adder EXCEPT ![c].at = next]
Done(c) == adder' = [adder EXCEPT ![c] = NoAdder]
Kept == UNCHANGED <<crossed, frontCalls>>

Release(t) == reserved' = [p \in Ports |-> IF reserved[p] = t THEN NoOne ELSE reserved[p]]

removeInbound(t) ==
    /\ inbound' = [inbound EXCEPT ![t] = NoOne]
    /\ bound' = [p \in Ports |-> IF bound[p] = t THEN NoOne ELSE bound[p]]

\* An object nobody refers to any more is used again.
FreeObject(o) ==
    /\ object[o].state \in {"unused", "exited"}
    /\ \A t \in Tags : front[t] # o
    /\ \A c \in Adders : adder[c].obj # o

Faulty == exits < MaxExits /\ exits' = exits + 1

-----------------------------------------------------------------------------
(* AddNode.                                                                 *)

\* A controller deletes its node before it adds it again.
Begin(c, op, t, first) ==
    /\ adder[c] = NoAdder /\ frontCalls < MaxFrontCalls
    /\ adder' = [adder EXCEPT ![c] = [NoAdder EXCEPT !.op = op, !.tag = t, !.at = first]]
    /\ crossed' = IF Busy(t) THEN crossed \cup {t} ELSE crossed
    /\ frontCalls' = frontCalls + 1
    /\ UNCHANGED <<nodeVars, objVars, panicked, exits>>

AddNode(c, t) == (inbound[t] = NoOne \/ Busy(t)) /\ Begin(c, "add", t, "alloc")

\* The probe listener is closed before the port is used: a port that is reserved and
\* not bound yet may be given out again.
AllocPort(c, p) ==
    /\ adder[c].at = "alloc" /\ bound[p] = NoOne
    /\ reserved' = [reserved EXCEPT ![p] = adder[c].tag]
    /\ adder' = [adder EXCEPT ![c].port = p, ![c].at = "build"]
    /\ Kept /\ UNCHANGED <<bound, inbound, objVars, panicked, exits>>

AllocFails(c) ==
    /\ adder[c].at = "alloc" /\ \A p \in Ports : bound[p] # NoOne
    /\ Done(c)
    /\ Kept /\ UNCHANGED <<nodeVars, objVars, panicked, exits>>

\* buildInbound fails, or panics and is recovered, which releases nothing.
BuildFails(c) ==
    /\ adder[c].at = "build" /\ Faulty
    /\ \/ Release(adder[c].tag) /\ UNCHANGED panicked
       \/ panicked' = panicked \cup {adder[c].tag} /\ UNCHANGED reserved
    /\ Done(c)
    /\ Kept /\ UNCHANGED <<bound, inbound, objVars>>

Build(c) ==
    /\ adder[c].at = "build"
    /\ To(c, "bind")
    /\ Kept /\ UNCHANGED <<nodeVars, objVars, panicked, exits>>

\* There is a handler with this tag, or the port has been taken meanwhile: AddHandler
\* registers the handler before it starts it, and nobody removes it again.
addInboundFails(c) ==
    LET t == adder[c].tag IN
    /\ adder[c].at = "bind"
    /\ \/ inbound[t] # NoOne /\ UNCHANGED inbound
       \/ /\ inbound[t] = NoOne /\ bound[adder[c].port] # NoOne
          /\ inbound' = [inbound EXCEPT ![t] = adder[c].port]
    /\ Release(t)
    /\ Done(c)
    /\ Kept /\ UNCHANGED <<bound, objVars, panicked, exits>>

addInbound(c) ==
    /\ adder[c].at = "bind"
    /\ inbound[adder[c].tag] = NoOne /\ bound[adder[c].port] = NoOne
    /\ inbound' = [inbound EXCEPT ![adder[c].tag] = adder[c].port]
    /\ bound' = [bound EXCEPT ![adder[c].port] = adder[c].tag]
    /\ To(c, IF adder[c].tag \in ShadowTLS THEN "write" ELSE "register")
    /\ Kept /\ UNCHANGED <<reserved, objVars, panicked, exits>>

\* Mutant: the loopback inbound stays when its front cannot start.
StartFailsBound(c) ==
    /\ \/ adder[c].at = "write"
       \/ adder[c].at = "register" /\ adder[c].tag \notin ShadowTLS
    /\ Faulty
    /\ Release(adder[c].tag)
    /\ Done(c)
    /\ Kept /\ UNCHANGED <<bound, inbound, objVars, panicked>>

\* No binary, an invalid configuration, a file that cannot be written, or not to its
\* end; the public port of an obfs front is taken: the loopback inbound is rolled back,
\* the file is left as it is.
StartFails(c) ==
    LET t == adder[c].tag IN
    /\ \/ adder[c].at = "write" /\ file' \in {file, [file EXCEPT ![t] = "cut"]}
       \/ adder[c].at = "register" /\ t \notin ShadowTLS /\ UNCHANGED file
    /\ Faulty
    /\ removeInbound(t)
    /\ Release(t)
    /\ Done(c)
    /\ Kept /\ UNCHANGED <<front, object, panicked>>

WriteFile(c) ==
    /\ adder[c].at = "write"
    /\ file' = [file EXCEPT ![adder[c].tag] = "whole"]
    /\ To(c, "stop")
    /\ Kept /\ UNCHANGED <<nodeVars, front, object, panicked, exits>>

\* The new instance or front is registered with its port.  obfs' Start closes an old
\* front of the tag here.
Register(c) ==
    LET t == adder[c].tag IN
    /\ adder[c].at = "register"
    /\ \E o \in Instances : FreeObject(o)
    /\ LET o == CHOOSE o \in Instances : FreeObject(o) IN
         /\ object' = [q \in Instances |->
               IF q = o THEN [tag |-> t, port |-> adder[c].port, stopping |-> FALSE,
                              state |-> IF t \in ShadowTLS THEN "spawn" ELSE "listening"]
               ELSE IF q = front[t] /\ t \notin ShadowTLS
               THEN [object[q] EXCEPT !.stopping = TRUE] ELSE object[q]]
         /\ front' = [front EXCEPT ![t] = o]
    /\ reserved' = [reserved EXCEPT ![adder[c].port] = t]
    /\ Done(c)
    /\ Kept /\ UNCHANGED <<bound, inbound, file, panicked, exits>>

-----------------------------------------------------------------------------
(* Stop, of either manager: from StartOrReload, and from DelNode.           *)

DelNode(c, t) == Begin(c, "del", t, "stop")

AfterStop(c) == IF adder[c].op = "add" THEN "register" ELSE "unbind"

StopLookup(c) ==
    LET t == adder[c].tag
        o == front[t] IN
    /\ adder[c].at = "stop"
    /\ front' = [front EXCEPT ![t] = NoOne]
    /\ Release(t)
    /\ IF o = NoOne
       THEN To(c, AfterStop(c)) /\ UNCHANGED object
       ELSE /\ object' = [object EXCEPT ![o].stopping = TRUE]
            /\ adder' = [adder EXCEPT ![c].obj = o,
                            ![c].at = IF t \in ShadowTLS THEN "wait" ELSE AfterStop(c)]
    /\ Kept /\ UNCHANGED <<bound, inbound, file, panicked, exits>>

\* The supervisor has ended, or has not within stopGrace.
StopWait(c) ==
    /\ adder[c].at = "wait"
    /\ To(c, "remove")
    /\ Kept /\ UNCHANGED <<nodeVars, objVars, panicked, exits>>

StopRemove(c) ==
    /\ adder[c].at = "remove"
    /\ file' = [file EXCEPT ![adder[c].tag] = "none"]
    /\ To(c, AfterStop(c))
    /\ Kept /\ UNCHANGED <<nodeVars, front, object, panicked, exits>>

DelInbound(c) ==
    /\ adder[c].at = "unbind"
    /\ removeInbound(adder[c].tag)
    /\ Done(c)
    /\ Kept /\ UNCHANGED <<reserved, objVars, panicked, exits>>

-----------------------------------------------------------------------------
(* supervise, one goroutine per instance, and obfs' acceptLoop.             *)

ObjectStep(o, next) ==
    /\ object' = [object EXCEPT ![o].state = next]
    /\ UNCHANGED <<nodeVars, front, file, adder, crossed, panicked, frontCalls>>

\* sing-box without its configuration file, or with half of it, exits at once.
Spawn(o) ==
    /\ object[o].state = "spawn" /\ ~object[o].stopping
    /\ ObjectStep(o, IF file[object[o].tag] = "whole" THEN "running" ELSE "backoff")
    /\ UNCHANGED exits

ProcessExits(o) == object[o].state = "running" /\ Faulty /\ ObjectStep(o, "backoff")

\* Mutant: the supervisor gives up after an exit.
BackoffEnds(o) == object[o].state = "backoff" /\ ObjectStep(o, "exited") /\ UNCHANGED exits

BackoffOver(o) ==
    /\ object[o].state = "backoff" /\ ~object[o].stopping
    /\ ObjectStep(o, "spawn")
    /\ UNCHANGED exits

\* The cancelled context kills the process and ends the loop; a closed listener ends
\* obfs' loop.
Terminate(o) ==
    /\ object[o].state \in {"spawn", "running", "backoff", "listening"} /\ object[o].stopping
    /\ ObjectStep(o, "exited")
    /\ UNCHANGED exits

-----------------------------------------------------------------------------

FrontInit ==
    /\ reserved = [p \in Ports |-> NoOne] /\ bound = [p \in Ports |-> NoOne]
    /\ inbound = [t \in Tags |-> NoOne] /\ front = [t \in Tags |-> NoOne]
    /\ object = [o \in Instances |-> NoObject] /\ file = [t \in Tags |-> "none"]
    /\ adder = [c \in Adders |-> NoAdder]
    /\ crossed = {} /\ panicked = {} /\ frontCalls = 0 /\ exits = 0

CallStep(c) ==
    \/ AllocFails(c) \/ \E p \in Ports : AllocPort(c, p)
    \/ BuildFails(c) \/ Build(c) \/ addInboundFails(c) \/ addInbound(c) \/ StartFails(c)
    \/ WriteFile(c) \/ Register(c) \/ StopLookup(c) \/ StopWait(c) \/ StopRemove(c) \/ DelInbound(c)

SuperviseStep(o) == Spawn(o) \/ BackoffOver(o) \/ Terminate(o)

FrontNext ==
    \/ \E c \in Adders : CallStep(c) \/ \E t \in Tags : AddNode(c, t) \/ DelNode(c, t)
    \/ \E o \in Instances : SuperviseStep(o) \/ ProcessExits(o)

FrontFairness ==
    /\ \A c \in Adders : WF_frontVars(CallStep(c))
    /\ \A o \in Instances : WF_frontVars(SuperviseStep(o))

FrontSpec == FrontInit /\ [][FrontNext]_frontVars /\ FrontFairness

-----------------------------------------------------------------------------
(* Properties.                                                              *)

Quiet(t) == ~Busy(t) /\ t \notin crossed

\* Between calls a node with a front is up as a whole or serves nothing, whatever failed
\* on the way and whoever was given the same port: a front relays to the inbound of its
\* own node, which listens, and has its whole configuration file; without one nothing
\* listens for the node, and it has no reservation but what a panic in AddNode has left.
\* What a failed AddNode may leave is a file cut short and a handler that does not listen.
FrontReachesItsInbound ==
    \A t \in Tags : Quiet(t) =>
        /\ t \in ShadowTLS => (front[t] # NoOne <=> file[t] = "whole")
        /\ IF front[t] = NoOne
           THEN \A p \in Ports : bound[p] # t /\ (t \in panicked \/ reserved[p] # t)
           ELSE inbound[t] = object[front[t]].port /\ bound[inbound[t]] = t

\* When calls and exits stop, every call has returned, what was stopped is gone, and a
\* front that is registered with its file runs, however often it has exited.
FrontSettles ==
    <>[](/\ \A c \in Adders : adder[c] = NoAdder
         /\ \A o \in Instances : object[o].stopping => object[o].state = "exited"
         /\ \A t \in Tags : front[t] # NoOne /\ (t \in ShadowTLS => file[t] = "whole") =>
               object[front[t]].state \in {"running", "listening"})
=============================================================================
