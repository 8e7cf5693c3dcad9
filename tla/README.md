# TLA+ verification of v2node

v2node is a proxy-node daemon: it asks a v2board panel which nodes it has to
run and for whom, runs them on an embedded Xray core (or on protocol runners of
its own), limits devices and speed per user, and reports traffic and online
devices back. This directory holds TLA+ models of its control logic, the TLC
configurations that check them on small instances, and TLAPS proofs.

    tlc -workers 2 -config NodeSync_safety.cfg MCNodeSync     # one run
    tlapm NodeSync_proofs.tla                                 # the proofs of a module

PROJECT.json lists the components, the runs, the mutants that show each
property can fail, the source lines behind every definition, the hazards and the
theorems.

## 1. Inventory

| Component | State | Operations | Why it is hard |
|---|---|---|---|
| node controller (`node/controller.go`, `task.go`, `user.go`) | `c.info`, `c.userList`, `c.limiter`, `reconcileCounter`, `portFailCount`, `speedWarn` | `Start`, `nodeInfoMonitor` (rebuild, user diff, reconcile, listener check), `reportUserTrafficTask`, `Close`, `CloseForReload` | a cycle makes up to a dozen calls that can fail, returns early after each, and mirrors one truth in five places without a lock |
| core operations (`core/node.go`, `core/user.go`) | Xray's inbound manager and user managers, `uidMap`, traffic counters | `AddNode`, `DelNode`, `AddUsers`, `DelUsers`, `GetUserTrafficSlice` | partial effects on failure; `uidMap` is filled before the handler |
| limiter (`limiter/`) | global map tag -> `Limiter`; per limiter `UserLimitInfo`, `UserOnlineIP`, `OldUserOnline`, `AliveList`, `SpeedLimiter` | `AddLimiter`, `DeleteLimiter`, `UpdateUser`, `UpdateAliveList`, `CheckLimit`, `GetOnlineDevice`, `SetDynamicSpeedLimitByUID` | every connection, the report task and the monitor task work on the same maps, one `sync.Map` operation at a time |
| periodic task (`common/task`) | `Running`, `Stop`, `Done`, one goroutine per execution | `Start`, `runOnce`, `Close` | hung executions, deadline against late end, concurrent closers |
| process and reload (`cmd/server.go`, `node/node.go`, `core/core.go`, `conf/watch.go`) | `*nodes`, `*v2core`, `reloadCh`, debounce of the watcher | boot, `Watch`, `reload`, `Close` | failures in each phase of a reload, connections that outlive inbounds, signals that are dropped |
| dispatcher (`core/app/dispatcher`) | `Counter` and `CamouflageEngines` per tag | `getLink`, `Dispatch` | runs in every connection's goroutine |
| traffic counters (`common/counter`) | atomic counters per user | `GetCounter`, `Delete` | swap and report are two steps |
| protocol runners (`common/mieru`, `snell`, `ssaead`, `ssr`, `sudoku`, `trojanss`) | tag -> runner; listener, users, the service's own user table | `Add`, `Del`, `AddUsers`, `DelUsers`, `Close`, the accept loops | two locks taken one after the other, lazy listeners, two user tables |
| sniffing (`core/app/dispatcher/sniffer.go`, `countreader.go`) | the bytes read ahead, the deadline | `sniffer`, `Cache`, `Sniff`, `shouldOverride` | reads that outlive their timeout; counted where they are read |
| fronts (`common/singbox`, `common/obfs`) | child process or listener per tag, its file, reserved ports | `AllocPort`, `StartOrReload`, `supervise`, `Stop` | supervision, port reuse, rollback in `AddNode` |
| relays (`common/snirouter`, `common/obfs`, the bridge of `common/mieru`) | a session's two connections, copiers and idle timer | accept, peek, dial, replay, copy, time out | two copiers and a timer end each other |
| shadowflow (`common/shadowflow`) | an engine per tag with its switcher, the tag's configuration | build, shape, switch, close | built by links, closed by the monitor, changed by a goroutine |
| panel client (`api/v2board`) | the ETag of the user list, NodeType | `GetNodeInfo`, `GetUserList`, `GetUserAlive`, `Report*` | lost, cut and late answers; three nested timeouts |
| configuration (`conf`) | the file | `LoadFromPath`, `Effective*`, `Watch` | resolution order |
| certificates (`node/cert.go`, `lego.go`) | certificate, key and account on disk; credentials in the environment | `requestCert`, `renewCertTask` | two files per certificate, crashes, one environment for all nodes |
| memory tuning, utilities, commands, wire formats, generated and vendored code | none, or none of interest | | |

How they interact: the main goroutine (`serverHandle`) owns the controllers and
the core. Each controller starts two `Task`s, the monitor and the report, and
from their goroutines calls the panel, the core and its limiter. Xray and the
runners call the dispatcher from each connection's goroutine; the dispatcher
looks the limiter up in the global map by tag, asks `CheckLimit`, and counts.
The file watcher signals the main goroutine through a channel of capacity one.

What makes each correct:

* controller: list, limiter, `uidMap`, handler and `c.info` agree through every
  partial failure; the node settles on the panel's data; an empty answer does
  not disconnect everybody;
* limiter: no refused device is reported as online or let in later, no accepted
  one is refused;
* task: the loop goes on whatever an execution does, `Close` ends it, once;
* reload: no inbound and no surviving connection without limiter, the last
  accepted edit is read, a reload without failure repairs whatever earlier ones
  left behind;
* traffic: nothing is billed twice, and what is counted is billed in the end;
* speed: one bucket per user within the limits, throttled for being over the
  limit in consecutive cycles;
* runners: nobody who was removed is let in, no listener without an owner;
* dispatcher and relays: every byte once and in order, billed once; no
  connection held for good, none cut while it is in use;
* fronts: a front reaches its own node's inbound and comes back when it exits;
  no port, process or file is left behind;
* shadowflow: no goroutine left behind, an engine of the node's configuration, a
  write's bytes in order;
* panel client: what is applied is a whole, current answer; no cycle hangs;
* certificates: a matching pair, the configured one, issued with the node's credentials.

## 2. Modules

### NodeSync: one controller and the core it drives

`userList`, `info`, `reconcileCounter` and `portFailCount` are the fields of
`Controller`; `limInfo` is `UserLimitInfo` of its limiter; `handler`, `regUsers`
and `uidMap` are what the core holds for the tag; `panel` is what the panel would
answer now. A user list is a function from users to a limit or `None`. A
configuration has a port, a `key` standing for the other fields
`nodeNeedsRebuild` compares, and an `aux` for those it does not.

A cycle of `nodeInfoMonitor` is cut where it blocks and at each call into the
core: `GetNodeInfo`, `RebuildDelNode`, `RebuildAddNode`, `RebuildReAddUsers`,
`GetUserList`, `Sync`, `SyncDelUsers`, `SyncAddUsers`, `SyncCommit`, `Reconcile`,
`PortCheck`, `PortDelNode`, `PortAddNode`, `PortReAddUsers`. `Cycles` is the set of
goroutines that may be in it: one normally, two when the watchdog has given up
on the first. A call into the core (`AddNode`, `DelNode`, `AddUsers`, `DelUsers`)
is one atomic step with a success form and a failure form (`...Ok`, `...Err`);
what it leaves behind when it fails is part of the form. `core/user.go` takes no
lock while it stores `uidMap` and registers user by user (lines 244-348), so this is
exact only while nobody else is in the core for that tag: the runs and the
theorems about users are about one cycle. `Lazy` selects a
protocol with its own runner, which binds its port with the first users and whose
`AddUsers` can fail in `Listen`. `Keyless` are users without a key, whom sudoku's
runner skips: it binds nothing for them alone. A panel that answers "unchanged" is not
distinguished from one that repeats its data: the code behaves the same.

Failures are kinds in `Faults`, at most `MaxFaults` per behaviour: `api` (a panel
call fails), `unregistered` (AddNode fails and leaves nothing), `dead` (AddNode
fails and leaves a handler without listener), `skip` (the user manager refuses a
user), `listen` (a runner cannot bind), `die` (a listener goes away), `probe`
(the bind probe fails with an error that counts as bound).

### DeviceLimit and SpeedLimit: the two halves of a limiter

DeviceLimit has `CheckLimit`'s device part, `GetOnlineDevice`, `UpdateUser` and
`UpdateAliveList` on `UserOnlineIP`, `OldUserOnline` and `AliveList`. One step is one
`sync.Map` operation. The address sets are heap objects named by `MapIds`, since a
connection may hold one that has left `UserOnlineIP`; an object nobody refers to
is reused. The deletion of a user in `UpdateUser` is one step although it is several
map operations, and so are the loads and Ranges of a report that look at one user. In
behaviours with `overlap = FALSE` reports and deletions do not run
while a `CheckLimit` is in progress. `accepted`, `current` and `previous` are history
variables that no action reads. The map swap `l.OldUserOnline = newOld` is an
unsynchronised pointer write; it is one atomic step, as it is on the platforms
the program is built for. The rejection of a user without `UserLimitInfo` entry
changes nothing and is the absence of a `CheckLimit` step.

SpeedLimit has the speed part: the buckets of `SpeedLimiter` and what each
connection holds of them, `UpdateUser`'s change of a limit in two steps, and
`applyAutoSpeedLimit` with `speedWarn`, `SetDynamicSpeedLimitByUID` and its expiry.
Time is a bounded counter. The history variables `split` and `raced` mark the users
for whom two steps of the code overtook each other; `over` counts the cycles in a row
in which a user was over the limit, and starts again in a cycle whose slice does not have
the user. LimiterNames declares what the halves share.

### Task: the periodic task

The loop goroutine, one slot per `Execute` goroutine that can be alive at the
same time, the watchdog `Deadline`, and callers of `Close`. `cancelled` holds the
executions that were given up on.

### Reload: the process

`reload` (boot and reload share it), one action per phase, the controllers' `Start`
interleaved per node, the limiter map's keys, the watcher with its debounce
(`recent`) and its 5 second sleep (`sleeping`), and connections per tag. `inb` and
`newInb` are the inbounds of the serving and of the starting core; `leaked` are
inbounds of a core that a failed reload left running without a reference. A
controller's progress says how far `Start` got, in particular whether it had set
`c.tag` when it failed. That a leaked inbound makes the `AddNode` of its port fail is an
assumption: the socket options are the library's. A `Watch` that fails at boot ends the
process like the other errors there (`Exit`).

### Traffic: accounting

The dispatcher's per-tag `Counter`, the `TrafficCounter` and `TrafficStorage` objects
(named after the connection that allocated them, since connections keep using
objects that left the maps), the report task's collection, and the monitor's
`DelUsers`, `AddUsers` and rebuild. `getLink` and `DispatchLink` attach counters in the
same way and share the actions. `counted`, `billed` and `excused` are history
variables: what was transferred, what the panel received, and users whose traffic
the code drops on purpose (below the minimum, removed, rebuilt). The sum of the
amounts in a set of storages (`Amount`) is the number of units in them, a cardinality,
so that proofs can use the library's facts about finite sets instead of an induction.

Reports can be lost on the way or on the way back: `received` says the panel has the
push that is being tried again, `repeated` what it then billed once more.

### Panel: the calls of a cycle

The monitor's and the report's calls in their order, each an exchange with attempts,
an attempt timeout, resty's retries and the deadline of the call, over a network that
loses requests and answers. The panel's data has a version; an answer is whole, cut,
an error in JSON or somebody else's page. `returned` is what the controller gets.

### Cert: certificates

The nodes of a process with their `c.info`, the mutex `certMu`, the environment
`dnsEnv`, an issue and a renewal per node that may be under way, and the disk: a
certificate and a key per node, written one after the other, and the ACME account's
file. A write empties the file and then fills it (`OpenCert`, `writeCert`, `OpenKey`,
`writeKey`): one that fails or that a crash interrupts leaves the file `Cut`. The DNS
variables `DnsKeys` are set one by one and never unset; every node sets the same ones,
what a variable of another provider left behind would do is lego's affair. Certificates are named by who made them and a number. `CertMonitor` is the part of
`nodeInfoMonitor` that concerns certificates. That a provider takes the credentials from
the environment when it is constructed, and that a key that does not match is no error
of `AddNode` (the inbound then has no certificate), is the libraries' behaviour. `rotated`,
`rebuilt`, `torn` and `crossed` are history variables for the exceptions the code has.

### Runner and LazyListener: protocols Xray does not speak

Runner is one manager and its runners, for each of the seven variants (`proto`): a call
looks the runner up under the manager's lock (`call` holds it) and uses it under the
runner's. `users` is the runner's list, `svc` the table of the service behind it,
`Accepts` the one that decides. Connections are accepted, identified and relayed.

LazyListener is what NodeSync relies on for such a node: users, who holds the port, who
is let in. `ImplementsLazyListener` says that Runner implements it, with `bound` the
runners whose listener is open and `accepted` what `Accepts` gives.

### Dispatch, Relay, Front and Camouflage: what carries a connection

Dispatch follows one link through `Dispatch` (a pipe) or `DispatchLink` (the inbound's
reader behind a `CounterReader`): admission, content sniffing on cached bytes with
attempts and a deadline, override of the target, routing, and the outbound's reads. What
a sniffer and the router answer is a choice. The core installs no FakeDNS
(core/core.go:196-205), so its sniffer and what depends on it are not there.

Relay is one session of one of the three relays, with its handler, two copiers and the
idle timer; peers send, end, or stop reading. The timer fires in one step and closes the
two connections in another, between which a copier may still read and write.

Front is `AddNode` and `DelNode` of nodes behind shadow-tls or simple-obfs step by step:
reservation, inbound, file, process or listener, rollback, `Stop`, and the supervisor
with its backoff. `bound` is the kernel's port table. A failed write of the file leaves
it cut short, a failed bind leaves a handler that does not listen, and the rollback of
`AddNode` removes neither.

Camouflage is the engine a shadowflow link gets (Load, build, Store), its switcher,
`cleanupNodeState` and the rebuild around them, and the shaping of one write. Two history
variables name what can come between: `concurrent`, that a link missed the engine next to
another's miss or next to a cleanup, and `early`, that one missed it while the tag had no
configuration, which a rebuild gives rise to: `DelNode` cleans up (core/node.go:123) before
it removes the inbound (:158).

The modules describe parts of one program, and most share no variables: NodeSync
is what happens between `NodesStarted` and `CloseForReload` of one node of Reload,
Task is what calls its cycles (and why two may overlap), Panel its calls, Front and
Runner what its calls into the core do, DeviceLimit and SpeedLimit open the limiter
NodeSync keeps in line, Traffic the counters behind `uidMap`, Dispatch the link whose
bytes they count. Where parts are independent one run checks several: the MC module
has a variable `part` that names the one a behaviour is of, the others stay where they
began, and each fairness condition is that of its part (`part = "..." /\ A`).

## 3. Runs

| Run | Bounds | Shows |
|---|---|---|
| NodeSync_safety | 2 users, 2 limits, 2 ports, 2 failures of 6 kinds, 2 panel changes, reconcile every 2nd cycle | limiter, list, `uidMap`, handler and `c.info` agree after every combination of failures; no mass kick |
| NodeSync_live | 2 users, 2 keys, 2 auxes, failures `api dead die probe` | an Xray node settles on the panel's data |
| NodeSync_lazy | 3 users, 1 of them without key, 1 limit, 2 ports, failures `api listen die probe` | a node with a runner settles as well, and the runner holds its port only with users |
| NodeSync_retry (violation) | 1 failed AddNode, 1 panel change | a failed rebuild is never retried |
| Connections (MCConnections: DeviceLimit, SpeedLimit, Runner, Camouflage) | 1 user, 2 connections; 2 addresses, limits and counts up to 1, 1 update, with and without overlap; speeds 0, 2, 3, a throttle to 1 after 2 warnings, 2 changes, 2 ticks; 7 variants, 2 runners, 2 users (1 without key), 2 callers, 1 session, 5 calls, 1 failure; 2 links, 2 engines, 3 configurations, 2 profiles, a write of 4 bytes and a buffer of 2 | no refused address stays behind, no accepted device is refused without overlap, every connection is held to the limits there are now; who is identified is known, a listener without owner comes from a late `AddUsers` only, Runner implements LazyListener; engines follow the configuration, records carry the write in order |
| Speed_throttle (violation) | 1 connection, no change | a user who has a bucket is not throttled |
| Speed_consecutive (violation) | 1 connection, no change | cycles that are not consecutive throttle a user |
| Lifecycle (MCLifecycle: Reload, Cert, Task) | 2 nodes, 2 edits, 2 failures of 6 kinds; 2 TLS nodes in 3 deployments with 1 or 2 panel changes, stops, agings and faults, 2 DNS variables; 3 executions alive at once, 2 closers | limiters through reloads, no accepted edit lost, clean reloads repair; whole pairs, the configured certificate and the node's own credentials around crashes, failed writes, renewals and rebuilds; the task's loop continues and ends |
| Serving (MCServing: Dispatch, Relay, Front, Traffic, Panel) | 3 chunks, 2 sniffers; 2 units per peer, idle timeout 2; 2 tags, 2 ports, 2 callers, 3 objects, 3 calls, 1 exit; 1 user, 2 connections, 2 units with a minimum of 1, 1 removal, 1 rebuild, 1 lost report; 3 retries, an attempt of 1 and a call of 3 ticks, 2 versions | streams intact, billed once and dispatched; sessions released, only idle ones cut; fronts are up as a whole or serve nothing, and come back; nothing billed twice but by a retry, everything reachable billed, no counter of a removed user leaks; only current answers are applied and cycles return |
| Relay_probe (violation) | 2 units per peer, idle timeout 2 | a probe is told apart by an alert the site did not send |
| Traffic_report (violation) | 1 connection, 1 failed report | a failed report loses its traffic |
| Reload_prune (violation) | 1 edit, 1 failed user fetch | the limiter of a configured node is pruned |

Why the bounds are enough to be interesting. Two users let one be added while
the other is removed, changed or refused in the same cycle; two limits are what a
change needs; two ports (or keys) and two panel changes let the configuration go
away and come back during a failing rebuild; two failures put one failure in the
recovery from another; `userReconcileEvery = 2` (5 in the code) has cycles with
and without reconcile. In DeviceLimit two connections and two addresses give the
lost race on `LoadOrStore` and a second device; `MaxLimit = 1` makes the limit bite.
Three execution slots are two abandoned ones and a running one. In Reload two
nodes let one start and one fail; two edits let one arrive during a reload of the
other. In Traffic two connections race for the tag's and for the user's entry, and one
can be opened before and one after a removal or a rebuild. Cert's deployments have two
nodes that issue and renew, files of the panel's next to files of the host's, and a
renewal that a crash interrupts; two events are a renewal and a crash in it, or a rotation
and a restart, and two variables let a renewal come between them.
In Panel the deadline is shorter than all attempts together, as in the code. In Front
two ports and two tags compete while a third object outlives its `Stop`. In Runner five
calls are enough for a listener without owner and one that finds its port taken by it. In
Camouflage, as in every profile of the code (records of up to 16384 bytes, a buffer of 8192), the
smallest record fits a buffer and the largest does not.

Symmetry is used in runs without liveness properties only. In `Connections` sets of different
parts share their model values, which no formula compares, so that one small group of
permutations serves all parts. Its VIEW is the part that moves without what cannot matter:
`current` and `previous` where calls overlap (no action reads them, and `NoSpuriousReject` says
nothing then), `over`, which no property of that run mentions, and what an unused bucket or
address set last held. Deadlock is not checked because the bounds let the environment run out.

Fairness. NodeSync: weak fairness of `Start` and of each cycle; the task restarts
cycles for ever and each call they make has a timeout, so a cycle is never stuck.
Nothing is assumed of the panel or of failures. Task: weak fairness of the loop's
own steps and of a begun Close; an execution that is waited for may hang for ever;
a cancelled one ends, since its context reaches its network calls; strong
fairness of `StopSeen`, because Go's select picks at random between a tick and
Stop. Reload: weak fairness of the watcher goroutine and of the steps of boot and
reload, which are all bounded by timeouts; editors, connections and failures owe
nothing. Traffic: weak fairness of the report task and of a `getLink` or `DelUsers` in
progress; connections need not transfer or end. Panel: the client's own steps and time;
the network and the panel owe nothing. Cert: a start's steps, since lego's requests time
out, and the mutex in the end; no renewal has to finish. Dispatch: the dispatcher's own
steps, which deadlines bound; the client need not write. Relay: the handler, the copiers
(a copier whose peer does not read has no step) and the timer. Front: the steps of a call
and of a supervisor; processes need not exit.

Each module has a type invariant. Those of NodeSync, Reload, Task and Runner are proved
(section 5); of the others the proofs use what they need as a conjunct of their own
invariant (`DeviceShape`, `SpeedShape`, `TrafficShape`, `FrontShape`, ...). `TypeOK` of DeviceLimit,
`SpeedTypeOK`, `PanelTypeOK`, `TrafficTypeOK`, `CertTypeOK`, `DispatchTypeOK`, `RelayTypeOK`,
`FrontTypeOK` and `CamouflageTypeOK` document the state, hold in the runs when added to their
cfg, and are left out of them to keep the runs to the properties that say something of the
code.

## 4. What the runs found

Runs that are expected to fail, each against a statement of the repository:

* `NodeSync_retry`. "c.info stays old → next cycle retries automatically"
  (node/task.go:146). The next cycle calls `DelNode` first, which errors because
  the inbound is gone, and returns. `NodeSync_live` leaves out the failure kind
  `unregistered` for this reason; the listener check does not help because the
  cycle ends before it.
* `Traffic_report`. `AddBackTraffic` "is called when ReportUserTraffic fails"
  (core/user.go:222-224); it has no caller, and the counters are zero by then.
* `Speed_throttle`. `SetDynamicSpeedLimitByUID` "throttles a user (by UID) to limit Mbps
  until expire" (limiter/limiter.go:163-164); it changes `UserLimitInfo` only, and a user
  who has a bucket keeps it with its rate.
* `Speed_consecutive`. The throttle is for users over the limit "for WarnTimes consecutive
  cycles" and "warns must be consecutive" (node/user.go:82-85, 107); only users of the slice
  below the limit are reset, and one who was idle or below the minimum is not in the slice
  (core/user.go:205) and keeps its warnings.
* `Relay_probe`. The SNI router "makes active probing indistinguishable from direct
  connections" (common/snirouter/router.go:8-9); the handshake it aborts to read the server
  name (:131-141) sends the client an alert before anything of the upstream's.
  `RelayedInOrder` allows for that one greeting and says that nothing else differs.
* `Reload_prune`. Keeping the limiter over a reload is to cover "a node whose
  re-Start fails" (node/controller.go:163-165); one that fails before `c.tag` is set
  has an empty tag and its limiter is pruned.

Observed in the models and not kept as runs:

* The order in `GetOnlineDevice` "eliminates the race window" (limiter/limiter.go:276-278);
  an address registered between the two Ranges is in neither map, so `NoSpuriousReject`
  is about `~overlap` only.
* A rotated certificate of the panel is "rewritten on every (re)build so a rotated panel
  cert takes effect" (node/cert.go:74); the rebuild the monitor does never calls
  `requestCert`, so the old files are served until a restart (`rotated`, the exception in
  `ServesAsConfigured`).
* The local certificate settings survive until the monitor's first cycle only: then the
  renewal has no provider, and a rebuild serves without TLS if the panel's mode is none
  (`rebuilt`, the other one).
* A renewal sets the DNS credentials without `certMu` (`crossed`), and no one unsets them. A
  crash or a failed write anywhere in a renewal's two files leaves a pair that does not match,
  an emptied certificate beside the old key among them (os.WriteFile truncates first,
  node/lego.go:153): it is never issued again, since both files exist, nor renewed if it is
  the certificate that cannot be parsed (`torn`). A crash while the account's file is written
  makes every later issue fail.
* `AddUsers` of a runner that a `Del` closed meanwhile opens a listener nobody can close
  (`late`, the exception in `OrphanIsLate`); snell v6 and ssaead keep accepting the last
  user removed (the exception in `IdentifiedIsKnown`).
* A panic inside `AddNode` leaves its port reservation (`panicked`); two calls for one tag
  at a time can leave an instance without its file (`crossed`). A failed `AddNode` leaves a
  file cut short (common/singbox/manager.go:112) or a registered handler that does not listen
  (core/inbound.go:80-82).
* An error in JSON becomes an empty configuration for an XrayR-style node (the exception
  in `OnlyCurrentAnswersApply`).
* A minimum interval above 120 seconds without maximum panics in the switcher's goroutine
  (`SwitcherPanics`). Overlapping first links leak an engine (`concurrent`); a link between the
  cleanup of a rebuild and the new configuration stores a default engine that outlives it
  (`early`).
* A record longer than Xray's buffer is cut to it and the bytes behind are dropped without
  an error (common/shadowflow/writer.go:95-97). Every one of the nine profiles has records of
  up to 16384 bytes (profile.go:121-485), the buffer takes 8192. `RecordsCarryTheWrite` says
  that this is the only loss; padding of a last record reaches the receiver as data.
* A node whose users all lack a key binds no port, which the listener check takes for a
  listener that died: it rebuilds for ever (the exception in `Converges`).
* The reconcile is said to catch users "never registered in xray"
  (node/task.go:255-258), but it compares with `uidMap`, which `AddUsers` filled before
  trying: with the failure kind `skip` a refused user stays unregistered for ever.
  `NodeSync_safety` has that failure; the liveness runs leave it out.
* Two overlapping cycles (`Cycles` with two members) break `LimiterMirrorsUserList`: both
  apply a diff against the list they read, and a limit change is lost.
* Two first connections of a tag can each store a `TrafficCounter`; the replaced one is
  never collected (`Stray`, the exception in `CountedIsBilled`).
* After a failed reload the old controllers and core are already closed, while the
  log says "重启失败，保持当前状态运行" (cmd/server.go:146); a new core in which no
  controller started is neither kept nor closed, and an inbound it had added keeps
  its port (`leaked`, the exception in `CleanReloadServesFile`).
* An edit within 10 seconds of an accepted event is ignored even if the reload for
  that event has read the file already; `AcceptedEditIsLoaded` is about accepted
  events.
* Two users behind one address overwrite each other's `OldUserOnline` entry, so that a
  device let in a moment ago can be refused even without overlap (Users = {u1, u2},
  Ips = {ip1}); `NoSpuriousReject` excepts an address another user was let in from
  (`SharedAddress`).
* A listed user that is not in `uidMap` is not registered with a bound runner before the
  next reconcile, up to five cycles later; `BoundRunnerHasUsers` is about those in `uidMap`.
* A runner-backed node whose panel configuration is reverted after a failed
  `Listen` may open the reverted configuration's runner later (Lazy, two keys, one
  port, `listen`: `Converges` fails). `NodeSync_lazy` has one key.
* Fields `nodeNeedsRebuild` ignores differ between `c.info` and the running inbound
  until something else causes a rebuild; `Converged` is about the compared ones.
* An execution the watchdog abandoned outlives a clean `Close`, and the report task's
  `speedWarn`, which "needs no locking" on "the single report-task goroutine"
  (node/user.go:85-86), can be used by two.

## 5. Proofs

Eight modules hold them, `<component>_proofs` beside the component; `Serving_proofs` is about
Dispatch, Relay, Front and Camouflage, `Limiter_proofs` about DeviceLimit and SpeedLimit,
`Reporting_proofs` about Traffic and Panel. No theorem bounds the sets of users, limits, ports,
nodes, callers, connections, messages, failures or edits: every invariant and every action
property a passing run checks is a theorem here, and so is the refinement of LazyListener.

NodeSync

* `TypeCorrect`: `TypeOK` is inductive. `CoreOps` and `ReconcileCore` type the core's
  calls once, for all the cycle's steps that make one.
* `Accounted`: `OneCycle => (Spec => []RegisteredIsAccounted)`: every operation that
  registers a user enters it in `uidMap` in the same call, and `DelUsers` and the reconcile
  remove from both. The model's steps would allow any number of cycles, the code's calls
  would not: they are not atomic against each other (section 2).
* `LimiterMirrors`: `OneCycle => (Spec => []LimiterMirrorsUserList)`. The invariant is
  not inductive alone: `SyncCommit` applies a diff computed several steps earlier.
  `MirrorInv` adds that a pending diff is the difference of the current list and the
  fetched one (`PendingDiff`) and that cycles run only after Start (`StartedOnce`).
  `UpdateIsExact` shows `UpdateUser` with that diff yields the fetched list, and
  `ReconcileIsNeutral` that the reconcile changes nothing. `OneCycle` (at most one
  goroutine in the cycle) is needed, see section 4.
* `NoMassKickHolds`: the action property, under `OneCycle`.
* `OnlyListedUsers`: `OnlyListedUsersServed` for an Xray-backed node (`~Lazy`) and one
  cycle. `ServedInv` says what may be registered at each point of a cycle: the users
  of the list, and those of the diff between AddUsers and the commit. Runners are
  excluded because their failing `AddUsers` keeps the users it was given.
* `OpenInboundIsInfo`: `OpenListenerServesInfo` for an Xray-backed node and one cycle.
  `OpenInv` says where the inbound may run ahead of `c.info`: between the AddNode of a
  rebuild and its end, where it is of the configuration just fetched; and that no
  rebuild gets to AddNode with the old inbound still open.
* `BoundRunner`: `BoundRunnerHasUsers`, for one cycle. `RunnerKept` follows the users of a
  runner through rebuild, diff and reconcile: who is on the list and in `uidMap` is
  registered outside of a rebuild, and a bound runner has a listed user, or one of the
  list that is about to be committed.

Reload

* `ReloadTypeCorrect`, `InboundsLimited`, `ReloadHasNoWindow`: from `LimiterInv`, which
  relates limiters to inbounds, to the tags of both generations of controllers and
  to how far each controller got.
* `SignalsAreKept`, `CleanReloadServes`: what the two liveness properties of Reload rest on,
  without their fairness. An accepted edit that is not loaded has a sleeper, a queued
  signal or a reload that has yet to read the file (`NoLostSignal`, with `accepted <= ver`).
  A boot or reload that read the current file and met no failure serves the file's
  nodes (`ServesFile`): `CleanInv` says that the version stands for the file's content, that
  the new controllers are the file's nodes (`AllNew`), that none of them failed and that the
  new core's inbounds are those that are up (`NoneFailed`).

Task

* `StopClosedOnce`, `DoneIsExit` (`DoneMeansExited`): from `StopInv`, which says that `Running`
  means "started and Stop still open" (`RunningIsOpen`), why safeStop closes the channel
  once, and that an execution is current exactly while the loop waits for it.

Cert

* `OwnCredentials` (`IssuedWithOwnCredentials`), `OneIssuerAtATime`: from `IssueInv`. `OneIssuer`
  ties certMu to the controller inside requestCert and to its issue; `OwnEnvironment` says
  that the variables the holder has set so far are its own or a renewal is noted in
  `crossed`, so that all are when the provider is constructed. `LegoMoves` and `LegoCredentials` describe a step
  of lego once, for issues and renewals. `CertAssumption` is used for `Nobody \notin TlsNodes`.
* `AddedPairIsWhole` (`PairIsWhole`), `ServedIsConfigured` (`ServesAsConfigured`): from `DiskInv`, a
  conjunction per node: a renewal works on files that are there (`RenewedIsThere`), two files
  are a whole pair unless a start or a renewal is between its writes (`Between`) or a crash or
  a failure ended one there (`torn`), and no key is there without a certificate (`PairOnDisk`),
  a remote node's files are what the panel sent at Start (`RemoteOnDisk`), and who serves
  without TLS was told to (`PlainIsSent`). `SameStored` leaves a node's part alone where a
  step is about another node.

Runner

* `RunnerTypeCorrect`, `OrphansAreLate` (`OrphanIsLate`), `IdentifiedAreKnown` (`IdentifiedIsKnown`) and
  the refinement `RunnerIsLazyListener` (`ImplementsLazyListener`): from `RunnerInv`. A caller in
  a runner's method has one (`HasRunner`); one that adds to a runner no manager knows is
  noted in `late` (`AdderIsLate`); and the service's table is the runner's, except where
  a package does not pass an empty one on (`ServiceFollows`), without which `Accepts` would
  not follow `users` as LazyListener wants it to. Every action is shown to be one of
  LazyListener's or a stutter.

Limiter

* `OnlineDevicesAreJustified` (`OnlineIsJustified`), with overlapping calls: `MapsAreOwned` says
  that no two users have the same address set and that a connection holding a user's set
  serves that user, so that a step for one user cannot leave an address in another's.
* `RecentDevicesAreLetIn` (`NoSpuriousReject`): where calls do not overlap, `SerialInv` says what
  the one call in progress knows (`CallKnows`) and that the devices of this period are online
  and those of the last one remembered or online again, at every point of a report
  (`RecentAreFound`).
* `ConnectionsAreLimited` (`HeldWithinLimit`): for users not in `split`, every connection with a
  bucket has the one in the map (`Shared`); for users not in `raced`, a CheckLimit in progress
  computed no more than the present limit (`Fresh`); the bucket's rate is then at most that
  limit (`Rated`). `BucketsAreOwned` keeps users' buckets apart. `DetermineCases` is what
  `determineSpeedLimit` computes.

Reporting

* `NothingIsOverBilled` (`NeverOverBilled`): `BillInv` adds to the inequality (`Covered`) whose a
  storage is (`StoragesOwned`): at most one user's, in the counters or in a connection's hands,
  with no more in it than the user transferred; one that nobody uses yet is empty. Without
  it a `Swap` could collect another user's traffic, or an allocation bring some in.
  `AmountTaken`, `AmountGrows` and `AmountShrinks` say what emptying a storage, counting and
  dropping an entry do to the sum; they follow from the cardinality theorems, which need
  `IsFiniteSet(Conns)`.
* `AnswersAreCurrent` (`OnlyCurrentAnswersApply`): `AnswerInv` says that an answer was made from a
  version the panel had during the call, and that only an answered exchange is decoded.
* `AppliedOncePerAttempt`: `AttemptInv` follows the panel's applications of a report through
  lost answers and retries; `RetryCount + 1` bounds them.

Serving

* `StreamStaysIntact` (`StreamIntact`): `StreamInv` says that the places a byte can be in are
  consecutive runs (`Places`), what has been charged (`Charged`) and when something may be
  dropped (`NothingBehind`: nothing comes after it).
* `StreamsRelayedInOrder` (`RelayedInOrder`): `RelayInv`, what each copier holds and what went
  before it (`BeforeCopying`, `ToUpstream`, `ToClient`). `TimerCutsIdle` (`OnlyIdleIsCut`): the timer
  shows no more than the time since something was read (`TimerInv`); the one-way timeout
  must not exceed the idle timeout, as in the code.
* `FrontIsWhole` (`FrontReachesItsInbound`): `FrontInv`. A tag whose calls never met has one call
  under way or none (`Alone`); with none it is `Up` or `Gone`, which is to serve nothing (a file
  cut short and a dead handler may be left), with one it is as far as that call has come
  (`Midway`); the kernel's table agrees with inbounds and reservations
  (`KernelAgrees`).
* `EnginesFollow` (`EngineFollowsConfig`): unless misses were `concurrent` one link builds at a
  time and none during a cleanup (`OneBuilds`), what is built and stored is of the node's
  configuration, or the default one of an `early` link (`EnginesOfConfig`), and a running
  switcher has an owner (`Followed`).
* `RecordsAreOrdered` (`RecordsCarryTheWrite`): `WriteInv`, whose `Carries` says that the bytes sent
  begin with the first, that each may come behind the one before it (`Follows`), and that the
  byte at the offset may come behind the last. No assumption relates a profile's records to the
  buffer.

The assumptions are the named `ASSUME`s of the modules: bounds are numbers, the sets that are
counted are finite, the values that stand for "nothing" (`None`, `Nothing`, `NoCounter`, `NoOne`, `Nobody`) are
nothing else, sizes and timeouts are numbers in their order. TLC evaluates each of them in the
run of its module. `OneCycle` and `~Lazy` are hypotheses of the theorems that name them.

Proving changed two properties. `BoundRunnerHasUsers` asked for every listed user, which held
with the run's short reconcile period only; `NoSpuriousReject` now excepts shared addresses and
holds for any number of users, where it held for one. Three definitions were restated with the same
meaning to be within the provers' reach: `RelayedInOrder` without `SelectSeq`, `NewBucket` by a
bounded choice, `Amount` as a cardinality.

Only model-checked: liveness under fairness (`Converges`, `LoopContinues`, `LoopExits`,
`AcceptedEditIsLoaded`, `CleanReloadServesFile`, `StartsReturn`, `CycleReturns`, `CountedIsBilled`,
`OrphansPruned`, `LinkSettles`, `SessionReleased`, `FrontSettles`): the proof system has no rules for
fairness and ENABLED.

## 6. Not modelled

* The translation of the panel's configuration into Xray's (`core/inbound.go`,
  `custom.go`, `outbound.go`) and the resolvers of `conf`: conversions without state. What
  has state in them is in Traffic, Camouflage, Front and Cert.
* Wire formats and cryptography (`ssr`, `snell`, `trojanss`, `sudoku`, `obfs`), except which
  user a handshake is tried against (Runner) and that a relayed stream keeps its order
  (Relay).
* Shadowflow's pools, stream multiplexing, router, collector, adaptive and fallback modes:
  nothing in the binary constructs them. Profiles and noise are random data.
* Memory tuning, commands, utilities, generated and vendored code.
* The FakeDNS sniffer and the metadata sniffing of the dispatcher: the core installs no
  FakeDNS engine, so they never find anything.
* A core call is atomic in NodeSync; Front and Runner open it for one core each, so an
  interleaving of such steps with the controller's own is not covered.
* The certificate modes `http` (dns without credentials) and `file` (a pair nobody writes).

## 7. Plan

What is left is proof rather than model:

1. The safety half of more liveness properties, as for Reload: in Task that a loop told to
   stop waits for nothing but an execution or the deadline, in Cert that certMu is held only
   by a start that has a step, in NodeSync that a node that differs from the panel has a
   cycle that will see it.
2. The remaining type invariants, from the Shape conjuncts.
3. Traffic as the refinement of an abstract ledger (counted = billed + pending + dropped).
