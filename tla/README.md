# The network runner's control server in TLA+

This directory specifies `avalanche-network-runner`: a gRPC service that starts one
local Avalanche network, reports on it, removes and restarts its nodes, and stops it;
the process it runs in; its status stream; and the client and commands in front of it.
The specifications are translated from `src/server/server.go`, `src/server/network.go`,
`src/client/client.go`, `src/cmd/avalanche-network-runner/{control,server}` and the
parts of the gRPC and gateway stubs in `src/rpcpb` through which a request passes. Line
numbers below refer to `server.go` unless another file is named.

## The system

| Component | State it keeps | Operations | Modelled in |
|---|---|---|---|
| Control service (`server/server.go`) | `s.mu`, `s.network`, `s.clusterInfo`, one watcher goroutine per `Start` | `Start`, `Health`, `URIs`, `Status`, `RemoveNode`, `RestartNode`, `Stop` | `ControlServer` |
| Local network (`server/network.go`) | `lc.nw`, `nodeNames`, `nodeInfos`, `cfg`, channels `readyc`, `stopc`, `donec`, `errc` | `newNetwork`, `start()`, `waitForHealthy()`, `stop()` | `LocalNetwork` |
| Network library behind `lc.nw` | the avalanchego processes | `NewNetwork`, `Healthy`, `GetAllNodes`, `AddNode`, `RemoveNode`, `Stop` | external: `node` in `LocalNetwork` |
| Server life (`New`, `Run`, `cmd/.../server`) | `s.closed`, `rootCtx`, the gRPC and gateway servers, three error channels | serve, fail, shut down on a signal | `ServerRun`; what the others see of it is `ServerLife` |
| Status stream (`StreamStatus`, `sendLoop`, `recvLoop`, `client.StreamStatus`, `control stream-status`) | a ticker, a stream, two channels of one slot, two contexts | push, receive, show, cancel | `StatusStream` |
| Client library, control commands, gateway routes | a connection, a request timeout, what the user has seen | one call per method, each given up on its timeout or hung up on | `Session` |
| Ping, logging, colours, random strings, message accessors, duktape stub, scripts | none that matters here | | no, see the end |

A client's RPC runs in a goroutine of its own. `Start` makes a `localNetwork`,
publishes a fresh `ClusterInfo`, and leaves two goroutines behind: `start()`,
which launches the processes and waits until they are healthy, and the watcher,
which waits for `readyc` and marks the ClusterInfo Healthy. Three handlers and
`start()` run `waitForHealthy()`; `Health` and `start()` do so without `s.mu`,
`RemoveNode` and `RestartNode` with it. `Stop` holds `s.mu` until `start()` is
over. Responses point at the shared `ClusterInfo`, whose `NodeInfos` *is* the map
`lc.nodeInfos`, and are marshalled after the lock is gone.

`StreamStatus` runs `sendLoop` and `recvLoop` beside itself and ends when the client
is gone or `Run` has closed `s.closed`; on the other side a goroutine of the client
library feeds a channel that the command or a test ranges over. `Run` waits for a
signal's `rootCtx` or an error of one of its two servers, ends both, and closes
`s.closed` last.

### What is hard here

* Every handler looks at `s.clusterInfo` under a read lock, lets it go, and takes
  the lock again later: what it saw may be gone (a nil dereference) or be
  another cluster's.
* `lc.nw` is nil until `local.NewNetwork` has returned, while `ClusterInfo` is
  visible at once, and stays nil if the launch fails.
* `waitForHealthy` writes into `lc.nodeInfos` and `lc.apiClis` with whatever node
  list it read some time ago, in two of four callers without the lock.
* `RemoveNode` and `RestartNode` are several library calls; each may fail and
  leave the previous ones done.
* `Stop` waits, with the lock held, for a goroutine that must not block.
* A watcher that has seen `readyc` still has to get the lock, and by then the
  cluster may be another one.
* No handler looks at its context: a command that timed out goes on, holding
  `s.mu`, beside the next one, and the default timeout (one minute) is shorter than
  `waitForHealthy`'s two.
* Each case of `Run`'s select leaves different goroutines to collect from channels
  without a buffer.
* `StreamStatus` may leave its select for either of two reasons, with both its
  goroutines anywhere, and waits for one of them; the client half-closes at once, so
  one reason always occurs.

`PROJECT.json` lists each hazard at its line with the properties about it.

### What makes each component correct

* Control service: at most one live cluster; nobody dereferences a cluster that
  is gone; Healthy means ready; what a response lists is what runs; each
  operation either does what it says or leaves a state later operations can
  handle; every RPC returns.
* Local network: `start()` always ends and closes `donec`; the addresses
  published are those of the running processes.
* Status stream: the handler and its goroutines end once the client is gone or the
  server ends; nothing is sent after the handler has returned; the client's goroutine
  and its command end; a watcher sees the cluster become healthy.
* Server life: whichever of the three causes ends `Run`, both goroutines
  are collected, `Run` and the process end, and the failure is reported.
* Session: an answer means what it says until the next command; how long one must be
  ready to wait; a user patient enough never brings the server down.

## Modules

| Module | What it is |
|---|---|
| `LocalNetwork` | state and steps of the `localNetwork` values: launch, `waitForHealthy`, the parts of `stop()` |
| `ControlServer` | EXTENDS it with the handlers, the watcher and the end of `Run`; the specification `Spec`, `FairSpec` and its properties |
| `ClusterLifecycle` | abstract: one cluster that is created, launched, loses and regains nodes, is drained and let go |
| `MCControlServer` | symmetry, the state constraint and the view for TLC |
| `Session` | EXTENDS `ControlServer` with one user, the commands, timeouts and time |
| `ServerLife` | abstract: the four events of the end of the server that others can notice |
| `ServerRun` | `serverFunc` and `Run` with the goroutines of the gRPC server and the gateway; implements `ServerLife` |
| `StatusStream` | one status stream from `sendLoop` to the consumer, inside `ServerLife` |
| `LocalNetwork_proofs`, `ControlServer_proofs` | types, and the discipline of `s.mu` |
| `Cluster_proofs` | the inductive invariant about the cluster, its theorems, and who waits for what |
| `Lifecycle_proofs` | the refinement of `ClusterLifecycle`, and what RemoveNode and RestartNode promise |
| `Panics_proofs` | when the server does not panic, and what a polite client is told |
| `Session_proofs` | a session is a run of the server; patience, and what an answer is worth |
| `ServerRun_proofs`, `StatusStream_proofs` | the safety of these two |

`ServerLife` is the interface between two models: `ServerRun` is shown to implement
it, and `StatusStream` is checked against all that it allows. `Session` instead takes
the handlers of `ControlServer` as they are and replaces the clients in front of them.

### `LocalNetwork`, `ControlServer`

`Nets` are the `localNetwork` values in no particular order; `network` and
`clusterInfo` are the two pointers (a ClusterInfo is named by the network it was
made with, and `info` holds its contents). `nodeInfos[n][x]` keeps the fields that
change or matter: whether there is an entry, `Uri` (the API port of the process it
came from) and `ExecPath`. `cfg[n][x]` is the `BinaryPath` in `lc.cfg.NodeConfigs`,
`node[n][x]` the process the library runs. `nodeNames` is a set: the code never
uses its order. `proc` says whether the runner lives, or why it died: an
unrecovered panic in any goroutine is a step to one of `PanicSites`, after which
nothing happens.

A handler's program counter stands at the points where another goroutine can get
in: after the check (`check` to `start`, `health`, `remove`, ...), inside
`waitForHealthy` (`wfh`), between the library calls made with `s.mu` held
(`removing`, `restarting`, `adding`, `stopping`), while it waits with `s.mu` held
(`removewait`, `restartwait`, `stopwait`), and after its return while the response is
marshalled (`reply`). Everything between two such points is one action. `mu` is the
write holder; a read lock never outlasts a step, so reading is the guard
`mu = Nil`. In `waitForHealthy`, `wait` is the select, `update` the loop over the
nodes with what `GetAllNodes` returned in `seen`, `ok` and `err` its results.

Unsynchronised map access is undefined behaviour that the Go runtime may detect:
`DeletePanics` and `UpdatePanics` are enabled, next to the normal step, whenever
two goroutines are at such an access.

`Polite` restricts the client, not the server: one RPC at a time, and only Start, Status and
URIs until Healthy was seen. The end-to-end test is less careful: after Start it sleeps two
minutes and calls Health whatever the state of the cluster, and it ends with a Stop in
any case. What the `Polite` run shows is what it takes for a client to be safe.

Left out: whitelisted subnets, log level, the JSON of a node's config, node IDs and
`apiClis` contents (constant or never read; that they are written concurrently is
kept); directories; logging. The watcher evaluates both operands of its select in
one step, and a torn read of the interface `lc.nw` is not modelled. A RestartNode
always carries `WhitelistedSubnets`, as this repository's client sends it.

### `ServerRun`

`main` and `run` are the program counters of `serverFunc` and `Run`, `grpc` and `gw`
those of the two serving goroutines. `gRPCErrc`, `gwErrc` and main's `errc` have no
buffer, so a goroutine stands at `sending`, with its error in `sends`, until somebody
receives: send and receive are one step, `GRPCFailed`, `GatewayCollected` and so on.
External, and stated in the module's head, is what `Serve`, `Stop`, `ListenAndServe`,
`Close` and a blocking dial do. The deferred `Close` of the gateway's own
connection and the registration of the two services leave nothing that a property tells
apart.
After the exit the specification stutters (`Exited`), so that the run can check for
deadlock: any other state without a successor would be a goroutine that waits for ever.

### `StatusStream`

The server's variables (`handler`, `sender`, `recver`, `errc`, `sctx`), the wire and
the client's variables (`receiver`, `hand`, `ch`, `consumer`, `watcher`, `cctx`) are
those of one stream. `cluster` is `s.clusterInfo` as far as a stream can see it: nil,
not yet or already Healthy; a Stop in between makes an object that `sendLoop` has read
an `old` one. Flow control lets `WireCap` pushes be under way. The checks at the top
of the two receive loops are one with `RecvMsg`, which finds the same contexts done. When
the process is gone its goroutines are put into their final states by the same
step (`Gone`). `kind` says who ranges over the channel: the command, which drains it and
has a goroutine waiting for a signal, or the end-to-end test, which leaves at Healthy
and dereferences what it is given (a nil fails its spec, and the deferred cancel ends the
stream as a `break` would). Left out: the dial of `client.New`, the contents of a
push beyond nil and Healthy, and `isClientCanceled`, which chooses a log line. Both
ends decode the stream's messages as `StatusRequest` and `StatusResponse`, which have
the same fields on the wire.

### `Session`

`Invoke` is a command from the shell to its handler: request, stub, dispatch. `Answer`
is the step of the user's own handler that returns to it; `Work` is everything else
handlers do, those the user has given up on included. `GiveUp` is `DeadlineExceeded`,
`HangUp` a dropped HTTP request; neither changes anything in the server, because no
handler looks at its context. `saw` is whether the user has seen Healthy: `HasLooked`
is a discipline of looking before acting, which the commands do not enforce.

Time is counted in ticks, and a tick passes only when no goroutine can go on
(`~Runnable`): next to timeouts of minutes every other step is taken to be quick, the calls of
the network library included. `Blocked` says what a handler may have to wait for: `s.mu`,
`donec` inside Stop, or the network's health. `left` counts down what `waitForHealthy` has of
`healthyWait`, `user.remains` what the command has of its timeout; neither may be
passed over. The end of the server is not part of a session.

## Runs

`Handlers` is the number of RPCs in flight, not of RPCs; a handler that
returned takes new requests for ever. `Nets` bounds the successful Starts,
`MaxPort` the launches of one node. All runs but `server_run` set
`CHECK_DEADLOCK FALSE`, since the processes they model really end: by a panic, after
`Run`, or with the stream.

| Run | Instance | What it shows |
|---|---|---|
| `lifecycle` | 2 RPCs, 2 clusters, 1 node, 2 binaries, one restart; start, restart, stop | `OneCluster`, `TypeOK`, that the server implements `ClusterLifecycle`, whatever Starts and Stops overlap, and that a RestartNode that waited through Stop and Start takes effect on the cluster it finds (`RestartTakesEffect`) |
| `membership` | 2 RPCs, 1 cluster, 2 nodes, one restart of each; no stop | `ListingAgrees`, `NoUnlistedProcess` and the lifecycle under every partial failure; without Stop no nil cluster is met (`NilNetworkNeedsStop`) |
| `polite` | 1 RPC at a time, after Healthy; 2 clusters, 2 binaries, two restarts, all operations, `lc.nw.Stop` may fail | sending one RPC at a time, and what needs a cluster only once it was seen Healthy, is enough: `NeverPanics`, `HealthyIsReady`, `HealthReportsCurrentUris`, `RestartTakesEffect` |
| `progress` | 2 RPCs, 1 cluster, fairness | `RPCsReturn`, `ReadyIsPublished` |
| `session` | 1 user, 2 handlers (the user's and an abandoned one), 1 cluster, 1 node, `HealthyWait` of one tick, timeouts of one to three | `AnswerHolds`, `PatienceSuffices`, `PatientNeverPanics`, and `SomebodyWorks`: who waits, waits for somebody who can go on |
| `server_run` | everything; the state space is finite without bounds | `AwaitsTheLiving`, `ClosedAfterServers`, `FailureIsReported`, `ServerEnds`, no deadlock, and that it implements `ServerLife` |
| `stream` | 1 stream, either consumer, any interval, Stop and RemoveNode around it | `NoSendAfterReturn`, `NilOnlyAfterStop` |
| `stream_ends` | 1 stream, either consumer, a positive interval, no Stop; fairness | `StreamEnds`, `ReceiverFinishes`, `CommandEnds`, `HealthyIsSeen` |
| `early_health` | expected violation of `LookingNeverPanics` | Health right after Start kills the runner: `lc.nw` is nil |
| `stale_healthy` | expected violation of `HealthyIsReady` | the watcher of a stopped cluster marks the next one Healthy |
| `late_uris` | expected violation of `HealthReportsCurrentUris` | a wait for healthy that overlaps a RestartNode, `start()`'s own or a Health's, puts the old address back |
| `polls_until_healthy` | expected violation of `PollsUntilHealthy` | `stream-status` goes on polling a healthy cluster |

Why the bounds are enough. `ControlServer`: two RPCs in flight, together with `start()`
and the watcher, are every pair the code lets meet, since all that RPCs share is behind one
lock and a third RPC would wait for the same lock; two clusters are what it takes
for a goroutine of one to meet the other; one node suffices where nodes are not
told apart and two where one stays while another goes; two binaries tell an `ExecPath`
or config that took effect from one that did not, and with three launches of a node
(`polite`) one left over from a failure, too. `Session`: with one abandoned handler the next command meets
it in every place where it can hold or want `s.mu`; a timeout of one tick gives up
while the server still waits, one of two outlasts its own wait but not an abandoned one
before it, and one of three outlasts both: the two cases of `PatienceSuffices`, with and
without somebody in the way. `StatusStream`: with `WireCap` 1 and the channel's one slot all of
full, empty and blocked occur at every link; a larger wire only delays the blocking.
`stream` has the intervals and events that may crash the server; `stream_ends` leaves
them out, since after a crash there is nothing that should still happen.

Each passing run reaches states in which its property's
interesting case has happened, as the mutants in `PROJECT.json` show: one plausible
bug per property, which the same run finds. `StillServing` keeps `lifecycle`,
`membership` and `polite` from going on after the end of `Run`, where the handlers
still in flight do what they do before it; `progress` goes on to the exit. `lifecycle`
compares states by `LiveView`, which leaves out what nothing can read any more of a
cluster that was let go; Health and RemoveNode next to a Stop are in `progress` and
`session`, with one cluster.

### Fairness

`ControlServer`: strong fairness of each handler and watcher (they compete for
`s.mu`, and Go's `RWMutex` hands it to waiters and does not starve them; a select
with a ready case does not ignore it for ever), weak fairness of `start()` and of
each wait (the library call returns or the two-minute context of `waitForHealthy`
expires, so `WaitFails` stays enabled and the wait ends) and weak fairness of the
exit of `main` after `Run`. Clients are never obliged to send anything, and Run is
never obliged to end.

`ServerRun`: weak fairness of each of its four goroutines; the gateway's dial has a
timeout, so it too ends. That a server fails or a signal arrives is never assumed, only
that its consequences follow.

`StatusStream`: weak fairness of each goroutine on both sides, of the news that a stream
was cancelled, and of the end of a server that has begun to end (`ServerLife`'s own
fairness, which `ServerRun` implements). `SendLoopEnds` is strongly fair: the select of
`sendLoop` is left for the ticker and returned to, and Go picks among ready cases at
random. No signal, timeout or failure is assumed.

## Proofs

All proofs hold for every value of the constants that satisfies the assumptions
named in `LocalNetwork`, `ControlServer`, `Session` and `StatusStream`: any number of
concurrent RPCs, clusters, nodes and binaries, with or without `NwStopMayFail` and
`Polite` unless a theorem assumes one of them; any timeouts; any capacity of the wire.

`TypeCorrect` (`ControlServer_proofs`). `TypeOK` is not inductive: that
`clusterInfo` indexes `info`, or that a Stop has something to reply with, depends on
who holds the lock. `LockInv` adds that s.network and s.clusterInfo are set and
cleared together (`SameCluster`), that a handler is inside a critical section exactly
when it is the holder (`LockHeld`), and what is known inside one
(`InCriticalSection`: there is a network, the request names a node, Stop has a
ClusterInfo in hand).

`OneClusterHolds`, `ListingAgreesHolds`, `NoUnlistedProcessHolds` (`Cluster_proofs`)
follow from `ClusterInv`, which adds to `LockInv`:

* `StarterInv`: before a launch there is no `lc.nw` and no process, a launching
  network is the current one and still lists all its nodes, and `donec` is closed
  only when `start()` is over. Without it Stop could let go of a network that is
  still being launched.
* `HolderInv`: what the holder of `s.mu` relies on. A node operation works on a
  running network, a restart on a listed name, which has no process between removing
  and adding; when Stop waits for `donec`, the network is stopped and, if the library
  keeps its word, empty. This is what makes `s.network = nil` safe.
* `StoppedInv`: the current network is stopped only inside Stop, so a node operation
  that gets the lock finds it running.
* `ListingInv`: the body of `ListingAgrees` at every moment, not only with the lock
  free.

The step lemmas are one per handler action that changes the cluster; all others go
through `QuietStep`, which needs only that nobody enters or leaves a critical
section with something changed. `LockInv'` is proved first and is a hypothesis of
all of them.

`LifecycleImplemented` (`Lifecycle_proofs`): with `ClusterInv`, every step of the server
is a step of `ClusterLifecycle` or leaves its variables alone (`Unseen`). One lemma per
lifecycle action names the code step it comes from: `StartNetwork` creates,
`Launch` launches, `RemoveDelete` and the two library calls of a restart take and
replace, `StopNetwork` drains, `StopDone` lets go. It assumes that the library's Stop does
its work; otherwise a cluster is let go with processes left, which the lifecycle does not
allow.

`RestartTakesEffectHolds` rests on `RestartInv`: while a RestartNode holds the lock the
NodeInfo has its binary, and once it waits the process under that name runs it. A health
check that interferes writes only addresses. The runs have two RPCs at a time, with one
restart, and one RPC with two; the theorem has any number of both.

`NilNetworkNeedsStopHolds` (`Panics_proofs`): `NoStopInv` says that whoever is past the
check, and every watcher, has a network, since nothing takes it away. `NeverPanicsHolds`
and `HealthyIsReadyHolds` concern the polite client. `PoliteInv` has a part for each reason
why nothing goes wrong: `SoloInv` one RPC is in flight; `BusyInv` what needs a cluster finds
a healthy one; `WaitInv` who is in `waitForHealthy`, for which network, and that what was
seen there is still listed; `ReadyInv` a ready network has `lc.nw` and its `start()` is past
the loop, so the two waits that could write at once never do; `WatchInv` a watcher is over
before its network can be stopped, because the user waited for the Healthy it sets.
That one step of the server keeps `PoliteInv` (`PoliteStep`) is proved for a client who
happens to send something polite (`Politely`), so that `Session_proofs` can use it of a user
whom nothing in the server obliges to be.

`HealthReportsCurrentUrisHolds` adds `UrisInv`: what a wait for healthy has seen of the current
network is what runs, and when the one handler in flight has its `ok`, the NodeInfos say so
too. It needs `PoliteInv`: with a second RPC in flight it is false, as `late_uris` shows.

`RunAwaitsTheLiving`, `RunClosedAfterServers`, `RunReportsFailure`, `LifeImplemented`
(`ServerRun_proofs`): `CollectInv` says at each point of `Run` which goroutines have been
collected and whether `closed` and `cut` have happened, `ReportInv` whose error is on its
way to the result and that `rootCtx` explains a nil one.

`StreamNoSendAfterReturn`, `StreamNilOnlyAfterStop` (`StatusStream_proofs`): `StreamInv`
puts the life of `sendLoop` inside that of the handler and keeps everything empty before
admission; `NilInv` follows a value from the pointer read through the wire, the client's
goroutine and its channel, none of them nil unless a Stop came after admission.

`SessionIsServed` (`Session_proofs`): every step of a session is a step of the server or
invisible to it, so all of the above holds of a user with timeouts, too;
`SessionKeepsCluster` draws the conclusion for the cluster. The other theorems of that
module are about the user, and rest on two more invariants. `GoInv` (`Cluster_proofs`) ties
each program counter to what its goroutine is doing in `waitForHealthy`, and says that
`errc` is empty until `start()` is over and that a Stop has closed `stopc`. `UserInv` says that
whoever waits is served by a handler in flight, at a point that belongs to their request.

* `SomebodyWorksHolds`: if every handler in flight were blocked on `s.mu`, its holder would be
  too, but the holder never wants the lock; and a Stop that waits for `donec` waits for a
  `start()` that `stopc` has released and that finds room in `errc`.
* `PatienceSufficesHolds`: each handler holds as many tokens as it may still spend ticks in
  `waitForHealthy`: all of `healthyWait` before the wait, what is left of it inside, none
  after (`Budget`, `Tokens`). No step adds a token except a new command, which brings its own,
  and each tick takes at least one, because by `SomebodyWorks` somebody is in
  `waitForHealthy`. So tokens plus timeout never exceed what remains of the user's patience
  plus one `healthyWait` for each handler in flight when the command was sent
  (`PatienceInv`), and when nothing remains the timeout is not more than those.
* `PatientNeverPanicsHolds`: a user whose timeouts exceed `healthyWait` therefore never gives
  up, so their handler is alone (`Alone`), and what they were last shown is so (`Shown`,
  until a Stop of their own replies): all they send is polite, and `PoliteInv` follows.
* `AnswerHoldsAlways`: a handler comes to its reply only by the step that did what was
  asked (`TruthReached`, with `RestartInv`, and `RemovedInv` for RemoveNode), and as long as no
  other handler is in flight only `start()`, health checks and the watcher go on, which leave
  it true (`TruthElsewhere`).

Each of these invariants was first checked by TLC on the instances of the runs above.

Only model-checked: liveness under fairness, which is beyond the prover (`RPCsReturn`,
`ReadyIsPublished`, `ServerEnds`, `StreamEnds`, `ReceiverFinishes`, `CommandEnds`,
`HealthyIsSeen`, and the fairness of `ImplementsLife`). Every invariant and every action
property of a passing run is also a theorem. `LookingNeverPanics` and `PollsUntilHealthy`,
and `HealthyIsReady` and `HealthReportsCurrentUris` for clients that are not polite, do not
hold: those are the runs that expect a violation.

## Not modelled

* `rpc.pb.go`: generated accessors and descriptors, without behaviour of their own. In
  `rpc.pb.gw.go` and `rpc_grpc.pb.go` the parts that nothing here calls: the
  `local_request_*` functions and the `*HandlerServer` registrations, `*FromEndpoint`, the
  `Unimplemented*` servers. The stream over HTTP is not modelled: no client here uses it.
* `Ping` and `main.go`: stateless.
* `pkg/logutil`, `pkg/color`: wording and output.
* `pkg/randutil`: used by its own test only.
* `internal/go-duktape`: an empty replacement of a dependency.
* `New`: checks two ports and makes the values `Run` starts from; a failure there leaves
  nothing behind.
* Scripts and build files. Of the end-to-end test its status loop (`StatusStream`) is
  modelled, not the sequence of its calls with the sleeps between them, nor its assertions.
* In the network library, everything but the contract the server relies on.
