---------------------------- MODULE LocalNetwork ----------------------------
(***************************************************************************)
(* server/network.go: the localNetwork values the server creates, the      *)
(* start() goroutine of each one, and waitForHealthy(), which start() and  *)
(* three RPC handlers run, some of them without any lock.                  *)
(*                                                                         *)
(* The avalanchego network behind lc.nw is an external library: it is      *)
(* modelled by the processes it runs (node) and by the calls made on it.   *)
(***************************************************************************)
EXTENDS Naturals

CONSTANTS
    Nil,            \* Go's nil; also "nobody" for a lock
    Handlers,       \* the gRPC handler goroutines: the RPCs in flight at once
    Nets,           \* localNetwork values, one per Start that gets through
    Names,          \* node names of the default config ("node1", ...)
    Execs,          \* avalanchego binaries a request can name
    MaxPort,        \* bound: launches of one node, each with a fresh API port
    NwStopMayFail   \* may lc.nw.Stop return an error and leave processes?

ASSUME DomainsAssumption ==
    /\ Nil \notin Handlers \cup Nets \cup Names \cup Execs
    /\ Handlers \cap Nets = {}
    /\ Names # {} /\ Execs # {}

ASSUME MaxPortAssumption == MaxPort \in Nat \ {0}

ASSUME NwStopAssumption == NwStopMayFail \in BOOLEAN

\* Whoever can be inside waitForHealthy: a handler, or the start() goroutine
\* of a network, named by the network.
Threads == Handlers \cup Nets

VARIABLES
    proc,        \* the runner process: "up", "exited", or why it panicked
    nw,          \* lc.nw: "nil" until NewNetwork has returned, then a handle
    node,        \* external: the avalanchego processes behind lc.nw
    nodeInfos,   \* lc.nodeInfos, a map from the listed names
    nodeNames,   \* lc.nodeNames; its order is never used
    cfg,         \* lc.cfg.NodeConfigs: the BinaryPath of each entry
    readyc,      \* closed channels
    stopc,
    donec,
    errc,        \* errors sitting in the buffered channel lc.errc
    starter,     \* program counter of `go s.network.start()`
    wfh          \* where a thread is inside waitForHealthy, and for what

netVars == <<nw, node, nodeInfos, nodeNames, cfg, readyc, stopc, donec, errc,
             starter, wfh>>

NoPort == 0      \* NodeInfo.Uri is "" until waitForHealthy fills it in

\* Why the process dies: a nil s.network or s.clusterInfo, a nil lc.nw, a
\* missing nodeInfos entry, or the runtime catching unsynchronised map access.
PanicSites == {"s.network", "lc.nw", "nodeInfos", "map"}

NodeInfo == [listed: BOOLEAN, uri: Nat, exec: Execs \cup {Nil}]
Unlisted == [listed |-> FALSE, uri |-> NoPort, exec |-> Nil]

Process == [up: BOOLEAN, port: Nat, exec: Execs \cup {Nil}]
Down == [up |-> FALSE, port |-> NoPort, exec |-> Nil]

Listed(n) == {x \in Names : nodeInfos[n][x].listed}
Running(n) == {x \in Names : node[n][x].up}

\* What GetAllNodes tells of network n: the ports of the processes that run now.
Ports(n) == [x \in Names |-> IF node[n][x].up THEN node[n][x].port ELSE NoPort]

NothingSeen == [x \in Names |-> NoPort]
NotWaiting == [at |-> "idle", net |-> Nil, seen |-> NothingSeen]
WaitingFor(n) == [at |-> "wait", net |-> n, seen |-> NothingSeen]

-----------------------------------------------------------------------------
(* newNetwork and the start() goroutine.                                   *)

\* lc.errc is made with room for one error and nobody ever receives from it.
ErrcCap_Unbuffered == 0   \* mutant: make(chan error)
ErrcCap == 1

\* newNetwork: every default node gets a name, a NodeInfo without URI and a
\* NodeConfig that runs execPath; `go s.network.start()` follows.
NewLocalNetwork(n, exec) ==
    /\ nodeInfos' = [nodeInfos EXCEPT ![n] =
            [x \in Names |-> [listed |-> TRUE, uri |-> NoPort, exec |-> exec]]]
    /\ nodeNames' = [nodeNames EXCEPT ![n] = Names]
    /\ cfg' = [cfg EXCEPT ![n] = [x \in Names |-> exec]]
    /\ starter' = [starter EXCEPT ![n] = "launching"]

StarterAt(n, l) == proc = "up" /\ starter[n] = l

\* local.NewNetwork returned a network: lc.nw is set, and start() goes on into
\* waitForHealthy.
Launch(n) ==
    /\ StarterAt(n, "launching")
    /\ node' = [node EXCEPT ![n] =
            [x \in Names |-> [up |-> TRUE, port |-> 1, exec |-> cfg[n][x]]]]
    /\ nw' = [nw EXCEPT ![n] = "running"]
    /\ starter' = [starter EXCEPT ![n] = "waiting"]
    /\ wfh' = [wfh EXCEPT ![n] = WaitingFor(n)]
    /\ UNCHANGED <<proc, nodeInfos, nodeNames, cfg, readyc, stopc, donec, errc>>

\* local.NewNetwork failed: lc.nw stays nil for good.
LaunchFails(n) ==
    /\ StarterAt(n, "launching")
    /\ errc[n] < ErrcCap
    /\ errc' = [errc EXCEPT ![n] = @ + 1]
    /\ donec' = [donec EXCEPT ![n] = TRUE]
    /\ starter' = [starter EXCEPT ![n] = "done"]
    /\ UNCHANGED <<proc, nw, node, nodeInfos, nodeNames, cfg, readyc, stopc, wfh>>

\* start() returns; the deferred close(lc.donec) runs on every path.
StarterReturns(n) ==
    /\ StarterAt(n, "waiting")
    /\ \/ /\ wfh[n].at = "ok"
          /\ UNCHANGED errc
       \/ /\ wfh[n].at = "err"
          /\ errc[n] < ErrcCap
          /\ errc' = [errc EXCEPT ![n] = @ + 1]
    /\ donec' = [donec EXCEPT ![n] = TRUE]
    /\ starter' = [starter EXCEPT ![n] = "done"]
    /\ wfh' = [wfh EXCEPT ![n] = NotWaiting]
    /\ UNCHANGED <<proc, nw, node, nodeInfos, nodeNames, cfg, readyc, stopc>>

-----------------------------------------------------------------------------
(* waitForHealthy, run by thread t on network wfh[t].net.                  *)

WaiterAt(t, l) == proc = "up" /\ wfh[t].at = l

\* The call: lc.nw.Healthy(ctx) on a network whose lc.nw is set.
EnterWaitForHealthy(t, n) ==
    /\ nw[n] # "nil"
    /\ wfh' = [wfh EXCEPT ![t] = WaitingFor(n)]

\* Three ways to an error: lc.stopc is closed, the two-minute context expires,
\* or the network reports itself unhealthy or stopped.
WaitAborted(t) ==
    /\ WaiterAt(t, "wait")
    /\ stopc[wfh[t].net]
    /\ wfh' = [wfh EXCEPT ![t] = [at |-> "err", net |-> @.net, seen |-> NothingSeen]]
    /\ UNCHANGED <<proc, nw, node, nodeInfos, nodeNames, cfg, readyc, stopc,
                   donec, errc, starter>>

WaitFails(t) ==
    /\ WaiterAt(t, "wait")
    /\ wfh' = [wfh EXCEPT ![t] = [at |-> "err", net |-> @.net, seen |-> NothingSeen]]
    /\ UNCHANGED <<proc, nw, node, nodeInfos, nodeNames, cfg, readyc, stopc,
                   donec, errc, starter>>

\* The network reports healthy, and GetAllNodes returns the processes that run
\* now: seen holds their ports. A stopped network answers neither.
NodesReported(t) ==
    LET n == wfh[t].net IN
    /\ WaiterAt(t, "wait")
    /\ nw[n] = "running"
    /\ wfh' = [wfh EXCEPT ![t] = [at |-> "update", net |-> n, seen |-> Ports(n)]]
    /\ UNCHANGED <<proc, nw, node, nodeInfos, nodeNames, cfg, readyc, stopc,
                   donec, errc, starter>>

\* Mutant: the loop forgets lc.nodeInfos[name].Uri = uri.
WithUris_Kept(n, seen) == nodeInfos[n]

WithUris(n, seen) ==
    [x \in Names |-> IF seen[x] = NoPort
                     THEN nodeInfos[n][x]
                     ELSE [nodeInfos[n][x] EXCEPT !.uri = seen[x]]]

\* The loop over the nodes finds every one of them in lc.nodeInfos; then
\* readycCloseOnce closes lc.readyc and nil is returned.
UpdateNodeInfos(t) ==
    LET n == wfh[t].net IN
    /\ WaiterAt(t, "update")
    /\ \A x \in Names : wfh[t].seen[x] # NoPort => x \in Listed(n)
    /\ nodeInfos' = [nodeInfos EXCEPT ![n] = WithUris(n, wfh[t].seen)]
    /\ readyc' = [readyc EXCEPT ![n] = TRUE]
    /\ wfh' = [wfh EXCEPT ![t] = [at |-> "ok", net |-> n, seen |-> NothingSeen]]
    /\ UNCHANGED <<proc, nw, node, nodeNames, cfg, stopc, donec, errc, starter>>

\* lc.nodeInfos[name] is nil for a node removed since GetAllNodes; and two
\* threads in this loop write the map lc.apiClis without a lock, which the Go
\* runtime may or may not catch.
UpdatePanics(t) ==
    LET n == wfh[t].net IN
    /\ WaiterAt(t, "update")
    /\ \/ /\ \E x \in Names : wfh[t].seen[x] # NoPort /\ x \notin Listed(n)
          /\ proc' = "nodeInfos"
       \/ /\ \E u \in Threads \ {t} : wfh[u].at = "update" /\ wfh[u].net = n
          /\ proc' = "map"
    /\ UNCHANGED netVars

-----------------------------------------------------------------------------
(* localNetwork.stop, called with s.mu held; the caller sequences it.      *)

CloseStopc(n) == stopc' = [stopc EXCEPT ![n] = TRUE]

\* lc.nw.Stop: the network stops, and its error is only printed.
NwStop(n) ==
    /\ nw[n] # "nil"
    /\ nw' = [nw EXCEPT ![n] = "stopped"]
    /\ \E left \in {S \in SUBSET Running(n) : NwStopMayFail \/ S = {}} :
         node' = [node EXCEPT ![n] =
                    [x \in Names |-> [up |-> x \in left, port |-> node[n][x].port,
                                      exec |-> node[n][x].exec]]]

\* <-lc.donec
StarterGone_Skipped(n) == TRUE   \* mutant: stop() does not wait for start()
StarterGone_OnErrc(n) == errc[n] > 0   \* mutant: <-lc.errc
StarterGone(n) == donec[n]

-----------------------------------------------------------------------------

NetInit ==
    /\ proc = "up"
    /\ nw = [n \in Nets |-> "nil"]
    /\ node = [n \in Nets |-> [x \in Names |-> Down]]
    /\ nodeInfos = [n \in Nets |-> [x \in Names |-> Unlisted]]
    /\ nodeNames = [n \in Nets |-> {}]
    /\ cfg = [n \in Nets |-> [x \in Names |-> Nil]]
    /\ readyc = [n \in Nets |-> FALSE]
    /\ stopc = [n \in Nets |-> FALSE]
    /\ donec = [n \in Nets |-> FALSE]
    /\ errc = [n \in Nets |-> 0]
    /\ starter = [n \in Nets |-> "unborn"]
    /\ wfh = [t \in Threads |-> NotWaiting]

StarterStep(n) == Launch(n) \/ LaunchFails(n) \/ StarterReturns(n)

WaitStep(t) ==
    \/ WaitAborted(t)
    \/ WaitFails(t)
    \/ NodesReported(t)
    \/ UpdateNodeInfos(t)
    \/ UpdatePanics(t)

NetTypeOK ==
    /\ proc \in {"up", "exited"} \cup PanicSites
    /\ nw \in [Nets -> {"nil", "running", "stopped"}]
    /\ node \in [Nets -> [Names -> Process]]
    /\ nodeInfos \in [Nets -> [Names -> NodeInfo]]
    /\ nodeNames \in [Nets -> SUBSET Names]
    /\ cfg \in [Nets -> [Names -> Execs \cup {Nil}]]
    /\ readyc \in [Nets -> BOOLEAN]
    /\ stopc \in [Nets -> BOOLEAN]
    /\ donec \in [Nets -> BOOLEAN]
    /\ errc \in [Nets -> 0 .. ErrcCap]
    /\ starter \in [Nets -> {"unborn", "launching", "waiting", "done"}]
    /\ wfh \in [Threads -> [at: {"idle", "wait", "update", "ok", "err"},
                            net: Nets \cup {Nil},
                            seen: [Names -> Nat]]]
    /\ \A t \in Threads : wfh[t].at # "idle" => wfh[t].net \in Nets

=============================================================================
