---------------------------- MODULE ControlServer ----------------------------
(***************************************************************************)
(* server/server.go: the control RPCs (Start, Health, URIs, Status,        *)
(* RemoveNode, RestartNode, Stop), the goroutine Start leaves behind to    *)
(* publish a network that became ready, and s.mu, s.network and            *)
(* s.clusterInfo, which all of them share.                                 *)
(*                                                                         *)
(* Each handler reads s.clusterInfo under RLock, lets the lock go, and     *)
(* takes s.mu again later (or never): the program counters below are those *)
(* gaps. A panic in any goroutine ends the process.                        *)
(***************************************************************************)
EXTENDS LocalNetwork

CONSTANTS
    Ops,     \* the RPCs that clients send
    Polite   \* do clients send one RPC at a time, and wait for healthy first?

AllOps == {"start", "health", "uris", "status", "remove", "restart", "stop"}

ASSUME OpsAssumption == Ops \subseteq AllOps

ASSUME PoliteAssumption == Polite \in BOOLEAN

VARIABLES
    closed,       \* s.closed, closed at the end of Run
    mu,           \* the write holder of s.mu; a read never outlasts one step
    network,      \* s.network
    clusterInfo,  \* s.clusterInfo, named by the network it was made with
    info,         \* the contents of each ClusterInfo ever published
    pc,           \* program counter of each handler
    req,          \* the request it serves
    cap,          \* the *ClusterInfo it has in hand
    watch         \* the watcher goroutine of each network, and whom it watches

serverVars == <<closed, mu, network, clusterInfo, info, pc, req, cap, watch>>
vars == <<proc, netVars, serverVars>>

NoReq == [op |-> "none", name |-> Nil, exec |-> Nil]
Requests == {[op |-> o, name |-> x, exec |-> e] :
                o \in Ops, x \in Names \cup {Nil}, e \in Execs \cup {Nil}}

\* A request carries a node name and a binary exactly when its message does.
WellFormed(r) ==
    /\ (r.name # Nil) <=> (r.op \in {"remove", "restart"})
    /\ (r.exec # Nil) <=> (r.op \in {"start", "restart"})

\* ClusterInfo. NodeInfos is nil, or the very map lc.nodeInfos of its network.
FreshInfo == [names |-> {}, hasInfos |-> FALSE, healthy |-> FALSE]
Showing(names, healthy) == [names |-> names, hasInfos |-> TRUE, healthy |-> healthy]

\* A handler keeps s.mu from one of these points to the next.
LockedPcs == {"removing", "removewait", "restarting", "adding", "restartwait",
              "stopping", "stopwait"}

Pcs == {"idle", "check", "start", "health", "healthwait", "remove", "restart",
        "stop", "reply"} \cup LockedPcs

-----------------------------------------------------------------------------
(* How a handler moves and ends.                                           *)

\* Where handler h is, while the process is there at all.
At(h, ls) == proc = "up" /\ pc[h] \in ls

Goto(h, l) == pc' = [pc EXCEPT ![h] = l]

\* The handler is over. An error takes no shared state out with it, so this is
\* all there is to returning one.
Finish(h) ==
    /\ Goto(h, "idle")
    /\ req' = [req EXCEPT ![h] = NoReq]
    /\ cap' = [cap EXCEPT ![h] = Nil]
    /\ wfh' = [wfh EXCEPT ![h] = NotWaiting]

\* Return a response that points at a ClusterInfo: gRPC marshals it after the
\* handler, and its deferred unlock, are over.
ReturnInfo(h, i) ==
    /\ Goto(h, "reply")
    /\ cap' = [cap EXCEPT ![h] = i]
    /\ req' = [req EXCEPT ![h] = NoReq]
    /\ wfh' = [wfh EXCEPT ![h] = NotWaiting]

Panic(site) ==
    /\ proc' = site
    /\ UNCHANGED <<netVars, serverVars>>

UnchangedLib == UNCHANGED <<proc, nw, node, cfg, readyc, stopc, donec, errc, starter>>

\* What the client is free to send: anything, or, when Polite, one RPC at a time
\* and nothing that needs a network before it has seen Healthy (Status and URIs
\* are how it looks). Nothing in the repository keeps a client to the latter.
ClientMaySend(h, op) ==
    Polite => /\ \A g \in Handlers : pc[g] = "idle"
              /\ op \in {"start", "status", "uris"} \/
                    (clusterInfo # Nil /\ info[clusterInfo].healthy)

Receive(h) ==
    /\ At(h, {"idle"})
    /\ ~closed
    /\ \E r \in Requests :
         /\ WellFormed(r)
         /\ ClientMaySend(h, r.op)
         /\ req' = [req EXCEPT ![h] = r]
    /\ Goto(h, "check")
    /\ UNCHANGED <<proc, netVars, closed, mu, network, clusterInfo, info, cap, watch>>

\* The response has been marshalled (or, for URIs, the map was ranged over).
Replied(h) ==
    /\ At(h, {"reply"})
    /\ Finish(h)
    /\ UnchangedLib
    /\ UNCHANGED <<nodeInfos, nodeNames, closed, mu, network, clusterInfo, info, watch>>

\* s.getClusterInfo() == nil at the top of every RPC but Start.
Bootstrapped_Unchecked == TRUE   \* mutant: no ErrNotBootstrapped
Bootstrapped == clusterInfo # Nil

Check(h) ==
    /\ At(h, {"check"})
    /\ mu = Nil
    /\ req[h].op # "start"
    /\ \/ /\ ~Bootstrapped
          /\ Finish(h)
       \/ /\ Bootstrapped
          /\ req[h].op \in {"status", "uris"}
          /\ ReturnInfo(h, clusterInfo)
       \/ /\ Bootstrapped
          /\ req[h].op \notin {"status", "uris"}
          /\ Goto(h, req[h].op)
          /\ cap' = [cap EXCEPT ![h] = clusterInfo]
          /\ UNCHANGED <<req, wfh>>
    /\ UnchangedLib
    /\ UNCHANGED <<nodeInfos, nodeNames, closed, mu, network, clusterInfo, info, watch>>

-----------------------------------------------------------------------------
(* Start                                                                   *)

\* ErrAlreadyBootstrapped, or TempDir or Stat failed; or on to the lock.
StartCheck(h) ==
    /\ At(h, {"check"})
    /\ mu = Nil
    /\ req[h].op = "start"
    /\ \/ Finish(h)
       \/ /\ clusterInfo = Nil
          /\ Goto(h, "start")
          /\ UNCHANGED <<req, cap, wfh>>
    /\ UnchangedLib
    /\ UNCHANGED <<nodeInfos, nodeNames, closed, mu, network, clusterInfo, info, watch>>

\* The second look at s.network, under the lock.
StartAdmitted_Unchecked == TRUE   \* mutant: the second look is dropped
StartAdmitted == network = Nil

\* ErrAlreadyBootstrapped; or newNetwork failed and left s.network nil, as it was.
StartRefused(h) ==
    /\ At(h, {"start"})
    /\ mu = Nil
    /\ Finish(h)
    /\ UnchangedLib
    /\ UNCHANGED <<nodeInfos, nodeNames, closed, mu, network, clusterInfo, info, watch>>

\* One critical section: the new network and its ClusterInfo are published and
\* the two goroutines, start() and the watcher, begin to run.
StartNetwork(h) ==
    /\ At(h, {"start"})
    /\ mu = Nil
    /\ StartAdmitted
    /\ \E n \in Nets :
         /\ starter[n] = "unborn"
         /\ NewLocalNetwork(n, req[h].exec)
         /\ network' = n
         /\ clusterInfo' = n
         /\ info' = [info EXCEPT ![n] = FreshInfo]
         /\ watch' = [watch EXCEPT ![n] = [at |-> "born", net |-> Nil]]
         /\ ReturnInfo(h, n)
    /\ UNCHANGED <<proc, nw, node, readyc, stopc, donec, errc, closed, mu>>

-----------------------------------------------------------------------------
(* Health                                                                  *)

\* s.network.waitForHealthy(), read and called without the lock.
HealthWait(h) ==
    /\ At(h, {"health"})
    /\ network # Nil
    /\ EnterWaitForHealthy(h, network)
    /\ Goto(h, "healthwait")
    /\ UnchangedLib
    /\ UNCHANGED <<nodeInfos, nodeNames, closed, mu, network, clusterInfo, info,
                   req, cap, watch>>

HealthPanics(h) ==
    \/ /\ At(h, {"health"})
       /\ network = Nil
       /\ Panic("s.network")
    \/ /\ At(h, {"health"})
       /\ network # Nil
       /\ nw[network] = "nil"
       /\ Panic("lc.nw")
    \/ /\ At(h, {"healthwait"})
       /\ wfh[h].at = "ok"
       /\ mu = Nil
       /\ network = Nil
       /\ Panic("s.network")

HealthFails(h) ==
    /\ At(h, {"healthwait"})
    /\ wfh[h].at = "err"
    /\ Finish(h)
    /\ UnchangedLib
    /\ UNCHANGED <<nodeInfos, nodeNames, closed, mu, network, clusterInfo, info, watch>>

\* The names are rebuilt from the map, for whatever network is current now.
HealthDone(h) ==
    /\ At(h, {"healthwait"})
    /\ wfh[h].at = "ok"
    /\ mu = Nil
    /\ network # Nil
    /\ nodeNames' = [nodeNames EXCEPT ![network] = Listed(network)]
    /\ info' = [info EXCEPT ![clusterInfo] = Showing(Listed(network), @.healthy)]
    /\ ReturnInfo(h, clusterInfo)
    /\ UnchangedLib
    /\ UNCHANGED <<nodeInfos, closed, mu, network, clusterInfo, watch>>

-----------------------------------------------------------------------------
(* RemoveNode and RestartNode: the lock is held to the end, the wait for   *)
(* healthy included.                                                       *)

\* Mutant: the look-up comes before s.mu is taken, in the network of that time.
LookedUpIn_Early(h) == cap[h]

\* The network in whose nodeInfos the node is looked up: s.network, under the lock.
LookedUpIn(h) == network

NodeFound(h) == req[h].name \in Listed(LookedUpIn(h))

\* Under the lock, s.network is nil when a Stop came first, and lc.nw is nil
\* until start() has set it.
NodeOpPanics(h) ==
    /\ At(h, {"remove", "restart"})
    /\ mu = Nil
    /\ \/ /\ network = Nil
          /\ Panic("s.network")
       \/ /\ network # Nil
          /\ NodeFound(h)
          /\ nw[network] = "nil"
          /\ Panic("lc.nw")

\* ErrNodeNotFound
NodeNotFound(h) ==
    /\ At(h, {"remove", "restart"})
    /\ mu = Nil
    /\ network # Nil
    /\ ~NodeFound(h)
    /\ Finish(h)
    /\ UnchangedLib
    /\ UNCHANGED <<nodeInfos, nodeNames, closed, mu, network, clusterInfo, info, watch>>

RemoveBegin(h) ==
    /\ At(h, {"remove"})
    /\ mu = Nil
    /\ network # Nil
    /\ NodeFound(h)
    /\ nw[network] # "nil"
    /\ mu' = h
    /\ Goto(h, "removing")
    /\ UnchangedLib
    /\ UNCHANGED <<nodeInfos, nodeNames, wfh, closed, network, clusterInfo, info,
                   req, cap, watch>>

\* The NodeInfo gets the new binary, through the pointer that the look-up
\* returned, before anything has been tried.
RestartBegin(h) ==
    /\ At(h, {"restart"})
    /\ mu = Nil
    /\ network # Nil
    /\ NodeFound(h)
    /\ nw[network] # "nil"
    /\ mu' = h
    /\ nodeInfos' = [nodeInfos EXCEPT ![LookedUpIn(h)][req[h].name].exec = req[h].exec]
    /\ Goto(h, "restarting")
    /\ UnchangedLib
    /\ UNCHANGED <<nodeNames, wfh, closed, network, clusterInfo, info, req, cap, watch>>

\* An error of nw.RemoveNode, of nw.AddNode or of waitForHealthy: return it and
\* leave everything as it is by now.
NodeOpFails(h) ==
    /\ \/ At(h, {"removing", "restarting", "adding"})
       \/ At(h, {"removewait", "restartwait"}) /\ wfh[h].at = "err"
    /\ mu' = Nil
    /\ Finish(h)
    /\ UnchangedLib
    /\ UNCHANGED <<nodeInfos, nodeNames, closed, network, clusterInfo, info, watch>>

\* Somebody reads the map lc.nodeInfos without the lock: a response being
\* marshalled, a range in URIs, or the loop of waitForHealthy.
MapBeingRead(h) ==
    \/ \E g \in Handlers \ {h} :
         pc[g] = "reply" /\ cap[g] = network /\ info[network].hasInfos
    \/ \E t \in Threads \ {h} : wfh[t].at = "update" /\ wfh[t].net = network

\* nw.RemoveNode succeeded: delete the entry, rebuild the names, publish them.
DeletePanics(h) ==
    /\ At(h, {"removing"})
    /\ req[h].name \in Running(network)
    /\ MapBeingRead(h)
    /\ Panic("map")

RemainingNames_Stale(h) == nodeNames[network]   \* mutant: names not rebuilt
RemainingNames(h) == Listed(network) \ {req[h].name}

\* Mutant: the entry is deleted whether or not nw.RemoveNode succeeded.
NwRemoved_Unchecked(h) == nw[network] = "running"
NwRemoved(h) == req[h].name \in Running(network)

\* Mutant: s.network.nw.RemoveNode is not called.
AfterNwRemove_NotCalled(h) == node
AfterNwRemove(h) ==
    [node EXCEPT ![network][req[h].name] = [up |-> FALSE, port |-> @.port, exec |-> @.exec]]

\* Mutant: no delete(s.network.nodeInfos, req.Name).
AfterDelete_NotCalled(h) == nodeInfos
AfterDelete(h) == [nodeInfos EXCEPT ![network][req[h].name] = Unlisted]

RemoveDelete(h) ==
    /\ At(h, {"removing"})
    /\ NwRemoved(h)
    /\ node' = AfterNwRemove(h)
    /\ nodeInfos' = AfterDelete(h)
    /\ nodeNames' = [nodeNames EXCEPT ![network] = RemainingNames(h)]
    /\ info' = [info EXCEPT ![clusterInfo] = Showing(RemainingNames(h), @.healthy)]
    /\ EnterWaitForHealthy(h, network)
    /\ Goto(h, "removewait")
    /\ UNCHANGED <<proc, nw, cfg, readyc, stopc, donec, errc, starter, closed, mu,
                   network, clusterInfo, req, cap, watch>>

RemoveDone(h) ==
    /\ At(h, {"removewait"})
    /\ wfh[h].at = "ok"
    /\ mu' = Nil
    /\ ReturnInfo(h, clusterInfo)
    /\ UnchangedLib
    /\ UNCHANGED <<nodeInfos, nodeNames, closed, network, clusterInfo, info, watch>>

\* RestartNode: the old process goes ...
RestartRemoves(h) ==
    /\ At(h, {"restarting"})
    /\ NwRemoved(h)
    /\ node' = AfterNwRemove(h)
    /\ Goto(h, "adding")
    /\ UNCHANGED <<proc, nw, nodeInfos, nodeNames, cfg, readyc, stopc, donec, errc,
                   starter, wfh, closed, mu, network, clusterInfo, info, req, cap, watch>>

\* nodeConfig, as far as it matters: its BinaryPath.
NewNodeConfig_CopyLost(h) == cfg[network][req[h].name]   \* mutant: lcfg not put back
NewNodeConfig(h) == req[h].exec

\* ... and one with the new binary comes up, on a port of its own.
RestartAdds(h) ==
    LET x == req[h].name IN
    /\ At(h, {"adding"})
    /\ node[network][x].port < MaxPort
    /\ node' = [node EXCEPT ![network][x] =
            [up |-> TRUE, port |-> node[network][x].port + 1, exec |-> NewNodeConfig(h)]]
    /\ EnterWaitForHealthy(h, network)
    /\ Goto(h, "restartwait")
    /\ UNCHANGED <<proc, nw, nodeInfos, nodeNames, cfg, readyc, stopc, donec, errc,
                   starter, closed, mu, network, clusterInfo, info, req, cap, watch>>

RestartDone(h) ==
    /\ At(h, {"restartwait"})
    /\ wfh[h].at = "ok"
    /\ mu' = Nil
    /\ cfg' = [cfg EXCEPT ![network][req[h].name] = NewNodeConfig(h)]
    /\ info' = [info EXCEPT ![clusterInfo] = Showing(@.names, @.healthy)]
    /\ ReturnInfo(h, clusterInfo)
    /\ UNCHANGED <<proc, nw, node, nodeInfos, nodeNames, readyc, stopc, donec, errc,
                   starter, closed, network, clusterInfo, watch>>

-----------------------------------------------------------------------------
(* Stop                                                                    *)

StopBegin(h) ==
    /\ At(h, {"stop"})
    /\ mu = Nil
    /\ network # Nil
    /\ mu' = h
    /\ CloseStopc(network)
    /\ Goto(h, "stopping")
    /\ UNCHANGED <<proc, nw, node, nodeInfos, nodeNames, cfg, readyc, donec, errc,
                   starter, wfh, closed, network, clusterInfo, info, req, cap, watch>>

StopPanics(h) ==
    \/ /\ At(h, {"stop"})
       /\ mu = Nil
       /\ network = Nil
       /\ Panic("s.network")
    \/ /\ At(h, {"stopping"})
       /\ nw[network] = "nil"
       /\ Panic("lc.nw")

StopNetwork(h) ==
    /\ At(h, {"stopping"})
    /\ NwStop(network)
    /\ Goto(h, "stopwait")
    /\ UNCHANGED <<proc, nodeInfos, nodeNames, cfg, readyc, stopc, donec, errc, starter,
                   wfh, closed, mu, network, clusterInfo, info, req, cap, watch>>

StopReplies_Cleared(h) == Nil   \* mutant: respond with s.clusterInfo, now nil
StopReplies(h) == cap[h]

\* start() is over: forget the network. info, read before the lock, is marked
\* unhealthy and sent back.
StopDone(h) ==
    /\ At(h, {"stopwait"})
    /\ StarterGone(network)
    /\ mu' = Nil
    /\ network' = Nil
    /\ clusterInfo' = Nil
    /\ info' = [info EXCEPT ![cap[h]] =
            [names |-> @.names, hasInfos |-> @.hasInfos, healthy |-> FALSE]]
    /\ ReturnInfo(h, StopReplies(h))
    /\ UnchangedLib
    /\ UNCHANGED <<nodeInfos, nodeNames, closed, watch>>

-----------------------------------------------------------------------------
(* The watcher goroutine of Start, and the end of Run.                     *)

WatcherAt(n, l) == proc = "up" /\ watch[n].at = l

\* The operands of its select: s.network is read here, without the lock.
WatchSelect(n) ==
    /\ WatcherAt(n, "born")
    /\ \/ /\ network # Nil
          /\ watch' = [watch EXCEPT ![n] = [at |-> "select", net |-> network]]
          /\ UNCHANGED <<proc, closed, mu, network, clusterInfo, info, pc, req, cap>>
       \/ /\ network = Nil
          /\ proc' = "s.network"
          /\ UNCHANGED serverVars
    /\ UNCHANGED netVars

WatchDone == [at |-> "done", net |-> Nil]

\* <-s.closed or <-s.network.stopc
WatchGivesUp(n) ==
    /\ WatcherAt(n, "select")
    /\ closed \/ stopc[watch[n].net]
    /\ watch' = [watch EXCEPT ![n] = WatchDone]
    /\ UNCHANGED <<proc, netVars, closed, mu, network, clusterInfo, info, pc, req, cap>>

ReadyFired_OnDone(n) == donec[watch[n].net]   \* mutant: <-s.network.donec
ReadyFired(n) == readyc[watch[n].net]

\* <-s.network.readyc, which wins even if stopc is closed as well.
WatchReady(n) ==
    /\ WatcherAt(n, "select")
    /\ ReadyFired(n)
    /\ watch' = [watch EXCEPT ![n] = [at |-> "ready", net |-> @.net]]
    /\ UNCHANGED <<proc, netVars, closed, mu, network, clusterInfo, info, pc, req, cap>>

\* Mutant: the watcher forgets s.clusterInfo.Healthy = true.
PublishedInfo_Unhealthy == Showing(nodeNames[network], info[clusterInfo].healthy)
PublishedInfo == Showing(nodeNames[network], TRUE)

\* With s.mu held, s.network and s.clusterInfo are read again.
WatchPublish(n) ==
    /\ WatcherAt(n, "ready")
    /\ mu = Nil
    /\ \/ /\ network # Nil
          /\ info' = [info EXCEPT ![clusterInfo] = PublishedInfo]
          /\ watch' = [watch EXCEPT ![n] = WatchDone]
          /\ UNCHANGED <<proc, closed, mu, network, clusterInfo, pc, req, cap>>
       \/ /\ network = Nil
          /\ proc' = "s.network"
          /\ UNCHANGED serverVars
    /\ UNCHANGED netVars

\* Run is over: no new RPC arrives, handlers and goroutines still run ...
CloseServer ==
    /\ proc = "up"
    /\ ~closed
    /\ closed' = TRUE
    /\ UNCHANGED <<proc, netVars, mu, network, clusterInfo, info, pc, req, cap, watch>>

\* ... until main returns.
Exit ==
    /\ proc = "up"
    /\ closed
    /\ proc' = "exited"
    /\ UNCHANGED <<netVars, serverVars>>

-----------------------------------------------------------------------------

Init ==
    /\ NetInit
    /\ closed = FALSE
    /\ mu = Nil
    /\ network = Nil
    /\ clusterInfo = Nil
    /\ info = [n \in Nets |-> FreshInfo]
    /\ pc = [h \in Handlers |-> "idle"]
    /\ req = [h \in Handlers |-> NoReq]
    /\ cap = [h \in Handlers |-> Nil]
    /\ watch = [n \in Nets |-> [at |-> "unborn", net |-> Nil]]

\* Everything a handler does of its own accord once it has a request.
HandlerStep(h) ==
    \/ Replied(h)
    \/ Check(h)
    \/ StartCheck(h) \/ StartRefused(h) \/ StartNetwork(h)
    \/ HealthWait(h) \/ HealthPanics(h) \/ HealthFails(h) \/ HealthDone(h)
    \/ NodeOpPanics(h) \/ NodeNotFound(h) \/ NodeOpFails(h)
    \/ RemoveBegin(h) \/ DeletePanics(h) \/ RemoveDelete(h) \/ RemoveDone(h)
    \/ RestartBegin(h) \/ RestartRemoves(h) \/ RestartAdds(h) \/ RestartDone(h)
    \/ StopBegin(h) \/ StopPanics(h) \/ StopNetwork(h) \/ StopDone(h)

WatchStep(n) == WatchSelect(n) \/ WatchGivesUp(n) \/ WatchReady(n) \/ WatchPublish(n)

NetStep ==
    \/ \E n \in Nets : Launch(n) /\ UNCHANGED serverVars
    \/ \E n \in Nets : LaunchFails(n) /\ UNCHANGED serverVars
    \/ \E n \in Nets : StarterReturns(n) /\ UNCHANGED serverVars
    \/ \E t \in Threads : WaitAborted(t) /\ UNCHANGED serverVars
    \/ \E t \in Threads : WaitFails(t) /\ UNCHANGED serverVars
    \/ \E t \in Threads : NodesReported(t) /\ UNCHANGED serverVars
    \/ \E t \in Threads : UpdateNodeInfos(t) /\ UNCHANGED serverVars
    \/ \E t \in Threads : UpdatePanics(t) /\ UNCHANGED serverVars

Next ==
    \/ \E h \in Handlers : Receive(h) \/ HandlerStep(h)
    \/ \E n \in Nets : WatchStep(n)
    \/ NetStep
    \/ CloseServer
    \/ Exit

Spec == Init /\ [][Next]_vars

\* Go schedules every goroutine that can run, and its RWMutex hands the lock to
\* those who wait; waitForHealthy carries a two-minute timeout; a select does
\* not ignore a ready case for ever; after Run, main returns.
Fairness ==
    /\ \A h \in Handlers : SF_vars(HandlerStep(h))
    /\ \A n \in Nets : WF_vars(StarterStep(n) /\ UNCHANGED serverVars)
    /\ \A n \in Nets : SF_vars(WatchStep(n))
    /\ \A t \in Threads : WF_vars(WaitStep(t) /\ UNCHANGED serverVars)
    /\ WF_vars(Exit)

FairSpec == Spec /\ Fairness

-----------------------------------------------------------------------------
(* Properties.                                                             *)

\* Types; and a handler that replies has a ClusterInfo to reply with, which
\* the caller's resp.ClusterInfo relies on.
TypeOK ==
    /\ NetTypeOK
    /\ closed \in BOOLEAN
    /\ mu \in Handlers \cup {Nil}
    /\ network \in Nets \cup {Nil}
    /\ clusterInfo \in Nets \cup {Nil}
    /\ info \in [Nets -> [names: SUBSET Names, hasInfos: BOOLEAN, healthy: BOOLEAN]]
    /\ pc \in [Handlers -> Pcs]
    /\ req \in [Handlers -> [op: AllOps \cup {"none"}, name: Names \cup {Nil},
                             exec: Execs \cup {Nil}]]
    /\ cap \in [Handlers -> Nets \cup {Nil}]
    /\ watch \in [Nets -> [at: {"unborn", "born", "select", "ready", "done"},
                           net: Nets \cup {Nil}]]
    /\ \A h \in Handlers : pc[h] = "reply" => cap[h] \in Nets

\* Never two clusters: whatever Starts and Stops overlap, every network the
\* server has let go of is stopped, its start() goroutine is over and none of
\* its processes is left (as long as lc.nw.Stop itself does its work).
OneCluster ==
    ~NwStopMayFail =>
        \A n \in Nets \ {network} :
            starter[n] # "unborn" =>
                starter[n] = "done" /\ nw[n] = "stopped" /\ Running(n) = {}

\* Between critical sections the three copies of the node list agree: lc.nodeNames
\* with lc.nodeInfos, and what ClusterInfo shows, once it shows any names, with
\* both; a Healthy ClusterInfo shows them all, failed RemoveNodes included.
ListingAgrees ==
    mu = Nil /\ network # Nil =>
        LET ci == info[clusterInfo] IN
        /\ nodeNames[network] = Listed(network)
        /\ ci.names \in {{}, Listed(network)}
        /\ ci.healthy => ci.hasInfos /\ ci.names = Listed(network)

\* No avalanchego process runs under a name the server no longer lists: no
\* interleaving or partial failure of RemoveNode and RestartNode loses one.
NoUnlistedProcess == \A n \in Nets : Running(n) \subseteq Listed(n)

\* Without a Stop, ErrNotBootstrapped is enough of a check: no handler or
\* watcher ever finds s.network or s.clusterInfo nil.
NilNetworkNeedsStop == "stop" \notin Ops => proc # "s.network"

\* A client that sends one RPC at a time, and Health, RemoveNode, RestartNode
\* and Stop only once it has seen Healthy, never brings the server down.
NeverPanics == Polite => proc \notin PanicSites

\* Health can be called right after Start to wait for the cluster, as the README
\* shows them in sequence: looking at a cluster never finds lc.nw nil.
LookingNeverPanics ==
    Ops \subseteq {"start", "health", "uris", "status"} => proc # "lc.nw"

\* Healthy is the truth: the network of a ClusterInfo that says so has been
\* through waitForHealthy.
HealthyIsReady == \A n \in Nets : info[n].healthy => readyc[n]

\* When a wait for healthy ends well, the URIs published are those of the
\* processes that run now, not of ones restarted since.
HealthReportsCurrentUris ==
    [][\A h \in Handlers :
         pc[h] \in {"healthwait", "removewait", "restartwait"} /\ pc'[h] = "reply" =>
             \A x \in Running(network)' :
                 nodeInfos'[network][x].uri = node'[network][x].port]_vars

\* RestartNode that succeeds took effect: what runs under that name is the binary
\* asked for, and NodeInfo and NodeConfig both say so, whatever failed before and
\* though the cluster may be another one than when the RPC arrived.
RestartTakesEffect ==
    [][\A h \in Handlers :
         pc[h] = "restartwait" /\ pc'[h] = "reply" =>
             LET x == req[h].name
                 e == req[h].exec
             IN  /\ x \in Running(network) \cap Listed(network)
                 /\ node[network][x].exec = e
                 /\ nodeInfos[network][x].exec = e
                 /\ cfg'[network][x] = e]_vars

\* The whole server implements the lifecycle that ClusterLifecycle promises.
Abandoned == {n \in Nets : starter[n] # "unborn"} \ {network}

Phase ==
    IF network = Nil THEN "none"
    ELSE IF nw[network] = "nil" THEN "launching" ELSE nw[network]

Lifecycle == INSTANCE ClusterLifecycle WITH
    Clusters <- Nets,
    None <- Nil,
    current <- network,
    past <- Abandoned,
    phase <- Phase,
    booting <- network # Nil /\ starter[network] # "done",
    members <- IF network = Nil THEN {} ELSE Listed(network),
    running <- {p \in Nets \X Names : node[p[1]][p[2]].up},
    serving <- proc = "up"

\* Every step of a handler, watcher or start() goroutine is a step of the
\* lifecycle or leaves it alone. Where NwStopMayFail, this is not to be expected.
ImplementsLifecycle == Lifecycle!Spec

\* Every RPC ends, whatever it waits for: s.mu, the two minutes of
\* waitForHealthy, or the end of start() inside Stop.
RPCsReturn ==
    \A h \in Handlers : pc[h] # "idle" ~> pc[h] = "idle" \/ proc # "up"

\* A network that became ready is published as Healthy, unless it is stopped.
ReadyIsPublished ==
    \A n \in Nets : readyc[n] ~> info[n].healthy \/ network # n \/ proc # "up"

=============================================================================
