---------------------------- MODULE Panics_proofs ----------------------------
(***************************************************************************)
(* When the server does not panic: no nil s.network without a Stop, and no *)
(* panic at all for a client that sends one RPC at a time and waits for    *)
(* Healthy before it asks for more than Status and URIs.                   *)
(***************************************************************************)
EXTENDS Cluster_proofs

-----------------------------------------------------------------------------
(* Without a Stop.                                                         *)

\* Past Check a handler has seen a cluster, and a watcher was born with one.
NoStopInv ==
    "stop" \notin Ops =>
        /\ proc # "s.network"
        /\ \A h \in Handlers :
             /\ pc[h] \notin {"stop", "stopping", "stopwait"}
             /\ pc[h] \in {"health", "healthwait", "remove", "restart"} => network # Nil
        /\ \A n \in Nets : watch[n].at # "unborn" => network # Nil

LEMMA NoStopInit == Init => NoStopInv
  BY DEF Init, NetInit, NoStopInv

\* Handlers that go nowhere new, or only from one point of the same RPC to the next.
LEMMA NoStopMoves ==
  ASSUME LockInv, NoStopInv, UNCHANGED <<proc, network>>,
         NEW h \in Handlers, NEW l, pc' = [pc EXCEPT ![h] = l],
         l \in {"stop", "stopping", "stopwait"} => pc[h] \in {"stop", "stopping"},
         l \in {"health", "healthwait", "remove", "restart"} => network # Nil,
         \A n \in Nets : watch'[n].at # "unborn" => watch[n].at # "unborn"
  PROVE  NoStopInv'
  BY DEF LockInv, TypeOK, NoStopInv

LEMMA NoStopHandler ==
  ASSUME LockInv, NoStopInv, "stop" \notin Ops, NEW h \in Handlers, Receive(h) \/ HandlerStep(h)
  PROVE  NoStopInv'
  <1>1. pc[h] \notin {"stop", "stopping", "stopwait"} /\ (pc[h] = "check" => req[h].op \in Ops)
    BY DEF NoStopInv, LockInv, InCriticalSection
  <1>2. CASE Receive(h)
    BY <1>2, NoStopMoves DEF Receive, Goto
  <1>3. CASE Check(h)
    <2>1. CASE Finish(h)
      BY <1>3, <2>1, NoStopMoves DEF Check, Finish, Goto, UnchangedLib
    <2>2. CASE ReturnInfo(h, clusterInfo)
      BY <1>3, <2>2, NoStopMoves DEF Check, ReturnInfo, Goto, UnchangedLib
    <2>3. CASE Bootstrapped /\ Goto(h, req[h].op)
      <3>1. req[h].op # "stop" /\ network # Nil
        BY <1>1, <1>3, <2>3 DEF Check, At, Bootstrapped, LockInv, SameCluster
      <3>2. pc' = [pc EXCEPT ![h] = req[h].op] /\ UNCHANGED <<proc, network, watch>>
        BY <1>3, <2>3 DEF Check, Goto, UnchangedLib
      <3>3. req[h].op \notin {"stop", "stopping", "stopwait"}
        BY <1>1, <1>3, <3>1, OpsAssumption DEF Check, At, AllOps
      <3> QED
        BY <3>1, <3>2, <3>3, NoStopMoves
    <2> QED
      BY <1>3, <2>1, <2>2, <2>3 DEF Check
  <1>4. CASE Replied(h) \/ StartRefused(h) \/ HealthFails(h) \/ NodeNotFound(h) \/ NodeOpFails(h)
    BY <1>4, NoStopMoves
    DEF Replied, StartRefused, HealthFails, NodeNotFound, NodeOpFails, Finish, Goto, UnchangedLib
  <1>5. CASE StartCheck(h)
    BY <1>5, NoStopMoves DEF StartCheck, Finish, Goto, UnchangedLib
  <1>6. CASE StartNetwork(h)
    <2>1. network' \in Nets /\ pc' = [pc EXCEPT ![h] = "reply"] /\ UNCHANGED proc
      BY <1>6 DEF StartNetwork, ReturnInfo, Goto
    <2> QED
      BY <2>1, DomainsAssumption DEF LockInv, TypeOK, NoStopInv
  <1>7. CASE HealthWait(h) \/ HealthDone(h)
    BY <1>7, NoStopMoves DEF HealthWait, HealthDone, ReturnInfo, Goto, UnchangedLib
  <1>8. CASE HealthPanics(h) \/ NodeOpPanics(h) \/ DeletePanics(h) \/ StopPanics(h)
    BY <1>1, <1>8
    DEF HealthPanics, NodeOpPanics, DeletePanics, StopPanics, Panic, At, serverVars, NoStopInv
  <1>9. CASE RemoveBegin(h) \/ RemoveDelete(h) \/ RemoveDone(h)
    BY <1>9, NoStopMoves
    DEF RemoveBegin, RemoveDelete, RemoveDone, ReturnInfo, Goto, UnchangedLib
  <1>10. CASE RestartBegin(h) \/ RestartRemoves(h) \/ RestartAdds(h) \/ RestartDone(h)
    <2>1. /\ UNCHANGED <<proc, network, watch>>
          /\ \E l \in {"restarting", "adding", "restartwait", "reply"} : pc' = [pc EXCEPT ![h] = l]
      BY <1>10
      DEF RestartBegin, RestartRemoves, RestartAdds, RestartDone, ReturnInfo, Goto, UnchangedLib
    <2> QED
      BY <2>1, NoStopMoves
  <1>11. ~(StopBegin(h) \/ StopNetwork(h) \/ StopDone(h))
    BY <1>1 DEF StopBegin, StopNetwork, StopDone, At
  <1> QED
    BY <1>2, <1>3, <1>4, <1>5, <1>6, <1>7, <1>8, <1>9, <1>10, <1>11 DEF HandlerStep

LEMMA NoStopWatch ==
  ASSUME LockInv, NoStopInv, "stop" \notin Ops, NEW n \in Nets, WatchStep(n)
  PROVE  NoStopInv'
  <1>1. watch[n].at # "unborn" /\ network # Nil
    BY DEF WatchStep, WatchSelect, WatchGivesUp, WatchReady, WatchPublish, WatcherAt, NoStopInv
  <1>2. UNCHANGED <<proc, network, pc>>
    BY <1>1 DEF WatchStep, WatchSelect, WatchGivesUp, WatchReady, WatchPublish, netVars
  <1> QED
    BY <1>1, <1>2 DEF NoStopInv

LEMMA NoStopNext == LockInv /\ NoStopInv /\ [Next]_vars => NoStopInv'
  <1> SUFFICES ASSUME LockInv, NoStopInv, [Next]_vars, "stop" \notin Ops PROVE NoStopInv'
    BY DEF NoStopInv
  <1>1. CASE NetStep
    BY <1>1 DEF NetStep, Launch, LaunchFails, StarterReturns, WaitAborted, WaitFails,
                NodesReported, UpdateNodeInfos, UpdatePanics, serverVars, NoStopInv
  <1>2. CASE CloseServer \/ Exit \/ UNCHANGED vars
    BY <1>2 DEF CloseServer, Exit, vars, serverVars, NoStopInv
  <1> QED
    BY <1>1, <1>2, NoStopHandler, NoStopWatch DEF Next

\* As long as no client sends Stop, the check at the top of every RPC is enough: no
\* handler and no watcher dereferences a nil s.network or s.clusterInfo.
THEOREM NilNetworkNeedsStopHolds == Spec => []NilNetworkNeedsStop
  <1>1. NoStopInv => NilNetworkNeedsStop
    BY DEF NoStopInv, NilNetworkNeedsStop
  <1> QED
    BY <1>1, LockInvariant, NoStopInit, NoStopNext, PTL DEF Spec

-----------------------------------------------------------------------------
(* A polite client.                                                        *)

\* A handler that needs a network: beyond its check, or with the check to come.
Busy(h) ==
    \/ pc[h] \in {"health", "healthwait", "remove", "restart", "stop"} \cup LockedPcs
    \/ pc[h] = "check" /\ req[h].op \notin {"start", "status", "uris"}

\* One RPC at a time, and nothing but looking before the client has seen Healthy.
SoloInv == \A g, h \in Handlers : g = h \/ pc[g] = "idle" \/ pc[h] = "idle"
BusyInv == \A h \in Handlers : Busy(h) => network # Nil /\ info[network].healthy

\* Who is in waitForHealthy, for which network, and what it may have seen there.
WaitInv ==
    /\ \A h \in Handlers :
         wfh[h].at # "idle" => pc[h] \in WaitPcs /\ wfh[h].net = network
    /\ \A n \in Nets : wfh[n].at # "idle" => starter[n] = "waiting" /\ wfh[n].net = n
    /\ \A t \in Threads, x \in Names :
         wfh[t].at = "update" /\ wfh[t].seen[x] # NoPort => x \in Listed(wfh[t].net)

\* A ready network has lc.nw, and its start() goroutine is past the loop of
\* waitForHealthy.
ReadyInv ==
    \A n \in Nets :
        /\ starter[n] = "waiting" => nw[n] # "nil"
        /\ readyc[n] =>
             /\ starter[n] \in {"waiting", "done"}
             /\ nw[n] # "nil"
             /\ wfh[n].at \in {"idle", "ok"}

\* A watcher is over before its network can be stopped: whoever says Healthy has
\* been published by it.
WatchInv ==
    \A n \in Nets :
        /\ watch[n].at \in {"born", "select", "ready"} => network = n
        /\ watch[n].at \in {"select", "ready"} => watch[n].net = n
        /\ watch[n].at = "ready" => readyc[n]
        /\ info[n].healthy => readyc[n] /\ watch[n].at = "done"
        /\ starter[n] = "unborn" => ~info[n].healthy /\ ~readyc[n]

PoliteInv ==
    /\ proc \notin PanicSites
    /\ SoloInv
    /\ BusyInv
    /\ WaitInv
    /\ ReadyInv
    /\ WatchInv

LEMMA PoliteInit == Init => PoliteInv
  <1> SUFFICES ASSUME Init PROVE PoliteInv
    OBVIOUS
  <1>1. \A t \in Threads : wfh[t].at = "idle"
    BY DEF Init, NetInit, NotWaiting
  <1>2. \A n \in Nets : ~readyc[n] /\ ~info[n].healthy /\ starter[n] = "unborn"
    BY DEF Init, NetInit, FreshInfo
  <1>3. WaitInv /\ ReadyInv /\ WatchInv
    BY <1>1, <1>2 DEF Init, NetInit, Threads, WaitInv, ReadyInv, WatchInv
  <1> QED
    BY <1>3 DEF Init, NetInit, PoliteInv, SoloInv, BusyInv, Busy, LockedPcs, PanicSites

LEMMA PoliteFacts ==
  ASSUME ClusterInv
  PROVE  /\ network \in Nets \cup {Nil} /\ Nil \notin Nets /\ clusterInfo = network
         /\ nw \in [Nets -> {"nil", "running", "stopped"}]
         /\ starter \in [Nets -> {"unborn", "launching", "waiting", "done"}]
         /\ readyc \in [Nets -> BOOLEAN]
         /\ info \in [Nets -> [names: SUBSET Names, hasInfos: BOOLEAN, healthy: BOOLEAN]]
         /\ pc \in [Handlers -> Pcs]
         /\ wfh \in [Threads -> WaitType]
         /\ \A t \in Threads : wfh[t].at # "idle" => wfh[t].net \in Nets
         /\ Handlers \subseteq Threads /\ Nets \subseteq Threads /\ Handlers \cap Nets = {}
         /\ nodeInfos \in [Nets -> [Names -> NodeInfo]]
         /\ nodeNames \in [Nets -> SUBSET Names]
         /\ watch \in [Nets -> [at: {"unborn", "born", "select", "ready", "done"},
                                net: Nets \cup {Nil}]]
  BY DomainsAssumption
  DEF ClusterInv, LockInv, TypeOK, NetTypeOK, SameCluster, Threads, WaitType

\* While one handler is busy, nobody else is anywhere near the loop of waitForHealthy
\* for the current network.
LEMMA NobodyElseUpdates ==
  ASSUME ClusterInv, PoliteInv, NEW h \in Handlers, Busy(h), NEW t \in Threads \ {h},
         wfh[t].net = network
  PROVE  wfh[t].at # "update"
  <1>1. CASE t \in Handlers
    <2>1. pc[t] = "idle"
      BY <1>1 DEF PoliteInv, SoloInv, Busy, LockedPcs
    <2> QED
      BY <1>1, <2>1 DEF PoliteInv, WaitInv, WaitPcs
  <1>2. CASE t \in Nets
    <2>1. readyc[network] /\ network \in Nets
      BY PoliteFacts DEF PoliteInv, BusyInv, WatchInv
    <2> QED
      BY <1>2, <2>1 DEF PoliteInv, WaitInv, ReadyInv
  <1> QED
    BY <1>1, <1>2 DEF Threads

LEMMA PoliteHandlerCalm ==
  ASSUME ClusterInv, PoliteInv, NEW h \in Handlers
  PROVE  ~(HealthPanics(h) \/ NodeOpPanics(h) \/ DeletePanics(h) \/ StopPanics(h))
  <1>1. Busy(h) => network \in Nets /\ nw[network] # "nil"
    BY PoliteFacts DEF PoliteInv, BusyInv, WatchInv, ReadyInv
  <1>2. ~HealthPanics(h) /\ ~NodeOpPanics(h) /\ ~StopPanics(h)
    BY <1>1, PoliteFacts DEF HealthPanics, NodeOpPanics, StopPanics, At, Busy, LockedPcs
  <1>3. ~DeletePanics(h)
    <2> SUFFICES ASSUME pc[h] = "removing" PROVE ~MapBeingRead(h)
      BY DEF DeletePanics, At
    <2>1. Busy(h) /\ \A g \in Handlers \ {h} : pc[g] = "idle"
      BY DEF Busy, LockedPcs, PoliteInv, SoloInv
    <2> QED
      BY <2>1, NobodyElseUpdates DEF MapBeingRead
  <1> QED
    BY <1>2, <1>3

LEMMA PoliteWaitCalm ==
  ASSUME ClusterInv, PoliteInv, NEW t \in Threads PROVE ~UpdatePanics(t)
  <1> SUFFICES ASSUME wfh[t].at = "update", NEW u \in Threads \ {t}, wfh[u].at = "update",
                      wfh[u].net = wfh[t].net
               PROVE  FALSE
    BY DEF UpdatePanics, WaiterAt, PoliteInv, WaitInv
  <1>1. ASSUME NEW h \in Handlers, wfh[h].at = "update" PROVE Busy(h) /\ wfh[h].net = network
    BY <1>1 DEF PoliteInv, WaitInv, WaitPcs, Busy, LockedPcs
  <1>2. t \in Nets /\ u \in Nets
    BY <1>1, NobodyElseUpdates DEF Threads
  <1> QED
    BY <1>2 DEF PoliteInv, WaitInv

LEMMA PoliteWatchCalm ==
  ASSUME ClusterInv, PoliteInv, NEW n \in Nets, WatchStep(n) PROVE UNCHANGED <<proc, network>>
  <1>1. network = n /\ n # Nil
    BY PoliteFacts
    DEF WatchStep, WatchSelect, WatchGivesUp, WatchReady, WatchPublish, WatcherAt, PoliteInv,
        WatchInv
  <1> QED
    BY <1>1 DEF WatchStep, WatchSelect, WatchGivesUp, WatchReady, WatchPublish

-----------------------------------------------------------------------------
(* Steps of the one handler that is not idle.                              *)

\* What the step of handler h does to the others' state: little.
LEMMA PoliteMove ==
  ASSUME ClusterInv, ClusterInv', PoliteInv, NEW h \in Handlers,
         \A g \in Handlers \ {h} : pc[g] = "idle" /\ pc'[g] = "idle",
         UNCHANGED <<proc, network, starter, readyc, watch>>,
         \A n \in Nets : nw[n] # "nil" => nw'[n] # "nil",
         \A n \in Nets : info'[n].healthy = info[n].healthy,
         \A n \in Nets : Listed(n) \subseteq Listed(n)' \/ (Busy(h) /\ n = network),
         \A t \in Threads \ {h} : wfh'[t] = wfh[t],
         \/ wfh'[h].at = "idle"
         \/ wfh'[h] = wfh[h] /\ pc[h] \notin WaitPcs
         \/ wfh'[h] = WaitingFor(network) /\ pc'[h] \in WaitPcs,
         Busy(h)' => network # Nil /\ info[network].healthy
  PROVE  PoliteInv'
  <1>1. SoloInv'
    BY DEF SoloInv
  <1>2. BusyInv'
    <2> SUFFICES ASSUME NEW g \in Handlers, Busy(g)' PROVE (network # Nil /\ info[network].healthy)'
      BY DEF BusyInv
    <2>1. g = h
      BY DEF Busy, LockedPcs
    <2> QED
      BY <2>1, PoliteFacts
  <1>3. wfh[h].at = "idle" \/ pc[h] \in WaitPcs
    BY DEF PoliteInv, WaitInv
  <1>4. /\ wfh'[h].at \in {"idle", "wait"}
        /\ wfh'[h].at = "wait" => wfh'[h].net = network /\ pc'[h] \in WaitPcs
    BY <1>3 DEF WaitingFor
  <1>5. WaitInv'
    <2>1. \A g \in Handlers : wfh'[g].at # "idle" => pc'[g] \in WaitPcs /\ wfh'[g].net = network'
      <3> SUFFICES ASSUME NEW g \in Handlers \ {h} PROVE wfh'[g].at = "idle"
        BY <1>4
      <3> QED
        BY DEF PoliteInv, WaitInv, WaitPcs, Threads
    <2>2. \A n \in Nets : wfh'[n].at # "idle" => starter'[n] = "waiting" /\ wfh'[n].net = n
      BY PoliteFacts DEF PoliteInv, WaitInv
    <2>3. ASSUME NEW t \in Threads, NEW x \in Names, wfh'[t].at = "update", wfh'[t].seen[x] # NoPort
          PROVE  x \in Listed(wfh[t].net)' /\ wfh'[t] = wfh[t]
      <3>1. t # h /\ wfh'[t] = wfh[t]
        BY <1>4, <2>3
      <3>2. x \in Listed(wfh[t].net) /\ wfh[t].net \in Nets
        BY <2>3, <3>1, PoliteFacts DEF PoliteInv, WaitInv
      <3>3. ~(Busy(h) /\ wfh[t].net = network)
        BY <2>3, <3>1, NobodyElseUpdates
      <3> QED
        BY <3>1, <3>2, <3>3
    <2>4. \A t \in Threads, x \in Names :
            wfh'[t].at = "update" /\ wfh'[t].seen[x] # NoPort =>
              x \in Listed(wfh[t].net)' /\ wfh'[t] = wfh[t]
      BY <2>3
    <2>5. \A n \in Nets : Listed(n)' = {x \in Names : nodeInfos'[n][x].listed}
      BY DEF Listed
    <2> QED
      BY <2>1, <2>2, <2>4, <2>5, PoliteFacts DEF WaitInv, Listed
  <1>6. ReadyInv'
    <2>1. \A n \in Nets : wfh'[n] = wfh[n]
      BY PoliteFacts
    <2> QED
      BY <2>1 DEF PoliteInv, ReadyInv
  <1>7. WatchInv'
    BY DEF PoliteInv, WatchInv
  <1> QED
    BY <1>1, <1>2, <1>5, <1>6, <1>7 DEF PoliteInv

LEMMA OthersIdle ==
  ASSUME PoliteInv, NEW h \in Handlers, pc[h] # "idle", NEW l, pc' = [pc EXCEPT ![h] = l],
         pc \in [Handlers -> Pcs]
  PROVE  /\ \A g \in Handlers \ {h} : pc[g] = "idle" /\ pc'[g] = "idle"
         /\ pc'[h] = l
  BY DEF PoliteInv, SoloInv

\* Replies and refusals.
LEMMA PoliteEnds ==
  ASSUME ClusterInv, ClusterInv', PoliteInv, NEW h \in Handlers,
         \/ Replied(h) \/ StartRefused(h) \/ HealthFails(h) \/ NodeNotFound(h) \/ NodeOpFails(h)
         \/ Check(h) \/ StartCheck(h)
  PROVE  PoliteInv'
  <1>1. /\ UNCHANGED <<proc, network, starter, readyc, watch, nw, info, nodeInfos>>
        /\ pc[h] # "idle"
    BY DEF Replied, StartRefused, HealthFails, NodeNotFound, NodeOpFails, Check, StartCheck, At,
           UnchangedLib
  <1>2. /\ \A n \in Nets : nw[n] # "nil" => nw'[n] # "nil"
        /\ \A n \in Nets : info'[n].healthy = info[n].healthy
        /\ \A n \in Nets : Listed(n) \subseteq Listed(n)' \/ (Busy(h) /\ n = network)
    BY <1>1 DEF Listed
  <1>3. ASSUME Finish(h) \/ ReturnInfo(h, clusterInfo) PROVE PoliteInv'
    <2>1. PICK l \in {"idle", "reply"} : pc' = [pc EXCEPT ![h] = l]
      BY <1>3 DEF Finish, ReturnInfo, Goto
    <2>2. wfh'[h].at = "idle" /\ \A t \in Threads \ {h} : wfh'[t] = wfh[t]
      BY <1>3, PoliteFacts DEF Finish, ReturnInfo, NotWaiting
    <2>3. ~Busy(h)'
      BY <1>1, <2>1, OthersIdle, PoliteFacts DEF Busy, LockedPcs
    <2>4. \A g \in Handlers \ {h} : pc[g] = "idle" /\ pc'[g] = "idle"
      BY <1>1, <2>1, OthersIdle, PoliteFacts
    <2> QED
      BY <1>1, <1>2, <2>2, <2>3, <2>4, PoliteMove
  <1>4. ASSUME Check(h), Bootstrapped, req[h].op \notin {"status", "uris"}, Goto(h, req[h].op),
               UNCHANGED wfh
        PROVE  PoliteInv'
    <2>1. network # Nil /\ info[network].healthy
      BY <1>4, PoliteFacts DEF Check, At, Bootstrapped, Busy, PoliteInv, BusyInv
    <2>2. pc' = [pc EXCEPT ![h] = req[h].op] /\ pc[h] \notin WaitPcs
      BY <1>4 DEF Goto, Check, At, WaitPcs
    <2>3. \A g \in Handlers \ {h} : pc[g] = "idle" /\ pc'[g] = "idle"
      BY <1>1, <2>2, OthersIdle, PoliteFacts
    <2>4. wfh'[h] = wfh[h] /\ \A t \in Threads \ {h} : wfh'[t] = wfh[t]
      BY <1>4
    <2> QED
      BY <1>1, <1>2, <2>1, <2>2, <2>3, <2>4, PoliteMove
  <1>5. ASSUME StartCheck(h), Goto(h, "start"), UNCHANGED wfh PROVE PoliteInv'
    <2>1. pc' = [pc EXCEPT ![h] = "start"] /\ pc[h] \notin WaitPcs
      BY <1>5 DEF Goto, StartCheck, At, WaitPcs
    <2>2. ~Busy(h)'
      BY <1>1, <2>1, OthersIdle, PoliteFacts DEF Busy, LockedPcs
    <2>3. \A g \in Handlers \ {h} : pc[g] = "idle" /\ pc'[g] = "idle"
      BY <1>1, <2>1, OthersIdle, PoliteFacts
    <2>4. wfh'[h] = wfh[h] /\ \A t \in Threads \ {h} : wfh'[t] = wfh[t]
      BY <1>5
    <2> QED
      BY <1>1, <1>2, <2>1, <2>2, <2>3, <2>4, PoliteMove
  <1> QED
    BY <1>3, <1>4, <1>5
    DEF Replied, StartRefused, HealthFails, NodeNotFound, NodeOpFails, Check, StartCheck

\* What a client may send, and when, for PoliteInv to be kept.
Politely(op) ==
    /\ \A g \in Handlers : pc[g] = "idle"
    /\ op \in {"start", "status", "uris"} \/ (clusterInfo # Nil /\ info[clusterInfo].healthy)

LEMMA PoliteReceive ==
  ASSUME ClusterInv, ClusterInv', PoliteInv, NEW h \in Handlers, Receive(h), Politely(req'[h].op)
  PROVE  PoliteInv'
  <1>1. /\ UNCHANGED <<proc, network, starter, readyc, watch, nw, info, nodeInfos, wfh>>
        /\ pc' = [pc EXCEPT ![h] = "check"] /\ pc[h] = "idle"
    BY DEF Receive, At, Goto, netVars
  <1>2. \A g \in Handlers \ {h} : pc[g] = "idle" /\ pc'[g] = "idle"
    BY <1>1, PoliteFacts DEF Politely
  <1>3. Busy(h)' => network # Nil /\ info[network].healthy
    <2>1. pc'[h] = "check"
      BY <1>1, PoliteFacts
    <2> QED
      BY <2>1, PoliteFacts DEF Politely, Busy, LockedPcs
  <1>4. /\ \A n \in Nets : nw[n] # "nil" => nw'[n] # "nil"
        /\ \A n \in Nets : info'[n].healthy = info[n].healthy
        /\ \A n \in Nets : Listed(n) \subseteq Listed(n)' \/ (Busy(h) /\ n = network)
        /\ \A t \in Threads \ {h} : wfh'[t] = wfh[t]
        /\ wfh'[h] = wfh[h] /\ pc[h] \notin WaitPcs
    BY <1>1 DEF Listed, WaitPcs
  <1> QED
    BY <1>1, <1>2, <1>3, <1>4, PoliteMove

\* Steps of an operation that needs a network, by what they do to wfh.
LEMMA PoliteWorks ==
  ASSUME ClusterInv, ClusterInv', PoliteInv, NEW h \in Handlers, Busy(h), NEW l,
         UNCHANGED <<proc, network, starter, readyc, watch>>, pc' = [pc EXCEPT ![h] = l],
         \A n \in Nets : nw[n] # "nil" => nw'[n] # "nil",
         \A n \in Nets : info'[n].healthy = info[n].healthy,
         \A n \in Nets : Listed(n) \subseteq Listed(n)' \/ n = network,
         \/ wfh' = [wfh EXCEPT ![h] = NotWaiting]
         \/ wfh' = wfh /\ pc[h] \notin WaitPcs
         \/ wfh' = [wfh EXCEPT ![h] = WaitingFor(network)] /\ l \in WaitPcs
  PROVE  PoliteInv'
  <1>1. network # Nil /\ info[network].healthy
    BY DEF PoliteInv, BusyInv
  <1>2. \A g \in Handlers \ {h} : pc[g] = "idle" /\ pc'[g] = "idle"
    BY OthersIdle, PoliteFacts DEF Busy, LockedPcs
  <1>3. pc'[h] = l
    BY PoliteFacts
  <1>4. \A t \in Threads \ {h} : wfh'[t] = wfh[t]
    BY PoliteFacts
  <1>5. \/ wfh'[h].at = "idle"
        \/ wfh'[h] = wfh[h] /\ pc[h] \notin WaitPcs
        \/ wfh'[h] = WaitingFor(network) /\ pc'[h] \in WaitPcs
    BY <1>3, PoliteFacts, NotWaitingType
  <1>6. \A n \in Nets : Listed(n) \subseteq Listed(n)' \/ (Busy(h) /\ n = network)
    OBVIOUS
  <1> QED
    BY <1>1, <1>2, <1>4, <1>5, <1>6, PoliteMove

LEMMA PoliteHealth ==
  ASSUME ClusterInv, ClusterInv', PoliteInv, NEW h \in Handlers, HealthWait(h) \/ HealthDone(h)
  PROVE  PoliteInv'
  <1>1. Busy(h) /\ UNCHANGED <<proc, network, starter, readyc, watch, nw, nodeInfos>>
    BY DEF HealthWait, HealthDone, At, UnchangedLib, Busy
  <1>2. \A n \in Nets : Listed(n) \subseteq Listed(n)'
    BY <1>1 DEF Listed
  <1>3. \A n \in Nets : info'[n].healthy = info[n].healthy
    <2>1. CASE HealthDone(h)
      BY <2>1, PoliteFacts DEF HealthDone, Showing
    <2>2. CASE HealthWait(h)
      BY <2>2 DEF HealthWait
    <2> QED
      BY <2>1, <2>2
  <1>4. \/ pc' = [pc EXCEPT ![h] = "reply"] /\ wfh' = [wfh EXCEPT ![h] = NotWaiting]
        \/ pc' = [pc EXCEPT ![h] = "healthwait"] /\ wfh' = [wfh EXCEPT ![h] = WaitingFor(network)]
    BY DEF HealthWait, HealthDone, EnterWaitForHealthy, ReturnInfo, Goto
  <1> QED
    BY <1>1, <1>2, <1>3, <1>4, PoliteWorks DEF WaitPcs

LEMMA PoliteRemove ==
  ASSUME ClusterInv, ClusterInv', PoliteInv, NEW h \in Handlers,
         RemoveBegin(h) \/ RemoveDelete(h) \/ RemoveDone(h)
  PROVE  PoliteInv'
  <1>1. Busy(h) /\ UNCHANGED <<proc, network, starter, readyc, watch, nw>>
    BY DEF RemoveBegin, RemoveDelete, RemoveDone, At, UnchangedLib, Busy, LockedPcs
  <1>2. \A n \in Nets : Listed(n) \subseteq Listed(n)' \/ n = network
    BY PoliteFacts DEF RemoveBegin, RemoveDelete, RemoveDone, AfterDelete, Listed
  <1>3. \A n \in Nets : info'[n].healthy = info[n].healthy
    BY PoliteFacts DEF RemoveBegin, RemoveDelete, RemoveDone, Showing
  <1>4. \/ pc' = [pc EXCEPT ![h] = "removing"] /\ wfh' = wfh /\ pc[h] \notin WaitPcs
        \/ pc' = [pc EXCEPT ![h] = "removewait"] /\ wfh' = [wfh EXCEPT ![h] = WaitingFor(network)]
        \/ pc' = [pc EXCEPT ![h] = "reply"] /\ wfh' = [wfh EXCEPT ![h] = NotWaiting]
    BY DEF RemoveBegin, RemoveDelete, RemoveDone, At, EnterWaitForHealthy, ReturnInfo, Goto, WaitPcs
  <1> QED
    BY <1>1, <1>2, <1>3, <1>4, PoliteWorks DEF WaitPcs

LEMMA PoliteRestart ==
  ASSUME ClusterInv, ClusterInv', PoliteInv, NEW h \in Handlers,
         RestartBegin(h) \/ RestartRemoves(h) \/ RestartAdds(h) \/ RestartDone(h)
  PROVE  PoliteInv'
  <1>1. Busy(h) /\ UNCHANGED <<proc, network, starter, readyc, watch, nw>>
    BY DEF RestartBegin, RestartRemoves, RestartAdds, RestartDone, At, UnchangedLib, Busy, LockedPcs
  <1>2. \A n \in Nets : Listed(n) \subseteq Listed(n)' \/ n = network
    BY PoliteFacts DEF RestartBegin, RestartRemoves, RestartAdds, RestartDone, LookedUpIn,
       NodeInfo, Listed
  <1>3. \A n \in Nets : info'[n].healthy = info[n].healthy
    BY PoliteFacts DEF RestartBegin, RestartRemoves, RestartAdds, RestartDone, Showing
  <1>4. \/ pc' = [pc EXCEPT ![h] = "restarting"] /\ wfh' = wfh /\ pc[h] \notin WaitPcs
        \/ pc' = [pc EXCEPT ![h] = "adding"] /\ wfh' = wfh /\ pc[h] \notin WaitPcs
        \/ pc' = [pc EXCEPT ![h] = "restartwait"] /\ wfh' = [wfh EXCEPT ![h] = WaitingFor(network)]
        \/ pc' = [pc EXCEPT ![h] = "reply"] /\ wfh' = [wfh EXCEPT ![h] = NotWaiting]
    BY DEF RestartBegin, RestartRemoves, RestartAdds, RestartDone, At, EnterWaitForHealthy,
           ReturnInfo, Goto, WaitPcs
  <1> QED
    BY <1>1, <1>2, <1>3, <1>4, PoliteWorks DEF WaitPcs

LEMMA PoliteStops ==
  ASSUME ClusterInv, ClusterInv', PoliteInv, NEW h \in Handlers, StopBegin(h) \/ StopNetwork(h)
  PROVE  PoliteInv'
  <1>1. /\ Busy(h) /\ pc[h] \notin WaitPcs
        /\ UNCHANGED <<proc, network, starter, readyc, watch, info, nodeInfos, wfh>>
    BY DEF StopBegin, StopNetwork, At, Busy, LockedPcs, WaitPcs
  <1>2. PICK l \in {"stopping", "stopwait"} : pc' = [pc EXCEPT ![h] = l]
    BY DEF StopBegin, StopNetwork, Goto
  <1>3. \A n \in Nets : nw[n] # "nil" => nw'[n] # "nil"
    BY PoliteFacts DEF StopBegin, StopNetwork, NwStop
  <1>4. \A n \in Nets : Listed(n) \subseteq Listed(n)' /\ info'[n].healthy = info[n].healthy
    BY <1>1 DEF Listed
  <1> QED
    BY <1>1, <1>2, <1>3, <1>4, PoliteWorks

-----------------------------------------------------------------------------
(* Start and the end of Stop, which change the network.                    *)

LEMMA PoliteStart ==
  ASSUME ClusterInv, ClusterInv', PoliteInv, NEW h \in Handlers, StartNetwork(h)
  PROVE  PoliteInv'
  <1>1. PICK n \in Nets :
          /\ starter[n] = "unborn" /\ network = Nil /\ network' = n
          /\ starter' = [starter EXCEPT ![n] = "launching"]
          /\ nodeInfos' = [nodeInfos EXCEPT ![n] =
                [x \in Names |-> [listed |-> TRUE, uri |-> NoPort, exec |-> req[h].exec]]]
          /\ info' = [info EXCEPT ![n] = FreshInfo]
          /\ watch' = [watch EXCEPT ![n] = [at |-> "born", net |-> Nil]]
    BY DEF StartNetwork, StartAdmitted, NewLocalNetwork
  <1>2. /\ UNCHANGED <<proc, nw, readyc>> /\ pc' = [pc EXCEPT ![h] = "reply"] /\ pc[h] # "idle"
        /\ wfh' = [wfh EXCEPT ![h] = NotWaiting]
    BY DEF StartNetwork, ReturnInfo, Goto, At
  <1>3. (\A g \in Handlers \ {h} : pc[g] = "idle" /\ pc'[g] = "idle") /\ pc'[h] = "reply"
    BY <1>2, OthersIdle, PoliteFacts
  <1>4. \A g \in Handlers : wfh'[g].at = "idle"
    <2>1. wfh'[h].at = "idle" /\ \A g \in Handlers \ {h} : wfh'[g] = wfh[g]
      BY <1>2, NotWaitingType, PoliteFacts
    <2>2. \A g \in Handlers \ {h} : wfh[g].at = "idle"
      BY <1>3 DEF PoliteInv, WaitInv, WaitPcs
    <2> QED
      BY <2>1, <2>2
  <1>5. SoloInv' /\ BusyInv'
    BY <1>3 DEF SoloInv, BusyInv, Busy, LockedPcs
  <1>6. WaitInv'
    <2>1. \A m \in Nets : wfh'[m] = wfh[m]
      BY <1>2, PoliteFacts
    <2>2. wfh[n].at = "idle"
      BY <1>1 DEF PoliteInv, WaitInv
    <2>3. \A m \in Nets : wfh'[m].at # "idle" => starter'[m] = "waiting" /\ wfh'[m].net = m
      BY <1>1, <2>1, <2>2, PoliteFacts DEF PoliteInv, WaitInv
    <2>4. ASSUME NEW m \in Nets, NEW x \in Names, wfh'[m].at = "update", wfh'[m].seen[x] # NoPort
          PROVE  nodeInfos'[wfh'[m].net][x].listed
      <3>1. wfh[m].net = m /\ m # n
        BY <2>1, <2>2, <2>4 DEF PoliteInv, WaitInv
      <3>2. x \in Listed(m)
        BY <2>1, <2>4, <3>1, PoliteFacts DEF PoliteInv, WaitInv
      <3> QED
        BY <1>1, <2>1, <3>1, <3>2, PoliteFacts DEF Listed
    <2> QED
      BY <1>4, <2>3, <2>4 DEF WaitInv, Threads, Listed
  <1>7. ReadyInv'
    <2>1. ~readyc[n] /\ \A m \in Nets : wfh'[m] = wfh[m]
      BY <1>1, <1>2, PoliteFacts DEF PoliteInv, WatchInv
    <2> QED
      BY <1>1, <1>2, <2>1, PoliteFacts DEF PoliteInv, ReadyInv
  <1>8. WatchInv'
    BY <1>1, <1>2, PoliteFacts DEF PoliteInv, WatchInv, FreshInfo
  <1> QED
    BY <1>2, <1>5, <1>6, <1>7, <1>8 DEF PoliteInv

LEMMA PoliteStopDone ==
  ASSUME ClusterInv, ClusterInv', PoliteInv, NEW h \in Handlers, StopDone(h) PROVE PoliteInv'
  <1>1. /\ UNCHANGED <<proc, nw, readyc, starter, watch, nodeInfos>> /\ network' = Nil
        /\ pc' = [pc EXCEPT ![h] = "reply"] /\ pc[h] = "stopwait"
        /\ wfh' = [wfh EXCEPT ![h] = NotWaiting]
    BY DEF StopDone, ReturnInfo, Goto, At, UnchangedLib
  <1>2. (\A g \in Handlers \ {h} : pc[g] = "idle" /\ pc'[g] = "idle") /\ pc'[h] = "reply"
    BY <1>1, OthersIdle, PoliteFacts
  <1>3. \A g \in Handlers : wfh'[g].at = "idle"
    <2>1. wfh'[h] = NotWaiting /\ \A g \in Handlers \ {h} : wfh'[g] = wfh[g]
      BY <1>1, PoliteFacts
    <2>2. \A g \in Handlers \ {h} : wfh[g].at = "idle"
      BY <1>2 DEF PoliteInv, WaitInv, WaitPcs
    <2> QED
      BY <2>1, <2>2, NotWaitingType DEF NotWaiting
  <1>4. SoloInv' /\ BusyInv'
    BY <1>2 DEF SoloInv, BusyInv, Busy, LockedPcs
  <1>5. \A m \in Nets : wfh'[m] = wfh[m]
    BY <1>1, PoliteFacts
  <1>6. WaitInv'
    <2>1. \A m \in Nets : wfh'[m].at # "idle" => starter'[m] = "waiting" /\ wfh'[m].net = m
      BY <1>1, <1>5 DEF PoliteInv, WaitInv
    <2>2. \A m \in Nets, x \in Names :
            wfh'[m].at = "update" /\ wfh'[m].seen[x] # NoPort => x \in Listed(wfh'[m].net)
      BY <1>5, PoliteFacts DEF PoliteInv, WaitInv
    <2> QED
      BY <1>1, <1>3, <2>1, <2>2 DEF WaitInv, Threads, Listed
  <1>7. ReadyInv'
    BY <1>1, <1>5 DEF PoliteInv, ReadyInv
  <1>8. WatchInv'
    <2>1. network \in Nets /\ info[network].healthy
      BY <1>1, PoliteFacts DEF PoliteInv, BusyInv, Busy, LockedPcs
    <2>2. watch[network].at = "done"
      BY <2>1 DEF PoliteInv, WatchInv
    <2>3. \A n \in Nets : watch[n].at \notin {"born", "select", "ready"}
      BY <2>2 DEF PoliteInv, WatchInv
    <2>4. \A n \in Nets : info'[n].healthy => info[n].healthy
      BY PoliteFacts DEF StopDone
    <2> QED
      BY <1>1, <2>3, <2>4 DEF PoliteInv, WatchInv
  <1> QED
    BY <1>1, <1>4, <1>6, <1>7, <1>8 DEF PoliteInv

-----------------------------------------------------------------------------
(* start() and waitForHealthy.                                             *)

\* A step of the library's side: handlers, watchers and ClusterInfo stay as they are.
LEMMA PoliteNetMove ==
  ASSUME ClusterInv, PoliteInv, UNCHANGED <<proc, serverVars>>, WaitInv', ReadyInv',
         \A n \in Nets : readyc[n] => readyc'[n],
         \A n \in Nets : starter'[n] = "unborn" => starter[n] = "unborn" /\ readyc'[n] = readyc[n]
  PROVE  PoliteInv'
  <1>1. SoloInv' /\ BusyInv'
    BY DEF PoliteInv, SoloInv, BusyInv, Busy, serverVars
  <1>2. WatchInv'
    BY DEF PoliteInv, WatchInv, serverVars
  <1> QED
    BY <1>1, <1>2 DEF PoliteInv

LEMMA PoliteStarter ==
  ASSUME ClusterInv, PoliteInv, NEW n \in Nets, StarterStep(n), UNCHANGED serverVars
  PROVE  PoliteInv'
  <1>1. /\ UNCHANGED <<proc, readyc, nodeInfos, pc, network>>
        /\ \A m \in Nets \ {n} : starter'[m] = starter[m] /\ nw'[m] = nw[m]
        /\ starter[n] \in {"launching", "waiting"}
    BY PoliteFacts DEF StarterStep, Launch, LaunchFails, StarterReturns, StarterAt, serverVars
  <1>2. \A t \in Threads \ {n} : wfh'[t] = wfh[t]
    BY PoliteFacts DEF StarterStep, Launch, LaunchFails, StarterReturns
  <1>3. \/ starter'[n] = "waiting" /\ nw'[n] # "nil" /\ wfh'[n] = WaitingFor(n) /\ ~readyc[n]
        \/ starter'[n] = "done" /\ nw'[n] = nw[n] /\ wfh'[n].at = "idle"
    <2>1. CASE Launch(n)
      BY <2>1, PoliteFacts DEF Launch, StarterAt, PoliteInv, ReadyInv
    <2>2. CASE LaunchFails(n)
      BY <2>2, PoliteFacts DEF LaunchFails, StarterAt, PoliteInv, WaitInv
    <2>3. CASE StarterReturns(n)
      BY <2>3, NotWaitingType, PoliteFacts DEF StarterReturns
    <2> QED
      BY <2>1, <2>2, <2>3 DEF StarterStep
  <1>4. WaitInv'
    <2>1. \A h \in Handlers : wfh'[h].at # "idle" => pc'[h] \in WaitPcs /\ wfh'[h].net = network'
      BY <1>1, <1>2, PoliteFacts DEF PoliteInv, WaitInv
    <2>2. \A m \in Nets : wfh'[m].at # "idle" => starter'[m] = "waiting" /\ wfh'[m].net = m
      BY <1>1, <1>2, <1>3, PoliteFacts, WaitingForType DEF PoliteInv, WaitInv
    <2>3. \A t \in Threads, x \in Names :
            wfh'[t].at = "update" /\ wfh'[t].seen[x] # NoPort => x \in Listed(wfh'[t].net)
      BY <1>2, <1>3 DEF PoliteInv, WaitInv, WaitingFor
    <2> QED
      BY <1>1, <2>1, <2>2, <2>3 DEF WaitInv, Listed
  <1>5. ReadyInv'
    BY <1>1, <1>2, <1>3, PoliteFacts DEF PoliteInv, ReadyInv
  <1> QED
    BY <1>1, <1>3, <1>4, <1>5, PoliteFacts, PoliteNetMove

LEMMA PoliteWait ==
  ASSUME ClusterInv, PoliteInv, NEW t \in Threads, UNCHANGED serverVars,
         WaitAborted(t) \/ WaitFails(t) \/ NodesReported(t)
  PROVE  PoliteInv'
  <1>1. UNCHANGED <<proc, readyc, nodeInfos, pc, network, starter, nw>> /\ wfh[t].at = "wait"
    BY DEF WaitAborted, WaitFails, NodesReported, WaiterAt, serverVars
  <1>2. /\ \A u \in Threads \ {t} : wfh'[u] = wfh[u]
        /\ wfh'[t].net = wfh[t].net
        /\ \/ wfh'[t].at = "err"
           \/ wfh'[t].at = "update" /\ wfh'[t].seen = Ports(wfh[t].net)
    BY PoliteFacts DEF WaitAborted, WaitFails, NodesReported
  <1>3. WaitInv'
    <2>1. \A h \in Handlers : wfh'[h].at # "idle" => pc'[h] \in WaitPcs /\ wfh'[h].net = network'
      BY <1>1, <1>2, PoliteFacts DEF PoliteInv, WaitInv
    <2>2. \A m \in Nets : wfh'[m].at # "idle" => starter'[m] = "waiting" /\ wfh'[m].net = m
      BY <1>1, <1>2, PoliteFacts DEF PoliteInv, WaitInv
    <2>3. \A x \in Names : Ports(wfh[t].net)[x] # NoPort => x \in Listed(wfh[t].net)
      BY <1>1, PoliteFacts DEF Ports, Running, ClusterInv, NoUnlistedProcess
    <2>4. \A u \in Threads, x \in Names :
            wfh'[u].at = "update" /\ wfh'[u].seen[x] # NoPort => x \in Listed(wfh'[u].net)
      BY <1>2, <2>3 DEF PoliteInv, WaitInv
    <2> QED
      BY <1>1, <2>1, <2>2, <2>4 DEF WaitInv, Listed
  <1>4. ReadyInv'
    <2>1. \A m \in Nets : readyc[m] => m # t /\ wfh'[m] = wfh[m]
      BY <1>1, <1>2, PoliteFacts DEF PoliteInv, ReadyInv
    <2> QED
      BY <1>1, <2>1 DEF PoliteInv, ReadyInv
  <1> QED
    BY <1>1, <1>3, <1>4, PoliteNetMove

LEMMA PoliteUpdate ==
  ASSUME ClusterInv, PoliteInv, NEW t \in Threads, UNCHANGED serverVars, UpdateNodeInfos(t)
  PROVE  PoliteInv'
  <1>0. PICK n \in Nets : n = wfh[t].net
    BY PoliteFacts DEF UpdateNodeInfos, WaiterAt
  <1>1. /\ UNCHANGED <<proc, pc, network, starter, nw>> /\ wfh[t].at = "update"
        /\ readyc' = [readyc EXCEPT ![n] = TRUE]
        /\ wfh' = [wfh EXCEPT ![t] = [at |-> "ok", net |-> n, seen |-> NothingSeen]]
    BY <1>0 DEF UpdateNodeInfos, WaiterAt, serverVars
  <1>2. \A m \in Nets : Listed(m)' = Listed(m)
    <2>1. wfh[t].seen \in [Names -> Nat] /\ NetTypeOK
      BY DEF ClusterInv, LockInv, TypeOK, NetTypeOK
    <2>2. nodeInfos' = [nodeInfos EXCEPT ![n] = WithUris(n, wfh[t].seen)]
      BY <1>0 DEF UpdateNodeInfos
    <2>3. \A x \in Names : WithUris(n, wfh[t].seen)[x].listed = nodeInfos[n][x].listed
      BY <2>1, WithUrisFacts
    <2>4. \A m \in Nets, x \in Names : nodeInfos'[m][x].listed = nodeInfos[m][x].listed
      BY <2>2, <2>3, PoliteFacts
    <2> QED
      BY <2>4 DEF Listed
  <1>3. starter[n] # "unborn" /\ (t = n \/ readyc[n])
    <2>1. CASE t \in Nets
      BY <1>0, <1>1, <2>1 DEF PoliteInv, WaitInv
    <2>2. CASE t \in Handlers
      <3>1. network = n /\ Busy(t)
        BY <1>0, <1>1, <2>2 DEF PoliteInv, WaitInv, WaitPcs, Busy, LockedPcs
      <3>2. readyc[n]
        BY <2>2, <3>1 DEF PoliteInv, BusyInv, WatchInv
      <3> QED
        BY <3>2 DEF PoliteInv, ReadyInv
    <2> QED
      BY <2>1, <2>2 DEF Threads
  <1>4. WaitInv'
    <2>0. /\ \A u \in Threads \ {t} : wfh'[u] = wfh[u]
          /\ wfh'[t].at = "ok" /\ wfh'[t].net = wfh[t].net
      BY <1>0, <1>1, PoliteFacts
    <2>1. \A h \in Handlers : wfh'[h].at # "idle" => pc'[h] \in WaitPcs /\ wfh'[h].net = network'
      BY <1>1, <2>0, PoliteFacts DEF PoliteInv, WaitInv
    <2>2. \A m \in Nets : wfh'[m].at # "idle" => starter'[m] = "waiting" /\ wfh'[m].net = m
      BY <1>1, <2>0, PoliteFacts DEF PoliteInv, WaitInv
    <2>3. ASSUME NEW u \in Threads, NEW x \in Names, wfh'[u].at = "update", wfh'[u].seen[x] # NoPort
          PROVE  nodeInfos'[wfh'[u].net][x].listed
      <3>1. wfh'[u] = wfh[u] /\ wfh[u].net \in Nets
        BY <2>0, <2>3, PoliteFacts
      <3>2. x \in Listed(wfh[u].net)
        BY <2>3, <3>1 DEF PoliteInv, WaitInv
      <3> QED
        BY <1>2, <3>1, <3>2 DEF Listed
    <2> QED
      BY <2>1, <2>2, <2>3 DEF WaitInv, Listed
  <1>5. ReadyInv'
    <2>1. t = n => starter[n] = "waiting" /\ nw[n] # "nil"
      BY <1>1 DEF PoliteInv, WaitInv, ReadyInv
    <2>2. \A m \in Nets : wfh'[m].at \in {"idle", "ok"} \/ wfh'[m] = wfh[m]
      BY <1>1, PoliteFacts
    <2>3. t = n => wfh'[n].at = "ok"
      BY <1>1, PoliteFacts
    <2> QED
      BY <1>1, <1>3, <2>1, <2>2, <2>3, PoliteFacts DEF PoliteInv, ReadyInv
  <1> QED
    BY <1>1, <1>3, <1>4, <1>5, PoliteFacts, PoliteNetMove

-----------------------------------------------------------------------------
(* The watcher.                                                            *)

LEMMA PoliteWatch ==
  ASSUME ClusterInv, PoliteInv, NEW n \in Nets, WatchStep(n) PROVE PoliteInv'
  <1>1. /\ network = n /\ watch[n].at \in {"born", "select", "ready"}
        /\ UNCHANGED <<proc, netVars, network, pc, req>>
    BY PoliteWatchCalm
    DEF WatchStep, WatchSelect, WatchGivesUp, WatchReady, WatchPublish, WatcherAt, PoliteInv,
        WatchInv
  <1>2. WaitInv' /\ ReadyInv' /\ SoloInv'
    BY <1>1 DEF PoliteInv, WaitInv, ReadyInv, SoloInv, netVars, Listed
  <1>3. \/ UNCHANGED info
        \/ watch[n].at = "ready" /\ info' = [info EXCEPT ![n] = PublishedInfo]
             /\ watch' = [watch EXCEPT ![n] = WatchDone]
    BY <1>1, PoliteFacts
    DEF WatchStep, WatchSelect, WatchGivesUp, WatchReady, WatchPublish, WatcherAt
  <1>4. \A m \in Nets : info'[m].healthy = info[m].healthy \/ (m = n /\ info'[m].healthy)
    BY <1>3, PoliteFacts DEF PublishedInfo, Showing
  <1>5. BusyInv'
    BY <1>1, <1>4, PoliteFacts DEF PoliteInv, BusyInv, Busy
  <1>6. /\ \A m \in Nets \ {n} : watch'[m] = watch[m]
        /\ \/ watch'[n] = [at |-> "select", net |-> n] /\ UNCHANGED info /\ watch[n].at = "born"
           \/ watch'[n] = [at |-> "ready", net |-> n] /\ UNCHANGED info /\ watch[n].at = "select"
                /\ readyc[n]
           \/ watch'[n] = WatchDone /\ (UNCHANGED info \/ readyc[n])
    <2>1. watch[n].at \in {"select", "ready"} => watch[n].net = n
      BY DEF PoliteInv, WatchInv
    <2>2. watch[n].at = "ready" => readyc[n]
      BY DEF PoliteInv, WatchInv
    <2>3. CASE WatchSelect(n)
      BY <1>1, <2>3, PoliteFacts DEF WatchSelect, WatcherAt
    <2>4. CASE WatchGivesUp(n)
      BY <2>4, PoliteFacts DEF WatchGivesUp
    <2>5. CASE WatchReady(n)
      BY <2>1, <2>5, PoliteFacts DEF WatchReady, WatcherAt, ReadyFired
    <2>6. CASE WatchPublish(n)
      BY <1>1, <2>2, <2>6, PoliteFacts DEF WatchPublish, WatcherAt
    <2> QED
      BY <2>3, <2>4, <2>5, <2>6 DEF WatchStep
  <1>7. WatchInv'
    <2>1. starter[n] # "unborn"
      BY <1>1 DEF ClusterInv, StarterInv
    <2> QED
      BY <1>1, <1>4, <1>6, <2>1 DEF PoliteInv, WatchInv, WatchDone, netVars
  <1> QED
    BY <1>1, <1>2, <1>5, <1>7 DEF PoliteInv

-----------------------------------------------------------------------------

LEMMA PoliteStep ==
  ASSUME ClusterInv, ClusterInv', PoliteInv, [Next]_vars,
         \A h \in Handlers : Receive(h) => Politely(req'[h].op)
  PROVE  PoliteInv'
  <1>1. ASSUME NEW h \in Handlers, Receive(h) \/ HandlerStep(h) PROVE PoliteInv'
    BY <1>1, PoliteHandlerCalm, PoliteReceive, PoliteEnds, PoliteStart, PoliteHealth, PoliteRemove,
       PoliteRestart, PoliteStops, PoliteStopDone
    DEF HandlerStep
  <1>2. CASE NetStep
    <2>1. UNCHANGED serverVars
      BY <1>2 DEF NetStep
    <2> QED
      BY <1>2, <2>1, PoliteStarter, PoliteWait, PoliteUpdate, PoliteWaitCalm
      DEF NetStep, StarterStep
  <1>3. CASE CloseServer \/ Exit \/ UNCHANGED vars
    <2>1. /\ UNCHANGED <<netVars, network, info, pc, req, watch>>
          /\ proc' \in {proc, "exited"}
      BY <1>3 DEF CloseServer, Exit, vars, serverVars
    <2> QED
      BY <2>1 DEF PoliteInv, SoloInv, BusyInv, Busy, WaitInv, ReadyInv, WatchInv, netVars, Listed,
                  PanicSites
  <1> QED
    BY <1>1, <1>2, <1>3, PoliteWatch DEF Next

LEMMA PoliteNext ==
  ASSUME Polite, ClusterInv, ClusterInv', PoliteInv, [Next]_vars PROVE PoliteInv'
  <1>1. ASSUME NEW h \in Handlers, Receive(h) PROVE Politely(req'[h].op)
    <2>1. PICK r \in Requests : ClientMaySend(h, r.op) /\ req' = [req EXCEPT ![h] = r]
      BY <1>1 DEF Receive
    <2>2. req'[h].op = r.op
      BY <2>1 DEF ClusterInv, LockInv, TypeOK
    <2> QED
      BY <2>1, <2>2 DEF ClientMaySend, Politely
  <1> QED
    BY <1>1, PoliteStep

\* ... in every state, where all clients are polite.
THEOREM PoliteInvariant == ASSUME Polite PROVE Spec => []PoliteInv
  <1>1. PoliteInv /\ ClusterInv /\ ClusterInv' /\ [Next]_vars => PoliteInv'
    BY PoliteNext
  <1> QED
    BY <1>1, PoliteInit, ClusterInvariant, PTL DEF Spec

\* Whatever start(), the watcher, the health checks and failing operations do meanwhile,
\* no panic reaches a client that sends one RPC at a time and, before it has seen
\* Healthy, only Start, Status and URIs.
THEOREM NeverPanicsHolds == Spec => []NeverPanics
  <1>1. CASE Polite
    <2>1. PoliteInv => NeverPanics
      BY DEF PoliteInv, NeverPanics
    <2> QED
      BY <1>1, <2>1, PoliteInvariant, PTL
  <1>2. CASE ~Polite
    <2>1. NeverPanics
      BY <1>2 DEF NeverPanics
    <2> QED
      BY <2>1, PTL
  <1> QED
    BY <1>1, <1>2

\* For such a client Healthy is the truth: it is only ever set on the ClusterInfo of a
\* network that has been through waitForHealthy.
THEOREM HealthyIsReadyHolds == ASSUME Polite PROVE Spec => []HealthyIsReady
  <1>1. PoliteInv => HealthyIsReady
    BY DEF PoliteInv, WatchInv, HealthyIsReady
  <1> QED
    BY <1>1, PoliteInvariant, PTL

-----------------------------------------------------------------------------
(* The URIs of a polite client.                                            *)

\* What a handler saw in waitForHealthy is still so when it writes it down, and what it
\* wrote is still so when it replies: nobody else is there to restart a node.
UrisInv ==
    /\ \A n \in Nets, x \in Names : node[n][x].up => node[n][x].port # NoPort
    /\ \A h \in Handlers :
         /\ wfh[h].at = "update" => wfh[h].seen = Ports(network)
         /\ wfh[h].at = "ok" =>
              \A x \in Running(network) : nodeInfos[network][x].uri = node[network][x].port

LEMMA UrisInit == Init => UrisInv
  BY DEF Init, NetInit, UrisInv, Down, NotWaiting, Threads

\* A handler that is at one of these two points is busy with the current network, whose
\* start() is past its own loop.
LEMMA WaiterAlone ==
  ASSUME ClusterInv, PoliteInv, NEW h \in Handlers, wfh[h].at # "idle"
  PROVE  /\ network \in Nets /\ wfh[h].net = network /\ pc[h] \in WaitPcs
         /\ starter[network] \in {"waiting", "done"}
         /\ wfh[network].at \in {"idle", "ok"}
         /\ \A g \in Handlers \ {h} : pc[g] = "idle" /\ wfh[g].at = "idle"
  <1>1. pc[h] \in WaitPcs /\ wfh[h].net = network /\ Busy(h)
    BY DEF PoliteInv, WaitInv, WaitPcs, Busy, LockedPcs
  <1>2. network \in Nets /\ readyc[network]
    BY <1>1, PoliteFacts DEF PoliteInv, BusyInv, WatchInv
  <1>3. \A g \in Handlers \ {h} : pc[g] = "idle" /\ wfh[g].at = "idle"
    BY <1>1 DEF PoliteInv, SoloInv, WaitInv, WaitPcs
  <1> QED
    BY <1>1, <1>2, <1>3 DEF PoliteInv, ReadyInv

\* A step of a handler leaves no handler between its look at the nodes and its reply.
LEMMA UrisHandler ==
  ASSUME ClusterInv, ClusterInv', PoliteInv, UrisInv, NEW h \in Handlers,
         Receive(h) \/ HandlerStep(h)
  PROVE  UrisInv'
  <1>1. \A n \in Nets, x \in Names : node'[n][x].up => node'[n][x].port # NoPort
    <2>1. CASE RestartAdds(h)
      <3>1. /\ network \in Nets /\ req[h].name \in Names
            /\ node \in [Nets -> [Names -> Process]]
        BY <2>1 DEF RestartAdds, At, ClusterInv, LockInv, TypeOK, NetTypeOK, InCriticalSection,
                    LockedPcs, NodeOpPcs
      <3>2. PICK y \in Names : y = req[h].name
        BY <3>1
      <3>3. node[network][y].port \in Nat
        BY <3>1 DEF Process
      <3>4. node' = [node EXCEPT ![network][y] =
                [up |-> TRUE, port |-> node[network][y].port + 1, exec |-> NewNodeConfig(h)]]
        BY <2>1, <3>2 DEF RestartAdds
      <3>5. node'[network][y].port # NoPort
        BY <3>1, <3>3, <3>4 DEF NoPort
      <3>6. \A n \in Nets, x \in Names : ~(n = network /\ x = y) => node'[n][x] = node[n][x]
        BY <3>1, <3>4
      <3> QED
        BY <3>5, <3>6 DEF UrisInv
    <2>2. CASE RemoveDelete(h) \/ RestartRemoves(h)
      <3>1. node \in [Nets -> [Names -> Process]]
        BY DEF ClusterInv, LockInv, TypeOK, NetTypeOK
      <3>2. PICK y : y = req[h].name
        OBVIOUS
      <3>3. node' = [node EXCEPT ![network][y] = [up |-> FALSE, port |-> @.port, exec |-> @.exec]]
        BY <2>2, <3>2 DEF RemoveDelete, RestartRemoves, AfterNwRemove
      <3>4. \A n \in Nets, x \in Names : node'[n][x] = node[n][x] \/ ~node'[n][x].up
        BY <3>1, <3>3
      <3> QED
        BY <3>4 DEF UrisInv
    <2>3. CASE StopNetwork(h)
      <3>1. node \in [Nets -> [Names -> Process]]
        BY DEF ClusterInv, LockInv, TypeOK, NetTypeOK
      <3>2. PICK left \in SUBSET Running(network) :
              node' = [node EXCEPT ![network] =
                [x \in Names |-> [up |-> x \in left, port |-> node[network][x].port,
                                  exec |-> node[network][x].exec]]]
        BY <2>3 DEF StopNetwork, NwStop
      <3>3. \A n \in Nets, x \in Names :
              node'[n][x].up => node[n][x].up /\ node'[n][x].port = node[n][x].port
        BY <3>1, <3>2 DEF Running
      <3> QED
        BY <3>3 DEF UrisInv
    <2>4. UNCHANGED node \/ RestartAdds(h) \/ RemoveDelete(h) \/ RestartRemoves(h) \/ StopNetwork(h)
      BY PanicsEnd
      DEF HandlerStep, Receive, Replied, Check, StartCheck, StartRefused, StartNetwork, HealthWait,
          HealthFails, HealthDone, NodeNotFound, NodeOpFails, RemoveBegin, RemoveDone,
          RestartBegin, RestartDone, StopBegin, StopDone, UnchangedLib, Ends, netVars
    <2> QED
      BY <2>1, <2>2, <2>3, <2>4 DEF UrisInv
  <1>2. CASE UNCHANGED <<netVars, network>>
    BY <1>2 DEF netVars, UrisInv, Ports, Running
  <1>3. CASE \A g \in Handlers : wfh'[g].at \notin {"update", "ok"}
    BY <1>1, <1>3 DEF UrisInv
  <1>4. \/ UNCHANGED <<netVars, network>>
        \/ \A g \in Handlers : wfh'[g].at \notin {"update", "ok"}
    <2>1. CASE Receive(h) \/ HealthPanics(h) \/ NodeOpPanics(h) \/ DeletePanics(h) \/ StopPanics(h)
      BY <2>1, PanicsEnd DEF Receive, Ends, netVars, serverVars
    <2>2. CASE HandlerStep(h) /\ ~(HealthPanics(h) \/ NodeOpPanics(h) \/ DeletePanics(h)
                                   \/ StopPanics(h))
      <3>1. pc[h] # "idle"
        BY <2>2
        DEF HandlerStep, Replied, Check, StartCheck, StartRefused, StartNetwork, HealthWait,
            HealthFails, HealthDone, NodeNotFound, NodeOpFails, RemoveBegin, RemoveDelete,
            RemoveDone, RestartBegin, RestartRemoves, RestartAdds, RestartDone, StopBegin,
            StopNetwork, StopDone, At
      <3>2. \A g \in Handlers \ {h} : wfh[g].at = "idle"
        BY <3>1 DEF PoliteInv, SoloInv, WaitInv, WaitPcs
      <3>3. pc'[h] # pc[h]
        <4>1. req[h].op # "check"
          BY OpsAssumption DEF ClusterInv, LockInv, TypeOK, AllOps
        <4> QED
          BY <2>2, <3>1, <4>1, PoliteFacts
          DEF HandlerStep, Replied, Check, StartCheck, StartRefused, StartNetwork, HealthWait,
              HealthFails, HealthDone, NodeNotFound, NodeOpFails, RemoveBegin, RemoveDelete,
              RemoveDone, RestartBegin, RestartRemoves, RestartAdds, RestartDone, StopBegin,
              StopNetwork, StopDone, At, Goto, Finish, ReturnInfo
      <3>4. wfh'[h].at \notin {"update", "ok"}
        <4>1. pc[h] \notin WaitPcs => wfh[h].at = "idle"
          BY DEF PoliteInv, WaitInv
        <4>2. NotWaiting.at = "idle" /\ WaitingFor(network).at = "wait"
          BY DEF NotWaiting, WaitingFor
        <4> QED
          BY <2>2, <3>3, <4>1, <4>2, HandlerWaits, PoliteFacts
      <3>5. \A g \in Handlers \ {h} : wfh'[g] = wfh[g]
        BY <2>2, HandlerWaits, PoliteFacts
      <3> QED
        BY <3>2, <3>4, <3>5
    <2> QED
      BY <2>1, <2>2
  <1> QED
    BY <1>2, <1>3, <1>4

LEMMA UrisNet == ASSUME ClusterInv, PoliteInv, UrisInv, NetStep PROVE UrisInv'
  <1>0. UNCHANGED network
    BY DEF NetStep, serverVars
  <1>1. ASSUME NEW n \in Nets, Launch(n) PROVE UrisInv'
    <2>1. /\ UNCHANGED nodeInfos /\ wfh' = [wfh EXCEPT ![n] = WaitingFor(n)]
          /\ node' = [node EXCEPT ![n] =
                [x \in Names |-> [up |-> TRUE, port |-> 1, exec |-> cfg[n][x]]]]
          /\ starter[n] = "launching"
          /\ node \in [Nets -> [Names -> Process]]
      BY <1>1 DEF Launch, StarterAt, ClusterInv, LockInv, TypeOK, NetTypeOK
    <2>2. \A m \in Nets, x \in Names : node'[m][x].up => node'[m][x].port # NoPort
      BY <2>1 DEF UrisInv, NoPort
    <2>3. \A h \in Handlers : wfh'[h] = wfh[h]
      BY <2>1, PoliteFacts
    <2>4. ASSUME NEW h \in Handlers, wfh[h].at # "idle"
          PROVE  Ports(network)' = Ports(network) /\ Running(network)' = Running(network)
                 /\ node'[network] = node[network]
      <3>1. node'[network] = node[network]
        BY <2>1, <2>4, WaiterAlone
      <3> QED
        BY <1>0, <3>1 DEF Ports, Running
    <2>5. ASSUME NEW h \in Handlers
          PROVE  /\ wfh'[h].at = "update" => wfh'[h].seen = Ports(network)'
                 /\ wfh'[h].at = "ok" => \A x \in Running(network)' :
                                            nodeInfos'[network][x].uri = node'[network][x].port
      BY <2>1, <2>3, <2>4 DEF UrisInv
    <2> QED
      BY <1>0, <2>2, <2>5 DEF UrisInv
  <1>2. ASSUME NEW t \in Threads,
               WaitAborted(t) \/ WaitFails(t) \/ NodesReported(t)
        PROVE  UrisInv'
    <2>1. /\ UNCHANGED <<node, nodeInfos>> /\ \A u \in Threads \ {t} : wfh'[u] = wfh[u]
          /\ wfh[t].at # "idle"
          /\ \/ wfh'[t].at = "err"
             \/ wfh'[t].at = "update" /\ wfh'[t].seen = Ports(wfh[t].net)
      BY <1>2, PoliteFacts DEF WaitAborted, WaitFails, NodesReported, WaiterAt
    <2>2. Ports(network)' = Ports(network) /\ Running(network)' = Running(network)
      BY <1>0, <2>1 DEF Ports, Running
    <2>3. ASSUME NEW h \in Handlers
          PROVE  /\ wfh'[h].at = "update" => wfh'[h].seen = Ports(network)
                 /\ wfh'[h].at = "ok" => wfh[h].at = "ok"
      <3>1. CASE h = t
        BY <2>1, <3>1, WaiterAlone
      <3>2. CASE h # t
        BY <2>1, <3>2, PoliteFacts DEF UrisInv
      <3> QED
        BY <3>1, <3>2
    <2> QED
      BY <1>0, <2>1, <2>2, <2>3 DEF UrisInv
  <1>3. ASSUME NEW t \in Threads, UpdateNodeInfos(t) PROVE UrisInv'
    <2>0. PICK n \in Nets : n = wfh[t].net
      BY <1>3, PoliteFacts DEF UpdateNodeInfos, WaiterAt
    <2>1. /\ UNCHANGED node /\ wfh[t].at = "update"
          /\ nodeInfos' = [nodeInfos EXCEPT ![n] = WithUris(n, wfh[t].seen)]
          /\ wfh' = [wfh EXCEPT ![t] = [at |-> "ok", net |-> n, seen |-> NothingSeen]]
      BY <1>3, <2>0 DEF UpdateNodeInfos, WaiterAt
    <2>2. ASSUME NEW h \in Handlers \ {t}
          PROVE  /\ wfh'[h].at = "update" => wfh'[h].seen = Ports(network)'
                 /\ wfh'[h].at = "ok" => \A x \in Running(network)' :
                                            nodeInfos'[network][x].uri = node'[network][x].port
      <3>1. wfh'[h] = wfh[h]
        BY <2>1, PoliteFacts
      <3>2. CASE wfh[h].at = "idle"
        BY <3>1, <3>2
      <3>3. CASE wfh[h].at # "idle"
        <4>1. n # network
          <5>1. CASE t \in Handlers
            BY <2>1, <3>3, <5>1, WaiterAlone
          <5>2. CASE t \in Nets
            <6>1. n = t
              BY <2>0, <2>1, <5>2 DEF PoliteInv, WaitInv
            <6> QED
              BY <2>1, <3>3, <6>1, WaiterAlone
          <5> QED
            BY <5>1, <5>2 DEF Threads
        <4>2. nodeInfos'[network] = nodeInfos[network]
          BY <2>1, <4>1, PoliteFacts
        <4> QED
          BY <1>0, <2>1, <3>1, <4>2 DEF UrisInv, Ports, Running
      <3> QED
        BY <3>2, <3>3
    <2>3. ASSUME t \in Handlers
          PROVE  \A x \in Running(network) : nodeInfos'[network][x].uri = node[network][x].port
      <3>1. n = network /\ wfh[t].seen = Ports(n)
        BY <2>0, <2>1, <2>3, WaiterAlone DEF UrisInv
      <3>2. ASSUME NEW x \in Running(n) PROVE WithUris(n, wfh[t].seen)[x].uri = node[n][x].port
        <4>1. x \in Names /\ wfh[t].seen[x] = node[n][x].port /\ wfh[t].seen[x] # NoPort
          BY <3>1, <3>2 DEF Ports, Running, UrisInv
        <4>2. nodeInfos[n][x] \in NodeInfo
          BY <4>1, PoliteFacts
        <4> QED
          BY <4>1, <4>2 DEF WithUris, NodeInfo
      <3> QED
        BY <2>1, <3>1, <3>2, PoliteFacts
    <2>4. wfh'[t].at = "ok"
      BY <2>1, PoliteFacts
    <2> QED
      BY <1>0, <2>1, <2>2, <2>3, <2>4 DEF UrisInv, Running
  <1>4. CASE \/ \E n \in Nets : LaunchFails(n) \/ StarterReturns(n)
             \/ \E t \in Threads : UpdatePanics(t)
    <2>1. UNCHANGED <<node, nodeInfos>> /\ \A h \in Handlers : wfh'[h] = wfh[h]
      BY <1>4, PoliteFacts DEF LaunchFails, StarterReturns, UpdatePanics, netVars
    <2> QED
      BY <1>0, <2>1 DEF UrisInv, Ports, Running
  <1> QED
    BY <1>1, <1>2, <1>3, <1>4 DEF NetStep

LEMMA UrisNext == ClusterInv /\ ClusterInv' /\ PoliteInv /\ UrisInv /\ [Next]_vars => UrisInv'
  <1> SUFFICES ASSUME ClusterInv, ClusterInv', PoliteInv, UrisInv, [Next]_vars PROVE UrisInv'
    OBVIOUS
  <1>1. CASE (\E n \in Nets : WatchStep(n)) \/ CloseServer \/ Exit \/ UNCHANGED vars
    <2>1. UNCHANGED <<netVars, network>>
      BY <1>1, PoliteWatchCalm
      DEF WatchStep, WatchSelect, WatchGivesUp, WatchReady, WatchPublish, CloseServer, Exit, vars,
          serverVars
    <2> QED
      BY <2>1 DEF UrisInv, Ports, Running, netVars
  <1> QED
    BY <1>1, UrisHandler, UrisNet DEF Next

\* Only its own last step lets a handler that waits for healthy reply; it leaves the
\* processes, and the URIs, as they are.
LEMMA WaiterReplies ==
  ASSUME ClusterInv, [Next]_vars, NEW h \in Handlers, pc[h] \in WaitPcs, pc'[h] = "reply"
  PROVE  /\ HealthDone(h) \/ RemoveDone(h) \/ RestartDone(h)
         /\ wfh[h].at = "ok" /\ UNCHANGED <<network, node, nodeInfos>>
  <1>1. pc' # pc /\ pc[h] \notin {"idle", "reply"}
    BY DEF WaitPcs
  <1>2. PICK g \in Handlers : Receive(g) \/ HandlerStep(g)
    BY <1>1 DEF Next, NetStep, WatchStep, WatchSelect, WatchGivesUp, WatchReady, WatchPublish,
                CloseServer, Exit, vars, serverVars
  <1>3. g = h
    BY <1>1, <1>2, OthersStay
  <1>4. ~NodeOpFails(h) /\ ~HealthFails(h)
    BY DEF NodeOpFails, HealthFails, Finish, Goto, ClusterInv, LockInv, TypeOK
  <1>5. ~(HealthPanics(h) \/ NodeOpPanics(h) \/ DeletePanics(h) \/ StopPanics(h))
    BY <1>1, PanicsEnd DEF Ends, serverVars
  <1>6. HealthDone(h) \/ RemoveDone(h) \/ RestartDone(h)
    BY <1>2, <1>3, <1>4, <1>5
    DEF Receive, HandlerStep, Replied, Check, StartCheck, StartRefused, StartNetwork, HealthWait,
        NodeNotFound, RemoveBegin, RemoveDelete, RestartBegin, RestartRemoves, RestartAdds,
        StopBegin, StopNetwork, StopDone, At, WaitPcs
  <1> QED
    BY <1>6 DEF HealthDone, RemoveDone, RestartDone, UnchangedLib

\* When a polite client's Health, RemoveNode or RestartNode ends well, the URIs that the
\* server publishes are those of the processes that run, whatever the wait saw on its way.
THEOREM HealthReportsCurrentUrisHolds == ASSUME Polite PROVE Spec => HealthReportsCurrentUris
  <1>1. ASSUME ClusterInv, UrisInv, [Next]_vars, NEW h \in Handlers, pc[h] \in WaitPcs,
               pc'[h] = "reply"
        PROVE  \A x \in Running(network)' : nodeInfos'[network][x].uri = node'[network][x].port
    BY <1>1, WaiterReplies DEF UrisInv, Running
  <1>2. ClusterInv /\ UrisInv /\ [Next]_vars =>
          [\A h \in Handlers :
             pc[h] \in {"healthwait", "removewait", "restartwait"} /\ pc'[h] = "reply" =>
                 \A x \in Running(network)' :
                     nodeInfos'[network][x].uri = node'[network][x].port]_vars
    BY <1>1 DEF WaitPcs
  <1> QED
    BY <1>2, ClusterInvariant, PoliteInvariant, UrisInit, UrisNext, PTL
    DEF Spec, HealthReportsCurrentUris

=============================================================================
