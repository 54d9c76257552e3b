---------------------------- MODULE Cluster_proofs ----------------------------
(***************************************************************************)
(* The cluster itself: what start(), the node operations and Stop leave    *)
(* behind, whatever they overlap with.                                     *)
(***************************************************************************)
EXTENDS ControlServer_proofs

\* A network that is not launched has no lc.nw and no process; while it is
\* launching it is the current one and still lists all its nodes.
StarterInv ==
    \A n \in Nets :
        /\ starter[n] \in {"unborn", "launching"} => nw[n] = "nil" /\ Running(n) = {}
        /\ starter[n] = "unborn" => network # n
        /\ starter[n] = "launching" => network = n /\ Listed(n) = Names
        /\ donec[n] => starter[n] = "done"

\* What the holder of s.mu may rely on, and what a Stop has done by now.
HolderOK(h) ==
    /\ pc[h] \in NodeOpPcs => nw[network] = "running"
    /\ pc[h] \in NodeOpPcs \ {"removewait"} => req[h].name \in Listed(network)
    /\ pc[h] = "adding" => req[h].name \notin Running(network)
    /\ pc[h] = "stopwait" => nw[network] = "stopped"
    /\ pc[h] = "stopwait" /\ ~NwStopMayFail => Running(network) = {}

HolderInv == \A h \in Handlers : HolderOK(h)

\* The current network is stopped only between the two halves of Stop.
StoppedInv ==
    network # Nil /\ nw[network] = "stopped" => \E h \in Handlers : pc[h] = "stopwait"

\* ListingAgrees, inside critical sections as well as between them.
ListingInv ==
    network # Nil =>
        /\ nodeNames[network] = Listed(network)
        /\ info[clusterInfo].names \in {{}, Listed(network)}
        /\ info[clusterInfo].healthy =>
              info[clusterInfo].hasInfos /\ info[clusterInfo].names = Listed(network)

ClusterInv ==
    /\ LockInv
    /\ StarterInv
    /\ HolderInv
    /\ StoppedInv
    /\ ListingInv
    /\ OneCluster
    /\ NoUnlistedProcess

LEMMA ClusterInvInit == Init => ClusterInv
  BY LockInvInit, DomainsAssumption
  DEF Init, NetInit, ClusterInv, StarterInv, HolderInv, HolderOK, StoppedInv, ListingInv, OneCluster,
      NoUnlistedProcess, NodeOpPcs, Running, Down

-----------------------------------------------------------------------------
(* Steps that leave the cluster and the holder of the lock alone.          *)

HandlersQuiet ==
    \A g \in Handlers :
        \/ pc'[g] = pc[g] /\ req'[g] = req[g]
        \/ pc[g] \notin LockedPcs /\ pc'[g] \notin LockedPcs

ClusterKept ==
    /\ UNCHANGED <<nw, node, starter, donec, network, clusterInfo>>
    /\ \A n \in Nets : Listed(n)' = Listed(n)

LEMMA QuietStep ==
  ASSUME ClusterInv, LockInv', HandlersQuiet, ClusterKept, ListingInv' PROVE ClusterInv'
  <1>1. \A n \in Nets : Running(n)' = Running(n)
    BY DEF ClusterKept, Running
  <1>2. network \in Nets \cup {Nil}
    BY DEF ClusterInv, LockInv, TypeOK
  <1>3. StarterInv'
    BY <1>1 DEF ClusterInv, StarterInv, ClusterKept
  <1>4. HolderInv'
    <2> SUFFICES ASSUME NEW h \in Handlers PROVE HolderOK(h)'
      BY DEF HolderInv
    <2>1. CASE pc'[h] \notin LockedPcs
      BY <2>1 DEF HolderOK, LockedPcs, NodeOpPcs
    <2>2. CASE pc'[h] \in LockedPcs
      <3>1. pc'[h] = pc[h] /\ req'[h] = req[h] /\ network \in Nets
        BY <2>2, <1>2 DEF HandlersQuiet, ClusterInv, LockInv, InCriticalSection
      <3> QED
        BY <1>1, <3>1 DEF ClusterInv, HolderInv, HolderOK, ClusterKept
    <2> QED
      BY <2>1, <2>2
  <1>5. StoppedInv'
    BY DEF ClusterInv, StoppedInv, ClusterKept, HandlersQuiet, LockedPcs
  <1>6. OneCluster' /\ NoUnlistedProcess'
    BY <1>1 DEF ClusterInv, OneCluster, NoUnlistedProcess, ClusterKept
  <1> QED
    BY <1>3, <1>4, <1>5, <1>6 DEF ClusterInv

LEMMA ListingKept ==
  ASSUME ClusterInv, ClusterKept, UNCHANGED <<nodeNames, info>> PROVE ListingInv'
  <1>1. network \in Nets \cup {Nil}
    BY DEF ClusterInv, LockInv, TypeOK
  <1> QED
    BY <1>1 DEF ClusterInv, ListingInv, ClusterKept

LEMMA QuietWaitStep ==
  ASSUME ClusterInv, LockInv', NEW t \in Threads, WaitStep(t), UNCHANGED serverVars
  PROVE  ClusterInv'
  <1>1. HandlersQuiet
    BY DEF HandlersQuiet, serverVars
  <1>2. \A n \in Nets : Listed(n)' = Listed(n)
    <2>1. CASE UNCHANGED nodeInfos
      BY <2>1 DEF Listed
    <2>2. CASE UpdateNodeInfos(t)
      <3>1. wfh[t].net \in Nets /\ wfh[t].seen \in [Names -> Nat] /\ NetTypeOK
        BY <2>2 DEF ClusterInv, LockInv, TypeOK, NetTypeOK, UpdateNodeInfos, WaiterAt
      <3>2. \A n \in Nets, x \in Names : nodeInfos'[n][x].listed = nodeInfos[n][x].listed
        BY <2>2, <3>1, WithUrisFacts DEF UpdateNodeInfos, NetTypeOK
      <3> QED
        BY <3>2 DEF Listed
    <2> QED
      BY <2>1, <2>2 DEF WaitStep, WaitAborted, WaitFails, NodesReported, UpdatePanics, netVars
  <1>3. ClusterKept /\ UNCHANGED <<nodeNames, info>>
    BY <1>2 DEF ClusterKept, WaitStep, WaitAborted, WaitFails, NodesReported, UpdateNodeInfos,
                UpdatePanics, netVars, serverVars
  <1> QED
    BY <1>1, <1>3, ListingKept, QuietStep

\* Requests that arrive, answers that leave, checks, panics, and the end.
LEMMA QuietHandlerStep ==
  ASSUME ClusterInv, LockInv', NEW h \in Handlers,
         \/ Receive(h) \/ Replied(h) \/ Check(h) \/ StartCheck(h) \/ StartRefused(h)
         \/ HealthWait(h) \/ HealthFails(h) \/ NodeNotFound(h)
  PROVE  ClusterInv'
  <1>1. /\ UNCHANGED <<nw, node, nodeInfos, nodeNames, starter, donec, network, clusterInfo,
                       mu, info>>
        /\ pc[h] \notin LockedPcs
        /\ \A g \in Handlers \ {h} : pc'[g] = pc[g] /\ req'[g] = req[g]
    BY DEF Receive, Replied, Check, StartCheck, StartRefused, HealthWait, HealthFails,
       NodeNotFound, Finish, ReturnInfo, Goto, UnchangedLib, netVars, At, LockedPcs,
       ClusterInv, LockInv, TypeOK
  <1>2. pc'[h] \notin LockedPcs
    BY <1>1, DomainsAssumption DEF ClusterInv, LockInv, LockHeld
  <1>3. HandlersQuiet
    BY <1>1, <1>2 DEF HandlersQuiet
  <1>4. ClusterKept
    BY <1>1 DEF ClusterKept, Listed
  <1> QED
    BY <1>1, <1>3, <1>4, ListingKept, QuietStep

LEMMA StillStep ==
  ASSUME ClusterInv, LockInv',
         UNCHANGED <<netVars, mu, network, clusterInfo, info, pc, req>>
  PROVE  ClusterInv'
  <1>1. HandlersQuiet /\ ClusterKept /\ UNCHANGED <<nodeNames, info>>
    BY DEF HandlersQuiet, ClusterKept, Listed, netVars
  <1> QED
    BY <1>1, ListingKept, QuietStep

-----------------------------------------------------------------------------
(* start() and the watcher.                                                *)

LEMMA LaunchStep ==
  ASSUME ClusterInv, LockInv', NEW n \in Nets, Launch(n), UNCHANGED serverVars
  PROVE  ClusterInv'
  <1>1. network = n /\ nw[n] = "nil" /\ Listed(n) = Names /\ starter[n] = "launching"
    BY DEF ClusterInv, StarterInv, Launch, StarterAt
  <1>2. /\ nw' = [nw EXCEPT ![n] = "running"] /\ starter' = [starter EXCEPT ![n] = "waiting"]
        /\ UNCHANGED <<nodeInfos, nodeNames, donec, network, clusterInfo, info, pc, req>>
        /\ nw \in [Nets -> {"nil", "running", "stopped"}]
        /\ starter \in [Nets -> {"unborn", "launching", "waiting", "done"}]
    BY DEF Launch, serverVars, ClusterInv, LockInv, TypeOK, NetTypeOK
  <1>3. \A m \in Nets \ {n} : node'[m] = node[m] /\ Running(m)' = Running(m)
    BY DEF Launch, Running, ClusterInv, LockInv, TypeOK, NetTypeOK
  <1>4. \A m \in Nets : Listed(m)' = Listed(m)
    BY <1>2 DEF Listed
  <1>5. StarterInv'
    <2>1. \A m \in Nets \ {n} : /\ starter'[m] = starter[m] /\ nw'[m] = nw[m]
                                /\ Running(m)' = Running(m) /\ Listed(m)' = Listed(m)
      BY <1>2, <1>3, <1>4
    <2>2. starter'[n] = "waiting"
      BY <1>2
    <2>3. ~donec[n]
      BY <1>1 DEF ClusterInv, StarterInv
    <2> QED
      BY <1>2, <2>1, <2>2, <2>3 DEF ClusterInv, StarterInv
  <1>6. \A h \in Handlers : pc[h] \notin NodeOpPcs /\ pc[h] # "stopwait"
    BY <1>1 DEF ClusterInv, HolderInv, HolderOK
  <1>7. HolderInv' /\ StoppedInv'
    BY <1>1, <1>2, <1>6 DEF HolderInv, HolderOK, StoppedInv, NodeOpPcs
  <1>8. OneCluster'
    BY <1>1, <1>2, <1>3 DEF ClusterInv, OneCluster
  <1>9. NoUnlistedProcess'
    <2>1. Running(n)' \subseteq Listed(n)'
      BY <1>1, <1>4 DEF Running
    <2> QED
      BY <1>3, <1>4, <2>1 DEF ClusterInv, NoUnlistedProcess
  <1>10. ListingInv'
    BY <1>1, <1>2, <1>4 DEF ClusterInv, ListingInv
  <1> QED
    BY <1>5, <1>7, <1>8, <1>9, <1>10 DEF ClusterInv

\* start() returns, from a launch that failed or from its wait for healthy.
LEMMA StarterEndsStep ==
  ASSUME ClusterInv, LockInv', NEW n \in Nets, LaunchFails(n) \/ StarterReturns(n),
         UNCHANGED serverVars
  PROVE  ClusterInv'
  <1>1. /\ starter' = [starter EXCEPT ![n] = "done"] /\ donec' = [donec EXCEPT ![n] = TRUE]
        /\ starter[n] \in {"launching", "waiting"}
        /\ UNCHANGED <<nw, node, nodeInfos, nodeNames, network, clusterInfo, info, pc, req>>
        /\ starter \in [Nets -> {"unborn", "launching", "waiting", "done"}]
        /\ donec \in [Nets -> BOOLEAN]
    BY DEF LaunchFails, StarterReturns, StarterAt, serverVars, ClusterInv, LockInv, TypeOK,
           NetTypeOK
  <1>2. \A m \in Nets : Running(m)' = Running(m) /\ Listed(m)' = Listed(m)
    BY <1>1 DEF Running, Listed
  <1>3. network \in Nets \cup {Nil}
    BY DEF ClusterInv, LockInv, TypeOK
  <1>4. StarterInv'
    BY <1>1, <1>2 DEF ClusterInv, StarterInv
  <1>5. HolderInv'
    BY <1>1, <1>2 DEF ClusterInv, HolderInv, HolderOK, Running, Listed
  <1>6. StoppedInv' /\ ListingInv'
    BY <1>1, <1>2, <1>3 DEF ClusterInv, StoppedInv, ListingInv
  <1>7. OneCluster' /\ NoUnlistedProcess'
    BY <1>1, <1>2 DEF ClusterInv, OneCluster, NoUnlistedProcess
  <1> QED
    BY <1>4, <1>5, <1>6, <1>7 DEF ClusterInv

LEMMA NetStepKeeps == ASSUME ClusterInv, LockInv', NetStep PROVE ClusterInv'
  BY LaunchStep, StarterEndsStep, QuietWaitStep DEF NetStep, WaitStep

LEMMA WatchStepKeeps ==
  ASSUME ClusterInv, LockInv', NEW n \in Nets, WatchStep(n) PROVE ClusterInv'
  <1>1. CASE WatchSelect(n) \/ WatchGivesUp(n) \/ WatchReady(n)
    BY <1>1, StillStep DEF WatchSelect, WatchGivesUp, WatchReady, serverVars
  <1>2. CASE WatchPublish(n)
    <2>1. HandlersQuiet /\ ClusterKept
      BY <1>2 DEF WatchPublish, HandlersQuiet, ClusterKept, Listed, netVars, serverVars
    <2>2. ListingInv'
      <3>1. network \in Nets \cup {Nil} /\ clusterInfo = network
        BY DEF ClusterInv, LockInv, TypeOK, SameCluster
      <3>2. CASE network = Nil
        BY <1>2, <3>2 DEF WatchPublish, ListingInv, serverVars
      <3>3. CASE network \in Nets
        <4>1. info' = [info EXCEPT ![network] = Showing(nodeNames[network], TRUE)]
          BY <1>2, <3>1, <3>3, DomainsAssumption DEF WatchPublish, PublishedInfo
        <4>2. info'[network] = Showing(nodeNames[network], TRUE)
          BY <4>1, <3>3 DEF ClusterInv, LockInv, TypeOK
        <4> QED
          BY <1>2, <3>1, <3>3, <4>2, <2>1
          DEF WatchPublish, Showing, ClusterInv, ListingInv, ClusterKept, netVars
      <3> QED
        BY <3>1, <3>2, <3>3
    <2> QED
      BY <2>1, <2>2, QuietStep
  <1> QED
    BY <1>1, <1>2 DEF WatchStep

-----------------------------------------------------------------------------
(* Start, Health and the beginnings of critical sections.                  *)

LEMMA StartNetworkStep ==
  ASSUME ClusterInv, LockInv', NEW h \in Handlers, StartNetwork(h) PROVE ClusterInv'
  <1>1. PICK n \in Nets :
          /\ starter[n] = "unborn"
          /\ NewLocalNetwork(n, req[h].exec)
          /\ network' = n /\ clusterInfo' = n
          /\ info' = [info EXCEPT ![n] = FreshInfo]
    BY DEF StartNetwork
  <1>2. /\ network = Nil /\ mu = Nil
        /\ UNCHANGED <<nw, node, donec, mu>>
        /\ starter' = [starter EXCEPT ![n] = "launching"]
        /\ starter \in [Nets -> {"unborn", "launching", "waiting", "done"}]
        /\ nodeNames' = [nodeNames EXCEPT ![n] = Names]
        /\ nodeNames \in [Nets -> SUBSET Names]
        /\ info \in [Nets -> InfoType]
    BY <1>1 DEF StartNetwork, StartAdmitted, NewLocalNetwork, ClusterInv, LockInv, TypeOK,
                NetTypeOK, InfoType
  <1>3. \A m \in Nets : Running(m)' = Running(m)
    BY <1>2 DEF Running
  <1>4. Listed(n)' = Names
    BY <1>1 DEF NewLocalNetwork, Listed, ClusterInv, LockInv, TypeOK, NetTypeOK
  <1>5. \A m \in Nets \ {n} : Listed(m)' = Listed(m)
    BY <1>1 DEF NewLocalNetwork, Listed, ClusterInv, LockInv, TypeOK, NetTypeOK
  <1>6. nw[n] = "nil" /\ Running(n) = {}
    BY <1>1 DEF ClusterInv, StarterInv
  <1>7. StarterInv'
    <2>1. \A m \in Nets \ {n} : starter'[m] = starter[m] /\ starter[m] # "launching"
      BY <1>2, DomainsAssumption DEF ClusterInv, StarterInv
    <2>2. starter'[n] = "launching" /\ ~donec[n]
      BY <1>1, <1>2 DEF ClusterInv, StarterInv
    <2> QED
      BY <1>1, <1>2, <1>3, <1>4, <1>5, <1>6, <2>1, <2>2 DEF ClusterInv, StarterInv
  <1>8. \A g \in Handlers : pc'[g] \notin LockedPcs
    BY <1>2, DomainsAssumption DEF LockInv, LockHeld
  <1>9. HolderInv'
    BY <1>8 DEF HolderInv, HolderOK, LockedPcs, NodeOpPcs
  <1>10. StoppedInv'
    BY <1>1, <1>2, <1>6 DEF StoppedInv
  <1>11. ListingInv'
    <2>1. info'[n] = FreshInfo /\ nodeNames'[n] = Names
      BY <1>1, <1>2
    <2> QED
      BY <1>1, <1>4, <2>1 DEF ListingInv, FreshInfo
  <1>12. OneCluster'
    BY <1>1, <1>2, <1>3, DomainsAssumption DEF ClusterInv, OneCluster
  <1>13. NoUnlistedProcess'
    BY <1>3, <1>4, <1>5, <1>6 DEF ClusterInv, NoUnlistedProcess
  <1> QED
    BY <1>7, <1>9, <1>10, <1>11, <1>12, <1>13 DEF ClusterInv

LEMMA HealthDoneStep ==
  ASSUME ClusterInv, LockInv', NEW h \in Handlers, HealthDone(h) PROVE ClusterInv'
  <1>1. /\ network \in Nets /\ clusterInfo = network
        /\ UNCHANGED <<nw, node, nodeInfos, starter, donec, network, clusterInfo, mu>>
        /\ pc[h] \notin LockedPcs /\ mu = Nil
        /\ \A g \in Handlers \ {h} : pc'[g] = pc[g] /\ req'[g] = req[g]
    BY DEF HealthDone, At, LockedPcs, UnchangedLib, ReturnInfo, Goto, ClusterInv, LockInv,
           TypeOK, SameCluster
  <1>2. HandlersQuiet
    BY <1>1, DomainsAssumption DEF HandlersQuiet, LockInv, LockHeld
  <1>3. ClusterKept
    BY <1>1 DEF ClusterKept, Listed
  <1>4. nodeNames'[network] = Listed(network)
    BY <1>1 DEF HealthDone, ClusterInv, LockInv, TypeOK, NetTypeOK
  <1>5. info'[network] = Showing(Listed(network), info[network].healthy)
    BY <1>1 DEF HealthDone, ClusterInv, LockInv, TypeOK
  <1>6. ListingInv'
    BY <1>1, <1>3, <1>4, <1>5 DEF ListingInv, ClusterKept, Showing
  <1> QED
    BY <1>2, <1>3, <1>6, QuietStep

\* With s.mu free and lc.nw set, the network runs: no Stop is half done.
LEMMA RunningWhenFree ==
  ASSUME ClusterInv, mu = Nil, network \in Nets, nw[network] # "nil"
  PROVE  nw[network] = "running"
  <1>1. \A h \in Handlers : pc[h] \notin LockedPcs
    BY DomainsAssumption DEF ClusterInv, LockInv, LockHeld
  <1>2. nw[network] # "stopped"
    BY <1>1, DomainsAssumption DEF ClusterInv, StoppedInv, LockedPcs
  <1> QED
    BY <1>2 DEF ClusterInv, LockInv, TypeOK, NetTypeOK

LEMMA BeginStep ==
  ASSUME ClusterInv, LockInv', NEW h \in Handlers,
         RemoveBegin(h) \/ RestartBegin(h) \/ StopBegin(h)
  PROVE  ClusterInv'
  <1>1. /\ network \in Nets /\ mu = Nil /\ mu' = h
        /\ UNCHANGED <<nw, node, nodeNames, starter, donec, network, clusterInfo, info, req>>
        /\ pc[h] \notin LockedPcs
    BY DEF RemoveBegin, RestartBegin, StopBegin, UnchangedLib, At, LockedPcs, ClusterInv,
           LockInv, TypeOK
  <1>2. PICK l \in {"removing", "restarting", "stopping"} :
          /\ pc' = [pc EXCEPT ![h] = l]
          /\ l # "stopping" => nw[network] # "nil" /\ req[h].name \in Listed(network)
    BY DEF RemoveBegin, RestartBegin, NodeFound, LookedUpIn, StopBegin, Goto
  <1>3. \A m \in Nets : Running(m)' = Running(m)
    BY <1>1 DEF Running
  <1>4. \A m \in Nets : Listed(m)' = Listed(m)
    <2>1. CASE UNCHANGED nodeInfos
      BY <2>1 DEF Listed
    <2>2. CASE RestartBegin(h)
      <3>1. req[h].name \in Listed(network)
        BY <2>2 DEF RestartBegin, NodeFound, LookedUpIn
      <3>2. PICK y \in Names : y = req[h].name
        BY <3>1 DEF Listed
      <3>3. nodeInfos' = [nodeInfos EXCEPT ![network][y].exec = req[h].exec]
        BY <2>2, <3>2 DEF RestartBegin, LookedUpIn
      <3>4. nodeInfos \in [Nets -> [Names -> NodeInfo]]
        BY DEF ClusterInv, LockInv, TypeOK, NetTypeOK
      <3>5. \A m \in Nets, x \in Names : nodeInfos'[m][x].listed = nodeInfos[m][x].listed
        BY <1>1, <3>3, <3>4 DEF NodeInfo
      <3> QED
        BY <3>5 DEF Listed
    <2> QED
      BY <2>1, <2>2 DEF RemoveBegin, StopBegin
  <1>5. \A g \in Handlers \ {h} : pc'[g] = pc[g] /\ pc[g] \notin LockedPcs
    BY <1>1, <1>2, DomainsAssumption DEF ClusterInv, LockInv, LockHeld, TypeOK
  <1>6. pc'[h] = l
    BY <1>2 DEF ClusterInv, LockInv, TypeOK
  <1>7. HolderInv'
    <2>1. \A g \in Handlers \ {h} : HolderOK(g)'
      BY <1>5 DEF HolderOK, LockedPcs, NodeOpPcs
    <2>2. HolderOK(h)'
      BY <1>1, <1>2, <1>4, <1>6, RunningWhenFree DEF HolderOK, NodeOpPcs
    <2> QED
      BY <2>1, <2>2 DEF HolderInv
  <1>8. StoppedInv'
    <2>1. nw[network] # "stopped"
      BY <1>1, RunningWhenFree
    <2> QED
      BY <1>1, <2>1 DEF StoppedInv
  <1>9. StarterInv' /\ OneCluster' /\ NoUnlistedProcess' /\ ListingInv'
    BY <1>1, <1>3, <1>4
    DEF ClusterInv, StarterInv, OneCluster, NoUnlistedProcess, ListingInv
  <1> QED
    BY <1>7, <1>8, <1>9 DEF ClusterInv

-----------------------------------------------------------------------------
(* Inside the critical sections.                                           *)

\* The holder of s.mu is alone in its critical section, whatever it does there.
LEMMA OthersOutside ==
  ASSUME ClusterInv, NEW h \in Handlers, pc[h] \in LockedPcs
  PROVE  \A g \in Handlers \ {h} : pc[g] \notin LockedPcs
  BY DEF ClusterInv, LockInv, LockHeld

LEMMA NodeOpEndStep ==
  ASSUME ClusterInv, LockInv', NEW h \in Handlers,
         NodeOpFails(h) \/ RemoveDone(h) \/ RestartDone(h)
  PROVE  ClusterInv'
  <1>1. /\ pc[h] \in NodeOpPcs /\ mu' = Nil /\ network \in Nets /\ clusterInfo = network
        /\ UNCHANGED <<nw, node, nodeInfos, nodeNames, starter, donec, network, clusterInfo>>
        /\ \A g \in Handlers \ {h} : pc'[g] = pc[g] /\ req'[g] = req[g]
    BY DEF NodeOpFails, RemoveDone, RestartDone, UnchangedLib, At, LockedPcs, NodeOpPcs, Finish,
           ReturnInfo, Goto, ClusterInv, LockInv, TypeOK, SameCluster, InCriticalSection
  <1>2. \A g \in Handlers : pc'[g] \notin LockedPcs
    BY <1>1, DomainsAssumption DEF LockInv, LockHeld
  <1>3. \A m \in Nets : Running(m)' = Running(m) /\ Listed(m)' = Listed(m)
    BY <1>1 DEF Running, Listed
  <1>4. HolderInv'
    BY <1>2 DEF HolderInv, HolderOK, LockedPcs, NodeOpPcs
  <1>5. StoppedInv'
    BY <1>1 DEF ClusterInv, HolderInv, HolderOK, StoppedInv
  <1>6. StarterInv' /\ OneCluster' /\ NoUnlistedProcess'
    BY <1>1, <1>3 DEF ClusterInv, StarterInv, OneCluster, NoUnlistedProcess
  <1>7. ListingInv'
    <2>1. CASE UNCHANGED info
      BY <1>1, <1>3, <2>1 DEF ClusterInv, ListingInv
    <2>2. CASE RestartDone(h)
      <3>1. info'[network] = Showing(info[network].names, info[network].healthy)
        BY <1>1, <2>2 DEF RestartDone, ClusterInv, LockInv, TypeOK
      <3> QED
        BY <1>1, <1>3, <3>1 DEF ClusterInv, ListingInv, Showing
    <2> QED
      BY <2>1, <2>2 DEF NodeOpFails, RemoveDone
  <1> QED
    BY <1>4, <1>5, <1>6, <1>7 DEF ClusterInv

LEMMA StopNetworkStep ==
  ASSUME ClusterInv, LockInv', NEW h \in Handlers, StopNetwork(h) PROVE ClusterInv'
  <1>1. /\ pc[h] = "stopping" /\ pc'[h] = "stopwait" /\ network \in Nets
        /\ nw' = [nw EXCEPT ![network] = "stopped"] /\ nw[network] # "nil"
        /\ UNCHANGED <<nodeInfos, nodeNames, starter, donec, network, clusterInfo, info, req>>
        /\ \A g \in Handlers \ {h} : pc'[g] = pc[g]
    BY DEF StopNetwork, NwStop, At, Goto, LockedPcs, ClusterInv, LockInv, TypeOK,
           InCriticalSection
  <1>2. PICK left \in SUBSET Running(network) :
          /\ NwStopMayFail \/ left = {}
          /\ Running(network)' = left
          /\ \A m \in Nets \ {network} : Running(m)' = Running(m)
    <2>1. PICK left \in {S \in SUBSET Running(network) : NwStopMayFail \/ S = {}} :
            node' = [node EXCEPT ![network] =
              [x \in Names |-> [up |-> x \in left, port |-> node[network][x].port,
                                exec |-> node[network][x].exec]]]
      BY DEF StopNetwork, NwStop
    <2>2. node \in [Nets -> [Names -> Process]]
      BY DEF ClusterInv, LockInv, TypeOK, NetTypeOK
    <2>3. \A x \in Names : node'[network][x].up <=> x \in left
      BY <1>1, <2>1, <2>2
    <2>4. Running(network)' = left
      BY <1>1, <2>1, <2>3 DEF Running
    <2>5. \A m \in Nets \ {network} : Running(m)' = Running(m)
      BY <1>1, <2>1, <2>2 DEF Running
    <2> QED
      BY <2>1, <2>4, <2>5
  <1>3. \A m \in Nets : Listed(m)' = Listed(m)
    BY <1>1 DEF Listed
  <1>4. \A g \in Handlers \ {h} : pc[g] \notin LockedPcs
    BY <1>1, OthersOutside DEF LockedPcs
  <1>5. nw \in [Nets -> {"nil", "running", "stopped"}]
    BY DEF ClusterInv, LockInv, TypeOK, NetTypeOK
  <1>6. HolderInv'
    <2>1. HolderOK(h)'
      BY <1>1, <1>2, <1>5 DEF HolderOK, NodeOpPcs
    <2>2. \A g \in Handlers \ {h} : HolderOK(g)'
      BY <1>1, <1>4 DEF HolderOK, LockedPcs, NodeOpPcs
    <2> QED
      BY <2>1, <2>2 DEF HolderInv
  <1>7. StoppedInv' /\ ListingInv'
    BY <1>1, <1>3 DEF StoppedInv, ClusterInv, ListingInv
  <1>8. StarterInv'
    BY <1>1, <1>2, <1>3, <1>5 DEF ClusterInv, StarterInv
  <1>9. OneCluster' /\ NoUnlistedProcess'
    BY <1>1, <1>2, <1>3, <1>5 DEF ClusterInv, OneCluster, NoUnlistedProcess
  <1> QED
    BY <1>6, <1>7, <1>8, <1>9 DEF ClusterInv

LEMMA StopDoneStep ==
  ASSUME ClusterInv, LockInv', NEW h \in Handlers, StopDone(h) PROVE ClusterInv'
  <1>1. /\ pc[h] = "stopwait" /\ network \in Nets /\ donec[network] /\ mu' = Nil
        /\ network' = Nil
        /\ UNCHANGED <<nw, node, nodeInfos, starter, donec>>
    BY DEF StopDone, StarterGone, UnchangedLib, At, LockedPcs, ClusterInv, LockInv,
           InCriticalSection
  <1>2. \A m \in Nets : Running(m)' = Running(m) /\ Listed(m)' = Listed(m)
    BY <1>1 DEF Running, Listed
  <1>3. starter[network] = "done" /\ nw[network] = "stopped"
    BY <1>1 DEF ClusterInv, StarterInv, HolderInv, HolderOK
  <1>4. ~NwStopMayFail => Running(network) = {}
    BY <1>1 DEF ClusterInv, HolderInv, HolderOK
  <1>5. \A g \in Handlers : pc'[g] \notin LockedPcs
    BY <1>1, DomainsAssumption DEF LockInv, LockHeld
  <1>6. HolderInv'
    BY <1>5 DEF HolderInv, HolderOK, LockedPcs, NodeOpPcs
  <1>7. StoppedInv' /\ ListingInv'
    BY <1>1 DEF StoppedInv, ListingInv
  <1>8. StarterInv'
    BY <1>1, <1>2, <1>3, DomainsAssumption DEF ClusterInv, StarterInv
  <1>9. OneCluster' /\ NoUnlistedProcess'
    BY <1>1, <1>2, <1>3, <1>4 DEF ClusterInv, OneCluster, NoUnlistedProcess
  <1> QED
    BY <1>6, <1>7, <1>8, <1>9 DEF ClusterInv

\* A step of the holder that stays inside: what it must show for HolderInv.
LEMMA HolderMoves ==
  ASSUME ClusterInv, LockInv', NEW h \in Handlers, pc[h] \in LockedPcs,
         \A g \in Handlers \ {h} : pc'[g] = pc[g], HolderOK(h)'
  PROVE  HolderInv'
  <1>1. \A g \in Handlers \ {h} : pc'[g] \notin LockedPcs
    BY OthersOutside
  <1>2. \A g \in Handlers \ {h} : HolderOK(g)'
    BY <1>1 DEF HolderOK, LockedPcs, NodeOpPcs
  <1> QED
    BY <1>2 DEF HolderInv

LEMMA RemoveDeleteStep ==
  ASSUME ClusterInv, LockInv', NEW h \in Handlers, RemoveDelete(h) PROVE ClusterInv'
  <1> DEFINE x == req[h].name
  <1>1. /\ pc[h] = "removing" /\ pc'[h] = "removewait" /\ network \in Nets
        /\ clusterInfo = network /\ x \in Names /\ x \in Running(network)
        /\ nw[network] = "running" /\ starter[network] \notin {"unborn", "launching"}
        /\ UNCHANGED <<nw, starter, donec, network, clusterInfo, req>>
        /\ \A g \in Handlers \ {h} : pc'[g] = pc[g]
    BY DEF RemoveDelete, AfterDelete, NwRemoved, At, Goto, LockedPcs, NodeOpPcs, ClusterInv, LockInv, TypeOK,
           SameCluster, InCriticalSection, HolderInv, HolderOK, StarterInv
  <1>2. /\ node \in [Nets -> [Names -> Process]]
        /\ nodeInfos \in [Nets -> [Names -> NodeInfo]]
        /\ nodeNames \in [Nets -> SUBSET Names]
        /\ info \in [Nets -> InfoType]
    BY DEF ClusterInv, LockInv, TypeOK, NetTypeOK, InfoType
  <1>3. Running(network)' = Running(network) \ {x}
    <2>1. \A y \in Names : node'[network][y].up <=> node[network][y].up /\ y # x
      BY <1>1, <1>2 DEF RemoveDelete, AfterDelete, AfterNwRemove
    <2> QED
      BY <1>1, <2>1 DEF Running
  <1>4. Listed(network)' = Listed(network) \ {x}
    <2>1. \A y \in Names : nodeInfos'[network][y].listed <=> nodeInfos[network][y].listed /\ y # x
      BY <1>1, <1>2 DEF RemoveDelete, AfterDelete, Unlisted
    <2> QED
      BY <1>1, <2>1 DEF Listed
  <1>5. \A m \in Nets \ {network} : Running(m)' = Running(m) /\ Listed(m)' = Listed(m)
    BY <1>1, <1>2 DEF RemoveDelete, AfterDelete, AfterNwRemove, Running, Listed
  <1>6. HolderInv'
    <2>1. HolderOK(h)'
      BY <1>1 DEF HolderOK, NodeOpPcs
    <2> QED
      BY <1>1, <2>1, HolderMoves DEF LockedPcs
  <1>7. StarterInv'
    BY <1>1, <1>5 DEF ClusterInv, StarterInv
  <1>8. StoppedInv'
    BY <1>1 DEF StoppedInv
  <1>9. ListingInv'
    <2>1. nodeNames'[network] = Listed(network) \ {x}
      BY <1>1, <1>2 DEF RemoveDelete, AfterDelete, RemainingNames
    <2>2. info'[network] = Showing(Listed(network) \ {x}, info[network].healthy)
      BY <1>1, <1>2 DEF RemoveDelete, AfterDelete, RemainingNames
    <2> QED
      BY <1>1, <1>4, <2>1, <2>2 DEF ListingInv, Showing
  <1>10. OneCluster' /\ NoUnlistedProcess'
    BY <1>1, <1>3, <1>4, <1>5 DEF ClusterInv, OneCluster, NoUnlistedProcess
  <1> QED
    BY <1>6, <1>7, <1>8, <1>9, <1>10 DEF ClusterInv

\* RestartNode takes the old process down and brings a new one up; the listing
\* does not change, and the name it works on is a listed one.
LEMMA RestartSteps ==
  ASSUME ClusterInv, LockInv', NEW h \in Handlers, RestartRemoves(h) \/ RestartAdds(h)
  PROVE  ClusterInv'
  <1> DEFINE x == req[h].name
  <1>1. /\ pc[h] \in {"restarting", "adding"} /\ network \in Nets
        /\ pc'[h] = IF pc[h] = "restarting" THEN "adding" ELSE "restartwait"
        /\ clusterInfo = network /\ x \in Names /\ x \in Listed(network)
        /\ nw[network] = "running" /\ starter[network] \notin {"unborn", "launching"}
        /\ UNCHANGED <<nw, nodeInfos, nodeNames, starter, donec, network, clusterInfo, info, req>>
        /\ \A g \in Handlers \ {h} : pc'[g] = pc[g]
    BY DEF RestartRemoves, RestartAdds, At, Goto, LockedPcs, NodeOpPcs, ClusterInv, LockInv,
           TypeOK, SameCluster, InCriticalSection, HolderInv, HolderOK, StarterInv
  <1>2. node \in [Nets -> [Names -> Process]]
    BY DEF ClusterInv, LockInv, TypeOK, NetTypeOK
  <1>3. \A m \in Nets : Listed(m)' = Listed(m)
    BY <1>1 DEF Listed
  <1>4. \A m \in Nets \ {network} : Running(m)' = Running(m)
    BY <1>1, <1>2 DEF RestartRemoves, RestartAdds, AfterNwRemove, Running
  <1>5. pc[h] = "restarting" => Running(network)' = Running(network) \ {x}
    <2> SUFFICES ASSUME pc[h] = "restarting" PROVE Running(network)' = Running(network) \ {x}
      OBVIOUS
    <2>1. RestartRemoves(h)
      BY DEF RestartAdds, At
    <2>2. \A y \in Names : node'[network][y].up <=> node[network][y].up /\ y # x
      BY <1>1, <1>2, <2>1 DEF RestartRemoves, AfterNwRemove
    <2> QED
      BY <1>1, <2>2 DEF Running
  <1>6. Running(network)' \subseteq Listed(network)
    <2>1. \A y \in Names : node'[network][y].up => node[network][y].up \/ y = x
      BY <1>1, <1>2 DEF RestartRemoves, RestartAdds, AfterNwRemove
    <2> QED
      BY <1>1, <2>1 DEF Running, ClusterInv, NoUnlistedProcess
  <1>7. HolderInv'
    <2>1. HolderOK(h)'
      BY <1>1, <1>3, <1>5 DEF HolderOK, NodeOpPcs
    <2> QED
      BY <1>1, <2>1, HolderMoves DEF LockedPcs
  <1>8. StarterInv'
    BY <1>1, <1>3, <1>4 DEF ClusterInv, StarterInv
  <1>9. StoppedInv' /\ ListingInv'
    BY <1>1, <1>3 DEF ClusterInv, StoppedInv, ListingInv
  <1>10. OneCluster' /\ NoUnlistedProcess'
    BY <1>1, <1>3, <1>4, <1>6 DEF ClusterInv, OneCluster, NoUnlistedProcess
  <1> QED
    BY <1>7, <1>8, <1>9, <1>10 DEF ClusterInv

\* A panic changes nothing but proc; the end of Run, nothing but closed.
LEMMA EndingStep ==
  ASSUME ClusterInv, LockInv',
         (\E h \in Handlers :
            HealthPanics(h) \/ NodeOpPanics(h) \/ DeletePanics(h) \/ StopPanics(h))
         \/ CloseServer \/ Exit \/ UNCHANGED vars
  PROVE  ClusterInv'
  <1>1. UNCHANGED <<netVars, mu, network, clusterInfo, info, pc, req>>
    BY DEF HealthPanics, NodeOpPanics, DeletePanics, StopPanics, Panic, CloseServer, Exit, vars,
           serverVars
  <1> QED
    BY <1>1, StillStep

-----------------------------------------------------------------------------

LEMMA ClusterInvNext == ClusterInv /\ [Next]_vars => ClusterInv'
  <1> SUFFICES ASSUME ClusterInv, [Next]_vars PROVE ClusterInv'
    OBVIOUS
  <1>1. LockInv'
    BY LockInvNext DEF ClusterInv
  <1>2. ASSUME NEW h \in Handlers, Receive(h) \/ HandlerStep(h) PROVE ClusterInv'
    BY <1>1, <1>2, QuietHandlerStep, StartNetworkStep, HealthDoneStep, BeginStep, NodeOpEndStep,
       RemoveDeleteStep, RestartSteps, StopNetworkStep, StopDoneStep, EndingStep
    DEF HandlerStep
  <1>3. ASSUME NEW n \in Nets, WatchStep(n) PROVE ClusterInv'
    BY <1>1, <1>3, WatchStepKeeps
  <1>4. CASE NetStep
    BY <1>1, <1>4, NetStepKeeps
  <1>5. CASE CloseServer \/ Exit \/ UNCHANGED vars
    BY <1>1, <1>5, EndingStep
  <1> QED
    BY <1>2, <1>3, <1>4, <1>5 DEF Next

\* All of it, in every state that any clients can bring the server to.
THEOREM ClusterInvariant == Spec => []ClusterInv
  BY ClusterInvInit, ClusterInvNext, PTL DEF Spec

\* Every network the server let go of is stopped, brought up by nobody, and
\* without a process, for any number of clients and of Starts and Stops.
THEOREM OneClusterHolds == Spec => []OneCluster
  <1>1. ClusterInv => OneCluster
    BY DEF ClusterInv
  <1> QED
    BY <1>1, ClusterInvariant, PTL

\* lc.nodeNames, lc.nodeInfos and the published ClusterInfo list the same nodes
\* whenever s.mu is free, after any mix of successful and failed operations.
THEOREM ListingAgreesHolds == Spec => []ListingAgrees
  <1>1. ClusterInv => ListingAgrees
    BY DEF ClusterInv, ListingInv, ListingAgrees
  <1> QED
    BY <1>1, ClusterInvariant, PTL

\* No process is ever left running under a name that is not listed.
THEOREM NoUnlistedProcessHolds == Spec => []NoUnlistedProcess
  <1>1. ClusterInv => NoUnlistedProcess
    BY DEF ClusterInv
  <1> QED
    BY <1>1, ClusterInvariant, PTL

-----------------------------------------------------------------------------
(* Who waits for what: handlers, start() goroutines and waitForHealthy.    *)

\* The end of the process, by a panic or after Run: nothing else changes.
Ends ==
    /\ proc = "up" /\ proc' # "up"
    /\ UNCHANGED <<netVars, serverVars>>

LEMMA PanicsEnd ==
  ASSUME NEW h \in Handlers,
         HealthPanics(h) \/ NodeOpPanics(h) \/ DeletePanics(h) \/ StopPanics(h)
  PROVE  Ends
  BY DEF HealthPanics, NodeOpPanics, DeletePanics, StopPanics, Panic, At, Ends

\* A handler's step leaves the program counters and requests of the others alone.
LEMMA OthersStay ==
  ASSUME ClusterInv, NEW h \in Handlers, Receive(h) \/ HandlerStep(h)
  PROVE  \A g \in Handlers \ {h} : pc'[g] = pc[g] /\ req'[g] = req[g]
  <1>1. /\ (\E l : pc' = [pc EXCEPT ![h] = l]) \/ UNCHANGED pc
        /\ (\E r : req' = [req EXCEPT ![h] = r]) \/ UNCHANGED req
    <2>1. CASE Receive(h) \/ Replied(h) \/ Check(h) \/ StartCheck(h) \/ StartRefused(h)
      BY <2>1 DEF Receive, Replied, Check, StartCheck, StartRefused, Finish, ReturnInfo, Goto
    <2>2. CASE StartNetwork(h) \/ HealthWait(h) \/ HealthFails(h) \/ HealthDone(h)
      BY <2>2 DEF StartNetwork, HealthWait, HealthFails, HealthDone, Finish, ReturnInfo, Goto
    <2>3. CASE HealthPanics(h) \/ NodeOpPanics(h) \/ DeletePanics(h) \/ StopPanics(h)
      BY <2>3, PanicsEnd DEF Ends, serverVars
    <2>4. CASE NodeNotFound(h) \/ NodeOpFails(h) \/ RemoveBegin(h) \/ RemoveDelete(h)
               \/ RemoveDone(h)
      BY <2>4 DEF NodeNotFound, NodeOpFails, RemoveBegin, RemoveDelete, RemoveDone, Finish,
                  ReturnInfo, Goto
    <2>5. CASE RestartBegin(h) \/ RestartRemoves(h) \/ RestartAdds(h) \/ RestartDone(h)
      BY <2>5 DEF RestartBegin, RestartRemoves, RestartAdds, RestartDone, ReturnInfo, Goto
    <2>6. CASE StopBegin(h) \/ StopNetwork(h) \/ StopDone(h)
      BY <2>6 DEF StopBegin, StopNetwork, StopDone, ReturnInfo, Goto
    <2> QED
      BY <2>1, <2>2, <2>3, <2>4, <2>5, <2>6 DEF HandlerStep
  <1> QED
    BY <1>1 DEF ClusterInv, LockInv, TypeOK

\* The points at which a handler is inside waitForHealthy.
WaitPcs == {"healthwait", "removewait", "restartwait"}

\* What a handler's step can do to its own wait: nothing, end it, or begin it.
LEMMA HandlerWaits ==
  ASSUME ClusterInv, NEW h \in Handlers, Receive(h) \/ HandlerStep(h)
  PROVE  \/ UNCHANGED <<pc, wfh>>
         \/ UNCHANGED wfh /\ pc[h] \notin WaitPcs /\ pc'[h] \notin WaitPcs
         \/ /\ wfh' = [wfh EXCEPT ![h] = NotWaiting]
            /\ pc'[h] \in {"idle", "reply"}
            /\ pc[h] \in WaitPcs => wfh[h].at \in {"ok", "err"}
         \/ /\ wfh' = [wfh EXCEPT ![h] = WaitingFor(network)]
            /\ pc[h] \in {"health", "removing", "adding"} /\ pc'[h] \in WaitPcs
            /\ network \in Nets
  <1>0. pc \in [Handlers -> Pcs] /\ network \in Nets \cup {Nil}
    BY DEF ClusterInv, LockInv, TypeOK
  <1>1. CASE Replied(h) \/ StartRefused(h) \/ HealthFails(h) \/ NodeNotFound(h) \/ NodeOpFails(h)
    BY <1>0, <1>1
    DEF Replied, StartRefused, HealthFails, NodeNotFound, NodeOpFails, Finish, Goto, At, WaitPcs
  <1>2. CASE StartNetwork(h) \/ HealthDone(h) \/ RemoveDone(h) \/ RestartDone(h) \/ StopDone(h)
    <2>1. \E i : ReturnInfo(h, i)
      BY <1>2 DEF StartNetwork, HealthDone, RemoveDone, RestartDone, StopDone
    <2>2. pc[h] \in WaitPcs => wfh[h].at = "ok"
      BY <1>2 DEF StartNetwork, HealthDone, RemoveDone, RestartDone, StopDone, At, WaitPcs
    <2> QED
      BY <1>0, <2>1, <2>2 DEF ReturnInfo, Goto
  <1>3. CASE Check(h) \/ StartCheck(h)
    <2>1. req[h].op \notin WaitPcs /\ pc[h] \notin WaitPcs
      BY <1>3, OpsAssumption
      DEF Check, StartCheck, At, ClusterInv, LockInv, InCriticalSection, AllOps, WaitPcs
    <2>2. \/ Finish(h)
          \/ ReturnInfo(h, clusterInfo)
          \/ UNCHANGED wfh /\ \E l \in {"start", req[h].op} : Goto(h, l)
      BY <1>3 DEF Check, StartCheck
    <2> QED
      BY <1>0, <2>1, <2>2 DEF Finish, ReturnInfo, Goto, WaitPcs
  <1>4. CASE \/ Receive(h) \/ RemoveBegin(h) \/ RestartBegin(h) \/ RestartRemoves(h)
             \/ StopBegin(h) \/ StopNetwork(h)
    BY <1>0, <1>4
    DEF Receive, RemoveBegin, RestartBegin, RestartRemoves, StopBegin, StopNetwork, Goto, At,
        netVars, UnchangedLib, WaitPcs
  <1>5. CASE HealthWait(h) \/ RemoveDelete(h) \/ RestartAdds(h)
    <2>1. network \in Nets
      BY <1>0, <1>5
      DEF HealthWait, RemoveDelete, RestartAdds, At, ClusterInv, LockInv, InCriticalSection,
          LockedPcs
    <2> QED
      BY <1>0, <1>5, <2>1
      DEF HealthWait, RemoveDelete, RestartAdds, EnterWaitForHealthy, Goto, At, WaitPcs
  <1>6. CASE HealthPanics(h) \/ NodeOpPanics(h) \/ DeletePanics(h) \/ StopPanics(h)
    BY <1>6, PanicsEnd DEF Ends, netVars, serverVars
  <1> QED
    BY <1>1, <1>2, <1>3, <1>4, <1>5, <1>6 DEF HandlerStep

\* Whoever is in waitForHealthy is at the point of its code that calls it; start() is
\* over once donec is closed and not before, and errc is its own until then.
GoInv ==
    /\ \A h \in Handlers :
         /\ wfh[h].at # "idle" <=> pc[h] \in WaitPcs
         /\ pc[h] \in {"stopping", "stopwait"} => stopc[network]
    /\ \A n \in Nets :
         /\ wfh[n].at # "idle" <=> starter[n] = "waiting"
         /\ wfh[n].at # "idle" => wfh[n].net = n
         /\ donec[n] <=> starter[n] = "done"
         /\ starter[n] # "done" => errc[n] = 0

LEMMA GoInit == Init => GoInv
  <1> SUFFICES ASSUME Init PROVE GoInv
    OBVIOUS
  <1>1. \A t \in Threads : wfh[t].at = "idle"
    BY DEF Init, NetInit, NotWaiting
  <1> QED
    BY <1>1 DEF Init, NetInit, Threads, GoInv, WaitPcs

LEMMA GoTypes ==
  ASSUME ClusterInv
  PROVE  /\ wfh \in [Threads -> WaitType] /\ pc \in [Handlers -> Pcs]
         /\ starter \in [Nets -> {"unborn", "launching", "waiting", "done"}]
         /\ donec \in [Nets -> BOOLEAN] /\ stopc \in [Nets -> BOOLEAN]
         /\ errc \in [Nets -> 0 .. ErrcCap]
         /\ Handlers \subseteq Threads /\ Nets \subseteq Threads /\ Handlers \cap Nets = {}
         /\ network \in Nets \cup {Nil} /\ Nil \notin Handlers /\ Nil \notin Nets
  BY DomainsAssumption DEF ClusterInv, LockInv, TypeOK, NetTypeOK, Threads, WaitType

LEMMA GoHandler ==
  ASSUME ClusterInv, GoInv, NEW h \in Handlers, Receive(h) \/ HandlerStep(h) PROVE GoInv'
  <1>1. /\ \A g \in Handlers \ {h} : pc'[g] = pc[g]
        /\ \A t \in Threads \ {h} : wfh'[t] = wfh[t]
    BY OthersStay, HandlerWaits, GoTypes
  <1>2. \A g \in Handlers : wfh'[g].at # "idle" <=> pc'[g] \in WaitPcs
    <2>1. wfh'[h].at # "idle" <=> pc'[h] \in WaitPcs
      <3>1. NotWaiting.at = "idle" /\ WaitingFor(network).at = "wait"
        BY DEF NotWaiting, WaitingFor
      <3> QED
        BY <3>1, HandlerWaits, GoTypes DEF GoInv, WaitPcs
    <2> QED
      BY <1>1, <2>1, GoTypes DEF GoInv
  <1>3. UNCHANGED <<donec, errc>>
    BY PanicsEnd
    DEF HandlerStep, Receive, Replied, Check, StartCheck, StartRefused, StartNetwork, HealthWait,
        HealthFails, HealthDone, NodeNotFound, NodeOpFails, RemoveBegin, RemoveDelete, RemoveDone,
        RestartBegin, RestartRemoves, RestartAdds, RestartDone, StopBegin, StopNetwork, StopDone,
        UnchangedLib, Ends, netVars
  <1>4. UNCHANGED starter \/ \E n \in Nets : /\ starter[n] = "unborn"
                                             /\ starter' = [starter EXCEPT ![n] = "launching"]
    <2>1. CASE StartNetwork(h)
      BY <2>1 DEF StartNetwork, NewLocalNetwork
    <2> QED
      BY <2>1, PanicsEnd
      DEF HandlerStep, Receive, Replied, Check, StartCheck, StartRefused, HealthWait,
          HealthFails, HealthDone, NodeNotFound, NodeOpFails, RemoveBegin, RemoveDelete, RemoveDone,
          RestartBegin, RestartRemoves, RestartAdds, RestartDone, StopBegin, StopNetwork, StopDone,
          UnchangedLib, Ends, netVars
  <1>5. \A n \in Nets : /\ wfh'[n].at # "idle" <=> starter'[n] = "waiting"
                        /\ wfh'[n].at # "idle" => wfh'[n].net = n
                        /\ donec'[n] <=> starter'[n] = "done"
                        /\ starter'[n] # "done" => errc'[n] = 0
    BY <1>1, <1>3, <1>4, GoTypes DEF GoInv
  <1>6. ASSUME NEW g \in Handlers, pc'[g] \in {"stopping", "stopwait"} PROVE stopc'[network']
    <2>1. CASE StopBegin(h)
      <3>1. network \in Nets /\ stopc' = [stopc EXCEPT ![network] = TRUE] /\ network' = network
        BY <2>1, GoTypes DEF StopBegin, CloseStopc
      <3> QED
        BY <3>1, GoTypes
    <2>2. CASE UNCHANGED <<stopc, network>> /\ pc[h] # "stop"
      <3>1. g # h => pc[g] = pc'[g]
        BY <1>1
      <3>2. pc'[h] \in {"stopping", "stopwait"} => pc[h] \in {"stopping", "stopwait"}
        <4>1. req[h].op \notin {"stopping", "stopwait"} \/ pc[h] # "check"
          BY OpsAssumption DEF ClusterInv, LockInv, InCriticalSection, AllOps
        <4> QED
          BY <2>2, <4>1, GoTypes, PanicsEnd
          DEF HandlerStep, Receive, Replied, Check, StartCheck, StartRefused, StartNetwork,
              HealthWait, HealthFails, HealthDone, NodeNotFound, NodeOpFails, RemoveBegin,
              RemoveDelete, RemoveDone, RestartBegin, RestartRemoves, RestartAdds, RestartDone,
              StopBegin, StopNetwork, StopDone, Ends, serverVars, At, Goto, Finish, ReturnInfo
      <3> QED
        BY <1>6, <2>2, <3>1, <3>2 DEF GoInv
    <2>3. CASE StartNetwork(h) \/ StopDone(h)
      <3>1. pc'[h] = "reply" /\ (mu = Nil \/ mu = h)
        BY <2>3, GoTypes
        DEF StartNetwork, StopDone, ReturnInfo, Goto, At, ClusterInv, LockInv, LockHeld, LockedPcs
      <3>2. g # h /\ pc[g] \in LockedPcs
        BY <1>1, <1>6, <3>1 DEF LockedPcs
      <3> QED
        BY <3>1, <3>2, GoTypes DEF ClusterInv, LockInv, LockHeld
    <2>4. CASE \/ HealthPanics(h) \/ NodeOpPanics(h) \/ DeletePanics(h) \/ StopPanics(h)
      BY <1>6, <2>4, PanicsEnd DEF Ends, netVars, serverVars, GoInv
    <2>5. \/ UNCHANGED <<stopc, network>> /\ pc[h] # "stop"
          \/ StopBegin(h) \/ StartNetwork(h) \/ StopDone(h)
          \/ HealthPanics(h) \/ NodeOpPanics(h) \/ DeletePanics(h) \/ StopPanics(h)
      BY DEF HandlerStep, Receive, Replied, Check, StartCheck, StartRefused, HealthWait,
          HealthFails, HealthDone, NodeNotFound, NodeOpFails, RemoveBegin, RemoveDelete, RemoveDone,
          RestartBegin, RestartRemoves, RestartAdds, RestartDone, StopNetwork, UnchangedLib,
          netVars, At
    <2> QED
      BY <2>1, <2>2, <2>3, <2>4, <2>5
  <1> QED
    BY <1>2, <1>5, <1>6 DEF GoInv

LEMMA GoNet == ASSUME ClusterInv, GoInv, NetStep PROVE GoInv'
  <1>1. UNCHANGED <<pc, network>>
    BY DEF NetStep, serverVars
  <1>2. CASE \E n \in Nets : StarterStep(n)
    <2>1. PICK n \in Nets : StarterStep(n)
      BY <1>2
    <2>2. /\ \A t \in Threads \ {n} : wfh'[t] = wfh[t]
          /\ \A m \in Nets \ {n} : /\ starter'[m] = starter[m] /\ donec'[m] = donec[m]
                                   /\ errc'[m] = errc[m]
          /\ UNCHANGED stopc
      BY <2>1, GoTypes DEF StarterStep, Launch, LaunchFails, StarterReturns
    <2>3. /\ wfh'[n].at # "idle" <=> starter'[n] = "waiting"
          /\ wfh'[n].at # "idle" => wfh'[n].net = n
          /\ donec'[n] <=> starter'[n] = "done"
          /\ starter'[n] # "done" => errc'[n] = 0
      <3>1. CASE Launch(n)
        <4>1. wfh'[n] = WaitingFor(n) /\ starter'[n] = "waiting" /\ UNCHANGED <<donec, errc>>
          BY <3>1, GoTypes DEF Launch
        <4>2. ~donec[n] /\ errc[n] = 0
          BY <3>1 DEF Launch, StarterAt, GoInv
        <4> QED
          BY <4>1, <4>2 DEF WaitingFor
      <3>2. CASE LaunchFails(n)
        BY <3>2, GoTypes DEF LaunchFails, StarterAt, GoInv
      <3>3. CASE StarterReturns(n)
        BY <3>3, GoTypes, NotWaitingType DEF StarterReturns
      <3> QED
        BY <2>1, <3>1, <3>2, <3>3 DEF StarterStep
    <2> QED
      BY <1>1, <2>2, <2>3, GoTypes DEF GoInv
  <1>3. CASE \E t \in Threads : WaitStep(t)
    <2>1. /\ UNCHANGED <<starter, donec, errc, stopc>>
          /\ \A t \in Threads : (wfh'[t].at = "idle" <=> wfh[t].at = "idle")
                                /\ wfh'[t].net = wfh[t].net
      BY <1>3, GoTypes
      DEF WaitStep, WaitAborted, WaitFails, NodesReported, UpdateNodeInfos, UpdatePanics, WaiterAt,
          netVars
    <2> QED
      BY <1>1, <2>1, GoTypes DEF GoInv
  <1> QED
    BY <1>2, <1>3 DEF NetStep, StarterStep, WaitStep

LEMMA GoNext == ClusterInv /\ GoInv /\ [Next]_vars => GoInv'
  <1> SUFFICES ASSUME ClusterInv, GoInv, [Next]_vars PROVE GoInv'
    OBVIOUS
  <1>1. CASE (\E n \in Nets : WatchStep(n)) \/ CloseServer \/ Exit \/ UNCHANGED vars
    <2>1. UNCHANGED <<netVars, network, pc>>
      BY <1>1 DEF WatchStep, WatchSelect, WatchGivesUp, WatchReady, WatchPublish, CloseServer,
                  Exit, vars, serverVars
    <2> QED
      BY <2>1 DEF GoInv, netVars
  <1> QED
    BY <1>1, GoHandler, GoNet DEF Next

\* In every state of every run, so that whoever waits for start() waits for something
\* that can go on.
THEOREM GoInvariant == Spec => [](ClusterInv /\ GoInv)
  BY ClusterInvariant, GoInit, GoNext, PTL DEF Spec

=============================================================================
