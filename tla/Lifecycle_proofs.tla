--------------------------- MODULE Lifecycle_proofs ---------------------------
(***************************************************************************)
(* The server implements the lifecycle of ClusterLifecycle: each of its    *)
(* steps is a step of the lifecycle or a stutter. ClusterInv supplies what *)
(* the lifecycle's guards ask for. Then what RemoveNode and RestartNode    *)
(* promise of the one node they are about.                                 *)
(***************************************************************************)
EXTENDS Cluster_proofs

LEMMA Facts ==
  ASSUME ClusterInv
  PROVE  /\ network \in Nets \cup {Nil} /\ Nil \notin Nets /\ clusterInfo = network
         /\ nw \in [Nets -> {"nil", "running", "stopped"}]
         /\ node \in [Nets -> [Names -> Process]]
         /\ nodeInfos \in [Nets -> [Names -> NodeInfo]]
         /\ starter \in [Nets -> {"unborn", "launching", "waiting", "done"}]
         /\ donec \in [Nets -> BOOLEAN]
         /\ proc \in {"up", "exited"} \cup PanicSites
  BY DomainsAssumption DEF ClusterInv, LockInv, TypeOK, NetTypeOK, SameCluster

-----------------------------------------------------------------------------
(* Steps that the lifecycle cannot see.                                    *)

Unseen ==
    /\ UNCHANGED <<nw, node, starter, network, proc>>
    /\ \A n \in Nets : Listed(n)' = Listed(n)

LEMMA UnseenStutters ==
  ASSUME ClusterInv, Unseen PROVE UNCHANGED Lifecycle!vars
  <1>1. network = Nil \/ Listed(network)' = Listed(network)
    BY Facts DEF Unseen
  <1> QED
    BY <1>1 DEF Unseen, Lifecycle!vars, Abandoned, Phase

LEMMA WaitUnseen ==
  ASSUME ClusterInv, NEW t \in Threads, UNCHANGED serverVars,
         WaitAborted(t) \/ WaitFails(t) \/ NodesReported(t) \/ UpdateNodeInfos(t)
  PROVE  Unseen
  <1>1. \A n \in Nets : Listed(n)' = Listed(n)
    <2>1. CASE UNCHANGED nodeInfos
      BY <2>1 DEF Listed
    <2>2. CASE UpdateNodeInfos(t)
      <3>1. wfh[t].net \in Nets /\ wfh[t].seen \in [Names -> Nat] /\ NetTypeOK
        BY <2>2 DEF ClusterInv, LockInv, TypeOK, NetTypeOK, UpdateNodeInfos, WaiterAt
      <3>2. \A n \in Nets, x \in Names : nodeInfos'[n][x].listed = nodeInfos[n][x].listed
        BY <2>2, <3>1, WithUrisFacts DEF UpdateNodeInfos, NetTypeOK
      <3> QED
        BY <3>2 DEF Listed
    <2> QED
      BY <2>1, <2>2 DEF WaitAborted, WaitFails, NodesReported
  <1> QED
    BY <1>1 DEF Unseen, WaitAborted, WaitFails, NodesReported, UpdateNodeInfos, serverVars

LEMMA HandlerUnseen ==
  ASSUME ClusterInv, NEW h \in Handlers,
         \/ Receive(h) \/ Replied(h) \/ Check(h) \/ StartCheck(h) \/ StartRefused(h)
         \/ HealthWait(h) \/ HealthFails(h) \/ HealthDone(h) \/ NodeNotFound(h)
         \/ NodeOpFails(h) \/ RemoveBegin(h) \/ RemoveDone(h) \/ RestartDone(h) \/ StopBegin(h)
  PROVE  Unseen
  BY DEF Receive, Replied, Check, StartCheck, StartRefused, HealthWait, HealthFails, HealthDone,
         NodeNotFound, NodeOpFails, RemoveBegin, RemoveDone, RestartDone, StopBegin,
         UnchangedLib, netVars, Unseen, Listed

LEMMA RestartBeginUnseen ==
  ASSUME ClusterInv, NEW h \in Handlers, RestartBegin(h) PROVE Unseen
  <1>1. network \in Nets /\ req[h].name \in Listed(network)
    BY Facts DEF RestartBegin, NodeFound, LookedUpIn
  <1>2. \A m \in Nets, x \in Names : nodeInfos'[m][x].listed = nodeInfos[m][x].listed
    BY <1>1, Facts DEF RestartBegin, LookedUpIn, NodeInfo, Listed
  <1> QED
    BY <1>2 DEF RestartBegin, UnchangedLib, Unseen, Listed

LEMMA WatchUnseen ==
  ASSUME ClusterInv, NEW n \in Nets, WatchStep(n), proc' = proc PROVE Unseen
  BY DEF WatchStep, WatchSelect, WatchGivesUp, WatchReady, WatchPublish, netVars, serverVars,
         Unseen, Listed

LEMMA CloseUnseen == ASSUME CloseServer PROVE Unseen
  BY DEF CloseServer, netVars, Unseen, Listed

-----------------------------------------------------------------------------
(* The end, by a panic or after Run.                                       *)

LEMMA EndsDie ==
  ASSUME ClusterInv, Ends PROVE Lifecycle!Next
  <1>1. UNCHANGED <<network, nw, node, starter, nodeInfos>>
    BY DEF Ends, netVars, serverVars
  <1>2. Lifecycle!Die
    BY <1>1 DEF Ends, Lifecycle!Die, Abandoned, Phase, Listed
  <1> QED
    BY <1>2 DEF Lifecycle!Next, Ends

LEMMA WatcherEnds ==
  ASSUME NEW n \in Nets, WatchStep(n), proc' # proc PROVE Ends
  BY DEF WatchStep, WatchSelect, WatchGivesUp, WatchReady, WatchPublish, WatcherAt,
         netVars, serverVars, Ends

LEMMA UpdateEnds ==
  ASSUME NEW t \in Threads, UpdatePanics(t), UNCHANGED serverVars PROVE Ends
  BY DEF UpdatePanics, WaiterAt, PanicSites, Ends

-----------------------------------------------------------------------------
(* Steps the lifecycle names. All but the first need that the library's    *)
(* Stop does its work, or a network let go might still run something.      *)

\* Processes of the current network only.
LEMMA OnlyCurrentRuns ==
  ASSUME ClusterInv, ~NwStopMayFail
  PROVE  /\ \A n \in Nets \ {network} : Running(n) = {}
         /\ \A n \in Nets \ {network} : starter[n] \in {"unborn", "done"}
  BY DEF ClusterInv, OneCluster, StarterInv

LEMMA CreateStep ==
  ASSUME ClusterInv, NEW h \in Handlers, StartNetwork(h) PROVE Lifecycle!Next
  <1>1. PICK n \in Nets :
          /\ starter[n] = "unborn" /\ network = Nil /\ network' = n
          /\ starter' = [starter EXCEPT ![n] = "launching"]
          /\ nodeInfos' = [nodeInfos EXCEPT ![n] =
                [x \in Names |-> [listed |-> TRUE, uri |-> NoPort, exec |-> req[h].exec]]]
    BY DEF StartNetwork, StartAdmitted, NewLocalNetwork
  <1>2. UNCHANGED <<proc, nw, node>> /\ proc = "up"
    BY DEF StartNetwork, At
  <1>3. nw[n] = "nil"
    BY <1>1 DEF ClusterInv, StarterInv
  <1>4. Listed(n)' = Names
    BY <1>1, Facts DEF Listed
  <1>5. n \notin Abandoned /\ Abandoned' = Abandoned
    BY <1>1, Facts DEF Abandoned
  <1>6. Phase' = "launching" /\ Phase = "none"
    BY <1>1, <1>2, <1>3, Facts DEF Phase
  <1>7. Lifecycle!Create(n)
    BY <1>1, <1>2, <1>4, <1>5, <1>6, Facts DEF Lifecycle!Create
  <1> QED
    BY <1>2, <1>7 DEF Lifecycle!Next

LEMMA LaunchesStep ==
  ASSUME ClusterInv, ~NwStopMayFail, NEW n \in Nets, Launch(n), UNCHANGED serverVars
  PROVE  Lifecycle!Next
  <1>1. network = n /\ nw[n] = "nil" /\ Listed(n) = Names /\ starter[n] = "launching"
    BY DEF ClusterInv, StarterInv, Launch, StarterAt
  <1>2. /\ nw' = [nw EXCEPT ![n] = "running"] /\ starter' = [starter EXCEPT ![n] = "waiting"]
        /\ node' = [node EXCEPT ![n] =
              [x \in Names |-> [up |-> TRUE, port |-> 1, exec |-> cfg[n][x]]]]
        /\ UNCHANGED <<nodeInfos, network, proc>> /\ proc = "up"
    BY DEF Launch, StarterAt, serverVars
  <1>3. Listed(n)' = Listed(n)
    BY <1>2 DEF Listed
  <1>4. \A p \in Nets \X Names : node'[p[1]][p[2]].up <=> p[1] = n
    <2> SUFFICES ASSUME NEW m \in Nets, NEW x \in Names
                 PROVE  node'[m][x].up <=> m = n
      OBVIOUS
    <2>1. CASE m = n
      BY <1>2, <2>1, Facts
    <2>2. CASE m # n
      BY <1>1, <1>2, <2>2, OnlyCurrentRuns, Facts DEF Running
    <2> QED
      BY <2>1, <2>2
  <1>5. {p \in Nets \X Names : node'[p[1]][p[2]].up} = {n} \X Names
    BY <1>4
  <1>6. Abandoned' = Abandoned
    BY <1>1, <1>2, Facts DEF Abandoned
  <1>7. Phase = "launching" /\ Phase' = "running"
    BY <1>1, <1>2, Facts DEF Phase
  <1>8. Lifecycle!Launch
    BY <1>1, <1>2, <1>3, <1>5, <1>6, <1>7, Facts DEF Lifecycle!Launch
  <1> QED
    BY <1>2, <1>8 DEF Lifecycle!Next

\* start() ends: of the current network, since all others' are over.
LEMMA BootEndsStep ==
  ASSUME ClusterInv, ~NwStopMayFail, NEW n \in Nets, LaunchFails(n) \/ StarterReturns(n),
         UNCHANGED serverVars
  PROVE  Lifecycle!Next
  <1>1. /\ starter' = [starter EXCEPT ![n] = "done"] /\ starter[n] \in {"launching", "waiting"}
        /\ UNCHANGED <<nw, node, nodeInfos, network, proc>> /\ proc = "up"
    BY DEF LaunchFails, StarterReturns, StarterAt, serverVars
  <1>2. network = n
    BY <1>1, OnlyCurrentRuns
  <1>3. Listed(n)' = Listed(n)
    BY <1>1 DEF Listed
  <1>4. Abandoned' = Abandoned /\ Phase' = Phase
    BY <1>1, <1>2, Facts DEF Abandoned, Phase
  <1>5. Lifecycle!BootEnds
    BY <1>1, <1>2, <1>3, <1>4, Facts DEF Lifecycle!BootEnds
  <1> QED
    BY <1>1, <1>5 DEF Lifecycle!Next

\* What the processes of a cluster are to the lifecycle.
Processes == {p \in Nets \X Names : node[p[1]][p[2]].up}

\* One process comes or goes.
LEMMA OneProcess ==
  ASSUME ClusterInv, NEW x \in Names, network \in Nets,
         NEW up \in BOOLEAN, NEW port, NEW exec,
         node' = [node EXCEPT ![network][x] = [up |-> up, port |-> port, exec |-> exec]]
  PROVE  Processes' = IF up THEN Processes \cup {<<network, x>>}
                            ELSE Processes \ {<<network, x>>}
  <1>1. node'[network][x].up = up
    BY Facts
  <1>2. \A p \in Nets \X Names : p # <<network, x>> =>
            node'[p[1]][p[2]].up = node[p[1]][p[2]].up
    BY Facts
  <1> QED
    BY <1>1, <1>2 DEF Processes

\* RemoveNode and RestartNode, with s.mu held: on a running network, of a listed
\* node.
LEMMA NodeOpGuards ==
  ASSUME ClusterInv, NEW h \in Handlers, pc[h] \in {"removing", "restarting", "adding"}
  PROVE  /\ network \in Nets /\ nw[network] = "running" /\ Phase = "running"
         /\ req[h].name \in Listed(network)
         /\ pc[h] = "adding" => req[h].name \notin Running(network)
  <1>1. network \in Nets
    BY DEF ClusterInv, LockInv, InCriticalSection, LockedPcs
  <1>2. HolderOK(h)
    BY DEF ClusterInv, HolderInv
  <1> QED
    BY <1>1, <1>2, Facts DEF HolderOK, NodeOpPcs, Phase

LEMMA RemoveStep ==
  ASSUME ClusterInv, NEW h \in Handlers, RemoveDelete(h) PROVE Lifecycle!Next
  <1>0. PICK x \in Names : x = req[h].name
    <2>1. req[h].name \in Listed(network)
      BY NodeOpGuards DEF RemoveDelete, At
    <2> QED
      BY <2>1 DEF Listed
  <1>1. /\ proc = "up" /\ pc[h] = "removing" /\ x \in Running(network)
        /\ node' = [node EXCEPT ![network][x] =
              [up |-> FALSE, port |-> node[network][x].port, exec |-> node[network][x].exec]]
        /\ nodeInfos' = [nodeInfos EXCEPT ![network][x] = Unlisted]
        /\ UNCHANGED <<proc, nw, starter, network>>
    BY <1>0 DEF RemoveDelete, AfterDelete, NwRemoved, AfterNwRemove, At
  <1>2. network \in Nets /\ Phase = "running"
    BY <1>0, <1>1, NodeOpGuards DEF Running
  <1>3. Listed(network)' = Listed(network) \ {x}
    <2>1. \A y \in Names : nodeInfos'[network][y].listed <=> nodeInfos[network][y].listed /\ y # x
      BY <1>1, <1>2, Facts DEF Unlisted
    <2> QED
      BY <1>1, <2>1 DEF Listed
  <1>4. Processes' = Processes \ {<<network, x>>}
    BY <1>1, <1>2, OneProcess
  <1>5. <<network, x>> \in Processes
    BY <1>1, <1>2 DEF Processes, Running
  <1>6. UNCHANGED <<Abandoned, Phase>>
    BY <1>1 DEF Abandoned, Phase
  <1>7. Lifecycle!Remove(x)
    BY <1>1, <1>2, <1>3, <1>4, <1>5, <1>6, Facts DEF Lifecycle!Remove, Processes
  <1> QED
    BY <1>1, <1>7 DEF Lifecycle!Next

LEMMA TakeStep ==
  ASSUME ClusterInv, NEW h \in Handlers, RestartRemoves(h) PROVE Lifecycle!Next
  <1>0. PICK x \in Names : x = req[h].name
    <2>1. req[h].name \in Listed(network)
      BY NodeOpGuards DEF RestartRemoves, At
    <2> QED
      BY <2>1 DEF Listed
  <1>1. /\ proc = "up" /\ pc[h] = "restarting" /\ x \in Running(network)
        /\ node' = [node EXCEPT ![network][x] =
              [up |-> FALSE, port |-> node[network][x].port, exec |-> node[network][x].exec]]
        /\ UNCHANGED <<proc, nw, nodeInfos, starter, network>>
    BY <1>0 DEF RestartRemoves, NwRemoved, AfterNwRemove, At
  <1>2. network \in Nets /\ Phase = "running"
    BY <1>0, <1>1, NodeOpGuards DEF Running
  <1>3. Processes' = Processes \ {<<network, x>>}
    BY <1>1, <1>2, OneProcess
  <1>4. <<network, x>> \in Processes
    BY <1>1, <1>2 DEF Processes, Running
  <1>5. UNCHANGED <<Abandoned, Phase>> /\ Listed(network)' = Listed(network)
    BY <1>1 DEF Abandoned, Phase, Listed
  <1>6. Lifecycle!Take(x)
    BY <1>1, <1>2, <1>3, <1>4, <1>5 DEF Lifecycle!Take, Processes
  <1> QED
    BY <1>1, <1>6 DEF Lifecycle!Next

LEMMA ReplaceStep ==
  ASSUME ClusterInv, NEW h \in Handlers, RestartAdds(h) PROVE Lifecycle!Next
  <1>0. PICK x \in Names : x = req[h].name
    <2>1. req[h].name \in Listed(network)
      BY NodeOpGuards DEF RestartAdds, At
    <2> QED
      BY <2>1 DEF Listed
  <1>1. /\ proc = "up" /\ pc[h] = "adding"
        /\ node' = [node EXCEPT ![network][x] =
              [up |-> TRUE, port |-> node[network][x].port + 1, exec |-> NewNodeConfig(h)]]
        /\ UNCHANGED <<proc, nw, nodeInfos, starter, network>>
    BY <1>0 DEF RestartAdds, At
  <1>2. /\ network \in Nets /\ Phase = "running"
        /\ x \in Listed(network) /\ x \notin Running(network)
    BY <1>0, <1>1, NodeOpGuards DEF Listed
  <1>3. Processes' = Processes \cup {<<network, x>>}
    BY <1>1, <1>2, OneProcess
  <1>4. <<network, x>> \notin Processes
    BY <1>1, <1>2 DEF Processes, Running
  <1>5. UNCHANGED <<Abandoned, Phase>> /\ Listed(network)' = Listed(network)
    BY <1>1 DEF Abandoned, Phase, Listed
  <1>6. Lifecycle!Replace(x)
    BY <1>1, <1>2, <1>3, <1>4, <1>5, Facts DEF Lifecycle!Replace, Processes
  <1> QED
    BY <1>1, <1>6 DEF Lifecycle!Next

\* Stop with s.mu held: nobody else has stopped the network before.
LEMMA DrainStep ==
  ASSUME ClusterInv, ~NwStopMayFail, NEW h \in Handlers, StopNetwork(h) PROVE Lifecycle!Next
  <1>1. /\ proc = "up" /\ pc[h] = "stopping" /\ nw[network] # "nil"
        /\ nw' = [nw EXCEPT ![network] = "stopped"]
        /\ UNCHANGED <<proc, nodeInfos, starter, network>>
    BY DEF StopNetwork, NwStop, At
  <1>2. network \in Nets
    BY <1>1 DEF ClusterInv, LockInv, InCriticalSection, LockedPcs
  <1>3. \A g \in Handlers \ {h} : pc[g] # "stopwait"
    BY <1>1, OthersOutside DEF LockedPcs
  <1>4. nw[network] = "running"
    BY <1>1, <1>2, <1>3, Facts DEF ClusterInv, StoppedInv
  <1>5. node' = [node EXCEPT ![network] =
                   [x \in Names |-> [up |-> FALSE, port |-> node[network][x].port,
                                     exec |-> node[network][x].exec]]]
    <2>1. {S \in SUBSET Running(network) : NwStopMayFail \/ S = {}} = {{}}
      OBVIOUS
    <2>2. \A x : (x \in {}) = FALSE
      OBVIOUS
    <2>3. PICK left \in {{}} :
            node' = [node EXCEPT ![network] =
              [x \in Names |-> [up |-> x \in left, port |-> node[network][x].port,
                                exec |-> node[network][x].exec]]]
      BY <2>1 DEF StopNetwork, NwStop
    <2>4. left = {}
      BY <2>3
    <2> QED
      BY <2>2, <2>3, <2>4
  <1>6. Processes' = {}
    <2> SUFFICES ASSUME NEW m \in Nets, NEW x \in Names PROVE ~node'[m][x].up
      BY DEF Processes
    <2>1. CASE m = network
      BY <1>2, <1>5, <2>1, Facts
    <2>2. CASE m # network
      BY <1>5, <2>2, OnlyCurrentRuns, Facts DEF Running
    <2> QED
      BY <2>1, <2>2
  <1>7. /\ Phase = "running" /\ Phase' = "stopped"
        /\ Abandoned' = Abandoned /\ Listed(network)' = Listed(network)
    BY <1>1, <1>2, <1>4, Facts DEF Phase, Abandoned, Listed
  <1>8. Lifecycle!Drain
    BY <1>1, <1>2, <1>6, <1>7, Facts DEF Lifecycle!Drain, Processes
  <1> QED
    BY <1>1, <1>8 DEF Lifecycle!Next

LEMMA LetGoStep ==
  ASSUME ClusterInv, ~NwStopMayFail, NEW h \in Handlers, StopDone(h) PROVE Lifecycle!Next
  <1>1. /\ proc = "up" /\ pc[h] = "stopwait" /\ donec[network] /\ network' = Nil
        /\ UNCHANGED <<proc, nw, node, nodeInfos, starter>>
    BY DEF StopDone, StarterGone, UnchangedLib, At
  <1>2. network \in Nets
    BY <1>1 DEF ClusterInv, LockInv, InCriticalSection, LockedPcs
  <1>3. nw[network] = "stopped" /\ Running(network) = {} /\ starter[network] = "done"
    BY <1>1, <1>2 DEF ClusterInv, HolderInv, HolderOK, StarterInv
  <1>4. Processes = {} /\ Processes' = {}
    <2>1. \A m \in Nets : Running(m) = {}
      BY <1>3, OnlyCurrentRuns
    <2> QED
      BY <1>1, <2>1 DEF Processes, Running
  <1>5. Abandoned' = Abandoned \cup {network}
    BY <1>1, <1>2, <1>3, Facts DEF Abandoned
  <1>6. Phase = "stopped" /\ Phase' = "none"
    BY <1>1, <1>2, <1>3, Facts DEF Phase
  <1>7. Lifecycle!LetGo
    BY <1>1, <1>2, <1>3, <1>4, <1>5, <1>6, Facts DEF Lifecycle!LetGo, Processes
  <1> QED
    BY <1>1, <1>7 DEF Lifecycle!Next

-----------------------------------------------------------------------------

LEMMA LifecycleInit == Init => Lifecycle!Init
  <1> SUFFICES ASSUME Init PROVE Lifecycle!Init
    OBVIOUS
  <1>1. Abandoned = {} /\ Processes = {}
    BY DEF Init, NetInit, Abandoned, Processes, Down
  <1> QED
    BY <1>1 DEF Init, NetInit, Lifecycle!Init, Phase, Processes

LEMMA LifecycleNext ==
  ASSUME ClusterInv, ~NwStopMayFail, [Next]_vars PROVE [Lifecycle!Next]_(Lifecycle!vars)
  <1> SUFFICES Lifecycle!Next \/ Unseen
    BY UnseenStutters
  <1>1. ASSUME NEW h \in Handlers, Receive(h) \/ HandlerStep(h)
        PROVE  Lifecycle!Next \/ Unseen
    BY <1>1, HandlerUnseen, RestartBeginUnseen, PanicsEnd, EndsDie, CreateStep, RemoveStep,
       TakeStep, ReplaceStep, DrainStep, LetGoStep
    DEF HandlerStep
  <1>2. ASSUME NEW n \in Nets, WatchStep(n) PROVE Lifecycle!Next \/ Unseen
    BY <1>2, WatchUnseen, WatcherEnds, EndsDie
  <1>3. CASE NetStep
    <2>1. ASSUME NEW n \in Nets, UNCHANGED serverVars,
                 Launch(n) \/ LaunchFails(n) \/ StarterReturns(n)
          PROVE  Lifecycle!Next
      BY <2>1, LaunchesStep, BootEndsStep
    <2>2. ASSUME NEW t \in Threads, UNCHANGED serverVars,
                 \/ WaitAborted(t) \/ WaitFails(t) \/ NodesReported(t)
                 \/ UpdateNodeInfos(t) \/ UpdatePanics(t)
          PROVE  Lifecycle!Next \/ Unseen
      BY <2>2, WaitUnseen, UpdateEnds, EndsDie
    <2> QED
      BY <1>3, <2>1, <2>2 DEF NetStep
  <1>4. CASE CloseServer
    BY <1>4, CloseUnseen
  <1>5. CASE Exit
    BY <1>5, EndsDie DEF Exit, Ends
  <1>6. CASE UNCHANGED vars
    BY <1>6 DEF vars, netVars, serverVars, Unseen, Listed
  <1> QED
    BY <1>1, <1>2, <1>3, <1>4, <1>5, <1>6 DEF Next

\* As long as the library's Stop does its work, the control service is the lifecycle
\* of ClusterLifecycle: whatever RPCs, goroutines, failures and panics interleave,
\* each step creates, launches, shrinks, drains or lets go the one cluster, or is
\* invisible.
THEOREM LifecycleImplemented ==
  ASSUME ~NwStopMayFail PROVE Spec => ImplementsLifecycle
  <1>1. ClusterInv /\ [Next]_vars => [Lifecycle!Next]_(Lifecycle!vars)
    BY LifecycleNext
  <1> QED
    BY <1>1, LifecycleInit, ClusterInvariant, PTL DEF Spec, ImplementsLifecycle, Lifecycle!Spec

-----------------------------------------------------------------------------
(* The listing of a network only shrinks.                                  *)

LEMMA ListingShrinks ==
  ASSUME ClusterInv, [Next]_vars, NEW n \in Nets, starter[n] # "unborn"
  PROVE  Listed(n)' \subseteq Listed(n)
  <1>1. CASE UNCHANGED nodeInfos
    BY <1>1 DEF Listed
  <1>2. CASE \E m \in Nets, c \in [Names -> NodeInfo] :
               starter[m] = "unborn" /\ nodeInfos' = [nodeInfos EXCEPT ![m] = c]
    BY <1>2, Facts DEF Listed
  <1>3. CASE \A m \in Nets, x \in Names :
               nodeInfos'[m][x].listed => nodeInfos[m][x].listed
    BY <1>3 DEF Listed
  <1>4. ASSUME NEW h \in Handlers, StartNetwork(h)
        PROVE  \E m \in Nets, c \in [Names -> NodeInfo] :
                 starter[m] = "unborn" /\ nodeInfos' = [nodeInfos EXCEPT ![m] = c]
    <2>1. req[h].exec \in Execs \cup {Nil}
      BY DEF ClusterInv, LockInv, TypeOK
    <2>2. [x \in Names |-> [listed |-> TRUE, uri |-> NoPort, exec |-> req[h].exec]]
            \in [Names -> NodeInfo]
      BY <2>1 DEF NodeInfo, NoPort
    <2> QED
      BY <1>4, <2>2 DEF StartNetwork, NewLocalNetwork
  <1>5. ASSUME NEW h \in Handlers, RemoveDelete(h)
        PROVE  \A m \in Nets, x \in Names : nodeInfos'[m][x].listed => nodeInfos[m][x].listed
    <2>1. nodeInfos' = [nodeInfos EXCEPT ![network][req[h].name] = Unlisted]
      BY <1>5 DEF RemoveDelete, AfterDelete
    <2> QED
      BY <2>1, Facts DEF Unlisted
  <1>6. ASSUME NEW h \in Handlers, Receive(h) \/ HandlerStep(h)
        PROVE  \/ StartNetwork(h) \/ RemoveDelete(h) \/ UNCHANGED nodeInfos
               \/ \A m \in Nets : Listed(m)' = Listed(m)
    BY <1>6, HandlerUnseen, RestartBeginUnseen, PanicsEnd
    DEF HandlerStep, RestartRemoves, RestartAdds, StopNetwork, StopDone, UnchangedLib, Unseen,
        Ends, netVars
  <1>7. CASE \E h \in Handlers : Receive(h) \/ HandlerStep(h)
    BY <1>1, <1>2, <1>3, <1>4, <1>5, <1>6, <1>7
  <1>8. CASE NetStep
    <2>1. ASSUME NEW m \in Nets, Launch(m) \/ LaunchFails(m) \/ StarterReturns(m)
          PROVE  UNCHANGED nodeInfos
      BY <2>1 DEF Launch, LaunchFails, StarterReturns
    <2>2. ASSUME NEW t \in Threads, UNCHANGED serverVars,
                 \/ WaitAborted(t) \/ WaitFails(t) \/ NodesReported(t)
                 \/ UpdateNodeInfos(t) \/ UpdatePanics(t)
          PROVE  UNCHANGED nodeInfos \/ Unseen
      BY <2>2, WaitUnseen DEF UpdatePanics, netVars
    <2> QED
      BY <1>1, <1>8, <2>1, <2>2 DEF NetStep, Unseen
  <1>9. CASE (\E m \in Nets : WatchStep(m)) \/ CloseServer \/ Exit \/ UNCHANGED vars
    BY <1>1, <1>9 DEF WatchStep, WatchSelect, WatchGivesUp, WatchReady, WatchPublish, CloseServer,
       Exit, vars, netVars
  <1> QED
    BY <1>7, <1>8, <1>9 DEF Next

-----------------------------------------------------------------------------
(* A removal that waits for its reply.                                     *)

RemovedInv == \A h \in Handlers : pc[h] = "removewait" => req[h].name \notin Listed(network)

LEMMA RemovedInit == Init => RemovedInv
  BY DEF Init, RemovedInv

LEMMA RemovedNext == ClusterInv /\ RemovedInv /\ [Next]_vars => RemovedInv'
  <1> SUFFICES ASSUME ClusterInv, RemovedInv, [Next]_vars,
                      NEW h \in Handlers, pc'[h] = "removewait"
               PROVE  (req[h].name \notin Listed(network))'
    BY DEF RemovedInv
  <1>0. pc \in [Handlers -> Pcs]
    BY DEF ClusterInv, LockInv, TypeOK
  <1>1. CASE RemoveDelete(h)
    <2>1. /\ nodeInfos' = [nodeInfos EXCEPT ![network][req[h].name] = Unlisted]
          /\ UNCHANGED <<req, network>> /\ pc[h] = "removing"
      BY <1>1 DEF RemoveDelete, AfterDelete, At
    <2>2. network \in Nets
      BY <2>1, NodeOpGuards
    <2> QED
      BY <2>1, <2>2, Facts DEF Listed, Unlisted
  <1>2. CASE ~RemoveDelete(h)
    <2>1. pc[h] = "removewait" /\ req'[h] = req[h]
      <3>1. CASE HandlerStep(h) \/ Receive(h)
        <4>1. CASE Check(h)
          <5>1. req[h].op # "removewait"
            BY <4>1, OpsAssumption
            DEF Check, At, ClusterInv, LockInv, InCriticalSection, AllOps
          <5> QED
            BY <1>0, <4>1, <5>1 DEF Check, Goto, Finish, ReturnInfo
        <4>2. CASE HealthPanics(h) \/ NodeOpPanics(h) \/ DeletePanics(h) \/ StopPanics(h)
          BY <4>2, PanicsEnd DEF Ends, serverVars
        <4> QED
          BY <1>0, <1>2, <3>1, <4>1, <4>2
          DEF HandlerStep, Receive, Replied, StartCheck, StartRefused, StartNetwork,
              HealthWait, HealthFails, HealthDone, NodeNotFound, NodeOpFails, RemoveBegin,
              RemoveDone, RestartBegin, RestartRemoves, RestartAdds, RestartDone, StopBegin,
              StopNetwork, StopDone, Goto, Finish, ReturnInfo
      <3>2. ASSUME NEW g \in Handlers, g # h, HandlerStep(g) \/ Receive(g)
            PROVE  pc'[h] = pc[h] /\ req'[h] = req[h]
        BY <3>2, OthersStay
      <3>3. CASE NetStep \/ (\E n \in Nets : WatchStep(n)) \/ CloseServer \/ Exit \/ UNCHANGED vars
        BY <3>3
        DEF NetStep, WatchStep, WatchSelect, WatchGivesUp, WatchReady, WatchPublish, CloseServer,
            Exit, vars, serverVars
      <3> QED
        BY <3>1, <3>2, <3>3 DEF Next
    <2>2. mu = h /\ network \in Nets
      BY <2>1, NodeOpGuards DEF ClusterInv, LockInv, LockHeld, InCriticalSection, LockedPcs
    <2>3. UNCHANGED network
      <3>1. ASSUME NEW g \in Handlers PROVE ~StartNetwork(g) /\ ~StopDone(g)
        BY <2>1, <2>2, DomainsAssumption
        DEF StartNetwork, StopDone, At, ClusterInv, LockInv, LockHeld, LockedPcs
      <3>2. ASSUME NEW g \in Handlers, HandlerStep(g) \/ Receive(g) PROVE UNCHANGED network
        BY <3>1, <3>2, PanicsEnd
        DEF HandlerStep, Receive, Replied, Check, StartCheck, StartRefused, HealthWait,
            HealthFails, HealthDone, NodeNotFound, NodeOpFails, RemoveBegin, RemoveDelete,
            RemoveDone, RestartBegin, RestartRemoves, RestartAdds, RestartDone, StopBegin,
            StopNetwork, Ends, serverVars
      <3>3. CASE NetStep \/ (\E n \in Nets : WatchStep(n)) \/ CloseServer \/ Exit \/ UNCHANGED vars
        BY <3>3
        DEF NetStep, WatchStep, WatchSelect, WatchGivesUp, WatchReady, WatchPublish, CloseServer,
            Exit, vars, serverVars
      <3> QED
        BY <3>2, <3>3 DEF Next
    <2>4. Listed(network)' \subseteq Listed(network)
      <3>1. starter[network] # "unborn"
        BY <2>2 DEF ClusterInv, StarterInv
      <3>2. \A n \in Nets : starter[n] # "unborn" => Listed(n)' \subseteq Listed(n)
        BY ListingShrinks
      <3>3. PICK n \in Nets : n = network
        BY <2>2
      <3>4. n = network'
        BY <2>3, <3>3
      <3> QED
        BY <3>1, <3>2, <3>3, <3>4
    <2> QED
      BY <2>1, <2>4 DEF RemovedInv
  <1> QED
    BY <1>1, <1>2

-----------------------------------------------------------------------------
(* A restart that succeeds.                                                *)

RestartPcs == {"restarting", "adding", "restartwait"}

\* The holder of s.mu has put its binary into the NodeInfo, and waits only for a
\* process that runs it.
RestartOK(h) ==
    LET x == req[h].name IN
    /\ pc[h] \in RestartPcs => nodeInfos[network][x].exec = req[h].exec
    /\ pc[h] = "restartwait" => node[network][x].up /\ node[network][x].exec = req[h].exec

RestartInv == \A h \in Handlers : RestartOK(h)

LEMMA RestartInit == Init => RestartInv
  BY DEF Init, RestartInv, RestartOK, RestartPcs

\* Whoever does anything else does not touch the node, nor its NodeInfo's binary.
LEMMA RestartKept ==
  ASSUME ClusterInv, RestartInv,
         \A g \in Handlers : pc'[g] \in RestartPcs => pc[g] = pc'[g] /\ req'[g] = req[g],
         (\E g \in Handlers : pc'[g] \in RestartPcs) =>
             /\ network' = network
             /\ \A x \in Names : /\ nodeInfos'[network][x].exec = nodeInfos[network][x].exec
                                 /\ node'[network][x] = node[network][x]
  PROVE  RestartInv'
  <1> SUFFICES ASSUME NEW g \in Handlers, pc'[g] \in RestartPcs PROVE RestartOK(g)'
    BY DEF RestartInv, RestartOK, RestartPcs
  <1>1. pc'[g] = pc[g] /\ req'[g] = req[g] /\ network' = network
    OBVIOUS
  <1>2. req[g].name \in Names
    BY <1>1 DEF ClusterInv, LockInv, InCriticalSection, NodeOpPcs, RestartPcs
  <1> QED
    BY <1>1, <1>2 DEF RestartInv, RestartOK

\* Steps that change nothing a restart relies on: no process, no listing, no network,
\* and the handler is not in a restart afterwards.
LEMMA RestartOthers ==
  ASSUME ClusterInv, RestartInv, NEW h \in Handlers,
         \/ Receive(h) \/ Replied(h) \/ Check(h) \/ StartCheck(h) \/ StartRefused(h)
         \/ HealthWait(h) \/ HealthFails(h) \/ HealthDone(h) \/ NodeNotFound(h)
         \/ NodeOpFails(h) \/ RemoveBegin(h) \/ RemoveDone(h) \/ RestartDone(h) \/ StopBegin(h)
  PROVE  RestartInv'
  <1>1. \A g \in Handlers \ {h} : pc'[g] = pc[g] /\ req'[g] = req[g]
    BY OthersStay DEF HandlerStep
  <1>2. pc'[h] \notin RestartPcs
    <2>1. PICK l : pc' = [pc EXCEPT ![h] = l] /\ l \notin RestartPcs
      <3>1. CASE Check(h)
        <4>1. req[h].op \notin RestartPcs
          BY <3>1, OpsAssumption
          DEF Check, At, ClusterInv, LockInv, InCriticalSection, AllOps, RestartPcs
        <4> QED
          BY <3>1, <4>1 DEF Check, Finish, ReturnInfo, Goto, RestartPcs
      <3>2. CASE \/ Receive(h) \/ Replied(h) \/ StartCheck(h) \/ StartRefused(h) \/ HealthWait(h)
                 \/ HealthFails(h) \/ HealthDone(h)
        BY <3>2 DEF Receive, Replied, StartCheck, StartRefused, HealthWait, HealthFails,
                    HealthDone, Finish, ReturnInfo, Goto, RestartPcs
      <3>3. CASE \/ NodeNotFound(h) \/ NodeOpFails(h) \/ RemoveBegin(h) \/ RemoveDone(h)
                 \/ RestartDone(h) \/ StopBegin(h)
        BY <3>3 DEF NodeNotFound, NodeOpFails, RemoveBegin, RemoveDone, RestartDone, StopBegin,
                    Finish, ReturnInfo, Goto, RestartPcs
      <3> QED
        BY <3>1, <3>2, <3>3
    <2> QED
      BY <2>1 DEF ClusterInv, LockInv, TypeOK
  <1>3. UNCHANGED <<network, node, nodeInfos>>
    BY DEF Receive, Replied, Check, StartCheck, StartRefused, HealthWait, HealthFails, HealthDone,
           NodeNotFound, NodeOpFails, RemoveBegin, RemoveDone, RestartDone, StopBegin,
           UnchangedLib, netVars
  <1> QED
    BY <1>1, <1>2, <1>3, RestartKept

\* Nobody is in a restart while another handler is inside a critical section of its
\* own, or creates a network.
LEMMA RestartElsewhere ==
  ASSUME ClusterInv, RestartInv, NEW h \in Handlers,
         StartNetwork(h) \/ RemoveDelete(h) \/ StopNetwork(h) \/ StopDone(h)
  PROVE  RestartInv'
  <1>1. \A g \in Handlers \ {h} : pc'[g] = pc[g] /\ req'[g] = req[g]
    BY OthersStay DEF HandlerStep
  <1>2. pc'[h] \notin RestartPcs
    BY DEF StartNetwork, RemoveDelete, StopNetwork, StopDone, ReturnInfo, Goto, RestartPcs,
           ClusterInv, LockInv, TypeOK
  <1>3. \A g \in Handlers \ {h} : pc[g] \notin RestartPcs
    <2>1. mu = Nil \/ mu = h
      BY DEF StartNetwork, RemoveDelete, StopNetwork, StopDone, At, ClusterInv, LockInv, LockHeld,
             LockedPcs
    <2> QED
      BY <2>1, DomainsAssumption DEF ClusterInv, LockInv, LockHeld, LockedPcs, RestartPcs
  <1> QED
    BY <1>1, <1>2, <1>3, RestartKept

LEMMA RestartWorks ==
  ASSUME ClusterInv, RestartInv, NEW h \in Handlers,
         RestartBegin(h) \/ RestartRemoves(h) \/ RestartAdds(h)
  PROVE  RestartInv'
  <1>1. \A g \in Handlers \ {h} : pc'[g] = pc[g] /\ req'[g] = req[g]
    BY OthersStay DEF HandlerStep
  <1>2. \A g \in Handlers \ {h} : pc[g] \notin RestartPcs
    <2>1. mu = Nil \/ mu = h
      BY DEF RestartBegin, RestartRemoves, RestartAdds, At, ClusterInv, LockInv, LockHeld,
             LockedPcs
    <2> QED
      BY <2>1, DomainsAssumption DEF ClusterInv, LockInv, LockHeld, LockedPcs, RestartPcs
  <1>3. RestartOK(h)'
    <2>0. PICK x \in Names : x = req[h].name
      BY Facts DEF RestartBegin, NodeFound, LookedUpIn, Listed, RestartRemoves, RestartAdds,
                   At, ClusterInv, LockInv, InCriticalSection, NodeOpPcs
    <2>1. /\ UNCHANGED <<network, req>> /\ network \in Nets
          /\ pc \in [Handlers -> Pcs]
      BY Facts DEF RestartBegin, RestartRemoves, RestartAdds, At, ClusterInv, LockInv, TypeOK,
                   InCriticalSection, LockedPcs
    <2>2. CASE RestartBegin(h)
      <3>1. pc'[h] = "restarting" /\ nodeInfos'[network][x].exec = req[h].exec
        BY <2>0, <2>1, <2>2, Facts DEF RestartBegin, LookedUpIn, Goto
      <3> QED
        BY <2>0, <2>1, <3>1 DEF RestartOK, RestartPcs
    <2>3. CASE RestartRemoves(h)
      <3>1. pc[h] = "restarting" /\ pc'[h] = "adding" /\ UNCHANGED nodeInfos
        BY <2>1, <2>3 DEF RestartRemoves, At, Goto
      <3> QED
        BY <2>0, <2>1, <3>1 DEF RestartOK, RestartInv, RestartPcs
    <2>4. CASE RestartAdds(h)
      <3>1. /\ pc[h] = "adding" /\ pc'[h] = "restartwait" /\ UNCHANGED nodeInfos
            /\ node'[network][x].up /\ node'[network][x].exec = req[h].exec
        BY <2>0, <2>1, <2>4, Facts DEF RestartAdds, NewNodeConfig, At, Goto
      <3> QED
        BY <2>0, <2>1, <3>1 DEF RestartOK, RestartInv, RestartPcs
    <2> QED
      BY <2>2, <2>3, <2>4
  <1>4. \A g \in Handlers \ {h} : RestartOK(g)'
    BY <1>1, <1>2 DEF RestartOK, RestartPcs
  <1> QED
    BY <1>3, <1>4 DEF RestartInv

LEMMA RestartNet ==
  ASSUME ClusterInv, RestartInv, NetStep PROVE RestartInv'
  <1>1. UNCHANGED <<pc, req, network>>
    BY DEF NetStep, serverVars
  <1> SUFFICES ASSUME NEW g \in Handlers, pc[g] \in RestartPcs
               PROVE  \A x \in Names : /\ nodeInfos'[network][x].exec = nodeInfos[network][x].exec
                                       /\ node'[network][x] = node[network][x]
    BY <1>1, RestartKept
  <1>2. network \in Nets /\ nw[network] = "running"
    BY DEF RestartPcs, LockedPcs, NodeOpPcs, ClusterInv, LockInv, InCriticalSection, HolderInv,
           HolderOK
  <1>3. ASSUME NEW n \in Nets, Launch(n) \/ LaunchFails(n) \/ StarterReturns(n)
        PROVE  UNCHANGED nodeInfos /\ node'[network] = node[network]
    BY <1>2, <1>3, Facts DEF Launch, LaunchFails, StarterReturns, StarterAt, ClusterInv, StarterInv
  <1>4. ASSUME NEW t \in Threads, UpdateNodeInfos(t)
        PROVE  /\ UNCHANGED node
               /\ \A x \in Names : nodeInfos'[network][x].exec = nodeInfos[network][x].exec
    <2>1. wfh[t].net \in Nets /\ wfh[t].seen \in [Names -> Nat] /\ NetTypeOK
      BY <1>4 DEF ClusterInv, LockInv, TypeOK, NetTypeOK, UpdateNodeInfos, WaiterAt
    <2>2. PICK n \in Nets : n = wfh[t].net
      BY <2>1
    <2>3. nodeInfos' = [nodeInfos EXCEPT ![n] = WithUris(n, wfh[t].seen)] /\ UNCHANGED node
      BY <1>4, <2>2 DEF UpdateNodeInfos
    <2>4. \A x \in Names : WithUris(n, wfh[t].seen)[x].exec = nodeInfos[n][x].exec
      BY <2>1, WithUrisFacts
    <2> QED
      BY <1>2, <2>3, <2>4, Facts
  <1>5. ASSUME NEW t \in Threads,
               WaitAborted(t) \/ WaitFails(t) \/ NodesReported(t) \/ UpdatePanics(t)
        PROVE  UNCHANGED <<node, nodeInfos>>
    BY <1>5 DEF WaitAborted, WaitFails, NodesReported, UpdatePanics, netVars
  <1> QED
    BY <1>3, <1>4, <1>5 DEF NetStep

LEMMA RestartNext == ClusterInv /\ RestartInv /\ [Next]_vars => RestartInv'
  <1> SUFFICES ASSUME ClusterInv, RestartInv, [Next]_vars PROVE RestartInv'
    OBVIOUS
  <1>1. ASSUME UNCHANGED <<pc, req, network, node, nodeInfos>> PROVE RestartInv'
    BY <1>1 DEF RestartInv, RestartOK
  <1>2. ASSUME NEW h \in Handlers, Receive(h) \/ HandlerStep(h) PROVE RestartInv'
    <2>1. CASE HealthPanics(h) \/ NodeOpPanics(h) \/ DeletePanics(h) \/ StopPanics(h)
      BY <1>1, <2>1, PanicsEnd DEF Ends, netVars, serverVars
    <2> QED
      BY <1>2, <2>1, RestartOthers, RestartElsewhere, RestartWorks DEF HandlerStep
  <1>3. CASE (\E n \in Nets : WatchStep(n)) \/ CloseServer \/ Exit \/ UNCHANGED vars
    BY <1>1, <1>3 DEF WatchStep, WatchSelect, WatchGivesUp, WatchReady, WatchPublish, CloseServer,
       Exit, vars, netVars, serverVars
  <1> QED
    BY <1>2, <1>3, RestartNet DEF Next

\* Only its own RestartDone lets a handler reply to a RestartNode.
LEMMA RestartReplies ==
  ASSUME ClusterInv, [Next]_vars, NEW h \in Handlers, pc[h] = "restartwait", pc'[h] = "reply"
  PROVE  RestartDone(h)
  <1>1. pc' # pc
    OBVIOUS
  <1>2. PICK g \in Handlers : Receive(g) \/ HandlerStep(g)
    BY <1>1 DEF Next, NetStep, WatchStep, WatchSelect, WatchGivesUp, WatchReady, WatchPublish,
                CloseServer, Exit, vars, serverVars
  <1>3. g = h
    BY <1>2, OthersStay
  <1>4. ~NodeOpFails(h)
    BY DEF NodeOpFails, Finish, Goto, ClusterInv, LockInv, TypeOK
  <1>5. ~(HealthPanics(h) \/ NodeOpPanics(h) \/ DeletePanics(h) \/ StopPanics(h))
    BY <1>1, PanicsEnd DEF Ends, serverVars
  <1> QED
    BY <1>2, <1>3, <1>4, <1>5
    DEF Receive, HandlerStep, Replied, Check, StartCheck, StartRefused, StartNetwork, HealthWait,
        HealthFails, HealthDone, NodeNotFound, RemoveBegin, RemoveDelete, RemoveDone, RestartBegin,
        RestartRemoves, RestartAdds, StopBegin, StopNetwork, StopDone, At

\* A RestartNode that replies without an error took effect, whatever its client does
\* besides and whatever other handlers wait for: the process of that name runs the
\* binary asked for, and NodeInfo and NodeConfig say so.
THEOREM RestartTakesEffectHolds == Spec => RestartTakesEffect
  <1>1. ASSUME ClusterInv, RestartInv, [Next]_vars, NEW h \in Handlers,
               pc[h] = "restartwait", pc'[h] = "reply"
        PROVE  LET x == req[h].name
                   e == req[h].exec
               IN  /\ x \in Running(network) \cap Listed(network)
                   /\ node[network][x].exec = e
                   /\ nodeInfos[network][x].exec = e
                   /\ cfg'[network][x] = e
    <2>1. req[h].name \in Listed(network) /\ req[h].name \in Names /\ network \in Nets
      BY <1>1 DEF ClusterInv, HolderInv, HolderOK, NodeOpPcs, LockInv, InCriticalSection, LockedPcs
    <2>2. /\ nodeInfos[network][req[h].name].exec = req[h].exec
          /\ node[network][req[h].name].up /\ node[network][req[h].name].exec = req[h].exec
      BY <1>1 DEF RestartInv, RestartOK, RestartPcs
    <2>3. cfg' = [cfg EXCEPT ![network][req[h].name] = req[h].exec]
      BY <1>1, RestartReplies DEF RestartDone, NewNodeConfig
    <2>4. cfg'[network][req[h].name] = req[h].exec
      <3>1. cfg \in [Nets -> [Names -> Execs \cup {Nil}]]
        BY <1>1 DEF ClusterInv, LockInv, TypeOK, NetTypeOK
      <3>2. PICK x \in Names : x = req[h].name
        BY <2>1
      <3>3. PICK e : e = req[h].exec
        OBVIOUS
      <3>4. cfg' = [cfg EXCEPT ![network][x] = e]
        BY <2>3, <3>2, <3>3
      <3>5. cfg'[network][x] = e
        BY <2>1, <3>1, <3>4
      <3> QED
        BY <3>2, <3>5, <3>3
    <2> QED
      BY <2>1, <2>2, <2>4 DEF Running
  <1>2. ClusterInv /\ RestartInv /\ [Next]_vars =>
          [\A h \in Handlers :
             pc[h] = "restartwait" /\ pc'[h] = "reply" =>
                 LET x == req[h].name
                     e == req[h].exec
                 IN  /\ x \in Running(network) \cap Listed(network)
                     /\ node[network][x].exec = e
                     /\ nodeInfos[network][x].exec = e
                     /\ cfg'[network][x] = e]_vars
    BY <1>1
  <1> QED
    BY <1>2, ClusterInvariant, RestartInit, RestartNext, PTL DEF Spec, RestartTakesEffect

=============================================================================
