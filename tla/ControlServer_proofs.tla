------------------------ MODULE ControlServer_proofs ------------------------
(***************************************************************************)
(* Types and the lock of ControlServer, for any number of handlers,        *)
(* networks, nodes and binaries.                                           *)
(***************************************************************************)
EXTENDS ControlServer, LocalNetwork_proofs

-----------------------------------------------------------------------------
(* The invariant all others rest on: types, and who holds s.mu.            *)

\* s.network and s.clusterInfo are set and cleared together.
SameCluster == clusterInfo = network

\* s.mu is held by the one handler that is between a lock and an unlock.
LockHeld == \A h \in Handlers : pc[h] \in LockedPcs <=> mu = h

\* A handler inside a critical section has a network, every Stop has read the
\* ClusterInfo it will reply with, and a request is one that clients send.
NodeOpPcs == {"removing", "removewait", "restarting", "adding", "restartwait"}

InCriticalSection ==
    \A h \in Handlers :
        /\ pc[h] \in LockedPcs => network \in Nets
        /\ pc[h] \in NodeOpPcs => req[h].name \in Names
        /\ pc[h] \in {"stop", "stopping", "stopwait"} => cap[h] \in Nets
        /\ pc[h] = "check" => req[h].op \in Ops

LockInv == TypeOK /\ SameCluster /\ LockHeld /\ InCriticalSection

LEMMA LockInvInit == Init => LockInv
  <1> SUFFICES ASSUME Init PROVE LockInv
    OBVIOUS
  <1>1. NetTypeOK
    BY NetInitType DEF Init
  <1> QED
    BY <1>1, DomainsAssumption DEF Init, LockInv, TypeOK, SameCluster, LockHeld,
       InCriticalSection, LockedPcs, NodeOpPcs, Pcs, NoReq, FreshInfo

-----------------------------------------------------------------------------
(* How a handler's variables move.                                         *)

ReqType == [op: AllOps \cup {"none"}, name: Names \cup {Nil}, exec: Execs \cup {Nil}]

\* The part of TypeOK that a handler's return touches.
HandlerTypes ==
    /\ pc \in [Handlers -> Pcs]
    /\ req \in [Handlers -> ReqType]
    /\ cap \in [Handlers -> Nets \cup {Nil}]
    /\ wfh \in [Threads -> WaitType]
    /\ \A t \in Threads : wfh[t].at # "idle" => wfh[t].net \in Nets
    /\ \A h \in Handlers : pc[h] = "reply" => cap[h] \in Nets

LEMMA HandlerTypesHold == TypeOK => HandlerTypes
  BY DEF TypeOK, NetTypeOK, HandlerTypes, ReqType, WaitType

LEMMA FinishTypes ==
  ASSUME TypeOK, NEW h \in Handlers, Finish(h)
  PROVE  HandlerTypes' /\ pc' = [pc EXCEPT ![h] = "idle"]
  <1> USE HandlerTypesHold, NotWaitingType
  <1>1. NoReq \in ReqType
    BY DEF NoReq, ReqType
  <1> QED
    BY <1>1 DEF Finish, Goto, HandlerTypes, Pcs, Threads

LEMMA ReturnInfoTypes ==
  ASSUME TypeOK, NEW h \in Handlers, NEW i \in Nets, ReturnInfo(h, i)
  PROVE  HandlerTypes' /\ pc' = [pc EXCEPT ![h] = "reply"]
  <1> USE HandlerTypesHold, NotWaitingType
  <1>1. NoReq \in ReqType
    BY DEF NoReq, ReqType
  <1> QED
    BY <1>1 DEF ReturnInfo, Goto, HandlerTypes, Pcs, Threads

\* The other half: with these two, TypeOK.
SharedTypes ==
    /\ proc \in {"up", "exited"} \cup PanicSites
    /\ nw \in [Nets -> {"nil", "running", "stopped"}]
    /\ node \in [Nets -> [Names -> Process]]
    /\ nodeInfos \in [Nets -> [Names -> NodeInfo]]
    /\ nodeNames \in [Nets -> SUBSET Names]
    /\ cfg \in [Nets -> [Names -> Execs \cup {Nil}]]
    /\ readyc \in [Nets -> BOOLEAN]
    /\ stopc \in [Nets -> BOOLEAN]
    /\ donec \in [Nets -> BOOLEAN]
    /\ errc \in [Nets -> 0 .. ErrcCap]
    /\ starter \in [Nets -> {"unborn", "launching", "waiting", "done"}]
    /\ closed \in BOOLEAN
    /\ mu \in Handlers \cup {Nil}
    /\ network \in Nets \cup {Nil}
    /\ clusterInfo \in Nets \cup {Nil}
    /\ info \in [Nets -> [names: SUBSET Names, hasInfos: BOOLEAN, healthy: BOOLEAN]]
    /\ watch \in [Nets -> [at: {"unborn", "born", "select", "ready", "done"},
                           net: Nets \cup {Nil}]]

LEMMA TypeHalves ==
    /\ TypeOK <=> HandlerTypes /\ SharedTypes
    /\ TypeOK' <=> HandlerTypes' /\ SharedTypes'
  BY DEF TypeOK, NetTypeOK, HandlerTypes, SharedTypes, ReqType, WaitType

\* What a step must show to keep LockInv when s.mu does not change hands.
LEMMA LockKept ==
  ASSUME LockInv, HandlerTypes', SharedTypes', SameCluster', UNCHANGED mu,
         NEW h \in Handlers, NEW l, pc' = [pc EXCEPT ![h] = l],
         l \in LockedPcs <=> pc[h] \in LockedPcs,
         network' # network => mu = Nil,
         \A g \in Handlers \ {h} : cap'[g] = cap[g] /\ req'[g] = req[g],
         l \in {"stop", "stopping", "stopwait"} => cap'[h] \in Nets,
         l \in NodeOpPcs => req'[h].name \in Names,
         l = "check" => req'[h].op \in Ops
  PROVE  LockInv'
  <1>1. TypeOK'
    BY TypeHalves
  <1>2. LockHeld'
    BY DEF LockInv, LockHeld, TypeOK
  <1>3. \A g \in Handlers : pc'[g] \in LockedPcs => network' \in Nets
    BY DomainsAssumption DEF LockInv, LockHeld, InCriticalSection, TypeOK
  <1>4. \A g \in Handlers : pc'[g] \in {"stop", "stopping", "stopwait"} => cap'[g] \in Nets
    BY DEF LockInv, InCriticalSection, TypeOK
  <1>5. \A g \in Handlers : pc'[g] = "check" => req'[g].op \in Ops
    BY DEF LockInv, InCriticalSection, TypeOK
  <1>6. \A g \in Handlers : pc'[g] \in NodeOpPcs => req'[g].name \in Names
    BY DEF LockInv, InCriticalSection, TypeOK
  <1> QED
    BY <1>1, <1>2, <1>3, <1>4, <1>5, <1>6 DEF LockInv, InCriticalSection

-----------------------------------------------------------------------------
(* One lemma per group of actions.                                         *)

LEMMA LockInvNetStep ==
  ASSUME LockInv, NetStep PROVE LockInv'
  <1>1. NetTypeOK' /\ UNCHANGED serverVars
    BY StarterStepType, WaitStepType DEF NetStep, StarterStep, WaitStep, LockInv, TypeOK
  <1> QED
    BY <1>1 DEF LockInv, TypeOK, SameCluster, LockHeld, InCriticalSection, serverVars

LEMMA LockInvPanic ==
  ASSUME LockInv, NEW site \in PanicSites, Panic(site) PROVE LockInv'
  BY DEF Panic, LockInv, TypeOK, NetTypeOK, SameCluster, LockHeld, InCriticalSection,
     serverVars, netVars

LEMMA LockInvReceive ==
  ASSUME LockInv, NEW h \in Handlers, Receive(h) PROVE LockInv'
  <1>1. req' \in [Handlers -> ReqType]
    BY HandlerTypesHold, OpsAssumption DEF Receive, Requests, ReqType, HandlerTypes, LockInv
  <1>2. HandlerTypes'
    BY <1>1, HandlerTypesHold DEF Receive, Goto, HandlerTypes, LockInv, Pcs, netVars
  <1>3. SharedTypes'
    BY TypeHalves DEF LockInv, SharedTypes, Receive, netVars
  <1>4. req'[h].op \in Ops /\ \A g \in Handlers \ {h} : req'[g] = req[g]
    BY DEF Receive, Requests, LockInv, TypeOK
  <1> QED
    BY <1>2, <1>3, <1>4, LockKept DEF Receive, Goto, LockInv, SameCluster, At, LockedPcs, NodeOpPcs, TypeOK

\* Every way a handler returns without having held the lock.
LEMMA LockInvReturns ==
  ASSUME LockInv, NEW h \in Handlers,
         \/ Replied(h) \/ StartRefused(h) \/ HealthFails(h) \/ NodeNotFound(h)
  PROVE  LockInv'
  <1>1. Finish(h) /\ pc[h] \notin LockedPcs
    BY DEF Replied, StartRefused, HealthFails, NodeNotFound, At, LockedPcs
  <1>2. HandlerTypes' /\ pc' = [pc EXCEPT ![h] = "idle"]
    BY <1>1, FinishTypes DEF LockInv
  <1>3. SharedTypes' /\ UNCHANGED <<mu, network, clusterInfo>>
    BY TypeHalves DEF LockInv, SharedTypes, Replied, StartRefused, HealthFails, NodeNotFound,
       UnchangedLib
  <1> QED
    BY <1>1, <1>2, <1>3, LockKept DEF LockInv, SameCluster, LockedPcs, NodeOpPcs, TypeOK, Finish

LEMMA LockInvCheck ==
  ASSUME LockInv, NEW h \in Handlers, Check(h) \/ StartCheck(h) PROVE LockInv'
  <1>0. SharedTypes' /\ UNCHANGED <<mu, network, clusterInfo>> /\ pc[h] \notin LockedPcs
    BY TypeHalves DEF LockInv, SharedTypes, Check, StartCheck, UnchangedLib, At, LockedPcs
  <1>1. CASE Finish(h)
    <2>1. HandlerTypes' /\ pc' = [pc EXCEPT ![h] = "idle"]
      BY <1>1, FinishTypes DEF LockInv
    <2> QED
      BY <1>0, <1>1, <2>1, LockKept DEF LockInv, SameCluster, LockedPcs, NodeOpPcs, TypeOK, Finish
  <1>2. CASE Bootstrapped /\ ReturnInfo(h, clusterInfo)
    <2>1. clusterInfo \in Nets
      BY <1>2 DEF Bootstrapped, LockInv, TypeOK
    <2>2. HandlerTypes' /\ pc' = [pc EXCEPT ![h] = "reply"]
      BY <1>2, <2>1, ReturnInfoTypes DEF LockInv
    <2> QED
      BY <1>0, <1>2, <2>2, LockKept DEF LockInv, SameCluster, LockedPcs, NodeOpPcs, TypeOK, ReturnInfo
  <1>3. CASE Check(h) /\ ~Finish(h) /\ ~ReturnInfo(h, clusterInfo)
    <2>1. /\ clusterInfo \in Nets
          /\ pc' = [pc EXCEPT ![h] = req[h].op]
          /\ cap' = [cap EXCEPT ![h] = clusterInfo]
          /\ UNCHANGED <<req, wfh>>
          /\ req[h].op \notin {"start", "status", "uris"}
      BY <1>3 DEF Check, Bootstrapped, Goto, LockInv, TypeOK
    <2>2. req[h].op \in {"health", "remove", "restart", "stop"}
      BY <1>3, <2>1, OpsAssumption DEF LockInv, InCriticalSection, AllOps, Check, At
    <2>3. HandlerTypes'
      BY <2>1, <2>2, HandlerTypesHold DEF LockInv, HandlerTypes, Pcs
    <2>4. PICK l \in {"health", "remove", "restart", "stop"} : l = req[h].op
      BY <2>2
    <2>5. pc' = [pc EXCEPT ![h] = l]
      BY <2>1, <2>4
    <2>6. l = "stop" => cap'[h] \in Nets
      BY <2>1, <2>4 DEF LockInv, TypeOK
    <2>7. \A g \in Handlers \ {h} : cap'[g] = cap[g] /\ req'[g] = req[g]
      BY <2>1 DEF LockInv, TypeOK
    <2> QED
      BY <1>0, <2>3, <2>5, <2>6, <2>7, LockKept DEF LockInv, SameCluster, LockedPcs, NodeOpPcs
  <1>4. CASE StartCheck(h) /\ ~Finish(h)
    <2>1. HandlerTypes' /\ pc' = [pc EXCEPT ![h] = "start"] /\ UNCHANGED <<cap, req>>
      BY <1>4, HandlerTypesHold DEF StartCheck, Goto, LockInv, HandlerTypes, Pcs
    <2> QED
      BY <1>0, <2>1, LockKept DEF LockInv, SameCluster, LockedPcs, NodeOpPcs, TypeOK
  <1> QED
    BY <1>1, <1>2, <1>3, <1>4 DEF Check, StartCheck

LEMMA LockInvStartNetwork ==
  ASSUME LockInv, NEW h \in Handlers, StartNetwork(h) PROVE LockInv'
  <1>1. PICK n \in Nets :
          /\ NewLocalNetwork(n, req[h].exec)
          /\ network' = n /\ clusterInfo' = n
          /\ info' = [info EXCEPT ![n] = FreshInfo]
          /\ watch' = [watch EXCEPT ![n] = [at |-> "born", net |-> Nil]]
          /\ ReturnInfo(h, n)
    BY DEF StartNetwork
  <1>2. HandlerTypes' /\ pc' = [pc EXCEPT ![h] = "reply"]
    BY <1>1, ReturnInfoTypes DEF LockInv
  <1>3. req[h].exec \in Execs \cup {Nil}
    BY DEF LockInv, TypeOK
  <1>4. /\ nodeInfos' \in [Nets -> [Names -> NodeInfo]]
        /\ nodeNames' \in [Nets -> SUBSET Names]
        /\ cfg' \in [Nets -> [Names -> Execs \cup {Nil}]]
        /\ starter' \in [Nets -> {"unborn", "launching", "waiting", "done"}]
    BY <1>1, <1>3 DEF LockInv, TypeOK, NetTypeOK, NewLocalNetwork, NodeInfo, NoPort
  <1>5. info' \in [Nets -> [names: SUBSET Names, hasInfos: BOOLEAN, healthy: BOOLEAN]]
    BY <1>1 DEF LockInv, TypeOK, FreshInfo
  <1>6. watch' \in [Nets -> [at: {"unborn", "born", "select", "ready", "done"},
                             net: Nets \cup {Nil}]]
    BY <1>1 DEF LockInv, TypeOK
  <1>7. SharedTypes' /\ mu = Nil /\ UNCHANGED mu /\ pc[h] \notin LockedPcs
    BY <1>1, <1>4, <1>5, <1>6, TypeHalves
    DEF StartNetwork, LockInv, SharedTypes, At, LockedPcs
  <1> QED
    BY <1>1, <1>2, <1>7, LockKept DEF LockInv, SameCluster, LockedPcs, NodeOpPcs, TypeOK, ReturnInfo

InfoType == [names: SUBSET Names, hasInfos: BOOLEAN, healthy: BOOLEAN]

LEMMA ShowingType ==
  \A S \in SUBSET Names, b \in BOOLEAN : Showing(S, b) \in InfoType
  BY DEF Showing, InfoType

LEMMA LockInvHealth ==
  ASSUME LockInv, NEW h \in Handlers, HealthWait(h) \/ HealthDone(h) PROVE LockInv'
  <1>0. network \in Nets /\ clusterInfo = network
    BY DEF LockInv, TypeOK, SameCluster, HealthWait, HealthDone
  <1>1. CASE HealthWait(h)
    <2>1. wfh' = [wfh EXCEPT ![h] = WaitingFor(network)]
      BY <1>1 DEF HealthWait, EnterWaitForHealthy
    <2>2. HandlerTypes' /\ pc' = [pc EXCEPT ![h] = "healthwait"] /\ UNCHANGED <<cap, req>>
      BY <1>0, <1>1, <2>1, WaitingForType, HandlerTypesHold
      DEF HealthWait, Goto, HandlerTypes, LockInv, Pcs, Threads
    <2>3. SharedTypes' /\ UNCHANGED <<mu, network, clusterInfo>> /\ pc[h] \notin LockedPcs
      BY <1>1, TypeHalves DEF HealthWait, LockInv, SharedTypes, UnchangedLib, At, LockedPcs
    <2> QED
      BY <2>2, <2>3, LockKept DEF LockInv, SameCluster, LockedPcs, NodeOpPcs
  <1>2. CASE HealthDone(h)
    <2>1. HandlerTypes' /\ pc' = [pc EXCEPT ![h] = "reply"]
      BY <1>0, <1>2, ReturnInfoTypes DEF LockInv, HealthDone
    <2>2. nodeNames' \in [Nets -> SUBSET Names]
      BY <1>2 DEF HealthDone, Listed, LockInv, TypeOK, NetTypeOK
    <2>3. info' \in [Nets -> [names: SUBSET Names, hasInfos: BOOLEAN, healthy: BOOLEAN]]
      BY <1>0, <1>2, ShowingType DEF HealthDone, Listed, LockInv, TypeOK, InfoType
    <2>4. SharedTypes' /\ UNCHANGED <<mu, network, clusterInfo>> /\ pc[h] \notin LockedPcs
      BY <1>2, <2>2, <2>3, TypeHalves
      DEF HealthDone, LockInv, SharedTypes, UnchangedLib, At, LockedPcs
    <2> QED
      BY <1>2, <2>1, <2>4, LockKept
      DEF LockInv, SameCluster, LockedPcs, NodeOpPcs, TypeOK, HealthDone, ReturnInfo
  <1> QED
    BY <1>1, <1>2

LEMMA LockInvHandlerPanics ==
  ASSUME LockInv, NEW h \in Handlers,
         HealthPanics(h) \/ NodeOpPanics(h) \/ DeletePanics(h) \/ StopPanics(h)
  PROVE  LockInv'
  BY LockInvPanic DEF HealthPanics, NodeOpPanics, DeletePanics, StopPanics, PanicSites

-----------------------------------------------------------------------------
(* The lock is taken, kept or released.                                    *)

LEMMA LockTaken ==
  ASSUME LockInv, HandlerTypes', SharedTypes', NEW h \in Handlers, NEW l \in LockedPcs,
         mu = Nil, mu' = h, pc' = [pc EXCEPT ![h] = l],
         network \in Nets, UNCHANGED <<network, clusterInfo, req, cap>>,
         l \in {"stopping", "stopwait"} => cap[h] \in Nets,
         l \in NodeOpPcs => req[h].name \in Names
  PROVE  LockInv'
  <1>1. TypeOK'
    BY TypeHalves
  <1>2. LockHeld'
    BY DomainsAssumption DEF LockInv, LockHeld, TypeOK
  <1>3. InCriticalSection'
    BY DEF LockInv, InCriticalSection, TypeOK, LockedPcs
  <1> QED
    BY <1>1, <1>2, <1>3 DEF LockInv, SameCluster

LEMMA LockReleased ==
  ASSUME LockInv, HandlerTypes', SharedTypes', NEW h \in Handlers,
         pc[h] \in LockedPcs, mu' = Nil, pc' = [pc EXCEPT ![h] = "idle"] \/
                                         pc' = [pc EXCEPT ![h] = "reply"],
         SameCluster',
         \A g \in Handlers \ {h} : cap'[g] = cap[g] /\ req'[g] = req[g]
  PROVE  LockInv'
  <1>1. TypeOK'
    BY TypeHalves
  <1>2. \A g \in Handlers \ {h} : pc'[g] = pc[g] /\ pc[g] \notin LockedPcs
    BY DEF LockInv, LockHeld, TypeOK
  <1>3. pc'[h] \in {"idle", "reply"}
    BY DEF LockInv, TypeOK
  <1>4. LockHeld'
    BY <1>2, <1>3, DomainsAssumption DEF LockHeld, LockedPcs
  <1>5. InCriticalSection'
    BY <1>2, <1>3 DEF LockInv, InCriticalSection, LockedPcs, NodeOpPcs
  <1> QED
    BY <1>1, <1>4, <1>5 DEF LockInv

LEMMA LockInvBegins ==
  ASSUME LockInv, NEW h \in Handlers, RemoveBegin(h) \/ RestartBegin(h) \/ StopBegin(h)
  PROVE  LockInv'
  <1>0. network \in Nets /\ mu = Nil /\ mu' = h /\ UNCHANGED <<network, clusterInfo, req, cap>>
    BY DEF RemoveBegin, RestartBegin, NodeFound, LookedUpIn, StopBegin, LockInv, TypeOK
  <1>1. PICK l \in {"removing", "restarting", "stopping"} :
          /\ pc' = [pc EXCEPT ![h] = l]
          /\ l = "stopping" => pc[h] = "stop"
          /\ l # "stopping" => req[h].name \in Names
    BY DEF RemoveBegin, RestartBegin, NodeFound, LookedUpIn, StopBegin, Goto, At, Listed
  <1>2. HandlerTypes'
    BY <1>0, <1>1, HandlerTypesHold
    DEF LockInv, HandlerTypes, Pcs, LockedPcs, RemoveBegin, RestartBegin, StopBegin
  <1>3. nodeInfos' \in [Nets -> [Names -> NodeInfo]]
    <2>1. CASE UNCHANGED nodeInfos
      BY <2>1 DEF LockInv, TypeOK, NetTypeOK
    <2>2. CASE RestartBegin(h)
      <3>1. req[h].name \in Names /\ req[h].exec \in Execs \cup {Nil}
        BY <2>2 DEF RestartBegin, NodeFound, LookedUpIn, LockInv, TypeOK, Listed
      <3>2. nodeInfos[network][req[h].name] \in NodeInfo
        BY <1>0, <3>1 DEF LockInv, TypeOK, NetTypeOK
      <3>3. [nodeInfos[network][req[h].name] EXCEPT !.exec = req[h].exec] \in NodeInfo
        BY <3>1, <3>2 DEF NodeInfo
      <3> QED
        BY <1>0, <2>2, <3>1, <3>3 DEF RestartBegin, LookedUpIn, LockInv, TypeOK, NetTypeOK
    <2> QED
      BY <2>1, <2>2 DEF RemoveBegin, StopBegin
  <1>4. SharedTypes'
    BY <1>0, <1>3, TypeHalves
    DEF LockInv, SharedTypes, RemoveBegin, RestartBegin, StopBegin, UnchangedLib, CloseStopc
  <1> QED
    BY <1>0, <1>1, <1>2, <1>4, LockTaken DEF LockInv, InCriticalSection, LockedPcs, NodeOpPcs

LEMMA LockInvEnds ==
  ASSUME LockInv, NEW h \in Handlers,
         NodeOpFails(h) \/ RemoveDone(h) \/ RestartDone(h) \/ StopDone(h)
  PROVE  LockInv'
  <1>0. pc[h] \in LockedPcs /\ mu' = Nil /\ network \in Nets /\ clusterInfo = network
    BY DEF NodeOpFails, RemoveDone, RestartDone, StopDone, At, LockedPcs, LockInv,
       InCriticalSection, SameCluster
  <1>1. CASE NodeOpFails(h)
    <2>1. HandlerTypes' /\ pc' = [pc EXCEPT ![h] = "idle"]
      BY <1>1, FinishTypes DEF NodeOpFails, LockInv
    <2>2. SharedTypes' /\ SameCluster'
      BY <1>1, TypeHalves DEF NodeOpFails, LockInv, SharedTypes, UnchangedLib, SameCluster
    <2> QED
      BY <1>0, <1>1, <2>1, <2>2, LockReleased DEF NodeOpFails, Finish, LockInv, TypeOK
  <1>2. CASE RemoveDone(h)
    <2>1. HandlerTypes' /\ pc' = [pc EXCEPT ![h] = "reply"]
      BY <1>0, <1>2, ReturnInfoTypes DEF RemoveDone, LockInv
    <2>2. SharedTypes' /\ SameCluster'
      BY <1>2, TypeHalves DEF RemoveDone, LockInv, SharedTypes, UnchangedLib, SameCluster
    <2> QED
      BY <1>0, <1>2, <2>1, <2>2, LockReleased DEF RemoveDone, ReturnInfo, LockInv, TypeOK
  <1>3. CASE RestartDone(h)
    <2>1. HandlerTypes' /\ pc' = [pc EXCEPT ![h] = "reply"]
      BY <1>0, <1>3, ReturnInfoTypes DEF RestartDone, LockInv
    <2>2. info' \in [Nets -> InfoType]
      BY <1>0, <1>3, ShowingType DEF RestartDone, LockInv, TypeOK, InfoType
    <2>3. req[h].exec \in Execs \cup {Nil}
      BY DEF LockInv, TypeOK
    <2>4. cfg' \in [Nets -> [Names -> Execs \cup {Nil}]]
      BY <1>0, <1>3, <2>3 DEF RestartDone, LockInv, TypeOK, NetTypeOK, NewNodeConfig
    <2>5. SharedTypes' /\ SameCluster'
      BY <1>3, <2>2, <2>4, TypeHalves
      DEF RestartDone, LockInv, SharedTypes, SameCluster, InfoType
    <2> QED
      BY <1>0, <1>3, <2>1, <2>5, LockReleased DEF RestartDone, ReturnInfo, LockInv, TypeOK
  <1>4. CASE StopDone(h)
    <2>1. cap[h] \in Nets
      BY <1>4 DEF StopDone, At, LockInv, InCriticalSection
    <2>2. HandlerTypes' /\ pc' = [pc EXCEPT ![h] = "reply"]
      BY <1>4, <2>1, ReturnInfoTypes DEF StopDone, StopReplies, LockInv
    <2>3. info' \in [Nets -> InfoType]
      BY <1>4, <2>1 DEF StopDone, LockInv, TypeOK, InfoType
    <2>4. SharedTypes' /\ SameCluster'
      BY <1>4, <2>3, TypeHalves
      DEF StopDone, LockInv, SharedTypes, UnchangedLib, SameCluster, InfoType
    <2> QED
      BY <1>0, <1>4, <2>2, <2>4, LockReleased DEF StopDone, ReturnInfo, LockInv, TypeOK
  <1> QED
    BY <1>1, <1>2, <1>3, <1>4

\* Steps of a handler that keeps the lock.
LEMMA LockInvHolds ==
  ASSUME LockInv, NEW h \in Handlers,
         RemoveDelete(h) \/ RestartRemoves(h) \/ RestartAdds(h) \/ StopNetwork(h)
  PROVE  LockInv'
  <1>0. /\ pc[h] \in LockedPcs /\ network \in Nets
        /\ UNCHANGED <<mu, network, clusterInfo, req, cap>>
    BY DEF RemoveDelete, AfterDelete, RestartRemoves, RestartAdds, StopNetwork, At, LockedPcs, LockInv,
       InCriticalSection
  <1>1. PICK l \in {"removewait", "adding", "restartwait", "stopwait"} :
          /\ pc' = [pc EXCEPT ![h] = l]
          /\ l = "stopwait" => pc[h] = "stopping"
          /\ l # "stopwait" => pc[h] \in NodeOpPcs
    BY DEF RemoveDelete, AfterDelete, RestartRemoves, RestartAdds, StopNetwork, Goto, At, NodeOpPcs
  <1>2. pc[h] \in NodeOpPcs => req[h].name \in Names
    BY DEF LockInv, InCriticalSection
  <1>3. wfh' \in [Threads -> WaitType]
        /\ \A t \in Threads : wfh'[t].at # "idle" => wfh'[t].net \in Nets
    BY <1>0, WaitingForType, HandlerTypesHold
    DEF RemoveDelete, AfterDelete, RestartRemoves, RestartAdds, StopNetwork, EnterWaitForHealthy,
        LockInv, HandlerTypes, Threads
  <1>4. HandlerTypes'
    BY <1>0, <1>1, <1>3, HandlerTypesHold DEF LockInv, HandlerTypes, Pcs, LockedPcs
  <1>5. nw' \in [Nets -> {"nil", "running", "stopped"}]
    BY <1>0, NwStopTypes
    DEF RemoveDelete, AfterDelete, RestartRemoves, RestartAdds, StopNetwork, LockInv, TypeOK, NetTypeOK
  <1>6. node' \in [Nets -> [Names -> Process]]
    <2>1. CASE RemoveDelete(h) \/ RestartRemoves(h)
      <3>1. node' = AfterNwRemove(h) /\ req[h].name \in Names
        BY <1>2, <2>1 DEF RemoveDelete, AfterDelete, RestartRemoves, At, NodeOpPcs
      <3>2. [up |-> FALSE, port |-> node[network][req[h].name].port,
             exec |-> node[network][req[h].name].exec] \in Process
        BY <1>0, <3>1 DEF LockInv, TypeOK, NetTypeOK, Process
      <3> QED
        BY <1>0, <3>1, <3>2 DEF AfterNwRemove, LockInv, TypeOK, NetTypeOK
    <2>2. CASE RestartAdds(h)
      <3>1. req[h].name \in Names /\ req[h].exec \in Execs \cup {Nil}
        BY <1>2, <2>2 DEF RestartAdds, At, NodeOpPcs, LockInv, TypeOK
      <3>2. node[network][req[h].name].port + 1 \in Nat
        BY <1>0, <3>1 DEF LockInv, TypeOK, NetTypeOK, Process
      <3> QED
        BY <1>0, <2>2, <3>1, <3>2
        DEF RestartAdds, NewNodeConfig, LockInv, TypeOK, NetTypeOK, Process
    <2>3. CASE StopNetwork(h)
      BY <1>0, <2>3, NwStopTypes DEF StopNetwork, LockInv, TypeOK
    <2> QED
      BY <2>1, <2>2, <2>3
  <1>7. /\ nodeInfos' \in [Nets -> [Names -> NodeInfo]]
        /\ nodeNames' \in [Nets -> SUBSET Names]
        /\ info' \in [Nets -> InfoType]
    <2>1. RemainingNames(h) \in SUBSET Names
      BY DEF RemainingNames, Listed
    <2>2. info[network].healthy \in BOOLEAN
      BY <1>0 DEF LockInv, TypeOK
    <2>3. Showing(RemainingNames(h), info[network].healthy) \in InfoType
      BY <2>1, <2>2, ShowingType
    <2>4. Unlisted \in NodeInfo
      BY DEF Unlisted, NodeInfo, NoPort
    <2>5. CASE RemoveDelete(h)
      BY <1>0, <2>1, <2>3, <2>4, <2>5
      DEF RemoveDelete, AfterDelete, LockInv, TypeOK, NetTypeOK, SameCluster, InfoType
    <2>6. CASE UNCHANGED <<nodeInfos, nodeNames, info>>
      BY <2>6 DEF LockInv, TypeOK, NetTypeOK, InfoType
    <2> QED
      BY <2>5, <2>6 DEF RestartRemoves, RestartAdds, StopNetwork
  <1>8. SharedTypes'
    BY <1>0, <1>5, <1>6, <1>7, TypeHalves
    DEF LockInv, SharedTypes, RemoveDelete, AfterDelete, RestartRemoves, RestartAdds, StopNetwork, InfoType
  <1> QED
    BY <1>0, <1>1, <1>2, <1>4, <1>8, LockKept
    DEF LockInv, SameCluster, InCriticalSection, LockedPcs, NodeOpPcs

LEMMA LockInvWatch ==
  ASSUME LockInv, NEW n \in Nets, WatchStep(n) PROVE LockInv'
  <1>1. UNCHANGED <<netVars, closed, mu, network, clusterInfo, pc, req, cap>>
    BY DEF WatchStep, WatchSelect, WatchGivesUp, WatchReady, WatchPublish, serverVars
  <1>2. proc' \in {"up", "exited"} \cup PanicSites
    BY DEF WatchStep, WatchSelect, WatchGivesUp, WatchReady, WatchPublish, PanicSites, LockInv,
       TypeOK, NetTypeOK
  <1>3. info' \in [Nets -> InfoType]
    <2>1. network \in Nets => nodeNames[network] \in SUBSET Names
      BY DEF LockInv, TypeOK, NetTypeOK
    <2>2. network \in Nets => PublishedInfo \in InfoType
      BY <2>1, ShowingType DEF PublishedInfo
    <2>3. info' = info \/ (network \in Nets /\ info' = [info EXCEPT ![network] = PublishedInfo])
      BY DEF WatchStep, WatchSelect, WatchGivesUp, WatchReady, WatchPublish,
             LockInv, TypeOK, SameCluster, serverVars
    <2> QED
      BY <2>2, <2>3 DEF LockInv, TypeOK, InfoType
  <1>4. watch' \in [Nets -> [at: {"unborn", "born", "select", "ready", "done"},
                             net: Nets \cup {Nil}]]
    BY DEF WatchStep, WatchSelect, WatchGivesUp, WatchReady, WatchPublish, WatchDone,
       LockInv, TypeOK, serverVars
  <1> QED
    BY <1>1, <1>2, <1>3, <1>4
    DEF LockInv, TypeOK, NetTypeOK, SameCluster, LockHeld, InCriticalSection, netVars, InfoType

LEMMA LockInvClose ==
  ASSUME LockInv, CloseServer \/ Exit \/ UNCHANGED vars PROVE LockInv'
  BY DEF CloseServer, Exit, vars, LockInv, TypeOK, NetTypeOK, SameCluster, LockHeld,
     InCriticalSection, serverVars, netVars

LEMMA LockInvNext == LockInv /\ [Next]_vars => LockInv'
  BY LockInvNetStep, LockInvReceive, LockInvReturns, LockInvCheck, LockInvStartNetwork,
     LockInvHealth, LockInvHandlerPanics, LockInvBegins, LockInvEnds, LockInvHolds,
     LockInvWatch, LockInvClose
  DEF Next, HandlerStep

THEOREM LockInvariant == Spec => []LockInv
  BY LockInvInit, LockInvNext, PTL DEF Spec

\* The state of the server keeps its types, and every reply has a ClusterInfo.
THEOREM TypeCorrect == Spec => []TypeOK
  <1>1. LockInv => TypeOK
    BY DEF LockInv
  <1> QED
    BY <1>1, LockInvariant, PTL

=============================================================================
