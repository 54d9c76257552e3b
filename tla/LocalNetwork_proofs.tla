------------------------ MODULE LocalNetwork_proofs ------------------------
(***************************************************************************)
(* Types of LocalNetwork: what its operators return, and that no step of   *)
(* start() or of waitForHealthy leaves the types.                          *)
(***************************************************************************)
EXTENDS LocalNetwork, TLAPS

\* Where a thread may be in waitForHealthy.
WaitType == [at: {"idle", "wait", "update", "ok", "err"},
             net: Nets \cup {Nil},
             seen: [Names -> Nat]]

LEMMA NetInitType == NetInit => NetTypeOK
  BY DomainsAssumption DEF NetInit, NetTypeOK, Process, NodeInfo, Down, Unlisted, NoPort,
     NotWaiting, NothingSeen, Threads, ErrcCap

LEMMA PortsType ==
  ASSUME NetTypeOK, NEW n \in Nets
  PROVE  Ports(n) \in [Names -> Nat]
  BY DEF Ports, NetTypeOK, Process, NoPort

LEMMA WaitingForType == \A n \in Nets : WaitingFor(n) \in WaitType /\ WaitingFor(n).net = n
  BY DEF WaitingFor, WaitType, NothingSeen, NoPort

LEMMA NotWaitingType == NotWaiting \in WaitType /\ NotWaiting.at = "idle"
  BY DEF NotWaiting, WaitType, NothingSeen, NoPort

\* What waitForHealthy writes into lc.nodeInfos: URIs, and nothing else.
LEMMA WithUrisFacts ==
  ASSUME NetTypeOK, NEW n \in Nets, NEW seen \in [Names -> Nat]
  PROVE  /\ WithUris(n, seen) \in [Names -> NodeInfo]
         /\ \A x \in Names : /\ WithUris(n, seen)[x].listed = nodeInfos[n][x].listed
                            /\ WithUris(n, seen)[x].exec = nodeInfos[n][x].exec
  <1>1. \A x \in Names : nodeInfos[n][x] \in NodeInfo
    BY DEF NetTypeOK
  <1>2. ASSUME NEW x \in Names
        PROVE  [nodeInfos[n][x] EXCEPT !.uri = seen[x]] =
                 [listed |-> nodeInfos[n][x].listed, uri |-> seen[x],
                  exec |-> nodeInfos[n][x].exec]
    BY <1>1 DEF NodeInfo
  <1> QED
    BY <1>1, <1>2 DEF WithUris, NodeInfo

\* There is room for one error in lc.errc.
LEMMA ErrcType ==
  ASSUME NetTypeOK, NEW n \in Nets, errc[n] < ErrcCap,
         errc' = [errc EXCEPT ![n] = errc[n] + 1]
  PROVE  errc' \in [Nets -> 0 .. ErrcCap]
  <1>1. errc[n] \in 0 .. 1 /\ errc[n] < 1
    BY DEF ErrcCap, NetTypeOK
  <1>2. errc[n] + 1 \in 0 .. 1
    BY <1>1
  <1> QED
    BY <1>2 DEF NetTypeOK, ErrcCap

-----------------------------------------------------------------------------

LEMMA LaunchType ==
  ASSUME NetTypeOK, NEW n \in Nets, Launch(n) PROVE NetTypeOK'
  <1>1. node' \in [Nets -> [Names -> Process]]
    BY DEF Launch, NetTypeOK, Process
  <1>2. wfh' = [wfh EXCEPT ![n] = WaitingFor(n)] /\ WaitingFor(n) \in WaitType
        /\ WaitingFor(n).net = n
    BY WaitingForType DEF Launch
  <1>3. wfh' \in [Threads -> WaitType]
        /\ \A t \in Threads : wfh'[t].at # "idle" => wfh'[t].net \in Nets
    BY <1>2 DEF NetTypeOK, Threads, WaitType
  <1> QED
    BY <1>1, <1>3 DEF Launch, NetTypeOK, WaitType

LEMMA LaunchFailsType ==
  ASSUME NetTypeOK, NEW n \in Nets, LaunchFails(n) PROVE NetTypeOK'
  <1>1. errc' \in [Nets -> 0 .. ErrcCap]
    BY ErrcType DEF LaunchFails
  <1> QED
    BY <1>1 DEF LaunchFails, NetTypeOK

LEMMA StarterReturnsType ==
  ASSUME NetTypeOK, NEW n \in Nets, StarterReturns(n) PROVE NetTypeOK'
  <1>1. errc' \in [Nets -> 0 .. ErrcCap]
    BY ErrcType DEF StarterReturns, NetTypeOK
  <1>2. wfh' \in [Threads -> WaitType]
        /\ \A t \in Threads : wfh'[t].at # "idle" => wfh'[t].net \in Nets
    BY NotWaitingType DEF StarterReturns, NetTypeOK, Threads, WaitType
  <1> QED
    BY <1>1, <1>2 DEF StarterReturns, NetTypeOK, WaitType

LEMMA StarterStepType ==
  ASSUME NetTypeOK, NEW n \in Nets, StarterStep(n) PROVE NetTypeOK'
  BY LaunchType, LaunchFailsType, StarterReturnsType DEF StarterStep

\* lc.nw.Stop: some, or none, of the processes are left.
LEMMA NwStopTypes ==
  ASSUME NetTypeOK, NEW n \in Nets, NwStop(n)
  PROVE  /\ nw' \in [Nets -> {"nil", "running", "stopped"}]
         /\ node' \in [Nets -> [Names -> Process]]
  BY DEF NwStop, NetTypeOK, Process

-----------------------------------------------------------------------------

LEMMA WaitEndsType ==
  ASSUME NetTypeOK, NEW t \in Threads, WaitAborted(t) \/ WaitFails(t) PROVE NetTypeOK'
  <1>1. wfh[t] \in WaitType /\ wfh[t].net \in Nets
    BY DEF NetTypeOK, WaitAborted, WaitFails, WaiterAt, WaitType
  <1> DEFINE ended == [at |-> "err", net |-> wfh[t].net, seen |-> NothingSeen]
  <1>a. ended \in WaitType /\ ended.net \in Nets
    BY <1>1 DEF WaitType, NothingSeen, NoPort
  <1>b. wfh' = [wfh EXCEPT ![t] = ended]
    BY DEF WaitAborted, WaitFails
  <1> HIDE DEF ended
  <1>2. wfh' \in [Threads -> WaitType]
        /\ \A u \in Threads : wfh'[u].at # "idle" => wfh'[u].net \in Nets
    BY <1>a, <1>b DEF NetTypeOK, WaitType
  <1>3. UNCHANGED <<proc, nw, node, nodeInfos, nodeNames, cfg, readyc, stopc,
                    donec, errc, starter>>
    BY DEF WaitAborted, WaitFails
  <1> QED
    BY <1>2, <1>3 DEF NetTypeOK, WaitType

LEMMA NodesReportedType ==
  ASSUME NetTypeOK, NEW t \in Threads, NodesReported(t) PROVE NetTypeOK'
  <1>1. wfh[t].net \in Nets
    BY DEF NetTypeOK, NodesReported, WaiterAt
  <1>2. Ports(wfh[t].net) \in [Names -> Nat]
    BY <1>1, PortsType
  <1> QED
    BY <1>1, <1>2 DEF NodesReported, NetTypeOK, WaiterAt

LEMMA UpdateNodeInfosType ==
  ASSUME NetTypeOK, NEW t \in Threads, UpdateNodeInfos(t) PROVE NetTypeOK'
  <1>1. wfh[t].net \in Nets /\ wfh[t].seen \in [Names -> Nat]
    BY DEF NetTypeOK, UpdateNodeInfos, WaiterAt
  <1>2. nodeInfos' \in [Nets -> [Names -> NodeInfo]]
    BY <1>1, WithUrisFacts DEF UpdateNodeInfos, NetTypeOK
  <1>3. wfh' \in [Threads -> WaitType]
        /\ \A u \in Threads : wfh'[u].at # "idle" => wfh'[u].net \in Nets
    BY <1>1 DEF UpdateNodeInfos, NetTypeOK, WaitType, NothingSeen, NoPort
  <1> QED
    BY <1>1, <1>2, <1>3 DEF UpdateNodeInfos, NetTypeOK, WaitType

LEMMA UpdatePanicsType ==
  ASSUME NetTypeOK, NEW t \in Threads, UpdatePanics(t) PROVE NetTypeOK'
  BY DEF UpdatePanics, NetTypeOK, netVars, PanicSites

LEMMA WaitStepType ==
  ASSUME NetTypeOK, NEW t \in Threads, WaitStep(t) PROVE NetTypeOK'
  BY WaitEndsType, NodesReportedType, UpdateNodeInfosType, UpdatePanicsType DEF WaitStep

=============================================================================
