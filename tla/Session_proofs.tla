---------------------------- MODULE Session_proofs ----------------------------
(***************************************************************************)
(* A session is a run of the server: whatever commands are sent, answered, *)
(* given up or hung up on, and however time passes, the server takes the   *)
(* steps of ControlServer, so what is proved of those holds of sessions.   *)
(* Then what holds of the one user: that time enough brings an answer, and *)
(* what an answer is worth.                                                *)
(***************************************************************************)
EXTENDS Session, Lifecycle_proofs, Panics_proofs, FiniteSetTheorems

-----------------------------------------------------------------------------
(* The steps of a session, as those of the server.                         *)

AnyInvoke == \E r : \E t \in Patience \cup {HTTP} : Invoke(r, t)

\* A goroutine that no handler runs.
Elsewhere ==
    /\ NetStep \/ \E n \in Nets : WatchStep(n)
    /\ Timers
    /\ UNCHANGED sessionVars

LEMMA SessionCases ==
  ASSUME [SessionNext]_allVars
  PROVE  \/ AnyInvoke
         \/ \E h \in Handlers : Answer(h) \/ Work(h)
         \/ Elsewhere
         \/ GiveUp \/ HangUp
         \/ Tick
         \/ UNCHANGED allVars
  <1>1. ASSUME \/ StartFunc \/ HealthFunc \/ URIsFunc \/ StatusFunc
               \/ RemoveNodeFunc \/ RestartNodeFunc \/ StopFunc
               \/ PostStart \/ PostHealth \/ PostURIs \/ PostStatus
               \/ PostRemoveNode \/ PostRestartNode \/ PostStop
        PROVE  AnyInvoke
    BY <1>1
    DEF StartFunc, HealthFunc, URIsFunc, StatusFunc, RemoveNodeFunc, RestartNodeFunc, StopFunc,
        PostStart, PostHealth, PostURIs, PostStatus, PostRemoveNode, PostRestartNode, PostStop,
        Post, AnyInvoke
  <1> QED
    BY <1>1 DEF SessionNext, Elsewhere

LEMMA SessionSteps == [SessionNext]_allVars => [Next]_vars
  <1> SUFFICES ASSUME [SessionNext]_allVars PROVE Next \/ UNCHANGED vars
    OBVIOUS
  <1>1. CASE AnyInvoke
    BY <1>1 DEF AnyInvoke, Invoke, Dispatch, Next
  <1>2. ASSUME NEW h \in Handlers, Answer(h) \/ Work(h) PROVE Next
    BY <1>2 DEF Answer, Work, Next
  <1>3. CASE Elsewhere
    BY <1>3 DEF Elsewhere, Next
  <1>4. CASE GiveUp \/ HangUp \/ Tick \/ UNCHANGED allVars
    BY <1>4 DEF GiveUp, HangUp, Tick, allVars
  <1> QED
    BY <1>1, <1>2, <1>3, <1>4, SessionCases

\* A user with timeouts, and one who hangs up, get the server of ControlServer: giving
\* up is nothing that the server notices.
THEOREM SessionIsServed == SessionSpec => Spec
  <1>1. SessionInit => Init
    BY DEF SessionInit
  <1> QED
    BY <1>1, SessionSteps, PTL DEF SessionSpec, Spec

\* Commands that are given up and repeated, while their handlers go on, never leave two
\* clusters, a listing that disagrees with itself, or a process that nobody lists.
THEOREM SessionKeepsCluster == SessionSpec => [](OneCluster /\ ListingAgrees /\ NoUnlistedProcess)
  BY SessionIsServed, OneClusterHolds, ListingAgreesHolds, NoUnlistedProcessHolds, PTL

-----------------------------------------------------------------------------
(* The user and the handler that serves it.                                *)

\* The points at which the handler of an RPC can be before its reply.
ServedAt(op) ==
    CASE op = "start" -> {"check", "start"}
      [] op = "health" -> {"check", "health", "healthwait"}
      [] op = "remove" -> {"check", "remove", "removing", "removewait"}
      [] op = "restart" -> {"check", "restart", "restarting", "adding", "restartwait"}
      [] op = "stop" -> {"check", "stop", "stopping", "stopwait"}
      [] OTHER -> {"check"}

Serves(h, r) == pc[h] = "reply" \/ (pc[h] \in ServedAt(r.op) /\ req[h] = r)

UserType ==
    [at: {"idle", "waiting"}, h: Handlers \cup {Nil}, req: Requests \cup {NoReq},
     timeout: Patience \cup {HTTP}, remains: Nat, behind: Nat]

\* Whoever waits is being served, by a handler that is in flight.
UserInv ==
    /\ user \in UserType
    /\ left \in [Threads -> 0 .. HealthyWait]
    /\ saw \in BOOLEAN /\ impatient \in BOOLEAN
    /\ IsFiniteSet(InFlight)
    /\ user.at = "waiting" =>
         user.h \in Handlers /\ user.req \in Requests /\ Serves(user.h, user.req)

LEMMA UserInit == SessionInit => UserInv
  <1> SUFFICES ASSUME SessionInit PROVE UserInv
    OBVIOUS
  <1>1. user \in UserType /\ user.at = "idle"
    BY DEF SessionInit, NoCommand, UserType
  <1>2. InFlight = {}
    BY DEF SessionInit, Init, InFlight
  <1>3. left \in [Threads -> 0 .. HealthyWait]
    BY TimesAssumption DEF SessionInit
  <1> QED
    BY <1>1, <1>2, <1>3, FS_EmptySet DEF SessionInit, UserInv

\* A step of a handler, and who is in flight after it.
LEMMA HandlerIsUp ==
  ASSUME NEW h \in Handlers, HandlerStep(h) PROVE pc[h] # "idle" /\ proc = "up"
  BY DEF HandlerStep, Replied, Check, StartCheck, StartRefused, StartNetwork, HealthWait,
         HealthPanics, HealthFails, HealthDone, NodeOpPanics, NodeNotFound, NodeOpFails,
         RemoveBegin, DeletePanics, RemoveDelete, RemoveDone, RestartBegin, RestartRemoves,
         RestartAdds, RestartDone, StopBegin, StopPanics, StopNetwork, StopDone, At

LEMMA FlightStaysFinite ==
  ASSUME ClusterInv, UserInv,
         \/ \E h \in Handlers : Receive(h) \/ HandlerStep(h)
         \/ UNCHANGED pc
  PROVE  IsFiniteSet(InFlight)'
  <1>1. CASE UNCHANGED pc
    BY <1>1 DEF UserInv, InFlight
  <1>2. ASSUME NEW h \in Handlers, Receive(h) \/ HandlerStep(h) PROVE IsFiniteSet(InFlight)'
    <2>1. InFlight' \in SUBSET (InFlight \cup {h})
      BY <1>2, OthersStay DEF InFlight
    <2>2. IsFiniteSet(InFlight \cup {h})
      BY FS_AddElement DEF UserInv
    <2> QED
      BY <2>1, <2>2, FS_Subset
  <1> QED
    BY <1>1, <1>2

LEMMA TimersType ==
  ASSUME UserInv, Timers PROVE left' \in [Threads -> 0 .. HealthyWait]
  BY TimesAssumption DEF UserInv, Timers

\* A handler goes on with the request it has, until it replies or is over.
LEMMA ServesStep ==
  ASSUME ClusterInv, NEW h \in Handlers, HandlerStep(h), NEW r \in Requests, Serves(h, r)
  PROVE  pc'[h] = "idle" \/ Serves(h, r)'
  <1>0. pc \in [Handlers -> Pcs] /\ req \in [Handlers -> ReqType] /\ r.op \in AllOps
    BY OpsAssumption DEF ClusterInv, LockInv, TypeOK, ReqType, Requests
  <1>1. CASE Replied(h) \/ StartRefused(h) \/ HealthFails(h) \/ NodeNotFound(h) \/ NodeOpFails(h)
    BY <1>0, <1>1 DEF Replied, StartRefused, HealthFails, NodeNotFound, NodeOpFails, Finish, Goto
  <1>2. CASE StartNetwork(h) \/ HealthDone(h) \/ RemoveDone(h) \/ RestartDone(h) \/ StopDone(h)
    BY <1>0, <1>2
    DEF StartNetwork, HealthDone, RemoveDone, RestartDone, StopDone, ReturnInfo, Goto, Serves
  <1>3. CASE Check(h) \/ StartCheck(h)
    <2>1. pc[h] = "check" /\ req[h] = r
      BY <1>3 DEF Check, StartCheck, At, Serves
    <2>2. \/ pc'[h] \in {"idle", "reply"}
          \/ /\ pc'[h] = r.op /\ UNCHANGED req
             /\ r.op \notin {"status", "uris"}
      BY <1>0, <1>3, <2>1 DEF Check, StartCheck, Finish, ReturnInfo, Goto
    <2> QED
      BY <1>0, <2>1, <2>2 DEF Serves, ServedAt, AllOps
  <1>4. CASE HealthWait(h) \/ RemoveBegin(h) \/ RemoveDelete(h) \/ RestartBegin(h)
             \/ RestartRemoves(h) \/ RestartAdds(h) \/ StopBegin(h) \/ StopNetwork(h)
    <2>1. /\ UNCHANGED req
          /\ <<pc[h], pc'[h]>> \in {<<"health", "healthwait">>, <<"remove", "removing">>,
                <<"removing", "removewait">>, <<"restart", "restarting">>,
                <<"restarting", "adding">>, <<"adding", "restartwait">>, <<"stop", "stopping">>,
                <<"stopping", "stopwait">>}
      BY <1>0, <1>4
      DEF HealthWait, RemoveBegin, RemoveDelete, RestartBegin, RestartRemoves, RestartAdds,
          StopBegin, StopNetwork, Goto, At
    <2> QED
      BY <1>0, <2>1 DEF Serves, ServedAt, AllOps
  <1>5. CASE HealthPanics(h) \/ NodeOpPanics(h) \/ DeletePanics(h) \/ StopPanics(h)
    BY <1>5, PanicsEnd DEF Ends, serverVars, Serves
  <1> QED
    BY <1>1, <1>2, <1>3, <1>4, <1>5 DEF HandlerStep

\* What it takes to send a command.
LEMMA InvokeFacts ==
  ASSUME ClusterInv, NEW r, NEW t \in Patience \cup {HTTP}, Invoke(r, t)
  PROVE  /\ \E h \in Handlers :
              /\ Receive(h) /\ pc[h] = "idle" /\ req'[h] = r
              /\ pc' = [pc EXCEPT ![h] = "check"] /\ pc'[h] = "check"
              /\ user' = [at |-> "waiting", h |-> h, req |-> r, timeout |-> t,
                          remains |-> t, behind |-> Cardinality(InFlight)]
         /\ r \in Requests
         /\ user.at = "idle" /\ HasLooked(r.op)
         /\ impatient' = (impatient \/ t <= HealthyWait)
         /\ UNCHANGED <<last, saw, left, netVars, proc, network, clusterInfo, info, watch>>
  <1>1. PICK h \in Handlers :
          /\ Dispatch(h, r)
          /\ user' = [at |-> "waiting", h |-> h, req |-> r, timeout |-> t,
                      remains |-> t, behind |-> Cardinality(InFlight)]
    BY DEF Invoke
  <1>2. /\ Receive(h) /\ pc[h] = "idle" /\ pc' = [pc EXCEPT ![h] = "check"]
        /\ UNCHANGED <<netVars, proc, network, clusterInfo, info, watch>>
    BY <1>1 DEF Dispatch, Receive, At, Goto
  <1>3. pc'[h] = "check"
    BY <1>2 DEF ClusterInv, LockInv, TypeOK
  <1>4. r \in Requests
    <2>1. PICK q \in Requests : req' = [req EXCEPT ![h] = q]
      BY <1>2 DEF Receive
    <2>2. req'[h] = q
      BY <2>1 DEF ClusterInv, LockInv, TypeOK
    <2> QED
      BY <1>1, <2>2 DEF Dispatch
  <1> QED
    BY <1>1, <1>2, <1>3, <1>4 DEF Invoke, Dispatch

LEMMA UserNext == ClusterInv /\ UserInv /\ [SessionNext]_allVars => UserInv'
  <1> SUFFICES ASSUME ClusterInv, UserInv, [SessionNext]_allVars PROVE UserInv'
    OBVIOUS
  <1>0. NoCommand \in UserType /\ NoCommand.at = "idle"
    BY DEF NoCommand, UserType
  <1>1. CASE AnyInvoke
    <2>0. PICK r : \E t \in Patience \cup {HTTP} : Invoke(r, t)
      BY <1>1 DEF AnyInvoke
    <2>1. PICK t \in Patience \cup {HTTP} : Invoke(r, t)
      BY <2>0
    <2>2. PICK h \in Handlers :
            /\ Receive(h) /\ pc'[h] = "check" /\ req'[h] = r
            /\ user' = [at |-> "waiting", h |-> h, req |-> r, timeout |-> t,
                        remains |-> t, behind |-> Cardinality(InFlight)]
      BY <2>1, InvokeFacts
    <2>3. Serves(h, r)'
      BY <2>2 DEF Serves, ServedAt
    <2>4. user' \in UserType
      <3>1. Cardinality(InFlight) \in Nat /\ t \in Nat
        BY FS_CardinalityType, TimesAssumption DEF UserInv, HTTP
      <3> QED
        BY <2>1, <2>2, <3>1, InvokeFacts DEF UserType
    <2>5. UNCHANGED <<left, saw>> /\ impatient' \in BOOLEAN /\ r \in Requests
      BY <2>1, InvokeFacts
    <2>6. IsFiniteSet(InFlight)'
      BY <2>2, FlightStaysFinite
    <2> QED
      BY <2>2, <2>3, <2>4, <2>5, <2>6 DEF UserInv
  <1>2. ASSUME NEW h \in Handlers, Answer(h) PROVE UserInv'
    <2>1. HandlerStep(h) /\ Timers /\ user' = NoCommand /\ impatient' = impatient
      BY <1>2 DEF Answer
    <2>2. saw' \in BOOLEAN
      <3>1. pc[h] = "reply" => info[cap[h]].healthy \in BOOLEAN
        BY DEF ClusterInv, LockInv, TypeOK
      <3> QED
        BY <1>2, <3>1 DEF Answer, UserInv
    <2> QED
      BY <1>0, <2>1, <2>2, TimersType, FlightStaysFinite DEF UserInv
  <1>3. ASSUME NEW h \in Handlers, Work(h) PROVE UserInv'
    <2>1. /\ HandlerStep(h) /\ Timers /\ UNCHANGED <<user, saw, impatient>>
          /\ Returns(h) => user.at # "waiting" \/ user.h # h
      BY <1>3 DEF Work, sessionVars
    <2>2. ASSUME user.at = "waiting" PROVE Serves(user.h, user.req)'
      <3>1. CASE user.h = h
        BY <2>1, <2>2, <3>1, ServesStep, HandlerIsUp DEF UserInv, Returns
      <3>2. CASE user.h # h
        BY <2>1, <2>2, <3>2, OthersStay DEF UserInv, Serves
      <3> QED
        BY <3>1, <3>2
    <2> QED
      BY <2>1, <2>2, TimersType, FlightStaysFinite DEF UserInv
  <1>4. CASE Elsewhere
    <2>1. UNCHANGED <<pc, req, user, saw, impatient>> /\ Timers
      BY <1>4
      DEF Elsewhere, NetStep, WatchStep, WatchSelect, WatchGivesUp, WatchReady, WatchPublish,
          serverVars, sessionVars
    <2> QED
      BY <2>1, TimersType, FlightStaysFinite DEF UserInv, Serves
  <1>5. CASE GiveUp \/ HangUp
    BY <1>0, <1>5, FlightStaysFinite DEF GiveUp, HangUp, UserInv, vars, serverVars
  <1>6. CASE Tick
    <2>1. UNCHANGED <<pc, req, saw, impatient>>
      BY <1>6 DEF Tick, vars, serverVars
    <2>2. left' \in [Threads -> 0 .. HealthyWait]
      BY <1>6, TimesAssumption DEF Tick, Less, UserInv
    <2>3. user' = [user EXCEPT !.remains = Less(user.remains)] /\ Less(user.remains) \in Nat
      BY <1>6 DEF Tick, Less, UserInv, UserType
    <2>4. user' \in UserType /\ user'.at = user.at /\ user'.h = user.h /\ user'.req = user.req
      BY <2>3 DEF UserInv, UserType
    <2> QED
      BY <2>1, <2>2, <2>4, FlightStaysFinite DEF UserInv, Serves
  <1>7. CASE UNCHANGED allVars
    BY <1>7, FlightStaysFinite DEF allVars, vars, serverVars, sessionVars, UserInv, Serves
  <1> QED
    BY <1>1, <1>2, <1>3, <1>4, <1>5, <1>6, <1>7, SessionCases

\* A user who waits is served, whatever has been given up before.
THEOREM UserInvariant == SessionSpec => [](ClusterInv /\ GoInv /\ UserInv)
  <1>1. ClusterInv /\ UserInv /\ [SessionNext]_allVars => UserInv'
    BY UserNext
  <1> QED
    BY <1>1, SessionIsServed, GoInvariant, UserInit, PTL DEF SessionSpec

-----------------------------------------------------------------------------
(* Somebody works.                                                         *)

\* A Stop that waits for start() to end: start() can go on, since stopc is closed.
LEMMA StarterGoesOn ==
  ASSUME ClusterInv, GoInv, NEW h \in Handlers, pc[h] = "stopwait", ~StarterGone(network)
  PROVE  Runnable
  <1>1. network \in Nets /\ nw[network] = "stopped" /\ stopc[network] /\ ~donec[network]
    BY DEF ClusterInv, LockInv, InCriticalSection, LockedPcs, HolderInv, HolderOK, GoInv,
           StarterGone
  <1>2. starter[network] = "waiting"
    BY <1>1, GoTypes DEF ClusterInv, StarterInv, GoInv
  <1>3. wfh[network].at # "idle" /\ wfh[network].net = network /\ errc[network] < ErrcCap
    BY <1>1, <1>2 DEF GoInv, ErrcCap
  <1>4. wfh[network].at \in {"wait", "update", "ok", "err"} /\ network \in Threads
    BY <1>1, <1>3, GoTypes DEF WaitType
  <1> QED
    BY <1>1, <1>3, <1>4 DEF Runnable

LEMMA SomebodyWorksAlways ==
  ASSUME ClusterInv, GoInv, UserInv PROVE SomebodyWorks
  <1> SUFFICES ASSUME user.at = "waiting", \A h \in Handlers : wfh[h].at # "wait", ~Runnable
               PROVE  FALSE
    BY DEF SomebodyWorks
  <1>1. ASSUME NEW h \in InFlight PROVE WantsLock(h) /\ mu # Nil
    BY <1>1, StarterGoesOn DEF Runnable, Blocked, InFlight
  <1>2. user.h \in InFlight
    BY DEF UserInv, Serves, ServedAt, InFlight
  <1>3. mu \in Handlers /\ pc[mu] \in LockedPcs
    BY <1>1, <1>2 DEF ClusterInv, LockInv, TypeOK, LockHeld
  <1> QED
    BY <1>1, <1>3 DEF InFlight, LockedPcs, WantsLock

\* No command waits for ever for the locks and channels of the server: as long as one
\* waits, some goroutine can go on, or a handler is in waitForHealthy, which ends by itself.
THEOREM SomebodyWorksHolds == SessionSpec => []SomebodyWorks
  BY SomebodyWorksAlways, UserInvariant, PTL

-----------------------------------------------------------------------------
(* Time enough.                                                            *)

\* A handler that may still come to waitForHealthy.
MayWaitPcs == {"check", "health", "remove", "removing", "restart", "restarting", "adding"}

\* The ticks a handler may still spend in waitForHealthy, and all of them together, each
\* as a token of its own.
Budget(g) ==
    IF wfh[g].at = "wait" THEN left[g]
    ELSE IF pc[g] \in MayWaitPcs THEN HealthyWait
    ELSE 0

Tokens == {p \in Handlers \X (1 .. HealthyWait) : p[2] <= Budget(p[1])}

\* The user's patience outlasts them.
PatienceInv ==
    user.at = "waiting" /\ user.timeout # HTTP =>
        Cardinality(Tokens) + user.timeout <= user.remains + HealthyWait * (1 + user.behind)

LEMMA BudgetType ==
  ASSUME UserInv, NEW g \in Handlers PROVE Budget(g) \in 0 .. HealthyWait
  BY TimesAssumption DEF UserInv, Budget, Threads

LEMMA UserNumbers ==
  ASSUME UserInv PROVE user.timeout \in Nat /\ user.remains \in Nat /\ user.behind \in Nat
  <1>1. user.timeout \in Patience \cup {HTTP} /\ user.remains \in Nat /\ user.behind \in Nat
    BY DEF UserInv, UserType
  <1>2. \A t \in Patience \cup {HTTP} : t \in Nat
    BY TimesAssumption DEF HTTP
  <1> QED
    BY <1>1, <1>2

\* Only handlers in flight hold tokens.
TokensInFlight ==
    /\ Tokens \subseteq InFlight \X (1 .. HealthyWait)
    /\ IsFiniteSet(InFlight \X (1 .. HealthyWait))
    /\ Cardinality(InFlight \X (1 .. HealthyWait)) = Cardinality(InFlight) * HealthyWait
    /\ IsFiniteSet(Tokens) /\ Cardinality(Tokens) \in Nat

LEMMA TokensFinite == ClusterInv /\ GoInv /\ UserInv => TokensInFlight
  <1> SUFFICES ASSUME ClusterInv, GoInv, UserInv PROVE TokensInFlight
    OBVIOUS
  <1>1. \A g \in Handlers : Budget(g) > 0 => pc[g] # "idle"
    BY TimesAssumption DEF Budget, MayWaitPcs, GoInv, WaitPcs
  <1>2. Tokens \in SUBSET (InFlight \X (1 .. HealthyWait))
    <2> SUFFICES ASSUME NEW p \in Tokens PROVE p \in InFlight \X (1 .. HealthyWait)
      OBVIOUS
    <2>1. p \in Handlers \X (1 .. HealthyWait) /\ p[2] <= Budget(p[1])
      BY DEF Tokens
    <2>2. Budget(p[1]) > 0
      BY <2>1, BudgetType, TimesAssumption
    <2> QED
      BY <1>1, <2>1, <2>2 DEF InFlight
  <1>3. /\ IsFiniteSet(1 .. HealthyWait)
        /\ Cardinality(1 .. HealthyWait) = HealthyWait
    <2>1. /\ 1 \in Int /\ HealthyWait \in Int /\ ~(1 > HealthyWait)
          /\ HealthyWait - 1 + 1 = HealthyWait
      BY TimesAssumption
    <2> QED
      BY <2>1, FS_Interval
  <1>4. /\ IsFiniteSet(InFlight \X (1 .. HealthyWait))
        /\ Cardinality(InFlight \X (1 .. HealthyWait)) = Cardinality(InFlight) * HealthyWait
    BY <1>3, FS_Product DEF UserInv
  <1>5. IsFiniteSet(Tokens)
    BY <1>2, <1>4, FS_Subset
  <1> QED
    BY <1>2, <1>4, <1>5, FS_CardinalityType DEF TokensInFlight

LEMMA TokensStayFinite == (ClusterInv /\ GoInv /\ UserInv)' => TokensInFlight'
  BY TokensFinite, PTL

\* No budget grows: no more tokens.
LEMMA TokensShrink ==
  ASSUME ClusterInv, GoInv, UserInv, UserInv',
         \A g \in Handlers : Budget(g)' <= Budget(g)
  PROVE  Tokens' \subseteq Tokens /\ Cardinality(Tokens)' <= Cardinality(Tokens)
  <1>1. Tokens' \in SUBSET Tokens
    <2> SUFFICES ASSUME NEW p \in Handlers \X (1 .. HealthyWait), p[2] <= Budget(p[1])'
                 PROVE  p[2] <= Budget(p[1])
      BY DEF Tokens
    <2>1. Budget(p[1]) \in 0 .. HealthyWait /\ p[1] \in Handlers
      BY BudgetType
    <2>2. Budget(p[1])' \in 0 .. HealthyWait
      BY <2>1, TimesAssumption DEF UserInv, Budget, Threads
    <2>3. Budget(p[1])' <= Budget(p[1])
      BY <2>1
    <2> QED
      BY <2>1, <2>2, <2>3, TimesAssumption
  <1> QED
    BY <1>1, TokensFinite, FS_Subset DEF TokensInFlight

\* The way to waitForHealthy is one way.
LEMMA MayWaitStep ==
  ASSUME ClusterInv, NEW h \in Handlers, HandlerStep(h), pc'[h] \in MayWaitPcs
  PROVE  pc[h] \in MayWaitPcs
  <1>0. pc \in [Handlers -> Pcs]
    BY DEF ClusterInv, LockInv, TypeOK
  <1>1. CASE HealthPanics(h) \/ NodeOpPanics(h) \/ DeletePanics(h) \/ StopPanics(h)
    BY <1>1, PanicsEnd DEF Ends, serverVars
  <1>2. ~(Replied(h) \/ StartRefused(h) \/ HealthFails(h) \/ NodeNotFound(h) \/ NodeOpFails(h))
    BY <1>0 DEF Replied, StartRefused, HealthFails, NodeNotFound, NodeOpFails, Finish, Goto,
                MayWaitPcs
  <1>3. ~(StartNetwork(h) \/ HealthDone(h) \/ RemoveDone(h) \/ RestartDone(h) \/ StopDone(h))
    BY <1>0 DEF StartNetwork, HealthDone, RemoveDone, RestartDone, StopDone, ReturnInfo, Goto,
                MayWaitPcs
  <1>4. CASE \/ Check(h) \/ StartCheck(h) \/ HealthWait(h) \/ RemoveBegin(h) \/ RemoveDelete(h)
             \/ RestartBegin(h) \/ RestartRemoves(h) \/ RestartAdds(h) \/ StopBegin(h)
             \/ StopNetwork(h)
    BY <1>0, <1>4
    DEF Check, StartCheck, HealthWait, RemoveBegin, RemoveDelete, RestartBegin, RestartRemoves,
        RestartAdds, StopBegin, StopNetwork, Goto, At, MayWaitPcs
  <1> QED
    BY <1>1, <1>2, <1>3, <1>4 DEF HandlerStep

LEMMA BudgetHandler ==
  ASSUME ClusterInv, GoInv, UserInv, NEW h \in Handlers, HandlerStep(h), Timers,
         NEW g \in Handlers
  PROVE  Budget(g)' <= Budget(g)
  <1>0. /\ left[g] \in 0 .. HealthyWait /\ HealthyWait \in Nat /\ Budget(g) \in 0 .. HealthyWait
        /\ left'[g] = IF wfh'[g].at # "wait" THEN 0
                      ELSE IF wfh[g].at = "wait" THEN left[g] ELSE HealthyWait
    BY BudgetType, TimesAssumption DEF Timers, UserInv, Threads
  <1>1. CASE pc'[g] = pc[g] /\ wfh'[g] = wfh[g]
    BY <1>0, <1>1 DEF Budget
  <1>2. CASE g # h
    <2>1. pc'[g] = pc[g] /\ wfh'[g] = wfh[g]
      BY <1>2, OthersStay, HandlerWaits, GoTypes
    <2> QED
      BY <1>1, <2>1
  <1>3. CASE g = h /\ UNCHANGED wfh /\ pc[h] \notin WaitPcs
    <2>1. wfh[h].at = "idle" /\ wfh'[h].at = "idle"
      BY <1>3 DEF GoInv
    <2> QED
      BY <1>0, <1>3, <2>1, MayWaitStep DEF Budget
  <1>4. CASE g = h /\ wfh' = [wfh EXCEPT ![h] = NotWaiting] /\ pc'[h] \in {"idle", "reply"}
    <2>1. wfh'[h].at = "idle"
      BY <1>4, GoTypes, NotWaitingType
    <2> QED
      BY <1>0, <1>4, <2>1 DEF Budget, MayWaitPcs
  <1>5. CASE g = h /\ wfh' = [wfh EXCEPT ![h] = WaitingFor(network)]
             /\ pc[h] \in {"health", "removing", "adding"}
    <2>1. wfh[h].at = "idle" /\ pc[h] \in MayWaitPcs
      BY <1>5 DEF GoInv, WaitPcs, MayWaitPcs
    <2>2. Budget(h) = HealthyWait
      BY <2>1 DEF Budget
    <2>3. Budget(h)' <= HealthyWait
      BY <1>0, <1>5 DEF Budget
    <2> QED
      BY <1>5, <2>2, <2>3
  <1> QED
    BY <1>1, <1>2, <1>3, <1>4, <1>5, HandlerWaits

LEMMA BudgetElsewhere ==
  ASSUME ClusterInv, GoInv, UserInv, Elsewhere, NEW g \in Handlers
  PROVE  Budget(g)' <= Budget(g)
  <1>0. /\ left[g] \in 0 .. HealthyWait /\ HealthyWait \in Nat /\ Budget(g) \in 0 .. HealthyWait
        /\ left'[g] = IF wfh'[g].at # "wait" THEN 0
                      ELSE IF wfh[g].at = "wait" THEN left[g] ELSE HealthyWait
    BY BudgetType, TimesAssumption DEF Elsewhere, Timers, UserInv, Threads
  <1>1. UNCHANGED pc
    BY DEF Elsewhere, NetStep, WatchStep, WatchSelect, WatchGivesUp, WatchReady, WatchPublish,
           serverVars
  <1>2. wfh'[g] = wfh[g] \/ (wfh'[g].at # "wait" /\ wfh[g].at # "idle")
    <2>1. CASE \E n \in Nets : WatchStep(n)
      BY <2>1 DEF WatchStep, WatchSelect, WatchGivesUp, WatchReady, WatchPublish, netVars
    <2>2. CASE \E n \in Nets : StarterStep(n)
      BY <2>2, GoTypes DEF StarterStep, Launch, LaunchFails, StarterReturns
    <2>3. CASE \E t \in Threads : WaitStep(t)
      BY <2>3, GoTypes
      DEF WaitStep, WaitAborted, WaitFails, NodesReported, UpdateNodeInfos, UpdatePanics,
          WaiterAt, netVars
    <2> QED
      BY <2>1, <2>2, <2>3 DEF Elsewhere, NetStep, StarterStep, WaitStep
  <1>3. CASE wfh'[g] = wfh[g]
    BY <1>0, <1>1, <1>3 DEF Budget
  <1>4. CASE wfh'[g].at # "wait" /\ wfh[g].at # "idle"
    <2>1. pc[g] \notin MayWaitPcs
      BY <1>4 DEF GoInv, WaitPcs, MayWaitPcs
    <2> QED
      BY <1>0, <1>1, <1>4, <2>1 DEF Budget
  <1> QED
    BY <1>2, <1>3, <1>4

\* Time costs whoever waits for healthy a token, and somebody does.
LEMMA TickCosts ==
  ASSUME ClusterInv, GoInv, UserInv, UserInv', Tick, user.at = "waiting"
  PROVE  Cardinality(Tokens)' <= Cardinality(Tokens) - 1
  <1>1. PICK h \in Handlers : wfh[h].at = "wait"
    BY SomebodyWorksAlways DEF Tick, SomebodyWorks
  <1>2. UNCHANGED <<pc, wfh>> /\ left' = [t \in Threads |-> Less(left[t])] /\ left[h] > 0
    BY <1>1 DEF Tick, vars, netVars, serverVars, WaitMayLast, Threads
  <1>3. \A g \in Handlers : left[g] \in 0 .. HealthyWait /\ g \in Threads
    BY DEF UserInv, Threads
  <1>4. ASSUME NEW g \in Handlers PROVE Budget(g)' <= Budget(g)
    BY <1>2, <1>3, TimesAssumption DEF Budget, Less
  <1>5. Budget(h) = left[h] /\ Budget(h)' = left[h] - 1 /\ left[h] \in 1 .. HealthyWait
    BY <1>1, <1>2, <1>3, TimesAssumption DEF Budget, Less
  <1>6. <<h, left[h]>> \in Tokens /\ <<h, left[h]>> \notin Tokens'
    BY <1>5, TimesAssumption DEF Tokens
  <1>7. Tokens' \in SUBSET (Tokens \ {<<h, left[h]>>})
    BY <1>4, <1>6, TokensShrink
  <1>8. /\ IsFiniteSet(Tokens \ {<<h, left[h]>>})
        /\ Cardinality(Tokens \ {<<h, left[h]>>}) = Cardinality(Tokens) - 1
    BY <1>6, TokensFinite, FS_RemoveElement DEF TokensInFlight
  <1> QED
    BY <1>7, <1>8, FS_Subset

LEMMA PatienceNext ==
  ASSUME ClusterInv, GoInv, UserInv, ClusterInv', GoInv', UserInv', PatienceInv,
         [SessionNext]_allVars
  PROVE  PatienceInv'
  <1>0. Cardinality(Tokens) \in Nat /\ Cardinality(Tokens)' \in Nat
    BY TokensFinite, TokensStayFinite DEF TokensInFlight
  <1>1. ASSUME UNCHANGED user \/ ~(user'.at = "waiting"),
               \A g \in Handlers : Budget(g)' <= Budget(g)
        PROVE  PatienceInv'
    <2>1. Cardinality(Tokens)' <= Cardinality(Tokens)
      BY <1>1, TokensShrink
    <2>2. user.timeout \in Nat /\ user.remains \in Nat
      BY UserNumbers
    <2>3. HealthyWait * (1 + user.behind) \in Nat
      BY UserNumbers, TimesAssumption
    <2> SUFFICES ASSUME UNCHANGED user, user.at = "waiting", user.timeout # HTTP
                 PROVE  Cardinality(Tokens)' + user.timeout
                            <= user.remains + HealthyWait * (1 + user.behind)
      BY <1>1 DEF PatienceInv, HTTP
    <2>4. Cardinality(Tokens) + user.timeout <= user.remains + HealthyWait * (1 + user.behind)
      BY DEF PatienceInv
    <2> QED
      BY <1>0, <2>1, <2>2, <2>3, <2>4
  <1>2. CASE AnyInvoke
    <2>0. PICK r : \E t \in Patience \cup {HTTP} : Invoke(r, t)
      BY <1>2 DEF AnyInvoke
    <2>1. PICK t \in Patience \cup {HTTP} : Invoke(r, t)
      BY <2>0
    <2>2. PICK h \in Handlers :
            /\ Receive(h)
            /\ user' = [at |-> "waiting", h |-> h, req |-> r, timeout |-> t,
                        remains |-> t, behind |-> Cardinality(InFlight)]
      BY <2>1, InvokeFacts
    <2>3. InFlight' \in SUBSET (InFlight \cup {h}) /\ IsFiniteSet(InFlight \cup {h})
          /\ Cardinality(InFlight \cup {h}) <= Cardinality(InFlight) + 1
          /\ Cardinality(InFlight) \in Nat
      <3>1. InFlight' \in SUBSET (InFlight \cup {h})
        BY <2>2, OthersStay DEF InFlight
      <3>2. IsFiniteSet(InFlight) /\ Cardinality(InFlight) \in Nat
        BY FS_CardinalityType DEF UserInv
      <3>3. /\ IsFiniteSet(InFlight \cup {h})
            /\ Cardinality(InFlight \cup {h}) =
                 IF h \in InFlight THEN Cardinality(InFlight) ELSE Cardinality(InFlight) + 1
        BY <3>2, FS_AddElement
      <3> QED
        BY <3>1, <3>2, <3>3
    <2>4. Cardinality(InFlight)' <= Cardinality(InFlight) + 1 /\ Cardinality(InFlight)' \in Nat
      <3>1. Cardinality(InFlight)' <= Cardinality(InFlight \cup {h})
        BY <2>3, FS_Subset
      <3>2. Cardinality(InFlight)' \in Nat
        BY FS_CardinalityType DEF UserInv
      <3>3. Cardinality(InFlight \cup {h}) \in Nat
        BY <2>3, FS_CardinalityType
      <3> QED
        BY <2>3, <3>1, <3>2, <3>3
    <2>5. Cardinality(Tokens)' <= Cardinality(InFlight)' * HealthyWait
      <3>1. /\ Tokens' \in SUBSET (InFlight' \X (1 .. HealthyWait))
            /\ IsFiniteSet(InFlight' \X (1 .. HealthyWait))
            /\ Cardinality(InFlight' \X (1 .. HealthyWait)) = Cardinality(InFlight)' * HealthyWait
        BY TokensStayFinite DEF TokensInFlight
      <3> QED
        BY <3>1, FS_Subset
    <2>6. Cardinality(InFlight)' * HealthyWait <= HealthyWait * (1 + Cardinality(InFlight))
      <3>1. PICK a \in Nat, b \in Nat, w \in Nat :
              a = Cardinality(InFlight)' /\ b = Cardinality(InFlight) /\ w = HealthyWait
        BY <2>3, <2>4, TimesAssumption
      <3>2. ASSUME NEW p \in Nat, NEW q \in Nat, NEW v \in Nat, p <= q + 1
            PROVE  p * v <= v * (1 + q)
        BY <3>2
      <3> QED
        BY <2>4, <3>1, <3>2
    <2>7. t \in Nat /\ HealthyWait * (1 + Cardinality(InFlight)) \in Nat
          /\ Cardinality(InFlight)' * HealthyWait \in Nat
      BY <2>3, <2>4, TimesAssumption DEF HTTP
    <2>8. Cardinality(Tokens)' + t <= t + HealthyWait * (1 + Cardinality(InFlight))
      BY <1>0, <2>5, <2>6, <2>7
    <2> QED
      BY <2>2, <2>8 DEF PatienceInv, HTTP
  <1>3. ASSUME NEW h \in Handlers, Answer(h) \/ Work(h) PROVE PatienceInv'
    <2>1. HandlerStep(h) /\ Timers /\ (UNCHANGED user \/ user' = NoCommand)
      BY <1>3 DEF Answer, Work, sessionVars
    <2> QED
      BY <1>1, <2>1, BudgetHandler DEF NoCommand
  <1>4. CASE Elsewhere
    BY <1>1, <1>4, BudgetElsewhere DEF Elsewhere, sessionVars
  <1>5. CASE GiveUp \/ HangUp \/ UNCHANGED allVars
    <2>1. UNCHANGED <<pc, wfh, left>> /\ (UNCHANGED user \/ user' = NoCommand)
      BY <1>5 DEF GiveUp, HangUp, allVars, vars, netVars, serverVars, sessionVars
    <2>2. ASSUME NEW g \in Handlers PROVE Budget(g)' <= Budget(g)
      <3>1. Budget(g) \in Nat /\ Budget(g)' = Budget(g)
        BY <2>1, BudgetType, TimesAssumption DEF Budget
      <3> QED
        BY <3>1
    <2> QED
      BY <1>1, <2>1, <2>2 DEF NoCommand
  <1>6. CASE Tick
    <2>1. /\ user' = [user EXCEPT !.remains = Less(user.remains)]
          /\ user.at = "waiting" /\ user.timeout # HTTP => user.remains > 0
      BY <1>6 DEF Tick
    <2>2. /\ user'.at = user.at /\ user'.timeout = user.timeout /\ user'.behind = user.behind
          /\ user'.remains = Less(user.remains)
          /\ user.remains \in Nat /\ user.timeout \in Nat /\ user.behind \in Nat
      BY <2>1, UserNumbers DEF UserInv, UserType
    <2>3. HealthyWait * (1 + user.behind) \in Nat
      BY <2>2, TimesAssumption
    <2> SUFFICES ASSUME user.at = "waiting", user.timeout # HTTP
                 PROVE  Cardinality(Tokens)' + user.timeout
                            <= Less(user.remains) + HealthyWait * (1 + user.behind)
      BY <2>2 DEF PatienceInv, HTTP
    <2>4. Cardinality(Tokens)' <= Cardinality(Tokens) - 1
      BY <1>6, TickCosts
    <2>5. Less(user.remains) = user.remains - 1
      BY <2>1, <2>2 DEF Less
    <2>6. Cardinality(Tokens) + user.timeout <= user.remains + HealthyWait * (1 + user.behind)
      BY DEF PatienceInv
    <2> QED
      BY <1>0, <2>2, <2>3, <2>4, <2>5, <2>6
  <1> QED
    BY <1>2, <1>3, <1>4, <1>5, <1>6, SessionCases

\* However many commands have been given up, and whatever their handlers still wait for.
THEOREM PatienceInvariant == SessionSpec => [](ClusterInv /\ GoInv /\ UserInv /\ PatienceInv)
  <1>1. SessionInit => PatienceInv
    BY DEF SessionInit, NoCommand, PatienceInv
  <1>2. /\ ClusterInv /\ GoInv /\ UserInv /\ (ClusterInv /\ GoInv /\ UserInv)'
        /\ PatienceInv /\ [SessionNext]_allVars
        => PatienceInv'
    BY PatienceNext
  <1> QED
    BY <1>1, <1>2, UserInvariant, PTL DEF SessionSpec

\* A command that is given up had less time than its own wait for healthy and one for each
\* abandoned handler that was in flight before it: for any number of these, and any order
\* in which they take the lock, more time than that brings an answer.
THEOREM PatienceSufficesHolds == SessionSpec => PatienceSuffices
  <1>1. ASSUME ClusterInv, GoInv, UserInv, PatienceInv, GiveUp
        PROVE  user.timeout <= HealthyWait * (1 + user.behind)
    <2>1. user.remains = 0 /\ user.at = "waiting" /\ user.timeout # HTTP
      BY <1>1 DEF GiveUp
    <2>2. Cardinality(Tokens) \in Nat /\ user.timeout \in Nat
      BY <1>1, TokensFinite, UserNumbers DEF TokensInFlight
    <2>3. HealthyWait * (1 + user.behind) \in Nat
      BY <1>1, UserNumbers, TimesAssumption
    <2>4. Cardinality(Tokens) + user.timeout <= 0 + HealthyWait * (1 + user.behind)
      BY <1>1, <2>1 DEF PatienceInv
    <2> QED
      BY <2>2, <2>3, <2>4
  <1>2. ClusterInv /\ GoInv /\ UserInv /\ PatienceInv =>
          [GiveUp => user.timeout <= HealthyWait * (1 + user.behind)]_allVars
    BY <1>1
  <1> QED
    BY <1>2, PatienceInvariant, PTL DEF PatienceSuffices

-----------------------------------------------------------------------------
(* Patience keeps the server up.                                           *)

Seen == network # Nil /\ info[network].healthy

\* A patient user's handler is the only one.
Alone ==
    /\ user.at = "idle" => \A h \in Handlers : pc[h] = "idle"
    /\ user.at = "waiting" =>
         /\ user.timeout > HealthyWait /\ user.behind = 0
         /\ \A h \in Handlers \ {user.h} : pc[h] = "idle"

\* The user who has been shown Healthy is right, until a Stop of their own is about to be
\* answered with a ClusterInfo that is not.
Shown ==
    /\ user.at = "idle" => (saw => Seen)
    /\ user.at = "waiting" /\ pc[user.h] # "reply" => (saw => Seen)
    /\ user.at = "waiting" /\ pc[user.h] = "reply" =>
         IF user.req.op = "stop" THEN network = Nil /\ ~info[cap[user.h]].healthy
         ELSE network # Nil /\ cap[user.h] = network /\ (saw => Seen)

PatientInv == ~impatient => PoliteInv /\ Alone /\ Shown

LEMMA PatientInit == SessionInit => PatientInv
  <1> SUFFICES ASSUME SessionInit PROVE PatientInv
    OBVIOUS
  <1>1. user.at = "idle" /\ saw = FALSE /\ \A h \in Handlers : pc[h] = "idle"
    BY DEF SessionInit, Init, NoCommand
  <1> QED
    BY <1>1, PoliteInit DEF SessionInit, PatientInv, Alone, Shown

\* Such a user is never the one to give up.
LEMMA PatientStays ==
  ASSUME ClusterInv, GoInv, UserInv, PatienceInv, Alone PROVE ~GiveUp /\ ~HangUp
  <1>1. ~HangUp
    <2>1. ~(0 > HealthyWait)
      BY TimesAssumption
    <2> QED
      BY <2>1 DEF HangUp, Alone, HTTP
  <1>2. ~GiveUp
    <2> SUFFICES ASSUME GiveUp PROVE FALSE
      OBVIOUS
    <2>1. /\ user.remains = 0 /\ user.at = "waiting" /\ user.timeout # HTTP
          /\ user.timeout > HealthyWait /\ user.behind = 0
      BY DEF GiveUp, Alone
    <2>2. Cardinality(Tokens) \in Nat /\ user.timeout \in Nat /\ HealthyWait \in Nat
      BY TokensFinite, UserNumbers, TimesAssumption DEF TokensInFlight
    <2>3. Cardinality(Tokens) + user.timeout <= 0 + HealthyWait * (1 + 0)
      BY <2>1 DEF PatienceInv
    <2> QED
      BY <2>1, <2>2, <2>3
  <1> QED
    BY <1>1, <1>2

\* What such a user sends is polite, and nobody else sends anything.
LEMMA PatientSends ==
  ASSUME ClusterInv, UserInv, Alone, Shown, [SessionNext]_allVars, NEW h \in Handlers, Receive(h)
  PROVE  Politely(req'[h].op)
  <1>1. pc[h] = "idle" /\ pc'[h] = "check"
    BY DEF Receive, At, Goto, ClusterInv, LockInv, TypeOK
  <1>2. AnyInvoke
    <2>1. ASSUME NEW g \in Handlers, Answer(g) \/ Work(g) PROVE FALSE
      <3>1. HandlerStep(g) /\ pc[g] # "idle"
        BY <2>1, HandlerIsUp DEF Answer, Work
      <3> QED
        BY <1>1, <3>1, OthersStay
    <2>2. ASSUME Elsewhere \/ GiveUp \/ HangUp \/ Tick \/ UNCHANGED allVars PROVE FALSE
      BY <1>1, <2>2
      DEF Elsewhere, NetStep, WatchStep, WatchSelect, WatchGivesUp, WatchReady, WatchPublish,
          GiveUp, HangUp, Tick, allVars, vars, serverVars
    <2> QED
      BY <2>1, <2>2, SessionCases
  <1>3. PICK r : \E t \in Patience \cup {HTTP} : Invoke(r, t)
    BY <1>2 DEF AnyInvoke
  <1>4. PICK g \in Handlers : Receive(g) /\ req'[g] = r
    BY <1>3, InvokeFacts
  <1>5. g = h
    BY <1>1, <1>4, OthersStay
  <1>6. user.at = "idle" /\ (r.op \in {"start", "status", "uris"} \/ saw)
    BY <1>3, InvokeFacts DEF HasLooked
  <1>7. clusterInfo = network
    BY DEF ClusterInv, LockInv, SameCluster
  <1> QED
    BY <1>4, <1>5, <1>6, <1>7 DEF Alone, Shown, Seen, Politely

\* One step of the user's handler, up to its reply.
LEMMA ShownWork ==
  ASSUME ClusterInv, PoliteInv, UserInv, Shown, user.at = "waiting", UNCHANGED <<user, saw>>,
         HandlerStep(user.h), pc'[user.h] # "idle"
  PROVE  Shown'
  <1> DEFINE h == user.h
  <1>0. /\ h \in Handlers /\ user'.h = h /\ user'.at = "waiting"
        /\ pc \in [Handlers -> Pcs] /\ cap \in [Handlers -> Nets \cup {Nil}]
        /\ pc[h] = "reply" \/ (pc[h] \in ServedAt(user.req.op) /\ req[h] = user.req)
        /\ user.req.op \in AllOps
    BY OpsAssumption DEF UserInv, Serves, ClusterInv, LockInv, TypeOK, Requests
  <1>1. pc[h] # "reply"
    <2> SUFFICES ASSUME pc[h] = "reply" PROVE FALSE
      OBVIOUS
    <2>1. Replied(h)
      BY <1>0, PoliteHandlerCalm
      DEF HandlerStep, Check, StartCheck, StartRefused, StartNetwork, HealthWait, HealthFails,
          HealthDone, NodeNotFound, NodeOpFails, RemoveBegin, RemoveDelete, RemoveDone,
          RestartBegin, RestartRemoves, RestartAdds, RestartDone, StopBegin, StopNetwork,
          StopDone, At
    <2> QED
      BY <1>0, <2>1 DEF Replied, Finish, Goto
  <1>2. saw => Seen
    BY <1>0, <1>1 DEF Shown
  <1>3. CASE StartNetwork(h)
    <2>1. /\ network = Nil /\ network' \in Nets /\ cap' = [cap EXCEPT ![h] = network']
          /\ pc'[h] = "reply" /\ pc[h] = "start"
      BY <1>0, <1>3 DEF StartNetwork, StartAdmitted, ReturnInfo, Goto, At
    <2>2. cap'[h] = network' /\ network' # Nil /\ ~saw
      BY <1>0, <1>2, <2>1, PoliteFacts DEF Seen
    <2>3. user.req.op # "stop"
      BY <1>0, <2>1 DEF ServedAt
    <2> QED
      BY <1>0, <2>1, <2>2, <2>3 DEF Shown
  <1>4. CASE StopDone(h)
    <2>1. /\ network' = Nil /\ pc'[h] = "reply" /\ pc[h] = "stopwait"
          /\ cap' = [cap EXCEPT ![h] = cap[h]] /\ cap[h] \in Nets
          /\ info' = [info EXCEPT ![cap[h]] =
                [names |-> @.names, hasInfos |-> @.hasInfos, healthy |-> FALSE]]
      BY <1>0, <1>4
      DEF StopDone, StopReplies, ReturnInfo, Goto, At, ClusterInv, LockInv, InCriticalSection
    <2>2. cap'[h] = cap[h] /\ ~info'[cap[h]].healthy
      BY <1>0, <2>1, PoliteFacts
    <2>3. user.req.op = "stop"
      BY <1>0, <2>1 DEF ServedAt, AllOps
    <2> QED
      BY <1>0, <2>1, <2>2, <2>3 DEF Shown
  <1>5. CASE ~StartNetwork(h) /\ ~StopDone(h)
    <2>1. UNCHANGED network /\ \A n \in Nets : info'[n].healthy = info[n].healthy
      <3>1. CASE UNCHANGED <<network, info>>
        BY <3>1
      <3>2. CASE HealthDone(h) \/ RemoveDelete(h) \/ RestartDone(h)
        <4>1. UNCHANGED network
          BY <3>2 DEF HealthDone, RemoveDelete, RestartDone
        <4>2. PICK ns : info' = [info EXCEPT ![clusterInfo] =
                                   Showing(ns, info[clusterInfo].healthy)]
          BY <3>2 DEF HealthDone, RemoveDelete, RestartDone
        <4> QED
          BY <4>1, <4>2, PoliteFacts DEF Showing
      <3> QED
        BY <1>0, <1>5, <3>1, <3>2, PoliteHandlerCalm
        DEF HandlerStep, Replied, Check, StartCheck, StartRefused, HealthWait, HealthFails,
            NodeNotFound, NodeOpFails, RemoveBegin, RemoveDone,
            RestartBegin, RestartRemoves, RestartAdds, StopBegin, StopNetwork
    <2>2. (saw => Seen)'
      BY <1>2, <2>1, PoliteFacts DEF Seen
    <2>3. ASSUME pc'[h] = "reply"
          PROVE  network # Nil /\ cap'[h] = network /\ user.req.op # "stop"
      <3>1. /\ ReturnInfo(h, clusterInfo) /\ clusterInfo # Nil
            /\ \/ pc[h] = "check" /\ req[h].op \in {"status", "uris"}
               \/ pc[h] \in {"healthwait", "removewait", "restartwait"}
        <4>1. network # Nil \/ pc[h] \notin LockedPcs
          BY <1>0, PoliteFacts DEF ClusterInv, LockInv, InCriticalSection
        <4>2. req[h].op # "reply"
          BY OpsAssumption, <1>0 DEF ClusterInv, LockInv, TypeOK, AllOps
        <4>3. CASE Check(h) \/ HealthDone(h) \/ RemoveDone(h) \/ RestartDone(h)
          BY <1>0, <2>3, <4>1, <4>2, <4>3, PoliteFacts
          DEF Check, HealthDone, RemoveDone, RestartDone, Bootstrapped, Finish, Goto, At, LockedPcs
        <4> QED
          BY <1>0, <1>5, <2>3, <4>3, PoliteHandlerCalm
          DEF HandlerStep, Replied, StartCheck, StartRefused, HealthWait, HealthFails,
              NodeNotFound, NodeOpFails, RemoveBegin, RemoveDelete, RestartBegin,
              RestartRemoves, RestartAdds, StopBegin, StopNetwork, Goto, Finish
      <3>2. user.req.op # "stop"
        BY <1>0, <1>1, <3>1 DEF ServedAt, AllOps
      <3>3. cap'[h] = clusterInfo
        BY <1>0, <3>1 DEF ReturnInfo
      <3> QED
        BY <3>1, <3>2, <3>3, PoliteFacts
    <2> QED
      BY <1>0, <2>1, <2>2, <2>3 DEF Shown
  <1> QED
    BY <1>3, <1>4, <1>5

\* The watcher may publish Healthy, but not on what a Stop is about to reply with.
LEMMA ShownElsewhere ==
  ASSUME ClusterInv, PoliteInv, UserInv, Shown, Elsewhere PROVE Shown'
  <1>1. UNCHANGED <<user, saw, pc, cap>>
    BY DEF Elsewhere, NetStep, WatchStep, WatchSelect, WatchGivesUp, WatchReady, WatchPublish,
           sessionVars, serverVars
  <1>2. CASE UNCHANGED <<network, info>>
    BY <1>1, <1>2 DEF Shown, Seen
  <1>3. ASSUME NEW n \in Nets, WatchPublish(n) PROVE Shown'
    <2>1. WatchStep(n) /\ watch[n].at = "ready"
      BY <1>3 DEF WatchStep, WatchPublish, WatcherAt
    <2>2. network = n /\ UNCHANGED network /\ clusterInfo = n
      BY <2>1, PoliteWatchCalm, PoliteFacts DEF PoliteInv, WatchInv
    <2>3. info' = [info EXCEPT ![n] = Showing(nodeNames[n], TRUE)]
      BY <1>3, <2>2, PoliteFacts DEF WatchPublish, PublishedInfo
    <2>4. info'[n].healthy
      BY <2>3, PoliteFacts DEF Showing
    <2>5. network # Nil
      BY <2>2, PoliteFacts
    <2> QED
      BY <1>1, <2>2, <2>4, <2>5 DEF Shown, Seen
  <1>4. UNCHANGED <<network, info>> \/ \E n \in Nets : WatchPublish(n)
    BY PoliteWatchCalm
    DEF Elsewhere, NetStep, WatchStep, WatchSelect, WatchGivesUp, WatchReady, serverVars
  <1> QED
    BY <1>2, <1>3, <1>4

\* How an answer is read.
LEMMA ShownAnswer ==
  ASSUME ClusterInv, PoliteInv, UserInv, Shown, NEW h \in Handlers, Answer(h) PROVE Shown'
  <1>1. /\ user.at = "waiting" /\ user.h = h /\ HandlerStep(h) /\ pc'[h] = "idle"
        /\ user'.at = "idle"
        /\ saw' = IF pc[h] = "reply" /\ user.req.op # "uris" THEN info[cap[h]].healthy ELSE saw
    BY DEF Answer, Returns, NoCommand
  <1>2. UNCHANGED <<network, info>>
    <2>1. pc \in [Handlers -> Pcs] /\ (pc[h] = "check" => req[h].op # "idle")
      BY OpsAssumption DEF ClusterInv, LockInv, TypeOK, AllOps
    <2>2. \/ Replied(h) \/ StartRefused(h) \/ HealthFails(h) \/ NodeNotFound(h) \/ NodeOpFails(h)
          \/ Check(h) \/ StartCheck(h)
      BY <1>1, <2>1, PoliteHandlerCalm
      DEF HandlerStep, StartNetwork, HealthWait, HealthDone, RemoveBegin, RemoveDelete, RemoveDone,
          RestartBegin, RestartRemoves, RestartAdds, RestartDone, StopBegin, StopNetwork, StopDone,
          Goto, ReturnInfo
    <2> QED
      BY <2>2
      DEF Replied, StartRefused, HealthFails, NodeNotFound, NodeOpFails, Check, StartCheck
  <1>3. saw' => Seen
    BY <1>1 DEF Shown, Seen
  <1> QED
    BY <1>1, <1>2, <1>3 DEF Shown, Seen

LEMMA PatientNext ==
  ASSUME ClusterInv, GoInv, UserInv, PatienceInv, ClusterInv', UserInv', PatientInv,
         [SessionNext]_allVars
  PROVE  PatientInv'
  <1> SUFFICES ASSUME ~impatient' PROVE PoliteInv' /\ Alone' /\ Shown'
    BY DEF PatientInv
  <1>1. ~impatient /\ PoliteInv /\ Alone /\ Shown
    <2>1. impatient => impatient'
      BY SessionCases, InvokeFacts
      DEF AnyInvoke, Answer, Work, Elsewhere, GiveUp, HangUp, Tick, sessionVars, allVars
    <2> QED
      BY <2>1 DEF PatientInv
  <1>2. PoliteInv'
    BY <1>1, SessionSteps, PatientSends, PoliteStep
  <1>3. ASSUME NEW r, NEW t \in Patience \cup {HTTP}, Invoke(r, t) PROVE Alone' /\ Shown'
    <2>1. PICK h \in Handlers :
            /\ Receive(h) /\ pc'[h] = "check"
            /\ user' = [at |-> "waiting", h |-> h, req |-> r, timeout |-> t,
                        remains |-> t, behind |-> Cardinality(InFlight)]
      BY <1>3, InvokeFacts
    <2>2. /\ user.at = "idle" /\ UNCHANGED <<saw, network, info>>
          /\ impatient' = (impatient \/ t <= HealthyWait)
      BY <1>3, InvokeFacts
    <2>3. t > HealthyWait
      <3>1. t \in Nat /\ HealthyWait \in Nat
        BY TimesAssumption DEF HTTP
      <3>2. ~(t <= HealthyWait)
        BY <2>2
      <3> QED
        BY <3>1, <3>2
    <2>4. Cardinality(InFlight) = 0
      <3>1. InFlight = {}
        BY <1>1, <2>2 DEF Alone, InFlight
      <3> QED
        BY <3>1, FS_EmptySet
    <2>5. \A g \in Handlers \ {h} : pc'[g] = "idle"
      BY <1>1, <2>1, <2>2, OthersStay DEF Alone
    <2>6. saw => Seen
      BY <1>1, <2>2 DEF Shown
    <2>7. Alone'
      BY <2>1, <2>3, <2>4, <2>5 DEF Alone
    <2>8. Shown'
      BY <2>1, <2>2, <2>6 DEF Shown, Seen
    <2> QED
      BY <2>7, <2>8
  <1>4. ASSUME NEW h \in Handlers, Answer(h) PROVE Alone' /\ Shown'
    <2>1. /\ user.at = "waiting" /\ user.h = h /\ HandlerStep(h) /\ pc'[h] = "idle"
          /\ user'.at = "idle"
      BY <1>4 DEF Answer, Returns, NoCommand
    <2>2. \A g \in Handlers : pc'[g] = "idle"
      BY <1>1, <2>1, OthersStay DEF Alone
    <2> QED
      BY <1>1, <1>4, <2>1, <2>2, ShownAnswer DEF Alone
  <1>5. ASSUME NEW h \in Handlers, Work(h) PROVE Alone' /\ Shown'
    <2>1. HandlerStep(h) /\ UNCHANGED <<user, saw>> /\ pc[h] # "idle"
      BY <1>5, HandlerIsUp DEF Work, sessionVars
    <2>2. user.at = "waiting" /\ user.h = h
      BY <1>1, <2>1 DEF Alone, UserInv, UserType
    <2>3. pc'[h] # "idle"
      BY <1>5, <2>1, <2>2 DEF Work, Returns
    <2>4. \A g \in Handlers \ {h} : pc'[g] = "idle"
      BY <1>1, <2>1, <2>2, OthersStay DEF Alone
    <2> QED
      BY <1>1, <2>1, <2>2, <2>3, <2>4, ShownWork DEF Alone
  <1>6. CASE Elsewhere
    <2>1. UNCHANGED <<user, pc>>
      BY <1>6
      DEF Elsewhere, NetStep, WatchStep, WatchSelect, WatchGivesUp, WatchReady, WatchPublish,
          sessionVars, serverVars
    <2>2. Shown'
      BY <1>1, <1>6, ShownElsewhere
    <2>3. Alone'
      BY <1>1, <2>1 DEF Alone
    <2> QED
      BY <1>2, <2>2, <2>3
  <1>7. CASE Tick \/ UNCHANGED allVars
    <2>1. /\ UNCHANGED <<pc, cap, network, info, saw>>
          /\ user'.at = user.at /\ user'.h = user.h /\ user'.req = user.req
          /\ user'.timeout = user.timeout /\ user'.behind = user.behind
      BY <1>7 DEF Tick, allVars, vars, serverVars, sessionVars, UserInv, UserType
    <2>2. Alone'
      BY <1>1, <2>1 DEF Alone
    <2>3. Shown'
      BY <1>1, <2>1 DEF Shown, Seen
    <2> QED
      BY <1>2, <2>2, <2>3
  <1> QED
    BY <1>1, <1>2, <1>3, <1>4, <1>5, <1>6, <1>7, SessionCases, PatientStays DEF AnyInvoke

\* A user with timeouts of more than two minutes, who looks before acting, is one that
\* PoliteInv is about, although the server has no idea of it: whatever they send, in
\* whatever order, and however the commands end, no panic is reached.
THEOREM PatientNeverPanicsHolds == SessionSpec => []PatientNeverPanics
  <1>1. /\ ClusterInv /\ GoInv /\ UserInv /\ PatienceInv /\ (ClusterInv /\ GoInv /\ UserInv)'
        /\ PatientInv /\ [SessionNext]_allVars
        => PatientInv'
    BY PatientNext
  <1>2. PatientInv => PatientNeverPanics
    BY DEF PatientInv, PoliteInv, PatientNeverPanics
  <1> QED
    BY <1>1, <1>2, PatienceInvariant, PatientInit, PTL DEF SessionSpec

-----------------------------------------------------------------------------
(* What an answer is worth.                                                *)

\* An answer is about the network that is there.
Truth(r) == Holds(r) /\ (r.op \in {"remove", "restart"} => network \in Nets)

\* A user with nothing abandoned in flight is alone, and is told the truth.
AnswerInv ==
    /\ user.at = "waiting" /\ user.behind = 0 =>
         /\ \A h \in Handlers \ {user.h} : pc[h] = "idle"
         /\ pc[user.h] = "reply" => Truth(user.req)
    /\ user.at = "idle" /\ last.res = "ok" /\ last.behind = 0 =>
         Truth(last.req) /\ \A h \in Handlers : pc[h] = "idle"

LEMMA AnswerInit == SessionInit => AnswerInv
  BY DEF SessionInit, NoCommand, Ended, AnswerInv

\* What the truth depends on.
LEMMA TruthStays ==
  ASSUME NEW r, Truth(r), UNCHANGED <<network, clusterInfo, node, nodeInfos>> PROVE Truth(r)'
  BY DEF Truth, Holds, Listed, Running

\* Only a network that is still to be launched changes its processes of its own accord.
LEMMA ElsewhereKeeps ==
  ASSUME ClusterInv, Elsewhere
  PROVE  /\ UNCHANGED <<network, clusterInfo>>
         /\ \A n \in Nets : Listed(n)' = Listed(n)
         /\ \/ UNCHANGED node
            \/ /\ network \in Nets /\ Running(network) = {}
               /\ starter[network] = "launching"
  <1>1. UNCHANGED <<network, clusterInfo>>
    BY DEF Elsewhere, NetStep, WatchStep, WatchSelect, WatchGivesUp, WatchReady, WatchPublish,
           serverVars
  <1>2. CASE \E n \in Nets : WatchStep(n)
    BY <1>1, <1>2
    DEF WatchStep, WatchSelect, WatchGivesUp, WatchReady, WatchPublish, netVars, Listed
  <1>3. ASSUME NEW n \in Nets, Launch(n)
        PROVE  /\ network \in Nets /\ Running(network) = {} /\ starter[network] = "launching"
               /\ UNCHANGED nodeInfos
    BY <1>3 DEF Launch, StarterAt, ClusterInv, StarterInv
  <1>4. ASSUME NEW n \in Nets, LaunchFails(n) \/ StarterReturns(n)
        PROVE  UNCHANGED <<node, nodeInfos>>
    BY <1>4 DEF LaunchFails, StarterReturns
  <1>5. ASSUME NEW t \in Threads, UNCHANGED serverVars,
               \/ WaitAborted(t) \/ WaitFails(t) \/ NodesReported(t)
               \/ UpdateNodeInfos(t) \/ UpdatePanics(t)
        PROVE  UNCHANGED node /\ \A n \in Nets : Listed(n)' = Listed(n)
    BY <1>5, WaitUnseen DEF Unseen, UpdatePanics, netVars, Listed
  <1> QED
    BY <1>1, <1>2, <1>3, <1>4, <1>5 DEF Elsewhere, NetStep, Listed

LEMMA TruthElsewhere ==
  ASSUME ClusterInv, ClusterInv', Elsewhere, NEW r, Truth(r) PROVE Truth(r)'
  <1>1. /\ UNCHANGED <<network, clusterInfo>>
        /\ \A n \in Nets : Listed(n)' = Listed(n)
        /\ \/ UNCHANGED node
           \/ /\ network \in Nets /\ Running(network) = {}
              /\ starter[network] = "launching"
    BY ElsewhereKeeps
  <1>2. CASE r.op = "remove"
    <2>1. network \in Nets /\ r.name \notin Listed(network)
      BY <1>2 DEF Truth, Holds
    <2>2. PICK n \in Nets : n = network
      BY <2>1
    <2>3. (Running(n) \subseteq Listed(n))' /\ n = network' /\ Listed(n)' = Listed(n)
      BY <1>1, <2>2 DEF ClusterInv, NoUnlistedProcess
    <2>4. (r.name \notin Listed(network) \cup Running(network))'
      BY <2>1, <2>2, <2>3
    <2> QED
      BY <1>1, <1>2, <2>1, <2>4 DEF Truth, Holds
  <1>3. CASE r.op = "restart"
    <2>1. /\ network \in Nets /\ r.name \in Listed(network) \cap Running(network)
          /\ node[network][r.name].exec = r.exec
      BY <1>3 DEF Truth, Holds
    <2>2. UNCHANGED node
      BY <1>1, <2>1
    <2>3. r.name \in Listed(network)'
      <3>1. PICK n \in Nets : n = network
        BY <2>1
      <3>2. Listed(n)' = Listed(n) /\ n = network'
        BY <1>1, <3>1
      <3> QED
        BY <2>1, <3>1, <3>2
    <2> QED
      BY <1>1, <1>3, <2>1, <2>2, <2>3 DEF Truth, Holds, Running
  <1>4. CASE r.op = "stop"
    <2>1. network = Nil /\ (~NwStopMayFail => \A n \in Nets : Running(n) = {})
      BY <1>4 DEF Truth, Holds
    <2>2. UNCHANGED node
      BY <1>1, <2>1, Facts
    <2> QED
      BY <1>1, <1>4, <2>1, <2>2 DEF Truth, Holds, Running
  <1>5. CASE r.op \notin {"remove", "restart", "stop"}
    BY <1>1, <1>5 DEF Truth, Holds
  <1> QED
    BY <1>2, <1>3, <1>4, <1>5

\* Every handler that comes to its reply has done what it was asked for.
LEMMA TruthReached ==
  ASSUME ClusterInv, ClusterInv', RestartInv, RemovedInv,
         NEW h \in Handlers, NEW r \in Requests,
         HandlerStep(h), pc[h] \in ServedAt(r.op), req[h] = r, pc'[h] = "reply"
  PROVE  Truth(r)'
  <1>0. /\ pc \in [Handlers -> Pcs] /\ r.op \in AllOps
        /\ network \in Nets \cup {Nil} /\ Nil \notin Nets /\ clusterInfo = network
    BY OpsAssumption, Facts DEF ClusterInv, LockInv, TypeOK, Requests
  <1>1. CASE Check(h)
    <2>1. /\ r.op \in {"status", "uris"} /\ clusterInfo # Nil /\ UNCHANGED clusterInfo
      BY <1>0, <1>1 DEF Check, Bootstrapped, Finish, Goto, AllOps
    <2> QED
      BY <2>1 DEF Truth, Holds
  <1>2. CASE StartNetwork(h)
    <2>1. pc[h] = "start" /\ network' \in Nets
      BY <1>2 DEF StartNetwork, At
    <2>2. r.op = "start"
      BY <1>0, <2>1 DEF ServedAt, AllOps
    <2> QED
      BY <1>0, <2>1, <2>2 DEF Truth, Holds
  <1>3. CASE HealthDone(h)
    <2>1. pc[h] = "healthwait" /\ clusterInfo # Nil /\ UNCHANGED clusterInfo
      BY <1>0, <1>3 DEF HealthDone, At
    <2>2. r.op = "health"
      BY <1>0, <2>1 DEF ServedAt, AllOps
    <2> QED
      BY <2>1, <2>2 DEF Truth, Holds
  <1>4. CASE RemoveDone(h)
    <2>1. pc[h] = "removewait" /\ UNCHANGED <<network, clusterInfo, node, nodeInfos>>
      BY <1>4 DEF RemoveDone, At, UnchangedLib
    <2>2. r.op = "remove"
      BY <1>0, <2>1 DEF ServedAt, AllOps
    <2>3. network \in Nets /\ r.name \notin Listed(network)
      BY <2>1 DEF RemovedInv, ClusterInv, LockInv, InCriticalSection, LockedPcs
    <2>4. r.name \notin Running(network)
      BY <2>3 DEF ClusterInv, NoUnlistedProcess
    <2>5. Truth(r)
      BY <2>2, <2>3, <2>4 DEF Truth, Holds
    <2> QED
      BY <2>1, <2>5, TruthStays
  <1>5. CASE RestartDone(h)
    <2>1. pc[h] = "restartwait" /\ UNCHANGED <<network, clusterInfo, node, nodeInfos>>
      BY <1>5 DEF RestartDone, At
    <2>2. r.op = "restart"
      BY <1>0, <2>1 DEF ServedAt, AllOps
    <2>3. network \in Nets /\ r.name \in Listed(network)
      BY <2>1
      DEF ClusterInv, HolderInv, HolderOK, NodeOpPcs, LockInv, InCriticalSection, LockedPcs
    <2>4. node[network][r.name].up /\ node[network][r.name].exec = r.exec
      BY <2>1 DEF RestartInv, RestartOK
    <2>5. Truth(r)
      BY <2>2, <2>3, <2>4 DEF Truth, Holds, Listed, Running
    <2> QED
      BY <2>1, <2>5, TruthStays
  <1>6. CASE StopDone(h)
    <2>1. pc[h] = "stopwait" /\ network' = Nil
      BY <1>6 DEF StopDone, At
    <2>2. r.op = "stop"
      BY <1>0, <2>1 DEF ServedAt, AllOps
    <2>3. ~NwStopMayFail => \A n \in Nets : Running(n)' = {}
      BY <1>0, <2>1 DEF ClusterInv, OneCluster, StarterInv
    <2> QED
      BY <2>1, <2>2, <2>3 DEF Truth, Holds
  <1>7. pc[h] # "reply"
    BY <1>0 DEF ServedAt, AllOps
  <1>8. CASE HealthPanics(h) \/ NodeOpPanics(h) \/ DeletePanics(h) \/ StopPanics(h)
    BY <1>7, <1>8, PanicsEnd DEF Ends, serverVars
  <1> QED
    BY <1>0, <1>1, <1>2, <1>3, <1>4, <1>5, <1>6, <1>7, <1>8
    DEF HandlerStep, Replied, StartCheck, StartRefused, HealthWait, HealthFails, NodeNotFound,
        NodeOpFails, RemoveBegin, RemoveDelete, RestartBegin, RestartRemoves, RestartAdds,
        StopBegin, StopNetwork, Goto, Finish

\* From its reply, a handler only ends.
LEMMA ReplyEnds ==
  ASSUME ClusterInv, NEW h \in Handlers, HandlerStep(h), pc[h] = "reply"
  PROVE  pc'[h] = "idle" /\ UNCHANGED <<network, clusterInfo, node, nodeInfos>>
  <1>1. Replied(h)
    BY DEF HandlerStep, Check, StartCheck, StartRefused, StartNetwork, HealthWait, HealthPanics,
           HealthFails, HealthDone, NodeOpPanics, NodeNotFound, NodeOpFails, RemoveBegin,
           DeletePanics, RemoveDelete, RemoveDone, RestartBegin, RestartRemoves, RestartAdds,
           RestartDone, StopBegin, StopPanics, StopNetwork, StopDone, At
  <1> QED
    BY <1>1 DEF Replied, Finish, Goto, UnchangedLib, ClusterInv, LockInv, TypeOK

LEMMA AnswerNext ==
  ASSUME ClusterInv, ClusterInv', UserInv, RestartInv, RemovedInv, AnswerInv,
         [SessionNext]_allVars
  PROVE  AnswerInv'
  <1>1. ASSUME NEW r, NEW t \in Patience \cup {HTTP}, Invoke(r, t) PROVE AnswerInv'
    <2>1. PICK h \in Handlers :
            /\ Receive(h) /\ pc'[h] = "check"
            /\ user' = [at |-> "waiting", h |-> h, req |-> r, timeout |-> t,
                        remains |-> t, behind |-> Cardinality(InFlight)]
      BY <1>1, InvokeFacts
    <2>2. ASSUME Cardinality(InFlight) = 0, NEW g \in Handlers \ {h} PROVE pc'[g] = "idle"
      <3>1. pc[g] = "idle"
        BY <2>2, FS_EmptySet DEF UserInv, InFlight
      <3> QED
        BY <2>1, <3>1, OthersStay
    <2> QED
      BY <2>1, <2>2 DEF AnswerInv
  <1>2. ASSUME NEW h \in Handlers, Answer(h) PROVE AnswerInv'
    <2>1. /\ user.at = "waiting" /\ user.h = h /\ HandlerStep(h) /\ pc'[h] = "idle"
          /\ user'.at = "idle"
          /\ last' = [req |-> user.req, behind |-> user.behind,
                      res |-> IF pc[h] = "reply" THEN "ok" ELSE "error"]
      BY <1>2 DEF Answer, Returns, NoCommand, Ended
    <2>2. ASSUME last'.res = "ok", last'.behind = 0
          PROVE  Truth(last.req)' /\ \A g \in Handlers : pc'[g] = "idle"
      <3>1. pc[h] = "reply" /\ user.behind = 0 /\ last'.req = user.req
        BY <2>1, <2>2
      <3>2. Truth(user.req) /\ \A g \in Handlers \ {h} : pc[g] = "idle"
        BY <2>1, <3>1 DEF AnswerInv
      <3>3. PICK r : r = user.req
        OBVIOUS
      <3>4. Truth(r)'
        BY <2>1, <3>1, <3>2, <3>3, ReplyEnds, TruthStays
      <3>5. Truth(last.req)'
        BY <3>1, <3>3, <3>4 DEF Truth, Holds
      <3> QED
        BY <2>1, <3>2, <3>5, OthersStay
    <2> QED
      BY <2>1, <2>2 DEF AnswerInv
  <1>3. ASSUME NEW h \in Handlers, Work(h) PROVE AnswerInv'
    <2>1. HandlerStep(h) /\ UNCHANGED <<user, last>> /\ pc[h] # "idle"
      BY <1>3, HandlerIsUp DEF Work, sessionVars
    <2>2. CASE user.at = "waiting" /\ user.behind = 0
      <3>1. h = user.h /\ \A g \in Handlers \ {h} : pc[g] = "idle"
        BY <2>1, <2>2 DEF AnswerInv
      <3>2. pc'[h] # "idle"
        BY <1>3, <2>1, <2>2, <3>1 DEF Work, Returns
      <3>3. \A g \in Handlers \ {h} : pc'[g] = "idle"
        BY <2>1, <3>1, OthersStay
      <3>4. PICK r \in Requests : r = user.req
        BY <2>2 DEF UserInv
      <3>5. pc'[h] = "reply" => Truth(r)'
        <4>1. pc[h] \in ServedAt(r.op) /\ req[h] = r
          BY <2>1, <2>2, <3>1, <3>2, <3>4, ReplyEnds DEF UserInv, Serves
        <4> QED
          BY <2>1, <4>1, TruthReached
      <3>6. pc'[h] = "reply" => Truth(user.req)'
        BY <2>1, <3>4, <3>5 DEF Truth, Holds
      <3> QED
        BY <2>1, <2>2, <3>1, <3>3, <3>6 DEF AnswerInv
    <2>3. CASE user.at = "idle"
      BY <2>1, <2>3 DEF AnswerInv
    <2> QED
      BY <2>1, <2>2, <2>3 DEF AnswerInv, UserInv, UserType
  <1>4. CASE Elsewhere
    <2>1. UNCHANGED <<user, last, pc>>
      BY <1>4
      DEF Elsewhere, NetStep, WatchStep, WatchSelect, WatchGivesUp, WatchReady, WatchPublish,
          sessionVars, serverVars
    <2>2. \A r : Truth(r) => Truth(r)'
      BY <1>4, TruthElsewhere
    <2>3. PICK r, q : r = user.req /\ q = last.req
      OBVIOUS
    <2>4. (Truth(user.req) => Truth(user.req)') /\ (Truth(last.req) => Truth(last.req)')
      BY <2>1, <2>2, <2>3 DEF Truth, Holds
    <2> QED
      BY <2>1, <2>4 DEF AnswerInv
  <1>5. CASE GiveUp \/ HangUp
    <2>1. user' = NoCommand /\ last' = Ended("given up")
      BY <1>5 DEF GiveUp, HangUp
    <2>2. user'.at = "idle"
      BY <2>1 DEF NoCommand
    <2>3. last'.res = "given up"
      BY <2>1 DEF Ended
    <2> QED
      BY <2>2, <2>3 DEF AnswerInv
  <1>6. CASE Tick \/ UNCHANGED allVars
    <2>1. /\ UNCHANGED <<pc, network, clusterInfo, node, nodeInfos, last>>
          /\ user'.at = user.at /\ user'.h = user.h /\ user'.req = user.req
          /\ user'.behind = user.behind
      BY <1>6 DEF Tick, allVars, vars, netVars, serverVars, sessionVars, UserInv, UserType
    <2>2. \A r : Truth(r) => Truth(r)'
      BY <2>1, TruthStays
    <2>3. PICK r, q : r = user.req /\ q = last.req
      OBVIOUS
    <2>4. (Truth(user.req) => Truth(user.req)') /\ (Truth(last.req) => Truth(last.req)')
      BY <2>1, <2>2, <2>3 DEF Truth, Holds
    <2> QED
      BY <2>1, <2>4 DEF AnswerInv
  <1> QED
    BY <1>1, <1>2, <1>3, <1>4, <1>5, <1>6, SessionCases DEF AnyInvoke

\* What a user who has abandoned nothing is told without an error is so, and stays so
\* until they ask for something else: start() and waitForHealthy, which go on after the
\* answer, do not undo it.
THEOREM AnswerHoldsAlways == SessionSpec => []AnswerHolds
  <1>1. /\ (ClusterInv /\ GoInv /\ UserInv) /\ (ClusterInv /\ GoInv /\ UserInv)'
        /\ RestartInv /\ RemovedInv /\ AnswerInv /\ [SessionNext]_allVars
        => (RestartInv /\ RemovedInv /\ AnswerInv)'
    BY AnswerNext, RestartNext, RemovedNext, SessionSteps
  <1>2. SessionInit => RestartInv /\ RemovedInv /\ AnswerInv
    BY RestartInit, RemovedInit, AnswerInit DEF SessionInit
  <1>3. AnswerInv => AnswerHolds
    BY DEF AnswerInv, AnswerHolds, Truth
  <1> QED
    BY <1>1, <1>2, <1>3, UserInvariant, PTL DEF SessionSpec

=============================================================================
