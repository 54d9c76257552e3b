------------------------- MODULE StatusStream_proofs -------------------------
(***************************************************************************)
(* StatusStream without fairness: its safety properties from one inductive *)
(* invariant, for every capacity of the wire, every set of consumers, of   *)
(* intervals and of cluster events.                                        *)
(***************************************************************************)
EXTENDS StatusStream, TLAPS

Shown == Infos \ {"nil"}

\* sendLoop lives between the admission of the stream and the handler's return, and
\* nothing is on its way before the handler has been admitted.
StreamInv ==
    /\ sender \in {"select", "read", "send"} => handler \in {"select", "wait"}
    /\ handler \in {"none", "open"} =>
         wire = <<>> /\ ch = <<>> /\ sender = "none" /\ receiver # "push"
    /\ handler = "none" => receiver = "none"
    /\ consumer = "call" => receiver = "none" /\ (Up => handler = "none")

\* As long as no Stop came in, a pointer that was read is the current one, and no nil
\* is anywhere between sendLoop and the consumer.
NilInv ==
    ~stopped /\ handler \notin {"none", "open"} =>
      /\ handler \in {"select", "wait"} => cluster # "nil"
      /\ sender = "send" => have = "current"
      /\ wire \in Seq(Shown)
      /\ receiver = "push" => hand \in Shown
      /\ ch \in Seq(Shown)

SInv == TypeOK /\ StreamInv /\ NilInv

LEMMA SInit == Init => SInv
  <1> SUFFICES ASSUME Init PROVE SInv
    OBVIOUS
  <1>1. TypeOK
    <2>1. {rootDone, cut, closed, exited, crashed, stopped, sctx, cctx, cclosed, shown, signaled}
             \subseteq BOOLEAN
      BY DEF Init, Life!Init
    <2>2. wire \in Seq(Infos) /\ ch \in Seq(Infos)
      BY DEF Init
    <2> QED
      BY <2>1, <2>2 DEF Init, TypeOK, Infos
  <1>2. StreamInv /\ NilInv
    BY DEF Init, StreamInv, NilInv
  <1> QED
    BY <1>1, <1>2 DEF SInv

\* The process and its goroutines are gone, whatever they were doing.
LEMMA GoneInv ==
  ASSUME SInv, Gone, UNCHANGED <<stopped, interval, wire, cctx, cclosed, receiver, hand, ch,
                                 userVars>>,
         {rootDone', cut', closed', exited', crashed'} \subseteq BOOLEAN, ~Up'
  PROVE  SInv'
  <1>1. TypeOK'
    BY DEF SInv, TypeOK, Gone, userVars, Infos
  <1>2. StreamInv'
    BY DEF SInv, TypeOK, StreamInv, Up, Gone, userVars
  <1>3. NilInv'
    <2>1. <<>> \in Seq(Shown)
      OBVIOUS
    <2> QED
      BY <2>1 DEF SInv, TypeOK, StreamInv, Up, NilInv, Gone, userVars
  <1> QED
    BY <1>1, <1>2, <1>3 DEF SInv

LEMMA LifeTyped ==
  ASSUME TypeOK, Life!Next PROVE {rootDone', cut', closed', exited'} \subseteq BOOLEAN
  BY DEF TypeOK, Life!Next, Life!RootCancel, Life!Cut, Life!Close, Life!Exit

LEMMA AroundInv ==
  ASSUME SInv,
         \/ LifeStep \/ ResetPanics \/ SendRaces
         \/ ClusterChanges \/ ClusterStops \/ StreamContextDone
  PROVE  SInv'
  <1>1. CASE LifeStep
    <2>1. {rootDone', cut', closed', exited', crashed'} \subseteq BOOLEAN
      BY <1>1, LifeTyped DEF LifeStep, SInv, TypeOK
    <2>2. CASE exited'
      BY <1>1, <2>1, <2>2, GoneInv DEF LifeStep, Up
    <2>3. CASE ~exited'
      <3>1. TypeOK'
        BY <1>1, <2>1, <2>3 DEF LifeStep, SInv, TypeOK, loopVars, userVars
      <3>2. ~exited
        BY <1>1, <2>3 DEF LifeStep, Life!Next, Life!RootCancel, Life!Cut, Life!Close, Life!Exit
      <3>3. StreamInv' /\ NilInv'
        BY <1>1, <2>3, <3>2 DEF LifeStep, SInv, StreamInv, Up, NilInv, loopVars, userVars
      <3> QED
        BY <3>1, <3>3 DEF SInv
    <2> QED
      BY <2>2, <2>3
  <1>2. CASE ResetPanics \/ SendRaces
    <2>1. Crash
      BY <1>2 DEF ResetPanics, SendRaces
    <2>2. {rootDone', cut', closed', exited', crashed'} \subseteq BOOLEAN /\ ~Up'
      BY <2>1 DEF Crash, SInv, TypeOK, Up
    <2> QED
      BY <2>1, <2>2, GoneInv DEF Crash
  <1>3. CASE ClusterChanges
    BY <1>3 DEF ClusterChanges, SInv, TypeOK, StreamInv, Up, NilInv, lifeVars, loopVars, userVars,
                Infos
  <1>4. CASE ClusterStops
    BY <1>4 DEF ClusterStops, SInv, TypeOK, StreamInv, Up, NilInv, lifeVars, userVars, Infos
  <1>5. CASE StreamContextDone
    BY <1>5 DEF StreamContextDone, SInv, TypeOK, StreamInv, Up, NilInv, lifeVars, clusterVars,
                userVars
  <1> QED
    BY <1>1, <1>2, <1>3, <1>4, <1>5

LEMMA HandlerInv ==
  ASSUME SInv, HandlerStep PROVE SInv'
  <1>1. CASE HandlerBegins
    <2>1. /\ handler = "open" /\ wire = <<>> /\ ch = <<>> /\ sender = "none" /\ receiver # "push"
          /\ UNCHANGED <<rootDone, cut, closed, exited, crashed, cluster, interval, have, rerr,
                         errc, sctx, wire, cctx, cclosed, receiver, hand, ch, kind, consumer,
                         shown, signaled, watcher>>
      BY <1>1 DEF HandlerBegins, SInv, StreamInv, lifeVars, userVars
    <2>2. \/ /\ handler' = "select" /\ sender' = "select" /\ recver' = "recv" /\ ~stopped'
             /\ herr' = herr /\ cluster # "nil"
          \/ handler' = "returned" /\ herr' = "error" /\ UNCHANGED <<sender, recver, stopped>>
      BY <1>1 DEF HandlerBegins, Bootstrapped
    <2>3. TypeOK'
      <3>1. /\ stopped' \in BOOLEAN
            /\ handler' \in {"select", "returned"} /\ sender' \in {"none", "select"}
            /\ recver' \in {"none", "recv", "report", "done"} /\ herr' \in {"nil", "error"}
        <4>1. /\ stopped \in BOOLEAN /\ recver \in {"none", "recv", "report", "done"}
              /\ herr \in {"nil", "error"}
          BY DEF SInv, TypeOK
        <4>2. stopped' = FALSE \/ stopped' = stopped
          BY <1>1 DEF HandlerBegins
        <4> QED
          BY <2>1, <2>2, <4>1, <4>2
      <3> QED
        BY <2>1, <3>1 DEF SInv, TypeOK
    <2>4. StreamInv'
      BY <1>1, <2>1, <2>2 DEF SInv, StreamInv, Up, HandlerBegins
    <2>5. NilInv'
      <3>1. <<>> \in Seq(Shown)
        OBVIOUS
      <3> QED
        BY <2>1, <2>2, <3>1 DEF NilInv
    <2> QED
      BY <2>3, <2>4, <2>5 DEF SInv
  <1>2. CASE HandlerSelects
    BY <1>2 DEF HandlerSelects, SInv, TypeOK, StreamInv, Up, NilInv, lifeVars, clusterVars, userVars
  <1>3. CASE HandlerReturns
    BY <1>3 DEF HandlerReturns, SenderAwaited, SInv, TypeOK, StreamInv, Up, NilInv, lifeVars,
                clusterVars, userVars
  <1> QED
    BY <1>1, <1>2, <1>3 DEF HandlerStep

LEMMA SendInv ==
  ASSUME SInv, SendStep PROVE SInv'
  <1>1. CASE SendLoopEnds
    BY <1>1 DEF SendLoopEnds, SInv, TypeOK, StreamInv, Up, NilInv, lifeVars, clusterVars, userVars
  <1>2. CASE SendLoopTicks
    BY <1>2 DEF SendLoopTicks, SInv, TypeOK, StreamInv, Up, NilInv, lifeVars, clusterVars, userVars
  <1>3. CASE SendLoopReads
    BY <1>3 DEF SendLoopReads, SInv, TypeOK, StreamInv, Up, NilInv, lifeVars, clusterVars, userVars
  <1>4. CASE SendLoopSends
    <2>1. Marshalled \in Infos /\ wire \in Seq(Infos) /\ handler \in {"select", "wait"}
      BY <1>4 DEF SendLoopSends, SInv, TypeOK, StreamInv, Marshalled, Infos
    <2>2. wire' \in Seq(Infos)
      BY <1>4, <2>1 DEF SendLoopSends
    <2>3. ~stopped => wire' \in Seq(Shown)
      <3> SUFFICES ASSUME ~stopped PROVE wire' \in Seq(Shown)
        OBVIOUS
      <3>1. Marshalled \in Shown /\ wire \in Seq(Shown)
        BY <1>4, <2>1 DEF SendLoopSends, SInv, NilInv, Marshalled, Shown, TypeOK
      <3> QED
        BY <1>4, <3>1 DEF SendLoopSends
    <2> QED
      BY <1>4, <2>1, <2>2, <2>3
      DEF SendLoopSends, AfterSend, SInv, TypeOK, StreamInv, Up, NilInv, lifeVars, clusterVars,
          userVars
  <1>5. CASE SendFails
    BY <1>5 DEF SendFails, SInv, TypeOK, StreamInv, Up, NilInv, lifeVars, clusterVars, userVars
  <1> QED
    BY <1>1, <1>2, <1>3, <1>4, <1>5 DEF SendStep

LEMMA RecvInv ==
  ASSUME SInv, RecvStep PROVE SInv'
  <1>1. CASE RecvLoopEnds
    BY <1>1 DEF RecvLoopEnds, SInv, TypeOK, StreamInv, Up, NilInv, lifeVars, clusterVars, userVars
  <1>2. CASE RecvLoopReports
    BY <1>2 DEF RecvLoopReports, SInv, TypeOK, StreamInv, Up, NilInv, lifeVars, clusterVars,
                userVars
  <1> QED
    BY <1>1, <1>2 DEF RecvStep

LEMMA ReceiverInv ==
  ASSUME SInv, ReceiverStep PROVE SInv'
  <1>1. CASE ReceiverReceives
    <2>1. /\ Head(wire) \in Infos /\ Tail(wire) \in Seq(Infos)
          /\ handler \notin {"none", "open"}
      BY <1>1 DEF ReceiverReceives, SInv, TypeOK, StreamInv
    <2>2. ~stopped => Head(wire) \in Shown /\ Tail(wire) \in Seq(Shown)
      BY <1>1, <2>1 DEF ReceiverReceives, SInv, NilInv
    <2> QED
      BY <1>1, <2>1, <2>2
      DEF ReceiverReceives, SInv, TypeOK, StreamInv, Up, NilInv, lifeVars, clusterVars, loopVars,
          userVars
  <1>2. CASE ReceiverEnds
    <2>1. TypeOK'
      BY <1>2 DEF ReceiverEnds, SInv, TypeOK, lifeVars, clusterVars, loopVars, userVars
    <2>2. StreamInv'
      BY <1>2 DEF ReceiverEnds, SInv, TypeOK, StreamInv, Up, lifeVars, clusterVars, loopVars,
                  userVars
    <2>3. NilInv'
      BY <1>2 DEF ReceiverEnds, SInv, NilInv, lifeVars, clusterVars, loopVars, userVars
    <2> QED
      BY <2>1, <2>2, <2>3 DEF SInv
  <1>3. CASE ReceiverPushes
    <2>1. <<hand>> \in Seq(Infos) /\ handler \notin {"none", "open"}
      BY <1>3 DEF ReceiverPushes, SInv, TypeOK, StreamInv
    <2>2. ~stopped => <<hand>> \in Seq(Shown)
      BY <1>3, <2>1 DEF ReceiverPushes, SInv, NilInv
    <2> QED
      BY <1>3, <2>1, <2>2
      DEF ReceiverPushes, SInv, TypeOK, StreamInv, Up, NilInv, lifeVars, clusterVars, loopVars,
          userVars, Infos
  <1> QED
    BY <1>1, <1>2, <1>3 DEF ReceiverStep

LEMMA ConsumerInv ==
  ASSUME SInv, ConsumerStep PROVE SInv'
  <1>1. CASE Opens
    BY <1>1 DEF Opens, Connected, SInv, TypeOK, StreamInv, Up, NilInv, lifeVars, clusterVars
  <1>2. CASE OpenFails
    BY <1>2 DEF OpenFails, SInv, TypeOK, StreamInv, Up, NilInv, lifeVars, clusterVars, loopVars
  <1>3. CASE ConsumerTakes
    <2>1. Tail(ch) \in Seq(Infos) /\ handler \notin {"none", "open"}
      BY <1>3 DEF ConsumerTakes, SInv, TypeOK, StreamInv
    <2>2. ~stopped => Tail(ch) \in Seq(Shown)
      BY <1>3, <2>1 DEF ConsumerTakes, SInv, NilInv
    <2>3. consumer' \in {"range", "cancel"} /\ {cclosed', shown'} \subseteq BOOLEAN
      BY <1>3 DEF ConsumerTakes, AfterInfo, SInv, TypeOK
    <2> QED
      BY <1>3, <2>1, <2>2, <2>3
      DEF ConsumerTakes, SInv, TypeOK, StreamInv, Up, NilInv, lifeVars, clusterVars, loopVars
  <1>4. CASE LoopEnds
    BY <1>4 DEF LoopEnds, SInv, TypeOK, StreamInv, Up, NilInv, lifeVars, clusterVars, loopVars
  <1>5. CASE Cancels
    <2>1. TypeOK'
      <3>1. {cctx', shown'} \subseteq BOOLEAN /\ consumer' \in {"join", "over"}
        BY <1>5 DEF Cancels, CancelCalled
      <3> QED
        BY <1>5, <3>1 DEF Cancels, SInv, TypeOK, lifeVars, clusterVars, loopVars
    <2>2. StreamInv'
      BY <1>5 DEF Cancels, CancelCalled, SInv, TypeOK, StreamInv, Up, lifeVars, clusterVars,
                  loopVars
    <2>3. NilInv'
      BY <1>5 DEF Cancels, CancelCalled, SInv, NilInv, lifeVars, clusterVars, loopVars
    <2> QED
      BY <2>1, <2>2, <2>3 DEF SInv
  <1>6. CASE Closes
    BY <1>6 DEF Closes, SInv, TypeOK, StreamInv, Up, NilInv, lifeVars, clusterVars, loopVars
  <1> QED
    BY <1>1, <1>2, <1>3, <1>4, <1>5, <1>6 DEF ConsumerStep

LEMMA SNext == SInv /\ [Next]_vars => SInv'
  <1> SUFFICES ASSUME SInv, [Next]_vars PROVE SInv'
    OBVIOUS
  <1>1. CASE WatcherEnds \/ Signal \/ Timeout
    <2>1. TypeOK'
      BY <1>1 DEF WatcherEnds, Signal, Timeout, SInv, TypeOK, lifeVars, clusterVars, loopVars,
                  userVars
    <2>2. StreamInv' /\ NilInv'
      BY <1>1 DEF WatcherEnds, Signal, Timeout, SInv, StreamInv, Up, NilInv, lifeVars,
                  clusterVars, loopVars, userVars
    <2> QED
      BY <2>1, <2>2 DEF SInv
  <1>2. CASE UNCHANGED vars
    BY <1>2 DEF vars, SInv, TypeOK, StreamInv, Up, NilInv, lifeVars, clusterVars, loopVars,
                userVars
  <1> QED
    BY <1>1, <1>2, AroundInv, HandlerInv, SendInv, RecvInv, ReceiverInv, ConsumerInv DEF Next

THEOREM StreamInvariant == Spec => []SInv
  BY SInit, SNext, PTL DEF Spec

-----------------------------------------------------------------------------

\* Every variable of the two ends of the stream keeps its type.
THEOREM StreamTypeCorrect == Spec => []TypeOK
  BY StreamInvariant, PTL DEF SInv

\* sendLoop never calls Send on a stream whose handler has returned, whichever of
\* errc, the context and the end of the process ended it.
THEOREM StreamNoSendAfterReturn == Spec => []NoSendAfterReturn
  <1>1. SInv => NoSendAfterReturn
    BY DEF SInv, TypeOK, StreamInv, NoSendAfterReturn
  <1> QED
    BY <1>1, StreamInvariant, PTL

\* A nil ClusterInfo reaches the consumer only if a Stop succeeded after the stream
\* was admitted, however many pushes are on their way.
THEOREM StreamNilOnlyAfterStop == Spec => []NilOnlyAfterStop
  <1>1. SInv => NilOnlyAfterStop
    BY DEF SInv, TypeOK, StreamInv, Up, NilInv, NilOnlyAfterStop, Shown
  <1> QED
    BY <1>1, StreamInvariant, PTL

=============================================================================
