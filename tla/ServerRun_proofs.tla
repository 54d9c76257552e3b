-------------------------- MODULE ServerRun_proofs --------------------------
(***************************************************************************)
(* ServerRun without fairness: its safety properties, from one inductive   *)
(* invariant that says at each point of Run which of the two serving       *)
(* goroutines has handed over its error, and that it implements ServerLife.*)
(***************************************************************************)
EXTENDS ServerRun, TLAPS

\* How far Run has got, by the goroutines it has collected.
CollectInv ==
    /\ run = "select" => grpc # "over" /\ gw # "over"
    /\ run \in {"close gateway", "await gateway"} => gw # "over"
    /\ run \in {"stop gRPC", "await gRPC"} => gw = "over" /\ grpc # "over"
    /\ run \in {"close", "return", "returned"} => gw = "over" /\ grpc = "over"
    /\ closed <=> run \in {"return", "returned"}
    /\ cut => run \in {"await gRPC", "close", "return", "returned"}

\* Whose error Run and serverFunc return, and when a cancelled rootCtx explains nil.
ReportInv ==
    /\ gw = "sending" => sends.gw = "error"
    /\ grpc = "sending" /\ ~cut => sends.grpc = "error"
    /\ run # "select" /\ err = "nil" => rootDone
    /\ main = "select" => ~rootDone /\ run # "returned"
    /\ main = "await Run" => signaled /\ rootDone /\ run # "returned"
    /\ main \in {"returning", "exited"} => rootDone /\ run = "returned"
    /\ main \in {"returning", "exited"} /\ result = "nil" => signaled

RunInv == TypeOK /\ CollectInv /\ ReportInv

LEMMA RunInit == Init => RunInv
  <1> SUFFICES ASSUME Init PROVE RunInv
    OBVIOUS
  <1>1. TypeOK
    BY DEF Init, TypeOK, Errors
  <1>2. CollectInv
    BY DEF Init, CollectInv
  <1>3. ReportInv
    BY DEF Init, ReportInv
  <1> QED
    BY <1>1, <1>2, <1>3 DEF RunInv

LEMMA ServingStep ==
  ASSUME RunInv,
         GRPCServes \/ GRPCFails \/ GRPCStopped \/ Dialed \/ GatewayFails \/ GatewayServes
  PROVE  RunInv'
  <1>1. CASE GRPCServes
    BY <1>1 DEF RunInv, TypeOK, CollectInv, ReportInv, Errors, GRPCServes
  <1>2. CASE GRPCFails
    BY <1>2 DEF RunInv, TypeOK, CollectInv, ReportInv, Errors, GRPCFails
  <1>3. CASE GRPCStopped
    BY <1>3 DEF RunInv, TypeOK, CollectInv, ReportInv, Errors, GRPCStopped
  <1>4. CASE Dialed
    BY <1>4 DEF RunInv, TypeOK, CollectInv, ReportInv, Errors, Dialed
  <1>5. CASE GatewayFails
    BY <1>5 DEF RunInv, TypeOK, CollectInv, ReportInv, Errors, GatewayFails
  <1>6. CASE GatewayServes
    BY <1>6 DEF RunInv, TypeOK, CollectInv, ReportInv, Errors, GatewayServes
  <1> QED
    BY <1>1, <1>2, <1>3, <1>4, <1>5, <1>6

LEMMA RunStepInv ==
  ASSUME RunInv, RunStep PROVE RunInv'
  <1>1. CASE RootDone
    BY <1>1 DEF RunInv, TypeOK, CollectInv, ReportInv, Errors, RootDone, serving
  <1>2. CASE GRPCFailed
    BY <1>2 DEF RunInv, TypeOK, CollectInv, ReportInv, Errors, GRPCFailed, RunErr
  <1>3. CASE GatewayFailed
    BY <1>3 DEF RunInv, TypeOK, CollectInv, ReportInv, Errors, GatewayFailed
  <1>4. CASE CloseGateway
    BY <1>4 DEF RunInv, TypeOK, CollectInv, ReportInv, Errors, CloseGateway, GatewayCloses
  <1>5. CASE GatewayCollected
    BY <1>5 DEF RunInv, TypeOK, CollectInv, ReportInv, Errors, GatewayCollected, AfterGateway
  <1>6. CASE StopGRPC
    BY <1>6 DEF RunInv, TypeOK, CollectInv, ReportInv, Errors, StopGRPC, AfterStop
  <1>7. CASE GRPCCollected
    BY <1>7 DEF RunInv, TypeOK, CollectInv, ReportInv, Errors, GRPCCollected
  <1>8. CASE CloseClosed
    BY <1>8 DEF RunInv, TypeOK, CollectInv, ReportInv, Errors, CloseClosed, serving
  <1> QED
    BY <1>1, <1>2, <1>3, <1>4, <1>5, <1>6, <1>7, <1>8 DEF RunStep

LEMMA MainStepInv ==
  ASSUME RunInv, Signal \/ MainStep PROVE RunInv'
  <1>1. CASE Signal
    BY <1>1 DEF RunInv, TypeOK, CollectInv, ReportInv, Errors, Signal, serving
  <1>2. CASE SignalReceived
    BY <1>2 DEF RunInv, TypeOK, CollectInv, ReportInv, Errors, SignalReceived, serving
  <1>3. CASE RunCollected
    BY <1>3 DEF RunInv, TypeOK, CollectInv, ReportInv, Errors, RunCollected, serving
  <1>4. CASE RunFailed
    BY <1>4 DEF RunInv, TypeOK, CollectInv, ReportInv, Errors, RunFailed, RootCancelled, serving
  <1>5. CASE Return
    BY <1>5 DEF RunInv, TypeOK, CollectInv, ReportInv, Errors, Return, serving
  <1> QED
    BY <1>1, <1>2, <1>3, <1>4, <1>5 DEF MainStep

LEMMA RunNext == RunInv /\ [Next]_vars => RunInv'
  <1> SUFFICES ASSUME RunInv, [Next]_vars PROVE RunInv'
    OBVIOUS
  <1>1. CASE UNCHANGED vars
    BY <1>1 DEF vars, RunInv, TypeOK, CollectInv, ReportInv
  <1> QED
    BY <1>1, ServingStep, RunStepInv, MainStepInv DEF Next, GRPCStep, Exited

THEOREM RunInvariant == Spec => []RunInv
  BY RunInit, RunNext, PTL DEF Spec

-----------------------------------------------------------------------------

\* Every variable of the command and of Run keeps its type.
THEOREM RunTypeCorrect == Spec => []TypeOK
  BY RunInvariant, PTL DEF RunInv

\* Run waits only for an error that it has not received yet, whichever case its
\* select took: none of its clean-ups can block for ever on an empty channel.
THEOREM RunAwaitsTheLiving == Spec => []AwaitsTheLiving
  <1>1. RunInv => AwaitsTheLiving
    BY DEF RunInv, CollectInv, AwaitsTheLiving
  <1> QED
    BY <1>1, RunInvariant, PTL

\* When s.closed is closed neither serving goroutine is running any more, and none
\* is blocked on its unbuffered channel.
THEOREM RunClosedAfterServers == Spec => []ClosedAfterServers
  <1>1. RunInv => ClosedAfterServers
    BY DEF RunInv, TypeOK, CollectInv, ClosedAfterServers
  <1> QED
    BY <1>1, RunInvariant, PTL

\* Without a signal the command does not return nil.
THEOREM RunReportsFailure == Spec => []FailureIsReported
  <1>1. RunInv => FailureIsReported
    BY DEF RunInv, ReportInv, FailureIsReported
  <1> QED
    BY <1>1, RunInvariant, PTL

-----------------------------------------------------------------------------
(* The refinement.                                                         *)

LEMMA LifeInit == Init => Life!Init
  BY DEF Init, Life!Init

LEMMA LifeNext == RunInv /\ [Next]_vars => [Life!Next]_(Life!lifeVars)
  <1> SUFFICES ASSUME RunInv, Next PROVE Life!Next \/ UNCHANGED Life!lifeVars
    BY DEF vars, Life!lifeVars
  <1>1. CASE GRPCServes \/ GRPCFails \/ GRPCStopped \/ Dialed \/ GatewayFails \/ GatewayServes
    BY <1>1 DEF GRPCServes, GRPCFails, GRPCStopped, Dialed, GatewayFails, GatewayServes,
                Life!lifeVars
  <1>2. CASE RootDone \/ GRPCFailed \/ GatewayFailed \/ CloseGateway \/ GatewayCollected
             \/ GRPCCollected
    BY <1>2 DEF RootDone, GRPCFailed, GatewayFailed, CloseGateway, GatewayCollected,
                GRPCCollected, serving, Life!lifeVars
  <1>3. CASE StopGRPC
    <2>1. Life!Cut
      BY <1>3 DEF StopGRPC, RunInv, TypeOK, CollectInv, Life!Cut
    <2> QED
      BY <2>1 DEF Life!Next
  <1>4. CASE CloseClosed
    <2>1. Life!Close
      BY <1>4 DEF CloseClosed, serving, RunInv, TypeOK, CollectInv, Life!Close
    <2> QED
      BY <2>1 DEF Life!Next
  <1>5. CASE Signal \/ RunCollected
    BY <1>5 DEF Signal, RunCollected, serving, Up, RunInv, ReportInv, Life!lifeVars
  <1>6. CASE SignalReceived \/ RunFailed
    <2>1. Life!RootCancel
      BY <1>6 DEF SignalReceived, RunFailed, RootCancelled, serving, RunInv, TypeOK, ReportInv,
                  Life!RootCancel
    <2> QED
      BY <2>1 DEF Life!Next
  <1>7. CASE Return
    <2>1. Life!Exit
      BY <1>7 DEF Return, serving, RunInv, TypeOK, CollectInv, ReportInv, Life!Exit
    <2> QED
      BY <2>1 DEF Life!Next
  <1>8. CASE Exited
    BY <1>8 DEF Exited, vars, Life!lifeVars
  <1> QED
    BY <1>1, <1>2, <1>3, <1>4, <1>5, <1>6, <1>7, <1>8
    DEF Next, GRPCStep, RunStep, MainStep

\* The connections are cut before s.closed is closed, and main leaves after both and
\* with rootCtx cancelled: what StatusStream assumes of its server.
THEOREM LifeImplemented == Spec => Life!Spec
  BY LifeInit, LifeNext, RunInvariant, PTL DEF Spec, Life!Spec

=============================================================================
