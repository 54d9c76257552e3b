------------------------------ MODULE ServerRun ------------------------------
(***************************************************************************)
(* The life of the server process: serverFunc of                           *)
(* cmd/avalanche-network-runner/server and Run of server/server.go, with   *)
(* the goroutines that serve gRPC and the HTTP gateway. Each of the three  *)
(* result channels (gRPCErrc, gwErrc, main's errc) is unbuffered, so a     *)
(* send and its receive are one step of two goroutines.                    *)
(*                                                                         *)
(* External, as far as Run relies on them: Serve returns an error when     *)
(* accepting fails or when Stop came before it, nil when Stop ends it;     *)
(* ListenAndServe returns an error always, at once after Close; a blocking *)
(* dial needs a gRPC server that accepts, or else ends with its timeout or *)
(* with rootCtx.                                                           *)
(***************************************************************************)

VARIABLES
    main,      \* program counter of serverFunc
    rootDone,  \* rootCtx is cancelled
    run,       \* program counter of Run
    err,       \* what Run is to return
    grpc,      \* the goroutine of gRPCServer.Serve
    cut,       \* gRPCServer.Stop was called
    gw,        \* the goroutine of the gateway
    gwClosed,  \* gwServer.Close was called
    sends,     \* the error each of the two has for Run
    closed,    \* s.closed is closed
    signaled,  \* SIGINT or SIGTERM has arrived
    result     \* what serverFunc returned

vars == <<main, rootDone, run, err, grpc, cut, gw, gwClosed, sends, closed,
          signaled, result>>

serving == <<grpc, cut, gw, gwClosed, sends>>

Errors == {"nil", "error"}
Up == main # "exited"

Init ==
    /\ main = "select"
    /\ rootDone = FALSE
    /\ run = "select"
    /\ err = "nil"
    /\ grpc = "starting"
    /\ cut = FALSE
    /\ gw = "dialing"
    /\ gwClosed = FALSE
    /\ sends = [grpc |-> "nil", gw |-> "nil"]
    /\ closed = FALSE
    /\ signaled = FALSE
    /\ result = "nil"

-----------------------------------------------------------------------------
(* The two serving goroutines.                                             *)

\* Serve(ln): begin to accept, unless Stop was first.
GRPCServes ==
    /\ Up
    /\ grpc = "starting"
    /\ grpc' = IF cut THEN "sending" ELSE "serving"
    /\ sends' = [sends EXCEPT !.grpc = IF cut THEN "error" ELSE "nil"]
    /\ UNCHANGED <<main, rootDone, run, err, cut, gw, gwClosed, closed, signaled, result>>

GRPCFails ==
    /\ Up
    /\ grpc = "serving"
    /\ ~cut
    /\ grpc' = "sending"
    /\ sends' = [sends EXCEPT !.grpc = "error"]
    /\ UNCHANGED <<main, rootDone, run, err, cut, gw, gwClosed, closed, signaled, result>>

GRPCStopped ==
    /\ Up
    /\ grpc = "serving"
    /\ cut
    /\ grpc' = "sending"
    /\ UNCHANGED <<main, rootDone, run, err, cut, gw, gwClosed, sends, closed, signaled, result>>

\* The dial finds the gRPC server; both services are registered with the mux.
Dialed ==
    /\ Up
    /\ gw = "dialing"
    /\ grpc = "serving"
    /\ gw' = "listening"
    /\ UNCHANGED <<main, rootDone, run, err, grpc, cut, gwClosed, sends, closed, signaled, result>>

\* gwErrc <- err: the dial gave up, or ListenAndServe returned.
GatewayFails ==
    /\ Up
    /\ gw \in {"dialing", "listening", "serving"}
    /\ gw' = "sending"
    /\ sends' = [sends EXCEPT !.gw = "error"]
    /\ UNCHANGED <<main, rootDone, run, err, grpc, cut, gwClosed, closed, signaled, result>>

GatewayServes ==
    /\ Up
    /\ gw = "listening"
    /\ ~gwClosed
    /\ gw' = "serving"
    /\ UNCHANGED <<main, rootDone, run, err, grpc, cut, gwClosed, sends, closed, signaled, result>>

-----------------------------------------------------------------------------
(* Run                                                                     *)

\* case <-rootCtx.Done()
RootDone ==
    /\ Up
    /\ run = "select"
    /\ rootDone
    /\ run' = "close gateway"
    /\ UNCHANGED <<main, rootDone, err, serving, closed, signaled, result>>

\* case err = <-gRPCErrc
RunErr_Shadowed(e) == err   \* mutant: case err := <-gRPCErrc
RunErr(e) == e

GRPCFailed ==
    /\ Up
    /\ run = "select"
    /\ grpc = "sending"
    /\ grpc' = "over"
    /\ err' = RunErr(sends.grpc)
    /\ run' = "close gateway"
    /\ UNCHANGED <<main, rootDone, cut, gw, gwClosed, sends, closed, signaled, result>>

\* case err = <-gwErrc
GatewayFailed ==
    /\ Up
    /\ run = "select"
    /\ gw = "sending"
    /\ gw' = "over"
    /\ err' = sends.gw
    /\ run' = "stop gRPC"
    /\ UNCHANGED <<main, rootDone, grpc, cut, gwClosed, sends, closed, signaled, result>>

\* gwServer.Close(), then <-gwErrc. Whatever took the select, gRPC is the next
\* to be ended, unless its goroutine was the one that failed.
GatewayCloses_NotCalled == gwClosed   \* mutant: no gwServer.Close()
GatewayCloses == TRUE

CloseGateway ==
    /\ Up
    /\ run = "close gateway"
    /\ gwClosed' = GatewayCloses
    /\ run' = "await gateway"
    /\ UNCHANGED <<main, rootDone, err, grpc, cut, gw, sends, closed, signaled, result>>

\* Mutant: the end of the gRPC server is shared by all three cases.
AfterGateway_Shared == "stop gRPC"
AfterGateway == IF grpc = "over" THEN "close" ELSE "stop gRPC"

GatewayCollected ==
    /\ Up
    /\ run = "await gateway"
    /\ gw = "sending"
    /\ gw' = "over"
    /\ run' = AfterGateway
    /\ UNCHANGED <<main, rootDone, err, grpc, cut, gwClosed, sends, closed, signaled, result>>

\* gRPCServer.Stop(), then <-gRPCErrc
AfterStop_NoWait == "close"   \* mutant: no <-gRPCErrc
AfterStop == "await gRPC"

StopGRPC ==
    /\ Up
    /\ run = "stop gRPC"
    /\ cut' = TRUE
    /\ run' = AfterStop
    /\ UNCHANGED <<main, rootDone, err, grpc, gw, gwClosed, sends, closed, signaled, result>>

GRPCCollected ==
    /\ Up
    /\ run = "await gRPC"
    /\ grpc = "sending"
    /\ grpc' = "over"
    /\ run' = "close"
    /\ UNCHANGED <<main, rootDone, err, cut, gw, gwClosed, sends, closed, signaled, result>>

CloseClosed ==
    /\ Up
    /\ run = "close"
    /\ closed' = TRUE
    /\ run' = "return"
    /\ UNCHANGED <<main, rootDone, err, serving, signaled, result>>

-----------------------------------------------------------------------------
(* serverFunc, once New has succeeded and signal.Notify is in place.       *)

Signal ==
    /\ Up
    /\ ~signaled
    /\ signaled' = TRUE
    /\ UNCHANGED <<main, rootDone, run, err, serving, closed, result>>

\* case sig := <-sigc
SignalReceived ==
    /\ main = "select"
    /\ signaled
    /\ rootDone' = TRUE
    /\ main' = "await Run"
    /\ UNCHANGED <<run, err, serving, closed, signaled, result>>

\* Its <-errc is only logged.
RunCollected ==
    /\ main = "await Run"
    /\ run = "return"
    /\ main' = "returning"
    /\ run' = "returned"
    /\ UNCHANGED <<rootDone, err, serving, closed, signaled, result>>

\* case err = <-errc
RootCancelled_Forgotten == rootDone   \* mutant: no rootCancel()
RootCancelled == TRUE

RunFailed ==
    /\ main = "select"
    /\ run = "return"
    /\ result' = err
    /\ rootDone' = RootCancelled
    /\ main' = "returning"
    /\ run' = "returned"
    /\ UNCHANGED <<err, serving, closed, signaled>>

Return ==
    /\ main = "returning"
    /\ main' = "exited"
    /\ UNCHANGED <<rootDone, run, err, serving, closed, signaled, result>>

-----------------------------------------------------------------------------

GRPCStep == GRPCServes \/ GRPCStopped

\* The gateway's own: it dials until it is connected or times out, and notices
\* that it was closed. Without a Close it may serve for ever.
GatewayStep ==
    \/ Dialed
    \/ GatewayServes
    \/ (gw = "dialing" \/ gwClosed) /\ GatewayFails

RunStep ==
    \/ RootDone \/ GRPCFailed \/ GatewayFailed
    \/ CloseGateway \/ GatewayCollected
    \/ StopGRPC \/ GRPCCollected
    \/ CloseClosed

MainStep == SignalReceived \/ RunCollected \/ RunFailed \/ Return

\* After main has returned there is no process.
Exited == ~Up /\ UNCHANGED vars

Next ==
    \/ GRPCStep \/ GRPCFails
    \/ Dialed \/ GatewayServes \/ GatewayFails
    \/ RunStep
    \/ Signal
    \/ MainStep
    \/ Exited

Spec == Init /\ [][Next]_vars

\* Go runs every goroutine that can run; the dial has a timeout. That a server
\* fails or a signal arrives is never assumed.
Fairness ==
    /\ WF_vars(GRPCStep)
    /\ WF_vars(GatewayStep)
    /\ WF_vars(RunStep)
    /\ WF_vars(MainStep)

FairSpec == Spec /\ Fairness

-----------------------------------------------------------------------------
(* Properties.                                                             *)

TypeOK ==
    /\ main \in {"select", "await Run", "returning", "exited"}
    /\ run \in {"select", "close gateway", "await gateway", "stop gRPC", "await gRPC",
                "close", "return", "returned"}
    /\ grpc \in {"starting", "serving", "sending", "over"}
    /\ gw \in {"dialing", "listening", "serving", "sending", "over"}
    /\ sends \in [grpc: Errors, gw: Errors]
    /\ {rootDone, cut, gwClosed, closed, signaled} \subseteq BOOLEAN
    /\ {err, result} \subseteq Errors

\* Run never waits for an error that it already has, which would be for ever: the
\* three cases of its select leave different goroutines to collect.
AwaitsTheLiving ==
    /\ run = "await gateway" => gw # "over"
    /\ run = "await gRPC" => grpc # "over"

\* s.closed tells handlers that nobody serves any more: by then both goroutines
\* have handed over their error, so neither is left blocked on its channel and
\* neither port is still listened on, whichever case Run's select took.
ClosedAfterServers == closed => grpc = "over" /\ gw = "over"

\* The command ends without an error only because of a signal: whatever fails
\* first, and whatever the clean-up then collects, the failure is what it returns.
FailureIsReported == main = "exited" /\ result = "nil" => signaled

\* A signal, or the end of either server at any moment (before the other has
\* begun to serve as well), ends the process: Run never waits for a server that
\* nobody told to stop.
ServerEnds ==
    (signaled \/ grpc = "sending" \/ gw = "sending") ~> main = "exited"

\* The four events handlers and goroutines can notice come in the promised order.
Life == INSTANCE ServerLife WITH exited <- main = "exited"

ImplementsLife == Life!FairSpec

=============================================================================
