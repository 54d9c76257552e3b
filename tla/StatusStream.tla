---------------------------- MODULE StatusStream ----------------------------
(***************************************************************************)
(* One status stream, end to end. Server: StreamStatus of server/server.go *)
(* with its goroutines sendLoop and recvLoop. Client: StreamStatus of      *)
(* client/client.go with its receive goroutine, and what ranges over the   *)
(* channel: streamStatusFunc of control.go ("cli"), or the end-to-end test *)
(* ("test"). The server around it is ServerLife; Start, the watcher and    *)
(* Stop, of ControlServer, are seen here only in s.clusterInfo.            *)
(***************************************************************************)
EXTENDS Naturals, Sequences

CONSTANTS
    WireCap,    \* pushes that fit between Send and RecvMsg (flow control)
    Kinds,      \* the consumers there may be
    Intervals,  \* push intervals a client asks for: "positive", or "bad" (<= 0)
    Events      \* what happens to the cluster: "stop", and "remove" of a node

ASSUME StreamAssumption ==
    /\ WireCap \in Nat \ {0}
    /\ Kinds \subseteq {"cli", "test"}
    /\ Intervals \subseteq {"positive", "bad"}
    /\ Events \subseteq {"stop", "remove"}

VARIABLES
    rootDone, cut, closed, exited,   \* ServerLife
    crashed,    \* a goroutine panicked, which ends the process
    cluster,    \* s.clusterInfo: nil, or not yet, or already, Healthy
    stopped,    \* has a Stop succeeded since the stream was admitted?
    interval,
    handler,    \* program counter of the server's StreamStatus
    herr,       \* what it is to return
    sender,     \* of its sendLoop goroutine
    have,       \* the *ClusterInfo sendLoop has read
    recver,     \* of its recvLoop goroutine
    rerr,       \* what recvLoop returned
    errc,       \* the channel between the two, of one slot
    sctx,       \* stream.Context() is done, on the server
    wire,       \* pushes sent and not yet received
    cctx,       \* the client's context is done
    cclosed,    \* client.Close was called, or the client's process is gone
    receiver,   \* program counter of the client's receive goroutine
    hand,       \* the message it holds
    ch,         \* its channel, of one slot, closed when it is done
    kind,
    consumer,   \* program counter of who ranges over ch
    shown,      \* was the last ClusterInfo it looked at Healthy?
    signaled,   \* SIGINT or SIGTERM has arrived at the command
    watcher     \* the goroutine that waits for it

lifeVars == <<rootDone, cut, closed, exited, crashed>>
clusterVars == <<cluster, stopped>>
loopVars == <<handler, herr, sender, have, recver, rerr, errc, sctx>>
userVars == <<kind, consumer, shown, signaled, watcher>>
vars == <<lifeVars, clusterVars, interval, loopVars, wire, cctx, cclosed,
          receiver, hand, ch, userVars>>

Infos == {"nil", "starting", "healthy"}

Life == INSTANCE ServerLife

Up == ~exited /\ ~crashed

Init ==
    /\ Life!Init
    /\ crashed = FALSE
    /\ cluster \in Infos
    /\ stopped = FALSE
    /\ interval \in Intervals
    /\ handler = "none"
    /\ herr = "nil"
    /\ sender = "none"
    /\ have = "nil"
    /\ recver = "none"
    /\ rerr = "nil"
    /\ errc = "empty"
    /\ sctx = FALSE
    /\ wire = <<>>
    /\ cctx = FALSE
    /\ cclosed = FALSE
    /\ receiver = "none"
    /\ hand = "nil"
    /\ ch = <<>>
    /\ kind \in Kinds
    /\ consumer = "call"
    /\ shown = FALSE
    /\ signaled = FALSE
    /\ watcher = IF kind = "cli" THEN "select" ELSE "done"

-----------------------------------------------------------------------------
(* Around the stream.                                                      *)

\* The goroutines of the server go with their process.
Gone ==
    /\ cluster' = "nil"
    /\ handler' = "returned"
    /\ sender' = "done"
    /\ recver' = "done"
    /\ sctx' = TRUE
    /\ have' = "nil"
    /\ herr' = "error"
    /\ rerr' = "nil"
    /\ errc' = "empty"

LifeStep ==
    /\ ~crashed
    /\ Life!Next
    /\ IF exited' THEN Gone ELSE UNCHANGED <<cluster, loopVars>>
    /\ UNCHANGED <<crashed, stopped, interval, wire, cctx, cclosed, receiver, hand, ch,
                   userVars>>

Crash ==
    /\ crashed' = TRUE
    /\ Gone
    /\ UNCHANGED <<rootDone, cut, closed, exited, stopped, interval, wire, cctx, cclosed,
                   receiver, hand, ch, userVars>>

\* Start, or the watcher, or Stop, which forgets the object sendLoop may hold.
ClusterChanges ==
    /\ Up
    /\ cluster' = CASE cluster = "nil" -> "starting"
                    [] cluster = "starting" -> "healthy"
                    [] OTHER -> "healthy"
    /\ cluster' # cluster
    /\ UNCHANGED <<lifeVars, stopped, interval, loopVars, wire, cctx, cclosed,
                   receiver, hand, ch, userVars>>

ClusterStops ==
    /\ Up
    /\ "stop" \in Events
    /\ cluster # "nil"
    /\ cluster' = "nil"
    /\ stopped' = TRUE
    /\ have' = IF have = "current" THEN "old" ELSE have
    /\ UNCHANGED <<lifeVars, interval, handler, herr, sender, recver, rerr, errc, sctx,
                   wire, cctx, cclosed, receiver, hand, ch, userVars>>

\* The server's side of the stream learns that the client cancelled or is gone, or
\* that the connection was cut.
StreamContextDone ==
    /\ Up
    /\ handler # "none"
    /\ ~sctx
    /\ cctx \/ cclosed \/ cut
    /\ sctx' = TRUE
    /\ UNCHANGED <<lifeVars, clusterVars, interval, handler, herr, sender, have, recver,
                   rerr, errc, wire, cctx, cclosed, receiver, hand, ch, userVars>>

-----------------------------------------------------------------------------
(* The server: StreamStatus                                                *)

Bootstrapped_Unchecked == TRUE   \* mutant: no ErrNotBootstrapped
Bootstrapped == cluster # "nil"

HandlerBegins ==
    /\ Up
    /\ handler = "open"
    /\ IF Bootstrapped
         THEN /\ handler' = "select"
              /\ sender' = "select"
              /\ recver' = "recv"
              /\ stopped' = FALSE
              /\ herr' = herr
         ELSE /\ handler' = "returned"
              /\ herr' = "error"
              /\ UNCHANGED <<sender, recver, stopped>>
    /\ UNCHANGED <<lifeVars, cluster, interval, have, rerr, errc, sctx, wire, cctx,
                   cclosed, receiver, hand, ch, userVars>>

\* case err = <-errc, or case <-stream.Context().Done()
HandlerSelects ==
    /\ Up
    /\ handler = "select"
    /\ \/ /\ errc # "empty"
          /\ herr' = errc
          /\ errc' = "empty"
       \/ /\ sctx
          /\ herr' = "error"
          /\ errc' = errc
    /\ handler' = "wait"
    /\ UNCHANGED <<lifeVars, clusterVars, interval, sender, have, recver, rerr, sctx,
                   wire, cctx, cclosed, receiver, hand, ch, userVars>>

\* wg.Wait(), and gRPC ends the stream and its context.
SenderAwaited_Not == TRUE   \* mutant: no wg.Wait()
SenderAwaited == sender = "done"

HandlerReturns ==
    /\ Up
    /\ handler = "wait"
    /\ SenderAwaited
    /\ handler' = "returned"
    /\ sctx' = TRUE
    /\ UNCHANGED <<lifeVars, clusterVars, interval, herr, sender, have, recver, rerr,
                   errc, wire, cctx, cclosed, receiver, hand, ch, userVars>>

-----------------------------------------------------------------------------
(* The server: sendLoop and recvLoop                                       *)

SendLoopEnds ==
    /\ Up
    /\ sender = "select"
    /\ rootDone \/ closed
    /\ sender' = "done"
    /\ UNCHANGED <<lifeVars, clusterVars, interval, handler, herr, have, recver, rerr,
                   errc, sctx, wire, cctx, cclosed, receiver, hand, ch, userVars>>

\* The ticker fires. Reset panics on an interval that is not positive.
SendLoopTicks ==
    /\ Up
    /\ sender = "select"
    /\ interval = "positive"
    /\ sender' = "read"
    /\ UNCHANGED <<lifeVars, clusterVars, interval, handler, herr, have, recver, rerr,
                   errc, sctx, wire, cctx, cclosed, receiver, hand, ch, userVars>>

ResetPanics ==
    /\ Up
    /\ sender = "select"
    /\ interval = "bad"
    /\ Crash

\* s.getClusterInfo(): the pointer, under RLock.
SendLoopReads ==
    /\ Up
    /\ sender = "read"
    /\ have' = IF cluster = "nil" THEN "nil" ELSE "current"
    /\ sender' = "send"
    /\ UNCHANGED <<lifeVars, clusterVars, interval, handler, herr, recver, rerr, errc,
                   sctx, wire, cctx, cclosed, receiver, hand, ch, userVars>>

\* stream.Send marshals what the pointer shows by now, without s.mu; Stop has
\* marked an old one unhealthy. It blocks while the wire is full.
Marshalled == CASE have = "nil" -> "nil"
                [] have = "old" -> "starting"
                [] OTHER -> cluster

AfterSend_Once == "done"   \* mutant: return whatever Send returned
AfterSend == "select"

SendLoopSends ==
    /\ Up
    /\ sender = "send"
    /\ ~sctx
    /\ Len(wire) < WireCap
    /\ wire' = Append(wire, Marshalled)
    /\ sender' = AfterSend
    /\ have' = "nil"
    /\ UNCHANGED <<lifeVars, clusterVars, interval, handler, herr, recver, rerr, errc,
                   sctx, cctx, cclosed, receiver, hand, ch, userVars>>

SendFails ==
    /\ Up
    /\ sender = "send"
    /\ sctx
    /\ sender' = "done"
    /\ have' = "nil"
    /\ UNCHANGED <<lifeVars, clusterVars, interval, handler, herr, recver, rerr, errc,
                   sctx, wire, cctx, cclosed, receiver, hand, ch, userVars>>

\* A RemoveNode deletes from the map that Send is marshalling: "concurrent map
\* iteration and map write". (Unnoticed, it is the step above.)
SendRaces ==
    /\ Up
    /\ "remove" \in Events
    /\ sender = "send"
    /\ have = "current"
    /\ cluster = "healthy"
    /\ Crash

\* The checks at the top of its loop and RecvMsg. The stub half-closed the stream
\* after its one request, so what RecvMsg returns is io.EOF, or that ctx is done.
RecvLoopEnds ==
    /\ Up
    /\ recver = "recv"
    /\ \/ rerr' = "nil" /\ ~(rootDone \/ closed)
       \/ rerr' = "error" /\ (rootDone \/ closed \/ sctx)
    /\ recver' = "report"
    /\ UNCHANGED <<lifeVars, clusterVars, interval, handler, herr, sender, have, errc,
                   sctx, wire, cctx, cclosed, receiver, hand, ch, userVars>>

\* errc <- rerr
ErrcTakes_Unbuffered == handler = "select"   \* mutant: make(chan error)
ErrcTakes == errc = "empty"

RecvLoopReports ==
    /\ Up
    /\ recver = "report"
    /\ ErrcTakes
    /\ errc' = rerr
    /\ recver' = "done"
    /\ rerr' = "nil"
    /\ UNCHANGED <<lifeVars, clusterVars, interval, handler, herr, sender, have, sctx,
                   wire, cctx, cclosed, receiver, hand, ch, userVars>>

-----------------------------------------------------------------------------
(* The client: StreamStatus and its receive goroutine                      *)

Connected == Up /\ ~cut /\ ~cclosed

\* The stub opens the stream, sends the request and half-closes.
Opens ==
    /\ consumer = "call"
    /\ Connected
    /\ ~cctx
    /\ handler' = "open"
    /\ receiver' = "recv"
    /\ consumer' = "range"
    /\ UNCHANGED <<lifeVars, clusterVars, interval, herr, sender, have, recver, rerr,
                   errc, sctx, wire, cctx, cclosed, hand, ch, kind, shown, signaled, watcher>>

\* The error is returned; only the deferred Close, or cancel, is left to do.
OpenFails ==
    /\ consumer = "call"
    /\ ~Connected \/ cctx
    /\ consumer' = IF kind = "cli" THEN "close" ELSE "cancel"
    /\ UNCHANGED <<lifeVars, clusterVars, interval, loopVars, wire, cctx, cclosed,
                   receiver, hand, ch, kind, shown, signaled, watcher>>

\* The checks at the top of its loop see what RecvMsg would find.
ReceiverReceives ==
    /\ receiver = "recv"
    /\ wire # <<>>
    /\ hand' = Head(wire)
    /\ wire' = Tail(wire)
    /\ receiver' = "push"
    /\ UNCHANGED <<lifeVars, clusterVars, interval, loopVars, cctx, cclosed, ch, userVars>>

\* The end of the stream, its error, or the loss of it.
ReceiverEnds ==
    /\ receiver = "recv"
    /\ \/ cctx \/ ~Connected
       \/ wire = <<>> /\ handler = "returned"
    /\ receiver' = "done"
    /\ UNCHANGED <<lifeVars, clusterVars, interval, loopVars, wire, cctx, cclosed, hand,
                   ch, userVars>>

\* ch <- msg.GetClusterInfo()
ReceiverPushes ==
    /\ receiver = "push"
    /\ ch = <<>>
    /\ ch' = <<hand>>
    /\ hand' = "nil"
    /\ receiver' = "recv"
    /\ UNCHANGED <<lifeVars, clusterVars, interval, loopVars, wire, cctx, cclosed, userVars>>

-----------------------------------------------------------------------------
(* The consumers                                                           *)

\* The loop over ch. The test leaves it at Healthy; it also dereferences what it gets,
\* and a nil makes its spec fail: ginkgo recovers the panic and the deferred cancel
\* runs, so that is one more way out of the loop.
AfterInfo_PollsUntilHealthy(i) ==   \* mutant: the command leaves the loop too
    IF i = "healthy" THEN "cancel" ELSE "range"
AfterInfo(i) ==
    IF kind = "cli" \/ i = "starting" THEN "range" ELSE "cancel"

ConsumerTakes ==
    /\ consumer = "range"
    /\ ch # <<>>
    /\ shown' = (Head(ch) = "healthy")
    /\ ch' = Tail(ch)
    /\ consumer' = AfterInfo(Head(ch))
    /\ UNCHANGED <<lifeVars, clusterVars, interval, loopVars, wire, cctx, cclosed, receiver,
                   hand, kind, signaled, watcher>>

LoopEnds ==
    /\ consumer = "range"
    /\ ch = <<>>
    /\ receiver = "done"
    /\ consumer' = "cancel"
    /\ UNCHANGED <<lifeVars, clusterVars, interval, loopVars, wire, cctx, cclosed,
                   receiver, hand, ch, kind, shown, signaled, watcher>>

\* cancel(), and for the command <-donec and the deferred Close.
CancelCalled_Not == cctx   \* mutant: the command does not cancel before <-donec
CancelCalled == TRUE

Cancels ==
    /\ consumer = "cancel"
    /\ cctx' = CancelCalled
    /\ consumer' = IF kind = "cli" THEN "join" ELSE "over"
    /\ shown' = FALSE
    /\ UNCHANGED <<lifeVars, clusterVars, interval, loopVars, wire, cclosed, receiver,
                   hand, ch, kind, signaled, watcher>>

Closes ==
    /\ consumer = "close" \/ (consumer = "join" /\ watcher = "done")
    /\ cclosed' = TRUE
    /\ consumer' = "over"
    /\ UNCHANGED <<lifeVars, clusterVars, interval, loopVars, wire, cctx, receiver, hand,
                   ch, kind, shown, signaled, watcher>>

\* The command's goroutine: a signal or the end of ctx, then cancel(), close(donec).
WatcherEnds ==
    /\ watcher = "select"
    /\ signaled \/ cctx
    /\ cctx' = TRUE
    /\ watcher' = "done"
    /\ UNCHANGED <<lifeVars, clusterVars, interval, loopVars, wire, cclosed, receiver,
                   hand, ch, kind, consumer, shown, signaled>>

Signal ==
    /\ watcher = "select"
    /\ ~signaled
    /\ signaled' = TRUE
    /\ UNCHANGED <<lifeVars, clusterVars, interval, loopVars, wire, cctx, cclosed,
                   receiver, hand, ch, kind, consumer, shown, watcher>>

\* The request timeout.
Timeout ==
    /\ ~cctx
    /\ cctx' = TRUE
    /\ UNCHANGED <<lifeVars, clusterVars, interval, loopVars, wire, cclosed, receiver,
                   hand, ch, userVars>>

-----------------------------------------------------------------------------

SendStep == SendLoopEnds \/ SendLoopTicks \/ SendLoopReads \/ SendLoopSends \/ SendFails
RecvStep == RecvLoopEnds \/ RecvLoopReports
HandlerStep == HandlerBegins \/ HandlerSelects \/ HandlerReturns
ReceiverStep == ReceiverReceives \/ ReceiverEnds \/ ReceiverPushes
ConsumerStep == Opens \/ OpenFails \/ ConsumerTakes \/ LoopEnds \/ Cancels \/ Closes

Next ==
    \/ LifeStep \/ ClusterChanges \/ ClusterStops \/ StreamContextDone
    \/ HandlerStep \/ SendStep \/ ResetPanics \/ SendRaces \/ RecvStep
    \/ ReceiverStep \/ ConsumerStep \/ WatcherEnds
    \/ Signal \/ Timeout

Spec == Init /\ [][Next]_vars

\* Go runs the goroutines of both processes, and a ready case of a select is not
\* passed over for ever; a cancelled stream is reported to the server; a server
\* that has begun to end does end. No timeout and no signal is assumed: an API
\* client may have neither.
Fairness ==
    /\ WF_vars(HandlerStep)
    /\ WF_vars(SendStep \/ ResetPanics)
    /\ SF_vars(SendLoopEnds)
    /\ WF_vars(RecvStep)
    /\ WF_vars(StreamContextDone)
    /\ WF_vars(ReceiverStep)
    /\ WF_vars(ConsumerStep)
    /\ WF_vars(WatcherEnds)
    /\ WF_vars(LifeStep /\ Life!Finish)

FairSpec == Spec /\ Fairness

-----------------------------------------------------------------------------
(* Properties.                                                             *)

TypeOK ==
    /\ {rootDone, cut, closed, exited, crashed, stopped, sctx, cctx, cclosed, shown, signaled}
            \subseteq BOOLEAN
    /\ {cluster, hand} \subseteq Infos
    /\ interval \in Intervals
    /\ handler \in {"none", "open", "select", "wait", "returned"}
    /\ sender \in {"none", "select", "read", "send", "done"}
    /\ have \in {"nil", "current", "old"}
    /\ recver \in {"none", "recv", "report", "done"}
    /\ {herr, rerr} \subseteq {"nil", "error"}
    /\ errc \in {"empty", "nil", "error"}
    /\ wire \in Seq(Infos)
    /\ receiver \in {"none", "recv", "push", "done"}
    /\ ch \in Seq(Infos)
    /\ kind \in Kinds
    /\ consumer \in {"call", "range", "cancel", "join", "close", "over"}
    /\ watcher \in {"select", "done"}

\* gRPC forbids Send once the handler has returned, and the handler may return
\* for four reasons while sendLoop is anywhere: it never does.
NoSendAfterReturn == handler = "returned" => sender \in {"none", "done"}

\* A consumer that dereferences what it is given, as the end-to-end test does, fails
\* by a nil only if a Stop came in after the stream had been admitted.
NilOnlyAfterStop ==
    \/ receiver = "push" /\ hand = "nil"
    \/ ch # <<>> /\ Head(ch) = "nil"
    => stopped

\* When the client cancels, closes or is gone, or the server ends, the handler
\* returns and both its goroutines are over: none of the three stays blocked.
StreamOver ==
    handler = "returned" /\ sender \in {"none", "done"} /\ recver \in {"none", "done"}

StreamEnds ==
    handler # "none" /\ (cctx \/ cclosed \/ rootDone \/ closed)
        ~> StreamOver

\* The client's goroutine ends with its context, its connection or the stream,
\* as long as its consumer drains the channel, which the command does.
ReceiverFinishes ==
    kind = "cli" /\ receiver # "none" /\ (cctx \/ ~Connected \/ handler = "returned")
        ~> receiver = "done"

\* stream-status comes to an end on a signal, its timeout, or the end of the
\* stream or of the server, and its signal goroutine never keeps it.
CommandEnds ==
    kind = "cli" /\ (signaled \/ cctx \/ ~Connected \/ handler = "returned")
        ~> consumer = "over"

\* Whoever watches a stream sees Healthy if the cluster becomes and stays so, long
\* after recvLoop had its EOF, unless the client or the server ends the stream.
HealthyIsSeen ==
    cluster = "healthy" /\ handler \in {"select", "wait"}
        ~> \/ shown \/ cluster # "healthy"
           \/ handler # "returned" /\ (cctx \/ cclosed)
           \/ cut \/ rootDone \/ closed \/ ~Up

\* "poll until the cluster is healthy or os signal": the command looks at nothing
\* any more once it has seen Healthy.
PollsUntilHealthy ==
    [][kind = "cli" /\ shown => Len(ch') >= Len(ch)]_vars

=============================================================================
