------------------------------- MODULE Session -------------------------------
(***************************************************************************)
(* One user in front of the server, who sends a command, waits for its end *)
(* and only then sends the next: the commands of control.go through        *)
(* client/client.go and the gRPC stubs, each with --request-timeout, or    *)
(* the HTTP gateway, where the user may hang up at any time. A user who    *)
(* gives up is not heard of by the handlers, which ignore their context:   *)
(* the abandoned one goes on, with s.mu if it has it, beside the next.     *)
(*                                                                         *)
(* Time passes in Tick, and only when nobody has anything to do: next to   *)
(* healthyWait and the request timeouts everything else is taken to be     *)
(* quick, the calls of the network library included.                       *)
(***************************************************************************)
EXTENDS ControlServer, FiniteSets

CONSTANTS
    HealthyWait,  \* healthyWait (two minutes), in ticks
    Patience      \* the request timeouts in use, in ticks

ASSUME TimesAssumption ==
    /\ HealthyWait \in Nat \ {0}
    /\ Patience \subseteq Nat \ {0}

VARIABLES
    user,       \* the command being waited for, if any
    last,       \* the one before, and how it ended
    saw,        \* has the last ClusterInfo shown to the user said Healthy?
    impatient,  \* has any command been sent that might be given up too early?
    left        \* ticks each thread has left in waitForHealthy

sessionVars == <<user, last, saw, impatient>>
allVars == <<vars, sessionVars, left>>

HTTP == 0   \* the timeout of a user who has none, but can hang up

NoCommand == [at |-> "idle", h |-> Nil, req |-> NoReq, timeout |-> HTTP,
              remains |-> 0, behind |-> 0]

\* How a command ended: answered with a result or an error, or given up.
Ended(res) == [req |-> user.req, behind |-> user.behind, res |-> res]

-----------------------------------------------------------------------------
(* client.go: what each method puts into its request.                      *)

ClientStart(e) == [op |-> "start", name |-> Nil, exec |-> e]
ClientHealth == [op |-> "health", name |-> Nil, exec |-> Nil]
ClientURIs == [op |-> "uris", name |-> Nil, exec |-> Nil]
ClientStatus == [op |-> "status", name |-> Nil, exec |-> Nil]
ClientRemoveNode(x) == [op |-> "remove", name |-> x, exec |-> Nil]
ClientRestartNode(x, e) == [op |-> "restart", name |-> x, exec |-> e]
ClientStop == [op |-> "stop", name |-> Nil, exec |-> Nil]

-----------------------------------------------------------------------------
(* From a command to its handler.                                          *)

\* The service description routes a request to its method in a goroutine.
Dispatch(h, r) ==
    /\ Receive(h)
    /\ req'[h] = r

\* The user looks before acting: Health, RemoveNode, RestartNode and Stop only
\* once the cluster has been seen Healthy.
HasLooked(op) == op \in {"start", "status", "uris"} \/ saw

InFlight == {h \in Handlers : pc[h] # "idle"}

\* The client stub sends the request and waits for its answer, or its context.
Invoke(r, timeout) ==
    /\ user.at = "idle"
    /\ HasLooked(r.op)
    /\ \E h \in Handlers :
         /\ Dispatch(h, r)
         /\ user' = [at |-> "waiting", h |-> h, req |-> r, timeout |-> timeout,
                     remains |-> timeout, behind |-> Cardinality(InFlight)]
    /\ impatient' = (impatient \/ timeout <= HealthyWait)
    /\ UNCHANGED <<last, saw, left>>

-----------------------------------------------------------------------------
(* control.go: a command dials, calls with its timeout, prints and closes. *)

StartFunc == \E e \in Execs, t \in Patience : Invoke(ClientStart(e), t)
HealthFunc == \E t \in Patience : Invoke(ClientHealth, t)
URIsFunc == \E t \in Patience : Invoke(ClientURIs, t)
StatusFunc == \E t \in Patience : Invoke(ClientStatus, t)
RemoveNodeFunc == \E x \in Names, t \in Patience : Invoke(ClientRemoveNode(x), t)
RestartNodeFunc ==
    \E x \in Names, e \in Execs, t \in Patience : Invoke(ClientRestartNode(x, e), t)
StopFunc == \E t \in Patience : Invoke(ClientStop, t)

-----------------------------------------------------------------------------
(* rpc.pb.gw.go: a POST, decoded into the same request, waits for the same *)
(* stub with the context of its HTTP request.                              *)

Post(r) == Invoke(r, HTTP)

PostStart == \E e \in Execs : Post(ClientStart(e))
PostHealth == Post(ClientHealth)
PostURIs == Post(ClientURIs)
PostStatus == Post(ClientStatus)
PostRemoveNode == \E x \in Names : Post(ClientRemoveNode(x))
PostRestartNode == \E x \in Names, e \in Execs : Post(ClientRestartNode(x, e))
PostStop == Post(ClientStop)

-----------------------------------------------------------------------------
(* How a command ends.                                                     *)

\* A wait for healthy begins with all of healthyWait.
Timers ==
    left' = [t \in Threads |-> IF wfh'[t].at # "wait" THEN 0
                               ELSE IF wfh[t].at = "wait" THEN left[t] ELSE HealthyWait]

Returns(h) == pc[h] # "idle" /\ pc'[h] = "idle"

\* The response of the user's handler: a ClusterInfo, URIs or an error.
Answer(h) ==
    /\ user.at = "waiting"
    /\ user.h = h
    /\ HandlerStep(h)
    /\ Returns(h)
    /\ last' = Ended(IF pc[h] = "reply" THEN "ok" ELSE "error")
    /\ saw' = IF pc[h] = "reply" /\ user.req.op # "uris" THEN info[cap[h]].healthy ELSE saw
    /\ user' = NoCommand
    /\ Timers
    /\ UNCHANGED impatient

\* Everything else a handler does; the end of an abandoned one is for nobody.
Work(h) ==
    /\ HandlerStep(h)
    /\ Returns(h) => user.at # "waiting" \/ user.h # h
    /\ Timers
    /\ UNCHANGED sessionVars

\* DeadlineExceeded; nothing tells the handler.
GiveUp ==
    /\ user.at = "waiting"
    /\ user.timeout # HTTP
    /\ user.remains = 0
    /\ last' = Ended("given up")
    /\ user' = NoCommand
    /\ UNCHANGED <<vars, saw, impatient, left>>

\* The connection to the gateway is dropped: the request's context is done.
HangUp ==
    /\ user.at = "waiting"
    /\ user.timeout = HTTP
    /\ last' = Ended("given up")
    /\ user' = NoCommand
    /\ UNCHANGED <<vars, saw, impatient, left>>

-----------------------------------------------------------------------------
(* Time.                                                                   *)

\* What a handler may be blocked on: s.mu, <-donec, or the network's health.
WantsLock(h) ==
    \/ pc[h] \in {"check", "start", "remove", "restart", "stop"}
    \/ pc[h] = "healthwait" /\ wfh[h].at = "ok"

Blocked(h) ==
    \/ WantsLock(h) /\ mu # Nil
    \/ pc[h] = "stopwait" /\ ~StarterGone(network)
    \/ wfh[h].at = "wait"

\* Some goroutine that has been started is not blocked.
Runnable ==
    \/ \E h \in InFlight : ~Blocked(h)
    \/ \E t \in Threads : \/ wfh[t].at = "wait" /\ stopc[wfh[t].net]
                          \/ wfh[t].at = "update"
    \/ \E n \in Nets :
         \/ starter[n] = "launching"
         \/ wfh[n].at = "ok"
         \/ wfh[n].at = "err" /\ errc[n] < ErrcCap
         \/ watch[n].at = "born"
         \/ watch[n].at = "select" /\ (stopc[watch[n].net] \/ ReadyFired(n))
         \/ watch[n].at = "ready" /\ mu = Nil

\* waitForHealthy ends with its context, healthyWait after it began.
WaitMayLast_NoTimeout(t) == TRUE   \* mutant: context.Background()
WaitMayLast(t) == left[t] > 0

Less(k) == IF k > 0 THEN k - 1 ELSE 0

Tick ==
    /\ proc = "up"
    /\ ~Runnable
    /\ \A t \in Threads : wfh[t].at = "wait" => WaitMayLast(t)
    /\ user.at = "waiting" /\ user.timeout # HTTP => user.remains > 0
    /\ left' = [t \in Threads |-> Less(left[t])]
    /\ user' = [user EXCEPT !.remains = Less(@)]
    /\ UNCHANGED <<vars, last, saw, impatient>>

-----------------------------------------------------------------------------

SessionInit ==
    /\ Init
    /\ user = NoCommand
    /\ last = Ended("none")
    /\ saw = FALSE
    /\ impatient = FALSE
    /\ left = [t \in Threads |-> 0]

SessionNext ==
    \/ StartFunc \/ HealthFunc \/ URIsFunc \/ StatusFunc
    \/ RemoveNodeFunc \/ RestartNodeFunc \/ StopFunc
    \/ PostStart \/ PostHealth \/ PostURIs \/ PostStatus
    \/ PostRemoveNode \/ PostRestartNode \/ PostStop
    \/ \E h \in Handlers : Answer(h) \/ Work(h)
    \/ GiveUp \/ HangUp
    \/ \E n \in Nets : WatchStep(n) /\ Timers /\ UNCHANGED sessionVars
    \/ NetStep /\ Timers /\ UNCHANGED sessionVars
    \/ Tick

SessionSpec == SessionInit /\ [][SessionNext]_allVars

-----------------------------------------------------------------------------
(* Properties.                                                             *)

\* A command that returned has had as much time as any order of the locks can
\* take: its own wait for healthy, and one for each abandoned handler that was
\* still in flight when it was sent. So --request-timeout=3m is enough for a
\* user who has abandoned nothing, and each abandoned command asks for more.
PatienceSuffices ==
    [][GiveUp => user.timeout <= HealthyWait * (1 + user.behind)]_allVars

\* As long as a user waits, some goroutine can run, or a handler is in waitForHealthy,
\* which ends by itself: nobody who holds s.mu, Stop above all, waits for ever for
\* start(), for its errc or for a network that is not there.
SomebodyWorks ==
    user.at = "waiting" /\ proc = "up" =>
        Runnable \/ \E h \in Handlers : wfh[h].at = "wait"

\* A user whose timeouts all exceed healthyWait, and who looks before acting,
\* never brings the server down: no two of the handlers ever overlap.
PatientNeverPanics == ~impatient => proc \notin PanicSites

\* What an answer without an error says; of a Stop, that nothing runs any more, as long
\* as lc.nw.Stop itself does its work.
Holds(r) ==
    CASE r.op = "start" -> network # Nil
      [] r.op = "stop" -> /\ network = Nil
                          /\ ~NwStopMayFail => \A n \in Nets : Running(n) = {}
      [] r.op = "remove" -> r.name \notin Listed(network) \cup Running(network)
      [] r.op = "restart" -> /\ r.name \in Listed(network) \cap Running(network)
                             /\ node[network][r.name].exec = r.exec
      [] OTHER -> clusterInfo # Nil

\* Until the next command, an answer without an error is the truth, unless an abandoned
\* handler was in flight when the command was sent.
AnswerHolds ==
    user.at = "idle" /\ last.res = "ok" /\ last.behind = 0 => Holds(last.req)

=============================================================================
