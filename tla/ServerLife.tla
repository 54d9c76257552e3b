----------------------------- MODULE ServerLife -----------------------------
(***************************************************************************)
(* What the end of the server promises to everything that runs inside it:  *)
(* server/server.go:96 (Run) and cmd/avalanche-network-runner/server        *)
(* (serverFunc), reduced to the four events a handler can notice.          *)
(***************************************************************************)

VARIABLES
    rootDone,  \* rootCtx is cancelled
    cut,       \* gRPCServer.Stop was called: no listener, no connections
    closed,    \* s.closed is closed
    exited     \* the process is gone

lifeVars == <<rootDone, cut, closed, exited>>

Init ==
    /\ rootDone = FALSE
    /\ cut = FALSE
    /\ closed = FALSE
    /\ exited = FALSE

RootCancel ==
    /\ ~exited
    /\ ~rootDone
    /\ rootDone' = TRUE
    /\ UNCHANGED <<cut, closed, exited>>

\* The connections go before s.closed does, or not at all.
Cut ==
    /\ ~closed
    /\ ~cut
    /\ cut' = TRUE
    /\ UNCHANGED <<rootDone, closed, exited>>

Close ==
    /\ ~closed
    /\ closed' = TRUE
    /\ UNCHANGED <<rootDone, cut, exited>>

\* Main leaves last, after Run and with rootCtx cancelled.
Exit ==
    /\ ~exited
    /\ closed
    /\ rootDone
    /\ exited' = TRUE
    /\ UNCHANGED <<rootDone, cut, closed>>

Next == RootCancel \/ Cut \/ Close \/ Exit

\* Once anything of this has happened the rest follows.
Ending == rootDone \/ cut \/ closed
Finish == Ending /\ (Close \/ Exit \/ (closed /\ RootCancel))

Spec == Init /\ [][Next]_lifeVars
FairSpec == Spec /\ WF_lifeVars(Finish)

=============================================================================
