--------------------------- MODULE MCControlServer ---------------------------
(***************************************************************************)
(* ControlServer with finite sets: the values come from the .cfg files.    *)
(***************************************************************************)
EXTENDS ControlServer, TLC

\* Handlers, networks, names and binaries are interchangeable: nothing orders them.
Symmetry ==
    Permutations(Handlers) \cup Permutations(Nets) \cup Permutations(Names)
        \cup Permutations(Execs)

\* A constraint for the runs that are not about the end of Run: MCProgress alone
\* explores what happens after it.
StillServing == ~closed

\* What tells states apart in MCLifecycle. Of a network that s.network has let go of,
\* the watcher still reads readyc and stopc, and the properties its processes and
\* its start() goroutine; its NodeConfigs, URIs, binaries and ClusterInfo are
\* garbage that no later step reads and no property of that run mentions.
LetGo(n) == n # network /\ starter[n] # "unborn"

NetworkView(n) ==
    IF LetGo(n)
    THEN <<nw[n], starter[n], Listed(n), Running(n), readyc[n], stopc[n], watch[n]>>
    ELSE <<nw[n], starter[n], watch[n], node[n], nodeInfos[n], nodeNames[n], cfg[n],
           readyc[n], stopc[n], donec[n], errc[n], info[n]>>

LiveView ==
    <<proc, closed, mu, network, clusterInfo, pc, req, cap, wfh,
      [n \in Nets |-> NetworkView(n)]>>

=============================================================================
