--------------------------- MODULE ClusterLifecycle ---------------------------
(***************************************************************************)
(* What the control service promises about clusters, without its locks,    *)
(* goroutines and RPCs: there is at most one; it comes up once; its nodes   *)
(* go one by one, each with its process; and it is let go only when none   *)
(* of its processes is left and nobody is still bringing it up.            *)
(***************************************************************************)
CONSTANTS
    Clusters,   \* the clusters there can ever be
    Names,      \* the nodes each of them starts with
    None        \* no cluster, and none of Clusters

VARIABLES
    current,    \* the cluster being served, or None
    past,       \* the clusters that were let go
    phase,      \* "none", "launching", "running" or "stopped": of current
    booting,    \* is somebody still bringing current up?
    members,    \* the nodes listed for current
    running,    \* the processes that run, as <<cluster, node>>
    serving     \* is the server process alive?

vars == <<current, past, phase, booting, members, running, serving>>

Init ==
    /\ current = None
    /\ past = {}
    /\ phase = "none"
    /\ booting = FALSE
    /\ members = {}
    /\ running = {}
    /\ serving = TRUE

Create(c) ==
    /\ current = None
    /\ c \notin past
    /\ current' = c
    /\ phase' = "launching"
    /\ booting' = TRUE
    /\ members' = Names
    /\ UNCHANGED <<past, running, serving>>

Launch ==
    /\ phase = "launching"
    /\ booting
    /\ phase' = "running"
    /\ running' = {current} \X members
    /\ UNCHANGED <<current, past, booting, members, serving>>

\* ... well or badly: a launch that failed leaves the phase as it is.
BootEnds ==
    /\ booting
    /\ booting' = FALSE
    /\ UNCHANGED <<current, past, phase, members, running, serving>>

\* A node leaves, with its process.
Remove(x) ==
    /\ phase = "running"
    /\ <<current, x>> \in running
    /\ members' = members \ {x}
    /\ running' = running \ {<<current, x>>}
    /\ UNCHANGED <<current, past, phase, booting, serving>>

\* A listed node's process goes, for another to take its place.
Take(x) ==
    /\ phase = "running"
    /\ <<current, x>> \in running
    /\ running' = running \ {<<current, x>>}
    /\ UNCHANGED <<current, past, phase, booting, members, serving>>

Replace(x) ==
    /\ phase = "running"
    /\ x \in members
    /\ <<current, x>> \notin running
    /\ running' = running \cup {<<current, x>>}
    /\ UNCHANGED <<current, past, phase, booting, members, serving>>

Drain ==
    /\ phase = "running"
    /\ phase' = "stopped"
    /\ running' = {}
    /\ UNCHANGED <<current, past, booting, members, serving>>

LetGo ==
    /\ phase = "stopped"
    /\ ~booting
    /\ running = {}
    /\ current' = None
    /\ past' = past \cup {current}
    /\ phase' = "none"
    /\ members' = {}
    /\ UNCHANGED <<booting, running, serving>>

\* The server process ends, or dies.
Die ==
    /\ serving' = FALSE
    /\ UNCHANGED <<current, past, phase, booting, members, running>>

Next ==
    /\ serving
    /\ \/ \E c \in Clusters : Create(c)
       \/ Launch
       \/ BootEnds
       \/ \E x \in Names : Remove(x) \/ Take(x) \/ Replace(x)
       \/ Drain
       \/ LetGo
       \/ Die

Spec == Init /\ [][Next]_vars

=============================================================================
