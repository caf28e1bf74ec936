----------------------------- MODULE SocketLife -----------------------------
(***************************************************************************)
(* What ape_socket.c promises for every socket, without the loop, the      *)
(* timers and the resolver that bring it about: a socket is created once;  *)
(* it is given up, either in two steps (a shutdown, then the release) or   *)
(* at once (a failure, or a close before it was connected); the            *)
(* application is told exactly once and before the memory goes; a socket   *)
(* that was given up is eventually released.                               *)
(***************************************************************************)
CONSTANT Sock

VARIABLES
    phase,   \* where each socket is in its life
    told     \* the application was told the socket is gone

lifeVars == <<phase, told>>

Phases == {"absent", "open", "closing", "closed", "released"}

Init ==
    /\ phase = [s \in Sock |-> "absent"]
    /\ told = [s \in Sock |-> FALSE]

\* APE_socket_new, or accept
Create(s) ==
    /\ phase[s] = "absent"
    /\ phase' = [phase EXCEPT ![s] = "open"]
    /\ UNCHANGED told

\* An orderly shutdown: the peer is told first, the application later
Shut(s) ==
    /\ phase[s] = "open"
    /\ phase' = [phase EXCEPT ![s] = "closing"]
    /\ UNCHANGED told

\* Any other end
Close(s) ==
    /\ phase[s] = "open"
    /\ phase' = [phase EXCEPT ![s] = "closed"]
    /\ told' = [told EXCEPT ![s] = TRUE]

\* The memory goes; a socket in an orderly shutdown is closed by this step
Release(s) ==
    /\ phase[s] \in {"closing", "closed"}
    /\ told[s] = (phase[s] = "closed")
    /\ phase' = [phase EXCEPT ![s] = "released"]
    /\ told' = [told EXCEPT ![s] = TRUE]

Next == \E s \in Sock : Create(s) \/ Shut(s) \/ Close(s) \/ Release(s)

Spec ==
    /\ Init /\ [][Next]_lifeVars
    /\ \A s \in Sock : WF_lifeVars(Release(s))

=============================================================================
