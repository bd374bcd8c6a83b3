----------------------------- MODULE CallService -----------------------------
(***************************************************************************)
(* What the public API of a debug session promises its callers, with the   *)
(* threads, the lock and the queue of debug_session.cpp left out: a call   *)
(* that the session accepted is served or refused, exactly once, and a     *)
(* session that has closed holds no call that nobody will answer.          *)
(***************************************************************************)
CONSTANT Clients        \* threads that call the session (GUI, Lua, ceserver)

VARIABLES
    phase,  \* "new", "live", "closing" (detach seen, tracer still working), "closed"
    call    \* call[c]: what became of the command client c handed over

serviceVars == <<phase, call>>

Phases == {"new", "live", "closing", "closed"}
CallStates == {"none", "pending", "served", "refused"}

ServiceInit ==
    /\ phase = "new"
    /\ call = [c \in Clients |-> "none"]

\* attach() succeeds, or seizing fails and the session is over before it began.
Open ==
    /\ phase = "new"
    /\ phase' \in {"live", "closed"}
    /\ UNCHANGED call

\* The session takes responsibility for c's command. A closed one never does.
Accept(c) ==
    /\ phase \in {"live", "closing"}
    /\ call[c] = "none"
    /\ call' = [call EXCEPT ![c] = "pending"]
    /\ UNCHANGED phase

\* The command is performed on the target: once, and never in a closed session.
Serve(c) ==
    /\ phase \in {"live", "closing"}
    /\ call[c] = "pending"
    /\ call' = [call EXCEPT ![c] = "served"]
    /\ UNCHANGED phase

StartClosing ==
    /\ phase = "live"
    /\ phase' = "closing"
    /\ UNCHANGED call

\* The last act of a session refuses everything it still owes an answer.
Close ==
    /\ phase = "closing"
    /\ phase' = "closed"
    /\ call' = [c \in Clients |-> IF call[c] = "pending" THEN "refused" ELSE call[c]]

\* The caller takes the answer from its future.
Collect(c) ==
    /\ call[c] \in {"served", "refused"}
    /\ call' = [call EXCEPT ![c] = "none"]
    /\ UNCHANGED phase

ServiceNext ==
    \/ Open \/ StartClosing \/ Close
    \/ \E c \in Clients : Accept(c) \/ Serve(c) \/ Collect(c)

ServiceSpec == ServiceInit /\ [][ServiceNext]_serviceVars
=============================================================================
