---------------------------- MODULE SharedServer ----------------------------
(***************************************************************************)
(* What the server pool of an adapter promises its sessions, for one       *)
(* project: they share one server, and a lease on it ends when the session *)
(* returns it or when the server dies, never because the pool tidies up.   *)
(***************************************************************************)
CONSTANT Sessions

VARIABLES
    server,   \* "down", "up", or "failed": dead, and its leases not yet ended
    leases    \* the sessions that have a lease on it

vars == <<server, leases>>

Init == server = "down" /\ leases = {}

Start(s) ==
    /\ server = "down"
    /\ server' = "up" /\ leases' = {s}

\* A dead server may still be leased until its death is noticed.
Lease(s) ==
    /\ server # "down"
    /\ leases' = leases \cup {s}
    /\ UNCHANGED server

Return(s) ==
    /\ leases' = leases \ {s}
    /\ UNCHANGED server

Fail ==
    /\ server = "up"
    /\ server' = "failed"
    /\ UNCHANGED leases

Lose ==
    /\ server = "failed"
    /\ server' = "down" /\ leases' = {}

Retire ==
    /\ server = "up" /\ leases = {}
    /\ server' = "down"
    /\ UNCHANGED leases

Next ==
    \/ \E s \in Sessions : Start(s) \/ Lease(s) \/ Return(s)
    \/ Fail \/ Lose \/ Retire

Spec == Init /\ [][Next]_vars
=============================================================================
