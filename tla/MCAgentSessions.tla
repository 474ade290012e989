-------------------------- MODULE MCAgentSessions --------------------------
(***************************************************************************)
(* Agent sessions for TLC. Two threads make two requests of any kind at    *)
(* any time, and a third one if the first two were turns, one in each      *)
(* thread, and have ended. The first request is made in t1: the threads    *)
(* are interchangeable.                                                    *)
(***************************************************************************)
EXTENDS AgentSessions

CONSTANTS t1, t2

MCThreads == {t1, t2}

MCMayAsk(t, asked, asking) ==
    \/ asked = 0 /\ t = t1
    \/ asked = 1
    \/ /\ asked = 2 /\ {asking[n].thread : n \in DOMAIN asking} = MCThreads
       /\ \A n \in DOMAIN asking : asking[n].at = "ended"
=============================================================================
