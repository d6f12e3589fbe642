------------------------------- MODULE Router -------------------------------
(***************************************************************************)
(* A router from start to crash (router/mod.rs): its database and its       *)
(* reseeder run once it has started, and are lost with the process; what is *)
(* on disk is not.                                                          *)
(***************************************************************************)
EXTENDS Startup, Reseed

routerVars == <<startupVars, vars, reseedVars>>

RouterInit == StartupInit /\ ReseedInit

\* The process ends; the next run begins with an empty database.
Crash ==
    /\ StopRouter
    /\ engine' = "up" /\ client_rx' = <<>>
    /\ ds' = [k \in Key |-> Absent] /\ pending' = [k \in Key |-> {}]
    /\ stage' = [i \in Lookup |-> "free"]
    /\ keyOf' = [i \in Lookup |-> CHOOSE k \in RouterKey : TRUE]
    /\ nlookups' = 0 /\ nstores' = 0
    /\ reseeder' = NoReseed /\ nreseeds' = 0

Run == phase = "running" /\ UNCHANGED startupVars

RouterNext ==
    \/ StartupStep /\ UNCHANGED <<vars, reseedVars>>
    \/ Run /\ ReseedNext
    \/ Crash

RouterSpec == RouterInit /\ [][RouterNext]_routerVars

\* While the router runs, its tasks do: the engine handles its queue, the
\* timeouts of searches elapse, and the reseeder's task is run when a host has
\* answered or the timeout has elapsed, and when a store is answered.
RouterFairSpec ==
    /\ RouterSpec
    /\ WF_routerVars(Run /\ HandleQuery /\ Hear)
    /\ \A i \in Lookup : WF_routerVars(Run /\ SearchTimesOut(i) /\ Hear)
    /\ WF_routerVars(Run /\ ReseederStep)
=============================================================================
