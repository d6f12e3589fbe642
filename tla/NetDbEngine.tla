---------------------------- MODULE NetDbEngine ----------------------------
(***************************************************************************)
(* The poll loop of the network database engine (netdb/mod.rs): when it      *)
(* sleeps and what wakes it.                                                *)
(*                                                                         *)
(* A task sleeps when poll returns NotReady, and runs again when something   *)
(* that it has polled becomes ready.  A timer or a spawned future that has   *)
(* been created and not polled since wakes nobody, and neither does a        *)
(* channel that was not found empty since it last notified the task.         *)
(*                                                                         *)
(* A panic ends the task and drops what it owns.  Its channels do not end it: *)
(* it holds a sender of each (register_pending, and through its Context the    *)
(* client and the transports with their distributor), so none of them closes. *)
(***************************************************************************)
EXTENDS Naturals, FiniteSets

CONSTANTS
    MinimumRouters,  \* MINIMUM_ROUTERS
    KeepRouters,     \* KEEP_ROUTERS
    MaxRouters,      \* bound: RouterInfos stored
    ReseedEnable,    \* config::RESEED_ENABLE
    MaxQueued        \* bound: messages waiting in each channel

ASSUME RoutersAssumption ==
    /\ MinimumRouters \in Nat
    /\ KeepRouters \in Nat
    /\ MaxRouters \in Nat
ASSUME ReseedEnableAssumption == ReseedEnable \in BOOLEAN
ASSUME MaxQueuedAssumption == MaxQueued \in Nat

VARIABLES
    state,       \* EngineState, or that the task has panicked
    running,     \* whether the task is being polled
    woken,       \* whether it has been notified since it was last polled
    due,         \* for each timer, whether its deadline has passed
    registered,  \* for each timer, whether it has been polled since it was set
    reseed,      \* active_reseed
    watched,     \* whether active_reseed has been polled
    exploring,   \* whether an exploration is about to register with the engine
    routers,     \* number of known routers
    queued,      \* number of messages in each channel
    parked       \* channels that notify the task when something arrives

vars == <<state, running, woken, due, registered, reseed, watched, exploring, routers, queued, parked>>

Channel == {"pending_rx", "ib_rx", "client_rx"}
Timer == {"expire_ri", "expire_ls", "explore"}

TypeOK ==
    /\ state \in {"CheckReseed", "Timers", "Messages", "Panicked"}
    /\ running \in BOOLEAN
    /\ woken \in BOOLEAN
    /\ due \in [Timer -> BOOLEAN]
    /\ registered \in [Timer -> BOOLEAN]
    /\ reseed \in {"none", "running", "ended"}
    /\ watched \in BOOLEAN
    /\ exploring \in BOOLEAN
    /\ routers \in 0 .. MaxRouters
    /\ queued \in [Channel -> 0 .. MaxQueued]
    /\ parked \subseteq Channel

\* Engine::new: the first exploration is due at once.  A spawned task is polled.
Init ==
    /\ state = "CheckReseed"
    /\ running = FALSE
    /\ woken = TRUE
    /\ due = [t \in Timer |-> t = "explore"]
    /\ registered = [t \in Timer |-> FALSE]
    /\ reseed = "none"
    /\ watched = FALSE
    /\ exploring = FALSE
    /\ routers = 0
    /\ queued = [c \in Channel |-> 0]
    /\ parked = {}

\* Whether the engine still exists.
Up == state # "Panicked"

-----------------------------------------------------------------------------
(* What happens around the engine *)

\* A deadline passes.  The timer wakes the task if it has been polled.
TimerElapses(t) ==
    /\ Up
    /\ ~ due[t]
    /\ due' = [due EXCEPT ![t] = TRUE]
    /\ woken' = (woken \/ registered[t])
    /\ UNCHANGED <<state, running, registered, reseed, watched, exploring, routers, queued, parked>>

\* The reseeder ends, well or not.
ReseedEnds ==
    /\ reseed = "running"
    /\ reseed' = "ended"
    /\ woken' = (woken \/ watched)
    /\ UNCHANGED <<state, running, due, registered, watched, exploring, routers, queued, parked>>

\* Something is put in a channel, which notifies the task if it is parked there.
Arrives(c) ==
    /\ Up
    /\ queued[c] < MaxQueued
    /\ queued' = [queued EXCEPT ![c] = @ + 1]
    /\ woken' = (woken \/ c \in parked)
    /\ parked' = parked \ {c}

\* A message from the network, a query of a client, or the registration of a lookup.
MessageArrives(c) ==
    /\ Arrives(c)
    /\ UNCHANGED <<state, running, due, registered, reseed, watched, exploring, routers>>

\* An exploration registers for the reply of the router that it asks ...
ExploreRegisters ==
    /\ exploring
    /\ exploring' = FALSE
    /\ Arrives("pending_rx")
    /\ UNCHANGED <<state, running, due, registered, reseed, watched, routers>>

\* ... unless there is no path to it, or no engine.
ExploreHasNoPath ==
    /\ exploring
    /\ exploring' = FALSE
    /\ UNCHANGED <<state, running, woken, due, registered, reseed, watched, routers, queued, parked>>

-----------------------------------------------------------------------------
(* Engine::poll *)

\* A panic: the runtime drops the engine, with its channels, its timers and the
\* handle of its reseed, which cancels that.
Panic ==
    /\ state' = "Panicked"
    /\ running' = FALSE
    /\ woken' = FALSE
    /\ reseed' = "none"
    /\ watched' = FALSE
    /\ queued' = [c \in Channel |-> 0]
    /\ parked' = {}
    /\ UNCHANGED <<due, registered, exploring, routers>>

Wake ==
    /\ ~ running
    /\ woken
    /\ running' = TRUE
    /\ woken' = FALSE
    /\ UNCHANGED <<state, due, registered, reseed, watched, exploring, routers, queued, parked>>

\* As CheckReseed, leaving the timers for when no reseed is active.
CheckReseedFirst ==
    /\ running
    /\ state = "CheckReseed"
    /\ LET active == reseed = "running"
           start == ReseedEnable /\ ~ active /\ routers < MinimumRouters
       IN  /\ reseed' = IF active \/ start THEN "running" ELSE "none"
           /\ watched' = active
           /\ state' = IF active THEN "Messages" ELSE "Timers"
    /\ UNCHANGED <<running, woken, due, registered, exploring, routers, queued, parked>>

\* An active reseed is polled, and dropped if it has ended; a new one is spawned
\* if there is none, reseeds are enabled and it is needed.
CheckReseed ==
    /\ running
    /\ state = "CheckReseed"
    /\ LET active == reseed = "running"
           start == ReseedEnable /\ ~ active /\ routers < MinimumRouters
       IN  /\ reseed' = IF active \/ start THEN "running" ELSE "none"
           /\ watched' = active
    /\ state' = "Timers"
    /\ UNCHANGED <<running, woken, due, registered, exploring, routers, queued, parked>>

\* HttpsReseeder::new resolves its first host in the engine's task, and unwraps.
ReseedHostUnresolved ==
    /\ running
    /\ state = "CheckReseed"
    /\ ReseedEnable /\ reseed # "running" /\ routers < MinimumRouters
    /\ Panic

\* Each timer is polled.  One that is due does its work and is replaced by a new
\* one: RouterInfos expire if there are enough of them, and an exploration starts
\* if there is a floodfill router to ask.
Timers ==
    /\ running
    /\ state = "Timers"
    /\ state' = "Messages"
    /\ due' = [t \in Timer |-> FALSE]
    /\ registered' = [t \in Timer |-> ~ due[t]]
    /\ IF due["expire_ri"] /\ routers >= KeepRouters
       THEN routers' \in 0 .. routers
       ELSE UNCHANGED routers
    /\ \/ /\ due["explore"]
          /\ routers' > 0
          /\ exploring' = TRUE
       \/ UNCHANGED exploring
    /\ UNCHANGED <<running, woken, reseed, watched, queued, parked>>

\* The two channels of which the engine takes at most one message at a time.
Inputs == {"ib_rx", "client_rx"}

\* As TakeMessages, with one registration taken at a time.
TakeOneEach ==
    /\ queued' = [c \in Channel |-> IF queued[c] > 0 THEN queued[c] - 1 ELSE 0]
    /\ parked' = parked \cup {c \in Channel : queued[c] = 0}

\* As TakeMessages, not looking whether there is one.
TakeUnchecked ==
    /\ queued' = [c \in Channel |-> IF c \in Inputs THEN queued[c] - 1 ELSE 0]
    /\ parked' = parked \cup {"pending_rx"} \cup {c \in Inputs : queued[c] = 0}

\* All registrations are taken, and one message of each other channel that has one;
\* the task parks on those that it finds empty.
TakeMessages ==
    /\ queued' = [c \in Channel |-> IF c \in Inputs /\ queued[c] > 0 THEN queued[c] - 1 ELSE 0]
    /\ parked' = parked \cup {"pending_rx"} \cup {c \in Inputs : queued[c] = 0}

\* There is a message from the network, a query, or one of each.  Each of them may
\* store a RouterInfo under a new key.
HandleMessages ==
    /\ running
    /\ state = "Messages"
    /\ \E c \in Inputs : queued[c] > 0
    /\ TakeMessages
    /\ state' = "CheckReseed"
    /\ \E stored \in SUBSET {c \in Inputs : queued[c] > 0} :
          /\ routers + Cardinality(stored) <= MaxRouters
          /\ routers' = routers + Cardinality(stored)
    /\ UNCHANGED <<running, woken, due, registered, reseed, watched, exploring>>

\* The message from the network stores a RouterInfo that store_router_info refuses
\* (store_lease_set refuses nothing).
StoreRefused ==
    /\ running
    /\ state = "Messages"
    /\ queued["ib_rx"] > 0
    /\ Panic

\* There is neither: poll returns NotReady, even if registrations were taken.
Sleep ==
    /\ running
    /\ state = "Messages"
    /\ \A c \in Inputs : queued[c] = 0
    /\ TakeMessages
    /\ state' = "CheckReseed"
    /\ running' = FALSE
    /\ UNCHANGED <<woken, due, registered, reseed, watched, exploring, routers>>

-----------------------------------------------------------------------------
Poll ==
    \/ Wake
    \/ CheckReseed
    \/ ReseedHostUnresolved
    \/ Timers
    \/ HandleMessages
    \/ StoreRefused
    \/ Sleep

Next ==
    \/ \E t \in Timer : TimerElapses(t)
    \/ ReseedEnds
    \/ \E c \in Channel : MessageArrives(c)
    \/ ExploreRegisters
    \/ ExploreHasNoPath
    \/ Poll

Spec == Init /\ [][Next]_vars

\* A task that is notified is polled until it sleeps, and time passes.  The task
\* of an exploration is one of them.
FairSpec ==
    /\ Spec
    /\ WF_vars(Poll)
    /\ WF_vars(ExploreRegisters \/ ExploreHasNoPath)
    /\ \A t \in Timer : WF_vars(TimerElapses(t))

-----------------------------------------------------------------------------
(* Properties *)

\* While there is an engine it never sleeps on a message: if a channel holds one while the task is
\* not being polled then the task has been notified, and if it holds none then
\* its next message will notify it.  The loop takes at most one message of two
\* channels, all of the third, and leaves by one exit, which has to fit.
NoLostMessage ==
    Up /\ ~ running /\ ~ woken => \A c \in Channel : queued[c] = 0 /\ c \in parked

\* A timer that the engine has polled since it was set is acted on once it is due,
\* unless the engine panics.
PolledTimersServed ==
    \A t \in Timer : (registered[t] /\ due[t]) ~> (~ due[t] \/ ~ Up)

\* EXPLORE_MAX_INTERVAL: "Explore the network at least this often."  When the
\* exploration timer is due, the engine acts on it (if it does not panic: what
\* fails here is a timer that nothing has polled).
ExploresRegularly == due["explore"] ~> (~ due["explore"] \/ ~ Up)
=============================================================================
