------------------------------- MODULE Reseed -------------------------------
(***************************************************************************)
(* The reseeder (netdb/reseed.rs), with the network database whose client   *)
(* it is.                                                                   *)
(*                                                                         *)
(* The engine starts a reseed when it knows too few routers.  The reseeder  *)
(* asks one host after the other for RouterInfos and stores what it gets    *)
(* through the queue of the engine, so that each waits for the other.       *)
(***************************************************************************)
EXTENDS NetDb, SequencesExt

CONSTANTS
    MinimumRouters,    \* MINIMUM_ROUTERS
    ReseedHosts,       \* number of DEFAULT_RESEED_HOSTS
    MinRiWanted,       \* MIN_RI_WANTED
    MinReseedServers,  \* MIN_RESEED_SERVERS
    HostRouterInfo,    \* bound: the RouterInfos that hosts send
    MaxFetched,        \* bound: RouterInfos that a reseed fetches
    MaxReseeds         \* bound: reseeds that are started

ASSUME ReseedAssumption ==
    /\ {MinimumRouters, MinRiWanted, MinReseedServers, MaxFetched, MaxReseeds} \subseteq Nat
    /\ ReseedHosts \in Nat \ {0}
    /\ HostRouterInfo \subseteq RouterInfo

\* The reseeder's fields.  "None": no reseed is running.  Of the RouterInfos
\* that are being stored, ok and err have an answer that was not seen; the
\* others are in the queue.
VARIABLES reseeder, nreseeds

reseedVars == <<reseeder, nreseeds>>

NoReseed ==
    [state |-> "None", pending |-> 0, succeeded |-> 0, fetched |-> 0, valid |-> 0,
      ok |-> 0, err |-> 0]

ReseedInit ==
    /\ Init
    /\ reseeder = NoReseed
    /\ nreseeds = 0

IsReseedStore(query) == query.op = "StoreRouterInfo" /\ query.from_reseed

InQueue == Len(SelectSeq(client_rx, IsReseedStore))

\* The futures that select_all still holds.
Storing == InQueue + reseeder.ok + reseeder.err

-----------------------------------------------------------------------------
(* The engine's side *)

\* CheckReseed: a reseed is started when none is running and few routers are
\* known.  HttpsReseeder::new takes the first host, and resolves its name.
StartReseed ==
    /\ engine = "up"
    /\ reseeder.state = "None"
    /\ Cardinality(Known) < MinimumRouters
    /\ nreseeds < MaxReseeds
    /\ nreseeds' = nreseeds + 1
    /\ \/ /\ reseeder' = [NoReseed EXCEPT !.state = "Fetching", !.pending = ReseedHosts - 1]
          /\ UNCHANGED vars
       \/ /\ ReseedUnresolved
          /\ UNCHANGED reseeder

\* What the reseeder hears of a step of the database: its stores are answered
\* when they have been handled, and fail when the engine is dropped with them.
Hear ==
    /\ LET handled == client_rx # <<>> /\ client_rx' = Tail(client_rx) /\ IsReseedStore(Head(client_rx))
       IN  reseeder' = IF engine' # engine
                       THEN [reseeder EXCEPT !.err = @ + InQueue]
                       ELSE IF ~ handled THEN reseeder
                       ELSE IF Acceptable(Head(client_rx).ri, TRUE)
                       THEN [reseeder EXCEPT !.ok = @ + 1]
                       ELSE [reseeder EXCEPT !.err = @ + 1]
    /\ UNCHANGED nreseeds

DatabaseStep ==
    \/ ClientStep /\ Hear
    \/ HandleQuery /\ Hear
    \/ NetworkStep /\ Hear
    \/ TimeStep /\ Hear

-----------------------------------------------------------------------------
(* HttpsReseeder::poll *)

\* What the reseeder does after a host: the reseed is over when no host is left,
\* whatever it has found.  A name that does not resolve ends the task.
NextHost(r) ==
    IF r.pending = 0 THEN {NoReseed}
    ELSE {NoReseed, [r EXCEPT !.state = "Fetching", !.pending = @ - 1]}

\* reseed_from_host: the host cannot be reached, refuses, sends a file that is
\* not valid, or does not answer within PER_RESEED_TIMEOUT.
FetchFails ==
    /\ reseeder.state = "Fetching"
    /\ reseeder' \in NextHost(reseeder)
    /\ UNCHANGED <<vars, nreseeds>>

\* A file with RouterInfos has come.  select_all polls the futures that store
\* them, which send their queries; without an engine they fail.  It panics when
\* there are none, which ends the task.
Fetched(stores) ==
    /\ reseeder.state = "Fetching"
    /\ reseeder.fetched + Len(stores) <= MaxFetched
    /\ reseeder' = IF stores = <<>> THEN NoReseed
                   ELSE [reseeder EXCEPT !.state = "Storing", !.succeeded = @ + 1,
                                         !.fetched = @ + Len(stores),
                                         !.err = IF engine = "up" THEN 0 ELSE Len(stores)]
    /\ \/ ClientStoreReseeded(stores)
       \/ engine = "down" /\ UNCHANGED vars
    /\ UNCHANGED nreseeds

\* There are enough RouterInfos from enough hosts.
Enough(r) == r.valid >= MinRiWanted /\ r.succeeded >= MinReseedServers

\* As StoreEnds, passing errors by.
StoreEndsWell ==
    /\ reseeder.state = "Storing"
    /\ reseeder.ok > 0
    /\ LET r == [reseeder EXCEPT !.ok = @ - 1, !.valid = @ + 1]
       IN  reseeder' \in IF Storing > 1 THEN {r} ELSE IF Enough(r) THEN {NoReseed} ELSE NextHost(r)
    /\ UNCHANGED <<vars, nreseeds>>

\* One of the stores has ended, well or with an error.  After the last one the
\* reseed is over or goes on with the next host.
StoreEnds ==
    /\ reseeder.state = "Storing"
    /\ \E r \in {[reseeder EXCEPT !.ok = @ - 1, !.valid = @ + 1], [reseeder EXCEPT !.err = @ - 1]} :
          /\ r.ok >= 0 /\ r.err >= 0
          /\ reseeder' \in IF Storing > 1 THEN {r}
                            ELSE IF Enough(r) THEN {NoReseed}
                            ELSE NextHost(r)
    /\ UNCHANGED <<vars, nreseeds>>

-----------------------------------------------------------------------------
Answered(n) == [1 .. n -> {q \in ReseedStore : q.ri \in HostRouterInfo}]

ReseederStep ==
    \/ FetchFails
    \/ \E n \in 0 .. MaxFetched : \E stores \in Answered(n) : Fetched(stores)
    \/ StoreEnds

ReseedNext == StartReseed \/ DatabaseStep \/ ReseederStep

ReseedSpec == ReseedInit /\ [][ReseedNext]_<<vars, reseedVars>>

-----------------------------------------------------------------------------
(* Properties *)

\* A reseed ends, whatever its hosts do and even if the engine that started it
\* and handles its stores is gone; only then can the engine start another.
ReseedTerminates == reseeder.state # "None" ~> reseeder.state = "None"
=============================================================================
