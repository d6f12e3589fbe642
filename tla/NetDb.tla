------------------------------- MODULE NetDb -------------------------------
(***************************************************************************)
(* The local network database (netdb/mod.rs) and the queries that clients   *)
(* send it (netdb/client.rs, netdb/lookup.rs), for its two tables:          *)
(* RouterInfos and lease sets.  Both are kept here as one function; a key   *)
(* stands for a table and a hash in it.                                     *)
(*                                                                         *)
(* The engine owns the database and handles one message or one query at a   *)
(* time.  A lookup that it cannot answer becomes a task of its own: either  *)
(* it searches the network, under the timeout of its query, or it joins the *)
(* list of those who wait for the key, without one.  How a search goes on   *)
(* from router to router is the subject of module IterativeLookup; here it  *)
(* may end at any time.                                                     *)
(***************************************************************************)
EXTENDS Naturals, Sequences, FiniteSets

CONSTANTS
    RouterKey,    \* hashes of routers, keys of ri_ds and pending_ri
    LeaseKey,     \* hashes of destinations, keys of ls_ds and pending_ls
    Floodfill,    \* the routers that are floodfill routers
    KeepRouters,  \* KEEP_ROUTERS
    MaxLookups,   \* bound: queries that clients make, stores apart
    MaxStores     \* bound: entries that arrive, those of reseeds apart

Key == RouterKey \cup LeaseKey

ASSUME KeyAssumption == RouterKey # {} /\ RouterKey \cap LeaseKey = {}
ASSUME FloodfillAssumption == Floodfill \subseteq RouterKey
ASSUME MaxLookupsAssumption == MaxLookups \in Nat
ASSUME MaxStoresAssumption == MaxStores \in Nat
ASSUME KeepRoutersAssumption == KeepRouters \in Nat

VARIABLES
    engine,      \* "up", or "down" once it has panicked
    client_rx,   \* queries on their way to the engine, in order
    ds,          \* what is stored at each key (ri_ds, ls_ds)
    pending,     \* for each key, the lookups whose senders are registered
    keyOf,       \* the key of each query
    stage,       \* where each query is
    nlookups,    \* number of queries made so far, stores apart
    nstores      \* number of entries that have arrived so far, those of reseeds apart

vars == <<engine, client_rx, ds, pending, keyOf, stage, nlookups, nstores>>

Lookup == 1 .. MaxLookups

\* A valid RouterInfo is published recently enough or not; both may be in the
\* database, since time passes and reseeds are not held to liveness.  A lease
\* set is current while one of its leases has not ended.
Entry == {"current", "stale"}
Absent == "absent"

\* What may arrive: "invalid" has the wrong key, signature or network.
RouterInfo == Entry \cup {"invalid"}

\* The queries other than stores; a RouterInfo may be asked for from a peer.
Op == {"KnownRouters", "SelectClosestFloodfill", "LookupRouterInfo", "LookupRouterInfoFrom", "LookupLeaseSet"}

\* "queued": on its way to the engine.  "waiting": joined to a pending lookup.
\* "searching": runs an iterative lookup.  The others are answers.
Answer == {"found", "not_found", "timed_out", "closed"}
Stage == {"free", "queued", "waiting", "searching"} \cup Answer

Active(i) == stage[i] \in {"waiting", "searching"}

Query == [op : Op, id : Lookup]
    \cup [op : {"StoreRouterInfo"}, key : RouterKey, ri : RouterInfo, from_reseed : BOOLEAN]
    \cup [op : {"StoreLeaseSet"}, key : LeaseKey, ls : Entry]

ReseedStore == [op : {"StoreRouterInfo"}, key : RouterKey, ri : RouterInfo, from_reseed : {TRUE}]

TypeOK ==
    /\ engine \in {"up", "down"}
    /\ client_rx \in Seq(Query)
    /\ ds \in [Key -> Entry \cup {Absent}]
    /\ pending \in [Key -> SUBSET Lookup]
    /\ keyOf \in [Lookup -> Key]
    /\ stage \in [Lookup -> Stage]
    /\ nlookups \in 0 .. MaxLookups
    /\ nstores \in 0 .. MaxStores

Init ==
    /\ engine = "up"
    /\ client_rx = <<>>
    /\ ds = [k \in Key |-> Absent]
    /\ pending = [k \in Key |-> {}]
    /\ keyOf \in [Lookup -> {CHOOSE k \in RouterKey : TRUE}]
    /\ stage = [i \in Lookup |-> "free"]
    /\ nlookups = 0
    /\ nstores = 0

\* The RouterInfos that known_routers counts.
Known == {k \in RouterKey : ds[k] # Absent}

\* select_closest_ff finds one.
FloodfillKnown == Known \cap Floodfill # {}

-----------------------------------------------------------------------------
(* Clients *)

\* A query is sent when its future is first polled, or refused when the engine
\* and with it the receiving end of the channel is gone.
Ask(o, k) ==
    /\ nlookups < MaxLookups
    /\ nlookups' = nlookups + 1
    /\ keyOf' = [keyOf EXCEPT ![nlookups + 1] = k]
    /\ IF engine = "up"
       THEN /\ client_rx' = Append(client_rx, [op |-> o, id |-> nlookups + 1])
            /\ stage' = [stage EXCEPT ![nlookups + 1] = "queued"]
       ELSE /\ stage' = [stage EXCEPT ![nlookups + 1] = "closed"]
            /\ UNCHANGED client_rx
    /\ UNCHANGED <<engine, ds, pending, nstores>>

\* Client::known_routers, which has no key
ClientKnownRouters == Ask("KnownRouters", CHOOSE k \in RouterKey : TRUE)

\* Client::select_closest_ff
ClientSelectClosestFloodfill(k) == k \in RouterKey /\ Ask("SelectClosestFloodfill", k)

\* Client::lookup_router_info
ClientLookupRouterInfo(k, from_peer) ==
    /\ k \in RouterKey
    /\ Ask(IF from_peer THEN "LookupRouterInfoFrom" ELSE "LookupRouterInfo", k)

\* Client::lookup_lease_set; the database makes no use of from_local_dest.
ClientLookupLeaseSet(k) == k \in LeaseKey /\ Ask("LookupLeaseSet", k)

\* Stores are sent as soon as their futures are polled; without an engine they
\* fail, and nothing changes.
SendStores(queries) ==
    /\ engine = "up"
    /\ client_rx' = client_rx \o queries
    /\ UNCHANGED <<engine, ds, pending, keyOf, stage, nlookups>>

CountStore == nstores < MaxStores /\ nstores' = nstores + 1

\* Client::store_router_info
ClientStoreRouterInfo(k, ri) ==
    /\ k \in RouterKey
    /\ SendStores(<<[op |-> "StoreRouterInfo", key |-> k, ri |-> ri, from_reseed |-> FALSE]>>)
    /\ CountStore

\* Client::store_router_info for each RouterInfo of a reseed, which select_all
\* polls one after the other.  Module Reseed bounds them.
ClientStoreReseeded(queries) ==
    /\ queries \in Seq(ReseedStore)
    /\ SendStores(queries)
    /\ UNCHANGED nstores

\* Client::store_lease_set
ClientStoreLeaseSet(k, ls) ==
    /\ k \in LeaseKey
    /\ SendStores(<<[op |-> "StoreLeaseSet", key |-> k, ls |-> ls]>>)
    /\ CountStore

-----------------------------------------------------------------------------
(* The database *)

\* As StoreEntry, forgetting who waits for the entry.
StoreWithoutNotifying(k, e) ==
    /\ ds' = [ds EXCEPT ![k] = e]
    /\ pending' = [pending EXCEPT ![k] = {}]
    /\ UNCHANGED stage

\* As StoreEntry, keeping the list of those who wait.
StoreKeepingPending(k, e) ==
    /\ ds' = [ds EXCEPT ![k] = e]
    /\ stage' = [i \in Lookup |-> IF i \in pending[k] /\ Active(i) THEN "found" ELSE stage[i]]
    /\ UNCHANGED pending

\* Those who wait for the entry are told, unless they have given up and their
\* receiver is gone, and it replaces what was stored.
StoreEntry(k, e) ==
    /\ ds' = [ds EXCEPT ![k] = e]
    /\ pending' = [pending EXCEPT ![k] = {}]
    /\ stage' = [i \in Lookup |-> IF i \in pending[k] /\ Active(i) THEN "found" ELSE stage[i]]

\* As Acceptable, without the verification of the signature.
AcceptUnverified(ri, from_reseed) == ri \in {"current", "invalid"} \/ from_reseed

\* The checks of store_router_info.
Acceptable(ri, from_reseed) == ri = "current" \/ (ri = "stale" /\ from_reseed)

StoreRouterInfo(k, ri, from_reseed) ==
    IF Acceptable(ri, from_reseed) THEN StoreEntry(k, ri) ELSE UNCHANGED <<ds, pending, stage>>

\* store_lease_set checks nothing.
StoreLeaseSet(k, ls) == StoreEntry(k, ls)

\* As LookupEntry, searching although another lookup does.
LookupAlwaysSearching(i, canAsk) ==
    LET k == keyOf[i] IN
    \/ /\ ds[k] # Absent
       /\ stage' = [stage EXCEPT ![i] = "found"]
       /\ UNCHANGED pending
    \/ /\ ds[k] = Absent
       /\ pending' = [pending EXCEPT ![k] = @ \cup {i}]
       /\ stage' = [stage EXCEPT ![i] = "searching"]

\* The entry is here; or somebody looks for it already; or there is a peer to
\* ask and lookup_db_entry registers and starts a search; or not.
LookupEntry(i, canAsk) ==
    LET k == keyOf[i] IN
    \/ /\ ds[k] # Absent
       /\ stage' = [stage EXCEPT ![i] = "found"]
       /\ UNCHANGED pending
    \/ /\ ds[k] = Absent
       /\ pending[k] # {}
       /\ pending' = [pending EXCEPT ![k] = @ \cup {i}]
       /\ stage' = [stage EXCEPT ![i] = "waiting"]
    \/ /\ ds[k] = Absent
       /\ pending[k] = {}
       /\ canAsk
       /\ pending' = [pending EXCEPT ![k] = {i}]
       /\ stage' = [stage EXCEPT ![i] = "searching"]
    \/ /\ ds[k] = Absent
       /\ pending[k] = {}
       /\ ~ canAsk
       /\ stage' = [stage EXCEPT ![i] = "not_found"]
       /\ UNCHANGED pending

\* The peer to ask is the one named or the closest floodfill router.
LookupRouterInfo(i, from_peer) == LookupEntry(i, from_peer \/ FloodfillKnown)

LookupLeaseSet(i) == LookupEntry(i, FloodfillKnown)

KnownRouters(i) ==
    /\ stage' = [stage EXCEPT ![i] = "found"]
    /\ UNCHANGED pending

SelectClosestFloodfill(i) ==
    /\ stage' = [stage EXCEPT ![i] = IF FloodfillKnown THEN "found" ELSE "not_found"]
    /\ UNCHANGED pending

-----------------------------------------------------------------------------
(* The engine *)

\* Query::handle, one branch each
HandleAsk ==
    /\ engine = "up"
    /\ client_rx # <<>>
    /\ client_rx' = Tail(client_rx)
    /\ LET q == Head(client_rx) IN
       \/ q.op = "KnownRouters" /\ KnownRouters(q.id)
       \/ q.op = "SelectClosestFloodfill" /\ SelectClosestFloodfill(q.id)
       \/ q.op = "LookupRouterInfo" /\ LookupRouterInfo(q.id, FALSE)
       \/ q.op = "LookupRouterInfoFrom" /\ LookupRouterInfo(q.id, TRUE)
       \/ q.op = "LookupLeaseSet" /\ LookupLeaseSet(q.id)
    /\ UNCHANGED <<engine, ds, keyOf, nlookups, nstores>>

HandleStore ==
    /\ engine = "up"
    /\ client_rx # <<>>
    /\ client_rx' = Tail(client_rx)
    /\ LET q == Head(client_rx) IN
       \/ q.op = "StoreRouterInfo" /\ StoreRouterInfo(q.key, q.ri, q.from_reseed)
       \/ q.op = "StoreLeaseSet" /\ StoreLeaseSet(q.key, q.ls)
    /\ UNCHANGED <<engine, keyOf, nlookups, nstores>>

\* A DatabaseStore from the network that holds a RouterInfo which passes every
\* check, or a lease set.
NetworkStore(k, e) ==
    /\ engine = "up"
    /\ k \in RouterKey => Acceptable(e, FALSE)
    /\ CountStore
    /\ StoreEntry(k, e)
    /\ UNCHANGED <<engine, client_rx, keyOf, nlookups>>

\* How a query ends when the engine is dropped.
WithoutEngine(st) ==
    IF st = "queued" THEN "closed"
    ELSE IF st = "waiting" THEN "timed_out"
    ELSE IF st = "searching" THEN "not_found"
    ELSE st

\* The engine panics and everything it owns is dropped.
Panic ==
    /\ engine = "up"
    /\ engine' = "down"
    /\ client_rx' = <<>>
    /\ pending' = [k \in Key |-> {}]
    /\ stage' = [i \in Lookup |-> WithoutEngine(stage[i])]
    /\ UNCHANGED <<ds, keyOf, nlookups>>

\* A DatabaseStore from the network whose RouterInfo fails a check: the engine
\* expects the store to succeed.
NetworkStoreRejected(ri) ==
    /\ ~ Acceptable(ri, FALSE)
    /\ CountStore
    /\ Panic

\* The engine starts a reseed, and the name of the first reseed host does not
\* resolve: HttpsReseeder::new runs in the task of the engine.
ReseedUnresolved == Panic /\ UNCHANGED nstores

\* expire_router_infos, on its timer and only with enough routers: the stale
\* entries go, except those of connected peers.
ExpireRouterInfos(connected) ==
    /\ engine = "up"
    /\ Cardinality(Known) >= KeepRouters
    /\ ds' = [k \in Key |-> IF k \in RouterKey \ connected /\ ds[k] = "stale" THEN Absent ELSE ds[k]]
    /\ UNCHANGED <<engine, client_rx, pending, keyOf, stage, nlookups, nstores>>

\* LeaseSet::is_current compares the end of the last lease with the clock, and
\* is true once it has passed.
IsCurrent(ls) == ls = "stale"

\* expire_lease_sets, on its timer
ExpireLeaseSets ==
    /\ engine = "up"
    /\ ds' = [k \in Key |-> IF k \in LeaseKey /\ ~ IsCurrent(ds[k]) THEN Absent ELSE ds[k]]
    /\ UNCHANGED <<engine, client_rx, pending, keyOf, stage, nlookups, nstores>>

\* Time passes and a stored entry is no longer current.
GrowStale(k) ==
    /\ engine = "up"
    /\ ds[k] = "current"
    /\ ds' = [ds EXCEPT ![k] = "stale"]
    /\ UNCHANGED <<engine, client_rx, pending, keyOf, stage, nlookups, nstores>>

-----------------------------------------------------------------------------
(* Lookup tasks *)

\* The iterative lookup has no more peers to try.  The sender that the lookup
\* registered stays in the table.
SearchExhausted(i) ==
    /\ stage[i] = "searching"
    /\ stage' = [stage EXCEPT ![i] = "not_found"]
    /\ UNCHANGED <<engine, client_rx, ds, pending, keyOf, nlookups, nstores>>

\* As SearchTimesOut, for RouterInfos only.
RouterSearchTimesOut(i) ==
    /\ stage[i] = "searching"
    /\ keyOf[i] \in RouterKey
    /\ stage' = [stage EXCEPT ![i] = "timed_out"]
    /\ UNCHANGED <<engine, client_rx, ds, pending, keyOf, nlookups, nstores>>

\* The timeout of lookup_db_entry.  Again the sender stays in the table.
SearchTimesOut(i) ==
    /\ stage[i] = "searching"
    /\ stage' = [stage EXCEPT ![i] = "timed_out"]
    /\ UNCHANGED <<engine, client_rx, ds, pending, keyOf, nlookups, nstores>>

-----------------------------------------------------------------------------
HandleQuery == HandleAsk \/ HandleStore

ClientStep ==
    \/ ClientKnownRouters
    \/ \E k \in Key : \/ ClientSelectClosestFloodfill(k)
                      \/ \E from_peer \in BOOLEAN : ClientLookupRouterInfo(k, from_peer)
                      \/ ClientLookupLeaseSet(k)
                      \/ \E ri \in RouterInfo : ClientStoreRouterInfo(k, ri)
                      \/ \E ls \in Entry : ClientStoreLeaseSet(k, ls)

NetworkStep ==
    \/ \E k \in Key, e \in Entry : NetworkStore(k, e)
    \/ \E ri \in RouterInfo : NetworkStoreRejected(ri)

TimeStep ==
    \/ \E k \in Key : GrowStale(k)
    \/ \E connected \in SUBSET RouterKey : ExpireRouterInfos(connected)
    \/ ExpireLeaseSets
    \/ \E i \in Lookup : SearchExhausted(i) \/ SearchTimesOut(i)

ReseedStep ==
    \/ ReseedUnresolved
    \/ \E queries \in Seq(ReseedStore) : ClientStoreReseeded(queries)

Next == ClientStep \/ HandleQuery \/ NetworkStep \/ TimeStep \/ ReseedStep

Spec == Init /\ [][Next]_vars

\* The engine is woken by its channels, and a timer that is set fires.
FairSpec ==
    /\ Spec
    /\ WF_vars(HandleQuery)
    /\ \A i \in Lookup : WF_vars(SearchTimesOut(i))

-----------------------------------------------------------------------------
(* Properties *)

\* A lookup that has no answer yet is registered for its key and the key is
\* not in the database: no entry can be stored without the lookup
\* hearing of it, and none is overlooked between the miss and the
\* registration.
ActiveLookupsRegistered ==
    \A i \in Lookup : Active(i) =>
        i \in pending[keyOf[i]] /\ ds[keyOf[i]] = Absent

\* A key is never both stored and pending.
PendingNotStored == \A k \in Key : pending[k] # {} => ds[k] = Absent

\* The network is searched for a key by one lookup at a time.
OneSearchPerKey ==
    \A i, j \in Lookup :
        stage[i] = "searching" /\ stage[j] = "searching" /\ keyOf[i] = keyOf[j] => i = j

\* Lookups are numbered as they are made, and only those made have a query.
LookupsNumbered ==
    /\ \A i \in Lookup : i > nlookups => stage[i] = "free"
    /\ \A n \in DOMAIN client_rx : client_rx[n].op \in Op => client_rx[n].id <= nlookups

\* The inductive invariant behind the properties above.
IInv ==
    /\ TypeOK
    /\ LookupsNumbered
    /\ ActiveLookupsRegistered
    /\ PendingNotStored
    /\ OneSearchPerKey

Searched(k) == \E j \in Lookup : stage[j] = "searching" /\ keyOf[j] = k

\* A lookup is answered, unless it has joined a lookup of the same key and
\* that has ended without a result, or has ended with the process.
LookupsSettle ==
    \A i \in Lookup :
        stage[i] = "queued" ~>
            \/ stage[i] \in Answer \cup {"free"}
            \/ stage[i] = "waiting" /\ ~ Searched(keyOf[i])

\* Client::lookup_router_info promises a remote lookup if the key is not found
\* locally: a lookup that joins others joins one that searches.
JoinsARunningSearch ==
    [][\A i \in Lookup : stage[i] # "waiting" /\ stage'[i] = "waiting" => Searched(keyOf[i])]_vars
=============================================================================
