---------------------------- MODULE NetDbProofs ----------------------------
(***************************************************************************)
(* Proofs about the network database: whatever the routers, the lease sets,  *)
(* the floodfill routers and the number of queries and stores, no lookup     *)
(* misses an entry and no key is searched for twice at a time.               *)
(***************************************************************************)
EXTENDS NetDb, TLAPS

\* The queries at the head of the queue and behind it are queries.
LEMMA QueueFacts ==
    ASSUME NEW S, NEW q \in Seq(S), q # <<>>
    PROVE  /\ Head(q) \in S
           /\ Head(q) = q[1]
           /\ 1 \in DOMAIN q
           /\ Tail(q) \in Seq(S)
           /\ DOMAIN Tail(q) = 1 .. Len(q) - 1
           /\ \A n \in DOMAIN Tail(q) : n + 1 \in DOMAIN q /\ Tail(q)[n] = q[n + 1]
  OBVIOUS

\* What the queue holds after a query has been sent.
LEMMA AppendFacts ==
    ASSUME NEW S, NEW q \in Seq(S), NEW e \in S
    PROVE  /\ Append(q, e) \in Seq(S)
           /\ \A n \in DOMAIN Append(q, e) :
                 (n \in DOMAIN q /\ Append(q, e)[n] = q[n]) \/ Append(q, e)[n] = e
  OBVIOUS

\* What the queue holds after stores have been sent.
LEMMA ConcatFacts ==
    ASSUME NEW S, NEW q \in Seq(S), NEW r \in Seq(S)
    PROVE  /\ q \o r \in Seq(S)
           /\ \A n \in DOMAIN (q \o r) :
                 \/ n \in DOMAIN q /\ (q \o r)[n] = q[n]
                 \/ n - Len(q) \in DOMAIN r /\ (q \o r)[n] = r[n - Len(q)]
  OBVIOUS

\* A query asks by its number or stores at its key.
LEMMA QueryFacts ==
    ASSUME NEW q \in Query
    PROVE  /\ q.op \in Op => q.id \in Lookup
           /\ q.op = "StoreRouterInfo" => q.key \in Key /\ q.ri \in RouterInfo
           /\ q.op = "StoreLeaseSet" => q.key \in Key /\ q.ls \in Entry
  BY DEF Query, Key, Op

\* The invariant holds in the initial states.
LEMMA InitInvariant == Init => IInv
  <1> SUFFICES ASSUME Init PROVE IInv
    OBVIOUS
  <1>1. TypeOK
    BY KeyAssumption, MaxLookupsAssumption, MaxStoresAssumption
       DEF Init, TypeOK, Lookup, Stage, Entry, Op, Key
  <1>2. LookupsNumbered
    BY DEF Init, LookupsNumbered
  <1>3. ActiveLookupsRegistered /\ PendingNotStored /\ OneSearchPerKey
    BY DEF Init, ActiveLookupsRegistered, Active, PendingNotStored, OneSearchPerKey
  <1> QED
    BY <1>1, <1>2, <1>3 DEF IInv

\* A client that makes a lookup or a store disturbs no other lookup.
LEMMA ClientInvariant ==
    ASSUME IInv, NEW k \in Key,
           \/ \E o \in Op : Ask(o, k)
           \/ \E queries \in Seq(Query) :
                 /\ \A n \in DOMAIN queries : queries[n].op \notin Op
                 /\ SendStores(queries)
                 /\ CountStore \/ UNCHANGED nstores
    PROVE  IInv'
  <1>1. ASSUME NEW o \in Op, Ask(o, k)
        PROVE  IInv'
    <2> DEFINE i == nlookups + 1
    <2> DEFINE q == [op |-> o, id |-> i]
    <2>1. i \in Lookup /\ q \in Query
      BY <1>1, MaxLookupsAssumption DEF IInv, TypeOK, Ask, Lookup, Query
    <2>2. stage[i] = "free"
      BY <1>1, <2>1 DEF IInv, TypeOK, LookupsNumbered, Lookup
    <2>3. /\ client_rx' = client_rx \/ client_rx' = Append(client_rx, q)
          /\ \E st \in {"queued", "closed"} : stage' = [stage EXCEPT ![i] = st]
      BY <1>1 DEF Ask
    <2>a. q.id = i
      OBVIOUS
    <2> HIDE DEF q
    <2>b. client_rx \in Seq(Query)
      BY DEF IInv, TypeOK
    <2>4. client_rx' \in Seq(Query)
      BY <2>1, <2>3, <2>b
    <2>5. stage' \in [Lookup -> Stage]
      BY <2>1, <2>3 DEF IInv, TypeOK, Stage, Answer
    <2>6. TypeOK'
      BY <1>1, <2>1, <2>4, <2>5, MaxLookupsAssumption DEF IInv, TypeOK, Ask
    <2>7. LookupsNumbered'
      <3>1. \A j \in Lookup : j > nlookups' => stage'[j] = "free"
        BY <1>1, <2>1, <2>3 DEF IInv, TypeOK, LookupsNumbered, Ask, Lookup
      <3>2. ASSUME NEW n \in DOMAIN client_rx', client_rx'[n].op \in Op
            PROVE  client_rx'[n].id <= nlookups'
        <4>1. nlookups' = nlookups + 1 /\ nlookups \in Nat
          BY <1>1 DEF IInv, TypeOK, Ask
        <4>2. (n \in DOMAIN client_rx /\ client_rx'[n] = client_rx[n]) \/ client_rx'[n] = q
          <5>1. CASE client_rx' = client_rx
            BY <5>1
          <5>2. CASE client_rx' = Append(client_rx, q)
            BY <2>1, <2>b, <5>2, AppendFacts
          <5> QED
            BY <2>3, <5>1, <5>2
        <4>3. CASE n \in DOMAIN client_rx /\ client_rx'[n] = client_rx[n]
          <5>1. client_rx[n] \in Query
            BY <4>3 DEF IInv, TypeOK
          <5>2. client_rx[n].id \in Lookup /\ client_rx[n].id <= nlookups
            BY <3>2, <4>3, <5>1, QueryFacts DEF IInv, LookupsNumbered
          <5> QED
            BY <4>1, <4>3, <5>2 DEF Lookup
        <4> QED
          BY <2>a, <4>1, <4>2, <4>3
      <3> QED
        BY <3>1, <3>2 DEF LookupsNumbered
    <2>8. \A j \in Lookup : Active(j)' => j # i /\ Active(j) /\ stage'[j] = stage[j] /\ keyOf'[j] = keyOf[j]
      BY <1>1, <2>1, <2>3 DEF IInv, TypeOK, Active, Ask
    <2>9. ActiveLookupsRegistered' /\ PendingNotStored'
      BY <1>1, <2>8 DEF IInv, ActiveLookupsRegistered, PendingNotStored, Ask
    <2>10. OneSearchPerKey'
      BY <2>8 DEF IInv, OneSearchPerKey, Active
    <2> QED
      BY <2>6, <2>7, <2>9, <2>10 DEF IInv
  <1>2. ASSUME NEW queries \in Seq(Query), \A n \in DOMAIN queries : queries[n].op \notin Op,
               SendStores(queries), CountStore \/ UNCHANGED nstores
        PROVE  IInv'
    <2>1. client_rx \in Seq(Query)
      BY DEF IInv, TypeOK
    <2>2. client_rx' = client_rx \o queries
      BY <1>2 DEF SendStores
    <2>a. nstores' \in 0 .. MaxStores
      BY <1>2, MaxStoresAssumption DEF IInv, TypeOK, CountStore
    <2>b. client_rx' \in Seq(Query)
      BY <2>1, <2>2, ConcatFacts
    <2>3. TypeOK'
      BY <1>2, <2>a, <2>b DEF IInv, TypeOK, SendStores
    <2>4. LookupsNumbered'
      <3>1. ASSUME NEW n \in DOMAIN client_rx', client_rx'[n].op \in Op
            PROVE  client_rx'[n].id <= nlookups'
        <4>1. n \in DOMAIN client_rx /\ client_rx'[n] = client_rx[n]
          BY <1>2, <2>1, <2>2, <3>1, ConcatFacts
        <4> QED
          BY <1>2, <3>1, <4>1 DEF IInv, LookupsNumbered, SendStores
      <3> QED
        BY <1>2, <3>1 DEF IInv, LookupsNumbered, SendStores
    <2>5. ActiveLookupsRegistered' /\ PendingNotStored' /\ OneSearchPerKey'
      BY <1>2 DEF IInv, ActiveLookupsRegistered, Active, PendingNotStored, OneSearchPerKey, SendStores
    <2> QED
      BY <2>3, <2>4, <2>5 DEF IInv
  <1> QED
    BY <1>1, <1>2

\* Storing an entry answers the lookups that wait for it and no others.
LEMMA StoreInvariant ==
    ASSUME IInv, NEW k \in Key, NEW e \in Entry, StoreEntry(k, e),
           UNCHANGED <<keyOf, nlookups>>
    PROVE  /\ ds' \in [Key -> Entry \cup {Absent}]
           /\ pending' \in [Key -> SUBSET Lookup]
           /\ stage' \in [Lookup -> Stage]
           /\ \A i \in Lookup : i > nlookups' => stage'[i] = "free"
           /\ ActiveLookupsRegistered'
           /\ PendingNotStored'
           /\ OneSearchPerKey'
  <1>1. ds' \in [Key -> Entry \cup {Absent}] /\ pending' \in [Key -> SUBSET Lookup]
    BY DEF IInv, TypeOK, StoreEntry
  <1>2. stage' \in [Lookup -> Stage]
    BY DEF IInv, TypeOK, StoreEntry, Stage, Answer
  <1>3. \A i \in Lookup : i > nlookups' => stage'[i] = "free"
    BY DEF IInv, TypeOK, LookupsNumbered, StoreEntry, Active
  <1>4. \A i \in Lookup : Active(i)' => Active(i) /\ stage'[i] = stage[i] /\ i \notin pending[k]
    BY DEF IInv, TypeOK, StoreEntry, Active
  <1>5. \A i \in Lookup : Active(i)' => keyOf[i] \in Key /\ keyOf[i] # k
    BY <1>4 DEF IInv, TypeOK, ActiveLookupsRegistered
  <1>6. ActiveLookupsRegistered'
    BY <1>4, <1>5 DEF IInv, TypeOK, ActiveLookupsRegistered, StoreEntry
  <1>7. PendingNotStored'
    BY DEF IInv, TypeOK, PendingNotStored, StoreEntry
  <1>8. OneSearchPerKey'
    BY <1>4 DEF IInv, OneSearchPerKey, Active
  <1> QED
    BY <1>1, <1>2, <1>3, <1>6, <1>7, <1>8

\* The engine answers a lookup, lets it join others, or lets it search when
\* nobody is registered for its key.
LEMMA LookupInvariant ==
    ASSUME IInv, NEW i \in Lookup, i <= nlookups,
           \/ \E canAsk \in BOOLEAN : LookupEntry(i, canAsk)
           \/ KnownRouters(i)
           \/ SelectClosestFloodfill(i),
           UNCHANGED <<ds, keyOf, nlookups>>
    PROVE  /\ pending' \in [Key -> SUBSET Lookup]
           /\ stage' \in [Lookup -> Stage]
           /\ \A j \in Lookup : j > nlookups' => stage'[j] = "free"
           /\ ActiveLookupsRegistered'
           /\ PendingNotStored'
           /\ OneSearchPerKey'
  <1> DEFINE k == keyOf[i]
  <1>1. k \in Key
    BY DEF IInv, TypeOK
  <1>2. \E st \in {"found", "waiting", "searching", "not_found"} :
           stage' = [stage EXCEPT ![i] = st]
    BY DEF LookupEntry, KnownRouters, SelectClosestFloodfill
  <1>3. stage' \in [Lookup -> Stage]
    BY <1>2 DEF IInv, TypeOK, Stage, Answer
  <1>4. \A j \in Lookup : j > nlookups' => stage'[j] = "free"
    BY <1>2 DEF IInv, TypeOK, LookupsNumbered, Lookup
  <1>5. \A j \in Lookup \ {i} : stage'[j] = stage[j]
    BY <1>2 DEF IInv, TypeOK
  <1>6. CASE pending' = pending /\ stage'[i] \in {"found", "not_found"}
    BY <1>3, <1>4, <1>5, <1>6
       DEF IInv, TypeOK, ActiveLookupsRegistered, PendingNotStored, OneSearchPerKey, Active
  <1>7. CASE /\ ds[k] = Absent
             /\ pending' = [pending EXCEPT ![k] = @ \cup {i}]
             /\ stage'[i] = "waiting"
    <2>1. pending' \in [Key -> SUBSET Lookup]
      BY <1>1, <1>7 DEF IInv, TypeOK
    <2>2. i \in pending'[k] /\ \A m \in Key : pending[m] \subseteq pending'[m]
      BY <1>1, <1>7 DEF IInv, TypeOK
    <2>3. ActiveLookupsRegistered'
      BY <1>5, <1>7, <2>2 DEF IInv, TypeOK, ActiveLookupsRegistered, Active
    <2>4. PendingNotStored'
      BY <1>1, <1>7 DEF IInv, TypeOK, PendingNotStored
    <2>5. OneSearchPerKey'
      BY <1>5, <1>7 DEF IInv, OneSearchPerKey
    <2> QED
      BY <1>3, <1>4, <2>1, <2>3, <2>4, <2>5
  <1>8. CASE /\ ds[k] = Absent
             /\ pending[k] = {}
             /\ pending' = [pending EXCEPT ![k] = {i}]
             /\ stage'[i] = "searching"
    <2>1. pending' \in [Key -> SUBSET Lookup]
      BY <1>1, <1>8 DEF IInv, TypeOK
    <2>2. i \in pending'[k] /\ \A m \in Key : pending[m] \subseteq pending'[m]
      BY <1>1, <1>8 DEF IInv, TypeOK
    <2>3. ActiveLookupsRegistered'
      BY <1>5, <1>8, <2>2 DEF IInv, TypeOK, ActiveLookupsRegistered, Active
    <2>4. PendingNotStored'
      BY <1>1, <1>8 DEF IInv, TypeOK, PendingNotStored
    <2>5. \A j \in Lookup \ {i} : stage'[j] = "searching" => keyOf[j] # k
      BY <1>5, <1>8 DEF IInv, ActiveLookupsRegistered, Active
    <2>6. OneSearchPerKey'
      BY <1>5, <2>5 DEF IInv, OneSearchPerKey
    <2> QED
      BY <1>3, <1>4, <2>1, <2>3, <2>4, <2>6
  <1>9. stage'[i] \in {"found", "waiting", "searching", "not_found"} /\ stage \in [Lookup -> Stage]
    BY <1>2 DEF IInv, TypeOK
  <1> QED
    BY <1>6, <1>7, <1>8, <1>9 DEF LookupEntry, KnownRouters, SelectClosestFloodfill, IInv, TypeOK

\* Handling a query keeps the invariant.
LEMMA QueryInvariant == ASSUME IInv, HandleQuery PROVE IInv'
  <1> DEFINE q == Head(client_rx)
  <1>1. client_rx # <<>> /\ client_rx' = Tail(client_rx)
    BY DEF HandleQuery, HandleAsk, HandleStore
  <1>2. /\ q \in Query
        /\ q = client_rx[1]
        /\ 1 \in DOMAIN client_rx
        /\ client_rx' \in Seq(Query)
        /\ \A n \in DOMAIN client_rx' : n + 1 \in DOMAIN client_rx /\ client_rx'[n] = client_rx[n + 1]
    BY <1>1, QueueFacts DEF IInv, TypeOK
  <1> HIDE DEF q
  <1>3. UNCHANGED <<engine, keyOf, nlookups, nstores>>
    BY DEF HandleQuery, HandleAsk, HandleStore
  <1>4. \A n \in DOMAIN client_rx' : client_rx'[n].op \in Op => client_rx'[n].id <= nlookups'
    BY <1>2, <1>3 DEF IInv, LookupsNumbered
  <1>5. CASE HandleAsk
    <2>1. /\ q.op \in Op /\ UNCHANGED ds
          /\ \/ \E canAsk \in BOOLEAN : LookupEntry(q.id, canAsk)
             \/ KnownRouters(q.id)
             \/ SelectClosestFloodfill(q.id)
      BY <1>5 DEF HandleAsk, LookupRouterInfo, LookupLeaseSet, FloodfillKnown, Op, q
    <2>2. q.id \in Lookup /\ q.id <= nlookups
      BY <1>2, <2>1, QueryFacts DEF IInv, LookupsNumbered
    <2>3. /\ pending' \in [Key -> SUBSET Lookup]
          /\ stage' \in [Lookup -> Stage]
          /\ \A j \in Lookup : j > nlookups' => stage'[j] = "free"
          /\ ActiveLookupsRegistered' /\ PendingNotStored' /\ OneSearchPerKey'
      BY <1>3, <2>1, <2>2, LookupInvariant
    <2> QED
      BY <1>2, <1>3, <1>4, <2>1, <2>3 DEF IInv, TypeOK, LookupsNumbered
  <1>6. CASE HandleStore
    <2>1. \/ UNCHANGED <<ds, pending, stage>>
          \/ \E k \in Key, e \in Entry : StoreEntry(k, e)
      <3>1. CASE q.op = "StoreRouterInfo" /\ StoreRouterInfo(q.key, q.ri, q.from_reseed)
        <4>1. Acceptable(q.ri, q.from_reseed) => q.key \in Key /\ q.ri \in Entry
          BY <1>2, <3>1, QueryFacts DEF Acceptable, Entry
        <4> QED
          BY <3>1, <4>1 DEF StoreRouterInfo
      <3>2. CASE q.op = "StoreLeaseSet" /\ StoreLeaseSet(q.key, q.ls)
        BY <1>2, <3>2, QueryFacts DEF StoreLeaseSet
      <3> QED
        BY <1>6, <3>1, <3>2 DEF HandleStore, q
    <2>2. CASE UNCHANGED <<ds, pending, stage>>
      BY <1>2, <1>3, <1>4, <2>2
         DEF IInv, TypeOK, LookupsNumbered, ActiveLookupsRegistered, Active, PendingNotStored, OneSearchPerKey
    <2>3. ASSUME NEW k \in Key, NEW e \in Entry, StoreEntry(k, e)
          PROVE  IInv'
      <3>1. /\ ds' \in [Key -> Entry \cup {Absent}]
            /\ pending' \in [Key -> SUBSET Lookup]
            /\ stage' \in [Lookup -> Stage]
            /\ \A i \in Lookup : i > nlookups' => stage'[i] = "free"
            /\ ActiveLookupsRegistered' /\ PendingNotStored' /\ OneSearchPerKey'
        BY <1>3, <2>3, StoreInvariant
      <3> QED
        BY <1>2, <1>3, <1>4, <3>1 DEF IInv, TypeOK, LookupsNumbered
    <2> QED
      BY <2>1, <2>2, <2>3
  <1> QED
    BY <1>5, <1>6 DEF HandleQuery

\* A DatabaseStore from the network keeps the invariant, and so does the end of
\* the engine.
LEMMA NetworkInvariant ==
    ASSUME IInv, NEW k \in Key, NEW e \in Entry, NEW ri \in RouterInfo,
           NetworkStore(k, e) \/ NetworkStoreRejected(ri) \/ ReseedUnresolved
    PROVE  IInv'
  <1>1. CASE NetworkStore(k, e)
    <2>1. StoreEntry(k, e) /\ UNCHANGED <<engine, client_rx, keyOf, nlookups>>
      BY <1>1 DEF NetworkStore
    <2>2. nstores' \in 0 .. MaxStores
      BY <1>1, MaxStoresAssumption DEF NetworkStore, CountStore, IInv, TypeOK
    <2>3. /\ ds' \in [Key -> Entry \cup {Absent}]
          /\ pending' \in [Key -> SUBSET Lookup]
          /\ stage' \in [Lookup -> Stage]
          /\ \A i \in Lookup : i > nlookups' => stage'[i] = "free"
          /\ ActiveLookupsRegistered' /\ PendingNotStored' /\ OneSearchPerKey'
      BY <2>1, StoreInvariant
    <2> QED
      BY <2>1, <2>2, <2>3 DEF IInv, TypeOK, LookupsNumbered
  <1>2. CASE NetworkStoreRejected(ri) \/ ReseedUnresolved
    <2>1. nstores' \in 0 .. MaxStores
      <3>1. nstores \in 0 .. MaxStores
        BY DEF IInv, TypeOK
      <3>2. nstores' = nstores \/ (nstores < MaxStores /\ nstores' = nstores + 1)
        BY <1>2 DEF NetworkStoreRejected, ReseedUnresolved, CountStore
      <3> QED
        BY <3>1, <3>2, MaxStoresAssumption
    <2>2. /\ client_rx' = <<>> /\ engine' = "down"
          /\ pending' = [m \in Key |-> {}]
          /\ UNCHANGED <<ds, keyOf, nlookups>>
      BY <1>2 DEF NetworkStoreRejected, ReseedUnresolved, Panic
    <2>3. stage' \in [Lookup -> Stage]
      BY <1>2 DEF NetworkStoreRejected, ReseedUnresolved, Panic, WithoutEngine, IInv, TypeOK, Stage, Answer
    <2>4. \A i \in Lookup : ~ Active(i)' /\ (stage[i] = "free" => stage'[i] = "free")
      BY <1>2 DEF NetworkStoreRejected, ReseedUnresolved, Panic, WithoutEngine, Active
    <2>5. TypeOK'
      BY <2>1, <2>2, <2>3 DEF IInv, TypeOK
    <2>6. LookupsNumbered'
      BY <2>2, <2>4 DEF IInv, LookupsNumbered
    <2> QED
      BY <2>2, <2>4, <2>5, <2>6
         DEF IInv, ActiveLookupsRegistered, Active, PendingNotStored, OneSearchPerKey
  <1> QED
    BY <1>1, <1>2

\* Entries that age or expire, and searches that end, keep the invariant.
LEMMA TimeInvariant ==
    ASSUME IInv,
           \/ \E k \in Key : GrowStale(k)
           \/ \E connected \in SUBSET RouterKey : ExpireRouterInfos(connected)
           \/ ExpireLeaseSets
           \/ \E i \in Lookup : SearchExhausted(i) \/ SearchTimesOut(i)
    PROVE  IInv'
  <1>1. ASSUME NEW k \in Key, GrowStale(k)
        PROVE  IInv'
    <2>1. /\ ds' \in [Key -> Entry \cup {Absent}]
          /\ \A m \in Key : ds[m] = Absent => ds'[m] = Absent
      BY <1>1 DEF GrowStale, IInv, TypeOK, Entry, Absent
    <2> QED
      BY <1>1, <2>1 DEF GrowStale, IInv, TypeOK, LookupsNumbered, ActiveLookupsRegistered,
                        Active, PendingNotStored, OneSearchPerKey
  <1>2. ASSUME (\E connected \in SUBSET RouterKey : ExpireRouterInfos(connected)) \/ ExpireLeaseSets
        PROVE  IInv'
    <2>1. /\ ds' \in [Key -> Entry \cup {Absent}]
          /\ \A m \in Key : ds[m] = Absent => ds'[m] = Absent
      BY <1>2 DEF ExpireRouterInfos, ExpireLeaseSets, IInv, TypeOK
    <2> QED
      BY <1>2, <2>1 DEF ExpireRouterInfos, ExpireLeaseSets, IInv, TypeOK, LookupsNumbered, ActiveLookupsRegistered,
                        Active, PendingNotStored, OneSearchPerKey
  <1>3. ASSUME NEW i \in Lookup, SearchExhausted(i) \/ SearchTimesOut(i)
        PROVE  IInv'
    <2>1. /\ stage[i] = "searching"
          /\ \E st \in {"not_found", "timed_out"} : stage' = [stage EXCEPT ![i] = st]
          /\ UNCHANGED <<engine, client_rx, ds, pending, keyOf, nlookups, nstores>>
      BY <1>3 DEF SearchExhausted, SearchTimesOut
    <2>2. TypeOK'
      BY <2>1 DEF IInv, TypeOK, Stage, Answer
    <2>3. \A j \in Lookup : /\ Active(j)' => Active(j) /\ stage'[j] = stage[j]
                            /\ stage[j] = "free" => stage'[j] = "free"
      BY <2>1 DEF IInv, TypeOK, Active
    <2>4. LookupsNumbered'
      BY <2>1, <2>3 DEF IInv, LookupsNumbered
    <2> QED
      BY <2>1, <2>2, <2>3, <2>4
         DEF IInv, ActiveLookupsRegistered, Active, PendingNotStored, OneSearchPerKey
  <1> QED
    BY <1>1, <1>2, <1>3

\* Every step keeps the invariant.
LEMMA NextInvariant == IInv /\ [Next]_vars => IInv'
  <1> SUFFICES ASSUME IInv, [Next]_vars PROVE IInv'
    OBVIOUS
  <1>1. CASE UNCHANGED vars
    BY <1>1 DEF vars, IInv, TypeOK, LookupsNumbered, ActiveLookupsRegistered, Active,
                PendingNotStored, OneSearchPerKey
  <1>2. CASE HandleQuery
    BY <1>2, QueryInvariant
  <1>3. ASSUME NEW k \in Key,
               \/ ClientKnownRouters
               \/ ClientSelectClosestFloodfill(k)
               \/ \E from_peer \in BOOLEAN : ClientLookupRouterInfo(k, from_peer)
               \/ ClientLookupLeaseSet(k)
        PROVE  IInv'
    <2>1. \E m \in Key, o \in Op : Ask(o, m)
      BY <1>3, KeyAssumption DEF ClientKnownRouters, ClientSelectClosestFloodfill, ClientLookupRouterInfo,
                                 ClientLookupLeaseSet, Op, Key
    <2> QED
      BY <2>1, ClientInvariant
  <1>4. ASSUME \/ \E k \in Key, ri \in RouterInfo : ClientStoreRouterInfo(k, ri)
               \/ \E k \in Key, e \in Entry : ClientStoreLeaseSet(k, e)
               \/ \E queries \in Seq(ReseedStore) : ClientStoreReseeded(queries)
        PROVE  IInv'
    <2> DEFINE Sent(queries) == /\ \A n \in DOMAIN queries : queries[n].op \notin Op
                                /\ SendStores(queries)
                                /\ CountStore \/ UNCHANGED nstores
    <2>1. ASSUME NEW k \in Key, NEW ri \in RouterInfo, ClientStoreRouterInfo(k, ri)
          PROVE  \E queries \in Seq(Query) : Sent(queries)
      <3> DEFINE q == [op |-> "StoreRouterInfo", key |-> k, ri |-> ri, from_reseed |-> FALSE]
      <3>1. q \in Query /\ q.op \notin Op /\ SendStores(<<q>>) /\ CountStore
        BY <2>1 DEF ClientStoreRouterInfo, Query, Op
      <3> HIDE DEF q
      <3>2. Sent(<<q>>) /\ <<q>> \in Seq(Query)
        BY <3>1
      <3> QED
        BY <3>2
    <2>2. ASSUME NEW k \in Key, NEW e \in Entry, ClientStoreLeaseSet(k, e)
          PROVE  \E queries \in Seq(Query) : Sent(queries)
      <3> DEFINE q == [op |-> "StoreLeaseSet", key |-> k, ls |-> e]
      <3>1. q \in Query /\ q.op \notin Op /\ SendStores(<<q>>) /\ CountStore
        BY <2>2 DEF ClientStoreLeaseSet, Query, Op
      <3> HIDE DEF q
      <3>2. Sent(<<q>>) /\ <<q>> \in Seq(Query)
        BY <3>1
      <3> QED
        BY <3>2
    <2>3. ASSUME NEW queries \in Seq(ReseedStore), ClientStoreReseeded(queries)
          PROVE  queries \in Seq(Query) /\ Sent(queries)
      <3>1. \A q \in ReseedStore : q \in Query /\ q.op \notin Op
        BY DEF ReseedStore, Query, Op
      <3>2. SendStores(queries) /\ UNCHANGED nstores
        BY <2>3 DEF ClientStoreReseeded
      <3> QED
        BY <3>1, <3>2
    <2>4. \E queries \in Seq(Query) : Sent(queries)
      BY <1>4, <2>1, <2>2, <2>3
    <2> QED
      BY <2>4, KeyAssumption, ClientInvariant DEF Key
  <1>5. ASSUME NEW k \in Key, NEW e \in Entry, NetworkStore(k, e) PROVE IInv'
    BY <1>5, NetworkInvariant DEF RouterInfo
  <1>6. ASSUME NEW ri \in RouterInfo, NetworkStoreRejected(ri) \/ ReseedUnresolved PROVE IInv'
    BY <1>6, KeyAssumption, NetworkInvariant DEF Key, Entry
  <1>7. CASE \/ \E k \in Key : GrowStale(k)
             \/ \E connected \in SUBSET RouterKey : ExpireRouterInfos(connected)
             \/ ExpireLeaseSets
             \/ \E i \in Lookup : SearchExhausted(i) \/ SearchTimesOut(i)
    BY <1>7, TimeInvariant
  <1>8. CASE ClientKnownRouters
    BY <1>3, <1>8, KeyAssumption DEF Key
  <1>9. CASE ReseedUnresolved
    BY <1>6, <1>9 DEF RouterInfo
  <1> QED
    BY <1>1, <1>2, <1>3, <1>4, <1>5, <1>6, <1>7, <1>8, <1>9
       DEF Next, ClientStep, NetworkStep, TimeStep, ReseedStep

\* The inductive invariant holds in every reachable state of the database.
THEOREM Invariance == Spec => []IInv
  BY InitInvariant, NextInvariant, PTL DEF Spec

\* Type correctness of the database, its queries and its lookups.
THEOREM TypeCorrect == Spec => []TypeOK
  <1>1. IInv => TypeOK
    BY DEF IInv
  <1> QED
    BY <1>1, Invariance, PTL

\* A lookup without an answer is registered for its key, and the key is not in
\* the database: no store can pass a lookup by.
THEOREM ActiveAlways == Spec => []ActiveLookupsRegistered
  <1>1. IInv => ActiveLookupsRegistered
    BY DEF IInv
  <1> QED
    BY <1>1, Invariance, PTL

\* No key is both stored and pending, leftover registrations included.
THEOREM PendingAlways == Spec => []PendingNotStored
  <1>1. IInv => PendingNotStored
    BY DEF IInv
  <1> QED
    BY <1>1, Invariance, PTL

\* lookup_db_entry never runs twice at a time for a key.
THEOREM OneSearchAlways == Spec => []OneSearchPerKey
  <1>1. IInv => OneSearchPerKey
    BY DEF IInv
  <1> QED
    BY <1>1, Invariance, PTL
=============================================================================
