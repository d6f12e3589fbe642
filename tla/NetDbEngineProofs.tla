------------------------- MODULE NetDbEngineProofs -------------------------
(***************************************************************************)
(* The engine never sleeps on a message, for any bounds.                     *)
(***************************************************************************)
EXTENDS NetDbEngine, FiniteSetTheorems, TLAPS

\* The initial state has the right types, and the task is about to be polled.
LEMMA InitInv == Init => TypeOK /\ NoLostMessage
<1> SUFFICES ASSUME Init PROVE TypeOK /\ NoLostMessage
  OBVIOUS
<1>1. due \in [Timer -> BOOLEAN] /\ registered \in [Timer -> BOOLEAN]
  BY Zenon DEF Init
<1>2. 0 \in 0 .. MaxRouters /\ 0 \in 0 .. MaxQueued
  BY RoutersAssumption, MaxQueuedAssumption
<1>3. queued \in [Channel -> 0 .. MaxQueued] /\ parked \subseteq Channel
  BY <1>2 DEF Init
<1> QED
  BY <1>1, <1>2, <1>3 DEF Init, TypeOK, NoLostMessage, Up

\* What a turn of the message loop does to the channels keeps their type.
LEMMA TakeType ==
  ASSUME TypeOK, TakeMessages
  PROVE  queued' \in [Channel -> 0 .. MaxQueued] /\ parked' \subseteq Channel
<1>1. \A c \in Channel : queued[c] \in 0 .. MaxQueued
  BY DEF TypeOK
<1>2. \A c \in Channel :
         (IF c \in Inputs /\ queued[c] > 0 THEN queued[c] - 1 ELSE 0) \in 0 .. MaxQueued
  BY <1>1, MaxQueuedAssumption
<1>3. queued' \in [Channel -> 0 .. MaxQueued]
  BY <1>2 DEF TakeMessages
<1>4. parked' \subseteq Channel
  BY DEF TypeOK, TakeMessages, Inputs, Channel
<1> QED
  BY <1>3, <1>4

\* What arrives in a channel keeps the type too, and does not go unnoticed by a
\* task that has gone to sleep.
LEMMA ArrivesInv ==
  ASSUME TypeOK, NoLostMessage, NEW c \in Channel, Arrives(c), UNCHANGED <<state, running>>
  PROVE  /\ queued' \in [Channel -> 0 .. MaxQueued]
         /\ parked' \subseteq Channel
         /\ woken' \in BOOLEAN
         /\ NoLostMessage'
<1>1. queued' \in [Channel -> 0 .. MaxQueued]
  BY MaxQueuedAssumption DEF TypeOK, Arrives
<1>2. parked' \subseteq Channel /\ woken' \in BOOLEAN
  BY DEF TypeOK, Arrives
<1>3. NoLostMessage'
  BY DEF NoLostMessage, Up, Arrives
<1> QED
  BY <1>1, <1>2, <1>3

\* A panic leaves nothing that could be waited for.
LEMMA PanicInv ==
  ASSUME TypeOK, Panic
  PROVE  TypeOK' /\ NoLostMessage'
<1>1. queued' \in [Channel -> 0 .. MaxQueued]
  BY MaxQueuedAssumption DEF Panic
<1>2. TypeOK'
  BY <1>1 DEF TypeOK, Panic
<1>3. NoLostMessage'
  BY DEF NoLostMessage, Up, Panic
<1> QED
  BY <1>2, <1>3

\* Every action preserves the invariant.
LEMMA NextInv == TypeOK /\ NoLostMessage /\ [Next]_vars => TypeOK' /\ NoLostMessage'
<1> SUFFICES ASSUME TypeOK, NoLostMessage, [Next]_vars
             PROVE  TypeOK' /\ NoLostMessage'
  OBVIOUS
<1>1. ASSUME NEW t \in Timer, TimerElapses(t)
      PROVE  TypeOK' /\ NoLostMessage'
  BY <1>1 DEF TypeOK, NoLostMessage, Up, TimerElapses
<1>2. CASE ReseedEnds
  BY <1>2 DEF TypeOK, NoLostMessage, Up, ReseedEnds
<1>3. ASSUME NEW c \in Channel, MessageArrives(c)
      PROVE  TypeOK' /\ NoLostMessage'
  BY <1>3, ArrivesInv DEF TypeOK, MessageArrives
<1>4. CASE ExploreRegisters
  <2>1. "pending_rx" \in Channel
    BY DEF Channel
  <2> QED
    BY <1>4, <2>1, ArrivesInv DEF TypeOK, ExploreRegisters
<1>5. CASE ExploreHasNoPath
  BY <1>5 DEF TypeOK, NoLostMessage, Up, ExploreHasNoPath
<1>6. CASE Wake
  BY <1>6 DEF TypeOK, NoLostMessage, Up, Wake
<1>7. CASE CheckReseed
  BY <1>7 DEF TypeOK, NoLostMessage, Up, CheckReseed
<1>8. CASE Timers
  <2>1. routers' \in 0 .. MaxRouters
    BY <1>8, RoutersAssumption DEF TypeOK, Timers
  <2>2. exploring' \in BOOLEAN
    BY <1>8 DEF TypeOK, Timers
  <2>3. due' \in [Timer -> BOOLEAN] /\ registered' \in [Timer -> BOOLEAN]
    BY <1>8 DEF TypeOK, Timers
  <2> QED
    BY <1>8, <2>1, <2>2, <2>3 DEF TypeOK, NoLostMessage, Up, Timers
<1>9. CASE HandleMessages
  <2>1. queued' \in [Channel -> 0 .. MaxQueued] /\ parked' \subseteq Channel
    BY <1>9, TakeType DEF HandleMessages
  <2>2. routers' \in 0 .. MaxRouters
    <3>1. PICK stored \in SUBSET {c \in Inputs : queued[c] > 0} :
             /\ routers + Cardinality(stored) <= MaxRouters
             /\ routers' = routers + Cardinality(stored)
      BY <1>9 DEF HandleMessages
    <3>2. IsFiniteSet(stored)
      <4>1. IsFiniteSet({"ib_rx"}) /\ IsFiniteSet({"client_rx"})
        BY FS_Singleton
      <4>2. Inputs = {"ib_rx"} \cup {"client_rx"}
        BY DEF Inputs
      <4>3. IsFiniteSet(Inputs)
        BY <4>1, <4>2, FS_Union
      <4>4. stored \subseteq Inputs
        OBVIOUS
      <4> QED
        BY <4>3, <4>4, FS_Subset
    <3>3. Cardinality(stored) \in Nat
      BY <3>2, FS_CardinalityType
    <3> QED
      BY <3>1, <3>3, RoutersAssumption DEF TypeOK
  <2> QED
    BY <1>9, <2>1, <2>2 DEF TypeOK, NoLostMessage, Up, HandleMessages
<1>10. CASE Sleep
  <2>1. queued' \in [Channel -> 0 .. MaxQueued] /\ parked' \subseteq Channel
    BY <1>10, TakeType DEF Sleep
  <2>2. TypeOK'
    BY <1>10, <2>1 DEF TypeOK, Sleep
  <2>3. \A c \in Channel : queued'[c] = 0 /\ c \in parked'
    BY <1>10 DEF Sleep, TakeMessages, Channel, Inputs
  <2> QED
    BY <2>2, <2>3 DEF NoLostMessage
<1>11. CASE UNCHANGED vars
  BY <1>11 DEF TypeOK, NoLostMessage, Up, vars
<1>12. CASE ReseedHostUnresolved
  BY <1>12, PanicInv DEF ReseedHostUnresolved
<1>13. CASE StoreRefused
  BY <1>13, PanicInv DEF StoreRefused
<1> QED
  BY <1>1, <1>2, <1>3, <1>4, <1>5, <1>6, <1>7, <1>8, <1>9, <1>10, <1>11, <1>12, <1>13
  DEF Next, Poll

\* Both hold in every state: the engine is well typed ...
THEOREM TypeCorrect == Spec => []TypeOK
  BY InitInv, NextInv, PTL DEF Spec

\* ... and, unless it panics, Engine::poll returns NotReady only when it will hear of the next message.
THEOREM NoLostMessageAlways == Spec => []NoLostMessage
  BY InitInv, NextInv, PTL DEF Spec
=============================================================================
