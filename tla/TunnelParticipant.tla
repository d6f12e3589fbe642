------------------------- MODULE TunnelParticipant -------------------------
(***************************************************************************)
(* The participant in other routers' tunnels (tunnel/processor.rs): one task *)
(* that keeps the table of tunnels, drops what has expired, what is from the *)
(* wrong peer and what it has already seen, and spawns a HopProcessor for    *)
(* each message that it forwards.                                           *)
(*                                                                         *)
(* A poll takes no time.  A timer that was set and not polled since does not *)
(* wake the task, but is seen to be due when something else does.            *)
(***************************************************************************)
EXTENDS TunnelChannel, DecayingBloomFilter, SequencesExt

CONSTANTS
    DataMessage,           \* messages for the participant: payload, from, tid, value
    MaxData,               \* bound: such messages received
    ExpireTunnelsInterval  \* EXPIRE_TUNNELS_INTERVAL

ASSUME DataAssumption == MaxData \in Nat /\ ExpireTunnelsInterval \in Nat \ {0}

VARIABLES
    poll,           \* where the task is in its loop
    participating,  \* the tunnels, by tunnel id
    filter,         \* what was forwarded recently
    timer,          \* the two timers: when they are due and whether they were polled
    ib,             \* messages from the distributor, in order
    received,       \* number of messages received
    closed,         \* whether the distributor is gone
    hops            \* the HopProcessors: their state, what they forward, to whom, since when,
                    \* and when its tunnel expires

participantVars == <<poll, participating, filter, timer, ib, received, closed, hops>>

Timer == {"expire_tunnels", "decay_filter"}
Interval(t) == IF t = "expire_tunnels" THEN ExpireTunnelsInterval ELSE TunnelLifetime

ParticipantTypeOK ==
    /\ poll \in {"Idle", "Loop", "Message", "Done", "Panicked"}
    /\ \A tid \in DOMAIN participating : participating[tid].tid = tid
    /\ DOMAIN timer = Timer
    /\ \A t \in Timer : timer[t].at \in Nat /\ timer[t].polled \in BOOLEAN
    /\ ib \in Seq(DataMessage)
    /\ Len(ib) <= received /\ received <= MaxData
    /\ receiver = (poll \notin {"Done", "Panicked"})
    /\ \A i \in DOMAIN hops : hops[i].at <= now

SetTimer(t) == [at |-> now + Interval(t), polled |-> FALSE]

\* Participant::new.  A spawned task is polled.
ParticipantInit ==
    /\ poll = "Idle"
    /\ participating = <<>>
    /\ filter = EmptyFilter
    /\ timer = [t \in Timer |-> SetTimer(t)]
    /\ ib = <<>>
    /\ received = 0
    /\ closed = FALSE
    /\ hops = <<>>
    /\ queue = <<>>
    /\ waiting = <<>>
    /\ receiver = TRUE
    /\ notified = TRUE
    /\ parked = {}

-----------------------------------------------------------------------------
(* What happens around the task *)

\* The distributor hands over a message.
DataArrives(m) ==
    /\ received < MaxData
    /\ ~ closed
    /\ receiver
    /\ ib' = Append(ib, m)
    /\ received' = received + 1
    /\ Notify("ib")
    /\ UNCHANGED <<poll, participating, filter, timer, closed, hops, now, queue, waiting, receiver>>

\* The transports stop, and with them the distributor.
Close ==
    /\ ~ closed
    /\ closed' = TRUE
    /\ Notify("ib")
    /\ UNCHANGED <<poll, participating, filter, timer, ib, received, hops, now, queue, waiting, receiver>>

\* Time passes between two polls, and wakes the task if a polled timer is due.
Tick ==
    /\ poll \in {"Idle", "Done", "Panicked"}
    /\ now' = now + 1
    /\ notified' = (notified \/ \E t \in Timer : timer[t].polled /\ timer[t].at = now')
    /\ UNCHANGED <<participantVars, queue, waiting, receiver, parked>>

-----------------------------------------------------------------------------
(* Participant::poll *)

\* HashMap::insert: a later tunnel replaces one of the same id.
Insert(table, config) ==
    [tid \in DOMAIN table \cup {config.tid} |-> IF tid = config.tid THEN config ELSE table[tid]]

\* The tunnels taken out of the channel: all of them.
Taken == queue

\* As AddTunnels below, but senders stay parked.
AddTunnelsOnly ==
    /\ queue' = SubSeq(queue, Len(Taken) + 1, Len(queue))
    /\ parked' = IF Taken = queue THEN parked \cup {"new_participating"} ELSE parked
    /\ UNCHANGED waiting

\* Each tunnel taken out lets a parked sender go.
AddTunnels ==
    /\ queue' = SubSeq(queue, Len(Taken) + 1, Len(queue))
    /\ waiting' = SubSeq(waiting, Len(Taken) + 1, Len(waiting))
    /\ parked' = IF Taken = queue THEN parked \cup {"new_participating"} ELSE parked

Due(t) == timer[t].at <= now

\* As Retained below, but a tunnel is dropped when it would expire before the next check.
RetainedUntilNext(table) ==
    Restrict(table, {tid \in DOMAIN table : table[tid].expires > now + ExpireTunnelsInterval})

\* As Retained below, but an expired tunnel is kept.
RetainedAll(table) == table

\* What a table keeps when expired tunnels are dropped.
Retained(table) == Restrict(table, {tid \in DOMAIN table : table[tid].expires > now})

\* The filter decays when its timer is due.
NextFilter == IF Due("decay_filter") THEN Decayed(filter) ELSE filter

\* The task is woken, or goes round its loop: new tunnels are added, and then the
\* timers looked at.  One that is due is replaced by one not yet polled.
AddAndExpire ==
    /\ \/ poll = "Idle" /\ notified /\ notified' = FALSE
       \/ poll = "Loop" /\ UNCHANGED notified
    /\ poll' = "Message"
    /\ AddTunnels
    /\ LET table == FoldLeft(Insert, participating, Taken)
       IN participating' = IF Due("expire_tunnels") THEN Retained(table) ELSE table
    /\ filter' = NextFilter
    /\ timer' = [t \in Timer |-> IF Due(t) THEN SetTimer(t) ELSE [timer[t] EXCEPT !.polled = TRUE]]
    /\ UNCHANGED <<ib, received, closed, hops, now, receiver>>

\* No message: the task sleeps until it is notified ...
Sleep ==
    /\ poll = "Message"
    /\ ib = <<>> /\ ~ closed
    /\ parked' = parked \cup {"ib"}
    /\ poll' = "Idle"
    /\ UNCHANGED <<participating, filter, timer, ib, received, closed, hops, now, queue, waiting, receiver, notified>>

\* The task is dropped, and the receiving end of the channel with it: senders that
\* were parked go on.
DropTask(s) ==
    /\ poll' = s
    /\ receiver' = FALSE
    /\ queue' = <<>>
    /\ waiting' = <<>>

\* ... or ends, when there will be none.
Finish ==
    /\ poll = "Message"
    /\ ib = <<>> /\ closed
    /\ DropTask("Done")
    /\ UNCHANGED <<participating, filter, timer, ib, received, closed, hops, now, notified, parked>>

\* The sender of a message for a tunnel with a previous hop must be that hop.
IsFromPreviousHop(m, config) == config.hop_type = "InboundGateway" \/ m.from = config.from

\* HopProcessor::new takes a copy of what it needs of the tunnel.
HopProcessor(m, config) ==
    [state |-> "Processing", value |-> m.value, at |-> now, expires |-> config.expires]

\* Unexpected messages, unknown tunnels, wrong senders and duplicates are dropped;
\* other data is forwarded by a task of its own.
TakeMessage ==
    LET m == Head(ib)
        config == participating[m.tid]
        expected == /\ m.payload = "TunnelData"
                    /\ m.tid \in DOMAIN participating
                    /\ IsFromPreviousHop(m, config)
    IN
    /\ poll = "Message"
    /\ ib # <<>>
    /\ ib' = Tail(ib)
    /\ \/ /\ ~ expected
          /\ poll' = "Loop"
          /\ UNCHANGED <<filter, hops, channelVars>>
       \/ /\ expected
          /\ \E present \in Reported(filter, m.value) :
                /\ filter' = Fed(filter, m.value, present)
                /\ \/ /\ present
                      /\ poll' = "Loop"
                      /\ UNCHANGED <<hops, channelVars>>
                   \/ /\ ~ present
                      /\ config.hop_type = "Intermediate"
                      /\ hops' = Append(hops, HopProcessor(m, config))
                      /\ poll' = "Loop"
                      /\ UNCHANGED channelVars
                   \/ /\ ~ present
                      /\ config.hop_type # "Intermediate"
                      /\ DropTask("Panicked")   \* unimplemented!()
                      /\ UNCHANGED <<hops, notified, parked>>
    /\ UNCHANGED <<participating, timer, received, closed, now>>

\* HopProcessor::poll: the thread pool has encrypted the message.  A transport
\* takes it and is done with it, or fails, or none takes it: the task ends, and
\* the message is not tried again.
HopStep(i) ==
    /\ hops[i].state = "Processing"
    /\ hops' = [hops EXCEPT ![i].state = "Ended"]
    /\ UNCHANGED <<poll, participating, filter, timer, ib, received, closed, now, channelVars>>

ParticipantPoll == AddAndExpire \/ Sleep \/ Finish \/ TakeMessage
=============================================================================
