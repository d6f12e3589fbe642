--------------------------- MODULE TunnelChannel ---------------------------
(***************************************************************************)
(* What the tunnel acceptor and the tunnel participant share: the clock, and *)
(* the bounded channel through which accepted tunnels reach the participant. *)
(***************************************************************************)
EXTENDS Naturals, Sequences

CONSTANTS
    TunnelLifetime,  \* TUNNEL_LIFETIME
    Buffer           \* messages the channel holds before it parks a sender

ASSUME ChannelAssumption == TunnelLifetime \in Nat \ {0} /\ Buffer \in Nat

VARIABLES
    now,       \* the time
    queue,     \* tunnels on their way to the participant, in order
    waiting,   \* acceptors that the channel has parked, in order
    receiver,  \* whether new_participating_rx still exists
    notified,  \* whether the participant's task is to be polled again
    parked     \* channels that notify it when something arrives

channelVars == <<queue, waiting, receiver, notified, parked>>

\* A message is put in channel c: its receiver is notified if it found c empty.
Notify(c) ==
    /\ notified' = (notified \/ c \in parked)
    /\ parked' = parked \ {c}

\* new_participating_tx.clone().send(item): a fresh clone always enqueues, and
\* acceptor a then waits if there are more than Buffer messages.
Send(a, item) ==
    /\ receiver
    /\ queue' = Append(queue, item)
    /\ waiting' = IF Len(queue) >= Buffer THEN Append(waiting, a) ELSE waiting
    /\ Notify("new_participating")
    /\ UNCHANGED receiver

IsWaiting(a) == \E k \in DOMAIN waiting : waiting[k] = a
=============================================================================
