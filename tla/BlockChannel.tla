---------------------------- MODULE BlockChannel ----------------------------
(***************************************************************************)
(* What a session promises to those who send through it: while it is open,  *)
(* the blocks it was given leave in the order in which they came, each of   *)
(* them once.  When it closes, what has not left is lost.                   *)
(***************************************************************************)
EXTENDS Naturals, Sequences

VARIABLES
    accepted,   \* number of blocks accepted; they are numbered from 1
    queue,      \* blocks accepted and not yet on the wire
    delivered,  \* blocks on the wire
    open        \* the session has not ended

channelVars == <<accepted, queue, delivered, open>>

Init ==
    /\ accepted = 0
    /\ queue = <<>>
    /\ delivered = <<>>
    /\ open = TRUE

Send ==
    /\ open
    /\ accepted' = accepted + 1
    /\ queue' = Append(queue, accepted + 1)
    /\ UNCHANGED <<delivered, open>>

Deliver(k) ==
    /\ open
    /\ delivered' = delivered \o SubSeq(queue, 1, k)
    /\ queue' = SubSeq(queue, k + 1, Len(queue))
    /\ UNCHANGED <<accepted, open>>

Close(k) ==
    /\ open
    /\ delivered' = delivered \o SubSeq(queue, 1, k)
    /\ queue' = <<>>
    /\ open' = FALSE
    /\ UNCHANGED accepted

Next ==
    \/ Send
    \/ \E k \in 0 .. Len(queue) : Deliver(k) \/ Close(k)

Spec == Init /\ [][Next]_channelVars
=============================================================================
