----------------------------- MODULE ByteStream -----------------------------
(***************************************************************************)
(* A connection between the router that opens it ("ob") and the one that     *)
(* listens ("ib"), as both transports see it: each end writes frames, and    *)
(* the other receives their bytes in order, in pieces of any size.           *)
(*                                                                         *)
(* Bytes are counted in units; the contents of a frame are one record.       *)
(***************************************************************************)
EXTENDS Naturals, Sequences, SequencesExt

CONSTANTS
    MaxFaults,  \* bound: frames damaged on their way
    MaxData     \* bound: the data frames that each end sends

VARIABLES
    hs,        \* the state of each end: of its handshake, "Established" or "Closed"
    wire,      \* the frames that each end has written
    arrived,   \* units that have reached each end
    consumed,  \* units that it has taken out of its read buffer
    taken,     \* frames that it has taken out of its read buffer
    faults,    \* number of frames damaged
    pending_ib \* Session.pending_ib of each end: a message waits for its subsystem

bufferVars == <<wire, arrived, consumed, taken, faults>>
streamVars == <<hs, bufferVars, pending_ib>>

End == {"ob", "ib"}

ASSUME StreamAssumption == MaxFaults \in Nat /\ MaxData \in [End -> Nat]

Peer(e) == IF e = "ob" THEN "ib" ELSE "ob"

Units(frames) ==
    LET upTo[k \in 0 .. Len(frames)] == IF k = 0 THEN 0 ELSE upTo[k - 1] + frames[k].size
    IN upTo[Len(frames)]

InBuffer(e) == arrived[e] - consumed[e]

StreamTypeOK ==
    /\ \A e \in End : /\ arrived[e] <= Units(wire[Peer(e)])
                      /\ consumed[e] <= arrived[e]
                      /\ taken[e] <= Len(wire[Peer(e)])
                      /\ consumed[e] = Units(SubSeq(wire[Peer(e)], 1, taken[e]))
    /\ faults \in 0 .. MaxFaults
    /\ pending_ib \in [End -> BOOLEAN]

StreamInit ==
    /\ wire = [e \in End |-> <<>>]
    /\ arrived = [e \in End |-> 0]
    /\ consumed = [e \in End |-> 0]
    /\ taken = [e \in End |-> 0]
    /\ faults = 0
    /\ pending_ib = [e \in End |-> FALSE]

\* Some of what the peer wrote arrives.
Arrive(e) ==
    /\ hs[e] # "Closed"
    /\ \E n \in arrived[e] + 1 .. Units(wire[Peer(e)]) : arrived' = [arrived EXCEPT ![e] = n]
    /\ UNCHANGED <<hs, wire, consumed, taken, faults, pending_ib>>

\* A frame that has not begun to arrive becomes one of the Versions that damage can
\* make of it.
Damage(e, Versions(_)) ==
    /\ faults < MaxFaults
    /\ \E k \in DOMAIN wire[e] :
          /\ arrived[Peer(e)] <= Units(SubSeq(wire[e], 1, k - 1))
          /\ \E f \in Versions(wire[e][k]) : wire' = [wire EXCEPT ![e][k] = f]
    /\ faults' = faults + 1
    /\ UNCHANGED <<hs, arrived, consumed, taken, pending_ib>>

\* The frame at the front of end e's read buffer, once n units of it are there.
HasFrame(e, n) == taken[e] < Len(wire[Peer(e)]) /\ InBuffer(e) >= n
NextFrame(e) == wire[Peer(e)][taken[e] + 1]

\* Everything has arrived, and nothing more will.
AtEof(e) == hs[Peer(e)] = "Closed" /\ arrived[e] = Units(wire[Peer(e)])

\* End e takes a frame of n units out of its buffer.
Take(e, n) ==
    /\ taken' = [taken EXCEPT ![e] = @ + 1]
    /\ consumed' = [consumed EXCEPT ![e] = @ + n]

Write(e, frames) == wire' = [wire EXCEPT ![e] = @ \o frames]

Goto(e, s) == hs' = [hs EXCEPT ![e] = s]

\* The end drops the connection.
CloseStream(e) == Goto(e, "Closed") /\ UNCHANGED <<bufferVars, pending_ib>>

\* Timeout of connect: the opening end gives up a handshake that takes 10 seconds.
TimesOut == hs["ob"] \notin {"Established", "Closed"} /\ CloseStream("ob")

\* A message that does not fit into a frame, or a socket that fails, ends a session.
SendFails(e) == hs[e] = "Established" /\ CloseStream(e)

\* Session::poll: the subsystem takes the message, or is down, which ends the session.
Distribute(e) ==
    /\ hs[e] = "Established"
    /\ pending_ib[e]
    /\ pending_ib' = [pending_ib EXCEPT ![e] = FALSE]
    /\ UNCHANGED hs \/ Goto(e, "Closed")
    /\ UNCHANGED bufferVars

StreamStep ==
    \/ \E e \in End : Arrive(e) \/ SendFails(e) \/ Distribute(e)
    \/ TimesOut

\* Every handshake ends, established or not, and once one end has dropped the
\* connection the other does too: an end that is alone in believing in the session
\* (its last message was refused, or came too late) does not keep it.
LinkSettles ==
    \A e \in End : /\ <>(hs[e] \in {"Established", "Closed"})
                   /\ (hs[e] = "Closed") ~> (hs[Peer(e)] = "Closed")

\* What one end writes the other reads to the end, if nothing is damaged and both keep
\* the connection: also what had arrived, or was even decrypted, before the session
\* took over from the handshake, and after which nothing else arrives.
FramesGetThrough ==
    \A e \in End :
        (taken[e] < Len(wire[Peer(e)])) ~>
            (taken[e] = Len(wire[Peer(e)]) \/ faults > 0 \/ \E d \in End : hs[d] = "Closed")
=============================================================================
