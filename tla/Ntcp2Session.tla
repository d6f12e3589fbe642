---------------------------- MODULE Ntcp2Session ----------------------------
(***************************************************************************)
(* An established NTCP2 session (transport/ntcp2/mod.rs): the future that   *)
(* moves blocks from the session's channel through two caches and the       *)
(* framed socket to the peer, and messages from the peer to the             *)
(* distributor.                                                             *)
(*                                                                         *)
(* Session::poll is a sequence of steps (pc).  Senders, the peer, the       *)
(* socket and the other subsystems act between any two of them.  A poll     *)
(* that cannot go on arms the events it waits for; an armed event that      *)
(* occurs wakes the task, and a task woken while it runs is polled again.   *)
(*                                                                         *)
(* Blocks are numbered in the order in which they are sent, in each         *)
(* direction.                                                               *)
(***************************************************************************)
EXTENDS Naturals, Sequences, SequencesExt

CONSTANTS
    BlocksPerFrame,  \* BLOCKS_PER_FRAME of OutboundSession::start_send
    HighWater,       \* blocks in the write buffer of Framed at which it pushes back
    Fits(_),         \* whether a frame can be encoded within NTCP2_MTU
    Kind(_),         \* what the peer's n-th block is
    MaxBlocks,       \* bound: blocks given to the session
    MaxReceived      \* bound: blocks that the peer sends

ASSUME BlocksPerFrameAssumption == BlocksPerFrame \in Nat \ {0}
ASSUME HighWaterAssumption == HighWater \in Nat \ {0}
ASSUME MaxBlocksAssumption == MaxBlocks \in Nat
ASSUME MaxReceivedAssumption == MaxReceived \in Nat

VARIABLES
    pc,               \* the next step of Session::poll
    woken,            \* the task has been notified since its last poll began
    armed,            \* events that notify the task
    outbound,         \* contents of the session's channel
    cached_ob_block,  \* Session.cached_ob_block: at most one block
    cached_blocks,    \* OutboundSession.cached_blocks
    buffered,         \* encoded blocks in the write buffer of Framed
    writable,         \* the socket takes more bytes
    wire,             \* blocks that the socket has taken
    nsent,            \* number of blocks given to the session
    upstream,         \* frames from the peer that were not read yet
    eof,              \* the peer has closed the connection
    cached_msgs,      \* InboundSession.cached_msgs
    pending_ib,       \* Session.pending_ib: at most one message
    room,             \* the subsystem's channel takes another message
    distributed,      \* messages that a subsystem has accepted
    nreceived         \* number of blocks that the peer has sent

taskVars == <<pc, woken, armed>>
outVars == <<outbound, cached_ob_block, cached_blocks, buffered, writable, wire, nsent>>
inVars == <<upstream, eof, cached_msgs, pending_ib, room, distributed, nreceived>>
vars == <<taskVars, outVars, inVars>>

Block == 1 .. MaxBlocks
InBlock == 1 .. MaxReceived
Event == {"outbound", "writable", "readable", "room"}
Running == {"cached", "write", "package", "flush", "read"}
Ended == {"eof", "failed"}
BlockKind == {"message", "routerinfo", "foreign", "other"}

ASSUME KindAssumption == \A b \in InBlock : Kind(b) \in BlockKind

TypeOK ==
    /\ pc \in Running \cup Ended \cup {"parked"}
    /\ woken \in BOOLEAN
    /\ armed \in SUBSET Event
    /\ outbound \in Seq(Block)
    /\ cached_ob_block \in Seq(Block) /\ Len(cached_ob_block) <= 1
    /\ cached_blocks \in Seq(Block)
    /\ buffered \in Seq(Block)
    /\ writable \in BOOLEAN
    /\ wire \in Seq(Block)
    /\ nsent \in 0 .. MaxBlocks
    /\ upstream \in Seq(Seq(InBlock))
    /\ eof \in BOOLEAN
    /\ cached_msgs \in Seq(InBlock)
    /\ pending_ib \in Seq(InBlock) /\ Len(pending_ib) <= 1
    /\ room \in BOOLEAN
    /\ distributed \in Seq(InBlock)
    /\ nreceived \in 0 .. MaxReceived

\* OutboundSession::new, over a socket that takes bytes.
OutboundSessionInit ==
    /\ cached_blocks = <<>>
    /\ buffered = <<>>
    /\ writable = TRUE
    /\ wire = <<>>

\* InboundSession::new, over a socket from which nothing was read.
InboundSessionInit ==
    /\ upstream = <<>>
    /\ eof = FALSE
    /\ cached_msgs = <<>>
    /\ nreceived = 0

\* Session::new, and the first poll of the task that spawn creates.
Init ==
    /\ pc = "cached"
    /\ woken = FALSE
    /\ armed = {}
    /\ OutboundSessionInit
    /\ InboundSessionInit
    /\ outbound = <<>>
    /\ nsent = 0
    /\ cached_ob_block = <<>>
    /\ pending_ib = <<>>
    /\ room = TRUE
    /\ distributed = <<>>

-----------------------------------------------------------------------------
(* The world around the task *)

\* Notifies the task if it waits for the event.
Notify(event) ==
    /\ woken' = (woken \/ event \in armed)
    /\ armed' = armed \ {event}

\* A sender puts a block in the channel; there is none once the session ended.
SendBlock ==
    /\ pc \notin Ended
    /\ nsent < MaxBlocks
    /\ nsent' = nsent + 1
    /\ outbound' = Append(outbound, nsent + 1)
    /\ Notify("outbound")
    /\ UNCHANGED <<pc, cached_ob_block, cached_blocks, buffered, writable, wire, inVars>>

\* The peer has read enough for the socket to take more bytes.
SocketWritable ==
    /\ pc \notin Ended
    /\ ~ writable
    /\ writable' = TRUE
    /\ Notify("writable")
    /\ UNCHANGED <<pc, outbound, cached_ob_block, cached_blocks, buffered, wire, nsent, inVars>>

\* A frame of one or two blocks arrives from the peer.
PeerSends ==
    /\ pc \notin Ended
    /\ ~ eof
    /\ \E n \in 1 .. 2 :
          /\ nreceived + n <= MaxReceived
          /\ nreceived' = nreceived + n
          /\ upstream' = Append(upstream, [i \in 1 .. n |-> nreceived + i])
    /\ Notify("readable")
    /\ UNCHANGED <<pc, outVars, eof, cached_msgs, pending_ib, room, distributed>>

\* The peer closes the connection.
PeerCloses ==
    /\ pc \notin Ended
    /\ ~ eof
    /\ eof' = TRUE
    /\ Notify("readable")
    /\ UNCHANGED <<pc, outVars, upstream, cached_msgs, pending_ib, room, distributed, nreceived>>

\* A subsystem takes a message out of its channel.
SubsystemReads ==
    /\ pc \notin Ended
    /\ ~ room
    /\ room' = TRUE
    /\ Notify("room")
    /\ UNCHANGED <<pc, outVars, upstream, eof, cached_msgs, pending_ib, distributed, nreceived>>

-----------------------------------------------------------------------------
(* The framed socket *)

Rest(s, k) == SubSeq(s, k + 1, Len(s))

\* The numbers of blocks that one attempt to flush may write.
FlushCounts == IF buffered # <<>> /\ writable THEN 1 .. Len(buffered) ELSE {0}

\* What an attempt to flush that writes k blocks leaves of the socket: if
\* bytes are left, the socket is full and the task will hear of it.
AfterFlush(k) ==
    \/ k = Len(buffered) /\ armed' = armed /\ writable' \in {writable, FALSE}
    \/ k < Len(buffered) /\ armed' = armed \cup {"writable"} /\ writable' = FALSE

\* start_send of Framed: above the high-water mark it first tries to flush,
\* and pushes back if that does not bring it below.
DownstreamStartSend(frame, k, ready) ==
    /\ IF Len(buffered) >= HighWater
       THEN k \in FlushCounts /\ AfterFlush(k)
       ELSE k = 0 /\ UNCHANGED <<armed, writable>>
    /\ ready = (Len(buffered) - k < HighWater)
    /\ wire' = wire \o SubSeq(buffered, 1, k)
    /\ buffered' = Rest(buffered, k) \o (IF ready /\ Fits(frame) THEN frame ELSE <<>>)

-----------------------------------------------------------------------------
(* OutboundSession *)

\* As ReturnedBlock, taking the block from the wrong end of the queue.
ReturnedFirst(c) == [cached |-> Tail(c), block |-> Head(c)]

\* As ReturnedBlock, leaving the block in the queue as well.
ReturnedCopy(c) == [cached |-> c, block |-> Last(c)]

\* The frame has been put back block by block; the last block is given back.
ReturnedBlock(c) == [cached |-> Front(c), block |-> Last(c)]

\* OutboundSession::start_send(block), called by a step of Session::poll that
\* continues at next when the block is taken, and at "package" when it is
\* given back to be cached.  An encoding error ends the session.
StartSend(block, next) ==
    LET c == Append(cached_blocks, block)
        frame == SubSeq(c, 1, BlocksPerFrame)
    IN  \/ /\ Len(c) < BlocksPerFrame
           /\ cached_blocks' = c
           /\ cached_ob_block' = <<>>
           /\ pc' = next
           /\ UNCHANGED <<armed, writable, wire, buffered>>
        \/ /\ Len(c) >= BlocksPerFrame
           /\ \E k \in 0 .. Len(buffered) :
                 \/ /\ DownstreamStartSend(frame, k, TRUE)
                    /\ cached_blocks' = Rest(c, BlocksPerFrame)
                    /\ cached_ob_block' = <<>>
                    /\ pc' = IF Fits(frame) THEN next ELSE "failed"
                 \/ /\ DownstreamStartSend(frame, k, FALSE)
                    /\ cached_blocks' = ReturnedBlock(c).cached
                    /\ cached_ob_block' = <<ReturnedBlock(c).block>>
                    /\ pc' = "package"

-----------------------------------------------------------------------------
(* The steps of Session::poll *)

StartPoll ==
    /\ pc = "parked"
    /\ woken
    /\ pc' = "cached"
    /\ woken' = FALSE
    /\ UNCHANGED <<armed, outVars, inVars>>

\* Write the cached block, if any.
WriteCached ==
    /\ pc = "cached"
    /\ \/ /\ cached_ob_block = <<>>
          /\ pc' = "write"
          /\ UNCHANGED <<armed, cached_blocks, cached_ob_block, buffered, writable, wire>>
       \/ /\ cached_ob_block # <<>>
          /\ StartSend(Head(cached_ob_block), "write")
    /\ UNCHANGED <<woken, outbound, nsent, inVars>>

\* One turn of the loop that writes blocks from the channel.
WriteNext ==
    /\ pc = "write"
    /\ \/ /\ outbound = <<>>
          /\ pc' = "package"
          /\ armed' = armed \cup {"outbound"}
          /\ UNCHANGED <<outbound, cached_blocks, cached_ob_block, buffered, writable, wire>>
       \/ /\ outbound # <<>>
          /\ outbound' = Tail(outbound)
          /\ StartSend(Head(outbound), "write")
    /\ UNCHANGED <<woken, nsent, inVars>>

\* As Package, leaving the last blocks until a frame is full.
PackageWhenFull ==
    /\ pc = "package"
    /\ pc' = "flush"
    /\ UNCHANGED <<woken, armed, outVars, inVars>>

\* The first half of OutboundSession::poll_complete: the remaining blocks are
\* made into a frame, and the socket is not flushed if it pushes back.
Package ==
    /\ pc = "package"
    /\ \/ /\ cached_blocks = <<>>
          /\ pc' = "flush"
          /\ UNCHANGED <<armed, cached_blocks, buffered, writable, wire>>
       \/ /\ cached_blocks # <<>>
          /\ \E k \in 0 .. Len(buffered) :
                \/ /\ DownstreamStartSend(cached_blocks, k, TRUE)
                   /\ cached_blocks' = <<>>
                   /\ pc' = IF Fits(cached_blocks) THEN "flush" ELSE "failed"
                \/ /\ DownstreamStartSend(cached_blocks, k, FALSE)
                   /\ UNCHANGED cached_blocks
                   /\ pc' = "read"
    /\ UNCHANGED <<woken, outbound, cached_ob_block, nsent, inVars>>

\* As Flush, by a task that is not told when the socket has room again.
FlushUnarmed ==
    /\ pc = "flush"
    /\ \E k \in FlushCounts :
          /\ writable' = (k = Len(buffered) /\ writable)
          /\ wire' = wire \o SubSeq(buffered, 1, k)
          /\ buffered' = Rest(buffered, k)
    /\ pc' = "read"
    /\ UNCHANGED <<armed, woken, outbound, cached_ob_block, cached_blocks, nsent, inVars>>

\* The second half: downstream.poll_complete(), whose NotReady is ignored.
Flush ==
    /\ pc = "flush"
    /\ \E k \in FlushCounts :
          /\ AfterFlush(k)
          /\ wire' = wire \o SubSeq(buffered, 1, k)
          /\ buffered' = Rest(buffered, k)
    /\ pc' = "read"
    /\ UNCHANGED <<woken, outbound, cached_ob_block, cached_blocks, nsent, inVars>>

\* The pending distribution of a message completes, or the poll ends here.
ReadPending ==
    /\ pc = "read"
    /\ pending_ib # <<>>
    /\ \/ /\ room
          /\ room' \in BOOLEAN
          /\ distributed' = distributed \o pending_ib
          /\ pending_ib' = <<>>
          /\ UNCHANGED <<pc, armed>>
       \/ /\ ~ room
          /\ pc' = "parked"
          /\ armed' = armed \cup {"room"}
          /\ UNCHANGED <<room, distributed, pending_ib>>
    /\ UNCHANGED <<woken, outVars, upstream, eof, cached_msgs, nreceived>>

\* As HandleBlock, with RouterInfo blocks of other routers let through.
HandleAnyRouterInfo(b) == Kind(b) \in {"message", "routerinfo", "foreign"}

\* InboundSession::handle_block returns a message for messages and for the
\* peer's own RouterInfo; everything else, a Termination included, is dropped.
HandleBlock(b) == Kind(b) \in {"message", "routerinfo"}

\* As ReadFrame, forgetting the cached messages of the frame before.
ReadFrameEagerly ==
    /\ pc = "read"
    /\ pending_ib = <<>>
    /\ upstream # <<>>
    /\ upstream' = Tail(upstream)
    /\ cached_msgs' = SelectSeq(Head(upstream), HandleBlock)
    /\ UNCHANGED <<taskVars, outVars, eof, pending_ib, room, distributed, nreceived>>

\* As ReadCached, not waiting for the message before.
ReadCachedAtOnce ==
    /\ pc = "read"
    /\ cached_msgs # <<>>
    /\ pending_ib' = Append(pending_ib, Head(cached_msgs))
    /\ cached_msgs' = Tail(cached_msgs)
    /\ UNCHANGED <<taskVars, outVars, upstream, eof, room, distributed, nreceived>>

\* A cached message goes to the distributor.
ReadCached ==
    /\ pc = "read"
    /\ pending_ib = <<>>
    /\ cached_msgs # <<>>
    /\ pending_ib' = <<Head(cached_msgs)>>
    /\ cached_msgs' = Tail(cached_msgs)
    /\ UNCHANGED <<taskVars, outVars, upstream, eof, room, distributed, nreceived>>

\* A frame is read when no message is cached.
ReadFrame ==
    /\ pc = "read"
    /\ pending_ib = <<>>
    /\ cached_msgs = <<>>
    /\ upstream # <<>>
    /\ upstream' = Tail(upstream)
    /\ cached_msgs' = SelectSeq(Head(upstream), HandleBlock)
    /\ UNCHANGED <<taskVars, outVars, eof, pending_ib, room, distributed, nreceived>>

\* As ReadNothing, ending as soon as the peer has closed the connection.
ReadEofAtOnce ==
    /\ pc = "read"
    /\ pending_ib = <<>>
    /\ \/ eof /\ pc' = "eof" /\ UNCHANGED armed
       \/ /\ ~ eof /\ cached_msgs = <<>> /\ upstream = <<>>
          /\ pc' = "parked" /\ armed' = armed \cup {"readable"}
    /\ UNCHANGED <<woken, outVars, inVars>>

\* Nothing to read: the session ends at the end of the stream, or waits.
ReadNothing ==
    /\ pc = "read"
    /\ pending_ib = <<>>
    /\ cached_msgs = <<>>
    /\ upstream = <<>>
    /\ \/ eof /\ pc' = "eof" /\ UNCHANGED armed
       \/ ~ eof /\ pc' = "parked" /\ armed' = armed \cup {"readable"}
    /\ UNCHANGED <<woken, outVars, inVars>>

\* The socket fails, a frame does not decode, or a subsystem is down.
Fail ==
    /\ pc \in Running
    /\ pc' = "failed"
    /\ UNCHANGED <<woken, armed, outVars, inVars>>

-----------------------------------------------------------------------------
Read == ReadPending \/ ReadCached \/ ReadFrame \/ ReadNothing

Poll == StartPoll \/ WriteCached \/ WriteNext \/ Package \/ Flush \/ Read

World == SendBlock \/ SocketWritable \/ PeerSends \/ PeerCloses \/ SubsystemReads

Next == Poll \/ Fail \/ World

Spec == Init /\ [][Next]_vars

\* The executor runs a task that was notified; the peer goes on reading and
\* the subsystems go on taking messages.  Neither the code nor the peer is
\* obliged to send, to close or to fail.
FairSpec ==
    /\ Spec
    /\ WF_vars(Poll)
    /\ WF_vars(SocketWritable)
    /\ WF_vars(SubsystemReads)

-----------------------------------------------------------------------------
(* Properties *)

\* No call of start_send leaves a whole frame of blocks behind, so the frame
\* that poll_complete makes of what is left never exceeds BLOCKS_PER_FRAME,
\* and there is always a block for start_send to give back.
LessThanAFrameCached == Len(cached_blocks) < BlocksPerFrame

\* The blocks between the senders and the socket, oldest first.
inSession == buffered \o cached_blocks \o cached_ob_block \o outbound

\* The blocks of a session leave in order, each once, until the session ends:
\* the caches, the put-back of a refused frame and the write buffer implement
\* a plain queue.
Channel == INSTANCE BlockChannel WITH
    accepted <- nsent,
    queue <- IF pc \in Ended THEN <<>> ELSE inSession,
    delivered <- wire,
    open <- pc \notin Ended

ImplementsChannel == Channel!Spec

\* A task that sleeps and was not notified waits for something that will
\* notify it: for the socket if a block is anywhere between the channel and
\* the socket, else for the channel, which is then empty; and for the peer or
\* for the subsystem that holds up the message it has.
NoLostWakeup ==
    pc = "parked" /\ ~ woken =>
        /\ \/ "writable" \in armed /\ ~ writable
           \/ /\ inSession = <<>>
              /\ "outbound" \in armed
        /\ \/ "room" \in armed /\ ~ room
           \/ "readable" \in armed /\ upstream = <<>> /\ cached_msgs = <<>> /\ pending_ib = <<>>

\* The blocks among the first n of the peer that are messages for us.
Wanted(n) == SelectSeq([i \in 1 .. n |-> i],
                       LAMBDA b : Kind(b) = "message" \/ Kind(b) = "routerinfo")

\* The number of the peer's blocks that have been read.
nread == IF upstream = <<>> THEN nreceived ELSE upstream[1][1] - 1

\* The messages of a peer reach the distributor in order, one at a time, none
\* lost and none twice; what is neither a message nor the peer's own
\* RouterInfo never does.
InboundInOrder ==
    distributed \o pending_ib \o cached_msgs = Wanted(nread)

\* When the session ends because the peer closed the connection, everything
\* the peer sent before has been distributed.
EverythingReadAtEof ==
    pc = "eof" => distributed = Wanted(nreceived)

\* A block given to a session reaches the wire unless the session ends, and
\* what the peer sends is distributed.
BlocksGetOut ==
    \A b \in Block : b <= nsent ~> b \in ToSet(wire) \/ pc \in Ended

MessagesGetIn ==
    \A b \in InBlock :
        b <= nreceived ~> b \in ToSet(distributed) \/ ~ HandleBlock(b) \/ pc \in Ended
=============================================================================
