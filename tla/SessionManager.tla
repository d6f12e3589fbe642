--------------------------- MODULE SessionManager ---------------------------
(***************************************************************************)
(* The table of sessions that every transport keeps (transport/session.rs), *)
(* together with the tasks that act on it: callers of send, connection      *)
(* attempts, the listener, and the sessions themselves.                     *)
(*                                                                         *)
(* Every access to the table happens under one mutex, so one critical       *)
(* section is one action.  Between two critical sections every other task  *)
(* may run.  In particular the destruction of a session is two steps: its   *)
(* SessionContext is the first field to be dropped and takes the lock; the *)
(* receiving end of its channel is dropped later, without the lock.         *)
(*                                                                         *)
(* Frames are numbered in the order in which send accepts them, which is    *)
(* all that the properties below need to know about a frame.                *)
(***************************************************************************)
EXTENDS Naturals, Sequences, SequencesExt

CONSTANTS
    Peer,         \* router hashes
    MaxFrames,    \* bound: frames given to send
    MaxSessions   \* bound: sessions that reach Session::new

ASSUME PeerAssumption == Peer # {}
ASSUME MaxFramesAssumption == MaxFrames \in Nat
ASSUME MaxSessionsAssumption == MaxSessions \in Nat

VARIABLES
    sessions,           \* Shared.sessions: the session whose sender is stored, or NoSession
    pending_sessions,   \* Shared.pending_sessions: <<>> when there is no entry
    connecting,         \* number of spawned connect futures, per peer
    nframes,            \* number of frames given to send so far
    nsessions,          \* number of sessions created so far
    peerOf,             \* SessionContext.hash of each session
    phase,              \* where each session is in its life
    outbound,           \* contents of each session's channel, with the frame it has cached
    written,            \* frames that the sink of each session has taken
    lost                \* frames that were still in a channel when it was dropped

vars == <<sessions, pending_sessions, connecting, nframes, nsessions,
          peerOf, phase, outbound, written, lost>>

Session == 1 .. MaxSessions
Frame == 1 .. MaxFrames
NoSession == 0

\* "storing": created by the NTCP2 listener, and not polled before the
\* RouterInfo of the handshake has been distributed.  "blocked": open, with a
\* sink that is full because the peer does not read.  "dropped": the
\* SessionContext is gone, the receiver is still there.
Phase == {"free", "storing", "open", "blocked", "dropped", "closed"}

\* The SessionContext of the session exists.
Alive(s) == phase[s] \in {"storing", "open", "blocked"}

\* The frames put in the channel of each session and not lost with it, in order.
given == [s \in Session |-> written[s] \o outbound[s]]

TypeOK ==
    /\ sessions \in [Peer -> Session \cup {NoSession}]
    /\ pending_sessions \in [Peer -> Seq(Frame)]
    /\ connecting \in [Peer -> Nat]
    /\ nframes \in 0 .. MaxFrames
    /\ nsessions \in 0 .. MaxSessions
    /\ peerOf \in [Session -> Peer]
    /\ phase \in [Session -> Phase]
    /\ outbound \in [Session -> Seq(Frame)]
    /\ written \in [Session -> Seq(Frame)]
    /\ lost \in SUBSET Frame

Init ==
    /\ sessions = [p \in Peer |-> NoSession]
    /\ pending_sessions = [p \in Peer |-> <<>>]
    /\ connecting = [p \in Peer |-> 0]
    /\ nframes = 0
    /\ nsessions = 0
    /\ peerOf \in [Session -> {CHOOSE p \in Peer : TRUE}]
    /\ phase = [s \in Session |-> "free"]
    /\ outbound = [s \in Session |-> <<>>]
    /\ written = [s \in Session |-> <<>>]
    /\ lost = {}

-----------------------------------------------------------------------------
(* Sending *)

IsEstablished(p) == sessions[p] # NoSession

\* SessionState::send, on the branch that uses a stored session.  start_send
\* on a channel whose receiver is gone gives the frame back as an error.
SendEstablished(p) ==
    /\ IsEstablished(p)
    /\ nframes < MaxFrames
    /\ nframes' = nframes + 1
    /\ outbound' = [outbound EXCEPT ![sessions[p]] =
                       IF phase[sessions[p]] = "closed" THEN @
                       ELSE Append(@, nframes + 1)]
    /\ UNCHANGED <<sessions, pending_sessions, connecting, nsessions, peerOf,
                   phase, written, lost>>

\* As SendPending, with the entry of pending_sessions created afresh for each frame.
SendPendingReplacing(p) ==
    /\ ~ IsEstablished(p)
    /\ nframes < MaxFrames
    /\ nframes' = nframes + 1
    /\ pending_sessions' = [pending_sessions EXCEPT ![p] = <<nframes + 1>>]
    /\ \E spawned \in {0, 1} :
          connecting' = [connecting EXCEPT ![p] = @ + spawned]
    /\ UNCHANGED <<sessions, nsessions, peerOf, phase, outbound, written, lost>>

\* As SendPending, with the frame put in front of those cached before.
SendPendingInFront(p) ==
    /\ ~ IsEstablished(p)
    /\ nframes < MaxFrames
    /\ nframes' = nframes + 1
    /\ pending_sessions' = [pending_sessions EXCEPT ![p] = <<nframes + 1>> \o @]
    /\ \E spawned \in {0, 1} :
          connecting' = [connecting EXCEPT ![p] = @ + spawned]
    /\ UNCHANGED <<sessions, nsessions, peerOf, phase, outbound, written, lost>>

\* SessionState::send, on the branch that caches the frame.  connect_to_peer
\* runs only when there is no entry yet, and spawns nothing when connect
\* returns an error (it is only logged).
SendPending(p) ==
    /\ ~ IsEstablished(p)
    /\ nframes < MaxFrames
    /\ nframes' = nframes + 1
    /\ pending_sessions' = [pending_sessions EXCEPT ![p] = Append(@, nframes + 1)]
    /\ \E spawned \in {0, 1} :
          /\ pending_sessions[p] # <<>> => spawned = 0
          /\ connecting' = [connecting EXCEPT ![p] = @ + spawned]
    /\ UNCHANGED <<sessions, nsessions, peerOf, phase, outbound, written, lost>>

-----------------------------------------------------------------------------
(* Creation of sessions *)

\* As NewSession, with the cached frames left where they are.
NewSessionKeepingPending(p, ph) ==
    /\ nsessions < MaxSessions
    /\ nsessions' = nsessions + 1
    /\ peerOf' = [peerOf EXCEPT ![nsessions + 1] = p]
    /\ phase' = [phase EXCEPT ![nsessions + 1] = ph]
    /\ outbound' = [outbound EXCEPT ![nsessions + 1] = pending_sessions[p]]
    /\ sessions' = [sessions EXCEPT ![p] = nsessions + 1]
    /\ UNCHANGED <<pending_sessions, nframes, written, lost>>

\* Session::new and SessionContext::new: a new channel takes over the cached
\* frames, and its sender replaces whatever the table holds for the peer.
NewSession(p, ph) ==
    /\ nsessions < MaxSessions
    /\ nsessions' = nsessions + 1
    /\ peerOf' = [peerOf EXCEPT ![nsessions + 1] = p]
    /\ phase' = [phase EXCEPT ![nsessions + 1] = ph]
    /\ outbound' = [outbound EXCEPT ![nsessions + 1] = pending_sessions[p]]
    /\ pending_sessions' = [pending_sessions EXCEPT ![p] = <<>>]
    /\ sessions' = [sessions EXCEPT ![p] = nsessions + 1]
    /\ UNCHANGED <<nframes, written, lost>>

\* A connection attempt completes its handshake in time and spawns the session.
ConnectSucceeds(p) ==
    /\ connecting[p] > 0
    /\ connecting' = [connecting EXCEPT ![p] = @ - 1]
    /\ NewSession(p, "open")

\* As ConnectFails, with the end of an attempt counted again after it.
ConnectFailsAgain(p) ==
    /\ connecting' = [connecting EXCEPT ![p] = @ - 1]
    /\ UNCHANGED <<sessions, pending_sessions, nframes, nsessions, peerOf,
                   phase, outbound, written, lost>>

\* A connection attempt fails, or its ten seconds are over.  The error is
\* logged and the table is not touched.
ConnectFails(p) ==
    /\ connecting[p] > 0
    /\ connecting' = [connecting EXCEPT ![p] = @ - 1]
    /\ UNCHANGED <<sessions, pending_sessions, nframes, nsessions, peerOf,
                   phase, outbound, written, lost>>

\* The NTCP listener completes a handshake and runs the session at once; the
\* NTCP2 listener first distributes the RouterInfo of the handshake.
Accept(p) ==
    /\ \E ph \in {"open", "storing"} : NewSession(p, ph)
    /\ UNCHANGED connecting

-----------------------------------------------------------------------------
(* The life of a session *)

\* The RouterInfo of the handshake has been distributed; the session is polled.
StartSession(s) ==
    /\ phase[s] = "storing"
    /\ phase' = [phase EXCEPT ![s] = "open"]
    /\ UNCHANGED <<sessions, pending_sessions, connecting, nframes, nsessions,
                   peerOf, outbound, written, lost>>

\* As WriteFrame, by a session that stops writing once its sender has left the table.
WriteFrameWhileStored(s) ==
    /\ phase[s] = "open"
    /\ sessions[peerOf[s]] = s
    /\ outbound[s] # <<>>
    /\ written' = [written EXCEPT ![s] = Append(@, Head(outbound[s]))]
    /\ outbound' = [outbound EXCEPT ![s] = Tail(@)]
    /\ UNCHANGED <<sessions, pending_sessions, connecting, nframes, nsessions,
                   peerOf, phase, lost>>

\* One turn of the write loop of Session::poll.  A channel whose sender is
\* gone still yields what it holds.
WriteFrame(s) ==
    /\ phase[s] = "open"
    /\ outbound[s] # <<>>
    /\ written' = [written EXCEPT ![s] = Append(@, Head(outbound[s]))]
    /\ outbound' = [outbound EXCEPT ![s] = Tail(@)]
    /\ UNCHANGED <<sessions, pending_sessions, connecting, nframes, nsessions,
                   peerOf, phase, lost>>

\* The peer stops reading, and the sink fills up: start_send says NotReady.  There
\* is no timeout for this ...
Block(s) ==
    /\ phase[s] = "open"
    /\ phase' = [phase EXCEPT ![s] = "blocked"]
    /\ UNCHANGED <<sessions, pending_sessions, connecting, nframes, nsessions,
                   peerOf, outbound, written, lost>>

\* ... and the session goes on when, and if, the peer reads again.
Unblock(s) ==
    /\ phase[s] = "blocked"
    /\ phase' = [phase EXCEPT ![s] = "open"]
    /\ UNCHANGED <<sessions, pending_sessions, connecting, nframes, nsessions,
                   peerOf, outbound, written, lost>>

\* As DropContext, with the receiver dropped first and the entry left behind.
DropReceiverFirst(s) ==
    /\ Alive(s)
    /\ phase' = [phase EXCEPT ![s] = "closed"]
    /\ lost' = lost \cup ToSet(outbound[s])
    /\ outbound' = [outbound EXCEPT ![s] = <<>>]
    /\ UNCHANGED <<sessions, pending_sessions, connecting, nframes, nsessions,
                   peerOf, written>>

\* Drop for SessionContext, when the session reads the end of its stream or
\* fails: the entry of the peer is removed, whichever session it belongs to.
DropContext(s) ==
    /\ Alive(s)
    /\ phase' = [phase EXCEPT ![s] = "dropped"]
    /\ sessions' = [sessions EXCEPT ![peerOf[s]] = NoSession]
    /\ UNCHANGED <<pending_sessions, connecting, nframes, nsessions, peerOf,
                   outbound, written, lost>>

\* The receiver of the session is dropped, and with it what the channel holds.
DropReceiver(s) ==
    /\ phase[s] = "dropped"
    /\ phase' = [phase EXCEPT ![s] = "closed"]
    /\ lost' = lost \cup ToSet(outbound[s])
    /\ outbound' = [outbound EXCEPT ![s] = <<>>]
    /\ UNCHANGED <<sessions, pending_sessions, connecting, nframes, nsessions,
                   peerOf, written>>

-----------------------------------------------------------------------------
Send(p) == SendEstablished(p) \/ SendPending(p)

ConnectResolves(p) == ConnectSucceeds(p) \/ ConnectFails(p)

Next ==
    \/ \E p \in Peer : Send(p) \/ ConnectResolves(p) \/ Accept(p)
    \/ \E s \in Session : \/ StartSession(s) \/ WriteFrame(s)
                          \/ Block(s) \/ Unblock(s)
                          \/ DropContext(s) \/ DropReceiver(s)

\* Spawned tasks run to their end: an attempt carries a timeout, the
\* distributor answers, and a session that has frames to write and a sink that
\* takes them is woken by its channel or its socket.  Nothing obliges a peer to
\* connect to us or to read, a caller to send, or a session to end.
Fairness ==
    /\ \A p \in Peer : WF_vars(ConnectResolves(p))
    /\ \A s \in Session : /\ WF_vars(StartSession(s))
                          /\ WF_vars(WriteFrame(s))
                          /\ WF_vars(DropReceiver(s))

Spec == Init /\ [][Next]_vars

FairSpec == Spec /\ Fairness

-----------------------------------------------------------------------------
(* Properties *)

\* A sender that is stored in the table belongs to a session with the right
\* peer whose receiver still exists, so start_send on it cannot fail and the
\* "Channel to session is broken" error of OutboundSink is never returned.
\* This rests on the order in which a Session drops its fields, and holds
\* although a dying session may remove the entry of another one.
StoredSessionIsAlive ==
    \A p \in Peer : IsEstablished(p) =>
        Alive(sessions[p]) /\ peerOf[sessions[p]] = p

\* No frame waits in pending_sessions while the table holds a session for its
\* peer: send and SessionContext::new cannot miss each other.
NothingPendingBesideSession ==
    \A p \in Peer : IsEstablished(p) => pending_sessions[p] = <<>>

\* a and b are sequences of frame numbers and everything in a was accepted
\* by send before anything in b.
Before(a, b) == \A i \in DOMAIN a, j \in DOMAIN b : a[i] < b[j]

Increasing(a) == \A i, j \in DOMAIN a : i < j => a[i] < a[j]

\* The order of frames, given what each of the first n sessions holds (G), its
\* peer (peer), and what is pending for each peer (P).
InOrder(G, P, peer, n) ==
    /\ \A s \in Session : Increasing(G[s])
    /\ \A p \in Peer : Increasing(P[p])
    /\ \A s, t \in Session : s < t /\ t <= n /\ peer[s] = peer[t] => Before(G[s], G[t])
    /\ \A s \in Session : s <= n => Before(G[s], P[peer[s]])

\* Frames for one peer keep the order in which send accepted them: within a
\* session, from an older session to a newer one with the same peer, and from
\* every session to the frames that still wait for one.
FramesInOrder == InOrder(given, pending_sessions, peerOf, nsessions)

\* Sessions are numbered as they are created, and have no frames before that.
SessionsNumbered ==
    \A s \in Session :
        /\ phase[s] = "free" <=> s > nsessions
        /\ phase[s] = "free" => outbound[s] = <<>> /\ written[s] = <<>>

\* The table never holds a session when a newer one with its peer exists.
NewestStored ==
    \A p \in Peer : IsEstablished(p) =>
        \A t \in Session : t > sessions[p] /\ t <= nsessions => peerOf[t] # p

\* No frame is known before send has accepted it.
Known(G, P, n) ==
    /\ \A s \in Session : \A i \in DOMAIN G[s] : G[s][i] <= n
    /\ \A p \in Peer : \A i \in DOMAIN P[p] : P[p][i] <= n

FramesKnown == Known(given, pending_sessions, nframes)

\* The inductive invariant behind the three properties above.
IInv ==
    /\ TypeOK
    /\ SessionsNumbered
    /\ StoredSessionIsAlive
    /\ NewestStored
    /\ NothingPendingBesideSession
    /\ FramesKnown
    /\ FramesInOrder

\* Every frame that send accepted is in one place: waiting for a session, in a
\* session's channel, taken by a session to be written, or lost with the channel
\* that held it.
EveryFrameAccounted ==
    \A f \in 1 .. nframes :
        \/ f \in lost
        \/ \E p \in Peer : f \in ToSet(pending_sessions[p])
        \/ \E s \in Session : f \in ToSet(given[s])

\* The sink has it, it was lost with a session, it is in a session whose peer does
\* not read, or it is in pending_sessions with no attempt running.
Settled(f) ==
    \/ f \in lost
    \/ \E s \in Session : f \in ToSet(written[s])
    \/ \E s \in Session : phase[s] = "blocked" /\ f \in ToSet(outbound[s])
    \/ \E p \in Peer : connecting[p] = 0 /\ f \in ToSet(pending_sessions[p])

\* An accepted frame is not left lying by a task that could move it: not in a
\* session that another one has displaced from the table, not in one that waits
\* to be run, not in the channel of one that is being dropped, and not behind an
\* attempt.  What remains is a peer that stops reading, and the entry without an
\* attempt that SendTriesToConnect is about.
EveryFrameSettles == \A f \in Frame : f <= nframes ~> Settled(f)

\* CommSystem::is_established is documented to return true if there is an
\* open session with the given peer.
EstablishedWhileOpen ==
    \A s \in Session : phase[s] \in {"open", "blocked"} => IsEstablished(peerOf[s])

\* send is commented to create a session when none is pending: a frame that
\* finds neither a session nor a running attempt tries to connect.
AttemptInFlight(p) == connecting[p] > 0

SendTriesToConnect ==
    [][\A p \in Peer : SendPending(p) /\ ~ AttemptInFlight(p) => pending_sessions[p] = <<>>]_vars
=============================================================================
