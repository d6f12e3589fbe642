------------------------ MODULE SessionManagerProofs ------------------------
(* Proofs, for any set of peers and any bounds, of the safety properties of *)
(* SessionManager.                                                          *)
EXTENDS SessionManager, SequenceTheorems, TLAPS

-----------------------------------------------------------------------------
(* Lemmas about sequences *)

\* Handing the first frame of a channel to the sink does not change the
\* frames that the session was given.
LEMMA MoveHead ==
    ASSUME NEW S, NEW a \in Seq(S), NEW b \in Seq(S), b # <<>>
    PROVE  /\ Head(b) \in S
           /\ Tail(b) \in Seq(S)
           /\ Append(a, Head(b)) \in Seq(S)
           /\ Append(a, Head(b)) \o Tail(b) = a \o b
<1> DEFINE l == Append(a, Head(b)) \o Tail(b)
           r == a \o b
<1>1. Head(b) \in S /\ Tail(b) \in Seq(S) /\ Append(a, Head(b)) \in Seq(S)
  OBVIOUS
<1>2. l \in Seq(S) /\ r \in Seq(S)
  BY <1>1
<1>3. Len(b) \in Nat /\ Len(b) > 0 /\ Len(Tail(b)) = Len(b) - 1 /\ Len(a) \in Nat
  OBVIOUS
<1>4. Len(l) = Len(a) + Len(b) /\ Len(r) = Len(a) + Len(b)
  BY <1>1, <1>3
<1>5. ASSUME NEW i \in 1 .. Len(l)
      PROVE  l[i] = r[i]
  <2>1. CASE i <= Len(a)
    BY <2>1, <1>1, <1>3, <1>4
  <2>2. CASE i = Len(a) + 1
    BY <2>2, <1>1, <1>3, <1>4
  <2>3. CASE i > Len(a) + 1
    BY <2>3, <1>1, <1>3, <1>4
  <2> QED
    BY <2>1, <2>2, <2>3, <1>3, <1>4
<1> HIDE DEF l, r
<1>6. l = r
  BY <1>2, <1>4, <1>5, SeqEqual
<1> QED
  BY <1>1, <1>6 DEF l, r

\* What a concatenation consists of.
LEMMA ConcatElements ==
    ASSUME NEW S, NEW a \in Seq(S), NEW b \in Seq(S)
    PROVE  /\ a \o b \in Seq(S)
           /\ Len(a \o b) = Len(a) + Len(b)
           /\ \A i \in 1 .. Len(a) : (a \o b)[i] = a[i]
           /\ \A i \in 1 .. Len(b) : (a \o b)[Len(a) + i] = b[i]
  OBVIOUS

\* Appending to the second part of a concatenation appends to the whole.
LEMMA AppendToSecond ==
    ASSUME NEW S, NEW a \in Seq(S), NEW b \in Seq(S), NEW e \in S
    PROVE  a \o Append(b, e) = Append(a \o b, e)
<1> DEFINE l == a \o Append(b, e)
           r == Append(a \o b, e)
<1>1. l \in Seq(S) /\ r \in Seq(S) /\ Len(l) = Len(r) /\ Len(l) = Len(a) + Len(b) + 1
  OBVIOUS
<1>2. ASSUME NEW i \in 1 .. Len(l)
      PROVE  l[i] = r[i]
  <2>1. CASE i <= Len(a)
    BY <2>1, <1>1
  <2>2. CASE i > Len(a) /\ i <= Len(a) + Len(b)
    BY <2>2, <1>1
  <2>3. CASE i = Len(a) + Len(b) + 1
    BY <2>3, <1>1
  <2> QED
    BY <2>1, <2>2, <2>3, <1>1
<1> HIDE DEF l, r
<1>3. l = r
  BY <1>1, <1>2, SeqEqual
<1> QED
  BY <1>3 DEF l, r

\* The numbers in a sequence of frames.
LEMMA FrameSeq ==
    ASSUME NEW g \in Seq(Frame)
    PROVE  /\ Len(g) \in Nat
           /\ DOMAIN g = 1 .. Len(g)
           /\ \A i \in DOMAIN g : g[i] \in Nat
  BY MaxFramesAssumption DEF Frame

\* A sequence of frames with one more, newer frame at its end.
LEMMA FrameSeqAppend ==
    ASSUME NEW g \in Seq(Frame), NEW f \in Frame
    PROVE  /\ Append(g, f) \in Seq(Frame)
           /\ DOMAIN Append(g, f) = DOMAIN g \cup {Len(g) + 1}
           /\ Append(g, f)[Len(g) + 1] = f
           /\ \A i \in DOMAIN g : Append(g, f)[i] = g[i] /\ i < Len(g) + 1
  BY FrameSeq

-----------------------------------------------------------------------------
(* Lemmas about the order of frames *)

\* A new frame at the end of an increasing sequence.
LEMMA IncreasingAppend ==
    ASSUME NEW g \in Seq(Frame), NEW f \in Frame, Increasing(g),
           \A i \in DOMAIN g : g[i] < f
    PROVE  Increasing(Append(g, f))
<1> SUFFICES ASSUME NEW i \in DOMAIN Append(g, f), NEW j \in DOMAIN Append(g, f), i < j
             PROVE  Append(g, f)[i] < Append(g, f)[j]
  BY DEF Increasing
<1>1. Len(g) \in Nat /\ DOMAIN g = 1 .. Len(g)
  BY FrameSeq
<1>2. i \in DOMAIN g
  BY <1>1, FrameSeqAppend
<1>3. CASE j \in DOMAIN g
  BY <1>2, <1>3, FrameSeqAppend DEF Increasing
<1>4. CASE j = Len(g) + 1
  BY <1>2, <1>4, FrameSeqAppend
<1> QED
  BY <1>3, <1>4, FrameSeqAppend

\* A new frame comes after everything known.
LEMMA BeforeAppend ==
    ASSUME NEW g \in Seq(Frame), NEW h \in Seq(Frame), NEW f \in Frame,
           Before(g, h), \A i \in DOMAIN g : g[i] < f
    PROVE  Before(g, Append(h, f))
  BY FrameSeqAppend DEF Before

\* Appending a new frame to what the newest session of a peer holds, when
\* nothing is pending for that peer.
LEMMA OrderAppendGiven ==
    ASSUME NEW G \in [Session -> Seq(Frame)], NEW P \in [Peer -> Seq(Frame)],
           NEW peer \in [Session -> Peer], NEW n \in Nat, NEW k \in Nat,
           Known(G, P, k), InOrder(G, P, peer, n), k + 1 \in Frame,
           NEW t \in Session, t <= n, P[peer[t]] = <<>>,
           \A u \in Session : u > t /\ u <= n => peer[u] # peer[t],
           NEW H, H = [G EXCEPT ![t] = Append(G[t], k + 1)]
    PROVE  H \in [Session -> Seq(Frame)] /\ Known(H, P, k + 1) /\ InOrder(H, P, peer, n)
<1>1. \A s \in Session : \A i \in DOMAIN G[s] : G[s][i] \in Nat /\ G[s][i] < k + 1
  BY FrameSeq DEF Known
<1>2. \A p \in Peer : \A i \in DOMAIN P[p] : P[p][i] \in Nat /\ P[p][i] < k + 1
  BY FrameSeq DEF Known
<1>3. H[t] = Append(G[t], k + 1) /\ \A s \in Session : s # t => H[s] = G[s]
  OBVIOUS
<1>4. H \in [Session -> Seq(Frame)]
  BY FrameSeqAppend
<1>5. Known(H, P, k + 1)
  <2>1. \A i \in DOMAIN H[t] : H[t][i] <= k + 1
    BY <1>1, <1>3, FrameSeqAppend
  <2> QED
    BY <2>1, <1>1, <1>2, <1>3 DEF Known
<1>6. \A s \in Session : Increasing(H[s])
  BY <1>1, <1>3, IncreasingAppend DEF InOrder
<1>7. ASSUME NEW s \in Session, NEW u \in Session, s < u, u <= n, peer[s] = peer[u]
      PROVE  Before(H[s], H[u])
  <2>1. s # t /\ Before(G[s], G[u])
    BY <1>7 DEF InOrder, Session
  <2>2. CASE u = t
    BY <2>1, <2>2, <1>1, <1>3, BeforeAppend
  <2>3. CASE u # t
    BY <2>1, <2>3, <1>3
  <2> QED
    BY <2>2, <2>3
<1>8. ASSUME NEW s \in Session, s <= n
      PROVE  Before(H[s], P[peer[s]])
  <2>1. CASE peer[s] = peer[t]
    BY <2>1 DEF Before
  <2>2. CASE peer[s] # peer[t]
    BY <1>8, <2>2, <1>3 DEF InOrder
  <2> QED
    BY <2>1, <2>2
<1> QED
  BY <1>4, <1>5, <1>6, <1>7, <1>8 DEF InOrder

\* Appending a new frame to what is pending for a peer.
LEMMA OrderAppendPending ==
    ASSUME NEW G \in [Session -> Seq(Frame)], NEW P \in [Peer -> Seq(Frame)],
           NEW peer \in [Session -> Peer], NEW n \in Nat, NEW k \in Nat,
           Known(G, P, k), InOrder(G, P, peer, n), k + 1 \in Frame,
           NEW p \in Peer,
           NEW Q, Q = [P EXCEPT ![p] = Append(P[p], k + 1)]
    PROVE  Q \in [Peer -> Seq(Frame)] /\ Known(G, Q, k + 1) /\ InOrder(G, Q, peer, n)
<1>1. \A s \in Session : \A i \in DOMAIN G[s] : G[s][i] \in Nat /\ G[s][i] < k + 1
  BY FrameSeq DEF Known
<1>2. \A q \in Peer : \A i \in DOMAIN P[q] : P[q][i] \in Nat /\ P[q][i] < k + 1
  BY FrameSeq DEF Known
<1>3. Q[p] = Append(P[p], k + 1) /\ \A q \in Peer : q # p => Q[q] = P[q]
  OBVIOUS
<1>4. Q \in [Peer -> Seq(Frame)]
  BY FrameSeqAppend
<1>5. Known(G, Q, k + 1)
  <2>1. \A i \in DOMAIN Q[p] : Q[p][i] <= k + 1
    BY <1>2, <1>3, FrameSeqAppend
  <2> QED
    BY <2>1, <1>1, <1>2, <1>3 DEF Known
<1>6. \A q \in Peer : Increasing(Q[q])
  BY <1>2, <1>3, IncreasingAppend DEF InOrder
<1>7. \A s \in Session : s <= n => Before(G[s], Q[peer[s]])
  BY <1>1, <1>3, BeforeAppend DEF InOrder
<1> QED
  BY <1>4, <1>5, <1>6, <1>7 DEF InOrder

\* A new session takes over what is pending for its peer.
LEMMA OrderNewSession ==
    ASSUME NEW G \in [Session -> Seq(Frame)], NEW P \in [Peer -> Seq(Frame)],
           NEW peer \in [Session -> Peer], NEW n \in Nat, NEW k \in Nat,
           Known(G, P, k), InOrder(G, P, peer, n), n + 1 \in Session,
           NEW p \in Peer
    PROVE  /\ Known([G EXCEPT ![n + 1] = P[p]], [P EXCEPT ![p] = <<>>], k)
           /\ InOrder([G EXCEPT ![n + 1] = P[p]], [P EXCEPT ![p] = <<>>],
                      [peer EXCEPT ![n + 1] = p], n + 1)
<1> SUFFICES ASSUME NEW H, H = [G EXCEPT ![n + 1] = P[p]],
                    NEW Q, Q = [P EXCEPT ![p] = <<>>],
                    NEW peer2, peer2 = [peer EXCEPT ![n + 1] = p]
             PROVE  Known(H, Q, k) /\ InOrder(H, Q, peer2, n + 1)
  OBVIOUS
<1>1. /\ H[n + 1] = P[p] /\ Q[p] = <<>> /\ peer2[n + 1] = p
      /\ \A s \in Session : s # n + 1 => H[s] = G[s] /\ peer2[s] = peer[s]
      /\ \A q \in Peer : q # p => Q[q] = P[q]
  OBVIOUS
<1>3. Known(H, Q, k)
  BY <1>1 DEF Known
<1>4. \A s \in Session : Increasing(H[s])
  BY <1>1 DEF InOrder
<1>5. \A q \in Peer : Increasing(Q[q])
  BY <1>1 DEF InOrder, Increasing
<1>6. ASSUME NEW s \in Session, NEW u \in Session, s < u, u <= n + 1, peer2[s] = peer2[u]
      PROVE  Before(H[s], H[u])
  <2>1. s # n + 1 /\ s <= n
    BY <1>6 DEF Session
  <2>2. CASE u = n + 1
    BY <2>1, <2>2, <1>1, <1>6 DEF InOrder
  <2>3. CASE u # n + 1
    <3>1. u <= n
      BY <2>3, <1>6 DEF Session
    <3> QED
      BY <2>1, <2>3, <3>1, <1>1, <1>6 DEF InOrder
  <2> QED
    BY <2>2, <2>3
<1>7. ASSUME NEW s \in Session, s <= n + 1
      PROVE  Before(H[s], Q[peer2[s]])
  <2>1. CASE peer2[s] = p
    BY <2>1, <1>1 DEF Before
  <2>2. CASE peer2[s] # p
    <3>1. s # n + 1 /\ s <= n
      BY <2>2, <1>1, <1>7 DEF Session
    <3> QED
      BY <2>2, <3>1, <1>1 DEF InOrder
  <2> QED
    BY <2>1, <2>2
<1> QED
  BY <1>3, <1>4, <1>5, <1>6, <1>7 DEF InOrder

\* A session loses the end of what it holds.
LEMMA OrderShorten ==
    ASSUME NEW G \in [Session -> Seq(Frame)], NEW P \in [Peer -> Seq(Frame)],
           NEW peer, NEW n, NEW k,
           Known(G, P, k), InOrder(G, P, peer, n),
           NEW t \in Session, NEW a \in Seq(Frame), NEW b \in Seq(Frame), G[t] = a \o b,
           NEW H, H = [G EXCEPT ![t] = a]
    PROVE  Known(H, P, k) /\ InOrder(H, P, peer, n)
<1>1. H[t] = a /\ \A s \in Session : s # t => H[s] = G[s]
  OBVIOUS
<1>2. \A s \in Session : \A i \in DOMAIN H[s] : i \in DOMAIN G[s] /\ H[s][i] = G[s][i]
  <2>1. \A i \in DOMAIN a : i \in DOMAIN (a \o b) /\ (a \o b)[i] = a[i]
    BY FrameSeq, ConcatElements
  <2> QED
    BY <1>1, <2>1
<1>3. Known(H, P, k)
  BY <1>2 DEF Known
<1>4. \A s \in Session : Increasing(H[s])
  BY <1>2 DEF InOrder, Increasing
<1>5. \A s, u \in Session : Before(G[s], G[u]) => Before(H[s], H[u])
  BY <1>2 DEF Before
<1>6. \A s \in Session : Before(G[s], P[peer[s]]) => Before(H[s], P[peer[s]])
  BY <1>2 DEF Before
<1> QED
  BY <1>3, <1>4, <1>5, <1>6 DEF InOrder

-----------------------------------------------------------------------------
(* The inductive invariant *)

\* The empty table satisfies the invariant.
LEMMA InitInvariant == Init => IInv
<1> SUFFICES ASSUME Init PROVE IInv
  OBVIOUS
<1>0. (CHOOSE p \in Peer : TRUE) \in Peer
  BY PeerAssumption
<1>1. TypeOK
  BY <1>0, MaxFramesAssumption, MaxSessionsAssumption
     DEF Init, TypeOK, Session, NoSession, Frame, Phase
<1>2. \A s \in Session : given[s] = <<>>
  BY DEF Init, given
<1>3. SessionsNumbered
  BY DEF Init, SessionsNumbered, Session
<1>4. StoredSessionIsAlive /\ NewestStored /\ NothingPendingBesideSession
  BY DEF Init, StoredSessionIsAlive, NewestStored, NothingPendingBesideSession, IsEstablished
<1>5. FramesKnown
  BY <1>2 DEF FramesKnown, Known, Init
<1>6. FramesInOrder
  BY <1>2 DEF FramesInOrder, InOrder, Init, Increasing, Before
<1> QED
  BY <1>1, <1>3, <1>4, <1>5, <1>6 DEF IInv


\* The facts about a state that satisfies the invariant which the lemmas on
\* the order of frames ask for.
LEMMA InvariantFacts ==
    ASSUME IInv
    PROVE  /\ given \in [Session -> Seq(Frame)]
           /\ pending_sessions \in [Peer -> Seq(Frame)]
           /\ peerOf \in [Session -> Peer]
           /\ nsessions \in Nat /\ nframes \in Nat
           /\ Known(given, pending_sessions, nframes)
           /\ InOrder(given, pending_sessions, peerOf, nsessions)
           /\ nframes < MaxFrames => nframes + 1 \in Frame
           /\ nsessions < MaxSessions => nsessions + 1 \in Session
<1>1. given \in [Session -> Seq(Frame)]
  BY ConcatElements DEF IInv, TypeOK, given
<1> QED
  BY <1>1, MaxFramesAssumption, MaxSessionsAssumption
     DEF IInv, TypeOK, FramesKnown, FramesInOrder, Frame, Session

\* SessionState::send with a stored session preserves the invariant.
LEMMA SendEstablishedInvariant ==
    ASSUME IInv, NEW p \in Peer, SendEstablished(p)
    PROVE  IInv'
<1> PICK t : t = sessions[p]
  OBVIOUS
<1>1. t \in Session /\ t <= nsessions /\ peerOf[t] = p /\ phase[t] \notin {"free", "closed"}
  <2>1. t \in Session
    BY DEF IInv, TypeOK, SendEstablished, IsEstablished
  <2>2. peerOf[t] = p /\ phase[t] \in {"storing", "open", "blocked"}
    BY DEF IInv, SendEstablished, StoredSessionIsAlive, Alive
  <2>3. ~ (t > nsessions)
    BY <2>1, <2>2 DEF IInv, SessionsNumbered
  <2> QED
    BY <2>1, <2>2, <2>3, InvariantFacts, MaxSessionsAssumption DEF Session
<1>2. outbound' = [outbound EXCEPT ![t] = Append(outbound[t], nframes + 1)]
  BY <1>1 DEF SendEstablished
<1>3. nframes + 1 \in Frame /\ nframes' = nframes + 1
  BY InvariantFacts DEF SendEstablished
<1>4. TypeOK'
  <2>1. outbound' \in [Session -> Seq(Frame)]
    BY <1>1, <1>2, <1>3 DEF IInv, TypeOK
  <2>2. nframes' \in 0 .. MaxFrames
    BY <1>3, MaxFramesAssumption DEF Frame
  <2> QED
    BY <2>1, <2>2 DEF IInv, TypeOK, SendEstablished
<1>5. SessionsNumbered' /\ StoredSessionIsAlive' /\ NewestStored' /\ NothingPendingBesideSession'
  BY <1>1, <1>2 DEF IInv, TypeOK, SendEstablished, IsEstablished, StoredSessionIsAlive, Alive,
         SessionsNumbered, NewestStored, NothingPendingBesideSession
<1>6. given' = [given EXCEPT ![t] = Append(given[t], nframes + 1)]
  <2>1. written[t] \o Append(outbound[t], nframes + 1) = Append(given[t], nframes + 1)
    BY <1>1, <1>3, AppendToSecond DEF IInv, TypeOK, given
  <2> QED
    BY <1>1, <1>2, <2>1 DEF IInv, TypeOK, SendEstablished, given
<1>7. /\ pending_sessions[peerOf[t]] = <<>>
      /\ \A u \in Session : u > t /\ u <= nsessions => peerOf[u] # peerOf[t]
  BY <1>1 DEF IInv, NewestStored, NothingPendingBesideSession, SendEstablished
<1>8. Known(given', pending_sessions, nframes + 1) /\ InOrder(given', pending_sessions, peerOf, nsessions)
  BY <1>1, <1>3, <1>6, <1>7, InvariantFacts, OrderAppendGiven
<1>9. FramesKnown' /\ FramesInOrder'
  BY <1>3, <1>8 DEF SendEstablished, FramesKnown, FramesInOrder
<1> QED
  BY <1>4, <1>5, <1>9 DEF IInv

\* SessionState::send without a stored session preserves the invariant.
LEMMA SendPendingInvariant ==
    ASSUME IInv, NEW p \in Peer, SendPending(p)
    PROVE  IInv'
<1>1. nframes + 1 \in Frame /\ nframes' = nframes + 1
  BY InvariantFacts DEF SendPending
<1>2. pending_sessions' = [pending_sessions EXCEPT ![p] = Append(pending_sessions[p], nframes + 1)]
  BY DEF SendPending
<1>3. connecting' \in [Peer -> Nat]
  BY DEF IInv, TypeOK, SendPending
<1>4. TypeOK'
  <2>1. pending_sessions' \in [Peer -> Seq(Frame)]
    BY <1>1, <1>2 DEF IInv, TypeOK
  <2>2. nframes' \in 0 .. MaxFrames
    BY <1>1, MaxFramesAssumption DEF Frame
  <2> QED
    BY <1>3, <2>1, <2>2 DEF IInv, TypeOK, SendPending
<1>5. SessionsNumbered' /\ StoredSessionIsAlive' /\ NewestStored' /\ NothingPendingBesideSession'
  BY <1>2 DEF IInv, TypeOK, SendPending, IsEstablished, StoredSessionIsAlive, Alive,
         SessionsNumbered, NewestStored, NothingPendingBesideSession
<1>6. given' = given
  BY DEF SendPending, given
<1>7. Known(given, pending_sessions', nframes + 1) /\ InOrder(given, pending_sessions', peerOf, nsessions)
  BY <1>1, <1>2, InvariantFacts, OrderAppendPending
<1>8. FramesKnown' /\ FramesInOrder'
  BY <1>1, <1>6, <1>7 DEF SendPending, FramesKnown, FramesInOrder
<1> QED
  BY <1>4, <1>5, <1>8 DEF IInv

\* SessionContext::new preserves the invariant, wherever the session comes from.
LEMMA NewSessionInvariant ==
    ASSUME IInv, NEW p \in Peer, NEW ph \in {"open", "storing"}, NewSession(p, ph),
           connecting' \in [Peer -> Nat]
    PROVE  IInv'
<1> PICK t : t = nsessions + 1
  OBVIOUS
<1>1. t \in Session /\ nsessions' = t /\ nsessions \in Nat
  BY InvariantFacts DEF NewSession
<1>2. phase[t] = "free" /\ outbound[t] = <<>> /\ written[t] = <<>>
  BY <1>1 DEF IInv, SessionsNumbered
<1>3. TypeOK'
  <2>1. outbound' \in [Session -> Seq(Frame)] /\ pending_sessions' \in [Peer -> Seq(Frame)]
    BY <1>1 DEF IInv, TypeOK, NewSession
  <2>2. nsessions' \in 0 .. MaxSessions
    BY <1>1, MaxSessionsAssumption DEF Session
  <2>3. sessions' \in [Peer -> Session \cup {NoSession}] /\ peerOf' \in [Session -> Peer]
    BY <1>1 DEF IInv, TypeOK, NewSession
  <2>4. phase' \in [Session -> Phase]
    BY <1>1 DEF IInv, TypeOK, NewSession, Phase
  <2> QED
    BY <2>1, <2>2, <2>3, <2>4 DEF IInv, TypeOK, NewSession
<1>4. SessionsNumbered'
  BY <1>1, <1>2 DEF IInv, TypeOK, NewSession, SessionsNumbered, Session
<1>5. StoredSessionIsAlive'
  BY <1>1, <1>2 DEF IInv, TypeOK, NewSession, StoredSessionIsAlive, IsEstablished, Alive
<1>6. NewestStored'
  <2> SUFFICES ASSUME NEW q \in Peer, sessions'[q] # NoSession,
                      NEW u \in Session, u > sessions'[q], u <= t
               PROVE  peerOf'[u] # q
    BY <1>1 DEF NewestStored, IsEstablished
  <2>1. CASE q = p
    BY <2>1, <1>1 DEF IInv, TypeOK, NewSession, Session
  <2>2. CASE q # p
    <3>1. sessions'[q] = sessions[q] /\ IsEstablished(q)
      BY <2>2 DEF IInv, TypeOK, NewSession, IsEstablished
    <3>2. CASE u = t
      BY <2>2, <3>2, <1>1 DEF IInv, TypeOK, NewSession
    <3>3. CASE u # t
      <4>1. u <= nsessions /\ peerOf'[u] = peerOf[u]
        BY <3>3, <1>1 DEF IInv, TypeOK, NewSession, Session
      <4> QED
        BY <3>1, <4>1 DEF IInv, NewestStored
    <3> QED
      BY <3>2, <3>3
  <2> QED
    BY <2>1, <2>2
<1>7. NothingPendingBesideSession'
  BY DEF IInv, TypeOK, NewSession, NothingPendingBesideSession, IsEstablished
<1>8. given' = [given EXCEPT ![t] = pending_sessions[p]]
  <2>1. <<>> \o pending_sessions[p] = pending_sessions[p]
    BY DEF IInv, TypeOK
  <2> QED
    BY <1>1, <1>2, <2>1 DEF IInv, TypeOK, NewSession, given
<1>9. /\ Known(given', pending_sessions', nframes)
      /\ InOrder(given', pending_sessions', peerOf', nsessions + 1)
  <2>1. /\ pending_sessions' = [pending_sessions EXCEPT ![p] = <<>>]
        /\ peerOf' = [peerOf EXCEPT ![nsessions + 1] = p]
        /\ given' = [given EXCEPT ![nsessions + 1] = pending_sessions[p]]
        /\ nsessions + 1 \in Session
    BY <1>1, <1>8 DEF NewSession
  <2>2. /\ given \in [Session -> Seq(Frame)]
        /\ pending_sessions \in [Peer -> Seq(Frame)]
        /\ peerOf \in [Session -> Peer]
        /\ nsessions \in Nat /\ nframes \in Nat
        /\ Known(given, pending_sessions, nframes)
        /\ InOrder(given, pending_sessions, peerOf, nsessions)
    BY InvariantFacts
  <2> QED
    BY <2>1, <2>2, OrderNewSession
<1>10. FramesKnown' /\ FramesInOrder'
  BY <1>1, <1>9 DEF NewSession, FramesKnown, FramesInOrder
<1> QED
  BY <1>3, <1>4, <1>5, <1>6, <1>7, <1>10 DEF IInv

\* One turn of a session's write loop preserves the invariant.
LEMMA WriteFrameInvariant ==
    ASSUME IInv, NEW t \in Session, WriteFrame(t)
    PROVE  IInv'
<1>1. /\ Append(written[t], Head(outbound[t])) \in Seq(Frame)
      /\ Tail(outbound[t]) \in Seq(Frame)
      /\ Append(written[t], Head(outbound[t])) \o Tail(outbound[t]) = written[t] \o outbound[t]
  BY MoveHead DEF IInv, TypeOK, WriteFrame
<1>2. written' \in [Session -> Seq(Frame)] /\ outbound' \in [Session -> Seq(Frame)]
  BY <1>1 DEF IInv, TypeOK, WriteFrame
<1>3. TypeOK'
  BY <1>2 DEF IInv, TypeOK, WriteFrame
<1>4. given' = given
  BY <1>1 DEF IInv, TypeOK, WriteFrame, given
<1>5. SessionsNumbered'
  BY DEF IInv, TypeOK, SessionsNumbered, WriteFrame
<1>6. StoredSessionIsAlive' /\ NewestStored' /\ NothingPendingBesideSession'
  BY DEF IInv, WriteFrame, StoredSessionIsAlive, IsEstablished, Alive, NewestStored,
         NothingPendingBesideSession
<1>7. FramesKnown' /\ FramesInOrder'
  BY <1>4 DEF IInv, WriteFrame, FramesKnown, FramesInOrder
<1> QED
  BY <1>3, <1>5, <1>6, <1>7 DEF IInv

\* Drop for SessionContext preserves the invariant, although it may remove the
\* entry of another session.
LEMMA DropContextInvariant ==
    ASSUME IInv, NEW t \in Session, DropContext(t)
    PROVE  IInv'
<1>1. peerOf[t] \in Peer /\ Alive(t)
  BY DEF IInv, TypeOK, DropContext
<1>2. sessions' \in [Peer -> Session \cup {NoSession}] /\ phase' \in [Session -> Phase]
  BY <1>1 DEF IInv, TypeOK, DropContext, Phase
<1>3. TypeOK'
  BY <1>2 DEF IInv, TypeOK, DropContext
<1>4. SessionsNumbered'
  BY <1>1 DEF IInv, TypeOK, SessionsNumbered, DropContext, Alive
<1>5. \A p \in Peer : sessions'[p] # NoSession =>
         p # peerOf[t] /\ sessions'[p] = sessions[p] /\ sessions[p] \in Session
  BY <1>1 DEF IInv, TypeOK, DropContext
<1>6. StoredSessionIsAlive'
  BY <1>5 DEF IInv, TypeOK, StoredSessionIsAlive, IsEstablished, Alive, DropContext
<1>7. NewestStored' /\ NothingPendingBesideSession'
  BY <1>5 DEF IInv, DropContext, IsEstablished, NewestStored, NothingPendingBesideSession
<1>8. FramesKnown' /\ FramesInOrder'
  BY DEF IInv, DropContext, given, FramesKnown, FramesInOrder
<1> QED
  BY <1>3, <1>4, <1>6, <1>7, <1>8 DEF IInv

\* Dropping the receiver of a session preserves the invariant.
LEMMA DropReceiverInvariant ==
    ASSUME IInv, NEW t \in Session, DropReceiver(t)
    PROVE  IInv'
<1>1. outbound' \in [Session -> Seq(Frame)] /\ phase' \in [Session -> Phase] /\ lost' \in SUBSET Frame
  <2>1. ToSet(outbound[t]) \subseteq Frame
    BY DEF IInv, TypeOK, ToSet
  <2> QED
    BY <2>1 DEF IInv, TypeOK, DropReceiver, Phase
<1>2. TypeOK'
  BY <1>1 DEF IInv, TypeOK, DropReceiver
<1>3. SessionsNumbered'
  BY DEF IInv, TypeOK, SessionsNumbered, DropReceiver
<1>4. \A p \in Peer : sessions[p] # NoSession => sessions[p] # t
  BY DEF IInv, StoredSessionIsAlive, IsEstablished, Alive, DropReceiver
<1>5. StoredSessionIsAlive'
  BY <1>4 DEF IInv, TypeOK, StoredSessionIsAlive, IsEstablished, Alive, DropReceiver
<1>6. NewestStored' /\ NothingPendingBesideSession'
  BY DEF IInv, DropReceiver, IsEstablished, NewestStored, NothingPendingBesideSession
<1>7. given' = [given EXCEPT ![t] = written[t]]
  <2>1. written[t] \o <<>> = written[t]
    BY DEF IInv, TypeOK
  <2> QED
    BY <2>1 DEF IInv, TypeOK, DropReceiver, given
<1>8. Known(given', pending_sessions, nframes) /\ InOrder(given', pending_sessions, peerOf, nsessions)
  <2>1. written[t] \in Seq(Frame) /\ outbound[t] \in Seq(Frame)
        /\ given[t] = written[t] \o outbound[t]
    BY DEF IInv, TypeOK, given
  <2> QED
    BY <1>7, <2>1, InvariantFacts, OrderShorten
<1>9. FramesKnown' /\ FramesInOrder'
  BY <1>8 DEF DropReceiver, FramesKnown, FramesInOrder
<1> QED
  BY <1>2, <1>3, <1>5, <1>6, <1>9 DEF IInv

\* Steps that only move a connection attempt or a session's phase, and
\* stuttering, preserve the invariant.
LEMMA PhaseInvariant ==
    ASSUME IInv, NEW t \in Session, StartSession(t) \/ Block(t) \/ Unblock(t)
    PROVE  IInv'
<1>1. PICK ph \in {"open", "blocked"} : phase' = [phase EXCEPT ![t] = ph]
  BY DEF StartSession, Block, Unblock
<1>2. Alive(t)
  BY DEF StartSession, Block, Unblock, Alive
<1>3. UNCHANGED <<sessions, pending_sessions, connecting, nframes, nsessions, peerOf, outbound,
                  written, lost>>
  BY DEF StartSession, Block, Unblock
<1>4. phase' \in [Session -> Phase]
  BY <1>1 DEF IInv, TypeOK, Phase
<1>5. TypeOK'
  BY <1>3, <1>4 DEF IInv, TypeOK
<1>6. ASSUME NEW s \in Session
      PROVE  /\ phase'[s] = "free" <=> phase[s] = "free"
             /\ Alive(s) => Alive(s)'
  <2>1. CASE s = t
    <3>1. phase'[s] \in {"open", "blocked"}
      BY <1>1, <2>1 DEF IInv, TypeOK
    <3> QED
      BY <1>2, <2>1, <3>1 DEF Alive
  <2>2. CASE s # t
    <3>1. phase'[s] = phase[s]
      BY <1>1, <2>2 DEF IInv, TypeOK
    <3> QED
      BY <3>1 DEF Alive
  <2> QED
    BY <2>1, <2>2
<1>7. SessionsNumbered'
  <2> SUFFICES ASSUME NEW s \in Session
               PROVE  /\ phase'[s] = "free" <=> s > nsessions
                      /\ phase'[s] = "free" => outbound[s] = <<>> /\ written[s] = <<>>
    BY <1>3 DEF SessionsNumbered
  <2>1. /\ phase[s] = "free" <=> s > nsessions
        /\ phase[s] = "free" => outbound[s] = <<>> /\ written[s] = <<>>
    BY DEF IInv, SessionsNumbered
  <2> QED
    BY <1>6, <2>1
<1>8. StoredSessionIsAlive'
  BY <1>3, <1>6 DEF IInv, TypeOK, StoredSessionIsAlive, IsEstablished
<1>9. NewestStored' /\ NothingPendingBesideSession' /\ FramesKnown' /\ FramesInOrder'
  BY <1>3 DEF IInv, IsEstablished, NewestStored, NothingPendingBesideSession, given, FramesKnown,
              FramesInOrder
<1> QED
  BY <1>5, <1>7, <1>8, <1>9 DEF IInv

\* Every step of the session table and of its tasks preserves the invariant.
LEMMA NextInvariant == IInv /\ [Next]_vars => IInv'
<1> SUFFICES ASSUME IInv, [Next]_vars PROVE IInv'
  OBVIOUS
<1>1. ASSUME NEW p \in Peer, Send(p) PROVE IInv'
  BY <1>1, SendEstablishedInvariant, SendPendingInvariant DEF Send
<1>2. ASSUME NEW p \in Peer, ConnectSucceeds(p) PROVE IInv'
  <2>1. connecting' \in [Peer -> Nat]
    BY <1>2 DEF IInv, TypeOK, ConnectSucceeds
  <2> QED
    BY <1>2, <2>1, NewSessionInvariant DEF ConnectSucceeds
<1>3. ASSUME NEW p \in Peer, ConnectFails(p) PROVE IInv'
  <2>1. connecting' \in [Peer -> Nat]
    BY <1>3 DEF IInv, TypeOK, ConnectFails
  <2> QED
    BY <1>3, <2>1 DEF IInv, TypeOK, ConnectFails, SessionsNumbered, StoredSessionIsAlive,
       IsEstablished, Alive, NewestStored, NothingPendingBesideSession, given, FramesKnown,
       FramesInOrder
<1>4. ASSUME NEW p \in Peer, Accept(p) PROVE IInv'
  BY <1>4, NewSessionInvariant DEF Accept, IInv, TypeOK
<1>5. ASSUME NEW s \in Session,
             \/ StartSession(s) \/ WriteFrame(s) \/ Block(s) \/ Unblock(s)
             \/ DropContext(s) \/ DropReceiver(s)
      PROVE  IInv'
  BY <1>5, PhaseInvariant, WriteFrameInvariant, DropContextInvariant, DropReceiverInvariant
<1>6. CASE UNCHANGED vars
  BY <1>6 DEF vars, IInv, TypeOK, SessionsNumbered, StoredSessionIsAlive,
     IsEstablished, Alive, NewestStored, NothingPendingBesideSession, given, FramesKnown,
     FramesInOrder
<1> QED
  BY <1>1, <1>2, <1>3, <1>4, <1>5, <1>6 DEF Next, ConnectResolves

\* The inductive invariant holds in every reachable state.
THEOREM Invariance == Spec => []IInv
  BY InitInvariant, NextInvariant, PTL DEF Spec

\* Type correctness of the session table and of its tasks.
THEOREM TypeCorrect == Spec => []TypeOK
<1>1. IInv => TypeOK
  BY DEF IInv
<1> QED
  BY <1>1, Invariance, PTL

\* A sender found in the table always reaches a live session of the right
\* peer, whatever the order in which duplicate sessions end.
THEOREM StoredSessionAlways == Spec => []StoredSessionIsAlive
<1>1. IInv => StoredSessionIsAlive
  BY DEF IInv
<1> QED
  BY <1>1, Invariance, PTL

\* No frame is left waiting beside an established session.
THEOREM NothingPendingAlways == Spec => []NothingPendingBesideSession
<1>1. IInv => NothingPendingBesideSession
  BY DEF IInv
<1> QED
  BY <1>1, Invariance, PTL

\* Frames for one peer are never reordered on their way to the sinks.
THEOREM OrderAlways == Spec => []FramesInOrder
<1>1. IInv => FramesInOrder
  BY DEF IInv
<1> QED
  BY <1>1, Invariance, PTL
=============================================================================
