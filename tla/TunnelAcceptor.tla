--------------------------- MODULE TunnelAcceptor --------------------------
(***************************************************************************)
(* The tunnel build listener and the tasks it spawns (tunnel/acceptor.rs).   *)
(* Each request that has an entry for this router becomes a HopAcceptor: it  *)
(* decrypts the entry, checks it, looks the next hop up, registers the       *)
(* tunnel if it accepts it, and forwards the request with its answer.        *)
(***************************************************************************)
EXTENDS TunnelChannel, DecayingBloomFilter, FiniteSets

CONSTANTS
    BuildMessage,      \* build requests: from, ours, readable, key, hop_type, tid, next, request_time
    MaxBuilds,         \* bound: build requests received
    Us,                \* our hash
    Hour,              \* the unit of request_time
    MaxRequestAge,     \* MAX_REQUEST_AGE
    MaxRequestFuture   \* MAX_REQUEST_FUTURE

ASSUME BuildAssumption ==
    /\ MaxBuilds \in Nat
    /\ Hour \in Nat /\ MaxRequestAge \in Nat /\ MaxRequestFuture \in Nat
    /\ \A m \in BuildMessage : m.request_time \in Nat

VARIABLES
    acceptors,  \* the HopAcceptors, in the order in which they were spawned
    seen        \* filter, shared by all of them

acceptorVars == <<acceptors, seen>>

Acceptor == 1 .. MaxBuilds
AcceptorState == {"Resolving", "RegisterParticipating", "Encrypt", "Answered"}

\* A task that ended without telling the tunnel's creator that we take part.
Gone == [state |-> "Gone"]

AcceptorTypeOK ==
    /\ acceptors \in Seq({Gone} \cup [msg : BuildMessage, state : AcceptorState, expires : Nat])
    /\ Len(acceptors) <= MaxBuilds
    /\ Inserted(seen) \subseteq {m.key : m \in BuildMessage}

AcceptorInit == acceptors = <<>> /\ seen = EmptyFilter

Goto(a, s) == acceptors' = [acceptors EXCEPT ![a].state = s]
End(a) == acceptors' = [acceptors EXCEPT ![a] = Gone]

\* We may not be followed by ourselves ...
LoopAA(m) == m.hop_type # "OutboundEndpoint" /\ m.next = Us

\* ... nor stand between two occurrences of one router.
LoopABA(m) == m.hop_type = "Intermediate" /\ m.from = m.next

\* The request names the hour in which it was made, as a duration since the epoch.
TimeIsValid(m) ==
    LET request_time == m.request_time * Hour
    IN IF request_time < now
       THEN now - request_time <= MaxRequestAge
       ELSE request_time - now <= MaxRequestFuture

IsAcceptable(m) == ~ LoopAA(m) /\ ~ LoopABA(m) /\ TimeIsValid(m)

\* What becomes of a request once its entry was read and its reply key fed to the
\* filter, which said whether it was present.
Decrypted(m, present) ==
    IF ~ present /\ IsAcceptable(m)
    THEN [msg |-> m, state |-> "Resolving", expires |-> 0]
    ELSE Gone

\* Listener::poll, one message, and the first step of the task that it spawns if the
\* message has an entry of ours: until it takes the filter's lock, to look the reply
\* key up and insert it, the task shares nothing.
Listen(m) ==
    /\ Len(acceptors) < MaxBuilds
    /\ m.ours
    /\ \/ /\ ~ m.readable
          /\ acceptors' = Append(acceptors, Gone)
          /\ UNCHANGED seen
       \/ /\ m.readable
          /\ \E present \in Reported(seen, m.key) :
                /\ seen' = Fed(seen, m.key, present)
                /\ acceptors' = Append(acceptors, Decrypted(m, present))
    /\ UNCHANGED <<now, channelVars>>

\* As Reply below, but every position is accepted.
ReplyAlwaysAccept(hop_type) == "accept"

\* The answer: every intermediate position is accepted, nothing else is.
Reply(hop_type) == IF hop_type = "Intermediate" THEN "accept" ELSE "reject"

\* The lookup of the next hop fails.
ResolveFails(a) ==
    /\ acceptors[a].state = "Resolving"
    /\ End(a)
    /\ UNCHANGED <<seen, now, channelVars>>

\* It succeeds: a tunnel that we accept is sent to the participant, which fails
\* if the participant is gone; one that we reject is answered at once.
Resolve(a) ==
    LET m == acceptors[a].msg
        expires == now + TunnelLifetime
    IN
    /\ acceptors[a].state = "Resolving"
    /\ \/ /\ Reply(m.hop_type) = "accept"
          /\ receiver
          /\ acceptors' = [acceptors EXCEPT ![a].state = "RegisterParticipating",
                                            ![a].expires = expires]
          /\ Send(a, [tid |-> m.tid, hop_type |-> m.hop_type, from |-> m.from, expires |-> expires])
       \/ /\ Reply(m.hop_type) = "accept"
          /\ ~ receiver
          /\ End(a)
          /\ UNCHANGED channelVars
       \/ /\ Reply(m.hop_type) = "reject"
          /\ Goto(a, "Encrypt")
          /\ UNCHANGED channelVars
    /\ UNCHANGED <<seen, now>>

\* Once the channel lets go of this sender, or at once if we reject, the answer is
\* written and all entries are encrypted.  The transports take the message and send
\* it, or refuse it.
Encrypt(a) ==
    /\ \/ /\ acceptors[a].state = "RegisterParticipating"
          /\ ~ IsWaiting(a)
          /\ Goto(a, "Answered") \/ End(a)
       \/ /\ acceptors[a].state = "Encrypt"
          /\ End(a)
    /\ UNCHANGED <<seen, now, channelVars>>

\* HopAcceptor::poll
AcceptorStep(a) == ResolveFails(a) \/ Resolve(a) \/ Encrypt(a)

HasEnded(a) == acceptors[a].state \in {"Answered", "Gone"}
=============================================================================
