------------------------------ MODULE Tunnels ------------------------------
(***************************************************************************)
(* Participation in tunnels: the distributor (router/mod.rs) hands build     *)
(* requests to the acceptor and tunnel data to the participant, and the      *)
(* acceptor hands the tunnels it accepts to the participant.                 *)
(***************************************************************************)
EXTENDS TunnelAcceptor, TunnelParticipant

CONSTANTS
    StartTime,  \* the time at which the router starts
    MaxTime     \* bound: the clock

ASSUME TimeAssumption == StartTime \in Nat /\ MaxTime \in Nat

vars == <<now, channelVars, acceptorVars, participantVars>>

TypeOK ==
    /\ now \in StartTime .. MaxTime
    /\ queue \in Seq([tid : {m.tid : m \in BuildMessage}, hop_type : {m.hop_type : m \in BuildMessage},
                      from : {m.from : m \in BuildMessage}, expires : Nat])
    /\ waiting \in Seq(Acceptor) /\ Len(waiting) <= Len(queue)
    /\ notified \in BOOLEAN
    /\ parked \subseteq {"new_participating", "ib"}
    /\ AcceptorTypeOK
    /\ ParticipantTypeOK

Init ==
    /\ now = StartTime
    /\ AcceptorInit
    /\ ParticipantInit

\* Distributor::handle: the channel that a message is put in.
Channel(payload) ==
    CASE payload \in {"DatabaseStore", "DatabaseLookup", "DatabaseSearchReply"} -> "netdb"
      [] payload \in {"TunnelData", "TunnelGateway"} -> "tunnel_processor"
      [] payload \in {"TunnelBuild", "VariableTunnelBuild"} -> "tunnel_acceptor"
      [] OTHER -> "none"

\* A session hands a message to the distributor.
Handle(m) ==
    \/ /\ Channel(m.payload) = "tunnel_acceptor"
       /\ ~ closed
       /\ Listen(m)
       /\ UNCHANGED participantVars
    \/ /\ Channel(m.payload) = "tunnel_processor"
       /\ DataArrives(m)
       /\ UNCHANGED acceptorVars

Next ==
    \/ \E m \in BuildMessage \cup DataMessage : Handle(m)
    \/ Close /\ UNCHANGED acceptorVars
    \/ now < MaxTime /\ Tick /\ UNCHANGED acceptorVars
    \/ \E a \in DOMAIN acceptors : AcceptorStep(a) /\ UNCHANGED participantVars
    \/ ParticipantPoll /\ UNCHANGED acceptorVars
    \/ \E i \in DOMAIN hops : HopStep(i) /\ UNCHANGED acceptorVars

\* The runtime polls a task that is notified, and the thread pool runs what it is
\* given.  Nothing is assumed of the lookup of a next hop: one that joins another
\* lookup of the same router has no search and no timeout of its own (NetDb).
Fairness ==
    /\ \A a \in Acceptor : WF_vars(a \in DOMAIN acceptors /\ Encrypt(a) /\ UNCHANGED participantVars)
    /\ WF_vars(ParticipantPoll /\ UNCHANGED acceptorVars)

Spec == Init /\ [][Next]_vars /\ Fairness

-----------------------------------------------------------------------------
(* Properties *)

\* Nothing is forwarded through a tunnel once it has been expired for a full
\* EXPIRE_TUNNELS_INTERVAL, even though an idle participant sleeps through its
\* expiry timer (Participant::poll looks at its timers before it takes a message).
ForwardedWithinLifetime ==
    \A i \in DOMAIN hops : hops[i].at < hops[i].expires + ExpireTunnelsInterval

\* Two messages with the same filter value are not forwarded less than a tunnel's
\* lifetime apart: decays are that far apart, and it takes two to forget a value.
NoDuplicateForwarded ==
    \A i, j \in DOMAIN hops :
        i < j /\ hops[i].value = hops[j].value => hops[j].at >= hops[i].at + TunnelLifetime

\* What an acceptor sent to the participant.
Config(a) ==
    [tid |-> acceptors[a].msg.tid, hop_type |-> acceptors[a].msg.hop_type,
     from |-> acceptors[a].msg.from, expires |-> acceptors[a].expires]

\* The tunnels that a creator was told we take part in and that have not expired,
\* by acceptor.
Committed == {a \in DOMAIN acceptors : acceptors[a].state = "Answered" /\ now < acceptors[a].expires}

\* The tunnels in the table, and in the channel to it.
Held == {participating[tid] : tid \in DOMAIN participating} \cup ToSet(queue)

\* A tunnel is displaced by another of its id only, and by one that expires no
\* earlier (HashMap::insert, processor.rs:160): otherwise neither the wait in the
\* channel nor an expiry check, however late it runs, takes a tunnel out before its
\* end, as long as there is a participant (processor.rs:168).  The commitment of
\* acceptor.rs:297, to store every accepted tunnel for its lifetime, is more than
\* that, and does not hold of one that is displaced.
HeldUnlessDisplaced ==
    receiver => \A a \in Committed :
        \E h \in Held : h.tid = Config(a).tid /\ h.expires >= Config(a).expires

\* The participant never meets a kind of hop that it does not implement
\* (processor.rs:213, 222), because the acceptor never registers one.
NeverUnimplemented == poll # "Panicked"

\* Every build request whose next hop was found comes to an end: no acceptor waits
\* for ever for room in the channel, whatever the participant's task is doing when
\* it registers.
BuildsEnd ==
    \A a \in Acceptor :
        (a \in DOMAIN acceptors /\ acceptors[a].state # "Resolving")
            ~> (a \in DOMAIN acceptors /\ HasEnded(a))
=============================================================================
