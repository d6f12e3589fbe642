-------------------------- MODULE IterativeLookup --------------------------
(***************************************************************************)
(* Iterative lookups (netdb/lookup.rs) and the part of the engine that       *)
(* hands them the replies (netdb/mod.rs).                                    *)
(*                                                                         *)
(* A search asks one router after the other for its key, nearest first.     *)
(* Before it asks, it registers a sender with the engine through a channel; *)
(* the engine keeps the senders in a table and takes the one for the router *)
(* and the key of a DatabaseSearchReply.  The routers named in a reply are   *)
(* looked up themselves, and those that are found are asked in turn.         *)
(***************************************************************************)
EXTENDS Naturals, Sequences, SequencesExt

CONSTANTS
    Peer,         \* routers
    NoPeer,       \* none of them
    Search,       \* searches
    Key,          \* keys searched for
    KeyOf,        \* the key of each search
    Distance,     \* the distance of each router from each key (XorMetric)
    MaxReplies    \* bound: replies that arrive

ASSUME NoPeerAssumption == NoPeer \notin Peer
ASSUME KeyOfAssumption == KeyOf \in [Search -> Key]
ASSUME DistanceAssumption ==
    /\ Distance \in [Key -> [Peer -> Nat]]
    /\ \A k \in Key : \A p, q \in Peer : Distance[k][p] = Distance[k][q] => p = q
ASSUME MaxRepliesAssumption == MaxReplies \in Nat

VARIABLES
    phase,            \* where each search is
    peer,             \* the router it is asking (NoPeer before the first)
    to_try, tried,    \* IterativeLookup
    rx_dsr,           \* its oneshot channel: "empty", "reply" or "canceled"
    reply,            \* the reply that came through it
    looking_up,       \* routers named in the reply whose lookups go on
    found,            \* those whose lookups have succeeded
    pending_rx,       \* registrations on their way to the engine
    pending_lookups,  \* the engine's table: who waits for (router, key)
    engine,           \* "drain": taking registrations; "poll": taking a message
    asked,            \* <<router, key>> that have been asked
    ib_rx,            \* replies on their way to the engine
    nreplies          \* number of replies that have arrived

vars == <<phase, peer, to_try, tried, rx_dsr, reply, looking_up, found,
          pending_rx, pending_lookups, engine, asked, ib_rx, nreplies>>

searchVars == <<phase, peer, to_try, tried, rx_dsr, reply, looking_up, found>>
engineVars == <<pending_rx, pending_lookups, engine, ib_rx>>

\* "processing": has a reply and looks up who it says it is from.
\* "collecting": looks up the routers that the reply names.
Phase == {"idle", "registering", "sending", "awaiting", "processing", "collecting",
          "exhausted", "dropped"}
Registration == [peer : Peer, key : Key, search : Search]
Reply == [from : Peer, key : Key, claimed : Peer, peers : SUBSET Peer]
NoReply == [from |-> NoPeer, key |-> NoPeer, claimed |-> NoPeer, peers |-> {}]

TypeOK ==
    /\ phase \in [Search -> Phase]
    /\ peer \in [Search -> Peer \cup {NoPeer}]
    /\ to_try \in [Search -> SUBSET Peer]
    /\ tried \in [Search -> SUBSET Peer]
    /\ rx_dsr \in [Search -> {"empty", "reply", "canceled"}]
    /\ reply \in [Search -> Reply \cup {NoReply}]
    /\ looking_up \in [Search -> SUBSET Peer]
    /\ found \in [Search -> SUBSET Peer]
    /\ pending_rx \in Seq(Registration)
    /\ pending_lookups \subseteq Registration
    /\ \A r, o \in pending_lookups : r.peer = o.peer /\ r.key = o.key => r = o
    /\ engine \in {"drain", "poll"}
    /\ asked \subseteq Peer \X Key
    /\ ib_rx \in Seq(Reply)
    /\ nreplies \in 0 .. MaxReplies

Init ==
    /\ phase = [s \in Search |-> "idle"]
    /\ peer = [s \in Search |-> NoPeer]
    /\ to_try = [s \in Search |-> {}]
    /\ tried = [s \in Search |-> {}]
    /\ rx_dsr = [s \in Search |-> "empty"]
    /\ reply = [s \in Search |-> NoReply]
    /\ looking_up = [s \in Search |-> {}]
    /\ found = [s \in Search |-> {}]
    /\ pending_rx = <<>>
    /\ pending_lookups = {}
    /\ engine = "drain"
    /\ asked = {}
    /\ ib_rx = <<>>
    /\ nreplies = 0

Waiting(s) == phase[s] \in {"registering", "sending", "awaiting"}
Running(s) == Waiting(s) \/ phase[s] \in {"processing", "collecting"}

\* Whether a search still holds the receiver of a registration.
Hears(r) == Waiting(r.search) /\ peer[r.search] = r.peer

\* The senders registered for a router and a key (at most one).
RegisteredFor(p, k) == {r \in pending_lookups : r.peer = p /\ r.key = k}

-----------------------------------------------------------------------------
(* A search *)

\* process_peer: the router counts as tried before it is asked.
ProcessPeer(s, p) ==
    /\ peer' = [peer EXCEPT ![s] = p]
    /\ tried' = [tried EXCEPT ![s] = @ \cup {p}]
    /\ phase' = [phase EXCEPT ![s] = "registering"]

Nearest(s, ps) == CHOOSE p \in ps : \A q \in ps : Distance[KeyOf[s]][p] <= Distance[KeyOf[s]][q]

\* select_next_peer and the end of a round of iterative_lookup, with the
\* routers "more" added to those to try.
NextPeer(s, more) ==
    LET left == to_try[s] \cup more IN
    /\ rx_dsr' = [rx_dsr EXCEPT ![s] = "empty"]
    /\ reply' = [reply EXCEPT ![s] = NoReply]
    /\ looking_up' = [looking_up EXCEPT ![s] = {}]
    /\ found' = [found EXCEPT ![s] = {}]
    /\ \/ /\ left # {}
          /\ to_try' = [to_try EXCEPT ![s] = left \ {Nearest(s, left)}]
          /\ ProcessPeer(s, Nearest(s, left))
       \/ /\ left = {}
          /\ phase' = [phase EXCEPT ![s] = "exhausted"]
          /\ UNCHANGED <<peer, to_try, tried>>

\* iterative_lookup begins with one router.
Start(s, p) ==
    /\ phase[s] = "idle"
    /\ ProcessPeer(s, p)
    /\ UNCHANGED <<to_try, rx_dsr, reply, looking_up, found, engineVars, asked, nreplies>>

\* As Register, leaving the registration for after the message.
RegisterLater(s) ==
    /\ phase[s] = "registering"
    /\ phase' = [phase EXCEPT ![s] = "sending"]
    /\ UNCHANGED <<peer, to_try, tried, rx_dsr, reply, looking_up, found, engineVars, asked, nreplies>>

\* wait_for_search_reply: first the registration ...
Register(s) ==
    /\ phase[s] = "registering"
    /\ phase' = [phase EXCEPT ![s] = "sending"]
    /\ pending_rx' = Append(pending_rx, [peer |-> peer[s], key |-> KeyOf[s], search |-> s])
    /\ UNCHANGED <<peer, to_try, tried, rx_dsr, reply, looking_up, found, pending_lookups, engine, asked, ib_rx, nreplies>>

\* ... then the message ...
SendLookup(s) ==
    /\ phase[s] = "sending"
    /\ phase' = [phase EXCEPT ![s] = "awaiting"]
    /\ asked' = asked \cup {<<peer[s], KeyOf[s]>>}
    /\ UNCHANGED <<peer, to_try, tried, rx_dsr, reply, looking_up, found, engineVars, nreplies>>

\* ... then the reply is awaited.
ReceiveReply(s) ==
    /\ phase[s] = "awaiting"
    /\ rx_dsr[s] = "reply"
    /\ phase' = [phase EXCEPT ![s] = "processing"]
    /\ UNCHANGED <<peer, to_try, tried, rx_dsr, reply, looking_up, found, engineVars, asked, nreplies>>

\* As GiveUp, not giving up once the message is sent.
GiveUpUnlessSent(s) ==
    /\ phase[s] \in {"registering", "sending"}
    /\ NextPeer(s, {})
    /\ UNCHANGED <<engineVars, asked, nreplies>>

\* If there is no path, sending fails, the sender of the reply is dropped, or the
\* timeout fires before there is a reply, the search goes on without it.
GiveUp(s) ==
    /\ Waiting(s)
    /\ ~ (phase[s] = "awaiting" /\ rx_dsr[s] = "reply")
    /\ NextPeer(s, {})
    /\ UNCHANGED <<engineVars, asked, nreplies>>

\* process_dsr of a reply that names nobody or is from somebody never asked,
\* or whose sender cannot be looked up.
IgnoreReply(s) ==
    /\ phase[s] = "processing"
    /\ NextPeer(s, {})
    /\ UNCHANGED <<engineVars, asked, nreplies>>

\* process_dsr otherwise: every router that the reply names is looked up.
LookUpPeers(s) ==
    /\ phase[s] = "processing"
    /\ reply[s].peers # {}
    /\ reply[s].claimed \in tried[s]
    /\ phase' = [phase EXCEPT ![s] = "collecting"]
    /\ looking_up' = [looking_up EXCEPT ![s] = reply[s].peers]
    /\ UNCHANGED <<peer, to_try, tried, rx_dsr, reply, found, engineVars, asked, nreplies>>

\* As PeerFound, asking again those tried already.
PeerFoundAgain(s, p) ==
    /\ phase[s] = "collecting"
    /\ p \in looking_up[s]
    /\ NextPeer(s, found[s] \cup {p})
    /\ UNCHANGED <<engineVars, asked, nreplies>>

\* select_ok yields a router.  After the last one the round ends, and those not
\* tried yet are added to those to try.
PeerFound(s, p) ==
    /\ phase[s] = "collecting"
    /\ p \in looking_up[s]
    /\ IF looking_up[s] = {p}
       THEN NextPeer(s, (found[s] \cup {p}) \ tried[s])
       ELSE /\ looking_up' = [looking_up EXCEPT ![s] = @ \ {p}]
            /\ found' = [found EXCEPT ![s] = @ \cup {p}]
            /\ UNCHANGED <<phase, peer, to_try, tried, rx_dsr, reply>>
    /\ UNCHANGED <<engineVars, asked, nreplies>>

\* The lookup of a router fails.  If none is left then select_ok fails, and so
\* does process_dsr, with everything that was found.
PeerNotFound(s, p) ==
    /\ phase[s] = "collecting"
    /\ p \in looking_up[s]
    /\ IF looking_up[s] = {p}
       THEN NextPeer(s, {})
       ELSE /\ looking_up' = [looking_up EXCEPT ![s] = @ \ {p}]
            /\ UNCHANGED <<phase, peer, to_try, tried, rx_dsr, reply, found>>
    /\ UNCHANGED <<engineVars, asked, nreplies>>

\* The entry has been stored or the time of the whole lookup is up: its future
\* is dropped.  Its registrations stay.
Drop(s) ==
    /\ Running(s)
    /\ phase' = [phase EXCEPT ![s] = "dropped"]
    /\ UNCHANGED <<peer, to_try, tried, rx_dsr, reply, looking_up, found, engineVars, asked, nreplies>>

-----------------------------------------------------------------------------
(* The network and the engine *)

\* A router answers a lookup, perhaps more than once or late, naming any routers
\* and any sender.
PeerReplies ==
    /\ nreplies < MaxReplies
    /\ nreplies' = nreplies + 1
    /\ \E e \in asked, ps \in SUBSET Peer, claimed \in Peer :
          ib_rx' = Append(ib_rx, [from |-> e[1], key |-> e[2], claimed |-> claimed, peers |-> ps])
    /\ UNCHANGED <<searchVars, pending_rx, pending_lookups, engine, asked>>

\* As TakeRegistration, next to the one that is there.
AddRegistration ==
    /\ engine = "drain"
    /\ pending_rx # <<>>
    /\ pending_rx' = Tail(pending_rx)
    /\ pending_lookups' = pending_lookups \cup {Head(pending_rx)}
    /\ UNCHANGED <<searchVars, engine, asked, ib_rx, nreplies>>

\* A registration enters the table.  The sender that it replaces is dropped.
TakeRegistration ==
    /\ engine = "drain"
    /\ pending_rx # <<>>
    /\ pending_rx' = Tail(pending_rx)
    /\ LET r == Head(pending_rx)
           old == RegisteredFor(r.peer, r.key)
       IN  /\ pending_lookups' = (pending_lookups \ old) \cup {r}
           /\ rx_dsr' = [s \in Search |->
                           IF \E o \in old : o.search = s /\ Hears(o) THEN "canceled" ELSE rx_dsr[s]]
    /\ UNCHANGED <<phase, peer, to_try, tried, reply, looking_up, found, engine, asked, ib_rx, nreplies>>

\* No registration is waiting: the engine turns to its messages.
Drained ==
    /\ engine = "drain"
    /\ pending_rx = <<>>
    /\ engine' = "poll"
    /\ UNCHANGED <<searchVars, pending_rx, pending_lookups, asked, ib_rx, nreplies>>

\* As HandleReply, for a table with keys only.
HandleReplyOfAnyPeer ==
    /\ engine = "poll"
    /\ ib_rx # <<>>
    /\ ib_rx' = Tail(ib_rx)
    /\ engine' = "drain"
    /\ LET r == Head(ib_rx)
           to == {o \in {o \in pending_lookups : o.key = r.key} : Waiting(o.search)}
       IN  /\ pending_lookups' = pending_lookups \ RegisteredFor(r.from, r.key)
           /\ \/ \E o \in to :
                    /\ reply' = [reply EXCEPT ![o.search] = r]
                    /\ rx_dsr' = [rx_dsr EXCEPT ![o.search] = "reply"]
                    /\ UNCHANGED <<phase, peer, to_try, tried, looking_up, found>>
              \/ /\ to = {}
                 /\ UNCHANGED searchVars
    /\ UNCHANGED <<pending_rx, asked, nreplies>>

\* A DatabaseSearchReply goes to the search that registered for it, unless that
\* has gone on.
HandleReply ==
    /\ engine = "poll"
    /\ ib_rx # <<>>
    /\ ib_rx' = Tail(ib_rx)
    /\ engine' = "drain"
    /\ LET r == Head(ib_rx)
           to == {o \in RegisteredFor(r.from, r.key) : Hears(o)}
       IN  /\ pending_lookups' = pending_lookups \ RegisteredFor(r.from, r.key)
           /\ \/ \E o \in to :
                    /\ reply' = [reply EXCEPT ![o.search] = r]
                    /\ rx_dsr' = [rx_dsr EXCEPT ![o.search] = "reply"]
                    /\ UNCHANGED <<phase, peer, to_try, tried, looking_up, found>>
              \/ /\ to = {}
                 /\ UNCHANGED searchVars
    /\ UNCHANGED <<pending_rx, asked, nreplies>>

\* There is no message: the engine waits to be woken.
NoMessage ==
    /\ engine = "poll"
    /\ ib_rx = <<>>
    /\ engine' = "drain"
    /\ UNCHANGED <<searchVars, pending_rx, pending_lookups, asked, ib_rx, nreplies>>

-----------------------------------------------------------------------------
Next ==
    \/ \E s \in Search : \/ \E p \in Peer : Start(s, p)
                         \/ Register(s)
                         \/ SendLookup(s)
                         \/ ReceiveReply(s)
                         \/ GiveUp(s)
                         \/ IgnoreReply(s)
                         \/ LookUpPeers(s)
                         \/ \E p \in Peer : PeerFound(s, p) \/ PeerNotFound(s, p)
                         \/ Drop(s)
    \/ PeerReplies
    \/ TakeRegistration
    \/ Drained
    \/ HandleReply
    \/ NoMessage

Spec == Init /\ [][Next]_vars

\* Timers fire, and a search is woken by its reply.
FairSpec == Spec /\ \A s \in Search : WF_vars(GiveUp(s) \/ ReceiveReply(s))

-----------------------------------------------------------------------------
(* Properties *)

\* A search that waits for a reply has its registration in the engine's table
\* or on its way there, whatever late or repeated replies and other searches do
\* to the table: that is what lets the reply find it.
AwaitingIsRegistered ==
    \A s \in Search : phase[s] = "awaiting" /\ rx_dsr[s] = "empty" =>
        [peer |-> peer[s], key |-> KeyOf[s], search |-> s] \in pending_lookups \cup ToSet(pending_rx)

\* A search works on replies of the router it is asking for the key it looks for.
OwnReplies ==
    \A s \in Search : phase[s] = "processing" =>
        reply[s].from = peer[s] /\ reply[s].key = KeyOf[s]

\* No search asks a router twice, be it the same one at once, so every search is
\* over after as many rounds as there are routers.
NoPeerAskedTwice ==
    [][\A s \in Search :
         peer'[s] # peer[s] \/ (phase[s] # "registering" /\ phase'[s] = "registering")
            => peer'[s] \notin tried[s]]_vars

\* A router that does not answer does not hold up a search.
SilentPeerAbandoned ==
    \A s \in Search, p \in Peer :
        (Waiting(s) /\ peer[s] = p) ~> ~ (Waiting(s) /\ peer[s] = p)

\* process_dsr says that it collects all lookups that succeed: the routers found
\* in a round are then asked or to be asked.
CollectsWhatSucceeds ==
    [][\A s \in Search :
          phase[s] = "collecting" /\ phase'[s] \notin {"collecting", "dropped"}
             => found[s] \subseteq to_try'[s] \cup tried'[s]]_vars
=============================================================================
