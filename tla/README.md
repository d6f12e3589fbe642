# A TLA+ model of ire

ire is an I2P router written in Rust on futures 0.1 and tokio.  It is a set of
tasks (futures that are polled by a thread pool) that share a few tables behind
mutexes and talk through channels.  This directory holds TLA+ modules for the
parts whose correctness depends on how those tasks interleave, the TLC
configurations that check them on small instances, and TLAPS proofs of the main
safety properties for instances of any size.

Paths below are relative to `src/src/`.

## The system

| Part | Source | Role | Module |
| --- | --- | --- | --- |
| Session table | `transport/session.rs` | which peers have a session, frames that wait for one | `SessionManager` |
| NTCP2 | `transport/ntcp2/mod.rs` | sessions, codec, listener, connecting, key file | `Ntcp2Session`, `Ntcp2Link`, `SessionManager`, `Startup` |
| NTCP | `transport/ntcp/mod.rs` | the same for the older protocol | `NtcpLink`, `SessionManager` |
| Handshakes | `transport/*/handshake/` | authentication of a connection | `NtcpLink`, `Ntcp2Link` over `ByteStream` |
| Transport selection | `transport/mod.rs` | bids and the choice of a transport | `Links` |
| Network database | `netdb/mod.rs`, `netdb/client.rs` | entries, lookups and stores | `NetDb` |
| Engine | `netdb/mod.rs` | the task that owns the database | `NetDbEngine` |
| Iterative lookups | `netdb/lookup.rs` | searches through the network, exploration | `IterativeLookup` |
| Reseeding | `netdb/reseed.rs` | first RouterInfos from HTTPS servers | `Reseed` |
| Tunnel build requests | `tunnel/acceptor.rs` | joining tunnels | `TunnelAcceptor` |
| Tunnel participation | `tunnel/processor.rs`, `util.rs` | forwarding of tunnel data | `TunnelParticipant`, `DecayingBloomFilter` |
| Distributor | `router/mod.rs` | received messages to subsystems | `Tunnels`; its back-pressure in `Ntcp2Session` and `ByteStream` |
| Router | `router/builder.rs`, `router/mod.rs` | start from key files, crash | `Startup`, `Router` |
| Messages, data, files | `i2np/`, `data/`, `file/` | types and parsers | RouterInfos and key files in `Startup`; the rest is not modelled |
| Cryptography | `crypto/`, `tunnel/encryption.rs` | primitives | not modelled |
| Command line | `bin/ire.rs` | start-up | not modelled |

How they interact: a message for a peer goes to the transport that bids lowest
(`Links`) and to its session table (`SessionManager`), which hands it to a session
(`Ntcp2Session`) or keeps it until a connection is made (`NtcpLink`, `Ntcp2Link`).
A session gives what it receives to the distributor, which puts it in the channel
of a subsystem.  The network database takes messages and its clients' queries from
such channels one at a time (`NetDbEngine`); a lookup that it cannot answer (`NetDb`)
becomes a search (`IterativeLookup`), whose questions leave through the transports
and whose answers come back through the engine.  A database with few routers is
filled by the reseeder (`Reseed`), which is a client of it.  Build requests for
tunnels go to the acceptor, which passes the tunnels it accepts to the participant,
and tunnel data goes to the participant (`Tunnels`).

## Modules

### SessionManager

One action per critical section of the table's mutex, since any task may run
between two of them.  `Send` is `SessionState::send` as `OutboundSink` calls it;
`ConnectSucceeds`/`ConnectFails` are the two ends of the spawned `connect`
future; `Accept` is the listener.  `NewSession` is `Session::new` with
`SessionContext::new`, which takes over the cached frames.  A session is
destroyed in two steps because Rust drops the fields of `Session` in order: the
`SessionContext` first (`DropContext`, under the lock), the receiver of the
channel later (`DropReceiver`).  A peer may stop reading and start again
(`Block`, `Unblock`): then the session's sink takes no frames, for as long as it
lasts.  Frames are numbers in the order of `send`.

### Ntcp2Session and BlockChannel

`Session::poll` step by step, with `OutboundSession::start_send` (frames of
`BLOCKS_PER_FRAME` blocks, put back when the socket refuses them),
`poll_complete` and `InboundSession::poll`.  `armed` holds the events that will
notify the task, so that a lost wake-up is a state.  The socket, the peer, the
senders and the subsystems act between any two steps.  The write buffer of
`Framed` and the notification of tasks belong to libraries and are modelled from
how this code uses them.  `Fits` and `Kind` say which frames can be encoded and
what the peer sends.  `BlockChannel` is the abstract specification: a FIFO queue
that loses its contents only when it closes.

### NetDb, Reseed, Startup and Router

`NetDb` has the entries of both kinds, RouterInfos and lease sets, the list of those
who wait for a key (`pending_ri`, `pending_ls`), and the life of each query.  Every
method of `netdb::client::Client` is an action that puts a query in the queue; the
engine handles one query or message per action.  A lookup that misses joins the
list (`waiting`) or starts a search (`searching`, under its timeout).  A RouterInfo
is current, stale or invalid, which is all that the checks of `store_router_info`
distinguish.  `NetworkStoreRejected` is the panic of the engine when a DatabaseStore
fails a check (`.expect`), and `ReseedUnresolved` its panic when the name of the
first reseed host cannot be resolved.  `ExpireLeaseSets` keeps and drops what the
code keeps and drops: `LeaseSet::is_current` (`data/dest.rs:137`) compares the
wrong way round, so that the lease sets that are current are dropped.

`Reseed` adds the `HttpsReseeder`: one host after the other is fetched, and what a
host sent is stored through the engine's queue, until there is enough or no host is
left.  The stores of one host enter the queue in the poll in which the host answered,
so that is one action.

`Startup` is `Builder::build` with the key files.  A file is created and then
written, as two steps; the process may crash between any two.  A damaged NTCP2 key
file makes every later start panic (`ntcp2/mod.rs:611`), a damaged router key file
makes it fail (`builder.rs:102`).  A key file of either kind that is there but cannot
be looked at or opened is taken for missing and replaced (`builder.rs:103`,
`transport/mod.rs:77`).  A `write` is assumed to take all bytes or fail;
the code ignores how many it took.  `Router` composes the three: database and
reseeder run while the router does, and `Crash` loses all but the disk.

### IterativeLookup

Searches for a key with the engine's table of registrations.  A search registers,
sends, awaits its reply through a oneshot channel (`rx_dsr`), looks up the
routers that the reply names, and goes on with the nearest one not tried.
Replies may be lost (never sent), late, repeated and name any sender.  The engine
drains the registrations and then takes one message, as two steps, because a
registration may arrive in between.

### NetDbEngine

When the engine's poll loop sleeps and what wakes it.  A timer or a reseed handle
wakes the task only if it was polled since it was created (`registered`,
`watched`): tokio-timer 0.2 registers a `Delay` when it is first polled.
A channel wakes it if it was found empty since it last did (`parked`).  The loop
takes all registrations, then one message from the network and one query; with
neither of these it sleeps, even if it took registrations.  A panic (`StoreRefused`,
`ReseedHostUnresolved`) ends it.  The channels never do, because it holds senders of
all three.  The `.expect` on `store_lease_set` (`netdb/mod.rs:237`) is no third panic:
that method has no error to return.

### ByteStream, NtcpLink, Ntcp2Link and Links

One connection, seen from both ends.  `ByteStream` has what the two transports share:
frames that arrive in pieces of any size, the end of the stream, the timeout of
`connect`, and `pending_ib`, the message that a session waits to hand over.  A frame
may be damaged on its way.  The peer is another router with this code.

`NtcpLink` has the four messages of the NTCP handshake with their signatures, and the
codecs: `decrypted` counts what of the read buffer was decrypted already, and
`Kept` is what the session's codec takes over from that of the handshake.
`Ntcp2Link` has the three Noise messages with their padding, the lengths that tell
each end how much to read, and the masked lengths of data frames.  The noise library
is external: a message is authentic if both ends have the same transcript.  A unit
is 16 bytes there, and an NTCP block is two units.  The listener may be another
router than the one that the connection is meant for.

`Links` starts with the bids: every combination of addresses, established
transports and message sizes that leads to a new connection.  NTCP2 may be offered
on an NTCP address, as the filter of the handshake allows.

### DecayingBloomFilter, TunnelChannel, TunnelAcceptor, TunnelParticipant and Tunnels

`TunnelAcceptor` is `Listener` and the `HopAcceptor` tasks, from the entry that can
be read to the answer; `TunnelParticipant` is `Participant` with its table, timers
and filter, one step for the channel and the timers and one for the message, as in
`poll`, and the `HopProcessor` tasks.  `TunnelChannel` is the bounded channel
between them: a fresh clone of a sender can always put one message and then waits.
The filter reports every value that it holds, and may report any other.  A timer that
was replaced and not polled since does not wake the task (see `NetDbEngine`).  The
clock is discrete and a poll takes no time.  `Tunnels` composes them below
`Distributor::handle`.

## Runs

| Run | Question | Instance | Result |
| --- | --- | --- | --- |
| `sessions` | table, order and fate of frames | 2 peers, 3 frames, 3 sessions | holds |
| `sessions_established` | is an open session always found? | 1 peer, 2 sessions | violated |
| `sessions_connect` | does a send without session or attempt connect? | 1 peer, 2 frames | violated |
| `ntcp2_session` | FIFO refinement, wake-ups, inbound order | see below | holds |
| `netdb` | start, crash, reseed; lookups against stores, expiry, timeouts, panics | 1 router, 1 lease set, 2 lookups, 1 store, 2 hosts, 2 router keys, 2 static keys | holds |
| `netdb_join` | does a joined lookup have a search? | the same | violated |
| `search` | registrations, replies, progress | 2 routers, 2 searches for one key, 2 replies | holds |
| `search_collect` | are all routers found in a round kept? | the same | violated |
| `netdb_engine` | lost messages and timers | up to 3 routers, 2 messages in each of 3 channels | holds |
| `netdb_explore` | is the network explored regularly? | the same | violated |
| `tunnels` | lifetimes, duplicates, progress | 2 build requests of 7 kinds, 2 data messages, lifetime 2, 4 ticks | holds |
| `links` | agreement, ciphers and lengths in step, no half-open end | 1 connection, 1 fault, 3 data frames | holds |

The instance of `ntcp2_session` has frames of three blocks, a write buffer that
pushes back at two, five blocks to send and three from the peer (a message, its
own RouterInfo, the RouterInfo of somebody else).  The third and fourth
block are too large to share a frame, so that some schedules end in an encoding
error and others do not.

The bounds are the least at which the cases that matter happen: two sessions with
one peer and a third after both; a frame that is refused and put back while
another waits behind it; a lookup that searches and one that joins it or comes after
it; two searches that register for the same router and key; a reseed with a host
that fails or sends too little and a second one; a crash at every step of the start,
and a start after it, with the same keys or with others.  In `tunnels` the clock goes on
until the filter has decayed twice, so that a value is forgotten and forwarded again, and two tunnels share an
identifier; the channel parks its first sender.  In `links` a frame
ends within a block, bytes of the first data frame arrive with the last message of
the handshake, `SessionConfirmed` is small, too large for `OBHandshake::new`, or of a size that this
accepts and `write_message` does not (`ntcp2/handshake/mod.rs:489`), and each message
in turn is the damaged one.

`TypeOK` of `Links` and of `Tunnels` tells a reader what their variables hold; no run
checks it.

Symmetry is not used, because the runs check liveness.

### The five violations

1. `EstablishedWhileOpen`.  `Drop for SessionContext` (`transport/session.rs:114`)
   removes the peer's entry whichever session it belongs to.  When two sessions
   with a peer exist and the older one ends, the newer one is no longer found;
   `router/types.rs:32` says that `is_established` returns true if there is an open
   session.
2. `SendTriesToConnect`.  A failed connection attempt leaves its entry in
   `pending_sessions`, and `send` connects only when there is none
   (`transport/session.rs:67`): frames for the peer pile up until the peer connects.
3. `JoinsARunningSearch`.  A lookup that failed leaves its sender in `pending_ri`.
   The next lookup of the key joins it, without a search and without a timeout,
   although `netdb/client.rs:368` promises a remote lookup.
4. `CollectsWhatSucceeds`.  `process_dsr` discards what it found if the last of its
   lookups fails (`netdb/lookup.rs:107`), although it says it collects all that
   succeed.
5. `ExploresRegularly`.  The engine replaces a timer that fired and sleeps without
   polling the new one (`netdb/mod.rs:189`).  Once all three have fired, only a
   message wakes it.  A panic of the engine is not held against it here.

The passing properties say what is true nevertheless: a stored sender is always
usable, no frame is dropped silently, only joined lookups can hang, polled timers
are served.

Two more things that the models show to be possible, and that no property excludes:
a router whose key file is there but cannot be looked at overwrites it and goes on with
another identity (`CreateKeys`); and of two tunnels that were accepted under one
identifier the participant keeps the later one only (`Insert`), although
`tunnel/acceptor.rs:297` speaks of a commitment to both.

### What holds

- `EveryFrameSettles`: a frame that does not get out waits for a peer that does not
  read, or in the entry without an attempt of the second violation; no task keeps one
  that it could move.
- `RunsAsPublished`: a router that runs has its keys and its RouterInfo on disk, whatever
  crashes and errors came before.  Its identity may have changed, and some crashes leave
  files with which it no longer starts.
- `ReseedTerminates`: engine and reseeder cannot wait for each other for ever, although the
  reseeder may end by a panic.
- `HeldUnlessDisplaced`: an accepted tunnel is in the table or on its way there until it
  expires, unless a later one has taken its identifier.  This is about early expiry and
  tunnels lost on the way; it is less than the commitment quoted above.
- `ForwardedWithinLifetime`: an idle participant does sleep through its timer, but
  looks at it before it takes the next message.
- `NoDuplicateForwarded`: the two halves of the filter suffice, late decays included.
- `BuildsEnd`, `NeverUnimplemented`: acceptor and participant depend on each other and do
  not let each other down.  `BuildsEnd` is about requests whose next hop was found: a
  lookup of it that joins a dead one (the third violation) does not end.
- `Agreement`: ends that both established a session agree on keys and on who they
  are, whatever one fault changes and whoever listens.
- `CipherInStep`, `ReadsInStep`, `FramesGetThrough`: nothing is decrypted twice, skipped or
  left lying across the handover from handshake to session.
- `LinkSettles`: an inbound handshake has no timeout, but follows the other end, which
  has one if it is a router with this code; and an opening end that believes in a session
  that the listener refused learns of it.

### Fairness

Weak fairness only.  What the runtime or a timer guarantees:

- a task that was notified is polled, and a poll runs to its end (`Poll` in
  `Ntcp2Session` and `NetDbEngine`, `HandleQuery` in `NetDb`, the session's
  steps in `SessionManager`);
- a timeout fires: `ConnectResolves` and `TimesOut` (10 s), `SearchTimesOut`, `GiveUp`
  (5 s), `TimerElapses`; a host answers the reseeder or its timeout fires
  (`ReseederStep`);
- the thread pool runs what it is given (`Encrypt` in `Tunnels`).

What is assumed of others:

- in `SessionManager`, that the distributor takes the RouterInfo of a handshake
  (`StartSession`).  A peer need not read: `WriteFrame` is fair only while the session
  is not blocked;
- in `Links`, that what was written arrives and the subsystems take messages;
- in `Ntcp2Session`, that the peer goes on reading and that the subsystems go on
  taking messages; without these a session rightly waits for ever.

No fairness is assumed of sending, of connecting peers, of replies, of the lookup of a
tunnel's next hop, of the start of a router, or of the end of a session.  In
`RouterFairSpec` fairness holds while the router runs; a crash ends every obligation.
Deadlock is checked except where the bounds, or a panic of the engine, let the system
come to rest.

## Proofs

`SessionManagerProofs`, `NetDbProofs` and `NetDbEngineProofs` prove, for any peers or
keys and any bounds, from the assumptions named in the modules:

- `SessionManager`: `TypeOK`, `StoredSessionIsAlive`, `NothingPendingBesideSession`
  and `FramesInOrder`.  The inductive invariant `IInv` adds that sessions are
  numbered as they are created and hold nothing before (`SessionsNumbered`), that the
  stored session is the newest with its peer (`NewestStored`: a frame sent now must
  not land in an older session than one sent before), and that all frames known are
  ones that `send` accepted (`FramesKnown`: a new frame comes after them all).
- `NetDb`: `TypeOK`, `ActiveLookupsRegistered`, `PendingNotStored` and
  `OneSearchPerKey`.  `IInv` adds `LookupsNumbered`.  The three properties need each
  other: a search is alone because its registration keeps others from starting, and
  the registration stays because only a store removes it.  The theorems are about
  `Spec` of `NetDb`, which has the steps of the reseeder and of both panics;
  `Router` runs these steps between a start and a crash, and a crash sets the
  database back to its initial state.
- `NetDbEngine`: `TypeOK` and `NoLostMessage`, which are inductive together; a panic
  leaves nothing to wait for (`PanicInv`).

Each proof shows that `Init` implies `IInv`, that every action preserves it (one step
per action, one lemma per group of conjuncts), and that it implies the property.

Only model-checked: everything about `Ntcp2Session`, `IterativeLookup`, `Reseed`,
`Startup`, the tunnels and the links, `EveryFrameAccounted`, and all liveness properties,
which are beyond this proof system.

## Not modelled

- Parsers and serialisers (`i2np`, `data`, `file`, `tunnel/frame.rs`, the byte layout in
  the frame modules): data formats.  What the control depends on, such as the
  sizes of frames and whether something parses, is in the models.
- Cryptography (`crypto`, `tunnel/encryption.rs`): arithmetic on large numbers.
  Signatures, hashes and ciphers are the values they are made of.
- The sum `size + 6` in 16 bits (`transport/ntcp/frame.rs:62`) and `size - 9`
  (`transport/ntcp2/frame.rs:120`), which are about the bytes of one frame.
- The relation between the MTU that bids compare with and the size of a frame: the
  models let a frame be too large (`SendFails`, `Fits`) without saying when.
- TLS and the su3 format in the reseeder; the handle for applications; configuration,
  error types, test doubles and the command line.

Proofs to come: `LessThanAFrameCached`, `NoLostWakeup` and the refinement of
`BlockChannel` for `Ntcp2Session`; `AwaitingIsRegistered`, `OwnReplies` and
`NoPeerAskedTwice` for `IterativeLookup`; `EveryFrameAccounted`; `RunsAsPublished`;
`HeldUnlessDisplaced` and `ForwardedWithinLifetime`.
