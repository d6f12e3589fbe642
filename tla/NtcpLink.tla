------------------------------ MODULE NtcpLink ------------------------------
(***************************************************************************)
(* An NTCP connection, from the handshake (transport/ntcp/handshake/mod.rs)  *)
(* to the session that takes it over (transport/ntcp/mod.rs).                *)
(*                                                                         *)
(*   ob -> ib  SessionRequest   X, H(X) xor H(RI_B)                         *)
(*   ib -> ob  SessionCreated   Y, and encrypted: H(X|Y), tsB               *)
(*   ob -> ib  SessionConfirmA  encrypted: RI_A, tsA, S(X|Y|H(RI_B)|tsA|tsB) *)
(*   ib -> ob  SessionConfirmB  encrypted: S(X|Y|H(RI_A)|tsA|tsB)            *)
(*                                                                         *)
(* From then on all frames are encrypted.  The cipher chains blocks, so each *)
(* end must decrypt every block once and in order; `decrypted` says how much *)
(* of the read buffer it has decrypted already.  Hashes and signatures are   *)
(* the values that they are made of.                                        *)
(***************************************************************************)
EXTENDS ByteStream

CONSTANTS
    BlockSize,     \* AES_BLOCK_SIZE, in units
    ContentLen(_)  \* units of what a frame of each kind holds besides padding

VARIABLES
    shared,     \* SharedHandshakeState of each end
    key,        \* what each end's session key was made of
    decrypted,  \* Codec.decrypted of each end
    position    \* the place in the peer's stream at which each end's decryptor stands

ntcpVars == <<shared, key, decrypted, position>>

NtcpTypeOK ==
    /\ hs["ob"] \in {"Connect", "SessionCreated", "SessionConfirmB", "Established", "Closed"}
    /\ hs["ib"] \in {"SessionRequest", "SessionConfirmA", "Established", "Closed"}
    /\ \A e \in End : decrypted[e] \in 0 .. InBuffer(e)

\* The state with which each handshake starts: OBHandshake::new knows whom it wants
\* to reach, IBHandshake::new only itself.
ObShared == [own_ri |-> "alice", ri_remote |-> "bob", x |-> "X", y |-> "none", ts_a |-> 0, ts_b |-> 0]
IbShared(listener) ==
    [own_ri |-> listener, ri_remote |-> "none", x |-> "none", y |-> "Y", ts_a |-> 0, ts_b |-> 0]

\* The codecs of the handshakes start without a cipher and with nothing decrypted.
InboundHandshakeCodec == [key |-> <<>>, decrypted |-> 0, position |-> 0]
OutboundHandshakeCodec == [key |-> <<>>, decrypted |-> 0, position |-> 0]

\* The router that listens need not be the one that the other end wants to reach.
NtcpInit ==
    LET codec_of == [ob |-> OutboundHandshakeCodec, ib |-> InboundHandshakeCodec]
    IN
    /\ hs = [ob |-> "Connect", ib |-> "SessionRequest"]
    /\ \E listener \in {"bob", "carol"} : shared = [ob |-> ObShared, ib |-> IbShared(listener)]
    /\ key = [e \in End |-> codec_of[e].key]
    /\ decrypted = [e \in End |-> codec_of[e].decrypted]
    /\ position = [e \in End |-> codec_of[e].position]

-----------------------------------------------------------------------------
(* Frames *)

\* padding_len: an encrypted frame is filled up to whole blocks.
PaddingLen(n) == (BlockSize - (n % BlockSize)) % BlockSize

Size(kind) ==
    ContentLen(kind)
    + IF kind \in {"SessionRequest", "SessionCreated"} THEN 0 ELSE PaddingLen(ContentLen(kind))

\* What end e signs, or expects to have been signed, with the identity ri in it.
SigMsg(s, ri) == <<s.x, s.y, ri, s.ts_a, s.ts_b>>

\* Frames as an end in state s makes them, before they are encrypted.
SessionRequestFrame(s) ==
    [kind |-> "SessionRequest", size |-> Size("SessionRequest"), key |-> <<>>,
     x |-> s.x, hash |-> <<s.x, s.ri_remote>>]
SessionCreatedFrame(s) ==
    [kind |-> "SessionCreated", size |-> Size("SessionCreated"), key |-> <<>>,
     y |-> s.y, hash |-> <<s.x, s.y>>, ts_b |-> s.ts_b]
SessionConfirmAFrame(s) ==
    [kind |-> "SessionConfirmA", size |-> Size("SessionConfirmA"), key |-> <<>>,
     ri |-> s.own_ri, ts_a |-> s.ts_a, sig |-> [by |-> s.own_ri, msg |-> SigMsg(s, s.ri_remote)]]
SessionConfirmBFrame(s) ==
    [kind |-> "SessionConfirmB", size |-> Size("SessionConfirmB"), key |-> <<>>,
     sig |-> [by |-> s.own_ri, msg |-> SigMsg(s, s.ri_remote)]]
StandardFrame == [kind |-> "Standard", size |-> Size("Standard"), key |-> <<>>]
TimestampFrame == [kind |-> "TimeSync", size |-> Size("TimeSync"), key |-> <<>>]

\* encode of the codec of each end: all but the first frame are encrypted, with k.
InboundEncode(k, f) == <<[f EXCEPT !.key = k]>>
OutboundEncode(k, f) == <<[f EXCEPT !.key = IF f.kind = "SessionRequest" THEN <<>> ELSE k]>>
SessionEncode(k, f) == <<[f EXCEPT !.key = k]>>

\* What damage can do to a frame.  A damaged block of ciphertext is a value that
\* nobody wrote, or makes the frame unreadable.
Damaged(f) ==
    CASE f.kind = "SessionRequest" -> {[f EXCEPT !.x = "?"], [f EXCEPT !.hash = <<>>]}
      [] f.kind = "SessionCreated" -> {[f EXCEPT !.y = "?"], [f EXCEPT !.hash = <<>>], [f EXCEPT !.ts_b = 9]}
      [] f.kind = "SessionConfirmA" -> {[f EXCEPT !.ri = "dave"], [f EXCEPT !.ts_a = 9],
                                        [f EXCEPT !.sig.msg = <<>>], [f EXCEPT !.kind = "Unreadable"]}
      [] f.kind = "SessionConfirmB" -> {[f EXCEPT !.sig.msg = <<>>], [f EXCEPT !.kind = "Unreadable"]}
      [] OTHER -> {[f EXCEPT !.kind = "Unreadable"]}

-----------------------------------------------------------------------------
(* Handshake *)

\* The connection is made: OBHandshake::new sends SessionRequest.
Connect ==
    /\ hs["ob"] = "Connect"
    /\ Goto("ob", "SessionCreated")
    /\ Write("ob", OutboundEncode(key["ob"], SessionRequestFrame(shared["ob"])))
    /\ UNCHANGED <<arrived, consumed, taken, faults, pending_ib, ntcpVars>>

\* IBHandshake, SessionRequest: the hash must be that of X and of our identity.
ReceiveSessionRequest ==
    LET sr == NextFrame("ib")
        s == [shared["ib"] EXCEPT !.x = sr.x, !.ts_b = 2]
    IN
    /\ hs["ib"] = "SessionRequest"
    /\ HasFrame("ib", Size("SessionRequest"))
    /\ Take("ib", Size("SessionRequest"))
    /\ \/ /\ sr.hash = <<sr.x, s.own_ri>>
          /\ Goto("ib", "SessionConfirmA")
          /\ shared' = [shared EXCEPT !["ib"] = s]
          /\ key' = [key EXCEPT !["ib"] = <<s.x, s.y>>]
          /\ position' = [position EXCEPT !["ib"] = consumed'["ib"]]
          /\ Write("ib", InboundEncode(<<s.x, s.y>>, SessionCreatedFrame(s)))
       \/ /\ sr.hash # <<sr.x, s.own_ri>>
          /\ Goto("ib", "Closed")
          /\ UNCHANGED <<wire, shared, key, position>>
    /\ UNCHANGED <<arrived, faults, decrypted, pending_ib>>

\* decode of the outbound codec: with another key the hash is something else.
DecryptedHash(s, sc) == IF sc.key = <<s.x, sc.y>> THEN sc.hash ELSE <<"?">>

\* OBHandshake, SessionCreated.
ReceiveSessionCreated ==
    LET sc == NextFrame("ob")
        s == [shared["ob"] EXCEPT !.y = sc.y, !.ts_a = 1, !.ts_b = sc.ts_b]
        valid == DecryptedHash(s, sc) = <<s.x, sc.y>>
    IN
    /\ hs["ob"] = "SessionCreated"
    /\ HasFrame("ob", Size("SessionCreated"))
    /\ Take("ob", Size("SessionCreated"))
    /\ \/ /\ valid
          /\ Goto("ob", "SessionConfirmB")
          /\ shared' = [shared EXCEPT !["ob"] = s]
          /\ key' = [key EXCEPT !["ob"] = <<s.x, s.y>>]
          /\ position' = [position EXCEPT !["ob"] = consumed'["ob"]]
          /\ Write("ob", OutboundEncode(<<s.x, s.y>>, SessionConfirmAFrame(s)))
       \/ /\ ~ valid
          /\ Goto("ob", "Closed")
          /\ UNCHANGED <<wire, shared, key, position>>
    /\ UNCHANGED <<arrived, faults, decrypted, pending_ib>>

-----------------------------------------------------------------------------
(* Encrypted frames *)

\* decrypt_blocks: the whole blocks that arrived since.
Fresh(e) == ((InBuffer(e) - decrypted[e]) \div BlockSize) * BlockSize

\* All of the next frame is decrypted, or is about to be.
IsDecrypted(e) == HasFrame(e, NextFrame(e).size) /\ decrypted[e] + Fresh(e) >= NextFrame(e).size

\* What is left of `decrypted` when a frame of n units is taken out of the buffer.
Remaining(e, n) == decrypted[e] + Fresh(e) - n

\* With another key, or damaged, a frame does not parse.
Parses(e) == NextFrame(e).kind # "Unreadable" /\ NextFrame(e).key = key[e]

\* Part of a frame is decrypted.
DecodePart(e) ==
    /\ hs[e] \in {"SessionConfirmA", "SessionConfirmB", "Established"}
    /\ Fresh(e) > 0
    /\ ~ (HasFrame(e, 0) /\ IsDecrypted(e) /\ Parses(e))
    /\ decrypted' = [decrypted EXCEPT ![e] = Remaining(e, 0)]
    /\ position' = [position EXCEPT ![e] = @ + Fresh(e)]
    /\ UNCHANGED <<streamVars, shared, key>>

\* A whole frame of the given kind is decrypted and taken out.
Decode(e, kind) ==
    /\ HasFrame(e, 0) /\ NextFrame(e).kind = kind /\ Parses(e)
    /\ IsDecrypted(e)
    /\ Take(e, NextFrame(e).size)
    /\ position' = [position EXCEPT ![e] = @ + Fresh(e)]

\* decode of the handshake codecs, which only go on when a block arrives.
HandshakeDecode(e, kind) == Fresh(e) > 0 /\ Decode(e, kind)

\* As SigIsValid below, but the signature may be over other values.
SigIsBy(s, sig, by, ri) == sig.by = by

\* Whether sig is a signature by identity `by` over end state s and identity ri.
SigIsValid(s, sig, by, ri) == sig.by = by /\ sig.msg = SigMsg(s, ri)

\* As Kept below, but the session starts to decrypt at the front of the buffer.
KeptNothing(e, n) == 0

\* Codec::from: the session goes on where the handshake left off.
Kept(e, n) == Remaining(e, n)

\* IBHandshake, SessionConfirmA; the session begins once SessionConfirmB is written.
ReceiveSessionConfirmA ==
    LET sca == NextFrame("ib")
        s == [shared["ib"] EXCEPT !.ri_remote = sca.ri, !.ts_a = sca.ts_a]
    IN
    /\ hs["ib"] = "SessionConfirmA"
    /\ HandshakeDecode("ib", "SessionConfirmA")
    /\ decrypted' = [decrypted EXCEPT !["ib"] = Kept("ib", sca.size)]
    /\ \/ /\ SigIsValid(s, sca.sig, sca.ri, s.own_ri)
          /\ Goto("ib", "Established")
          /\ shared' = [shared EXCEPT !["ib"] = s]
          /\ Write("ib", InboundEncode(key["ib"], SessionConfirmBFrame(s)))
       \/ /\ ~ SigIsValid(s, sca.sig, sca.ri, s.own_ri)
          /\ Goto("ib", "Closed")
          /\ UNCHANGED <<wire, shared>>
    /\ UNCHANGED <<arrived, faults, key, pending_ib>>

\* OBHandshake, SessionConfirmB.
ReceiveSessionConfirmB ==
    LET scb == NextFrame("ob")
        s == shared["ob"]
    IN
    /\ hs["ob"] = "SessionConfirmB"
    /\ HandshakeDecode("ob", "SessionConfirmB")
    /\ decrypted' = [decrypted EXCEPT !["ob"] = Kept("ob", scb.size)]
    /\ Goto("ob", IF SigIsValid(s, scb.sig, s.ri_remote, s.own_ri) THEN "Established" ELSE "Closed")
    /\ UNCHANGED <<wire, arrived, faults, shared, key, pending_ib>>

-----------------------------------------------------------------------------
(* Session *)

\* Codec::encode.  Only other implementations send TimeSync frames.
SendFrame(e) ==
    /\ hs[e] = "Established"
    /\ Len(wire[e]) < 2 + MaxData[e]
    /\ \E f \in {StandardFrame, TimestampFrame} : Write(e, SessionEncode(key[e], f))
    /\ UNCHANGED <<hs, arrived, consumed, taken, faults, pending_ib, ntcpVars>>

\* As HasInput below, but the session waits for another block.
HasFreshBlock(e) == Fresh(e) > 0

\* Codec::decode goes on with what is decrypted even if less than a block arrived.
HasInput(e) == Fresh(e) > 0 \/ decrypted[e] > 0

SessionDecode(e, kind) ==
    /\ HasInput(e)
    /\ Decode(e, kind)
    /\ decrypted' = [decrypted EXCEPT ![e] = Remaining(e, NextFrame(e).size)]

\* InboundSession::poll drops TimeSync frames and gives messages to the distributor.
ReceiveFrame(e) ==
    /\ hs[e] = "Established"
    /\ ~ pending_ib[e]
    /\ \E kind \in {"Standard", "TimeSync"} :
          /\ SessionDecode(e, kind)
          /\ pending_ib' = [pending_ib EXCEPT ![e] = kind = "Standard"]
    /\ UNCHANGED <<hs, wire, arrived, faults, shared, key>>

\* A frame that does not parse ends the connection, unless its damaged length makes
\* the parser wait for more.
ParseError(e) ==
    /\ hs[e] \in {"SessionConfirmA", "SessionConfirmB", "Established"}
    /\ ~ pending_ib[e]
    /\ HasFrame(e, 0) /\ ~ Parses(e)
    /\ Fresh(e) > 0 \/ (hs[e] = "Established" /\ HasInput(e))
    /\ CloseStream(e)
    /\ UNCHANGED ntcpVars

\* The peer has closed, and all complete frames were read.
Eof(e) ==
    /\ hs[e] # "Closed"
    /\ AtEof(e)
    /\ ~ pending_ib[e]
    /\ IF HasFrame(e, 1) THEN ~ Parses(e) ELSE TRUE
    /\ CloseStream(e)
    /\ UNCHANGED ntcpVars

NtcpRead(e) ==
    \/ e = "ob" /\ (Connect \/ ReceiveSessionCreated \/ ReceiveSessionConfirmB)
    \/ e = "ib" /\ (ReceiveSessionRequest \/ ReceiveSessionConfirmA)
    \/ DecodePart(e) \/ ReceiveFrame(e) \/ Eof(e)

NtcpWrite(e) == SendFrame(e) \/ ParseError(e) \/ (Damage(e, Damaged) /\ UNCHANGED ntcpVars)

-----------------------------------------------------------------------------
(* Properties *)

\* Each end's decryptor stands exactly behind what it has decrypted of the peer's
\* stream, whatever the pieces in which it arrives and also when the session takes
\* the connection over from the handshake with part of it already decrypted.
DecryptorInStep ==
    \A e \in End :
        hs[e] \in {"SessionConfirmA", "SessionConfirmB", "Established"} =>
            position[e] = consumed[e] + decrypted[e]

\* An end that believes in the session has the right peer, and agrees with it on the
\* key and on both time stamps, whatever was damaged and wherever it was connected
\* to.  (When ib believes in it, ob has at least sent its confirmation.)
NtcpAgreement ==
    \A e \in End :
        hs[e] = "Established" =>
            /\ shared[e].ri_remote = shared[Peer(e)].own_ri
            /\ SigMsg(shared["ob"], "") = SigMsg(shared["ib"], "")
            /\ key["ob"] = key["ib"]
=============================================================================
