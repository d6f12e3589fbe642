----------------------------- MODULE Ntcp2Link -----------------------------
(***************************************************************************)
(* An NTCP2 connection, from the Noise handshake                            *)
(* (transport/ntcp2/handshake/mod.rs) to the codec of the session           *)
(* (transport/ntcp2/mod.rs).                                               *)
(*                                                                         *)
(*   ob -> ib  SessionRequest (padlen, sclen), padding                      *)
(*   ib -> ob  SessionCreated (padlen), padding                             *)
(*   ob -> ib  SessionConfirmed (RI_A)                                      *)
(*   then, both ways: the masked length of a frame, and the frame            *)
(*                                                                         *)
(* Nothing on the wire marks the end of a message: each end reads as much as *)
(* it was told to expect.  The noise library authenticates each message      *)
(* together with all that came before; `h` is what each end believes that    *)
(* was.  A unit is 16 bytes, the size of an authentication tag.              *)
(***************************************************************************)
EXTENDS ByteStream

CONSTANTS
    SessionConfirmedLen,  \* the sizes that the payload of SessionConfirmed may have
    FrameLen,             \* the size of an encrypted frame
    NTCP2_MTU

VARIABLES
    noise,     \* each end's noise session: own identity, peer's, and transcript h
    expect,    \* units that each end waits for
    sclen,     \* length of SessionConfirmed: ob's own, and what ib was told
    codec      \* Codec of each end: masks of the lengths it writes and reads, next_len

ntcp2Vars == <<noise, expect, sclen, codec>>

SESSION_REQUEST_CT_LEN == 2 + 1 + 1
SESSION_CREATED_CT_LEN == 2 + 1 + 1

Ntcp2TypeOK ==
    /\ hs["ob"] \in {"Connecting", "SessionCreated", "SessionCreatedPadding", "Established", "Closed"}
    /\ hs["ib"] \in {"SessionRequest", "SessionRequestPadding", "SessionConfirmed", "Established", "Closed"}
    /\ expect \in [End -> Nat]
    /\ sclen \in [End -> Nat]

\* OBHandshake::new makes no connection if its SessionConfirmed does not fit.
ConfirmedLens == {n + 1 : n \in {k \in SessionConfirmedLen : k <= NTCP2_MTU - 1}}

\* The noise sessions that OBHandshake::new and IBHandshake::new build.  The router
\* that listens need not be the one whose static key the address of the peer has.
Initiator == [own |-> "alice", peer |-> "bob", h |-> <<"bob">>]
Responder(listener) == [own |-> listener, peer |-> "none", h |-> <<listener>>]

Ntcp2Init ==
    /\ hs = [ob |-> "Connecting", ib |-> "SessionRequest"]
    /\ \E listener \in {"bob", "carol"} : noise = [ob |-> Initiator, ib |-> Responder(listener)]
    /\ expect = [ob |-> SESSION_CREATED_CT_LEN, ib |-> SESSION_REQUEST_CT_LEN]
    /\ \E n \in ConfirmedLens : sclen = [ob |-> n, ib |-> 0]
    /\ codec = [e \in End |-> [enc |-> <<>>, dec |-> <<>>, next_len |-> FALSE]]

\* What damage can do to a frame: authentication fails, padding is something else,
\* and a length is too large or too small.
Ntcp2Damaged(f) ==
    CASE f.kind = "Padding" -> {[f EXCEPT !.value = "?"]}
      [] f.kind = "Length" -> {[f EXCEPT !.len = @ + 1], [f EXCEPT !.len = @ - 1]}
      [] OTHER -> {[f EXCEPT !.mac = <<"?">>]}

-----------------------------------------------------------------------------
(* Handshake *)

\* io::read_exact has all that it waits for.
CanRead(e) == ~ pending_ib[e] /\ InBuffer(e) >= expect[e]

\* noise.read_message: the next frame is authentic.  The handshake panics if not.
IsAuthentic(e) == NextFrame(e).mac = noise[e].h

\* noise.set_h_data, after write_message or read_message has added a message to h.
Mixed(h, kind, padding) == Append(h, kind) \o padding

\* Up to 15 bytes of random padding: none, or a unit.
Padding(n) == IF n = 0 THEN <<>> ELSE <<[kind |-> "Padding", size |-> n, value |-> "padding"]>>
PaddingValue(n) == IF n = 0 THEN <<>> ELSE <<"padding">>

\* The messages of the handshake, as an end with transcript h encrypts them.
SessionRequestMessage(h, ver, padlen, len) ==
    [kind |-> "SessionRequest", size |-> SESSION_REQUEST_CT_LEN, mac |-> h,
     ver |-> ver, padlen |-> padlen, sclen |-> len]
SessionCreatedMessage(h, padlen) ==
    [kind |-> "SessionCreated", size |-> SESSION_CREATED_CT_LEN, mac |-> h, padlen |-> padlen]
SessionConfirmedMessage(h, first, ri_a, len) ==
    [kind |-> "SessionConfirmed", size |-> 2 + 1 + len, mac |-> h, first |-> first, ri_a |-> ri_a]

\* OBHandshake, Connecting and SessionRequest.  Other implementations may have another version.
WriteSessionRequest ==
    /\ hs["ob"] = "Connecting"
    /\ \E padlen \in 0 .. 1, ver \in {2, 3} :
          /\ Write("ob", <<SessionRequestMessage(noise["ob"].h, ver, padlen, sclen["ob"])>> \o Padding(padlen))
          /\ noise' = [noise EXCEPT !["ob"].h = Mixed(@, "SessionRequest", PaddingValue(padlen))]
    /\ Goto("ob", "SessionCreated")
    /\ UNCHANGED <<arrived, consumed, taken, faults, pending_ib, expect, sclen, codec>>

\* IBHandshake, SessionRequest.
ReadSessionRequest ==
    LET sr == NextFrame("ib")
    IN
    /\ hs["ib"] = "SessionRequest"
    /\ CanRead("ib")
    /\ Take("ib", expect["ib"])
    /\ \/ /\ IsAuthentic("ib") /\ sr.ver = 2
          /\ expect' = [expect EXCEPT !["ib"] = sr.padlen]
          /\ sclen' = [sclen EXCEPT !["ib"] = sr.sclen]
          /\ Goto("ib", "SessionRequestPadding")
       \/ /\ ~ (IsAuthentic("ib") /\ sr.ver = 2)
          /\ Goto("ib", "Closed")
          /\ UNCHANGED <<expect, sclen>>
    /\ UNCHANGED <<wire, arrived, faults, pending_ib, noise, codec>>

\* The padding that end e has waited for is taken out of its buffer, and mixed in
\* after message `kind`: as a value.
TakePadding(e) == IF expect[e] = 0 THEN UNCHANGED <<taken, consumed>> ELSE Take(e, expect[e])
PaddingRead(e) == IF expect[e] = 0 THEN <<>> ELSE <<NextFrame(e).value>>

\* As ConfirmedSize below, but with the tag of the payload counted twice.
ConfirmedSizeTwoTags(n) == n + 1 + 2 + 1

\* The size of SessionConfirmed: the static key, encrypted, and sclen.
ConfirmedSize(n) == n + 2 + 1

\* IBHandshake, SessionRequestPadding and SessionCreated.
ReadRequestPadding ==
    LET h == Mixed(noise["ib"].h, "SessionRequest", PaddingRead("ib"))
    IN
    /\ hs["ib"] = "SessionRequestPadding"
    /\ CanRead("ib")
    /\ TakePadding("ib")
    /\ \E padlen \in 0 .. 1 :
          /\ Write("ib", <<SessionCreatedMessage(h, padlen)>> \o Padding(padlen))
          /\ noise' = [noise EXCEPT !["ib"].h = Mixed(h, "SessionCreated", PaddingValue(padlen))]
    /\ expect' = [expect EXCEPT !["ib"] = ConfirmedSize(sclen["ib"])]
    /\ Goto("ib", "SessionConfirmed")
    /\ UNCHANGED <<arrived, faults, pending_ib, sclen, codec>>

\* OBHandshake, SessionCreated.
ReadSessionCreated ==
    /\ hs["ob"] = "SessionCreated"
    /\ CanRead("ob")
    /\ Take("ob", expect["ob"])
    /\ \/ /\ IsAuthentic("ob")
          /\ expect' = [expect EXCEPT !["ob"] = NextFrame("ob").padlen]
          /\ Goto("ob", "SessionCreatedPadding")
       \/ ~ IsAuthentic("ob") /\ Goto("ob", "Closed") /\ UNCHANGED expect
    /\ UNCHANGED <<wire, arrived, faults, pending_ib, noise, sclen, codec>>

\* The codec of ob's session: of the two keys that the handshake yields, ask0 masks
\* the lengths that it writes, and ask1 those that it reads.
ObCodec == [enc |-> <<"ask0", 0>>, dec |-> <<"ask1", 0>>, next_len |-> FALSE]

\* As IbCodec below, but both ends write with the same key.
IbCodecSame == ObCodec

\* The codec of ib's session: the other way round.
IbCodec == [enc |-> <<"ask1", 0>>, dec |-> <<"ask0", 0>>, next_len |-> FALSE]

\* The session of end e starts; it waits for a length.
StartCodec(e, c) ==
    /\ codec' = [codec EXCEPT ![e] = c]
    /\ expect' = [expect EXCEPT ![e] = 1]
    /\ Goto(e, "Established")

\* OBHandshake, SessionCreatedPadding and SessionConfirmed: ob does not wait for an
\* answer.  A SessionConfirmed that fitted into sc_buf need not fit, with the static
\* key, into the buffer of write_message: the task panics.  Only other
\* implementations begin with another block than the RouterInfo.
ReadCreatedPadding ==
    LET h == Mixed(noise["ob"].h, "SessionCreated", PaddingRead("ob"))
        confirmed(first) == SessionConfirmedMessage(h, first, noise["ob"].own, sclen["ob"])
    IN
    /\ hs["ob"] = "SessionCreatedPadding"
    /\ CanRead("ob")
    /\ TakePadding("ob")
    /\ \/ \E first \in {"RouterInfo", "Options"} :
             /\ confirmed(first).size <= NTCP2_MTU
             /\ Write("ob", <<confirmed(first)>>)
             /\ noise' = [noise EXCEPT !["ob"].h = Append(h, "SessionConfirmed")]
             /\ StartCodec("ob", ObCodec)
       \/ /\ confirmed("RouterInfo").size > NTCP2_MTU
          /\ Goto("ob", "Closed")
          /\ UNCHANGED <<wire, noise, codec, expect>>
    /\ UNCHANGED <<arrived, faults, pending_ib, sclen>>

\* IBHandshake, SessionConfirmed.  listen registers the session, and waits until the
\* network database has the peer's RouterInfo before it starts.
ReadSessionConfirmed ==
    LET sc == NextFrame("ib")
    IN
    /\ hs["ib"] = "SessionConfirmed"
    /\ CanRead("ib")
    /\ Take("ib", expect["ib"])
    /\ \/ /\ IsAuthentic("ib") /\ sc.first = "RouterInfo"
          /\ noise' = [noise EXCEPT !["ib"].h = Append(@, "SessionConfirmed"), !["ib"].peer = sc.ri_a]
          /\ StartCodec("ib", IbCodec)
          /\ pending_ib' = [pending_ib EXCEPT !["ib"] = TRUE]
       \/ /\ ~ (IsAuthentic("ib") /\ sc.first = "RouterInfo")
          /\ Goto("ib", "Closed")
          /\ UNCHANGED <<noise, codec, expect, pending_ib>>
    /\ UNCHANGED <<wire, arrived, faults, sclen>>

-----------------------------------------------------------------------------
(* Codec *)

\* The masker's state after one more length.
NextMask(mask) == <<mask[1], mask[2] + 1>>

DataFrames(e) == SelectSeq(wire[e], LAMBDA f : f.kind = "Frame")

\* Codec::encode
WriteFrame(e) ==
    /\ hs[e] = "Established"
    /\ Len(DataFrames(e)) < MaxData[e]
    /\ codec' = [codec EXCEPT ![e].enc = NextMask(@)]
    /\ Write(e, <<[kind |-> "Length", size |-> 1, len |-> FrameLen, mask |-> codec'[e].enc],
                  [kind |-> "Frame", size |-> FrameLen, mac |-> <<>>]>>)
    /\ UNCHANGED <<hs, arrived, consumed, taken, faults, pending_ib, noise, expect, sclen>>

\* Codec::decode, first part: the mask moves on once per frame, and next_len is kept
\* while the frame is incomplete.  The wrong mask gives some other length.
ReadLength(e) ==
    LET f == NextFrame(e)
        mask == NextMask(codec[e].dec)
    IN
    /\ hs[e] = "Established"
    /\ ~ codec[e].next_len
    /\ CanRead(e)
    /\ Take(e, 1)
    /\ codec' = [codec EXCEPT ![e].dec = mask, ![e].next_len = TRUE]
    /\ expect' = [expect EXCEPT ![e] = IF f.mask = mask THEN f.len ELSE f.len + 1]
    /\ UNCHANGED <<hs, wire, arrived, faults, pending_ib, noise, sclen>>

\* Codec::decode, second part.  A frame may hold a message, which is distributed.
ReadFrame(e) ==
    LET f == NextFrame(e)
    IN
    /\ hs[e] = "Established"
    /\ codec[e].next_len
    /\ CanRead(e)
    /\ \/ /\ f.size = expect[e] /\ f.mac = <<>>
          /\ Take(e, expect[e])
          /\ codec' = [codec EXCEPT ![e].next_len = FALSE]
          /\ expect' = [expect EXCEPT ![e] = 1]
          /\ \E message \in BOOLEAN : pending_ib' = [pending_ib EXCEPT ![e] = message]
          /\ UNCHANGED hs
       \/ /\ ~ (f.size = expect[e] /\ f.mac = <<>>)
          /\ Goto(e, "Closed")
          /\ UNCHANGED <<taken, consumed, codec, expect, pending_ib>>
    /\ UNCHANGED <<wire, arrived, faults, noise, sclen>>

\* The peer has closed, and what is left is less than what end e waits for.
ReadEof(e) ==
    /\ hs[e] # "Closed"
    /\ AtEof(e)
    /\ ~ pending_ib[e] /\ InBuffer(e) < expect[e]
    /\ CloseStream(e)
    /\ UNCHANGED ntcp2Vars

Ntcp2Read(e) ==
    \/ e = "ob" /\ (WriteSessionRequest \/ ReadSessionCreated \/ ReadCreatedPadding)
    \/ e = "ib" /\ (ReadSessionRequest \/ ReadRequestPadding \/ ReadSessionConfirmed)
    \/ ReadLength(e) \/ ReadFrame(e) \/ ReadEof(e)

Ntcp2Write(e) == WriteFrame(e) \/ (Damage(e, Ntcp2Damaged) /\ UNCHANGED ntcp2Vars)

-----------------------------------------------------------------------------
(* Properties *)

\* Each end waits for exactly the frame that comes next, and unmasks its length with
\* the mask that it was masked with: no length is read twice, and none is read with
\* the mask of the other direction, however the stream is cut into pieces.  (A length
\* that was damaged is beyond that.)
LengthsInStep ==
    \A e \in End :
        (hs[e] # "Closed" /\ HasFrame(e, 0) /\ expect[e] > 0) =>
            /\ faults = 0 => NextFrame(e).size = expect[e]
            /\ hs[e] = "Established" =>
                  IF codec[e].next_len THEN NextFrame(e).kind = "Frame"
                  ELSE NextFrame(e).kind = "Length" /\ NextFrame(e).mask = NextMask(codec[e].dec)

\* Two ends that both believe in the session agree on all that was said in the
\* handshake, also on the padding, and on each other.
Ntcp2Agreement ==
    (\A e \in End : hs[e] = "Established") =>
        /\ noise["ob"].h = noise["ib"].h
        /\ \A e \in End : /\ noise[e].peer = noise[Peer(e)].own
                          /\ \A f \in Range(wire[e]) : f.kind = "Padding" => f.value = "padding"
=============================================================================
