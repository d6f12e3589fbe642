------------------------------- MODULE Links -------------------------------
(***************************************************************************)
(* transport/mod.rs: a message for a peer is sent over the transport with    *)
(* the lowest bid.  When the peer has no session with that transport, a      *)
(* connection is made; this module follows it from then on.                 *)
(***************************************************************************)
EXTENDS NtcpLink, Ntcp2Link

CONSTANTS
    MessageSize,  \* sizes that messages may have
    NTCP_MTU

VARIABLE transport  \* the transport that carries the connection

vars == <<transport, streamVars, ntcpVars, ntcp2Vars>>

Transport == {"NTCP", "NTCP2"}

TypeOK ==
    /\ transport \in Transport
    /\ StreamTypeOK
    /\ transport = "NTCP" => NtcpTypeOK
    /\ transport = "NTCP2" => Ntcp2TypeOK

\* The addresses that a peer may have: NTCP2 may be offered on an NTCP address.
Address == {"NTCP", "NTCP with v, s and i", "NTCP2"}

\* RouterInfo::address with the filters of the two transports.
HasNtcpAddress(addresses) == addresses \cap {"NTCP", "NTCP with v, s and i"} # {}
HasNtcp2Address(addresses) == addresses \cap {"NTCP with v, s and i", "NTCP2"} # {}

\* Transport::bid: a message too large, or a peer without a usable address, gets no
\* bid; a session that exists is cheaper.
NtcpBids(addresses, size, established) ==
    IF size > NTCP_MTU \/ ~ HasNtcpAddress(addresses) THEN {}
    ELSE {IF "NTCP" \in established THEN 25 ELSE 70}
Ntcp2Bids(addresses, size, established) ==
    IF size > NTCP2_MTU \/ ~ HasNtcp2Address(addresses) THEN {}
    ELSE {IF "NTCP2" \in established THEN 10 ELSE 40}

\* CommSystem::send: the transports that may get a message of the given size.
SendOver(addresses, size, established) ==
    LET ntcp == NtcpBids(addresses, size, established)
        ntcp2 == Ntcp2Bids(addresses, size, established)
    IN {t \in Transport :
          \E bid \in IF t = "NTCP" THEN ntcp ELSE ntcp2 : \A b \in ntcp \cup ntcp2 : bid <= b}

\* A message is sent over a transport that has no session with the peer.
Init ==
    /\ StreamInit
    /\ \E addresses \in SUBSET Address, established \in SUBSET Transport, size \in MessageSize :
          transport \in SendOver(addresses, size, established) \ established
    /\ \/ /\ transport = "NTCP"
          /\ NtcpInit
          /\ noise = 0 /\ expect = 0 /\ sclen = 0 /\ codec = 0
       \/ /\ transport = "NTCP2"
          /\ Ntcp2Init
          /\ shared = 0 /\ key = 0 /\ decrypted = 0 /\ position = 0

Read(e) ==
    \/ transport = "NTCP" /\ NtcpRead(e) /\ UNCHANGED <<transport, ntcp2Vars>>
    \/ transport = "NTCP2" /\ Ntcp2Read(e) /\ UNCHANGED <<transport, ntcpVars>>

WriteFrames(e) ==
    \/ transport = "NTCP" /\ NtcpWrite(e) /\ UNCHANGED <<transport, ntcp2Vars>>
    \/ transport = "NTCP2" /\ Ntcp2Write(e) /\ UNCHANGED <<transport, ntcpVars>>

Stream(A) == A /\ UNCHANGED <<transport, ntcpVars, ntcp2Vars>>

Next == (\E e \in End : Read(e) \/ WriteFrames(e)) \/ Stream(StreamStep)

\* What was written arrives, a task that can go on is polled, subsystems take their
\* messages, and the timeout of an outbound handshake fires.
Fairness ==
    /\ \A e \in End : WF_vars(Read(e)) /\ WF_vars(Stream(Arrive(e))) /\ WF_vars(Stream(Distribute(e)))
    /\ WF_vars(Stream(TimesOut))

Spec == Init /\ [][Next]_vars /\ Fairness

\* See NtcpAgreement and Ntcp2Agreement: what the ends of an established session agree
\* on, whatever was damaged and whichever router listens.
Agreement == IF transport = "NTCP" THEN NtcpAgreement ELSE Ntcp2Agreement

\* See NtcpLink: each decryptor stands behind what it has decrypted.
CipherInStep == transport = "NTCP" => DecryptorInStep

\* See Ntcp2Link: each end waits for exactly what comes next.
ReadsInStep == transport = "NTCP2" => LengthsInStep
=============================================================================
