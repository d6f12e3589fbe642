------------------------------ MODULE Startup ------------------------------
(***************************************************************************)
(* How a router starts (router/builder.rs, transport/mod.rs): from its key  *)
(* files, which it writes when they are missing, it makes the RouterInfo    *)
(* that it publishes.  The process may crash between any two steps and is   *)
(* started again.                                                           *)
(*                                                                         *)
(* A key is a number.  A file is absent, damaged, or holds what was written *)
(* to it: to_file creates an empty file and then writes it, so that a crash *)
(* or an error in between leaves a file that cannot be read back.  A write  *)
(* takes all the bytes of a file or fails.                                  *)
(***************************************************************************)
EXTENDS Naturals

CONSTANTS
    ROUTER_KEYFILE,  \* whether the configuration names a file for the router's keys
    RI_FILE,         \* and one for its RouterInfo
    MaxRouterKeys,   \* bound: router keys that differ
    MaxStaticKeys    \* bound: static keys that differ

ASSUME StartupAssumption ==
    /\ {ROUTER_KEYFILE, RI_FILE} \subseteq BOOLEAN
    /\ MaxRouterKeys \in Nat /\ MaxStaticKeys \in Nat

VARIABLES
    phase,          \* how far the start has come
    keyfile,        \* RouterSecretKeys on disk
    ntcp2_keyfile,  \* the static keys of NTCP2 on disk
    ri_file,        \* the RouterInfo on disk
    keys,           \* RouterSecretKeys in memory
    static_key,     \* the static keys of ntcp2::Manager
    ri              \* the RouterInfo in the Context

disk == <<keyfile, ntcp2_keyfile, ri_file>>
memory == <<keys, static_key, ri>>
startupVars == <<phase, disk, memory>>

None == 0

NoFile == [file |-> "none"]
Damaged == [file |-> "damaged"]
Written(data) == [file |-> "written", data |-> data]

StartupInit ==
    /\ phase = "off"
    /\ keyfile = NoFile /\ ntcp2_keyfile = NoFile /\ ri_file = NoFile
    /\ keys = None /\ static_key = None /\ ri = None

-----------------------------------------------------------------------------
(* RouterInfos *)

Address(transport_style) == [style |-> transport_style, s |-> None]

\* Manager::address of each transport: NTCP2 publishes its static key.
NtcpAddress == Address("NTCP")
Ntcp2Address(s) == [Address("NTCP2") EXCEPT !.s = s]

Addresses(s) == {NtcpAddress, Ntcp2Address(s)}

NoSignature == [by |-> None]

NewRouterInfo(rid) == [router_id |-> rid, addresses |-> {}, signature |-> NoSignature]

\* The signature does not cover the new addresses and is removed.
SetAddresses(info, addrs) == [info EXCEPT !.addresses = addrs, !.signature = NoSignature]

SignatureBytes(info) == <<info.router_id, info.addresses>>

Sign(info, spk) == [info EXCEPT !.signature = [by |-> spk, over |-> SignatureBytes(info)]]

Verify(info) ==
    /\ info.signature # NoSignature
    /\ info.signature = [by |-> info.router_id, over |-> SignatureBytes(info)]

\* The static keys of the RouterInfo on disk.
PublishedKeys ==
    IF ri_file.file = "written" THEN {a.s : a \in ri_file.data.addresses \ {NtcpAddress}} ELSE {}

-----------------------------------------------------------------------------
(* Steps of Builder::build *)

\* Keys that are generated are not in use anywhere.
IsNewRouterKey(n) ==
    /\ keyfile # Written(n)
    /\ ri_file.file = "written" => ri_file.data.router_id # n

NewRouterKeys == CHOOSE n \in 1 .. MaxRouterKeys : IsNewRouterKey(n)

IsNewStaticKey(n) == ntcp2_keyfile # Written(n) /\ n \notin PublishedKeys

NewStaticKeys == CHOOSE n \in 1 .. MaxStaticKeys : IsNewStaticKey(n)

\* What from_file makes of a file: keys that were written can be read.
IsReadable(file) == file.file = "written"

\* RouterSecretKeys::from_file: a file that is seen to exist must be readable, or
\* the start fails.  Without a file in the configuration the keys are ephemeral.
LoadKeys ==
    /\ phase = "off"
    /\ IF ROUTER_KEYFILE
       THEN IsReadable(keyfile) /\ keys' = keyfile.data
       ELSE (\E n \in 1 .. MaxRouterKeys : IsNewRouterKey(n)) /\ keys' = NewRouterKeys
    /\ phase' = "comms"
    /\ UNCHANGED <<disk, static_key, ri>>

\* fs::metadata fails, be it that there is no key file: build takes any error for a
\* missing file, makes new keys, and RouterSecretKeys::to_file creates the file
\* anew,
CreateKeys ==
    /\ phase = "off"
    /\ ROUTER_KEYFILE
    /\ \E n \in 1 .. MaxRouterKeys : IsNewRouterKey(n)
    /\ keys' = NewRouterKeys
    /\ keyfile' = Damaged
    /\ phase' = "writing keys"
    /\ UNCHANGED <<ntcp2_keyfile, ri_file, static_key, ri>>

\* and writes it.
WriteKeys ==
    /\ phase = "writing keys"
    /\ keyfile' = Written(keys)
    /\ phase' = "comms"
    /\ UNCHANGED <<ntcp2_keyfile, ri_file, memory>>

\* transport::Manager::from_config and ntcp2::Manager::from_file.
LoadStaticKeys ==
    /\ phase = "comms"
    /\ IsReadable(ntcp2_keyfile)
    /\ static_key' = ntcp2_keyfile.data
    /\ phase' = "info"
    /\ UNCHANGED <<disk, keys, ri>>

\* As CreateStaticKeys, without writing them.
StaticKeysInMemory ==
    /\ phase = "comms"
    /\ \E n \in 1 .. MaxStaticKeys : IsNewStaticKey(n)
    /\ static_key' = NewStaticKeys
    /\ phase' = "info"
    /\ UNCHANGED <<disk, keys, ri>>

\* The file cannot be opened or read, be it that it does not exist: from_config
\* takes any error of from_file for a missing file, makes a new Manager, and
\* to_file creates the file anew,
CreateStaticKeys ==
    /\ phase = "comms"
    /\ \E n \in 1 .. MaxStaticKeys : IsNewStaticKey(n)
    /\ static_key' = NewStaticKeys
    /\ ntcp2_keyfile' = Damaged
    /\ phase' = "writing static keys"
    /\ UNCHANGED <<keyfile, ri_file, keys, ri>>

\* and writes it.
WriteStaticKeys ==
    /\ phase = "writing static keys"
    /\ ntcp2_keyfile' = Written(static_key)
    /\ phase' = "info"
    /\ UNCHANGED <<keyfile, ri_file, memory>>

\* from_file takes slices of what it has read, and panics if that is too short.
\* So does every later start.
StaticKeysDamaged ==
    /\ phase = "comms"
    /\ ntcp2_keyfile = Damaged
    /\ phase' = "off"
    /\ keys' = None
    /\ UNCHANGED <<disk, static_key, ri>>

\* The RouterInfo of this run is made and its file created,
MakeRouterInfo ==
    /\ phase = "info"
    /\ ri' = Sign(SetAddresses(NewRouterInfo(keys), Addresses(static_key)), keys)
    /\ ri_file' = IF RI_FILE THEN Damaged ELSE ri_file
    /\ phase' = "writing info"
    /\ UNCHANGED <<keyfile, ntcp2_keyfile, keys, static_key>>

\* then written, and with the Context made the subsystems are started.
StartRouter ==
    /\ phase = "writing info"
    /\ ri_file' = IF RI_FILE THEN Written(ri) ELSE ri_file
    /\ phase' = "running"
    /\ UNCHANGED <<keyfile, ntcp2_keyfile, memory>>

\* The process ends at any point, be it for a file that cannot be written.
StopRouter ==
    /\ phase # "off"
    /\ phase' = "off"
    /\ keys' = None /\ static_key' = None /\ ri' = None
    /\ UNCHANGED disk

StartupStep ==
    \/ LoadKeys \/ CreateKeys \/ WriteKeys
    \/ LoadStaticKeys \/ CreateStaticKeys \/ WriteStaticKeys \/ StaticKeysDamaged
    \/ MakeRouterInfo \/ StartRouter

-----------------------------------------------------------------------------
(* Properties *)

\* Peers and later runs see the router that is running: its RouterInfo is on
\* disk with a signature that verifies, it names the identity and the static
\* key that the transports answer with, and the files hold those keys.
RunsAsPublished ==
    phase = "running" =>
        /\ RI_FILE => ri_file = Written(ri)
        /\ Verify(ri)
        /\ ri.router_id = keys
        /\ Ntcp2Address(static_key) \in ri.addresses
        /\ ROUTER_KEYFILE => keyfile = Written(keys)
        /\ ntcp2_keyfile = Written(static_key)
=============================================================================
