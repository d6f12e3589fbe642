------------------------------ MODULE MCLinks ------------------------------
(***************************************************************************)
(* A small instance of Links.                                               *)
(***************************************************************************)
EXTENDS Links

\* ib speaks first after an NTCP handshake, and ob after an NTCP2 handshake.
MCMaxData == [ob |-> 1, ib |-> 2]

\* The first frame ends within a block of the read buffer, and the confirmations and
\* the time stamp are padded to whole blocks.
MCContentLen(kind) ==
    CASE kind \in {"SessionRequest", "SessionConfirmA"} -> 3
      [] kind \in {"SessionCreated", "Standard"} -> 4
      [] OTHER -> 1
=============================================================================
