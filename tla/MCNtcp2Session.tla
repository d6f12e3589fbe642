--------------------------- MODULE MCNtcp2Session ---------------------------
(* Frames of up to three blocks, five blocks to send and three from the     *)
(* peer; the third and fourth block are too large to share a frame.         *)
EXTENDS Ntcp2Session

MCFits(frame) == ~ ({3, 4} \subseteq ToSet(frame))

MCKind(b) == <<"message", "routerinfo", "foreign">>[b]
=============================================================================
