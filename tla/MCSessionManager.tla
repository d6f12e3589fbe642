-------------------------- MODULE MCSessionManager --------------------------
(* Two peers, three frames and three sessions: enough for two sessions with *)
(* one peer that overlap, a third that is opened after one of them has      *)
(* ended, and a frame for each.                                             *)
EXTENDS SessionManager
=============================================================================
