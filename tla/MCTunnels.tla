----------------------------- MODULE MCTunnels -----------------------------
(***************************************************************************)
(* Tunnels on a small instance: a lifetime of two expiry intervals, an hour  *)
(* of four.                                                                *)
(***************************************************************************)
EXTENDS Tunnels

Request(from, key, hop_type, next, request_time) ==
    [payload |-> "VariableTunnelBuild", ours |-> TRUE, readable |-> TRUE, from |-> from, key |-> key,
     hop_type |-> hop_type, tid |-> 1, next |-> next, request_time |-> request_time]

\* Two requests for one tunnel id, one for the end of a tunnel, one that closes a
\* loop with us and one with its sender, one that is only valid later, and two that we cannot read.
MCBuildMessage ==
    { Request("p", 1, "Intermediate", "q", 1),
      Request("q", 2, "Intermediate", "p", 2),
      Request("p", 2, "OutboundEndpoint", "us", 1),
      Request("p", 2, "Intermediate", "us", 1),
      Request("p", 2, "Intermediate", "p", 1),
      [Request("p", 1, "Intermediate", "q", 1) EXCEPT !.readable = FALSE],
      [Request("p", 1, "Intermediate", "q", 1) EXCEPT !.ours = FALSE] }

\* Both routers send the same value, so that a tunnel can get it from the right one
\* and the wrong one, and a second tunnel after the first.
Data(payload, from, value) == [payload |-> payload, from |-> from, tid |-> 1, value |-> value]

MCDataMessage ==
    { Data("TunnelData", "p", "v"), Data("TunnelData", "q", "v") }
=============================================================================
