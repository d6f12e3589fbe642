------------------------------ MODULE MCNetDb ------------------------------
(* One floodfill and one lease set; two lookups, so that one can join the    *)
(* other; a reseed of two hosts, both of which it needs.  The router starts, *)
(* crashes and starts again any number of times, with two router keys and    *)
(* two static keys: those on disk may be replaced by others.                 *)
EXTENDS Router
=============================================================================
