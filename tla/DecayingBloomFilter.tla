------------------------ MODULE DecayingBloomFilter ------------------------
(***************************************************************************)
(* The two-layer filter with which tunnels recognise what they have already  *)
(* seen (util.rs).  A layer is the set of the values inserted in it; a Bloom *)
(* filter that is not empty may also claim to contain any other value.       *)
(***************************************************************************)

\* DecayingBloomFilter::new
EmptyFilter == [current |-> {}, previous |-> {}]

Inserted(f) == f.current \cup f.previous

\* What feed may return for value v: whether v is present.
Reported(f, v) ==
    IF v \in Inserted(f) THEN {TRUE}
    ELSE IF Inserted(f) = {} THEN {FALSE}
    ELSE BOOLEAN

\* The filter after a feed of v that returned "present".
Fed(f, v, present) == IF present THEN f ELSE [f EXCEPT !.current = @ \cup {v}]

\* As Decayed below, but both layers are emptied.
Emptied(f) == EmptyFilter

\* decay
Decayed(f) == [current |-> {}, previous |-> f.current]
=============================================================================
