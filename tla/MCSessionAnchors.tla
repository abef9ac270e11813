-------------------------- MODULE MCSessionAnchors --------------------------
(* The circumstances under which SessionAnchors is checked. *)
EXTENDS SessionAnchors

(* Nothing goes wrong, but one provider has no session id; the store raises; *)
(* the turn threads are slow.                                                *)
Smooth == [anonymous |-> {1}, slow |-> FALSE, faulty |-> FALSE]
Faulty == [anonymous |-> {}, slow |-> FALSE, faulty |-> TRUE]
Slow == [anonymous |-> {}, slow |-> TRUE, faulty |-> FALSE]

AllSettings == {Smooth, Faulty, Slow}
=============================================================================
