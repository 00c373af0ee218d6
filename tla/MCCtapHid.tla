----------------------------- MODULE MCCtapHid -----------------------------
(* Instances of CtapHid for TLC, with the packet sizes of fidohid.go.      *)
EXTENDS CtapHid, TLC

\* Channels and transactions are interchangeable.  Used for safety only.
Symmetry == Permutations(Txns) \cup Permutations(Cids)
=============================================================================
