--------------------------- MODULE MCAuthenticator ---------------------------
(* Instances of Authenticator for TLC.                                     *)
EXTENDS Authenticator, TLC

CONSTANTS rp1, rp2, alice, bob, k1, k2

\* Two accounts of the allowed RP already have discoverable credentials.
MCOldCreds ==
  {[id |-> k1, rp |-> rp1, user |-> alice], [id |-> k2, rp |-> rp1, user |-> bob]}

Plain(kind, list) ==
  [kind |-> kind, rp |-> rp1, user |-> alice, rk |-> TRUE, list |-> list,
   flaw |-> "none"]

\* The commands that get past the checks: a registration that replaces
\* alice's credential, sign-in with and without an allow list, and the next
\* assertion.
Proper ==
  {Plain("make", {}), Plain("get", {}), Plain("get", {k1}),
   Plain("next", {})}

\* A registration with an exclude list, the refused commands, the
\* stateless ones and a registration without a resident key.
Improper ==
  {[Plain("make", {}) EXCEPT !.rp = rp2], [Plain("get", {}) EXCEPT !.rp = rp2],
   Plain("make", {k1}), [Plain("make", {}) EXCEPT !.rk = FALSE], Plain("info", {}), Plain("bad", {})}
  \cup {[Plain(k, {}) EXCEPT !.flaw = f] : k \in {"make", "get"}, f \in {"hmac", "hash"}}
  \cup {[Plain("make", {}) EXCEPT !.flaw = "alg"]}

MCRequests == Proper
MCAllRequests == Proper \cup Improper

Symmetry == Permutations(Ops)
=============================================================================
