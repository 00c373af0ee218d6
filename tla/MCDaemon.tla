------------------------------ MODULE MCDaemon ------------------------------
(***************************************************************************)
(* Instances of Daemon for TLC: two devices, the current one and one whose *)
(* goroutine has not ended yet.  There is no other bound.                  *)
(***************************************************************************)
EXTENDS Daemon

=============================================================================
