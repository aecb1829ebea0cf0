---------------------------- MODULE MCLeaseStore ----------------------------
(* An instance of LeaseStore for TLC. *)
EXTENDS LeaseStore

\* A lease that is over at once and one that lasts.
ZeroOrOne == {0, 1}
=============================================================================
