------------------------------ MODULE MCProxy -------------------------------
(* A session in which two proxies are started. *)
EXTENDS Proxy

CONSTANTS p1, p2
=============================================================================
