----------------------------- MODULE MCDarknet -----------------------------
(* A small instance of Darknet for TLC. *)
EXTENDS Darknet, TLC

CONSTANTS darkweb, near, p1, p3

\* One server behind the darkweb server.
Pair == (darkweb :> {near}) @@ (near :> {})
\* Passwords of servers of two kinds.
TwoKinds == (p1 :> "f1") @@ (p3 :> "f2")
============================================================================
