------------------------------ MODULE MCMempool -----------------------------
(***************************************************************************)
(* OneWay: a node at home that calls another, which cannot call back, and  *)
(* two extrinsics, so that a queue of one evicts and a nonce comes too     *)
(* early.  TwoPollers: the topology of docs/MESSAGE_ROUTING.md:162, a node *)
(* that calls nobody, polled by two that call each other.                  *)
(***************************************************************************)
EXTENDS Mempool

CONSTANTS home, east, west

OneWay == {<<home, east>>}
TwoPollers == {<<east, home>>, <<west, home>>, <<east, west>>, <<west, east>>}

=============================================================================
