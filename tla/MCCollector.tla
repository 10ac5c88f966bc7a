---------------------------- MODULE MCCollector ----------------------------
(* Small instances of Collector for TLC. *)
EXTENDS Collector, TLC

CONSTANTS
  MaxHeld,   \* bound: objects in the C variables of one call
  MaxNative  \* bound: objects the native frames hold

(* blocks are interchangeable *)
AddrSymmetry == Permutations(Addr)

Bounds == Cardinality(held) <= MaxHeld /\ Cardinality(native) <= MaxNative
=============================================================================
