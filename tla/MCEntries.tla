------------------------------ MODULE MCEntries ------------------------------
(***************************************************************************)
(* A small instance of Entries: two entries at one host, with two machines. *)
(* Two flows and two changes are the least that overlap.                   *)
(***************************************************************************)
EXTENDS Entries, TLC

OneHost == [a \in Addresses |-> "host"]
Symmetry == Permutations(Entry)
=============================================================================
