------------------------------ MODULE MCHtable ------------------------------
(***************************************************************************)
(* Instances of Htable for TLC: addresses k1 and k2 share a bucket of a    *)
(* table of Size 2, k3 has one of its own whatever the table's size.       *)
(***************************************************************************)
EXTENDS Htable, TLC

CONSTANTS k1, k2, k3, t1, t2

MCHash == (k1 :> 1) @@ (k2 :> 3) @@ (k3 :> 2)

\* Tables are not keys here, their addresses do not matter.
MCSymmetry == Permutations({t1, t2})

\* Associations saved in files: with a key that hashes to bucket 0, and not.
MCFile == {<<[key |-> k3, value |-> k2]>>}
MCFileElsewhere == {<<[key |-> k1, value |-> k2]>>}
=============================================================================
