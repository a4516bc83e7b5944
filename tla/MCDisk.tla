------------------------------- MODULE MCDisk -------------------------------
(***************************************************************************)
(* The persistent tier on a small instance: two threads of one process,    *)
(* one directory, two persistable keys that share a file name, one that    *)
(* does not persist, and two lengths, so that a name can hold the wrong    *)
(* key or the wrong length.                                                *)
(***************************************************************************)
EXTENDS DiskBlockStore, TLC

EntityTag(n) == [identity |-> n, strength |-> "Strong", kind |-> "EntityTag"]
MCEntryKey == {EntityTag(1), EntityTag(2),
               [identity |-> 1, strength |-> "Strong", kind |-> "Derived"]}
MCNameOf(k) == 1
MCSymmetry == Permutations(Thread)
=============================================================================
