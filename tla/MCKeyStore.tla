----------------------------- MODULE MCKeyStore -----------------------------
(***************************************************************************)
(* Small instances of KeyStore for TLC.                                    *)
(***************************************************************************)
EXTENDS KeyStore, TLC

Symmetry == Permutations(Calls) \cup Permutations(Keys)

MCCountedWith == [u \in Users |-> Users]
=============================================================================
