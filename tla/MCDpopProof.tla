---------------------------- MODULE MCDpopProof -----------------------------
(* Small instances of DpopProof for TLC.                                    *)
EXTENDS DpopProof, TLC

JtiSymmetry == Permutations(ProofJtis)
=============================================================================
