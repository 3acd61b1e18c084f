\* Proofs dated ahead and behind, presented again at every later instant, with
\* nonces of every age and a restart that may draw a new key.
CONSTANTS
    ProofJtis = {j1, j2}
    NoNonce = NoNonce
    Skew = 1
    ReplayTTL = 3
    Lifetime = 2
    DpopTime = 6
    MaxProofs = 3
    MaxReboots = 1
SPECIFICATION DpopSpec
INVARIANTS ProofUsedOnce NonceWindow
SYMMETRY JtiSymmetry
CHECK_DEADLOCK FALSE
