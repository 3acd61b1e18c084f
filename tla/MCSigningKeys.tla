--------------------------- MODULE MCSigningKeys ---------------------------
EXTENDS SigningKeys

AnyGrace == {0, 1, 3}
=============================================================================
