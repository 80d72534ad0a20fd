------------------------------ MODULE MCLeases ------------------------------
EXTENDS LicenseLeases, TLC

Symmetry ==
    Permutations(Nonces) \cup Permutations(Activations)
        \cup Permutations(Installs) \cup Permutations(Keys)
=============================================================================
