----------------------------- MODULE MCLegacyJobs -----------------------------
EXTENDS LegacyJobs, TLC

Symmetry == Permutations(Workers)

=============================================================================
