------------------------------ MODULE MCSessions ------------------------------
EXTENDS Sessions, TLC

\* Nothing tells one terminal, or one prompt, from another.
Symmetry == Permutations(Chats) \cup Permutations(Prompts)

=============================================================================
