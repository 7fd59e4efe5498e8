--------------------------- MODULE MCEntryService ---------------------------
EXTENDS EntryService, TLC

\* Slots, and the members of a payload, are interchangeable.
Symmetry == Permutations(Requests) \cup Permutations(Details) \cup Permutations(Users)
=============================================================================
