-------------------------- MODULE MCSessionService --------------------------
(* Small instances of SessionService for TLC.                              *)
EXTENDS SessionService, TLC

\* Slots, addresses, passwords and tokens are interchangeable.
Symmetry == Permutations(Requests) \cup Permutations(Emails)
              \cup Permutations(Passwords) \cup Permutations(Tokens)
=============================================================================
