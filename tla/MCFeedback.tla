----------------------------- MODULE MCFeedback -----------------------------
(* Small instances of Login, and of the Feedback it drives, for TLC. *)
EXTENDS Login, TLC

Symmetry ==
    Permutations(Request) \cup Permutations(User) \cup Permutations(Attempt)
        \cup Permutations(Password)
=============================================================================
