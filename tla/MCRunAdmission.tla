--------------------------- MODULE MCRunAdmission ---------------------------
(* Small instances of RunAdmission for TLC. *)
EXTENDS RunAdmission, TLC

CONSTANTS k1, k2, q1, q2, c1, c2, h1, u

\* Both intentions are the same person's.
SameAuthor == [k \in Keys |-> u]

\* Keys, requests and connections are alike.
Alike == Permutations(Keys) \cup Permutations(Slots) \cup Permutations(Connections)

=============================================================================
