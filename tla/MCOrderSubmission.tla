--------------------------- MODULE MCOrderSubmission ---------------------------
(* Instances of OrderSubmission for TLC. *)
EXTENDS OrderSubmission, TLC

CONSTANTS h1, h2

SameNames == Permutations(Handlers) \cup Permutations(Bodies)
================================================================================
