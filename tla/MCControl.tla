------------------------------ MODULE MCControl ------------------------------
(* Instances of ControlDelivery for TLC. *)
EXTENDS ControlDelivery, TLC

CONSTANTS q1, q2

MCQuestions == {q1, q2}

\* One id, or both in either order.
MCTuples == {<<q1>>, <<q2>>, <<q1, q2>>, <<q2, q1>>}

MCSymmetry == Permutations(MCQuestions)
=============================================================================
