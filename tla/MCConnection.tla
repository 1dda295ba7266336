---------------------------- MODULE MCConnection ----------------------------
(* Small instances of Connection for TLC. *)
EXTENDS ConnectionDelivery, TLC

\* The calls are interchangeable: no action tells one from another.
CallSymmetry == Permutations(Calls)

\* The same for the runs with liveness, where a symmetry set is not sound: Submit has
\* no fairness, so every behaviour is one of those that submit the calls in this
\* order, with the calls renamed.
SubmittedInOrder == \A c, d \in Calls : c < d /\ caller[c] = "new" => caller[d] = "new"
=============================================================================
