------------------------------- MODULE MCPool -------------------------------
(* A small instance of Pool for TLC. *)
EXTENDS Pool

\* Of the connections that do not exist, the first is created next.  Two that do
\* not exist are alike (ActorEnds forgets what they were), so every behaviour is one
\* of these with the connections renamed (TLC's own symmetry reduction is not
\* sound for liveness).
FirstFree ==
    \A j, k \in Conns :
        j < k /\ place[j] = "gone" /\ place[k] = "gone" => place'[k] = "gone"

\* Calls are alike as well, but for what they are calls of: every behaviour is one in
\* which their kinds come in this order, with the calls renamed.
KindOrder == <<"query", "idempotent", "stream", "insert">>
KindsInOrder ==
    \A c, d \in Calls : \A i, j \in DOMAIN KindOrder :
        c < d /\ kind[c] = KindOrder[i] /\ kind[d] = KindOrder[j] => i <= j
=============================================================================
