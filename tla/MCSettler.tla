----------------------------- MODULE MCSettler -----------------------------
(* Values for Settler's constants. *)
EXTENDS PublicRecord, TLC

MCZeroChain == 0

Interchangeable == Permutations(Domains)

ASSUME TariffsAboveDust == AboveDust

\* The batches above are small, so the tree is checked on its own: a proof holds for its own
\* leaf and no other, and is as long as the tree is high.
ASSUME ProofsFitTheirLeaves ==
  \A n \in 1..9 :
    LET leaves == [i \in 1..n |-> i]
    IN  \A i, j \in 1..n :
          LET path == merkleProof(leaves, i)
          IN  /\ verifyInclusion(leaves[j], path, merkleRoot(leaves)) <=> i = j
              /\ n <= 1 \/ 2 ^ (Len(path) - 1) < n
=============================================================================
