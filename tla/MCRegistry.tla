----------------------------- MODULE MCRegistry -----------------------------
EXTENDS Registry

CONSTANTS h1, h2, s1, p1, p2, c1, c2, r1, r2

MCHostOf == [s \in {s1} |-> h1]

\* A suspended domain and a suspended work with a rate of its own: five steps.
MCCorpus ==
  <<[host |-> h1, owner |-> p1, payout |-> p1, rate |-> 1, status |-> "suspended",
     works |-> <<[source |-> s1, content |-> c1, rate |-> 2, status |-> "suspended"]>>]>>

Interchangeable == Permutations({r1, r2})

=============================================================================
