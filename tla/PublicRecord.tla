---------------------------- MODULE PublicRecord ----------------------------
(***************************************************************************)
(* What the gateway publishes of the history that Settler writes, and what *)
(* an independent verifier makes of it with nothing but the finalized      *)
(* transactions to trust.                                                  *)
(*                                                                         *)
(* A hash is the term that it is taken of: a leaf is the receipt's body, a *)
(* chain value the sequence of the leaves folded into it, a node the pair  *)
(* of its children.                                                        *)
(***************************************************************************)
EXTENDS Settler, SequencesExt

-----------------------------------------------------------------------------
(* The Merkle tree of RFC 6962.                                            *)

\* The largest power of two below n.
splitPoint(n) == Max({2 ^ i : i \in 0..n} \cap 1..(n - 1))

Leaf(body) == [leaf |-> body]

Node(l, r) == [left |-> l, right |-> r]

\* The leaves on either side of the split.
LeftOf(s) == SubSeq(s, 1, splitPoint(Len(s)))

RightOf(s) == SubSeq(s, splitPoint(Len(s)) + 1, Len(s))

merkleRoot(leaves) ==
  LET root[s \in Seq(Range(leaves))] ==
        IF Len(s) <= 1 THEN Leaf(s[1]) ELSE Node(root[LeftOf(s)], root[RightOf(s)])
  IN  root[leaves]

\* From the leaf up: the sibling at each level and the side it stands on.
merkleProof(leaves, index) ==
  LET Step(siblings, where) == [hash |-> merkleRoot(siblings), side |-> where]
      pathTo[s \in Seq(Range(leaves))] ==
        [i \in DOMAIN s |->
           IF Len(s) = 1 THEN << >>
           ELSE IF i <= splitPoint(Len(s))
           THEN Append(pathTo[LeftOf(s)][i], Step(RightOf(s), "right"))
           ELSE Append(pathTo[RightOf(s)][i - splitPoint(Len(s))], Step(LeftOf(s), "left"))]
  IN  pathTo[leaves][index]

verifyInclusion(leaf, path, root) ==
  root = FoldLeft(LAMBDA acc, step : IF step.side = "left" THEN Node(step.hash, acc)
                                                           ELSE Node(acc, step.hash),
                  Leaf(leaf), path)

-----------------------------------------------------------------------------
(* What is on the network.                                                 *)

Body(n) == [seq |-> n, domain |-> receipts[n].domain, tariff |-> receipts[n].tariff,
            fee |-> ReceiptFee(receipts[n].tariff)]

Bodies(from, to) == [i \in 1..(to - from + 1) |-> Body(from + i - 1)]

TotalOf(bodies, field) == SumFunction([i \in DOMAIN bodies |-> bodies[i][field]])

\* What the receipts of a batch owe to a domain.
OwedTo(bodies, d) ==
  SumFunctionOnSet([i \in DOMAIN bodies |-> bodies[i].tariff], {i \in DOMAIN bodies : bodies[i].domain = d})

\* Where the escrow stood when transaction i landed.
PositionBefore(i) ==
  Max({0} \cup {txs[j].to : j \in {j \in 1..Len(txs) : /\ txs[j].status = "landed"
                                                       /\ txs[j].to < txs[i].to}})

\* parseSettlement, of a settle_batch: its arguments, and the balances it moved.  The
\* voucher's chain commits to the whole history.
AnchoredChain(i) == Bodies(1, txs[i].to)

AnchoredRoot(i) == merkleRoot(Bodies(txs[i].from, txs[i].to))

Legs(i) == [d \in Domains |-> Leg(txs[i], d)]

VaultDebit(i) == CumulativeTo(txs[i].to) - CumulativeTo(PositionBefore(i))

TreasuryCredit(i) == VaultDebit(i) - TariffTotal(txs[i])

\* rpcNetwork reads at `finalized`.
OnNetwork(i) == i \in 1..Len(txs) /\ txs[i].final

-----------------------------------------------------------------------------
(* What the gateway serves: anchorOf, composition, previousBatch.          *)

Published(k) ==
  LET b == batches[k]
      bodies == Bodies(b.from, b.to)
  IN  [from |-> b.from, to |-> b.to, tx |-> b.tx, receipts |-> bodies,
       previous |-> IF k = 1 THEN 0 ELSE batches[k - 1].tx,
       paths |-> [i \in DOMAIN bodies |-> merkleProof(bodies, i)]]

-----------------------------------------------------------------------------
(* The verifier, for the receipt with a given body.  The settlement that   *)
(* anchors the batch is given with the legs the network shows.             *)

\* settlementOf
Anchors(i, seqEnd) == OnNetwork(i) /\ txs[i].status = "landed" /\ txs[i].to = seqEnd

\* wellFormed
WellFormed(p) == \A i \in DOMAIN p.receipts : p.receipts[i].seq = p.from + i - 1

\* startingChain: there is one, of genesis or of the settlement before.
StartsWhereSettled(p) == p.from = 1 \/ Anchors(p.previous, p.from - 1)

StartingChain(p) == IF p.from = 1 THEN << >> ELSE AnchoredChain(p.previous)

\* recomputeChain: the composition is the one that was signed and anchored, and holds `body`.
RecomputeChain(body, p) ==
  LET i == body.seq - p.from + 1
  IN  /\ WellFormed(p)
      /\ i \in DOMAIN p.receipts /\ p.receipts[i] = body
      /\ StartsWhereSettled(p)
      /\ StartingChain(p) \o p.receipts = AnchoredChain(p.tx)
      /\ merkleRoot(p.receipts) = AnchoredRoot(p.tx)

\* Mutant of ReconcileAmounts: the totals only.
ReconcileTotals(p, legs) ==
  /\ TotalOf(p.receipts, "tariff") + TotalOf(p.receipts, "fee") = VaultDebit(p.tx)
  /\ TotalOf(p.receipts, "fee") = TreasuryCredit(p.tx)

ReconcileAmounts(p, legs) ==
  /\ TotalOf(p.receipts, "tariff") + TotalOf(p.receipts, "fee") = VaultDebit(p.tx)
  /\ TotalOf(p.receipts, "fee") = TreasuryCredit(p.tx)
  /\ \A d \in Domains : legs[d] = OwedTo(p.receipts, d)

\* verifyReceipt reports `verified`; `body` is what was asked for, or it is `tampered`.
Verified(body, p, path, legs) ==
  /\ Anchors(p.tx, p.to)
  /\ RecomputeChain(body, p)
  /\ verifyInclusion(body, path, AnchoredRoot(p.tx))
  /\ ReconcileAmounts(p, legs)

-----------------------------------------------------------------------------

WithReceipt(p, i, receipt) == [p EXCEPT !.receipts = [@ EXCEPT ![i] = receipt]]

CutAt(p, from, previous) ==
  [p EXCEPT !.from = from, !.receipts = Bodies(from, p.to), !.previous = previous]

OnTheWordOf(p, i) == [p EXCEPT !.tx = i]

\* A batch with one receipt changed, cut elsewhere, or on the word of another transaction.
Forgeries(p) ==
  LET n == DOMAIN p.receipts
  IN  {WithReceipt(p, i, [p.receipts[i] EXCEPT !.domain = d]) : i \in n, d \in Domains}
      \cup {WithReceipt(p, i, [p.receipts[i] EXCEPT !.tariff = @ + 1]) : i \in n}
      \cup {WithReceipt(p, i, [p.receipts[i] EXCEPT !.fee = @ + 1]) : i \in n}
      \cup {CutAt(p, from, j) : from \in 1..p.to, j \in 0..Len(txs)}
      \cup {OnTheWordOf(p, i) : i \in 1..Len(txs)}

\* What the settlement of batch k might have paid to the wrong domain.
Misdirected(k) ==
  LET legs == Legs(batches[k].tx)
  IN  {[legs EXCEPT ![d] = @ - 1, ![e] = @ + 1] : d \in {c \in Domains : legs[c] > 0}, e \in Domains}

OnlyTheTruthVerifies(k) ==
  LET p    == Published(k)
      legs == Legs(p.tx)
  IN  \A i \in DOMAIN p.receipts :
        LET Passes(q, paid_legs) == Verified(p.receipts[i], q, p.paths[i], paid_legs)
        IN  /\ Passes(p, legs)
            /\ \A forged \in Forgeries(p) :
                 Passes(forged, legs) => [forged EXCEPT !.previous = p.previous] = p
            /\ \A wrong \in Misdirected(k) \ {legs} : ~Passes(p, wrong)

\* When the settler is done with a batch, written at once or by recovery, each of its
\* receipts is verified against the transaction recorded with it, and nothing else is: no
\* other composition, cut or transaction, and no payment to another domain.  (Every batch
\* is the last one once, and what is published of it is immutable.)
PublishedIsVerifiable ==
  pc = "idle" /\ batches # << >> => OnlyTheTruthVerifies(Len(batches))
=============================================================================
