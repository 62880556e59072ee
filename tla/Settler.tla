------------------------------ MODULE Settler ------------------------------
(***************************************************************************)
(* The settler for one agent: pass after pass it reads the escrow at       *)
(* `finalized`, recovers a settlement it did not record or composes the    *)
(* next batch, submits it, waits until it is finalized, and records it.    *)
(* It may fail or be restarted at any await, with its transaction still on *)
(* the way; the gateway accepts vouchers and the agent moves money         *)
(* meanwhile.                                                              *)
(*                                                                         *)
(* Gateway shows that the stored vouchers are one chained history, so here *)
(* they are a sequence: the index is the seq, and stands for the chain     *)
(* value and, as the end of a range, for the range's Merkle root.          *)
(***************************************************************************)
EXTENDS EscrowAccount, Sequences, FiniteSetsExt

CONSTANTS
  Domains,
  Tariffs,       \* tariffs a receipt may carry
  Amounts,       \* amounts the agent may deposit
  MinReceipts, MaxReceipts,   \* SETTLE_MIN_RECEIPTS, SETTLE_MAX_BATCH_SIZE
  MaxLegs,       \* payout legs that fit in a packet
  MaxSeq,        \* bound on receipts
  MaxVault,      \* bound on the vault
  MaxExits,      \* bound on withdrawals
  MaxFaults      \* bound on passes cut short and transactions that never land

Price(tariff) == tariff + ReceiptFee(tariff)

ASSUME SettlerAssumption ==
  /\ Tariffs \subseteq Nat /\ Amounts \subseteq Nat
  /\ MinReceipts \in Nat \ {0} /\ MaxReceipts \in Nat \ {0} /\ MaxLegs \in Nat \ {0}
  /\ MaxSeq \in Nat /\ MaxVault \in Nat /\ MaxExits \in Nat /\ MaxFaults \in Nat

\* A batch cut again with more receipts cannot be taken for fees: no tariff is below the
\* one unit per further receipt that batch_fee leaves for rounding.
AboveDust == \A t \in Tariffs : t >= MaxReceipts - 1

VARIABLES
  receipts,    \* the stored vouchers with their receipts, by seq
  account,     \* the escrow after every transaction that landed
  finalized,   \* the escrow at `finalized`
  paid,        \* what each domain's payout wallet has received
  txs,         \* the settle_batch transactions ever sent, oldest first
  batches,     \* the batches table of this agent, in seq order, each with its transaction
  exits,       \* withdrawals made
  pc,          \* where the settler is in its pass
  loaded,      \* the last seq loadPending returned
  batch,       \* the batch it works on
  mine,        \* the transaction it waits for or found, by its index
  faults

agentVars == <<receipts, exits>>
settlerVars == <<pc, loaded, batch, mine>>
vars == <<agentVars, account, finalized, paid, txs, batches, settlerVars, faults>>

NoBatch == [from |-> 0, to |-> 0]

Init ==
  /\ receipts = << >>
  /\ account = Opened /\ finalized = Opened
  /\ paid = [d \in Domains |-> 0]
  /\ txs = << >> /\ batches = << >> /\ exits = 0
  /\ pc = "idle" /\ loaded = 0 /\ batch = NoBatch /\ mine = 0
  /\ faults = 0

-----------------------------------------------------------------------------
(* The stored vouchers.                                                    *)

CumulativeTo(n) ==
  SumFunctionOnSet([i \in DOMAIN receipts |-> Price(receipts[i].tariff)], 1..n)

Voucher(n) == [seq |-> n, cumulative |-> CumulativeTo(n), chain |-> n]

DomainsOf(b) == {receipts[n].domain : n \in {i \in b.from..b.to : receipts[i].tariff > 0}}

\* legsOf: one leg per domain with a tariff to pay.
Leg(b, d) ==
  SumFunctionOnSet([n \in DOMAIN receipts |-> receipts[n].tariff],
                   {n \in b.from..b.to : receipts[n].domain = d})

TariffTotal(b) ==
  SumFunctionOnSet([n \in DOMAIN receipts |-> receipts[n].tariff], b.from..b.to)

\* buildSettleBatch: the last voucher of the batch, and a leg for each domain.
SettleBatch(b) ==
  [voucher |-> Voucher(b.to), total |-> TariffTotal(b), legs |-> [d \in Domains |-> Leg(b, d)]]

\* lastBatch: where the recorded history ends.
Recorded == IF batches = << >> THEN 0 ELSE batches[Len(batches)].to

-----------------------------------------------------------------------------
(* The gateway and the agent.                                              *)

Accept(domain, tariff) ==
  /\ Len(receipts) < MaxSeq
  /\ account.withdraw_after = 0
  /\ CumulativeTo(Len(receipts)) + Price(tariff) - account.settled_total <= account.vault
  /\ receipts' = Append(receipts, [domain |-> domain, tariff |-> tariff])
  /\ UNCHANGED <<exits, account, finalized, paid, txs, batches, settlerVars, faults>>

Deposit(amount) ==
  /\ account.vault + amount <= MaxVault
  /\ account' = AfterDeposit(account, amount)
  /\ UNCHANGED <<agentVars, finalized, paid, txs, batches, settlerVars, faults>>

RequestWithdraw ==
  /\ account.withdraw_after = 0
  /\ exits < MaxExits
  /\ account' = AfterRequest(account, 0)
  /\ UNCHANGED <<agentVars, finalized, paid, txs, batches, settlerVars, faults>>

\* Whether the settler was in time is a matter of clocks, which are not here: the grace
\* may end at any moment.
Withdraw ==
  /\ CanWithdraw(account, Grace)
  /\ exits < MaxExits
  /\ account' = AfterWithdraw(account)
  /\ exits' = exits + 1
  /\ UNCHANGED <<receipts, finalized, paid, txs, batches, settlerVars, faults>>

-----------------------------------------------------------------------------
(* The cluster.                                                            *)

\* A transaction executes: settle_batch, or its error.
Land(i) ==
  /\ txs[i].status = "sent"
  /\ LET ix == SettleBatch(txs[i])
     IN  IF CanSettle(account, ix.voucher, ix.total)
         THEN /\ account' = AfterSettle(account, ix.voucher)
              /\ paid' = [d \in Domains |-> paid[d] + ix.legs[d]]
              /\ txs' = [txs EXCEPT ![i].status = "landed"]
         ELSE /\ txs' = [txs EXCEPT ![i].status = "failed"]
              /\ UNCHANGED <<account, paid>>
  /\ UNCHANGED <<agentVars, finalized, batches, settlerVars, faults>>

\* Everything that landed so far becomes final.
Finalize ==
  /\ \/ finalized # account
     \/ \E i \in 1..Len(txs) : txs[i].status \in {"landed", "failed"} /\ ~txs[i].final
  /\ finalized' = account
  /\ txs' = [i \in 1..Len(txs) |->
               [txs[i] EXCEPT !.final = @ \/ txs[i].status \in {"landed", "failed"}]]
  /\ UNCHANGED <<agentVars, account, paid, batches, settlerVars, faults>>

\* Its blockhash grows too old before any leader takes it.
Expire(i) ==
  /\ txs[i].status = "sent"
  /\ faults < MaxFaults
  /\ txs' = [txs EXCEPT ![i].status = "expired"]
  /\ faults' = faults + 1
  /\ UNCHANGED <<agentVars, account, finalized, paid, batches, settlerVars>>

-----------------------------------------------------------------------------
(* A pass of the settler.                                                  *)

GoTo(place) == pc' = place /\ UNCHANGED <<loaded, batch, mine>>

EndPass == pc' = "idle" /\ loaded' = 0 /\ batch' = NoBatch /\ mine' = 0

\* settleAll: loadPending, once per pass.
Tick ==
  /\ pc = "idle"
  /\ Len(receipts) > Recorded
  /\ pc' = "looking"
  /\ loaded' = Len(receipts)
  /\ UNCHANGED <<batch, mine, agentVars, account, finalized, paid, txs, batches, faults>>

Rest == [from |-> Recorded + 1, to |-> loaded]

\* Mutant of Recover: a chain ahead of the batches is an error like one behind them.
RecoverGivesUp ==
  /\ pc = "looking" /\ finalized.last_seq > Recorded
  /\ EndPass
  /\ UNCHANGED <<agentVars, account, finalized, paid, txs, batches, faults>>

\* findSettlement: the finalized transactions that took the escrow to a seq.
Settlements(seq) ==
  {i \in 1..Len(txs) : txs[i].status = "landed" /\ txs[i].final /\ txs[i].to = seq}

\* settleAgent sees that the chain is ahead of the batches, and finds the transaction
\* that took it there: what it anchored must be what the vouchers give.
Recover ==
  /\ pc = "looking" /\ finalized.last_seq > Recorded
  /\ LET covered == [Rest EXCEPT !.to = finalized.last_seq]
         found   == Settlements(finalized.last_seq)
     IN  IF \E i \in found : txs[i].from = covered.from /\ covered.to <= loaded
         THEN /\ pc' = "recording"
              /\ batch' = covered
              /\ mine' = CHOOSE i \in found : txs[i].from = covered.from
              /\ UNCHANGED loaded
         ELSE EndPass
  /\ UNCHANGED <<agentVars, account, finalized, paid, txs, batches, faults>>

Overdue == loaded - Recorded >= MinReceipts \/ finalized.withdraw_after # 0

\* The pass ends with nothing to do: isDue is false, with too few receipts and none of
\* them old; or escrow.lastSeq < recordedSeq throws.
Skip ==
  /\ pc = "looking" /\ finalized.last_seq <= Recorded
  /\ finalized.last_seq = Recorded => ~Overdue
  /\ EndPass
  /\ UNCHANGED <<agentVars, account, finalized, paid, txs, batches, faults>>

Fits(b) ==
  /\ b.to - b.from < MaxReceipts
  /\ Cardinality(DomainsOf(b)) <= MaxLegs

\* composeBatch: the longest prefix one transaction can settle.  Receipts grow old, so
\* isDue may be true of any number.
Compose ==
  /\ pc = "looking" /\ finalized.last_seq = Recorded
  /\ LET cuts == {n \in Rest.from..Rest.to : Fits([Rest EXCEPT !.to = n])}
     IN  batch' = [Rest EXCEPT !.to = Max(cuts)]
  /\ pc' = "composed"
  /\ UNCHANGED <<loaded, mine, agentVars, account, finalized, paid, txs, batches, faults>>

\* submit, with its preflight against the finalized state.
Submit ==
  /\ pc = "composed"
  /\ IF CanSettle(finalized, SettleBatch(batch).voucher, SettleBatch(batch).total)
     THEN /\ txs' = Append(txs, [from |-> batch.from, to |-> batch.to,
                                 status |-> "sent", final |-> FALSE])
          /\ mine' = Len(txs) + 1
          /\ pc' = "awaiting"
          /\ UNCHANGED <<loaded, batch>>
     ELSE /\ EndPass
          /\ UNCHANGED txs
  /\ UNCHANGED <<agentVars, account, finalized, paid, batches, faults>>

\* Mutant of Await: waits for `confirmed` instead of `finalized`.
AwaitConfirmed ==
  /\ pc = "awaiting"
  /\ \/ txs[mine].status = "landed" /\ GoTo("recording")
     \/ txs[mine].status = "failed" /\ EndPass
     \/ txs[mine].status = "expired" /\ EndPass
  /\ UNCHANGED <<agentVars, account, finalized, paid, txs, batches, faults>>

\* awaitSignature: landed and failed count once finalized, expired at once.
Await ==
  /\ pc = "awaiting"
  /\ \/ txs[mine].status = "landed" /\ txs[mine].final /\ GoTo("recording")
     \/ txs[mine].status = "failed" /\ txs[mine].final /\ EndPass
     \/ txs[mine].status = "expired" /\ EndPass
  /\ UNCHANGED <<agentVars, account, finalized, paid, txs, batches, faults>>

\* Mutant of Record: the batch row is written to the end of what was loaded.
RecordLoaded ==
  /\ pc = "recording"
  /\ batches' = Append(batches, [from |-> batch.from, to |-> loaded, tx |-> mine])
  /\ EndPass
  /\ UNCHANGED <<agentVars, account, finalized, paid, txs, faults>>

\* recordBatch; the pass goes on while it has vouchers left.
Record ==
  /\ pc = "recording"
  /\ batches' = Append(batches, [from |-> batch.from, to |-> batch.to, tx |-> mine])
  /\ IF batch.to < loaded
     THEN pc' = "looking" /\ batch' = NoBatch /\ mine' = 0 /\ UNCHANGED loaded
     ELSE EndPass
  /\ UNCHANGED <<agentVars, account, finalized, paid, txs, faults>>

\* An RPC or database error, or a crash and restart, at any await.
Fault ==
  /\ pc # "idle"
  /\ faults < MaxFaults
  /\ faults' = faults + 1
  /\ EndPass
  /\ UNCHANGED <<agentVars, account, finalized, paid, txs, batches>>

SettlerStep == Tick \/ Recover \/ Skip \/ Compose \/ Submit \/ Await \/ Record

Next ==
  \/ \E domain \in Domains, tariff \in Tariffs : Accept(domain, tariff)
  \/ \E amount \in Amounts : Deposit(amount)
  \/ RequestWithdraw
  \/ Withdraw
  \/ \E i \in 1..Len(txs) : Land(i)
  \/ Finalize
  \/ \E i \in 1..Len(txs) : Expire(i)
  \/ SettlerStep
  \/ Fault

Spec == Init /\ [][Next]_vars

\* The timer starts pass after pass and nothing in a pass waits for ever: awaitSignature
\* ends because a transaction lands and is finalized, or expires.  A receipt left over as
\* not due turns maxAge old, after which every pass composes.
Fairness ==
  /\ WF_vars(SettlerStep)
  /\ SF_vars(Compose)
  /\ WF_vars(\E i \in 1..Len(txs) : Land(i))
  /\ WF_vars(Finalize)

FairSpec == Spec /\ Fairness

-----------------------------------------------------------------------------

Receipt == [domain : Domains, tariff : Tariffs]

Range2 == [from : 0..MaxSeq, to : 0..MaxSeq]

\* A row of batches, with its checks: a range that is ordered and starts at 1 or later.
BatchRow == {row \in [from : 1..MaxSeq, to : 1..MaxSeq, tx : 1..Len(txs)] : row.to >= row.from}

TypeOK ==
  /\ receipts \in Seq(Receipt)
  /\ account \in AccountType(Nat \cup {ZeroChain})
  /\ finalized \in AccountType(Nat \cup {ZeroChain})
  /\ paid \in [Domains -> Nat]
  /\ txs \in Seq([from : 1..MaxSeq, to : 1..MaxSeq, final : BOOLEAN,
                  status : {"sent", "landed", "failed", "expired"}])
  /\ batches \in Seq(BatchRow)
  /\ \A i, j \in DOMAIN batches : batches[i].to = batches[j].to => i = j
  /\ exits \in 0..MaxExits /\ faults \in 0..MaxFaults
  /\ pc \in {"idle", "looking", "composed", "awaiting", "recording"}
  /\ loaded \in 0..Len(receipts)
  /\ batch \in Range2
  /\ mine \in 0..Len(txs)

\* However often the settler fails with a transaction on the way and submits again, each
\* domain has received exactly the tariffs of its receipts up to the settled position.
PayoutsEqualPayments ==
  \A d \in Domains : paid[d] = Leg([from |-> 1, to |-> account.last_seq], d)

\* The public record is the settled history cut without gap or overlap, and each batch is
\* what the finalized transaction it names anchored: what is published as immutable is.
BatchesAreAnchored ==
  \A k \in 1..Len(batches) :
    /\ batches[k].from = IF k = 1 THEN 1 ELSE batches[k - 1].to + 1
    /\ LET anchor == txs[batches[k].tx]
       IN  /\ anchor.status = "landed" /\ anchor.final
           /\ anchor.from = batches[k].from /\ anchor.to = batches[k].to

\* Recovery never meets what it cannot handle: at most one settlement is unrecorded, and
\* it covers exactly the vouchers that follow the recorded ones.
Recoverable ==
  LET unrecorded == {i \in 1..Len(txs) : txs[i].status = "landed" /\ txs[i].to > Recorded}
  IN  /\ finalized.last_seq >= Recorded
      /\ Cardinality(unrecorded) <= 1
      /\ \A i \in unrecorded : txs[i].from = Recorded + 1

\* Every accepted receipt is paid for and published in the end, through any finite number
\* of failures, unless the agent has left with the money.
EveryReceiptPublished ==
  \A n \in 1..MaxSeq : Len(receipts) >= n ~> Recorded >= n \/ exits > 0

\* Seen from outside this is the ledger that the product promises.
Ledger == INSTANCE ReceiptLedger
  WITH accepted <- receipts, settled <- account.last_seq, published <- Recorded

ImplementsLedger == Ledger!LedgerSpec
=============================================================================
