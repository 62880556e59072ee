--------------------------- MODULE EscrowAccount ---------------------------
(***************************************************************************)
(* The rules of the on-chain program for one agent's escrow: what an       *)
(* account holds and what each instruction makes of it.  There is no state *)
(* here: EscrowProgram, Gateway and Settler each keep an account in a      *)
(* variable and change it with these operators.                            *)
(*                                                                         *)
(* The vault's token balance travels with the account because every        *)
(* instruction that moves it also writes the escrow, in one transaction.   *)
(***************************************************************************)
EXTENDS Integers

CONSTANTS
  FeeBps,        \* Config.protocol_fee_bps, fixed by init_config
  NodeShareBps,  \* Config.node_share_bps
  Grace,         \* Config.voucher_grace_s, in ticks of the clock
  MaxU64,        \* the largest amount a u64 holds
  ZeroChain      \* the [0; 32] that open_escrow writes

MAX_BPS == 10000

\* init_config's range checks; its 60 s .. 7 days window is any positive number of ticks.
ASSUME ConfigAssumption ==
  /\ FeeBps \in 0..MAX_BPS
  /\ NodeShareBps \in 0..MAX_BPS
  /\ Grace \in Nat \ {0}
  /\ MaxU64 \in Nat \ {0}

CeilDiv(a, b) == (a + b - 1) \div b

\* The fee signed into one receipt: rounded up (FR-015a).
ReceiptFee(tariff) == CeilDiv(tariff * FeeBps, MAX_BPS)

(***************************************************************************)
(* batch_fee: whether the part of `charged` above the tariffs can be the   *)
(* sum of `receipts` fees, each rounded up on its own.                     *)
(***************************************************************************)
\* Mutant of Slack: one unit per receipt, a batch of one included.
SlackPerReceipt(receipts) == receipts

Slack(receipts) == IF FeeBps = 0 THEN 0 ELSE receipts - 1

FeeAccepted(charged, tariffs, receipts) ==
  LET fee    == charged - tariffs
      lowest == CeilDiv(tariffs * FeeBps, MAX_BPS)
  IN  /\ lowest <= fee
      /\ fee - lowest <= Slack(receipts)

-----------------------------------------------------------------------------

AccountType(chains) ==
  [settled_total  : Nat,
   last_seq       : Nat,
   last_chain     : chains,
   withdraw_after : Nat,
   vault          : Nat]

Opened == [settled_total  |-> 0,
           last_seq       |-> 0,
           last_chain     |-> ZeroChain,
           withdraw_after |-> 0,
           vault          |-> 0]

\* A token transfer into the vault.
Credited(a, amount) == [a EXCEPT !.vault = @ + amount]

\* Mutant of AfterDeposit: the request is left standing.
DepositKeepsRequest(a, amount) == Credited(a, amount)

\* A deposit cancels a withdrawal request.
AfterDeposit(a, amount) == [Credited(a, amount) EXCEPT !.withdraw_after = 0]

AfterRequest(a, now) == [a EXCEPT !.withdraw_after = now + Grace]

CanWithdraw(a, now) == a.withdraw_after # 0 /\ now >= a.withdraw_after

\* Mutant of AfterWithdraw: the escrow is closed and opened anew.
WithdrawForgetsPosition(a) == Opened

\* The whole vault leaves; the settled position stays.
AfterWithdraw(a) == [a EXCEPT !.vault = 0, !.withdraw_after = 0]

Charged(a, v) == v.cumulative - a.settled_total

\* Mutants of CanSettle: without batch_fee's verdict; without the vault's.
SettleAnyFee(a, v, tariffs) ==
  /\ v.seq > a.last_seq /\ v.cumulative >= a.settled_total
  /\ tariffs <= Charged(a, v) /\ Charged(a, v) <= a.vault

SettleUnfunded(a, v, tariffs) ==
  /\ v.seq > a.last_seq /\ v.cumulative >= a.settled_total
  /\ FeeAccepted(Charged(a, v), tariffs, v.seq - a.last_seq)

\* `tariffs` is the sum over the payout legs: how it is divided is the caller's matter.
CanSettle(a, v, tariffs) ==
  /\ v.seq > a.last_seq
  /\ v.cumulative >= a.settled_total
  /\ NodeShareBps = 0
  /\ tariffs <= MaxU64
  /\ FeeAccepted(Charged(a, v), tariffs, v.seq - a.last_seq)
  /\ Charged(a, v) <= a.vault

\* Mutant of AfterSettle: last_chain_hash is not written.
SettleKeepsChain(a, v) ==
  [a EXCEPT !.vault         = @ - Charged(a, v),
            !.settled_total = v.cumulative,
            !.last_seq      = v.seq]

AfterSettle(a, v) ==
  [settled_total  |-> v.cumulative,
   last_seq       |-> v.seq,
   last_chain     |-> v.chain,
   withdraw_after |-> a.withdraw_after,
   vault          |-> a.vault - Charged(a, v)]
=============================================================================
