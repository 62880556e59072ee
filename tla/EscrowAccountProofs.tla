------------------------ MODULE EscrowAccountProofs ------------------------
(***************************************************************************)
(* What the program's instructions do to an account, for every fee, grace  *)
(* and kind of chain value: the facts every module that keeps an account   *)
(* needs.                                                                  *)
(***************************************************************************)
EXTENDS EscrowAccount, TLAPS

(***************************************************************************)
(* Rounding up: the quotient times MAX_BPS is at least the dividend and    *)
(* less than MAX_BPS above it.                                             *)
(***************************************************************************)
LEMMA CeilDivBounds ==
  ASSUME NEW x \in Nat
  PROVE  /\ CeilDiv(x, MAX_BPS) \in Nat
         /\ x <= CeilDiv(x, MAX_BPS) * MAX_BPS
         /\ CeilDiv(x, MAX_BPS) * MAX_BPS < x + MAX_BPS
  BY DEF CeilDiv, MAX_BPS

(***************************************************************************)
(* batch_fee, one batch: an accepted fee pays at least the rate on the     *)
(* tariffs and less than one unit per receipt more.                        *)
(***************************************************************************)
LEMMA FeeAcceptedBounds ==
  ASSUME NEW charged \in Nat, NEW tariffs \in Nat, NEW receipts \in Nat \ {0},
         FeeAccepted(charged, tariffs, receipts)
  PROVE  /\ charged - tariffs \in Nat
         /\ tariffs * FeeBps <= (charged - tariffs) * MAX_BPS
         /\ (charged - tariffs) * MAX_BPS <= tariffs * FeeBps + receipts * MAX_BPS
<1> DEFINE x == tariffs * FeeBps
           fee == charged - tariffs
           lowest == CeilDiv(x, MAX_BPS)
<1>1. FeeBps \in Nat /\ x \in Nat
  BY ConfigAssumption DEF MAX_BPS
<1>2. lowest \in Nat /\ x <= lowest * MAX_BPS /\ lowest * MAX_BPS < x + MAX_BPS
  BY <1>1, CeilDivBounds
<1>3. lowest <= fee /\ fee - lowest <= Slack(receipts)
  BY DEF FeeAccepted
<1>4. Slack(receipts) <= receipts - 1
  BY DEF Slack
<1>5. Slack(receipts) \in Int
  BY DEF Slack
<1>6. fee \in Nat /\ fee <= lowest + receipts - 1
  <2> HIDE DEF lowest
  <2> QED BY <1>2, <1>3, <1>4, <1>5
<1>7. QED
  <2> HIDE DEF lowest, x, fee
  <2>1. lowest * MAX_BPS <= fee * MAX_BPS
    BY <1>2, <1>3, <1>6 DEF MAX_BPS
  <2>2. fee * MAX_BPS <= lowest * MAX_BPS + receipts * MAX_BPS - MAX_BPS
    BY <1>2, <1>6 DEF MAX_BPS
  <2>3. x <= fee * MAX_BPS /\ fee * MAX_BPS <= x + receipts * MAX_BPS
    BY <1>1, <1>2, <1>6, <2>1, <2>2 DEF MAX_BPS
  <2> QED BY <1>6, <2>3 DEF x, fee

-----------------------------------------------------------------------------

\* A transfer into the vault.
LEMMA CreditedStep ==
  ASSUME NEW C, NEW a \in AccountType(C), NEW amount \in Nat
  PROVE  /\ Credited(a, amount) \in AccountType(C)
         /\ Credited(a, amount).vault = a.vault + amount
         /\ \A f \in {"settled_total", "last_seq", "last_chain", "withdraw_after"} :
              Credited(a, amount)[f] = a[f]
  BY DEF Credited, AccountType

\* deposit.
LEMMA DepositStep ==
  ASSUME NEW C, NEW a \in AccountType(C), NEW amount \in Nat
  PROVE  /\ AfterDeposit(a, amount) \in AccountType(C)
         /\ AfterDeposit(a, amount).vault = a.vault + amount
         /\ AfterDeposit(a, amount).withdraw_after = 0
         /\ \A f \in {"settled_total", "last_seq", "last_chain"} :
              AfterDeposit(a, amount)[f] = a[f]
<1> DEFINE b == Credited(a, amount)
<1>1. /\ b \in AccountType(C) /\ b.vault = a.vault + amount
      /\ b.settled_total = a.settled_total /\ b.last_seq = a.last_seq
      /\ b.last_chain = a.last_chain
  BY CreditedStep
<1>2. AfterDeposit(a, amount) = [b EXCEPT !.withdraw_after = 0]
  BY DEF AfterDeposit
<1>3. QED
  <2> HIDE DEF b
  <2> QED BY <1>1, <1>2 DEF AccountType

\* request_withdraw.
LEMMA RequestStep ==
  ASSUME NEW C, NEW a \in AccountType(C), NEW now \in Nat
  PROVE  /\ AfterRequest(a, now) \in AccountType(C)
         /\ AfterRequest(a, now).withdraw_after = now + Grace
         /\ \A f \in {"settled_total", "last_seq", "last_chain", "vault"} :
              AfterRequest(a, now)[f] = a[f]
  BY ConfigAssumption DEF AfterRequest, AccountType

\* withdraw.
LEMMA WithdrawStep ==
  ASSUME NEW C, NEW a \in AccountType(C)
  PROVE  /\ AfterWithdraw(a) \in AccountType(C)
         /\ AfterWithdraw(a).vault = 0
         /\ AfterWithdraw(a).withdraw_after = 0
         /\ \A f \in {"settled_total", "last_seq", "last_chain"} :
              AfterWithdraw(a)[f] = a[f]
  BY DEF AfterWithdraw, AccountType

\* settle_batch on the account alone: what the vault loses, the settled total gains.
LEMMA SettledAccount ==
  ASSUME NEW C, NEW a \in AccountType(C), NEW v, NEW tariffs,
         v.seq \in Nat, v.cumulative \in Nat, v.chain \in C,
         CanSettle(a, v, tariffs)
  PROVE  /\ AfterSettle(a, v) \in AccountType(C)
         /\ AfterSettle(a, v).settled_total = v.cumulative
         /\ AfterSettle(a, v).last_seq = v.seq
         /\ AfterSettle(a, v).last_chain = v.chain
         /\ AfterSettle(a, v).withdraw_after = a.withdraw_after
         /\ AfterSettle(a, v).vault = a.vault - Charged(a, v)
         /\ Charged(a, v) \in Nat /\ v.seq > a.last_seq /\ v.cumulative >= a.settled_total
<1>1. /\ a.last_seq \in Nat /\ a.settled_total \in Nat /\ a.vault \in Nat /\ a.withdraw_after \in Nat
      /\ v.seq > a.last_seq /\ v.cumulative >= a.settled_total
      /\ Charged(a, v) <= a.vault
  BY DEF AccountType, CanSettle
<1>2. Charged(a, v) \in Nat
  BY <1>1 DEF Charged
<1>3. a.vault - Charged(a, v) \in Nat
  BY <1>1, <1>2
<1>4. QED
  BY <1>1, <1>2, <1>3 DEF AfterSettle, AccountType

=============================================================================
