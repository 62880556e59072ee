------------------------ MODULE EscrowProgramProofs ------------------------
(***************************************************************************)
(* What the program guarantees for every fee, grace, set of vouchers and   *)
(* ring length, against any agent and any operator.                        *)
(***************************************************************************)
EXTENDS EscrowProgram, EscrowAccountProofs

\* Facts about the constants that every step uses.
LEMMA Constants ==
  /\ FeeBps \in 0..MAX_BPS /\ Grace \in Nat \ {0} /\ RingLen \in Nat \ {0}
  /\ Vouchers \subseteq [seq : Nat \ {0}, cumulative : Nat, chain : Chains]
  /\ Amounts \subseteq Nat /\ Tariffs \subseteq Nat /\ Supply \in Nat
  /\ NoAccount \notin Account
  BY ConfigAssumption, ProgramAssumption

\* What a settlement does to an account, without the arithmetic of batch_fee.
LEMMA SettleStep ==
  ASSUME account \in Account, NEW v \in Vouchers, NEW tariffs \in Tariffs,
         CanSettle(account, v, tariffs)
  PROVE  /\ AfterSettle(account, v) \in Account
         /\ AfterSettle(account, v).vault = account.vault - Charged(account, v)
         /\ AfterSettle(account, v).settled_total = v.cumulative
         /\ AfterSettle(account, v).last_seq = v.seq
         /\ AfterSettle(account, v).last_chain = v.chain
         /\ AfterSettle(account, v).withdraw_after = account.withdraw_after
         /\ v \in [seq : Nat \ {0}, cumulative : Nat, chain : Chains]
         /\ v.seq > account.last_seq /\ v.cumulative >= account.settled_total
         /\ Charged(account, v) \in Nat
         /\ Charged(account, v) - tariffs \in Nat
         /\ tariffs * FeeBps <= (Charged(account, v) - tariffs) * MAX_BPS
         /\ (Charged(account, v) - tariffs) * MAX_BPS
              <= tariffs * FeeBps + (v.seq - account.last_seq) * MAX_BPS
<1>1. v \in [seq : Nat \ {0}, cumulative : Nat, chain : Chains] /\ tariffs \in Nat
  BY Constants
<1>2. /\ AfterSettle(account, v) \in Account
      /\ AfterSettle(account, v).vault = account.vault - Charged(account, v)
      /\ AfterSettle(account, v).settled_total = v.cumulative
      /\ AfterSettle(account, v).last_seq = v.seq
      /\ AfterSettle(account, v).last_chain = v.chain
      /\ AfterSettle(account, v).withdraw_after = account.withdraw_after
      /\ Charged(account, v) \in Nat
      /\ v.seq > account.last_seq /\ v.cumulative >= account.settled_total
  BY <1>1, SettledAccount DEF Account
<1>3. v.seq - account.last_seq \in Nat \ {0}
  BY <1>1, <1>2 DEF Account, AccountType
<1>4. FeeAccepted(Charged(account, v), tariffs, v.seq - account.last_seq)
  BY DEF CanSettle
<1>5. /\ Charged(account, v) - tariffs \in Nat
      /\ tariffs * FeeBps <= (Charged(account, v) - tariffs) * MAX_BPS
      /\ (Charged(account, v) - tariffs) * MAX_BPS
           <= tariffs * FeeBps + (v.seq - account.last_seq) * MAX_BPS
  BY <1>1, <1>2, <1>3, <1>4, FeeAcceptedBounds
<1>6. QED
  BY <1>1, <1>2, <1>5

-----------------------------------------------------------------------------

(***************************************************************************)
(* Every variable keeps its type: the ring's head in particular stays      *)
(* inside the array.                                                       *)
(***************************************************************************)
THEOREM TypeCorrect == Spec => []TypeOK
<1>1. Init => TypeOK
  BY Constants DEF Init, TypeOK, EmptyRing, NoEntry
<1>2. TypeOK /\ [Next]_vars => TypeOK'
  <2> SUFFICES ASSUME TypeOK, [Next]_vars PROVE TypeOK'
    OBVIOUS
  <2> USE Constants DEF TypeOK
  <2>1. CASE OpenEscrow
    BY <2>1 DEF OpenEscrow, Opened, Account, AccountType, balances
  <2>2. ASSUME NEW amount \in Amounts, Deposit(amount)
        PROVE  TypeOK'
    <3>1. account' \in Account
      BY <2>2, DepositStep DEF Deposit, IsOpen, Account
    <3> QED BY <2>2, <3>1 DEF Deposit
  <2>3. ASSUME NEW amount \in Amounts, Gift(amount)
        PROVE  TypeOK'
    <3>1. account' \in Account
      BY <2>3, CreditedStep DEF Gift, IsOpen, Account
    <3> QED BY <2>3, <3>1 DEF Gift
  <2>4. CASE RequestWithdraw
    BY <2>4, RequestStep DEF RequestWithdraw, IsOpen, balances, Account
  <2>5. CASE Withdraw
    <3>1. account \in Account /\ account.vault \in Nat
      BY <2>5 DEF Withdraw, IsOpen, Account, AccountType
    <3> QED BY <2>5, <3>1, WithdrawStep DEF Withdraw, Account
  <2>6. ASSUME NEW v \in Vouchers, Sign(v)
        PROVE  TypeOK'
    BY <2>6 DEF Sign, balances
  <2>7. ASSUME NEW v \in Vouchers, NEW tariffs \in Tariffs, NEW root \in Roots,
               SettleBatch(v, tariffs, root)
        PROVE  TypeOK'
    <3> DEFINE entry == [seq_end |-> v.seq, ts |-> clock, root |-> root, chain |-> v.chain]
    <3>1. account \in Account /\ CanSettle(account, v, tariffs)
      BY <2>7 DEF SettleBatch, IsOpen
    <3>2. /\ AfterSettle(account, v) \in Account
          /\ Charged(account, v) - tariffs \in Nat
          /\ v \in [seq : Nat \ {0}, cumulative : Nat, chain : Chains]
      BY <3>1, SettleStep
    <3>3. entry \in Entry
      BY <3>2 DEF Entry
    <3>4. account' \in Account /\ wallet' \in Nat /\ paid' \in Nat /\ treasury' \in Nat
      BY <2>7, <3>2 DEF SettleBatch
    <3>5. settlements' \in Seq(Entry)
      BY <2>7, <3>3 DEF SettleBatch
    <3>6. (ring.head + 1) % RingLen \in 0..RingLen - 1
      OBVIOUS
    <3>7. ring' \in [head : 0..RingLen - 1, entries : [0..RingLen - 1 -> Entry \cup {NoEntry}]]
      <4> HIDE DEF entry
      <4>1. ring' = Push(ring, entry)
        BY <2>7 DEF SettleBatch, entry
      <4> QED BY <4>1, <3>3, <3>6 DEF Push
    <3> QED BY <2>7, <3>4, <3>5, <3>7 DEF SettleBatch
  <2>8. CASE Tick
    BY <2>8 DEF Tick, balances
  <2>9. CASE UNCHANGED vars
    BY <2>9 DEF vars, balances
  <2>10. QED
    BY <2>1, <2>2, <2>3, <2>4, <2>5, <2>6, <2>7, <2>8, <2>9 DEF Next
<1>3. QED
  BY <1>1, <1>2, PTL DEF Spec

-----------------------------------------------------------------------------

(***************************************************************************)
(* The two invariants about what settlements charged share one proof: an   *)
(* instruction other than settle_batch leaves the settled position and     *)
(* both payees alone, and Sign only adds vouchers.                         *)
(***************************************************************************)
LEMMA OnlySettleCharges ==
  ASSUME TypeOK, [Next]_vars, IsOpen,
         ~ \E v \in Vouchers, tariffs \in Tariffs, root \in Roots : SettleBatch(v, tariffs, root)
  PROVE  /\ IsOpen' /\ account \in Account /\ account' \in Account
         /\ account'.settled_total = account.settled_total
         /\ account'.last_seq = account.last_seq
         /\ account'.last_chain = account.last_chain
         /\ paid' = paid /\ treasury' = treasury
         /\ signed \subseteq signed'
<1> USE Constants DEF TypeOK, IsOpen
<1>1. account \in Account
  OBVIOUS
<1>2. ~OpenEscrow
  BY DEF OpenEscrow
<1>3. ASSUME NEW amount \in Amounts, Deposit(amount)
      PROVE  account' = AfterDeposit(account, amount) /\ UNCHANGED <<paid, treasury, signed>>
  BY <1>3 DEF Deposit
<1>4. ASSUME NEW amount \in Amounts, Gift(amount)
      PROVE  account' = Credited(account, amount) /\ UNCHANGED <<paid, treasury, signed>>
  BY <1>4 DEF Gift
<1>5. CASE \E amount \in Amounts : Deposit(amount)
  <2>1. PICK amount \in Amounts : Deposit(amount)
    BY <1>5
  <2>2. amount \in Nat
    OBVIOUS
  <2>3. account' = AfterDeposit(account, amount) /\ UNCHANGED <<paid, treasury, signed>>
    BY <1>3, <2>1
  <2>4. /\ account' \in Account
        /\ account'.settled_total = account.settled_total
        /\ account'.last_seq = account.last_seq
        /\ account'.last_chain = account.last_chain
    BY <1>1, <2>2, <2>3, DepositStep DEF Account
  <2> QED BY <1>1, <2>3, <2>4
<1>6. CASE \E amount \in Amounts : Gift(amount)
  <2>1. PICK amount \in Amounts : Gift(amount)
    BY <1>6
  <2>2. amount \in Nat
    OBVIOUS
  <2>3. account' = Credited(account, amount) /\ UNCHANGED <<paid, treasury, signed>>
    BY <1>4, <2>1
  <2>4. /\ account' \in Account
        /\ account'.settled_total = account.settled_total
        /\ account'.last_seq = account.last_seq
        /\ account'.last_chain = account.last_chain
    BY <1>1, <2>2, <2>3, CreditedStep DEF Account
  <2> QED BY <1>1, <2>3, <2>4
<1>7. CASE RequestWithdraw
  <2>1. clock \in Nat /\ account' = AfterRequest(account, clock)
        /\ UNCHANGED <<paid, treasury, signed>>
    BY <1>7 DEF RequestWithdraw, balances
  <2>2. /\ account' \in Account
        /\ account'.settled_total = account.settled_total
        /\ account'.last_seq = account.last_seq
        /\ account'.last_chain = account.last_chain
    BY <1>1, <2>1, RequestStep DEF Account
  <2> QED BY <1>1, <2>1, <2>2
<1>8. CASE Withdraw
  BY <1>1, <1>8, WithdrawStep DEF Withdraw, Account
<1>9. CASE Tick \/ UNCHANGED vars \/ \E v \in Vouchers : Sign(v)
  BY <1>1, <1>9 DEF Tick, Sign, vars, balances
<1>10. QED
  BY <1>2, <1>5, <1>6, <1>7, <1>8, <1>9 DEF Next

(***************************************************************************)
(* The inductive form: both invariants are about an open account, and hold *)
(* of a fresh one because nothing was ever paid before it.                 *)
(***************************************************************************)
ChargesInv ==
  /\ ~IsOpen => paid = 0 /\ treasury = 0
  /\ NeverBeyondSigned
  /\ FeeWithinTerms

\* Every instruction keeps ChargesInv.
LEMMA ChargesInductive == TypeOK /\ ChargesInv /\ [Next]_vars => ChargesInv'
<1> SUFFICES ASSUME TypeOK, ChargesInv, [Next]_vars PROVE ChargesInv'
  OBVIOUS
<1>1. CASE ~IsOpen
  <2>1. \/ OpenEscrow
        \/ UNCHANGED <<account, paid, treasury>>
    BY <1>1 DEF Next, Deposit, Gift, RequestWithdraw, Withdraw, Sign, SettleBatch, Tick,
                vars, balances, IsOpen
  <2>2. paid' = 0 /\ treasury' = 0
    BY <1>1, <2>1 DEF ChargesInv, OpenEscrow, balances
  <2>3. CASE OpenEscrow
    BY <2>2, <2>3, Constants
       DEF ChargesInv, NeverBeyondSigned, FeeWithinTerms, OpenEscrow, Opened, MAX_BPS
  <2>4. CASE UNCHANGED <<account, paid, treasury>>
    BY <1>1, <2>2, <2>4 DEF ChargesInv, NeverBeyondSigned, FeeWithinTerms, IsOpen
  <2> QED BY <2>1, <2>3, <2>4
<1>2. ASSUME NEW v \in Vouchers, NEW tariffs \in Tariffs, NEW root \in Roots,
             SettleBatch(v, tariffs, root)
      PROVE  ChargesInv'
  <2> DEFINE c == Charged(account, v)
             n == v.seq - account.last_seq
             fee == c - tariffs
  <2>1. IsOpen /\ account \in Account /\ v \in signed /\ signed' = signed
    BY <1>2 DEF SettleBatch, TypeOK, IsOpen
  <2>2. /\ account' = AfterSettle(account, v)
        /\ paid' = paid + tariffs /\ treasury' = treasury + fee
    BY <1>2 DEF SettleBatch
  <2>3. /\ account' \in Account
        /\ account'.settled_total = v.cumulative
        /\ account'.last_seq = v.seq
        /\ account'.last_chain = v.chain
        /\ v.seq \in Nat /\ v.cumulative \in Nat
        /\ v.seq > account.last_seq
        /\ c \in Nat /\ fee \in Nat
        /\ tariffs * FeeBps <= fee * MAX_BPS
        /\ fee * MAX_BPS <= tariffs * FeeBps + n * MAX_BPS
    BY <1>2, <2>1, <2>2, SettleStep DEF SettleBatch
  <2>4. /\ account.settled_total \in Nat /\ account.last_seq \in Nat
        /\ paid \in Nat /\ treasury \in Nat /\ tariffs \in Nat /\ FeeBps \in Nat
    BY <2>1, Constants DEF Account, AccountType, TypeOK
  <2>5. NeverBeyondSigned'
    <3>1. account.settled_total = paid + treasury
      BY <2>1 DEF ChargesInv, NeverBeyondSigned
    <3>2. v.cumulative = account.settled_total + c
      BY <2>3, <2>4 DEF Charged
    <3>3. account'.settled_total = paid' + treasury'
      <4> HIDE DEF c
      <4> QED BY <2>2, <2>3, <2>4, <3>1, <3>2
    <3> QED BY <2>1, <2>3, <3>3 DEF NeverBeyondSigned
  <2>6. FeeWithinTerms'
    <3>1. /\ paid * FeeBps <= treasury * MAX_BPS
          /\ treasury * MAX_BPS <= paid * FeeBps + account.last_seq * MAX_BPS
      BY <2>1 DEF ChargesInv, FeeWithinTerms
    <3>2. (paid + tariffs) * FeeBps = paid * FeeBps + tariffs * FeeBps
      BY <2>4
    <3>3. /\ paid * FeeBps \in Nat /\ tariffs * FeeBps \in Nat
      BY <2>4
    <3> HIDE DEF fee, c
    <3>4. (treasury + fee) * MAX_BPS = treasury * MAX_BPS + fee * MAX_BPS
      BY <2>3, <2>4 DEF MAX_BPS
    <3>5. v.seq * MAX_BPS = account.last_seq * MAX_BPS + n * MAX_BPS
      BY <2>3, <2>4 DEF MAX_BPS
    <3>6. (paid + tariffs) * FeeBps <= (treasury + fee) * MAX_BPS
      BY <2>3, <2>4, <3>1, <3>2, <3>3, <3>4 DEF MAX_BPS
    <3>7. (treasury + fee) * MAX_BPS <= (paid + tariffs) * FeeBps + v.seq * MAX_BPS
      BY <2>3, <2>4, <3>1, <3>2, <3>3, <3>4, <3>5 DEF MAX_BPS
    <3> QED BY <2>2, <2>3, <3>6, <3>7 DEF FeeWithinTerms
  <2>7. account' # NoAccount
    BY <2>3, Constants
  <2> QED BY <2>5, <2>6, <2>7 DEF ChargesInv, IsOpen
<1>3. CASE /\ IsOpen
           /\ ~ \E v \in Vouchers, tariffs \in Tariffs, root \in Roots :
                  SettleBatch(v, tariffs, root)
  BY <1>3, OnlySettleCharges DEF ChargesInv, NeverBeyondSigned, FeeWithinTerms
<1>4. QED
  BY <1>1, <1>2, <1>3

\* ChargesInv holds in every reachable state.
LEMMA ChargesInvariant == Spec => []ChargesInv
<1>1. Init => ChargesInv
  BY DEF Init, ChargesInv, NeverBeyondSigned, FeeWithinTerms, IsOpen
<1>2. QED
  BY <1>1, ChargesInductive, TypeCorrect, PTL DEF Spec

(***************************************************************************)
(* The amount debited over the account's whole life is the cumulative of   *)
(* one voucher the agent signed, whatever the operator submits.            *)
(***************************************************************************)
THEOREM DebitsAreSigned == Spec => []NeverBeyondSigned
<1>1. ChargesInv => NeverBeyondSigned
  BY DEF ChargesInv
<1>2. QED
  BY <1>1, ChargesInvariant, PTL

(***************************************************************************)
(* The treasury's total stays within the declared fee, up to one unit per  *)
(* receipt, whatever batches the receipts were settled in.                 *)
(***************************************************************************)
THEOREM FeesWithinTerms == Spec => []FeeWithinTerms
<1>1. ChargesInv => FeeWithinTerms
  BY DEF ChargesInv
<1>2. QED
  BY <1>1, ChargesInvariant, PTL

(***************************************************************************)
(* The settled position never moves back and a charge consumes a seq.      *)
(***************************************************************************)
THEOREM PositionAdvances == Spec => PositionOnlyAdvances
<1> DEFINE Step == IsOpen => /\ IsOpen'
                             /\ account'.last_seq >= account.last_seq
                             /\ account'.settled_total >= account.settled_total
                             /\ account'.settled_total # account.settled_total
                                  => account'.last_seq > account.last_seq
<1>1. TypeOK /\ [Next]_vars => Step
  <2> SUFFICES ASSUME TypeOK, [Next]_vars, IsOpen PROVE Step
    OBVIOUS
  <2>1. account \in Account /\ account.last_seq \in Nat /\ account.settled_total \in Nat
    BY DEF TypeOK, IsOpen, Account, AccountType
  <2>2. ASSUME NEW v \in Vouchers, NEW tariffs \in Tariffs, NEW root \in Roots,
               SettleBatch(v, tariffs, root)
        PROVE  Step
    <3>1. /\ account' \in Account /\ account'.settled_total = v.cumulative
          /\ account'.last_seq = v.seq /\ v.seq \in Nat /\ v.cumulative \in Nat
          /\ v.seq > account.last_seq /\ v.cumulative >= account.settled_total
      BY <2>1, <2>2, SettleStep DEF SettleBatch
    <3> QED BY <2>1, <3>1, Constants DEF IsOpen
  <2>3. CASE ~ \E v \in Vouchers, tariffs \in Tariffs, root \in Roots :
                 SettleBatch(v, tariffs, root)
    BY <2>1, <2>3, OnlySettleCharges
  <2> QED BY <2>2, <2>3
<1>2. QED
  BY <1>1, TypeCorrect, PTL DEF Spec, PositionOnlyAdvances

-----------------------------------------------------------------------------

\* withdraw_after is always the standing request plus Grace, or zero when none stands.
RequestInv ==
  IF IsOpen THEN account.withdraw_after = IF standing = -1 THEN 0 ELSE standing + Grace
            ELSE standing = -1

(***************************************************************************)
(* The vault pays the agent back only a full Grace after a request that    *)
(* nothing has cancelled or used since.                                    *)
(***************************************************************************)
THEOREM ExitsHonourGrace == Spec => ExitHonoursGrace
<1> DEFINE Exit == (/\ IsOpen
                    /\ account'.vault < account.vault
                    /\ account'.last_seq = account.last_seq)
                   => standing # -1 /\ clock >= standing + Grace
<1>1. Init => RequestInv
  BY DEF Init, RequestInv, IsOpen
<1>2. TypeOK /\ RequestInv /\ [Next]_vars => RequestInv' /\ Exit
  <2> SUFFICES ASSUME TypeOK, RequestInv, [Next]_vars PROVE RequestInv' /\ Exit
    OBVIOUS
  <2>0. /\ NoAccount \notin Account /\ Grace \in Nat \ {0}
        /\ clock \in Nat /\ standing \in Nat \cup {-1}
        /\ IsOpen => account \in Account /\ account.vault \in Nat
    BY Constants DEF TypeOK, IsOpen, Account, AccountType
  <2>1. CASE OpenEscrow
    BY <2>0, <2>1 DEF OpenEscrow, Opened, Account, AccountType, RequestInv, IsOpen
  <2>2. ASSUME NEW amount \in Amounts, Deposit(amount)
        PROVE  RequestInv' /\ Exit
    <3>1. amount \in Nat /\ IsOpen /\ standing' = -1 /\ account' = AfterDeposit(account, amount)
      BY <2>2, Constants DEF Deposit
    <3>2. /\ account' \in Account /\ account'.vault = account.vault + amount
          /\ account'.withdraw_after = 0
      BY <2>0, <3>1, DepositStep DEF Account
    <3> QED BY <2>0, <3>1, <3>2 DEF RequestInv, IsOpen
  <2>3. ASSUME NEW amount \in Amounts, Gift(amount)
        PROVE  RequestInv' /\ Exit
    <3>1. amount \in Nat /\ IsOpen /\ standing' = standing /\ account' = Credited(account, amount)
      BY <2>3, Constants DEF Gift
    <3>2. /\ account' \in Account /\ account'.vault = account.vault + amount
          /\ account'.withdraw_after = account.withdraw_after
      BY <2>0, <3>1, CreditedStep DEF Account
    <3> QED BY <2>0, <3>1, <3>2 DEF RequestInv, IsOpen
  <2>4. CASE RequestWithdraw
    <3>1. IsOpen /\ standing' = clock /\ account' = AfterRequest(account, clock)
      BY <2>4 DEF RequestWithdraw
    <3>2. /\ account' \in Account /\ account'.vault = account.vault
          /\ account'.withdraw_after = clock + Grace
      BY <2>0, <3>1, RequestStep DEF Account
    <3> QED BY <2>0, <3>1, <3>2 DEF RequestInv, IsOpen
  <2>5. CASE Withdraw
    <3>1. /\ IsOpen /\ CanWithdraw(account, clock) /\ standing' = -1
          /\ account' = AfterWithdraw(account)
      BY <2>5 DEF Withdraw
    <3>2. account' \in Account /\ account'.vault = 0 /\ account'.withdraw_after = 0
      BY <2>0, <3>1, WithdrawStep DEF Account
    <3>3. standing # -1 /\ clock >= standing + Grace
      BY <2>0, <3>1 DEF RequestInv, CanWithdraw
    <3> QED BY <2>0, <3>1, <3>2, <3>3 DEF RequestInv, IsOpen
  <2>6. ASSUME NEW v \in Vouchers, NEW tariffs \in Tariffs, NEW root \in Roots,
               SettleBatch(v, tariffs, root)
        PROVE  RequestInv' /\ Exit
    <3>1. /\ IsOpen /\ CanSettle(account, v, tariffs) /\ standing' = standing
          /\ account' = AfterSettle(account, v)
      BY <2>6 DEF SettleBatch
    <3>2. /\ account' \in Account /\ account'.last_seq = v.seq
          /\ v.seq \in Nat /\ v.seq > account.last_seq
          /\ account'.withdraw_after = account.withdraw_after
      BY <2>0, <3>1, SettleStep
    <3>3. account'.last_seq # account.last_seq
      BY <2>0, <3>1, <3>2 DEF Account, AccountType
    <3> QED BY <2>0, <3>1, <3>2, <3>3 DEF RequestInv, IsOpen
  <2>7. CASE Tick \/ UNCHANGED vars \/ \E v \in Vouchers : Sign(v)
    <3>1. account' = account /\ standing' = standing
      BY <2>7 DEF Tick, Sign, vars
    <3> QED BY <2>0, <3>1 DEF RequestInv, IsOpen
  <2>8. QED
    BY <2>1, <2>2, <2>3, <2>4, <2>5, <2>6, <2>7 DEF Next
<1>3. QED
  BY <1>1, <1>2, TypeCorrect, PTL DEF Spec, ExitHonoursGrace
-----------------------------------------------------------------------------

\* The remainder of a number below twice the divisor.
LEMMA ModOnce ==
  ASSUME NEW n \in Nat \ {0}, NEW x \in 0..2 * n - 1
  PROVE  x % n = IF x < n THEN x ELSE x - n
<1>1. x \in Nat /\ x < 2 * n
  OBVIOUS
<1>2. CASE x < n
  BY <1>2
<1>3. CASE x >= n
  <2>1. x - n \in 0..n - 1
    BY <1>1, <1>3
  <2>2. x = n * 1 + (x - n)
    BY <1>1
  <2> QED BY <1>1, <1>3, <2>1, <2>2
<1> QED BY <1>1, <1>2, <1>3

\* The slot that was written d entries before the last one, for a head at h.
Slot(h, d) == IF h > d THEN h - 1 - d ELSE h + RingLen - 1 - d

\* A push writes the slot under the head, which becomes the last; every other slot is
\* one entry further back.
LEMMA SlotStep ==
  ASSUME NEW h \in 0..RingLen - 1
  PROVE  /\ Slot(h, 0) = (h + RingLen - 1) % RingLen
         /\ (h + 1) % RingLen \in 0..RingLen - 1
         /\ Slot((h + 1) % RingLen, 0) = h
         /\ \A d \in 1..RingLen - 1 : /\ Slot((h + 1) % RingLen, d) = Slot(h, d - 1)
                                      /\ Slot(h, d - 1) # h
         /\ \A d \in 0..RingLen - 1 : Slot(h, d) \in 0..RingLen - 1
         /\ \A i \in 0..RingLen - 1 : \E d \in 0..RingLen - 1 : Slot(h, d) = i
<1>1. RingLen \in Nat \ {0} /\ h \in Nat /\ h < RingLen
  BY Constants
<1>2. (h + 1) % RingLen = IF h + 1 < RingLen THEN h + 1 ELSE 0
  <2>1. h + 1 \in 0..2 * RingLen - 1
    BY <1>1
  <2>2. (h + 1) % RingLen = IF h + 1 < RingLen THEN h + 1 ELSE (h + 1) - RingLen
    BY <1>1, <2>1, ModOnce
  <2> QED BY <1>1, <2>2
<1>3. (h + RingLen - 1) % RingLen = IF h = 0 THEN RingLen - 1 ELSE h - 1
  <2>1. h + RingLen - 1 \in 0..2 * RingLen - 1
    BY <1>1
  <2> QED BY <1>1, <2>1, ModOnce
<1>4. ASSUME NEW i \in 0..RingLen - 1
      PROVE  \E d \in 0..RingLen - 1 : Slot(h, d) = i
  <2>1. CASE i < h
    <3>1. h - 1 - i \in 0..RingLen - 1 /\ Slot(h, h - 1 - i) = i
      BY <1>1, <2>1 DEF Slot
    <3> QED BY <3>1
  <2>2. CASE i >= h
    <3>1. h + RingLen - 1 - i \in 0..RingLen - 1 /\ Slot(h, h + RingLen - 1 - i) = i
      BY <1>1, <2>2 DEF Slot
    <3> QED BY <3>1
  <2> QED BY <1>1, <2>1, <2>2
<1>5. QED
  BY <1>1, <1>2, <1>3, <1>4 DEF Slot

(***************************************************************************)
(* The strengthening for the ring: going back from the head, the slots     *)
(* hold the settlements from the last to the first and then nothing, and   *)
(* the settlements' seqs rise from 1 at least to the account's last_seq.   *)
(* Rising seqs are what makes find unambiguous, and positive ones what     *)
(* keeps it from answering with a slot never written.                      *)
(***************************************************************************)
RingInv ==
  LET n == Len(settlements)
  IN  /\ \A d \in 0..RingLen - 1 :
           ring.entries[Slot(ring.head, d)] = IF d < n THEN settlements[n - d] ELSE NoEntry
      /\ \A i, j \in 1..n : i < j => settlements[i].seq_end < settlements[j].seq_end
      /\ \A i \in 1..n : settlements[i].seq_end > 0
      /\ n > 0 => IsOpen /\ account.last_seq = settlements[n].seq_end

\* Only settle_batch pushes, and nothing else moves last_seq.
LEMMA QuietRing ==
  ASSUME TypeOK, RingInv, [Next]_vars,
         ~ \E v \in Vouchers, tariffs \in Tariffs, root \in Roots : SettleBatch(v, tariffs, root)
  PROVE  RingInv'
<1>1. UNCHANGED <<ring, settlements>>
  BY DEF Next, OpenEscrow, Deposit, Gift, RequestWithdraw, Withdraw, Sign, Tick, vars
<1>2. IsOpen => IsOpen' /\ account'.last_seq = account.last_seq
  BY OnlySettleCharges
<1>3. QED
  BY <1>1, <1>2 DEF RingInv

\* push writes one slot and moves the head by one around the ring.
LEMMA PushRing ==
  ASSUME TypeOK, RingInv, NEW v \in Vouchers, NEW tariffs \in Tariffs, NEW root \in Roots,
         SettleBatch(v, tariffs, root)
  PROVE  RingInv'
<1> DEFINE entry == [seq_end |-> v.seq, ts |-> clock, root |-> root, chain |-> v.chain]
           n == Len(settlements)
           h == ring.head
<1>1. IsOpen /\ account \in Account /\ CanSettle(account, v, tariffs)
  BY DEF SettleBatch, TypeOK, IsOpen
<1>2. /\ account' = AfterSettle(account, v) /\ ring' = Push(ring, entry)
      /\ settlements' = Append(settlements, entry)
  BY DEF SettleBatch
<1>3. /\ account' \in Account /\ account'.last_seq = v.seq /\ v.seq \in Nat \ {0}
      /\ v.seq > account.last_seq /\ account.last_seq \in Nat /\ v.chain \in Chains
  BY <1>1, <1>2, SettleStep DEF Account, AccountType
<1>4. /\ entry \in Entry /\ entry.seq_end = v.seq
      /\ settlements \in Seq(Entry) /\ n \in Nat
      /\ RingLen \in Nat \ {0} /\ h \in 0..RingLen - 1
      /\ ring.entries \in [0..RingLen - 1 -> Entry \cup {NoEntry}]
  BY <1>3, Constants DEF TypeOK, Entry
<1> HIDE DEF entry
<1>5. /\ Len(settlements') = n + 1 /\ settlements'[n + 1] = entry
      /\ \A i \in 1..n : settlements'[i] = settlements[i] /\ settlements[i] \in Entry
  BY <1>2, <1>4
<1>6. /\ ring'.head = (h + 1) % RingLen
      /\ ring'.entries = [ring.entries EXCEPT ![h] = entry]
  BY <1>2 DEF Push
<1> DEFINE h1 == (h + 1) % RingLen
<1>7. /\ Slot(h1, 0) = h
      /\ \A d \in 1..RingLen - 1 : Slot(h1, d) = Slot(h, d - 1) /\ Slot(h, d - 1) # h
      /\ \A d \in 0..RingLen - 1 : Slot(h, d) \in 0..RingLen - 1
  BY <1>4, SlotStep
<1>8. ASSUME NEW d \in 0..RingLen - 1
      PROVE  ring'.entries[Slot(ring'.head, d)]
               = IF d < n + 1 THEN settlements'[n + 1 - d] ELSE NoEntry
  <2>1. CASE d = 0
    <3>1. ring'.entries[Slot(ring'.head, d)] = entry
      <4> HIDE DEF h, h1
      <4> QED BY <1>4, <1>6, <1>7, <2>1 DEF h1
    <3> QED BY <1>4, <1>5, <2>1, <3>1
  <2>2. CASE d # 0
    <3>1. d - 1 \in 0..RingLen - 1 /\ d \in 1..RingLen - 1
      BY <1>4, <2>2
    <3>2. Slot(ring'.head, d) = Slot(h, d - 1) /\ Slot(h, d - 1) # h
          /\ Slot(h, d - 1) \in 0..RingLen - 1
      <4>1. ring'.head = h1
        BY <1>6
      <4> HIDE DEF h, h1
      <4> QED BY <1>7, <3>1, <4>1
    <3>3. ring'.entries[Slot(ring'.head, d)] = ring.entries[Slot(h, d - 1)]
      BY <1>4, <1>6, <3>2
    <3>4. @ = IF d - 1 < n THEN settlements[n - (d - 1)] ELSE NoEntry
      BY <3>1 DEF RingInv
    <3>5. n - (d - 1) = n + 1 - d /\ (d < n + 1 <=> d - 1 < n)
      BY <1>4, <3>1
    <3>6. d < n + 1 => n + 1 - d \in 1..n
      BY <1>4, <3>1
    <3> QED BY <1>5, <3>3, <3>4, <3>5, <3>6
  <2> QED BY <2>1, <2>2
<1>9. /\ \A i, j \in 1..n : i < j => settlements[i].seq_end < settlements[j].seq_end
      /\ \A i \in 1..n : settlements[i].seq_end > 0 /\ settlements[i].seq_end \in Nat
      /\ n > 0 => account.last_seq = settlements[n].seq_end
  BY <1>5 DEF RingInv, Entry
<1>10. \A i \in 1..n : settlements[i].seq_end < v.seq
  <2> SUFFICES ASSUME NEW i \in 1..n PROVE settlements[i].seq_end < v.seq
    OBVIOUS
  <2>1. settlements[i].seq_end <= settlements[n].seq_end /\ n > 0 /\ n \in 1..n
    BY <1>4, <1>9
  <2> QED BY <1>3, <1>9, <2>1
<1>11. ASSUME NEW i \in 1..n + 1
       PROVE  /\ settlements'[i].seq_end > 0
              /\ \A j \in 1..n + 1 : i < j => settlements'[i].seq_end < settlements'[j].seq_end
  <2>1. CASE i = n + 1
    BY <1>3, <1>4, <1>5, <2>1
  <2>2. CASE i # n + 1
    BY <1>4, <1>5, <1>9, <1>10, <2>2
  <2> QED BY <2>1, <2>2
<1>12. IsOpen' /\ account'.last_seq = settlements'[n + 1].seq_end
  BY <1>3, <1>4, <1>5, Constants DEF IsOpen
<1>13. QED
  BY <1>5, <1>8, <1>11, <1>12 DEF RingInv

\* A settlement among the newest of the ring's length sits in the slot the head counts back to.
LEMMA RingFinds ==
  ASSUME TypeOK, RingInv
  PROVE  RingIsRecent
<1> DEFINE n == Len(settlements)
           h == ring.head
<1>1. /\ settlements \in Seq(Entry) /\ n \in Nat
      /\ RingLen \in Nat \ {0} /\ h \in 0..RingLen - 1
  BY Constants DEF TypeOK
<1>2. \A d \in 0..RingLen - 1 :
        ring.entries[Slot(h, d)] = IF d < n THEN settlements[n - d] ELSE NoEntry
  BY DEF RingInv
<1>3. \A k \in 0..RingLen - 1 : \E d \in 0..RingLen - 1 : Slot(h, d) = k
  <2> HIDE DEF h
  <2> QED BY <1>1, SlotStep
<1>4. \A i \in 1..n : settlements[i].seq_end \in Nat \ {0}
  <2>1. \A i \in 1..n : settlements[i] \in Entry
    BY <1>1
  <2> QED BY <2>1 DEF RingInv, Entry
<1>5. \A i, j \in 1..n : settlements[i].seq_end = settlements[j].seq_end => i = j
  <2>1. \A i, j \in 1..n : i < j => settlements[i].seq_end < settlements[j].seq_end
    BY DEF RingInv
  <2> HIDE DEF n
  <2> QED BY <1>1, <1>4, <2>1
<1>6. Latest(ring) = IF n = 0 THEN NoEntry ELSE settlements[n]
  <2>1. 0 \in 0..RingLen - 1 /\ n - 0 = n
    BY <1>1
  <2>2. Latest(ring) = ring.entries[Slot(h, 0)]
    BY <1>1, SlotStep DEF Latest
  <2> QED BY <1>1, <1>2, <2>1, <2>2
<1>7. ASSUME NEW i \in 1..n
      PROVE  Find(ring, settlements[i].seq_end)
               = IF i > n - RingLen THEN {settlements[i]} ELSE {}
  <2> DEFINE s == settlements[i].seq_end
  <2>1. ASSUME NEW k \in 0..RingLen - 1, ring.entries[k].seq_end = s
        PROVE  i > n - RingLen /\ ring.entries[k] = settlements[i]
    <3>1. PICK d \in 0..RingLen - 1 : Slot(h, d) = k
      BY <1>3
    <3>2. s # 0
      BY <1>4
    <3>3. d < n
      BY <1>1, <1>2, <2>1, <3>1, <3>2 DEF NoEntry
    <3>4. n - d \in 1..n /\ ring.entries[k] = settlements[n - d]
      BY <1>1, <1>2, <3>1, <3>3
    <3>5. n - d = i
      BY <1>5, <2>1, <3>4
    <3> QED BY <1>1, <3>4, <3>5
  <2>2. ASSUME i > n - RingLen
        PROVE  \E k \in 0..RingLen - 1 : ring.entries[k] = settlements[i]
    <3>1. n - i \in 0..RingLen - 1 /\ n - i < n /\ n - (n - i) = i
      BY <1>1, <2>2
    <3>2. ring.entries[Slot(h, n - i)] = settlements[i]
      BY <1>2, <3>1
    <3> QED BY <1>1, <3>1, <3>2, SlotStep
  <2> HIDE DEF n
  <2> QED BY <2>1, <2>2 DEF Find
<1>8. QED
  BY <1>6, <1>7 DEF RingIsRecent

(***************************************************************************)
(* The ring answers as the whole history would, for the last RingLen       *)
(* settlements, whatever the length of the ring and of the history.        *)
(***************************************************************************)
THEOREM RingKeepsRecent == Spec => []RingIsRecent
<1>1. Init => RingInv
  BY Constants DEF Init, RingInv, EmptyRing, Slot, NoEntry
<1>2. TypeOK /\ RingInv /\ [Next]_vars => RingInv'
  BY QuietRing, PushRing
<1>3. TypeOK /\ RingInv => RingIsRecent
  BY RingFinds
<1>4. QED
  BY <1>1, <1>2, <1>3, TypeCorrect, PTL DEF Spec
=============================================================================
