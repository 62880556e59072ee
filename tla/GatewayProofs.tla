--------------------------- MODULE GatewayProofs ---------------------------
(***************************************************************************)
(* What the gateway guarantees for any number of requests in flight, any   *)
(* prices and any agent, provided a request is over before the grace is.   *)
(***************************************************************************)
EXTENDS Gateway, EscrowAccountProofs

\* Facts about the constants that the steps use.
LEMMA Constants ==
  /\ FeeBps \in 0..MAX_BPS /\ Grace \in Nat \ {0}
  /\ RateChoices \subseteq Nat /\ Unlicensed \notin Nat /\ Amounts \subseteq Nat
  /\ RequestTime \in Nat /\ RequestTime < Grace
  /\ MaxSeq \in Nat /\ MaxTotal \in Nat
  /\ ZeroChain = << >> /\ NoAccount \notin Account
  BY ConfigAssumption, GatewayAssumption

\* A price is an amount.
LEMMA PriceType ==
  ASSUME NEW tariff \in Nat
  PROVE  Price(tariff) \in Nat
<1>1. FeeBps \in Nat /\ tariff * FeeBps \in Nat
  BY Constants DEF MAX_BPS
<1>2. QED
  BY <1>1, CeilDivBounds DEF Price, ReceiptFee

-----------------------------------------------------------------------------

\* What a handler's place says of what it holds.
HandlerOK(h) ==
  /\ pc[h] = "quoted" => held[h] \in Quoted /\ snap[h] \in Account
  /\ pc[h] \in {"presented", "checking", "recording", "delivering"} => held[h] \in Body
  /\ pc[h] \in {"checking", "recording"} => snap[h] \in Account

\* TypeOK and the shape of what each handler has read.
TypeInv == TypeOK /\ \A h \in Handlers : HandlerOK(h)

\* The first state is well typed.
LEMMA TypeInit == Init => TypeInv
<1> SUFFICES ASSUME Init PROVE TypeInv
  OBVIOUS
<1>1. << >> \in Seq(Body) /\ NoVoucher \in Voucher
  BY DEF NoVoucher, Voucher
<1>2. TypeOK
  <2> HIDE DEF NoVoucher
  <2> QED BY <1>1 DEF Init, TypeOK
<1>3. ASSUME NEW h \in Handlers PROVE HandlerOK(h)
  BY DEF Init, HandlerOK
<1>4. QED
  BY <1>2, <1>3 DEF TypeInv

\* The steps of the chain leave the gateway alone and keep the account an account.
LEMMA ChainTypes ==
  ASSUME TypeInv, ChainStep
  PROVE  TypeInv'
<1> USE DEF TypeInv, TypeOK, HandlerOK, handlerVars
<1>1. CASE OpenEscrow
  BY <1>1, Constants DEF OpenEscrow, Opened, Account, AccountType
<1>2. ASSUME NEW amount \in Amounts, Deposit(amount)
      PROVE  TypeInv'
  <2>1. account \in Account /\ amount \in Nat /\ account' = AfterDeposit(account, amount)
    BY <1>2, Constants DEF Deposit, IsOpen
  <2>2. account' \in Account
    BY <2>1, DepositStep DEF Account
  <2> QED BY <1>2, <2>2 DEF Deposit
<1>3. CASE RequestWithdraw
  <2>1. account \in Account /\ account' = AfterRequest(account, clock)
    BY <1>3 DEF RequestWithdraw, IsOpen
  <2>2. account' \in Account
    BY <2>1, RequestStep DEF Account
  <2> QED BY <1>3, <2>2 DEF RequestWithdraw
<1>4. CASE Withdraw
  <2>1. account \in Account /\ account' = AfterWithdraw(account)
    BY <1>4 DEF Withdraw, IsOpen
  <2>2. account' \in Account
    BY <2>1, WithdrawStep DEF Account
  <2> QED BY <1>4, <2>2 DEF Withdraw
<1>5. ASSUME NEW row \in rows, Settle(row)
      PROVE  TypeInv'
  <2>1. account \in Account /\ row \in Row /\ account' = AfterSettle(account, row)
    BY <1>5 DEF Settle, IsOpen
  <2>2. PICK tariffs \in 0..Charged(account, row) : CanSettle(account, row, tariffs)
    BY <1>5 DEF Settle
  <2>3. row.seq \in Nat /\ row.cumulative \in Nat /\ row.chain \in Seq(Body)
    BY <2>1 DEF Row
  <2>4. account' \in Account
    BY <2>1, <2>2, <2>3, SettledAccount DEF Account
  <2> QED BY <1>5, <2>4 DEF Settle
<1>6. ASSUME NEW w \in Works, NEW rate \in RateChoices \cup {Unlicensed}, SetRate(w, rate)
      PROVE  TypeInv'
  BY <1>6 DEF SetRate
<1>7. CASE Tick
  BY <1>7 DEF Tick
<1>8. QED
  BY <1>1, <1>2, <1>3, <1>4, <1>5, <1>6, <1>7 DEF ChainStep

\* A handler that is done holds nothing.
LEMMA DoneTypes ==
  ASSUME TypeInv, NEW h \in Handlers, Done(h),
         UNCHANGED <<chainVars, rows>>, served' \in Seq(Body), offers' \subseteq Body
  PROVE  TypeInv'
<1>1. TypeOK'
  BY Constants DEF TypeInv, TypeOK, Done, Drop, chainVars, NoVoucher, Voucher
<1>2. ASSUME NEW g \in Handlers
      PROVE  HandlerOK(g)'
  BY DEF TypeInv, TypeOK, HandlerOK, Done, Drop
<1>3. QED
  BY <1>1, <1>2 DEF TypeInv

\* Every step of a handler keeps the types.
LEMMA HandlerTypes ==
  ASSUME TypeInv, NEW h \in Handlers, HandlerStep(h)
  PROVE  TypeInv'
<1> USE DEF TypeInv, TypeOK, HandlerOK, chainVars
<1>1. ASSUME NEW w \in Works, Quote(h, w)
      PROVE  TypeInv'
  <2>1. rates[w] \in Nat /\ account \in Account
    BY <1>1, Constants DEF Quote, IsOpen
  <2>2. [work |-> w, price |-> Price(rates[w])] \in Quoted
    BY <2>1, PriceType DEF Quoted
  <2> QED BY <1>1, <2>1, <2>2 DEF Quote
<1>2. CASE Hold(h)
  <2>1. PICK position \in loadPosition(snap[h]) :
          offers' = offers \/ \E id \in OfferIds :
            /\ position.seq + 1 <= MaxSeq
            /\ offers' = offers \cup {[offer |-> id, work |-> held[h].work,
                                       price |-> held[h].price, seq |-> position.seq + 1]}
    BY <1>2 DEF Hold
  <2>2. position.seq \in Nat
    <3>1. CASE rows = {}
      BY <1>2, <2>1, <3>1 DEF Hold, loadPosition, OnChain, Account, AccountType
    <3>2. CASE rows # {}
      BY <2>1, <3>2 DEF loadPosition, Row
    <3> QED BY <3>1, <3>2
  <2>3. held[h] \in Quoted
    BY <1>2 DEF Hold
  <2>4. offers' \subseteq Body
    BY <2>1, <2>2, <2>3 DEF Body, Quoted
  <2> QED BY <1>2, <2>4, DoneTypes DEF Hold
<1>3. ASSUME NEW o \in offers, Present(h, o)
      PROVE  TypeInv'
  BY <1>3 DEF Present
<1>4. CASE ReadSnapshot(h)
  <2>1. CASE Done(h)
    BY <1>4, <2>1, DoneTypes DEF ReadSnapshot
  <2>2. CASE ~Done(h)
    BY <1>4, <2>2 DEF ReadSnapshot, IsOpen
  <2> QED BY <2>1, <2>2
<1>5. ASSUME NEW v \in Presentable, Verify(h, v)
      PROVE  TypeInv'
  <2>1. v \in Voucher
    <3>1. /\ v.seq \in 1..MaxSeq /\ v.cumulative \in 0..MaxTotal
          /\ DOMAIN v = {"seq", "cumulative", "chain"}
          /\ v = [seq |-> v.seq, cumulative |-> v.cumulative, chain |-> v.chain]
      BY DEF Presentable
    <3>2. PICK c \in {<< >>} \cup {r.chain : r \in rows},
               b \in offers \cup {held[g] : g \in {f \in Handlers : pc[f] = "checking"}} :
            v.chain = Append(c, b)
      BY DEF Presentable
    <3>3. b \in Body
      BY <3>2
    <3>4. c \in Seq(Body)
      <4>1. CASE c = << >>
        BY <4>1
      <4>2. ASSUME NEW r \in rows, c = r.chain PROVE c \in Seq(Body)
        BY <4>2 DEF Row
      <4> QED BY <3>2, <4>1, <4>2
    <3>5. v.chain \in Seq(Body)
      BY <3>2, <3>3, <3>4
    <3> QED BY <3>1, <3>5, Constants DEF Voucher
  <2> QED BY <1>5, <2>1 DEF Verify
<1>6. CASE Refuse(h)
  BY <1>6, DoneTypes DEF Refuse
<1>7. CASE Record(h)
  <2>1. CASE Done(h) /\ UNCHANGED rows
    BY <1>7, <2>1, DoneTypes DEF Record
  <2>2. CASE ~(Done(h) /\ UNCHANGED rows)
    <3> DEFINE row == [seq        |-> voucher[h].seq,
                       cumulative |-> voucher[h].cumulative,
                       chain      |-> voucher[h].chain,
                       body       |-> held[h],
                       era        |-> era]
    <3>1. /\ rows' = rows \cup {row} /\ pc' = [pc EXCEPT ![h] = "delivering"]
          /\ UNCHANGED <<chainVars, served, offers, held>> /\ Drop(h)
      BY <1>7, <2>2 DEF Record
    <3>2. row \in Row
      BY <1>7 DEF Record, Row, Voucher
    <3>3. TypeOK'
      <4> HIDE DEF row
      <4> QED BY <3>1, <3>2, Constants DEF Drop, NoVoucher, Voucher
    <3>4. ASSUME NEW g \in Handlers PROVE HandlerOK(g)'
      BY <1>7, <3>1 DEF Drop, Record
    <3> QED BY <3>3, <3>4
  <2> QED BY <2>1, <2>2
<1>8. CASE Deliver(h)
  <2>1. served' \in Seq(Body) /\ offers' \subseteq Body
    BY <1>8 DEF Deliver
  <2> QED BY <1>8, <2>1, DoneTypes DEF Deliver
<1>9. QED
  BY <1>1, <1>2, <1>3, <1>4, <1>5, <1>6, <1>7, <1>8 DEF HandlerStep

(***************************************************************************)
(* Every variable keeps its type, and a handler holds what its place says. *)
(***************************************************************************)
LEMMA TypeInvariant == Spec => []TypeInv
<1>1. TypeInv /\ [Next]_vars => TypeInv'
  <2> SUFFICES ASSUME TypeInv, [Next]_vars PROVE TypeInv'
    OBVIOUS
  <2>1. CASE ChainStep
    BY <2>1, ChainTypes
  <2>2. ASSUME NEW h \in Handlers, HandlerStep(h)
        PROVE  TypeInv'
    BY <2>2, HandlerTypes
  <2>3. ASSUME NEW o \in offers, Forget(o)
        PROVE  TypeInv'
    BY <2>3 DEF Forget, TypeInv, TypeOK, HandlerOK, chainVars, handlerVars
  <2>4. CASE Crash
    BY <2>4, Constants DEF Crash, TypeInv, TypeOK, HandlerOK, chainVars, NoVoucher, Voucher
  <2>5. CASE UNCHANGED vars
    BY <2>5 DEF vars, TypeInv, TypeOK, HandlerOK, chainVars, handlerVars
  <2> QED BY <2>1, <2>2, <2>3, <2>4, <2>5 DEF Next
<1>2. QED
  BY <1>1, TypeInit, PTL DEF Spec

\* Handlers, offers, rows and the chain keep their types, whatever any number of handlers do.
THEOREM TypeCorrect == Spec => []TypeOK
<1>1. TypeInv => TypeOK
  BY DEF TypeInv
<1>2. QED
  BY <1>1, TypeInvariant, PTL

-----------------------------------------------------------------------------

Busy == {"checking", "recording"}

Backing(a) == a.settled_total + a.vault

\* A snapshot without a withdrawal request stays good for as long as its handler may
\* run: the agent cannot have asked to leave early enough to be gone by then.
SnapshotGood(h) ==
  /\ IsOpen(account)
  /\ readAt[h] <= clock /\ clock <= readAt[h] + RequestTime
  /\ snap[h].withdraw_after = 0 =>
       /\ Backing(snap[h]) <= Backing(account)
       /\ account.withdraw_after = 0 \/ readAt[h] + Grace <= account.withdraw_after

VoucherBacked(h) ==
  snap[h].withdraw_after = 0 /\ voucher[h].cumulative <= Backing(snap[h])

(***************************************************************************)
(* The strengthening: Solvent says nothing of the requests in flight, and  *)
(* what they record is only covered because of what they have read.        *)
(***************************************************************************)
FundsInv ==
  /\ Solvent
  /\ \A r \in rows : r.era <= era
  /\ \A h \in Handlers : pc[h] \in Busy => SnapshotGood(h)
  /\ \A h \in Handlers : pc[h] = "recording" => VoucherBacked(h)

\* A step that leaves the handlers and the rows alone, does not lessen what backs the
\* vouchers, and stands no withdrawal sooner than a full grace from now.
LEMMA BackingKept ==
  ASSUME TypeInv, TypeInv', FundsInv, IsOpen(account), IsOpen(account'),
         UNCHANGED <<era, clock, rows, handlerVars>>,
         Backing(account) <= Backing(account'),
         \/ account'.withdraw_after = account.withdraw_after
         \/ account'.withdraw_after = 0
         \/ account'.withdraw_after = clock + Grace
  PROVE  FundsInv'
<1> USE DEF handlerVars
<1>1. account \in Account /\ account' \in Account
  BY DEF TypeInv, TypeOK, IsOpen
<1>2. /\ Backing(account) \in Nat /\ Backing(account') \in Nat
      /\ account.withdraw_after \in Nat /\ account'.withdraw_after \in Nat
  BY <1>1 DEF Account, AccountType, Backing
<1>3. Solvent'
  <2> SUFFICES ASSUME NEW r \in rows', r.era = era'
               PROVE  IsOpen(account') /\ r.cumulative <= Backing(account')
    BY DEF Solvent, Backing
  <2>1. r \in rows /\ r.era = era /\ r.cumulative \in Nat
    BY DEF TypeInv, TypeOK, Row
  <2>2. r.cumulative <= Backing(account)
    BY <2>1 DEF FundsInv, Solvent, Backing
  <2> QED BY <1>2, <2>1, <2>2
<1>4. ASSUME NEW h \in Handlers, pc[h] \in Busy
      PROVE  SnapshotGood(h)'
  <2>1. SnapshotGood(h) /\ snap[h] \in Account /\ readAt[h] \in Nat /\ clock \in Nat
    BY <1>4 DEF FundsInv, TypeInv, TypeOK, HandlerOK, Busy
  <2>2. Backing(snap[h]) \in Nat
    BY <2>1 DEF Account, AccountType, Backing
  <2>3. snap[h].withdraw_after = 0 => Backing(snap[h]) <= Backing(account')
    BY <1>2, <2>1, <2>2 DEF SnapshotGood
  <2>4. snap[h].withdraw_after = 0 =>
          account'.withdraw_after = 0 \/ readAt[h] + Grace <= account'.withdraw_after
    BY <1>2, <2>1, Constants DEF SnapshotGood
  <2> QED BY <2>1, <2>3, <2>4 DEF SnapshotGood, Backing
<1>5. QED
  BY <1>3, <1>4 DEF FundsInv, VoucherBacked, Backing

\* The steps of the chain keep FundsInv.
LEMMA ChainFunds ==
  ASSUME TypeInv, TypeInv', FundsInv, ChainStep
  PROVE  FundsInv'
<1>1. CASE OpenEscrow
  <2>1. /\ rows' = rows /\ UNCHANGED <<era, handlerVars>> /\ ~IsOpen(account)
    BY <1>1 DEF OpenEscrow
  <2>2. \A r \in rows : r.era # era
    BY <2>1 DEF FundsInv, Solvent
  <2>3. \A h \in Handlers : pc[h] \notin Busy
    BY <2>1 DEF FundsInv, SnapshotGood
  <2> QED BY <2>1, <2>2, <2>3 DEF FundsInv, Solvent, Busy, handlerVars
<1>2. ASSUME NEW amount \in Amounts, Deposit(amount)
      PROVE  FundsInv'
  <2>1. /\ account \in Account /\ amount \in Nat /\ account' = AfterDeposit(account, amount)
        /\ UNCHANGED <<era, clock, rows, handlerVars>> /\ IsOpen(account)
    BY <1>2, Constants DEF Deposit, IsOpen, TypeInv, TypeOK
  <2>2. /\ account' \in Account /\ account'.vault = account.vault + amount
        /\ account'.settled_total = account.settled_total /\ account'.withdraw_after = 0
    BY <2>1, DepositStep DEF Account
  <2>3. Backing(account) <= Backing(account')
    BY <2>1, <2>2 DEF Backing, Account, AccountType
  <2>4. IsOpen(account')
    BY <2>2, Constants DEF IsOpen
  <2> QED BY <2>1, <2>2, <2>3, <2>4, BackingKept
<1>3. CASE RequestWithdraw
  <2>1. /\ account \in Account /\ account' = AfterRequest(account, clock) /\ clock \in Nat
        /\ UNCHANGED <<era, clock, rows, handlerVars>> /\ IsOpen(account)
    BY <1>3 DEF RequestWithdraw, IsOpen, TypeInv, TypeOK
  <2>2. /\ account' \in Account /\ account'.vault = account.vault
        /\ account'.settled_total = account.settled_total
        /\ account'.withdraw_after = clock + Grace
    BY <2>1, RequestStep DEF Account
  <2>3. Backing(account) <= Backing(account')
    BY <2>1, <2>2 DEF Backing, Account, AccountType
  <2>4. IsOpen(account')
    BY <2>2, Constants DEF IsOpen
  <2> QED BY <2>1, <2>2, <2>3, <2>4, BackingKept
<1>4. CASE Withdraw
  <2>1. /\ account \in Account /\ account' = AfterWithdraw(account) /\ era' = era + 1
        /\ UNCHANGED <<clock, rows, handlerVars>> /\ CanWithdraw(account, clock)
        /\ era \in Nat /\ clock \in Nat
    BY <1>4 DEF Withdraw, IsOpen, TypeInv, TypeOK
  <2>2. account' \in Account /\ IsOpen(account')
    BY <2>1, WithdrawStep, Constants DEF Account, IsOpen
  <2>3. \A r \in rows : r.era <= era /\ r.era \in Nat
    BY DEF FundsInv, TypeInv, TypeOK, Row
  <2>4. Solvent' /\ \A r \in rows' : r.era <= era'
    BY <2>1, <2>3 DEF Solvent
  <2>5. ASSUME NEW h \in Handlers, pc[h] \in Busy
        PROVE  SnapshotGood(h)' /\ snap[h].withdraw_after # 0
    <3>1. SnapshotGood(h) /\ readAt[h] \in Nat /\ account.withdraw_after \in Nat
      BY <2>1, <2>5 DEF FundsInv, TypeInv, TypeOK, Account, AccountType
    <3>2. account.withdraw_after # 0 /\ account.withdraw_after <= clock
      BY <2>1 DEF CanWithdraw, Account, AccountType
    <3>3. snap[h].withdraw_after # 0
      BY <2>1, <3>1, <3>2, Constants DEF SnapshotGood
    <3> QED BY <2>1, <2>2, <3>1, <3>3 DEF SnapshotGood, handlerVars
  <2> QED BY <2>1, <2>4, <2>5 DEF FundsInv, VoucherBacked, Busy, handlerVars
<1>5. ASSUME NEW row \in rows, Settle(row)
      PROVE  FundsInv'
  <2>1. /\ account \in Account /\ row \in Row /\ account' = AfterSettle(account, row)
        /\ UNCHANGED <<era, clock, rows, handlerVars>> /\ IsOpen(account)
    BY <1>5 DEF Settle, IsOpen, TypeInv, TypeOK
  <2>2. PICK tariffs \in 0..Charged(account, row) : CanSettle(account, row, tariffs)
    BY <1>5 DEF Settle
  <2>3. row.seq \in Nat /\ row.cumulative \in Nat /\ row.chain \in Seq(Body)
    BY <2>1 DEF Row
  <2>4. /\ account' \in Account /\ account'.vault = account.vault - Charged(account, row)
        /\ account'.settled_total = row.cumulative
        /\ account'.withdraw_after = account.withdraw_after
    BY <2>1, <2>2, <2>3, SettledAccount DEF Account
  <2>5. Backing(account) <= Backing(account')
    BY <2>1, <2>3, <2>4 DEF Backing, Charged, Account, AccountType
  <2>6. IsOpen(account')
    BY <2>4, Constants DEF IsOpen
  <2> QED BY <2>1, <2>4, <2>5, <2>6, BackingKept
<1>6. ASSUME NEW w \in Works, NEW rate \in RateChoices \cup {Unlicensed}, SetRate(w, rate)
      PROVE  FundsInv'
  BY <1>6 DEF SetRate, handlerVars, FundsInv, Solvent, SnapshotGood, VoucherBacked, Backing
<1>7. CASE Tick
  <2>1. /\ clock' = clock + 1 /\ UNCHANGED <<account, era, rows, handlerVars>>
        /\ \A h \in Handlers : pc[h] \in Busy => clock < readAt[h] + RequestTime
    BY <1>7 DEF Tick, Busy
  <2>2. ASSUME NEW h \in Handlers, pc[h] \in Busy
        PROVE  SnapshotGood(h)'
    <3>1. SnapshotGood(h) /\ readAt[h] \in Nat /\ clock \in Nat
      BY <2>2 DEF FundsInv, TypeInv, TypeOK
    <3>2. readAt[h] <= clock' /\ clock' <= readAt[h] + RequestTime
      BY <2>1, <2>2, <3>1, Constants DEF SnapshotGood
    <3> QED BY <2>1, <3>1, <3>2 DEF SnapshotGood, Backing, handlerVars
  <2> QED BY <2>1, <2>2 DEF FundsInv, Solvent, VoucherBacked, Backing, handlerVars
<1>8. QED
  BY <1>1, <1>2, <1>3, <1>4, <1>5, <1>6, <1>7 DEF ChainStep

\* A handler's step that does not move it to a busy place, and records nothing.
LEMMA QuietFunds ==
  ASSUME FundsInv, TypeInv, NEW h \in Handlers, UNCHANGED <<chainVars, rows>>,
         pc'[h] \notin Busy,
         \A g \in Handlers \ {h} : /\ pc'[g] = pc[g] /\ snap'[g] = snap[g]
                                   /\ readAt'[g] = readAt[g] /\ voucher'[g] = voucher[g]
  PROVE  FundsInv'
<1>1. ASSUME NEW g \in Handlers, pc'[g] \in Busy
      PROVE  SnapshotGood(g)'
  BY <1>1 DEF FundsInv, SnapshotGood, Backing, chainVars
<1>2. ASSUME NEW g \in Handlers, pc'[g] = "recording"
      PROVE  VoucherBacked(g)'
  BY <1>2 DEF FundsInv, VoucherBacked, Backing, Busy
<1>3. QED
  BY <1>1, <1>2 DEF FundsInv, Solvent, chainVars

\* Done leaves a handler out of Busy and the others as they were.
LEMMA DoneQuiet ==
  ASSUME TypeInv, NEW h \in Handlers, Done(h)
  PROVE  /\ pc'[h] = "idle"
         /\ \A g \in Handlers \ {h} :
              /\ pc'[g] = pc[g] /\ snap'[g] = snap[g] /\ held'[g] = held[g]
              /\ readAt'[g] = readAt[g] /\ voucher'[g] = voucher[g]
  BY DEF Done, Drop, TypeInv, TypeOK

\* The steps of the handlers keep FundsInv.
LEMMA HandlerFunds ==
  ASSUME TypeInv, TypeInv', FundsInv, NEW h \in Handlers, HandlerStep(h)
  PROVE  FundsInv'
<1>1. ASSUME NEW w \in Works, Quote(h, w)
      PROVE  FundsInv'
  BY <1>1, QuietFunds DEF Quote, Busy, TypeInv, TypeOK
<1>2. CASE Hold(h)
  BY <1>2, DoneQuiet, QuietFunds DEF Hold, Busy
<1>3. ASSUME NEW o \in offers, Present(h, o)
      PROVE  FundsInv'
  BY <1>3, QuietFunds DEF Present, Busy, TypeInv, TypeOK
<1>4. CASE ReadSnapshot(h)
  <2>1. CASE Done(h)
    BY <1>4, <2>1, DoneQuiet, QuietFunds DEF ReadSnapshot, Busy
  <2>2. CASE ~Done(h)
    <3>1. /\ IsOpen(account) /\ pc' = [pc EXCEPT ![h] = "checking"]
          /\ snap' = [snap EXCEPT ![h] = account] /\ readAt' = [readAt EXCEPT ![h] = clock]
          /\ UNCHANGED <<chainVars, rows, voucher>>
      BY <1>4, <2>2 DEF ReadSnapshot
    <3>2. account \in Account /\ clock \in Nat /\ Backing(account) \in Nat
      BY <3>1 DEF TypeInv, TypeOK, IsOpen, Account, AccountType, Backing
    <3>3. SnapshotGood(h)'
      BY <3>1, <3>2, Constants DEF SnapshotGood, TypeInv, TypeOK, chainVars, Backing
    <3>4. ASSUME NEW g \in Handlers, g # h, pc'[g] \in Busy
          PROVE  SnapshotGood(g)'
      BY <3>1, <3>4 DEF FundsInv, SnapshotGood, Backing, chainVars, TypeInv, TypeOK
    <3>5. ASSUME NEW g \in Handlers, pc'[g] = "recording"
          PROVE  VoucherBacked(g)'
      BY <3>1, <3>5 DEF FundsInv, VoucherBacked, Backing, TypeInv, TypeOK
    <3> QED BY <3>1, <3>3, <3>4, <3>5 DEF FundsInv, Solvent, chainVars
  <2> QED BY <2>1, <2>2
<1>5. ASSUME NEW v \in Presentable, Verify(h, v)
      PROVE  FundsInv'
  <2>1. /\ pc[h] = "checking" /\ checkFunds(snap[h], v.cumulative)
        /\ pc' = [pc EXCEPT ![h] = "recording"] /\ voucher' = [voucher EXCEPT ![h] = v]
        /\ UNCHANGED <<chainVars, rows, snap, readAt>>
    BY <1>5 DEF Verify
  <2>2. snap[h] \in Account /\ v.cumulative \in Nat
    <3>1. snap[h] \in Account
      BY <2>1 DEF TypeInv, HandlerOK
    <3>2. v.cumulative \in 0..MaxTotal
      BY DEF Presentable
    <3> QED BY <3>1, <3>2, Constants
  <2>3. snap[h].withdraw_after = 0 /\ v.cumulative <= Backing(snap[h])
    BY <2>1, <2>2 DEF checkFunds, Backing, Account, AccountType
  <2>4. ASSUME NEW g \in Handlers, pc'[g] \in Busy
        PROVE  SnapshotGood(g)'
    BY <2>1, <2>4 DEF FundsInv, SnapshotGood, Backing, Busy, chainVars, TypeInv, TypeOK
  <2>5. ASSUME NEW g \in Handlers, pc'[g] = "recording"
        PROVE  VoucherBacked(g)'
    BY <2>1, <2>3, <2>5 DEF FundsInv, VoucherBacked, Backing, TypeInv, TypeOK
  <2> QED BY <2>1, <2>4, <2>5 DEF FundsInv, Solvent, chainVars
<1>6. CASE Refuse(h)
  BY <1>6, DoneQuiet, QuietFunds DEF Refuse, Busy
<1>7. CASE Record(h)
  <2>1. CASE Done(h) /\ UNCHANGED rows
    BY <1>7, <2>1, DoneQuiet, QuietFunds DEF Record, Busy
  <2>2. CASE ~(Done(h) /\ UNCHANGED rows)
    <3> DEFINE row == [seq        |-> voucher[h].seq,
                       cumulative |-> voucher[h].cumulative,
                       chain      |-> voucher[h].chain,
                       body       |-> held[h],
                       era        |-> era]
    <3>1. /\ pc[h] = "recording" /\ rows' = rows \cup {row}
          /\ pc' = [pc EXCEPT ![h] = "delivering"] /\ UNCHANGED chainVars /\ Drop(h)
      BY <1>7, <2>2 DEF Record
    <3>2. SnapshotGood(h) /\ VoucherBacked(h) /\ snap[h] \in Account
      BY <3>1 DEF FundsInv, Busy, TypeInv, HandlerOK
    <3>3. /\ Backing(snap[h]) \in Nat /\ Backing(account) \in Nat
          /\ voucher[h].cumulative \in Nat /\ era \in Nat
      <4>1. account \in Account /\ voucher[h] \in Voucher /\ era \in Nat
        BY <3>2 DEF SnapshotGood, TypeInv, TypeOK, IsOpen
      <4>2. \A a \in Account : Backing(a) \in Nat
        BY DEF Account, AccountType, Backing
      <4>3. voucher[h].cumulative \in Nat
        BY <4>1 DEF Voucher
      <4> QED BY <3>2, <4>1, <4>2, <4>3
    <3>4. IsOpen(account) /\ row.cumulative <= Backing(account) /\ row.era <= era
      BY <3>2, <3>3 DEF SnapshotGood, VoucherBacked
    <3>5. Solvent' /\ \A r \in rows' : r.era <= era'
      <4> HIDE DEF row
      <4> QED BY <3>1, <3>4 DEF FundsInv, Solvent, Backing, chainVars
    <3>6. ASSUME NEW g \in Handlers, pc'[g] \in Busy
          PROVE  SnapshotGood(g)' /\ (pc'[g] = "recording" => VoucherBacked(g)')
      <4>1. g # h /\ pc'[g] = pc[g] /\ snap'[g] = snap[g] /\ readAt'[g] = readAt[g]
            /\ voucher'[g] = voucher[g]
        BY <3>1, <3>6 DEF Drop, Busy, TypeInv, TypeOK
      <4> QED BY <3>1, <3>6, <4>1 DEF FundsInv, SnapshotGood, VoucherBacked, Backing, chainVars
    <3> QED BY <3>5, <3>6 DEF FundsInv, Busy
  <2> QED BY <2>1, <2>2
<1>8. CASE Deliver(h)
  BY <1>8, DoneQuiet, QuietFunds DEF Deliver, Busy
<1>9. QED
  BY <1>1, <1>2, <1>3, <1>4, <1>5, <1>6, <1>7, <1>8 DEF HandlerStep

\* FundsInv holds in every reachable state.
LEMMA FundsInvariant == Spec => []FundsInv
<1>1. Init => FundsInv
  BY DEF Init, FundsInv, Solvent, Busy
<1>2. TypeInv /\ TypeInv' /\ FundsInv /\ [Next]_vars => FundsInv'
  <2> SUFFICES ASSUME TypeInv, TypeInv', FundsInv, [Next]_vars PROVE FundsInv'
    OBVIOUS
  <2>1. CASE ChainStep
    BY <2>1, ChainFunds
  <2>2. ASSUME NEW h \in Handlers, HandlerStep(h)
        PROVE  FundsInv'
    BY <2>2, HandlerFunds
  <2>3. CASE Crash
    BY <2>3 DEF Crash, FundsInv, Solvent, Busy, chainVars
  <2>4. CASE UNCHANGED vars \/ \E o \in offers : Forget(o)
    BY <2>4 DEF vars, Forget, chainVars, handlerVars, FundsInv, Solvent, SnapshotGood,
                VoucherBacked, Backing
  <2> QED BY <2>1, <2>2, <2>3, <2>4 DEF Next
<1>3. QED
  BY <1>1, <1>2, TypeInvariant, PTL DEF Spec

(***************************************************************************)
(* Every voucher accepted since the agent last emptied its vault can be    *)
(* settled in full, however stale the read it was accepted on.             *)
(***************************************************************************)
THEOREM Solvency == Spec => []Solvent
<1>1. FundsInv => Solvent
  BY DEF FundsInv
<1>2. QED
  BY <1>1, FundsInvariant, PTL

(***************************************************************************)
(* A voucher recorded while a withdrawal stands leaves the settler all of  *)
(* the grace but one request's time.                                       *)
(***************************************************************************)
THEOREM AcceptsInTime == Spec => AcceptedInTime
<1> DEFINE InTime == rows' # rows => \/ account.withdraw_after = 0
                                     \/ clock + (Grace - RequestTime) <= account.withdraw_after
<1>1. TypeInv /\ FundsInv /\ [Next]_vars => InTime
  <2> SUFFICES ASSUME TypeInv, FundsInv, [Next]_vars, rows' # rows
               PROVE  \/ account.withdraw_after = 0
                      \/ clock + (Grace - RequestTime) <= account.withdraw_after
    OBVIOUS
  <2>1. ~ChainStep
    BY DEF ChainStep, OpenEscrow, Deposit, RequestWithdraw, Withdraw, Settle, SetRate, Tick
  <2>2. PICK h \in Handlers : Record(h)
    BY <2>1 DEF Next, HandlerStep, Quote, Hold, Present, ReadSnapshot, Verify, Refuse, Deliver,
                Forget, Crash, vars
  <2>3. SnapshotGood(h) /\ VoucherBacked(h) /\ readAt[h] \in Nat /\ clock \in Nat
    BY <2>2 DEF Record, FundsInv, Busy, TypeInv, TypeOK
  <2>4. account.withdraw_after \in Nat
    BY <2>3 DEF SnapshotGood, TypeInv, TypeOK, IsOpen, Account, AccountType
  <2> QED BY <2>3, <2>4, Constants DEF SnapshotGood, VoucherBacked
<1>2. QED
  BY <1>1, TypeInvariant, FundsInvariant, PTL DEF Spec, AcceptedInTime
-----------------------------------------------------------------------------

\* Where a record follows the stored ones: the first of them, or next after one of them.
Follows(v, body) ==
  /\ body.seq = v.seq
  /\ \/ v.seq = 1 /\ v.cumulative = body.price /\ v.chain = <<body>>
     \/ \E p \in rows : /\ p.seq = v.seq - 1
                        /\ v.cumulative = p.cumulative + body.price
                        /\ v.chain = Append(p.chain, body)

AtStart(a) == a.last_seq = 0 /\ a.settled_total = 0 /\ a.last_chain = << >>

(***************************************************************************)
(* The strengthening for the history: until the first row, the escrow and  *)
(* every read of it are at the start, so that loadPosition's fallback is   *)
(* the start; and a verified voucher follows the rows that were there then *)
(* and, as rows are never taken back, the rows there now.                  *)
(***************************************************************************)
HistoryInv ==
  /\ RowsChained
  /\ rows = {} => /\ IsOpen(account) => AtStart(account)
                  /\ \A h \in Handlers : pc[h] \in Busy => AtStart(snap[h])
  /\ \A h \in Handlers : pc[h] = "recording" => Follows(voucher[h], held[h])

\* The chain moves an account off its start only by settling a row.
LEMMA ChainHistory ==
  ASSUME TypeInv, HistoryInv, ChainStep
  PROVE  HistoryInv'
<1>1. UNCHANGED <<rows, handlerVars>>
  BY DEF ChainStep, OpenEscrow, Deposit, RequestWithdraw, Withdraw, Settle, SetRate, Tick
<1>2. ASSUME rows = {}, IsOpen(account')
      PROVE  AtStart(account')
  <2>1. CASE OpenEscrow
    BY <2>1, Constants DEF OpenEscrow, Opened, AtStart
  <2>2. CASE IsOpen(account)
    <3>1. account \in Account /\ AtStart(account) /\ clock \in Nat
      BY <1>2, <2>2 DEF TypeInv, TypeOK, HistoryInv, IsOpen
    <3>2. ASSUME NEW amount \in Amounts, Deposit(amount)
          PROVE  AtStart(account')
      <4>1. amount \in Nat /\ account' = AfterDeposit(account, amount)
        BY <3>2, Constants DEF Deposit
      <4> QED BY <3>1, <4>1, DepositStep DEF Account, AtStart
    <3>3. CASE RequestWithdraw
      <4>1. account' = AfterRequest(account, clock)
        BY <3>3 DEF RequestWithdraw
      <4> QED BY <3>1, <4>1, RequestStep DEF Account, AtStart
    <3>4. CASE Withdraw
      <4>1. account' = AfterWithdraw(account)
        BY <3>4 DEF Withdraw
      <4> QED BY <3>1, <4>1, WithdrawStep DEF Account, AtStart
    <3>5. CASE UNCHANGED account
      BY <3>1, <3>5
    <3>6. ~OpenEscrow
      BY <2>2 DEF OpenEscrow
    <3> QED BY <1>2, <3>2, <3>3, <3>4, <3>5, <3>6 DEF ChainStep, SetRate, Tick
  <2> QED BY <1>2, <2>1, <2>2
        DEF ChainStep, Deposit, RequestWithdraw, Withdraw, Settle, SetRate, Tick, IsOpen
<1>3. QED
  BY <1>1, <1>2 DEF HistoryInv, RowsChained, Follows, handlerVars

\* A handler's step that records nothing and does not move it to a busy place.
LEMMA QuietHistory ==
  ASSUME HistoryInv, NEW h \in Handlers, UNCHANGED <<chainVars, rows>>,
         pc'[h] \notin Busy,
         \A g \in Handlers \ {h} : /\ pc'[g] = pc[g] /\ snap'[g] = snap[g]
                                   /\ held'[g] = held[g] /\ voucher'[g] = voucher[g]
  PROVE  HistoryInv'
<1>1. \A g \in Handlers : pc'[g] \in Busy => pc[g] = pc'[g] /\ snap'[g] = snap[g]
                                              /\ held'[g] = held[g] /\ voucher'[g] = voucher[g]
  OBVIOUS
<1>2. \A g \in Handlers : pc'[g] = "recording" => Follows(voucher[g], held[g])'
  BY <1>1 DEF HistoryInv, Follows, Busy
<1>3. QED
  BY <1>1, <1>2 DEF HistoryInv, RowsChained, chainVars

\* The steps of the handlers keep HistoryInv.
LEMMA HandlerHistory ==
  ASSUME TypeInv, HistoryInv, NEW h \in Handlers, HandlerStep(h)
  PROVE  HistoryInv'
<1>1. ASSUME NEW w \in Works, Quote(h, w)
      PROVE  HistoryInv'
  BY <1>1, QuietHistory DEF Quote, Busy, TypeInv, TypeOK
<1>2. CASE Hold(h)
  BY <1>2, DoneQuiet, QuietHistory DEF Hold, Busy
<1>3. ASSUME NEW o \in offers, Present(h, o)
      PROVE  HistoryInv'
  BY <1>3, QuietHistory DEF Present, Busy, TypeInv, TypeOK
<1>4. CASE ReadSnapshot(h)
  <2>1. CASE Done(h)
    BY <1>4, <2>1, DoneQuiet, QuietHistory DEF ReadSnapshot, Busy
  <2>2. CASE ~Done(h)
    <3>1. /\ IsOpen(account) /\ pc' = [pc EXCEPT ![h] = "checking"]
          /\ snap' = [snap EXCEPT ![h] = account]
          /\ UNCHANGED <<chainVars, rows, held, voucher>>
      BY <1>4, <2>2 DEF ReadSnapshot
    <3>2. \A g \in Handlers : pc'[g] = "recording" => Follows(voucher[g], held[g])'
      BY <3>1 DEF HistoryInv, Follows, TypeInv, TypeOK
    <3>3. rows' = {} => \A g \in Handlers : pc'[g] \in Busy => AtStart(snap'[g])
      BY <3>1 DEF HistoryInv, TypeInv, TypeOK
    <3> QED BY <3>1, <3>2, <3>3 DEF HistoryInv, RowsChained, chainVars
  <2> QED BY <2>1, <2>2
<1>5. ASSUME NEW v \in Presentable, Verify(h, v)
      PROVE  HistoryInv'
  <2>1. /\ pc[h] = "checking" /\ held[h] \in Body
        /\ pc' = [pc EXCEPT ![h] = "recording"] /\ voucher' = [voucher EXCEPT ![h] = v]
        /\ UNCHANGED <<chainVars, rows, held, snap>>
    BY <1>5 DEF Verify, TypeInv, HandlerOK
  <2>2. PICK position \in loadPosition(snap[h]) : verifyVoucher(v, held[h], position)
    BY <1>5 DEF Verify
  <2>3. v.seq \in Nat /\ v.cumulative \in Nat
    BY Constants DEF Presentable
  <2>4. Follows(v, held[h])
    <3>1. CASE rows = {}
      <4>1. position.seq = 0 /\ position.cumulative = 0 /\ position.chain = << >>
        BY <2>1, <2>2, <3>1 DEF loadPosition, OnChain, HistoryInv, AtStart, Busy
      <4>2. v.seq = 1 /\ v.cumulative = held[h].price /\ v.chain = Append(<< >>, held[h])
        BY <2>2, <2>3, <4>1 DEF verifyVoucher
      <4>3. Append(<< >>, held[h]) = <<held[h]>>
        OBVIOUS
      <4> QED BY <2>2, <4>2, <4>3 DEF Follows, verifyVoucher
    <3>2. CASE rows # {}
      <4>1. position \in rows /\ position.seq \in Nat /\ position.cumulative \in Nat
        BY <2>2, <3>2 DEF loadPosition, TypeInv, TypeOK, Row
      <4>2. held[h].price \in Nat
        BY <2>1 DEF Body
      <4>3. /\ v.seq = position.seq + 1 /\ held[h].seq = v.seq
            /\ v.cumulative - position.cumulative = held[h].price
            /\ v.chain = Append(position.chain, held[h])
        BY <2>2 DEF verifyVoucher
      <4>4. position.seq = v.seq - 1
        BY <2>3, <4>1, <4>3
      <4>5. v.cumulative = position.cumulative + held[h].price
        BY <2>3, <4>1, <4>2, <4>3
      <4> QED BY <4>1, <4>3, <4>4, <4>5 DEF Follows
    <3> QED BY <3>1, <3>2
  <2>5. \A g \in Handlers : pc'[g] = "recording" => Follows(voucher[g], held[g])'
    BY <2>1, <2>4 DEF HistoryInv, Follows, TypeInv, TypeOK
  <2>6. rows' = {} => \A g \in Handlers : pc'[g] \in Busy => AtStart(snap'[g])
    BY <2>1 DEF HistoryInv, Busy, TypeInv, TypeOK
  <2> QED BY <2>1, <2>5, <2>6 DEF HistoryInv, RowsChained, chainVars
<1>6. CASE Refuse(h)
  BY <1>6, DoneQuiet, QuietHistory DEF Refuse, Busy
<1>7. CASE Record(h)
  <2>1. CASE Done(h) /\ UNCHANGED rows
    BY <1>7, <2>1, DoneQuiet, QuietHistory DEF Record, Busy
  <2>2. CASE ~(Done(h) /\ UNCHANGED rows)
    <3> DEFINE row == [seq        |-> voucher[h].seq,
                       cumulative |-> voucher[h].cumulative,
                       chain      |-> voucher[h].chain,
                       body       |-> held[h],
                       era        |-> era]
    <3>1. /\ pc[h] = "recording" /\ rows' = rows \cup {row}
          /\ pc' = [pc EXCEPT ![h] = "delivering"] /\ UNCHANGED <<chainVars, held>> /\ Drop(h)
          /\ \A r \in rows : r.seq # voucher[h].seq
      BY <1>7, <2>2 DEF Record, Conflicts
    <3>2. Follows(voucher[h], held[h])
      BY <3>1 DEF HistoryInv
    <3>3. /\ row.seq = voucher[h].seq /\ row.cumulative = voucher[h].cumulative
          /\ row.chain = voucher[h].chain /\ row.body = held[h]
      OBVIOUS
    <3>4. RowsChained'
      <4> HIDE DEF row
      <4>1. \A r, q \in rows' : r.seq = q.seq => r = q
        BY <3>1, <3>3 DEF HistoryInv, RowsChained
      <4>2. ASSUME NEW r \in rows'
            PROVE  /\ r.body.seq = r.seq
                   /\ \/ r.seq = 1 /\ r.cumulative = r.body.price /\ r.chain = <<r.body>>
                      \/ \E p \in rows' : /\ p.seq = r.seq - 1
                                          /\ r.cumulative = p.cumulative + r.body.price
                                          /\ r.chain = Append(p.chain, r.body)
        <5>1. CASE r = row
          BY <3>1, <3>2, <3>3, <5>1 DEF Follows
        <5>2. CASE r \in rows
          BY <3>1, <5>2 DEF HistoryInv, RowsChained
        <5> QED BY <3>1, <5>1, <5>2
      <4> QED BY <4>1, <4>2 DEF RowsChained
    <3>5. ASSUME NEW g \in Handlers, pc'[g] = "recording"
          PROVE  Follows(voucher[g], held[g])'
      <4>1. g # h /\ pc[g] = "recording" /\ voucher'[g] = voucher[g] /\ held'[g] = held[g]
        BY <3>1, <3>5 DEF Drop, TypeInv, TypeOK
      <4>2. Follows(voucher[g], held[g])
        BY <4>1 DEF HistoryInv
      <4> QED BY <3>1, <4>1, <4>2 DEF Follows
    <3>6. rows' # {}
      BY <3>1
    <3> QED BY <3>4, <3>5, <3>6 DEF HistoryInv
  <2> QED BY <2>1, <2>2
<1>8. CASE Deliver(h)
  BY <1>8, DoneQuiet, QuietHistory DEF Deliver, Busy
<1>9. QED
  BY <1>1, <1>2, <1>3, <1>4, <1>5, <1>6, <1>7, <1>8 DEF HandlerStep

(***************************************************************************)
(* The stored vouchers are one history, whatever requests raced for it.    *)
(***************************************************************************)
THEOREM OneHistory == Spec => []RowsChained
<1>1. Init => HistoryInv
  BY DEF Init, HistoryInv, RowsChained, IsOpen, Busy
<1>2. TypeInv /\ HistoryInv /\ [Next]_vars => HistoryInv'
  <2> SUFFICES ASSUME TypeInv, HistoryInv, [Next]_vars PROVE HistoryInv'
    OBVIOUS
  <2>1. CASE ChainStep
    BY <2>1, ChainHistory
  <2>2. ASSUME NEW h \in Handlers, HandlerStep(h)
        PROVE  HistoryInv'
    BY <2>2, HandlerHistory
  <2>3. CASE Crash
    <3>1. /\ UNCHANGED <<account, rows>>
          /\ \A h \in Handlers : pc'[h] \notin Busy /\ pc'[h] # "recording"
      BY <2>3 DEF Crash, Busy, chainVars
    <3> QED BY <3>1 DEF HistoryInv, RowsChained
  <2>4. CASE UNCHANGED vars \/ \E o \in offers : Forget(o)
    BY <2>4 DEF vars, Forget, chainVars, handlerVars, HistoryInv, RowsChained, Follows
  <2> QED BY <2>1, <2>2, <2>3, <2>4 DEF Next
<1>3. HistoryInv => RowsChained
  BY DEF HistoryInv
<1>4. QED
  BY <1>1, <1>2, <1>3, TypeInvariant, PTL DEF Spec
-----------------------------------------------------------------------------

Delivering(h) == pc[h] = "delivering"

(***************************************************************************)
(* The strengthening for delivery: a handler that delivers holds a body    *)
(* with a row, that nobody was served and that no other handler delivers.  *)
(* It is the refusal of a second row for a body that makes this so, and    *)
(* that rows are never taken back.                                         *)
(***************************************************************************)
DeliveryInv ==
  /\ ServedOncePerRow
  /\ \A h \in Handlers : Delivering(h) =>
       /\ \E r \in rows : r.body = held[h]
       /\ \A i \in 1..Len(served) : served[i] # held[h]
       /\ \A g \in Handlers \ {h} : Delivering(g) => held[g] # held[h]

\* A step that serves nobody, takes no row back and starts no delivery.
LEMMA QuietDelivery ==
  ASSUME DeliveryInv, rows \subseteq rows', UNCHANGED served,
         \A h \in Handlers : Delivering(h)' => Delivering(h) /\ held'[h] = held[h]
  PROVE  DeliveryInv'
<1>1. ServedOncePerRow'
  BY DEF DeliveryInv, ServedOncePerRow
<1>2. ASSUME NEW h \in Handlers, Delivering(h)'
      PROVE  /\ \E r \in rows' : r.body = held'[h]
             /\ \A i \in 1..Len(served') : served'[i] # held'[h]
             /\ \A g \in Handlers \ {h} : Delivering(g)' => held'[g] # held'[h]
  BY <1>2 DEF DeliveryInv
<1>3. QED
  BY <1>1, <1>2 DEF DeliveryInv

\* The row that Record inserts is the first for its body, so nobody delivers or was
\* served that body yet.
LEMMA RecordDelivery ==
  ASSUME TypeInv, DeliveryInv, NEW h \in Handlers, Record(h), ~Done(h)
  PROVE  DeliveryInv'
<1>1. /\ pc' = [pc EXCEPT ![h] = "delivering"] /\ UNCHANGED <<held, served>>
      /\ \A r \in rows : r.body # held[h]
      /\ rows \subseteq rows' /\ \E r \in rows' : r.body = held[h]
  <2>1. ~Conflicts(voucher[h], held[h])
    BY DEF Record
  <2>2. \A r \in rows : r.body # held[h]
    BY <2>1 DEF Conflicts
  <2>3. /\ pc' = [pc EXCEPT ![h] = "delivering"] /\ UNCHANGED <<held, served>>
        /\ \E row : row.body = held[h] /\ rows' = rows \cup {row}
    BY <2>1 DEF Record
  <2> QED BY <2>2, <2>3
<1>2. ServedOncePerRow'
  BY <1>1 DEF DeliveryInv, ServedOncePerRow
<1>3. \A i \in 1..Len(served) : served[i] # held[h]
  BY <1>1 DEF DeliveryInv, ServedOncePerRow
<1>4. \A g \in Handlers : Delivering(g) => held[g] # held[h]
  BY <1>1 DEF DeliveryInv
<1>5. \A g \in Handlers : Delivering(g)' <=> g = h \/ Delivering(g)
  BY <1>1 DEF Delivering, TypeInv, TypeOK
<1>6. ASSUME NEW g \in Handlers, Delivering(g)'
      PROVE  /\ \E r \in rows' : r.body = held'[g]
             /\ \A i \in 1..Len(served') : served'[i] # held'[g]
             /\ \A k \in Handlers \ {g} : Delivering(k)' => held'[k] # held'[g]
  <2>1. CASE g = h
    BY <1>1, <1>3, <1>4, <1>5, <2>1
  <2>2. CASE g # h /\ Delivering(g)
    BY <1>1, <1>4, <1>5, <2>2 DEF DeliveryInv
  <2> QED BY <1>5, <1>6, <2>1, <2>2
<1>7. QED
  BY <1>2, <1>6 DEF DeliveryInv

\* What Deliver appends was not there, and no other handler is about to append it again.
LEMMA DeliverDelivery ==
  ASSUME TypeInv, DeliveryInv, NEW h \in Handlers, Deliver(h)
  PROVE  DeliveryInv'
<1>1. /\ Delivering(h) /\ served' = Append(served, held[h]) /\ UNCHANGED rows
      /\ pc' = [pc EXCEPT ![h] = "idle"] /\ held' = [held EXCEPT ![h] = NoOffer]
  BY DEF Deliver, Done, Delivering
<1>2. served \in Seq(Body) /\ held[h] \in Body
  BY <1>1 DEF TypeInv, TypeOK, HandlerOK, Delivering
<1>3. /\ Len(served') = Len(served) + 1 /\ Len(served) \in Nat
      /\ served'[Len(served) + 1] = held[h]
      /\ \A i \in 1..Len(served) : served'[i] = served[i]
  BY <1>1, <1>2
<1>4. /\ \E r \in rows : r.body = held[h]
      /\ \A i \in 1..Len(served) : served[i] # held[h]
      /\ \A g \in Handlers \ {h} : Delivering(g) => held[g] # held[h]
  BY <1>1 DEF DeliveryInv
<1>5. ServedOncePerRow'
  <2>1. ASSUME NEW i \in 1..Len(served')
        PROVE  \E r \in rows' : r.body = served'[i]
    BY <1>1, <1>3, <1>4, <2>1 DEF DeliveryInv, ServedOncePerRow
  <2>2. ASSUME NEW i \in 1..Len(served'), NEW j \in 1..Len(served'), served'[i] = served'[j]
        PROVE  i = j
    BY <1>3, <1>4, <2>2 DEF DeliveryInv, ServedOncePerRow
  <2> QED BY <2>1, <2>2 DEF ServedOncePerRow
<1>6. \A g \in Handlers : Delivering(g)' => g # h /\ Delivering(g) /\ held'[g] = held[g]
  BY <1>1 DEF Delivering, TypeInv, TypeOK
<1>7. ASSUME NEW g \in Handlers, Delivering(g)'
      PROVE  /\ \E r \in rows' : r.body = held'[g]
             /\ \A i \in 1..Len(served') : served'[i] # held'[g]
             /\ \A k \in Handlers \ {g} : Delivering(k)' => held'[k] # held'[g]
  <2>1. g # h /\ Delivering(g) /\ held'[g] = held[g]
    BY <1>6, <1>7
  <2>2. /\ \E r \in rows : r.body = held[g]
        /\ \A i \in 1..Len(served) : served[i] # held[g]
        /\ \A k \in Handlers \ {g} : Delivering(k) => held[k] # held[g]
    BY <2>1 DEF DeliveryInv
  <2>3. \A i \in 1..Len(served') : served'[i] # held'[g]
    BY <1>3, <1>4, <2>1, <2>2
  <2> QED BY <1>1, <1>6, <2>1, <2>2, <2>3
<1>8. QED
  BY <1>5, <1>7 DEF DeliveryInv

\* The steps of the handlers keep DeliveryInv.
LEMMA HandlerDelivery ==
  ASSUME TypeInv, DeliveryInv, NEW h \in Handlers, HandlerStep(h)
  PROVE  DeliveryInv'
<1> USE DEF Delivering
<1>1. ASSUME NEW w \in Works, Quote(h, w)
      PROVE  DeliveryInv'
  BY <1>1, QuietDelivery DEF Quote, TypeInv, TypeOK
<1>2. CASE Hold(h)
  BY <1>2, DoneQuiet, QuietDelivery DEF Hold
<1>3. ASSUME NEW o \in offers, Present(h, o)
      PROVE  DeliveryInv'
  BY <1>3, QuietDelivery DEF Present, TypeInv, TypeOK
<1>4. CASE ReadSnapshot(h)
  <2>1. CASE Done(h)
    BY <1>4, <2>1, DoneQuiet, QuietDelivery DEF ReadSnapshot
  <2>2. CASE ~Done(h)
    BY <1>4, <2>2, QuietDelivery DEF ReadSnapshot, TypeInv, TypeOK
  <2> QED BY <2>1, <2>2
<1>5. ASSUME NEW v \in Presentable, Verify(h, v)
      PROVE  DeliveryInv'
  BY <1>5, QuietDelivery DEF Verify, TypeInv, TypeOK
<1>6. CASE Refuse(h)
  BY <1>6, DoneQuiet, QuietDelivery DEF Refuse
<1>7. CASE Record(h)
  <2>1. CASE Done(h)
    BY <1>7, <2>1, DoneQuiet, QuietDelivery DEF Record
  <2>2. CASE ~Done(h)
    BY <1>7, <2>2, RecordDelivery
  <2> QED BY <2>1, <2>2
<1>8. CASE Deliver(h)
  BY <1>8, DeliverDelivery
<1>9. QED
  BY <1>1, <1>2, <1>3, <1>4, <1>5, <1>6, <1>7, <1>8 DEF HandlerStep

(***************************************************************************)
(* Content leaves the gateway once per receipt and never without one,      *)
(* whatever requests race, are replayed or die with the process.           *)
(***************************************************************************)
THEOREM ServesOnce == Spec => []ServedOncePerRow
<1>1. Init => DeliveryInv
  BY DEF Init, DeliveryInv, ServedOncePerRow, Delivering
<1>2. TypeInv /\ DeliveryInv /\ [Next]_vars => DeliveryInv'
  <2> SUFFICES ASSUME TypeInv, DeliveryInv, [Next]_vars PROVE DeliveryInv'
    OBVIOUS
  <2>1. CASE ChainStep
    <3>1. UNCHANGED <<rows, served, handlerVars>>
      BY <2>1 DEF ChainStep, OpenEscrow, Deposit, RequestWithdraw, Withdraw, Settle, SetRate, Tick
    <3> QED BY <3>1, QuietDelivery DEF Delivering, handlerVars
  <2>2. ASSUME NEW h \in Handlers, HandlerStep(h)
        PROVE  DeliveryInv'
    BY <2>2, HandlerDelivery
  <2>3. CASE Crash
    BY <2>3, QuietDelivery DEF Crash, Delivering
  <2>4. CASE UNCHANGED vars \/ \E o \in offers : Forget(o)
    BY <2>4, QuietDelivery DEF vars, Forget, handlerVars, Delivering
  <2> QED BY <2>1, <2>2, <2>3, <2>4 DEF Next
<1>3. DeliveryInv => ServedOncePerRow
  BY DEF DeliveryInv
<1>4. QED
  BY <1>1, <1>2, <1>3, TypeInvariant, PTL DEF Spec
=============================================================================
