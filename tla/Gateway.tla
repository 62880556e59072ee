------------------------------ MODULE Gateway ------------------------------
(***************************************************************************)
(* The paid path of the gateway for one agent: concurrent request handlers *)
(* that quote a work, hold a draft receipt in memory, and record the       *)
(* agent's voucher in Postgres, while the agent moves money in and out of  *)
(* its escrow and the owner changes the terms.  A handler's step ends where*)
(* the code awaits, so whatever it read may be stale when it goes on.      *)
(*                                                                         *)
(* The agent is not trusted.  The voucher it presents is not looked at     *)
(* before verifyVoucher, so the model picks it there, among all of them.   *)
(* Agents share nothing but the registry, so one agent is enough.          *)
(***************************************************************************)
EXTENDS EscrowAccount, Sequences, FiniteSets

CONSTANTS
  Handlers,      \* requests the gateway serves at a time
  OfferIds,      \* ids of held offers (bound on the offers in memory)
  Works,
  RateChoices,   \* tariffs an owner may set
  Amounts,       \* amounts the agent may deposit
  RequestTime,   \* the longest a handler takes from its registry read to its commit
  MaxSeq, MaxTotal, MaxVault, MaxEra, MaxClock,   \* bounds
  Unlicensed, NoAccount

Price(tariff) == tariff + ReceiptFee(tariff)

\* A draft receipt.  `offer` stands for all that sets two drafts apart besides these
\* fields: acceptedAt, the use type, the bytes held with it.
Body == [offer : OfferIds, work : Works, price : Nat, seq : Nat]

Account == AccountType(Seq(Body))

\* RequestTime < Grace: a request is over long before the 60 s that init_config makes
\* the least grace.  Nothing in the gateway enforces it.
ASSUME GatewayAssumption ==
  /\ RateChoices \subseteq Nat /\ Unlicensed \notin Nat
  /\ Amounts \subseteq Nat
  /\ RequestTime \in Nat /\ RequestTime < Grace
  /\ MaxSeq \in Nat /\ MaxTotal \in Nat /\ MaxVault \in Nat /\ MaxEra \in Nat /\ MaxClock \in Nat
  /\ ZeroChain = << >>
  /\ NoAccount \notin Account

VARIABLES
  account,   \* the agent's escrow as a confirmed read shows it
  era,       \* how often the agent has emptied its vault (history)
  clock,
  rates,     \* the tariff in force for each work, or Unlicensed
  rows,      \* the vouchers table joined with receipts
  served,    \* the bodies delivered with content, oldest first (history)
  offers,    \* the in-memory offer store
  pc,        \* where each handler is
  held,      \* the quote or the offer it works on
  snap,      \* the escrow it read
  readAt,    \* when it read it
  voucher    \* the voucher it verified

chainVars == <<account, era, clock, rates>>
handlerVars == <<pc, held, snap, readAt, voucher>>
vars == <<chainVars, rows, served, offers, handlerVars>>

NoVoucher == [seq |-> 0, cumulative |-> 0, chain |-> << >>]
NoOffer == [seq |-> 0]

IsOpen(a) == a # NoAccount

Init ==
  /\ account = NoAccount /\ era = 0 /\ clock = 0
  /\ rates \in [Works -> RateChoices]
  /\ rows = {} /\ served = << >> /\ offers = {}
  /\ pc = [h \in Handlers |-> "idle"]
  /\ held = [h \in Handlers |-> NoOffer]
  /\ snap = [h \in Handlers |-> NoAccount]
  /\ readAt = [h \in Handlers |-> 0]
  /\ voucher = [h \in Handlers |-> NoVoucher]

-----------------------------------------------------------------------------
(* The chain: what the agent, the settler and the owners do meanwhile.     *)

OpenEscrow ==
  /\ ~IsOpen(account)
  /\ account' = Opened
  /\ UNCHANGED <<era, clock, rates, rows, served, offers, handlerVars>>

Deposit(amount) ==
  /\ IsOpen(account)
  /\ account.vault + amount <= MaxVault
  /\ account' = AfterDeposit(account, amount)
  /\ UNCHANGED <<era, clock, rates, rows, served, offers, handlerVars>>

RequestWithdraw ==
  /\ IsOpen(account)
  /\ account' = AfterRequest(account, clock)
  /\ UNCHANGED <<era, clock, rates, rows, served, offers, handlerVars>>

Withdraw ==
  /\ IsOpen(account) /\ CanWithdraw(account, clock)
  /\ era < MaxEra
  /\ account' = AfterWithdraw(account)
  /\ era' = era + 1
  /\ UNCHANGED <<clock, rates, rows, served, offers, handlerVars>>

\* The settler submits a recorded voucher; Settler says which one and with what legs.
Settle(row) ==
  /\ IsOpen(account)
  /\ \E tariffs \in 0..Charged(account, row) : CanSettle(account, row, tariffs)
  /\ account' = AfterSettle(account, row)
  /\ UNCHANGED <<era, clock, rates, rows, served, offers, handlerVars>>

SetRate(w, rate) ==
  /\ rates' = [rates EXCEPT ![w] = rate]
  /\ UNCHANGED <<account, era, clock, rows, served, offers, handlerVars>>

Tick ==
  /\ clock < MaxClock
  /\ \A h \in Handlers : pc[h] \in {"checking", "recording"} => clock < readAt[h] + RequestTime
  /\ clock' = clock + 1
  /\ UNCHANGED <<account, era, rates, rows, served, offers, handlerVars>>

-----------------------------------------------------------------------------
(* The gateway's decisions.                                                *)

OnChain(a) == [seq |-> a.last_seq, cumulative |-> a.settled_total, chain |-> a.last_chain]

\* loadPosition: the stored voucher with the highest seq, else the escrow's own position.
loadPosition(a) ==
  IF rows = {} THEN {OnChain(a)} ELSE {r \in rows : \A other \in rows : other.seq <= r.seq}

\* Mutants of checkFunds: a standing request is not looked at; any money will do.
FundsIgnoringRequest(a, cumulative) == cumulative - a.settled_total <= a.vault

FundsOfAnyVault(a, cumulative) == a.withdraw_after = 0 /\ a.vault > 0

checkFunds(a, cumulative) ==
  /\ a.withdraw_after = 0
  /\ cumulative - a.settled_total <= a.vault

verifyVoucher(v, body, previous) ==
  /\ v.seq = previous.seq + 1
  /\ v.seq = body.seq
  /\ v.cumulative - previous.cumulative = body.price
  /\ v.chain = Append(previous.chain, body)

\* The unique constraints: (consumer, seq) on vouchers and the receipt's id.
\* Mutant of Conflicts: tables without their unique constraints.
NeverConflicts(v, body) == FALSE

Conflicts(v, body) == \E r \in rows : r.seq = v.seq \/ r.body = body

\* Everything the agent could sign over the drafts it has seen.
Presentable ==
  LET drafts == offers \cup {held[h] : h \in {g \in Handlers : pc[g] = "checking"}}
      chains == {<< >>} \cup {r.chain : r \in rows}
  IN  [seq : 1..MaxSeq, cumulative : 0..MaxTotal,
       chain : {Append(c, b) : c \in chains, b \in drafts}]

-----------------------------------------------------------------------------
(* A request without a voucher: quote, draft, hold.                        *)

\* Nothing below reads what the handler has read so far.
Drop(h) ==
  /\ snap' = [snap EXCEPT ![h] = NoAccount]
  /\ readAt' = [readAt EXCEPT ![h] = 0]
  /\ voucher' = [voucher EXCEPT ![h] = NoVoucher]

Done(h) ==
  /\ pc' = [pc EXCEPT ![h] = "idle"]
  /\ held' = [held EXCEPT ![h] = NoOffer]
  /\ Drop(h)

\* offer up to its registry read, when the work is licensed and the escrow exists.
Quote(h, w) ==
  /\ pc[h] = "idle"
  /\ rates[w] # Unlicensed
  /\ IsOpen(account)
  /\ pc' = [pc EXCEPT ![h] = "quoted"]
  /\ held' = [held EXCEPT ![h] = [work |-> w, price |-> Price(rates[w])]]
  /\ snap' = [snap EXCEPT ![h] = account]
  /\ UNCHANGED <<chainVars, rows, served, offers, readAt, voucher>>

\* The rest of offer.  Only the agent learns the id, so a draft put later is a draft
\* presented later.
Hold(h) ==
  /\ pc[h] = "quoted"
  /\ \E position \in loadPosition(snap[h]) :
       LET seq == position.seq + 1
       IN  IF checkFunds(snap[h], position.cumulative + held[h].price) /\ seq <= MaxSeq
           THEN \E id \in OfferIds \ {o.offer : o \in offers} :
                  offers' = offers \cup {[offer |-> id, work |-> held[h].work,
                                          price |-> held[h].price, seq |-> seq]}
           ELSE UNCHANGED offers
  /\ Done(h)
  /\ UNCHANGED <<chainVars, rows, served>>

\* An offer expires, or is evicted for the bytes of a newer one.
Forget(o) ==
  /\ offers' = offers \ {o}
  /\ UNCHANGED <<chainVars, rows, served, handlerVars>>

-----------------------------------------------------------------------------
(* A request with a voucher: settle.                                       *)

\* offers.get found the offer; when it does not, the request goes on as Quote.
Present(h, o) ==
  /\ pc[h] = "idle"
  /\ pc' = [pc EXCEPT ![h] = "presented"]
  /\ held' = [held EXCEPT ![h] = o]
  /\ UNCHANGED <<chainVars, rows, served, offers, snap, readAt, voucher>>

ReadSnapshot(h) ==
  /\ pc[h] = "presented"
  /\ IF rates[held[h].work] = Unlicensed \/ ~IsOpen(account)
     THEN Done(h)
     ELSE /\ pc' = [pc EXCEPT ![h] = "checking"]
          /\ snap' = [snap EXCEPT ![h] = account]
          /\ readAt' = [readAt EXCEPT ![h] = clock]
          /\ UNCHANGED <<held, voucher>>
  /\ UNCHANGED <<chainVars, rows, served, offers>>

\* loadPosition, verifyVoucher and checkFunds against the snapshot.
Verify(h, v) ==
  /\ pc[h] = "checking"
  /\ \E position \in loadPosition(snap[h]) : verifyVoucher(v, held[h], position)
  /\ checkFunds(snap[h], v.cumulative)
  /\ pc' = [pc EXCEPT ![h] = "recording"]
  /\ voucher' = [voucher EXCEPT ![h] = v]
  /\ UNCHANGED <<chainVars, rows, served, offers, held, snap, readAt>>

\* Some voucher the agent can present always fails those checks.
Refuse(h) ==
  /\ pc[h] = "checking"
  /\ Done(h)
  /\ UNCHANGED <<chainVars, rows, served, offers>>

\* Mutant of Record: a conflicting insert is taken for a retry and answered with content.
RecordReplays(h) ==
  /\ pc[h] = "recording"
  /\ rows' = IF Conflicts(voucher[h], held[h]) THEN rows
             ELSE rows \cup {[seq        |-> voucher[h].seq,
                              cumulative |-> voucher[h].cumulative,
                              chain      |-> voucher[h].chain,
                              body       |-> held[h],
                              era        |-> era]}
  /\ pc' = [pc EXCEPT ![h] = "delivering"]
  /\ Drop(h)
  /\ UNCHANGED <<chainVars, served, offers, held>>

\* recordEscrowIssuance: one transaction, refused as a replay by the constraints alone.
Record(h) ==
  /\ pc[h] = "recording"
  /\ IF Conflicts(voucher[h], held[h])
     THEN /\ Done(h)
          /\ UNCHANGED rows
     ELSE /\ rows' = rows \cup {[seq        |-> voucher[h].seq,
                                 cumulative |-> voucher[h].cumulative,
                                 chain      |-> voucher[h].chain,
                                 body       |-> held[h],
                                 era        |-> era]}
          /\ pc' = [pc EXCEPT ![h] = "delivering"]
          /\ UNCHANGED held
          /\ Drop(h)
  /\ UNCHANGED <<chainVars, served, offers>>

Deliver(h) ==
  /\ pc[h] = "delivering"
  /\ offers' = offers \ {held[h]}
  /\ served' = Append(served, held[h])
  /\ Done(h)
  /\ UNCHANGED <<chainVars, rows>>

\* The process stops and is started again: requests in flight and offers are lost.
Crash ==
  /\ offers' = {}
  /\ pc' = [h \in Handlers |-> "idle"]
  /\ held' = [h \in Handlers |-> NoOffer]
  /\ snap' = [h \in Handlers |-> NoAccount]
  /\ readAt' = [h \in Handlers |-> 0]
  /\ voucher' = [h \in Handlers |-> NoVoucher]
  /\ UNCHANGED <<chainVars, rows, served>>

ChainStep ==
  \/ OpenEscrow
  \/ \E amount \in Amounts : Deposit(amount)
  \/ RequestWithdraw
  \/ Withdraw
  \/ \E row \in rows : Settle(row)
  \/ \E w \in Works, rate \in RateChoices \cup {Unlicensed} : SetRate(w, rate)
  \/ Tick

HandlerStep(h) ==
  \/ \E w \in Works : Quote(h, w)
  \/ Hold(h)
  \/ \E o \in offers : Present(h, o)
  \/ ReadSnapshot(h)
  \/ \E v \in Presentable : Verify(h, v)
  \/ Refuse(h)
  \/ Record(h)
  \/ Deliver(h)

Next ==
  \/ ChainStep
  \/ \E h \in Handlers : HandlerStep(h)
  \/ \E o \in offers : Forget(o)
  \/ Crash

Spec == Init /\ [][Next]_vars

-----------------------------------------------------------------------------

Quoted == [work : Works, price : Nat]

Voucher == [seq : Nat, cumulative : Nat, chain : Seq(Body)]

Row == [seq : Nat, cumulative : Nat, chain : Seq(Body), body : Body, era : Nat]

TypeOK ==
  /\ account \in Account \cup {NoAccount}
  /\ era \in Nat /\ clock \in Nat
  /\ rates \in [Works -> RateChoices \cup {Unlicensed}]
  /\ rows \subseteq Row
  /\ served \in Seq(Body)
  /\ offers \subseteq Body
  /\ pc \in [Handlers -> {"idle", "quoted", "presented", "checking", "recording", "delivering"}]
  /\ held \in [Handlers -> Body \cup Quoted \cup {NoOffer}]
  /\ snap \in [Handlers -> Account \cup {NoAccount}]
  /\ readAt \in [Handlers -> Nat]
  /\ voucher \in [Handlers -> Voucher]

\* Whatever requests race, the stored vouchers are one history: seqs 1..n, each
\* cumulative the one before plus its receipt's price, each chain value committing to
\* exactly the receipts before it.  The settler composes batches from nothing else.
RowsChained ==
  /\ \A r, q \in rows : r.seq = q.seq => r = q
  /\ \A r \in rows :
       /\ r.body.seq = r.seq
       /\ \/ /\ r.seq = 1
             /\ r.cumulative = r.body.price
             /\ r.chain = <<r.body>>
          \/ \E p \in rows :
               /\ p.seq = r.seq - 1
               /\ r.cumulative = p.cumulative + r.body.price
               /\ r.chain = Append(p.chain, r.body)

\* Everything accepted since the agent last emptied its vault can be settled in full:
\* a confirmed snapshot, however old, never promises more than the vault still holds.
Solvent ==
  \A r \in rows :
    r.era = era => /\ IsOpen(account)
                   /\ r.cumulative <= account.settled_total + account.vault

\* Content leaves the gateway once per receipt and never without one, through replays,
\* races for one seq, and crashes.
ServedOncePerRow ==
  /\ \A i \in 1..Len(served) : \E r \in rows : r.body = served[i]
  /\ \A i, j \in 1..Len(served) : served[i] = served[j] => i = j

\* A voucher accepted while a withdrawal stands leaves the settler all of the grace but
\* one request's time to settle it.
AcceptedInTime ==
  [][rows' # rows => \/ account.withdraw_after = 0
                     \/ clock + (Grace - RequestTime) <= account.withdraw_after]_vars
=============================================================================
