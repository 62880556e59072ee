--------------------------- MODULE EscrowProgram ---------------------------
(***************************************************************************)
(* The deployed program with one agent and the operator, neither of them   *)
(* trusted: the agent signs any voucher it likes, and the operator settles *)
(* any signed voucher with any tariffs the instruction lets through.       *)
(***************************************************************************)
EXTENDS EscrowAccount, Sequences, FiniteSets

CONSTANTS
  Chains,        \* values of the agent's hash chain
  Vouchers,      \* the vouchers the agent may sign
  Roots,         \* Merkle roots the operator may anchor
  Amounts,       \* amounts the agent may deposit
  Tariffs,       \* totals the operator may put on the payout legs
  RingLen,       \* SETTLEMENT_RING_LEN
  Supply,        \* tokens in the agent's wallet at the start (bound)
  MaxClock,      \* bound on the clock
  NoAccount

Account == AccountType(Chains \cup {ZeroChain})

ASSUME ProgramAssumption ==
  /\ Vouchers \subseteq [seq : 1..MaxU64, cumulative : 0..MaxU64, chain : Chains]
  /\ Amounts \subseteq Nat
  /\ Tariffs \subseteq Nat
  /\ RingLen \in Nat \ {0}
  /\ Supply \in Nat
  /\ MaxClock \in Nat
  /\ NoAccount \notin Account

VARIABLES
  account,       \* the Escrow account with its vault, or NoAccount
  ring,          \* the SettlementLog account
  signed,        \* vouchers the agent has put its signature on
  clock,         \* Clock::unix_timestamp
  wallet,        \* tokens outside the vault that may still enter it
  paid,          \* tokens in the publishers' accounts
  treasury,      \* tokens in the treasury
  settlements,   \* every entry ever pushed, oldest first (history)
  standing       \* when the withdrawal request now standing was made, or -1 (history)

balances == <<wallet, paid, treasury>>

vars == <<account, ring, signed, clock, balances, settlements, standing>>

-----------------------------------------------------------------------------
(* The ring: a fixed array and the index of the next write.                *)

NoEntry == [seq_end |-> 0]

EmptyRing == [head |-> 0, entries |-> [i \in 0..RingLen - 1 |-> NoEntry]]

\* Mutant of Push: the head never wraps.
PushPastEnd(r, entry) ==
  [head    |-> r.head + 1,
   entries |-> [r.entries EXCEPT ![r.head] = entry]]

Push(r, entry) ==
  [head    |-> (r.head + 1) % RingLen,
   entries |-> [r.entries EXCEPT ![r.head] = entry]]

\* Mutant of Latest: the slot the next write goes to.
NextWrite(r) == r.entries[r.head]

Latest(r) == r.entries[(r.head + RingLen - 1) % RingLen]

Find(r, seq) == {e \in {r.entries[i] : i \in 0..RingLen - 1} : e.seq_end = seq}

-----------------------------------------------------------------------------

Init ==
  /\ account = NoAccount
  /\ ring = EmptyRing
  /\ signed = {}
  /\ clock = 0
  /\ wallet = Supply /\ paid = 0 /\ treasury = 0
  /\ settlements = << >>
  /\ standing = -1

IsOpen == account # NoAccount

\* `init` makes a second open_escrow fail.
OpenEscrow ==
  /\ ~IsOpen
  /\ account' = Opened
  /\ UNCHANGED <<ring, signed, clock, balances, settlements, standing>>

Deposit(amount) ==
  /\ IsOpen
  /\ amount <= wallet
  /\ account' = AfterDeposit(account, amount)
  /\ wallet' = wallet - amount
  /\ standing' = -1
  /\ UNCHANGED <<paid, treasury, ring, signed, clock, settlements>>

RequestWithdraw ==
  /\ IsOpen
  /\ account' = AfterRequest(account, clock)
  /\ standing' = clock
  /\ UNCHANGED <<ring, signed, clock, balances, settlements>>

Withdraw ==
  /\ IsOpen
  /\ CanWithdraw(account, clock)
  /\ account' = AfterWithdraw(account)
  /\ wallet' = wallet + account.vault
  /\ standing' = -1
  /\ UNCHANGED <<paid, treasury, ring, signed, clock, settlements>>

\* A plain token transfer into the vault: the program does not run, the request stands.
Gift(amount) ==
  /\ IsOpen
  /\ amount <= wallet
  /\ account' = Credited(account, amount)
  /\ wallet' = wallet - amount
  /\ UNCHANGED <<paid, treasury, ring, signed, clock, settlements, standing>>

\* Off chain: the agent's signature is all the program ever sees of it.
Sign(v) ==
  /\ v \notin signed
  /\ signed' = signed \cup {v}
  /\ UNCHANGED <<account, ring, clock, balances, settlements, standing>>

SettleBatch(v, tariffs, root) ==
  /\ IsOpen
  /\ v \in signed
  /\ CanSettle(account, v, tariffs)
  /\ account' = AfterSettle(account, v)
  /\ paid' = paid + tariffs
  /\ treasury' = treasury + (Charged(account, v) - tariffs)
  /\ LET entry == [seq_end |-> v.seq, ts |-> clock, root |-> root, chain |-> v.chain]
     IN  /\ ring' = Push(ring, entry)
         /\ settlements' = Append(settlements, entry)
  /\ UNCHANGED <<wallet, signed, clock, standing>>

Tick ==
  /\ clock < MaxClock
  /\ clock' = clock + 1
  /\ UNCHANGED <<account, ring, signed, balances, settlements, standing>>

Next ==
  \/ OpenEscrow
  \/ \E amount \in Amounts : Deposit(amount)
  \/ \E amount \in Amounts : Gift(amount)
  \/ RequestWithdraw
  \/ Withdraw
  \/ \E v \in Vouchers : Sign(v)
  \/ \E v \in Vouchers, tariffs \in Tariffs, root \in Roots : SettleBatch(v, tariffs, root)
  \/ Tick

Spec == Init /\ [][Next]_vars

-----------------------------------------------------------------------------

Entry == [seq_end : Nat, ts : Nat, root : Roots, chain : Chains]

TypeOK ==
  /\ account \in Account \cup {NoAccount}
  /\ ring \in [head : 0..RingLen - 1, entries : [0..RingLen - 1 -> Entry \cup {NoEntry}]]
  /\ signed \subseteq Vouchers
  /\ clock \in Nat
  /\ wallet \in Nat /\ paid \in Nat /\ treasury \in Nat
  /\ settlements \in Seq(Entry)
  /\ standing \in Nat \cup {-1}

\* Over any history of deposits, settlements and exits, what left the vault for
\* payees and treasury is exactly the cumulative of one voucher the agent signed, and
\* the settled position is that voucher's: the operator cannot take a unit more.
NeverBeyondSigned ==
  IsOpen =>
    /\ account.settled_total = paid + treasury
    /\ \/ account.last_seq = 0 /\ account.settled_total = 0
       \/ \E v \in signed : /\ v.seq = account.last_seq
                            /\ v.cumulative = account.settled_total
                            /\ v.chain = account.last_chain

\* The treasury's share of everything ever settled stays between the fee on the
\* summed tariffs and that fee rounded up once per receipt, whatever the batches were
\* cut into and however the operator split each charge.
FeeWithinTerms ==
  IsOpen =>
    /\ paid * FeeBps <= treasury * MAX_BPS
    /\ treasury * MAX_BPS <= paid * FeeBps + account.last_seq * MAX_BPS

\* The ring's find and latest answer as if it kept the whole history, for the last
\* RingLen settlements, and find nothing for the ones it has overwritten.
RingIsRecent ==
  LET n == Len(settlements)
  IN  /\ Latest(ring) = IF n = 0 THEN NoEntry ELSE settlements[n]
      /\ \A i \in 1..n :
           Find(ring, settlements[i].seq_end)
             = IF i > n - RingLen THEN {settlements[i]} ELSE {}

\* No step moves the settled position back, an exit and a return included, and nothing
\* is charged without consuming a later seq: a settled voucher cannot settle again.
PositionOnlyAdvances ==
  [][IsOpen => /\ IsOpen'
               /\ account'.last_seq >= account.last_seq
               /\ account'.settled_total >= account.settled_total
               /\ account'.settled_total # account.settled_total
                    => account'.last_seq > account.last_seq]_vars

\* Tokens leave the vault outside a settlement only once Grace has passed since a
\* request that no deposit and no earlier exit has used up.
ExitHonoursGrace ==
  [][(/\ IsOpen
      /\ account'.vault < account.vault
      /\ account'.last_seq = account.last_seq)
     => standing # -1 /\ clock >= standing + Grace]_vars
=============================================================================
