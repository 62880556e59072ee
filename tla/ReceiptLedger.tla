--------------------------- MODULE ReceiptLedger ---------------------------
(***************************************************************************)
(* What an agent, a publisher and a reader of the public record are        *)
(* promised of one agent's receipts: receipts are paid for in order, each  *)
(* exactly once and exactly its tariff, and only what is paid for is       *)
(* published.  There is no chain, no database and no settler here.         *)
(***************************************************************************)
EXTENDS Naturals, Sequences, FiniteSetsExt

CONSTANTS Domains, Tariffs

VARIABLES
  accepted,    \* the receipts, in seq order
  settled,     \* how many of them are paid for
  published,   \* how many of them the public record holds
  paid         \* what each domain has been paid

ledger == <<accepted, settled, published, paid>>

Receipt == [domain : Domains, tariff : Tariffs]

\* What receipts from..to owe to a domain.
Owed(receipts, from, to, d) ==
  SumFunctionOnSet([n \in DOMAIN receipts |-> receipts[n].tariff],
                   {n \in from..to : receipts[n].domain = d})

LedgerInit ==
  /\ accepted = << >> /\ settled = 0 /\ published = 0
  /\ paid = [d \in Domains |-> 0]

Accept(r) ==
  /\ accepted' = Append(accepted, r)
  /\ UNCHANGED <<settled, published, paid>>

SettleTo(n) ==
  /\ settled' = n
  /\ paid' = [d \in Domains |-> paid[d] + Owed(accepted, settled + 1, n, d)]
  /\ UNCHANGED <<accepted, published>>

PublishTo(n) ==
  /\ published' = n
  /\ UNCHANGED <<accepted, settled, paid>>

LedgerNext ==
  \/ \E r \in Receipt : Accept(r)
  \/ \E n \in settled + 1..Len(accepted) : SettleTo(n)
  \/ \E n \in published + 1..settled : PublishTo(n)

LedgerSpec == LedgerInit /\ [][LedgerNext]_ledger
=============================================================================
