# ContentLedger in TLA+

ContentLedger sells licensed content to software agents.  An agent keeps money in an
on-chain escrow and pays for each work with a signed *voucher*; a gateway checks the voucher,
records it with a receipt and serves the content; a settler gathers recorded vouchers into
batches and settles them on chain, which pays the publishers.  Agents without an escrow pay
per request with an ordinary transfer (x402).  Publishers register their domains and works
on chain and watch receipts and figures in a dashboard.

These modules model the parts of that system where a mistake moves money, loses a receipt or
tells somebody something that is not so.  TLC checks small instances of them; TLAPS proves for every
instance each safety invariant and action property that those checks find to hold, and the
refinement of the abstract ledger.  Liveness is TLC's alone.  `PROJECT.json` lists
components, runs, mutants, the source lines behind each definition, hazards and theorems;
this file explains them.

## The system

| part | state | operations | talks to |
|---|---|---|---|
| on-chain program (`packages/program`) | `Config`, one `Escrow` with its vault and `SettlementLog` per agent, `Domain`s, `Work`s | open_escrow, deposit, request_withdraw, withdraw, settle_batch; register and set rates or status | agents, publishers, settler send transactions |
| gateway, paid path (`apps/gateway/src/routes/content.ts`) | Postgres: receipts, vouchers, a mirror of the registry; memory: held offers | GET /v1/content without payment (402 with a draft), with a voucher, with an x402 payment | reads the chain at `confirmed`, inserts rows, tells the live feed |
| settler (`apps/settler`) | Postgres: batches, `receipts.settled_at`, heartbeat; nothing in memory between passes | a pass: load pending vouchers, per agent read the escrow at `finalized`, recover or compose, submit, wait, record | the chain; Postgres, also NOTIFY |
| agent (`tools/agent-sim`) | a journal file: position, doubtful vouchers, pending payments | request a work, resolve doubts, pay by voucher or x402 | gateway, chain |
| live feed (`publisher/listen.ts`, `feed.ts`, `stream.ts`, web `follow.ts`, `feed.ts`) | listeners, one LISTEN session, the browser's rows | receipt, settlement, resync events; snapshot and older pages | Postgres, browser |
| sign-in (`routes/auth.ts`, web `auth/`) | challenges, sessions; the tab's session and wallet | challenge, verify, require session, sign out | Postgres, the wallet |
| cabinet (`publisher/`, web `lib/`) | none but a token bucket per address | prepare a registration or a change, say how a transaction went, figures of a period | Postgres, chain, browser |
| public record (`routes/public.ts`) and `tools/verify-receipt` | none | receipts, batches and proofs; an independent verification of them | Postgres; the chain |
| `tools/seed-registry` | a plan made from a corpus | compare with the chain, apply what is missing | the chain |
| shared (`packages/shared`, `chain`, `db`) | none | fees, rates, receipts, Merkle trees, encodings, waiting for a signature | everyone |

What makes it hard: requests of one agent run concurrently in the gateway and each one
awaits the chain and the database between its checks; the agent can leave with the whole
vault after a grace period; the settler may be cut off at any await with a transaction on
the way, and has no log but the chain; reads are at `confirmed` in the gateway and at
`finalized` in the settler; the agent's answers get lost and it knows only its journal; the
registry changes under everyone who read it; events, pages and answers cross each other on
the way to the browser; every process restarts by itself.  The `hazards` of
`PROJECT.json` name each of these at its line, with the property that watches it.

## Modules

```
EscrowAccount ──┬── EscrowProgram ── MCEscrowProgram        EscrowAccountProofs ──┬── EscrowProgramProofs
 (rules)        ├── Gateway ──────── MCGateway                                    ├── GatewayProofs
                └── Settler                                                       └── ReceiptProofs
                       │  │ refines
                       │ ReceiptLedger (abstract)
                       ├── PublicRecord ── MCSettler
                       └── MCSettlerDust

AgentJournal    Registry    Registration    SignIn    LiveFeed    Summary      each with MC<name>
```

`AgentJournalProofs`, `RegistryProofs` and `RegistrationProofs` extend the modules they are named after.
`ReceiptProofs` follows a receipt once it is accepted: it extends `PublicRecord` (with `Settler`) and
`Summary`.  `PublisherProofs` is about a publisher's browser: it extends `SignIn` and `LiveFeed`.

The lower row meets the upper one, and itself, at promises: `AgentJournal` takes the gateway's
history to be chained (`Gateway!RowsChained`), `Registry` is what `Gateway!SetRate` stands for,
`LiveFeed` and `Summary` start from rows as `Gateway` and `Settler` write them, and `Summary` takes
from `LiveFeed` that every change is an event or a resync in its place.

**EscrowAccount** holds the program's rules as operators on one account (the escrow and its
vault's balance): what `deposit`, `request_withdraw`, `withdraw` and `settle_batch` make of
it, when they are allowed, and `batch_fee`.  The three state machines share it, so the
gateway and the settler are checked against the same program that is checked by itself.

**EscrowProgram** is the program with an agent and an operator, neither trusted: the
agent signs any voucher of `Vouchers`, inconsistent ones included, the operator settles any
of them with any tariffs and roots.  The ring of settlements is modelled with its head and
slots.  `settlements` and `standing` are history variables.  A failed instruction is a
disabled action: a transaction that fails changes nothing.

**Gateway** is the paid path for one agent with several concurrent handlers.  One action is
what a handler does between two awaits (`Quote`, `Hold`, `Present`, `ReadSnapshot`, `Verify`,
`Record`, `Deliver`), so what it read may be stale when it goes on: `snap` is the escrow it
read, `held` the offer, `voucher` what it verified.  A chain value is the sequence of receipt
bodies it commits to; the hash is one-way, and two sequences give two values.  `offer` in a
body stands for everything that sets two drafts apart (`acceptedAt` above all).  The voucher a
request presents is chosen when it is verified, among all that can be signed over drafts
seen: before that the code only parses it.  `Record` is the database transaction with its
unique constraints; `Crash` loses offers and requests.  Agents share only the registry, so
one agent is enough.

**Settler** is the settler for one agent, with the agent and the gateway still going on.
`receipts` is the chained history that `Gateway` shows the table to be.  Transactions are
never forgotten: a `sent` one may land, fail or expire long after the pass that sent it ended.
`account` is the chain as the last landed transaction left it, `finalized` what a read
at `finalized` shows.  `Recover`, `Skip`, `Compose`, `Submit`, `Await` and `Record` follow
`settleAgent`; `Fault` ends a pass at any of its awaits, which is also what a restart does, as
the settler keeps nothing in memory from one pass to the next.

**ReceiptLedger** is the promise: receipts are accepted, settled in order, each paid once and
exactly, and published after that.  `Settler!ImplementsLedger` is the refinement.

**PublicRecord** extends Settler by what the gateway publishes of each batch and by the
independent verifier: RFC 6962 trees, inclusion proofs, the chain of batches and the
reconciliation of every payment with the finalized transaction.  A hash is the term it is taken
of, so two hashes are equal only if what they were taken of is.

**AgentJournal** is the paying agent on both rails with its journal, which alone outlives a
crash.  Each await is a boundary: a voucher is journaled as doubtful before it is sent, a
payment before it is broadcast.  The x402 half of the gateway is here too (`Present`,
`Redeem`, `Record`, `FetchFails`), since its only hard question, one payment and one receipt,
needs the agent's retries.  `rail.land` is `Broadcast` and then `Landing`, or `SendFails`: what the node
answers to the send decides at once, or the watched signature does later; each is followed by
`forgetPayment` where the code has it.  A voucher is the sequence of drafts it commits to.  `forgotten` and
`outdated` are history variables: why a payment was given up, and whose terms have changed since it was signed.

**Registry** is the program's registry with three readers that hold no lock: gateway requests
that quote from a snapshot and mirror it into tables later, publishers who register and change
anything at any time, and `seed-registry`, whose diff is old when its steps are applied.  Its plan is
a set of steps with an order (`Before`), which is the list that `buildSeedPlan` makes: no two of
its steps are equal.

**Registration** follows a prepared transaction until its sender knows how it went: the
gateway that assembles it from what it reads (`Examine`, `Assemble`), a wallet that may send it
without saying so, a network with forks that lose and a status cache that forgets, the two
reads of `registrationStatus` and the dashboard that asks until it has an answer; and
`awaitSignature`, watched by an agent that deposits, on the same network.

**SignIn** has challenges and sessions at the gateway, verifications that race between their
signature check and the transaction that burns the challenge, and a tab with a wallet
extension whose account changes at any moment while answers are on their way.

**LiveFeed** goes from the tables to the rows on the screen: NOTIFY, the LISTEN session with
its probe and echo, the lookup behind each event, the stream, and the browser's merge of
events, first pages and older pages.  A receipt is its place in the order of acceptance,
which is not that of insertion.

**Summary** is the figures of a period: the gateway's grouped read behind a token bucket that
another dashboard may empty, and the dashboard that reads again on every event, at most once in an
interval, and drops answers that were overtaken.

## Runs

| run | shows | bounds |
|---|---|---|
| escrow_program | the program's safety, against both parties | 4 vouchers, two of them for one seq with different cumulatives, one cheaper than its predecessor; ring of 2, so it wraps; a 25 % fee, so that one to three receipts round differently; clock to 3 with a grace of 2: a whole request, exit and second request |
| gateway_races | races for one seq, stale snapshots, crash | 2 handlers (every race here is between two), 2 offers, 2 seqs, one exit and return, a licence taken away and given back, clock 0..2 with a grace of 2 and requests of at most 1 |
| settler | a settler that is cut off, and what it publishes | 3 receipts in batches of at most 2, so passes go round the loop twice; 2 domains; 2 faults, enough for a submission to be overtaken by the next and that one cut off too; one exit |
| settler_live | every receipt is published in the end | 2 receipts, 2 faults, one exit, without symmetry |
| settler_dust | the exception to `PayoutsEqualPayments` (see Findings) | 3 receipts of one base unit, 1 fault |
| agent_journal | the journal and the gateway's x402 rail | 2 drafts, so a doubtful voucher and one after it; 2 attempts and 2 presentations, so every retry happens; 1 payment and 2 handlers that have it at the same time; 2 prices and no licence |
| agent_stranded | a journal that cannot be used again (see Findings) | the same without payments |
| live_feed | events, pages and resyncs that cross | 2 receipts and pages of 1, so that there is an older page; one fault: a stream or session lost, an answer failed, or a restart |
| registry | three readers of a registry that changes | 2 hosts, of which one has the work; 2 publishers, so that the wrong one can be first everywhere; 2 readers; 3 changes beside the seed's; a corpus whose domain and work are suspended and the work priced, so that each kind of step is there; 2 runs of the seed, so that one repairs or trips over what another left |
| registration | what is said of a transaction | the registration of a domain, of a work with its own rate, and a change of rate and status, of which 2 are sent, one after the other; a blockhash and the status cache last 1 block of 4, so a transaction can be forgotten while it is asked about; 1 lost answer or fork |
| sign_in | racing verifications and late answers | 2 accounts, 2 nonces, 2 verifications at a time, a session of 2 and a challenge of 1 in 3 units of time |
| summary | answers that cross, figures that agree and that arrive | 2 receipts that differ in consumer and method, the voucher's accepted up to a tick before its row is there; periods of 1 and 3 on a clock that goes from 1 to 2, so that a receipt leaves the short one; a bucket of 2; pauses that grow twice; 1 disturbance |

`MaxSeq`, `MaxVault`, `MaxTotal`, `MaxEra`, `MaxClock`, `MaxExits`, `MaxFaults`, `Supply`, `MaxDrafts`,
`Payments`, `Connections`, `MaxVerifying`, `MaxTime`, `MaxHeight`, `Attempts`, `MaxChanges`, `MaxRuns`,
`MaxTurns`, `Snapshots`, `OpensAt`, `Lag` and `N` are bounds; nothing in the code corresponds to them.  `MCSettler` has two
preconditions: `AboveDust`, which the theorems about the settler have too, says that no tariff is below
`SETTLE_MAX_BATCH_SIZE - 1` base units (the deployed prices are around a thousand),
`ProofsFitTheirLeaves` that an inclusion proof verifies for its own leaf and no other, in trees of every
size up to 9, and is no longer than a tree of that size is high.  The first half is also the theorem
`ProofFitsItsLeaf`, for every size.  Deadlock checking is off where the bounds
let everything come to rest: when all is published, shown or used up there is nothing left to do.

Five configurations are kept beside these to be run by hand.  `MCGatewayPrices.cfg` changes
prices while an offer is held; it passes, and says nothing that `Solvency` and `OneHistory` do
not prove for all prices.  The others are violated, and explained at the end of Findings:
`MCAgentResends.cfg`, `MCAgentForgets.cfg`, `MCLiveFeedBack.cfg` and `MCSummaryBehind.cfg`.

The properties, in the order of what they protect:

- *the agent*: `NeverBeyondSigned`, `FeeWithinTerms`, `PositionOnlyAdvances` (no
  unit leaves a vault that the agent has not signed for, in fees neither, and nothing twice);
  `HistoryIsJournaled` and `DoubtsShareSeq` (whatever got lost, the history at the gateway is one its
  journal knows of, and it never has two vouchers at stake), `LandedIsAccounted` (a payment that landed is
  lost in three places of the code only), `RedeemedOnce`, `WatchedTruly`;
- *the publisher's money*: `Solvent` and `AcceptedInTime` (what is accepted can be settled, and
  there is time to), `ExitHonoursGrace`, `PayoutsEqualPayments`, `EveryReceiptPublished`,
  `TermsAreTheHosts`, `SeededUnderOwner`;
- *the record*: `RowsChained`, `ServedOncePerRow`, `BatchesAreAnchored`, `Recoverable`,
  `RingIsRecent`, `ImplementsLedger` for all of it together, `PublishedIsVerifiable` for those who
  trust nobody, `MirrorKeepsUp`;
- *what the publisher sees and does*: `OneSessionPerChallenge`, `SessionLasts`, `ScreenIsTheirs`,
  `ToldTruly`, `LandsAsAsked`, `AskingEnds`, `NoGap`, `StaleIsExplained`, `SettlementsStandAbove`,
  `SettlementsArrive`, `FiguresAgree`, `NeverOlder`, `FiguresArrive`.

### Fairness

*settler_live.*  `WF(SettlerStep)`: `main.ts` schedules the next
pass whatever became of the last, and nothing in a pass waits for ever, since
`awaitSignature` ends when the transaction is final or its blockhash too old.
`SF(Compose)`: a receipt that is not due for number or request becomes due by age, and from
then on `isDue` is true in every pass; without clocks that is a choice that cannot be refused
for ever.  `WF` of landing and of finalizing is the cluster's; a transaction that no leader
takes expires instead, which uses up a fault.  Nothing is assumed of the agent, the gateway
or the number of faults but that it is finite.

*live_feed.*  `WF` of the gateway's and the browser's steps as wholes: the probe's interval, the
connection it makes, the database's answers, the browser's sockets and retries.  A session
that is deaf without knowing it stays so until a probe finds out: `Resubscribe` has no fairness.

*registration.*  `WF` of a new block, of the forgetting of forks that lost, and of the reads
of a poll.  Landing has none: a transaction may be ignored until it expires, and polls may fail,
up to `MaxFaults` of them.

*summary.*  `WF` of a second passing, of opening the stream, of the gateway's answers, and of the browser's
event loop: it goes on with some event, timer or answer while there is one, in no order that is assumed.  Other dashboards take tokens, streams drop and sessions end as they like, each a
bounded number of times.  That the pauses after failures grow is in the model because it is
needed: with a constant pause shorter than the refill, a nearly empty bucket would refuse the
summary for ever.

## Proofs

Every safety theorem rests on an inductive invariant that says more than the property: mostly how what a
process *has read or sent* relates to what is now true.  The paragraphs below name the parts of it that carry
the argument.  `TypeInv` is in each module
the types, with the shape each phase of a process gives its state.

**The program.**  `EscrowAccountProofs` has the lemmas about the rules: what rounding up bounds
(`CeilDivBounds`, `FeeAcceptedBounds`), and what each rule keeps of an account.
`EscrowProgramProofs` proves every property of `escrow_program`, for all constants that satisfy
`ConfigAssumption` and `ProgramAssumption`.  The types rest on "a settlement never charges more than the
vault holds", which `CanSettle` gives.

- `ChargesInv`: nothing is paid before an account is open, and then `NeverBeyondSigned` and
  `FeeWithinTerms`.  The fee conjunct adds, batch after batch, the bounds of one batch: slack
  is one unit less than the batch's receipts, and the rounding of the lowest fee at most one
  more, so the total never exceeds one unit per seq consumed.
- `RequestInv`: `withdraw_after` is the standing request's time plus `Grace`, or 0 when none
  stands.  With it the exit is an action property: a step that pays the agent back finds a
  request that has stood for the whole grace period.
- `RingInv`: going back from the head the slots hold the settlements from the last to the first,
  and their seqs rise from 1.  Rising makes `find` unambiguous; positive, it cannot answer with a
  slot that was never written.

**The gateway.**  `GatewayProofs` proves all five properties of `gateway_races`, for any number of
handlers and offers.

- `FundsInv` (for `Solvent` and `AcceptedInTime`): a snapshot is no newer than the era it was read in, one read in
  this era with no request in it promises at most `settled_total + vault`, and a verified
  voucher is backed likewise.  The vault never shrinks but by settlements until the agent
  exits; an exit needs a request at least `Grace` old, and a snapshot taken before that
  request is older than `RequestTime`, so no handler still holds one.  That is the place
  where the assumption `RequestTime < Grace` is needed (requests are over within a minute,
  the least grace `init_config` accepts); the code does not enforce it.
- `HistoryInv` (for `RowsChained`): what a handler verified continues some row or the history
  the table starts from, and the unique constraint on seq makes that row the last one when
  its own row goes in.
- `DeliveryInv` (for `ServedOncePerRow`): a handler that is about to deliver holds the body of a row
  that nobody has delivered and nobody else is about to.

**The settler.**  `ReceiptProofs` proves the safety of `settler`, for any
history of receipts, any cuts into batches, any number of faults, and transactions that land at any
later time.  Its theorems assume `AboveDust`, and `settler_dust` shows that they must: without it the
first of them is false.  The invariant is in four parts:

- `LedgerInv`: the escrow's position is one of the history's, its total what was signed there, and every
  domain has been paid what the receipts up to it owe it;
- `TxInv`: a transaction starts at a seq that was not recorded when it was sent, and those that landed
  do not overlap;
- `BatchInv`: each row of batches is a final transaction, and rows follow on one another;
- `PassInv`: a pass works on the seqs right after the recorded ones.

The one step that could break it is a landing, and the one bad case a transaction sent before
another landed that took part of the same receipts.  `OverlapRefused` is why it fails: the tariffs it carries
again are at least one above dust, and rounding up may add less than that to the fees of the receipts
that are new, so `batch_fee` refuses it.  `KeepsTheLedger` is the refinement of `ReceiptLedger`:
a landing is its settlement, a record its publication, an accepted receipt its acceptance, every other step
a stutter.  The sums are `SumFunctionOnSet` of the community modules; what is needed of them (a sum over a
union, over one more element, by parts, of a shifted index) is proved from the definition of the fold by
taking a smallest set for which it fails.

**The public record.**  Also in `ReceiptProofs`, from `IInv`, so under `AboveDust` too.
`EveryBatchVerifies` says more than the run checks: every recorded batch verifies at any time, not just
the last one while the settler is idle.

- *Amounts.*  `StoodBefore`: the settled position before the transaction of a batch is the seq before its
  first receipt, because landed transactions do not overlap (`TxInv`) and rows follow on one another
  (`BatchInv`).  So what it took from the vault is what the batch's receipts cost, and with the fee that the
  program accepts above dust the treasury's share and each leg come out exactly (`AmountsReconcile`).
- *Commitments.*  The chain of a settlement is the chain of the one before with the batch's receipts
  appended, and gives each receipt away (`ChainCommits`); one landed transaction ends at a given seq, and
  its root fixes where the batch was cut.  `ForgeriesFail` and `LegsShow` take each kind of forgery to one
  of these.
- *Trees.*  `RootsCommit`: two trees with one root have the same leaves, as many of them and in the same
  order.  `ProofFitsItsLeaf`: the proof made for leaf `i` verifies `x` exactly when `x` is that leaf.  Both take a
  shortest sequence of leaves for which they fail; it splits in two shorter ones.

A hash is the term it is taken of, so "another body with the same hash" is excluded by the model, not
by a proof; the domain separation of leaves and nodes is in the shape of the terms.

**The live feed.**  `PublisherProofs`, for any number of receipts, page size, number of requests and of
faults.  `FeedInv` (`FeedAccount`) is what could be said at any moment of each receipt the tables have: it is
on the screen, or an event of it is on the way, or it was lost for a reason the model names; and of each
settlement that the screen does not show yet, which event or re-read will tell.

- `NothingAhead`: no row, event or page is ahead of the tables;
- `OnScreen`: the account of the screen, while no first page is due that will replace it;
- `OlderInStep`, `SnapshotInStep`: the same of a page that was read and has not arrived, since merging it makes it
  part of the screen.  A first page answers for the whole screen above its last row, so it must account
  also for what the screen and an older page on the way lack; that is the part without which the
  invariant is not inductive.

When all is quiet nothing is on the way, and what is left of the account is `NoGap` and `StaleIsExplained`.
`SettlementsStandAbove` is an action property from the same invariant.

**The figures.**  `ReceiptProofs`, for any finite set of receipts, any periods and any number of reads that cross.
`FiguresHold` needs only that what is shown are receipts: each table sums the cells by one of their
attributes, and a sum by parts is the sum.  A window has its beginning in it and not its end, as in the query.
`NeverGoesBack` needs `SummaryInv`: what was read is still so but for
receipts settled since (`OfThePeriod`), at most one read is the latest (`OneLatest`), and that one sees all that the
screen shows of what is still inside the period (`LatestIsLater`).

**The agent.**  `AgentJournalProofs`, for any number of drafts, payments, attempts and connections.

- `VoucherInv` (for `HistoryIsJournaled` and `DoubtsShareSeq`): a voucher on its way is in doubt in the
  journal, or is for a seq already passed, which the gateway does not keep; each doubt continues the
  journal's position by a draft that is not in it.  In the phases after sending it says what each answer
  means: one that lets the agent forget the draft leaves it in no history.
- `PaymentInv` (for `LandedIsAccounted` and `RedeemedOnce`): a payment that is signed and not void is in
  the journal or redeemed, or was lost in one of the three ways that the property names (`Tracked`); a payment
  that is not for the terms in force was overtaken by a change of them (`InDate`), which is why a refusal of
  its legs is one of the three; what a connection is about to record is a payment that landed, at the
  price that was paid; and what the agent is told is about the payment it has in hand.  The theorem says that
  no crash, lost answer or race loses a payment.  `MCAgentResends.cfg` and `MCAgentForgets.cfg` show that two
  of the three exceptions are real.

`AgentAssumption` takes from the code that having no journal is not a journal.

**The registry.**  `RegistryProofs`, for any hosts, sources, publishers, readers and corpus.  Every
instruction is first reduced to a write of one account that keeps its owner, or its domain
(`DomainWritten`, `WorkWritten`).

- `TermsInv`: a work is written only by the owner of the domain it is under or the operator, and a request
  holds only works of the host of their address;
- `MirrorInv`: a snapshot in hand is what the chain holds, unless the chain has changed since its slot;
- `SeedInv`: before a work of the corpus is registered, its domain is the owner's or about to be
  registered.  With the order of the plan that is why a seed that stops at the first refused step never puts a work
  under a stranger's domain.

`CorpusAssumption` is what `corpus.test.ts` checks: no source twice.

**Registrations.**  `RegistrationProofs`, for any requests, attempts, lives of a blockhash and of a
cached status, lost answers and losing forks.  What an outcome says of a transaction (`Holds`) is put so that it stays
true: expired means in no block *and* past its last valid height (`Outlived`), failed means
failed in a block that stays.  The exceptions are those of the property (`misled`).  The verdict on its way to the screen satisfies it as the one told does; `ScreenInv`
says that it is about the attempt on the screen.  `PartsInv` says what a prepared transaction is composed of in terms
of the account it was read from; with it `LandsAsAsked` is an action property.

**Sign-in.**  `PublisherProofs`, for any wallets, nonces and verifications.  `ChallengeInv`: nonces are
drawn once, what is verified was signed, and no verification or session is of a time to come.
`TabInv`: a tab signs in only without a session, and what it reads is for the session it has.

**Left to TLC.**  Every liveness property, since the prover has no rules for fairness: `EveryReceiptPublished`,
`SettlementsArrive`, `AskingEnds`, `FiguresArrive`.  Also the length of an inclusion proof in
`ProofsFitTheirLeaves`, which is about powers of two, and the verifier does not depend on.  The library's
induction theorems take the claim as an operator, which none of the provers can instantiate; that is why
each induction over data above is a smallest counterexample.

## Findings

`settler_dust`: *a receipt can be paid twice when prices are a few base units.*  A settler that
is restarted between the landing of its transaction and its finalization reads the old
position, cuts the same receipts again with newer ones, and the program accepts: it charges
only the cumulative since the landed batch, pays the legs of the whole batch, and takes the
difference for rounding, of which `batch_fee` allows a unit per receipt beyond the first.
The agent pays nothing extra; the treasury does.  `settler.test.ts:306` and the repository
README ("Payouts equal payments: 0 base units apart") say otherwise.  With `AboveDust` the
program refuses such a batch, and `PayoutsEqualPayments` holds.

`agent_stranded`: *an agent that stops with a voucher in doubt may be unable to start again.*
`state()` (`agent.ts:88`) compares the journal's position with the settled one and throws when
the escrow is ahead, before `resolveDoubt` could look at the doubtful vouchers, although the
journal has the very voucher that was settled among them (`HistoryIsJournaled` holds).  While the
process lives the doubt is resolved at the next request, as `agent.test.ts:281` says; after a
restart it is not, and each start fails alike until the file is mended by hand.

Also seen while modelling, not a run of their own:

- *agent* (`MCAgentResends.cfg`, `SendingAgainIsHarmless`): a payment that landed can be forgotten when it
  is sent again.  `land` returns `failed` for every `SendTransactionError` but "already been processed"
  and "blockhash not found" (`x402.ts:167-175`), without asking what became of the signature, and
  `settlePayment` then forgets the payment.  That error is any error a node answers with, one that
  is unhealthy or behind included.  In the trace the agent sends a payment, which lands, and stops before it
  has seen so; it starts again, sends the payment it finds in its journal, and the node refuses.  The money
  has moved, nothing was delivered, and the journal is empty.  The comments say "Sending again is
  harmless" (`x402.ts:138`) and "Any other refusal is preflight saying it cannot land"
  (`x402.ts:169`), which is so of a first copy only.
- *agent* (`MCAgentForgets.cfg`, `RefusedForGood`): a payment that landed can be forgotten because the gateway
  was busy.  "Any other answer is final for this payment: redeemed already, or refused for good"
  (`agent.ts:306`) is said of every answer below 500 that is neither a delivery nor
  `payment-not-found`.  The gateway's 429 (`content.ts:126`) comes before it looks at the payment; in the
  trace the first presentation of a landed payment is answered so, and `Told` forgets it.  A licence withdrawn
  for a moment or a price that changes back has the same effect; for these the payment is
  `outdated` in the model.
- *feed* (`MCLiveFeedBack.cfg`, `SettlementsStand`): "settlement only ever moves forward"
  (web `feed.ts:77`).  `withSnapshot` keeps only rows strictly newer than its page's last, so that
  row is taken from the page alone, which may have been read before the settlement event that
  the screen has already shown.  `SettlementsStandAbove` is what holds.  Four more ways for the feed to stay
  behind until the next resync are `excused` or `crossed` in the model: a settlement event for a
  row not shown yet, a settlement between the gateway's boot and its first LISTEN, an event whose lookup
  failed (`feed.ts`, `guarded`), and an older page that arrives after a resync came back to the same cursor.
- *registration*: `registrationStatus` asks without `searchTransactionHistory`, so a transaction
  that landed and was forgotten by the status cache is called expired; it calls one failed on a
  status that is merely `processed`, which a fork may take back; and "the wallet did not send the
  transaction" is said of any error of the wallet, one after sending included.  The first two
  are `misled` in `ToldTruly`; `awaitSignature` has neither (`WatchedTruly`).
- *summary* (`MCSummaryBehind.cfg`): the window ends at the browser's clock.  With that clock
  behind the gateway's, a receipt is outside the window when its own event is answered, and stays hidden
  until another event comes; `summary.ts:64` says that the figures cannot drift from the
  ledger.  With clocks that agree that remains of one instant: the window's end is exclusive
  (`queries.ts:102`), so a receipt accepted in the very millisecond for which the last read was made is
  not in it.  `FiguresArrive` says what holds: the last read is made no earlier than any acceptance, and
  everything inside its window is shown.  Also, while events come at least every 3 s and each read takes
  longer than that, every answer is overtaken and none is shown.
- *seed*: `diff.ts` compares of a work only its content hash, so a work that somebody registered
  under another domain counts as done.  The gateway would not sell it.
- *settler*: a batch of free works only is accepted by the program wherever its first receipt is, so
  after the restart above a batch that overlaps a landed one lands too, and `recover` then
  finds an anchored root that is not the one the vouchers give and stops there until someone
  repairs the table.

## Not modelled

Signatures, addresses, account validation and encodings of the program are abstracted to "the
agent signed this voucher" and "this leg pays this domain".  Forks between `confirmed` and
`finalized` are not modelled in `Settler`, forks after `confirmed` in `Registration`.  The clock of
the chain and that of the gateway are one clock in `Gateway`; `Settler` has no clock, so whether it beats
the end of a grace is not decided there.  One agent, as agents share nothing that is written; one
publisher's feed and figures, as streams share only the listener and the bucket.
`AgentJournal` sends one request at a time, as the command line does.

Left out because nothing in them changes state over several steps: `health.ts` (one function of
the heartbeat's age), `config.rs` and `tools/deploy` (run once, by hand; a crash between
`create_mint` and `init_config` leaves a mint behind that the next run does not find), the fixtures' content
server, the screens' layout, charts and the mock API, formats of numbers and dates.  Left out though they have
state: the byte budget of held offers (any offer may vanish at any time instead), the
eviction of addresses from the rate limiter, and the limit on streams per address.

## Plan

In this order:

1. **ExitWindow**: a timed settler and gateway against an exiting agent; which intervals,
   grace and finalization times keep `EveryReceiptPublished` without its exception; with it the
   heartbeat and Health.
2. **OfferStore** with its byte budget, **TokenBucket** with its evictions.
3. **Bootstrap**: the deployment's steps with a crash between any two of them.
