---------------------------- MODULE AgentJournal ----------------------------
(***************************************************************************)
(* The paying agent and its journal file.  It pays by voucher, or by an    *)
(* x402 transfer it presents afterwards; answers get lost, processes stop  *)
(* anywhere, and only the journal outlives them.  The gateway is seen from *)
(* outside: Gateway shows that what it keeps is one chained history, so a  *)
(* request with a voucher is one step here, at its insert.                 *)
(*                                                                         *)
(* A voucher is the sequence of drafts it commits to; prices of drafts are *)
(* left to Gateway.  The agent sends one request at a time, as its command *)
(* line does.                                                              *)
(***************************************************************************)
EXTENDS Naturals, Sequences, FiniteSets, SequencesExt

CONSTANTS
  Payments,       \* transactions the agent may sign (bound)
  Prices,         \* prices the owner may set
  MaxDrafts,      \* bound on drafts ever offered
  MaxAttempts,    \* deps.maxAttempts
  MaxPresent,     \* deps.maxPresentations
  Connections,    \* requests with a payment under way at the gateway (bound)
  NoJournal, Unlicensed, NoPayment, NoConnection

Chain == Seq(1..MaxDrafts)

Journal == [position : Chain, doubtful : Seq(Chain), payments : Seq(Payments)]

ASSUME AgentAssumption ==
  /\ MaxDrafts \in Nat /\ MaxAttempts \in Nat \ {0} /\ MaxPresent \in Nat \ {0}
  /\ NoJournal \notin Journal
  /\ Unlicensed \notin Prices /\ NoPayment \notin Payments /\ NoConnection \notin Connections

VARIABLES
  journal,    \* the file: position, doubtful, payments
  agent,      \* the process, lost when it stops
  kept,       \* the drafts whose vouchers the gateway recorded, in order
  settled,    \* how many of them the escrow has settled
  drafts,     \* how many drafts were ever made
  offers,     \* the gateway's held offers
  inbox,      \* requests with a voucher not handled yet
  terms,      \* the work's price, or Unlicensed
  transfer,   \* what became of each payment transaction
  paid,       \* the price each payment was made for
  handling,   \* the gateway's handlers of presented payments
  receipts,   \* the x402 receipts it recorded
  forgotten,  \* why the agent gave up a payment it was not told failed or expired (history)
  outdated    \* payments whose terms were changed after they were signed (history)

voucherVars == <<kept, settled, drafts, offers, inbox>>
historyVars == <<forgotten, outdated>>
paymentVars == <<terms, transfer, paid, handling, receipts, historyVars>>
vars == <<journal, agent, voucherVars, paymentVars>>

NoOffer == [draft |-> 0, seq |-> 0]

Down == [pc |-> "down", attempt |-> 1, todo |-> << >>, offer |-> NoOffer, answer |-> "none",
         queue |-> << >>, goal |-> "none", payment |-> NoPayment, conn |-> NoConnection]

Idle == [pc |-> "idle"]

Init ==
  /\ journal = NoJournal /\ agent = Down
  /\ kept = << >> /\ settled = 0 /\ drafts = 0 /\ offers = {} /\ inbox = {}
  /\ terms \in Prices
  /\ transfer = [p \in Payments |-> "unsigned"]
  /\ paid = [p \in Payments |-> Unlicensed]
  /\ handling = [c \in Connections |-> Idle]
  /\ receipts = {}
  /\ forgotten = [p \in Payments |-> "no"] /\ outdated = {}

-----------------------------------------------------------------------------
(* The process.                                                            *)

settledPosition == SubSeq(kept, 1, settled)

\* state(): the journal must not end before the escrow does.
StartAllowed == journal # NoJournal => Len(settledPosition) <= Len(journal.position)

Start ==
  /\ agent.pc = "down"
  /\ StartAllowed
  /\ journal' = IF journal = NoJournal
                THEN [position |-> settledPosition, doubtful |-> << >>, payments |-> << >>]
                ELSE journal
  /\ agent' = [Down EXCEPT !.pc = "ready"]
  /\ UNCHANGED <<voucherVars, paymentVars>>

\* Killed, or ended by an error that request() throws: an RPC call, a lookup or a request
\* for a quote that got no answer.
Crash ==
  /\ agent.pc # "down"
  /\ agent' = Down
  /\ UNCHANGED <<journal, voucherVars, paymentVars>>

\* What request() does next once no pending payment is left to redeem.
Proceed(a) ==
  IF a.queue # << >>        THEN [a EXCEPT !.pc = "landing", !.payment = Head(a.queue), !.queue = Tail(a.queue)]
  ELSE IF a.goal = "escrow" THEN [Down EXCEPT !.pc = "resolving", !.todo = journal.doubtful]
  ELSE IF a.goal = "x402"   THEN [Down EXCEPT !.pc = "buying"]
  ELSE                           [Down EXCEPT !.pc = "ready"]

Request(rail) ==
  /\ agent.pc = "ready"
  /\ agent' = Proceed([Down EXCEPT !.queue = journal.payments, !.goal = rail])
  /\ UNCHANGED <<journal, voucherVars, paymentVars>>

-----------------------------------------------------------------------------
(* Paying by voucher.                                                      *)

\* continue, or the error after the last attempt.
Retried ==
  IF agent.attempt < MaxAttempts
  THEN [Down EXCEPT !.pc = "resolving", !.attempt = agent.attempt + 1, !.todo = journal'.doubtful]
  ELSE Down

\* Mutant of Learned: the doubts stay although one of them is resolved.
LearnedOnly(next) == [journal EXCEPT !.position = next]

Learned(next) == [journal EXCEPT !.position = next, !.doubtful = << >>]

\* One receipt lookup of resolveDoubt.
Lookup ==
  /\ agent.pc = "resolving" /\ agent.todo # << >>
  /\ LET doubt == Head(agent.todo)
     IN  IF Last(doubt) \in Range(kept)
         THEN /\ journal' = Learned(doubt)
              /\ agent' = [agent EXCEPT !.todo = << >>]
         ELSE /\ agent' = [agent EXCEPT !.todo = Tail(@)]
              /\ UNCHANGED journal
  /\ UNCHANGED <<voucherVars, paymentVars>>

\* The gateway answers a request without a voucher: a draft, held under a new id.
Offer ==
  /\ agent.pc = "resolving" /\ agent.todo = << >>
  /\ terms # Unlicensed /\ drafts < MaxDrafts
  /\ drafts' = drafts + 1
  /\ LET o == [draft |-> drafts + 1, seq |-> Len(kept) + 1]
     IN  /\ offers' = offers \cup {o}
         /\ agent' = [agent EXCEPT !.pc = "offered", !.offer = o]
  /\ UNCHANGED <<journal, kept, settled, inbox, paymentVars>>

\* It answers that the escrow cannot take it, or the work is not to be had at all.
Unavailable ==
  /\ agent.pc = "resolving" /\ agent.todo = << >>
  /\ \/ agent' = [Down EXCEPT !.pc = "ready"]
     \/ terms # Unlicensed /\ agent' = [Down EXCEPT !.pc = "buying"]
  /\ UNCHANGED <<journal, voucherVars, paymentVars>>

\* Mutant of Sign: the voucher leaves without an entry in the journal.
SignUnrecorded ==
  /\ agent.pc = "offered"
  /\ agent.offer.seq = Len(journal.position) + 1
  /\ agent' = [agent EXCEPT !.pc = "sending"]
  /\ UNCHANGED <<journal, voucherVars, paymentVars>>

\* checkOffer, and the doubt recorded before the voucher is sent.
Sign ==
  /\ agent.pc = "offered"
  /\ IF agent.offer.seq = Len(journal.position) + 1
     THEN /\ journal' = [journal EXCEPT !.doubtful =
                           Append(@, Append(journal.position, agent.offer.draft))]
          /\ agent' = [agent EXCEPT !.pc = "sending"]
     ELSE /\ UNCHANGED journal
          /\ agent' = IF journal.doubtful # << >> THEN Retried ELSE Down
  /\ UNCHANGED <<voucherVars, paymentVars>>

Send ==
  /\ agent.pc = "sending"
  /\ inbox' = inbox \cup {[offer |-> agent.offer, chain |-> Append(journal.position, agent.offer.draft)]}
  /\ agent' = [agent EXCEPT !.pc = "awaiting"]
  /\ UNCHANGED <<journal, kept, settled, drafts, offers, paymentVars>>

\* Every answer but these says that the voucher was dropped unrecorded.
Forgotten == [journal EXCEPT !.doubtful = Front(@)]

Answered ==
  /\ agent.pc = "awaiting" /\ agent.answer # "none"
  /\ journal' = CASE agent.answer = "delivered" -> Learned(Append(journal.position, agent.offer.draft))
                  [] agent.answer \in {"server-error", "replayed"} -> journal
                  [] OTHER -> Forgotten
  /\ agent' = IF agent.answer \in {"server-error", "replayed", "offer-expired"}
              THEN Retried
              ELSE [Down EXCEPT !.pc = "ready"]
  /\ UNCHANGED <<voucherVars, paymentVars>>

\* fetch throws: the request may be on its way still.
Unanswered ==
  /\ agent.pc = "awaiting"
  /\ UNCHANGED <<journal, voucherVars, paymentVars>>
  /\ agent' = Retried

-----------------------------------------------------------------------------
(* The gateway, and the settler behind it.                                 *)

\* What settle makes of a voucher; a licence, funds or a rate limit may refuse any.
Verdicts(v) ==
  {"refused"} \cup
  (IF v.offer \notin offers                          THEN {"offer-expired"}
   ELSE IF v.offer.seq <= Len(kept)                  THEN {"replayed"}
   ELSE IF v.chain # Append(kept, v.offer.draft)     THEN {"chain-mismatch"}
   ELSE {"delivered"})

\* The answer reaches whoever still waits for it; it may arrive as a server error.
HandleVoucher(v) ==
  /\ \E verdict \in Verdicts(v), garbled \in BOOLEAN :
       /\ kept' = IF verdict = "delivered" THEN Append(kept, v.offer.draft) ELSE kept
       /\ offers' = IF verdict = "delivered" THEN offers \ {v.offer} ELSE offers
       /\ agent' = IF agent.pc = "awaiting" /\ agent.offer = v.offer
                   THEN [agent EXCEPT !.answer = IF garbled THEN "server-error" ELSE verdict]
                   ELSE agent
  /\ inbox' = inbox \ {v}
  /\ UNCHANGED <<journal, settled, drafts, paymentVars>>

ForgetOffer(o) ==
  /\ offers' = offers \ {o}
  /\ UNCHANGED <<journal, agent, kept, settled, drafts, inbox, paymentVars>>

GatewayCrash ==
  /\ offers' = {} /\ inbox' = {}
  /\ handling' = [c \in Connections |-> Idle]
  /\ UNCHANGED <<journal, agent, kept, settled, drafts, terms, transfer, paid, receipts, historyVars>>

Settle ==
  /\ settled < Len(kept)
  /\ settled' \in settled + 1 .. Len(kept)
  /\ UNCHANGED <<journal, agent, kept, drafts, offers, inbox, paymentVars>>

SetTerms(t) ==
  /\ terms' = t
  /\ outdated' = outdated \cup {p \in Payments : transfer[p] # "unsigned" /\ paid[p] # t}
  /\ UNCHANGED <<journal, agent, voucherVars, transfer, paid, handling, receipts, forgotten>>

-----------------------------------------------------------------------------
(* Paying by x402.                                                         *)

\* Mutant of Buy: the payment is sent without an entry in the journal.
BuyUnrecorded(p) ==
  /\ agent.pc = "buying" /\ terms # Unlicensed
  /\ transfer[p] = "unsigned"
  /\ transfer' = [transfer EXCEPT ![p] = "signed"]
  /\ paid' = [paid EXCEPT ![p] = terms]
  /\ agent' = [agent EXCEPT !.pc = "landing", !.payment = p]
  /\ UNCHANGED <<journal, voucherVars, terms, handling, receipts, historyVars>>

\* payX402: quoted, prepared, and recorded before it is sent.
Buy(p) ==
  /\ agent.pc = "buying" /\ terms # Unlicensed
  /\ transfer[p] = "unsigned"
  /\ transfer' = [transfer EXCEPT ![p] = "signed"]
  /\ paid' = [paid EXCEPT ![p] = terms]
  /\ journal' = [journal EXCEPT !.payments = Append(@, p)]
  /\ agent' = [agent EXCEPT !.pc = "landing", !.payment = p]
  /\ UNCHANGED <<voucherVars, terms, handling, receipts, historyVars>>

\* The gateway does not offer x402 for this work, or not at all.
NotSold ==
  /\ agent.pc = "buying"
  /\ agent' = [Down EXCEPT !.pc = "ready"]
  /\ UNCHANGED <<journal, voucherVars, paymentVars>>

\* rail.land sends, or sends again: the cluster knows the signature.  A node that does not
\* know its blockhash takes no copy, and the payment is watched all the same.
Broadcast ==
  /\ agent.pc = "landing"
  /\ transfer' \in {transfer, [transfer EXCEPT ![agent.payment] = IF @ = "signed" THEN "sent" ELSE @]}
  /\ agent' = [agent EXCEPT !.pc = "watching"]
  /\ UNCHANGED <<journal, voucherVars, terms, paid, handling, receipts, historyVars>>

\* forgetPayment: a payment is journaled once, when it is signed, so that the code's filter
\* drops that one entry.
Without(p) == [journal EXCEPT !.payments = RemoveFirst(@, p)]

\* Any other error that the node answers with: `failed` at once, and nothing is watched.  If a
\* copy is out already, it is given up with the payment.
SendFails ==
  /\ agent.pc = "landing"
  /\ journal' = Without(agent.payment)
  /\ agent' = Proceed(agent)
  /\ forgotten' = [forgotten EXCEPT ![agent.payment] = "not-sent"]
  /\ UNCHANGED <<voucherVars, terms, transfer, paid, handling, receipts, outdated>>

\* A blockhash may be too old before the payment is sent, or sent again.
Decide(p) ==
  /\ \/ transfer[p] = "sent" /\ transfer' \in {[transfer EXCEPT ![p] = s] : s \in {"landed", "failed", "expired"}}
     \/ transfer[p] = "signed" /\ transfer' = [transfer EXCEPT ![p] = "expired"]
  /\ UNCHANGED <<journal, agent, voucherVars, terms, paid, handling, receipts, historyVars>>

\* awaitSignature's verdict on the payment.
Landing ==
  /\ agent.pc = "watching"
  /\ transfer[agent.payment] \in {"landed", "failed", "expired"}
  /\ IF transfer[agent.payment] = "landed"
     THEN /\ agent' = [agent EXCEPT !.pc = "presenting", !.attempt = 1]
          /\ UNCHANGED journal
     ELSE /\ journal' = Without(agent.payment)
          /\ agent' = Proceed(agent)
  /\ UNCHANGED <<voucherVars, paymentVars>>

Present(c) ==
  /\ agent.pc = "presenting" /\ handling[c] = Idle
  /\ handling' = [handling EXCEPT ![c] = [pc |-> "reading", payment |-> agent.payment]]
  /\ agent' = [agent EXCEPT !.pc = "asking", !.conn = c, !.answer = "none"]
  /\ UNCHANGED <<journal, voucherVars, terms, transfer, paid, receipts, historyVars>>

\* The agent that still waits for connection c gets the answer, or a server error.
Reply(c, answer) ==
  agent' \in IF agent.pc = "asking" /\ agent.conn = c
             THEN {[agent EXCEPT !.answer = a, !.conn = NoConnection] : a \in {answer, "server-error"}}
             ELSE {agent}

\* verifyX402Payment: the legs it moved are those of the price now in force.
PaysWhatIsDue(p) == paid[p] = terms

\* redeem, up to its fetch: rate limit, licence, the transfer at `confirmed`, its legs
\* against the price now in force.  The gateway's node may trail the agent's.
Redeem(c) ==
  /\ handling[c].pc = "reading"
  /\ LET p == handling[c].payment
     IN  \/ /\ PaysWhatIsDue(p)
            /\ handling' = [handling EXCEPT ![c] = [pc |-> "recording", payment |-> p, price |-> terms]]
            /\ UNCHANGED agent
         \/ /\ handling' = [handling EXCEPT ![c] = Idle]
            /\ \/ Reply(c, "payment-not-found")
               \/ ~PaysWhatIsDue(p) /\ Reply(c, "refused")
               \/ Reply(c, "rate-limited")
  /\ UNCHANGED <<journal, voucherVars, terms, transfer, paid, receipts, historyVars>>

\* Mutant of Replayed: receipts without a unique payment_ref.
NeverReplayed(p) == FALSE

Replayed(p) == \E r \in receipts : r.payment = p

\* recordX402Issuance and the delivery.
Record(c) ==
  /\ handling[c].pc = "recording"
  /\ LET p == handling[c].payment
     IN  IF Replayed(p)
         THEN Reply(c, "replayed") /\ UNCHANGED receipts
         ELSE /\ receipts' = receipts \cup {[payment |-> p, price |-> handling[c].price,
                                             no |-> Cardinality(receipts)]}
              /\ Reply(c, "delivered")
  /\ handling' = [handling EXCEPT ![c] = Idle]
  /\ UNCHANGED <<journal, voucherVars, terms, transfer, paid, historyVars>>

\* The origin does not give the content: the payment stays unredeemed.
FetchFails(c) ==
  /\ handling[c].pc = "recording"
  /\ handling' = [handling EXCEPT ![c] = Idle]
  /\ Reply(c, "server-error")
  /\ UNCHANGED <<journal, voucherVars, terms, transfer, paid, receipts, historyVars>>

\* The next presentation, or leaving the payment for the next request.
PresentAgain ==
  IF agent.attempt < MaxPresent
  THEN [agent EXCEPT !.pc = "presenting", !.attempt = @ + 1, !.conn = NoConnection, !.answer = "none"]
  ELSE Proceed(agent)

Told ==
  /\ agent.pc = "asking" /\ agent.answer # "none"
  /\ IF agent.answer \in {"server-error", "payment-not-found"}
     THEN /\ agent' = PresentAgain
          /\ UNCHANGED <<journal, forgotten>>
     ELSE /\ journal' = Without(agent.payment)
          /\ agent' = Proceed([agent EXCEPT !.attempt = 1, !.answer = "none"])
          /\ forgotten' = IF agent.answer \in {"refused", "rate-limited"}
                          THEN [forgotten EXCEPT ![agent.payment] = agent.answer] ELSE forgotten
  /\ UNCHANGED <<voucherVars, terms, transfer, paid, handling, receipts, outdated>>

Untold ==
  /\ agent.pc = "asking"
  /\ agent' = PresentAgain
  /\ UNCHANGED <<journal, voucherVars, paymentVars>>

-----------------------------------------------------------------------------

AgentStep ==
  \/ Start \/ Crash
  \/ \E rail \in {"escrow", "x402"} : Request(rail)
  \/ Lookup \/ Offer \/ Unavailable \/ Sign \/ Send \/ Answered \/ Unanswered
  \/ \E p \in Payments : Buy(p)
  \/ NotSold \/ Broadcast \/ SendFails \/ Landing
  \/ \E c \in Connections : Present(c)
  \/ Told \/ Untold

WorldStep ==
  \/ \E v \in inbox : HandleVoucher(v)
  \/ \E o \in offers : ForgetOffer(o)
  \/ GatewayCrash
  \/ Settle
  \/ \E t \in Prices \cup {Unlicensed} : SetTerms(t)
  \/ \E p \in Payments : Decide(p)
  \/ \E c \in Connections : Redeem(c) \/ Record(c) \/ FetchFails(c)

Next == AgentStep \/ WorldStep

Spec == Init /\ [][Next]_vars

-----------------------------------------------------------------------------

TypeOK ==
  /\ journal \in Journal \cup {NoJournal}
  /\ agent.pc \in {"down", "ready", "resolving", "offered", "sending", "awaiting", "buying",
                   "landing", "watching", "presenting", "asking"}
  /\ agent.attempt \in 1..MaxAttempts \cup 1..MaxPresent
  /\ agent.todo \in Seq(Chain)
  /\ kept \in Chain /\ settled \in 0..Len(kept) /\ drafts \in 0..MaxDrafts
  /\ transfer \in [Payments -> {"unsigned", "signed", "sent", "landed", "failed", "expired"}]
  /\ paid \in [Payments -> Prices \cup {Unlicensed}]
  /\ forgotten \in [Payments -> {"no", "refused", "rate-limited", "not-sent"}]
  /\ outdated \subseteq Payments

\* The agent never loses track of what it owes: the gateway's history is the one its
\* journal ends at, or one of the vouchers the journal holds in doubt.
HistoryIsJournaled ==
  journal # NoJournal => kept \in {journal.position} \cup Range(journal.doubtful)

\* journal.ts: only one doubtful voucher can ever be kept, since all share one seq; more
\* than that, all continue the position the journal ends at.
DoubtsShareSeq ==
  journal # NoJournal => \A d \in Range(journal.doubtful) : Front(d) = journal.position

Journaled(p) == journal # NoJournal /\ p \in Range(journal.payments)

\* Wherever a process stops and whatever answers are lost, a payment that landed is in the
\* journal or redeemed.  It can be lost in three ways only: its terms were changed while it
\* was on its way, the gateway had no time for it, or the node refused to send it again.
LandedIsAccounted ==
  \A p \in Payments : transfer[p] = "landed" =>
    \/ Journaled(p)
    \/ Replayed(p)
    \/ p \in outdated
    \/ forgotten[p] \in {"rate-limited", "not-sent"}

\* One payment buys one receipt, at the price it paid, however often it is presented and
\* however the presentations race.
RedeemedOnce ==
  /\ \A r, q \in receipts : r.payment = q.payment => r = q
  /\ \A r \in receipts : r.price = paid[r.payment] /\ transfer[r.payment] = "landed"

\* agent.test.ts: an agent whose answer was lost learns from the public receipt that the
\* gateway kept its voucher, and moves on.  So must an agent that is started again.
DoubtIsResolved == agent.pc = "down" => StartAllowed

\* agent.ts: "Any other answer is final for this payment: redeemed already, or refused
\* for good."
RefusedForGood ==
  \A p \in Payments : forgotten[p] \in {"refused", "rate-limited"} => Replayed(p) \/ terms # paid[p]

\* x402.ts: "Sending again is harmless: the cluster deduplicates by signature, and that is
\* what lets a payment journaled before a crash be landed afterwards instead of lost."  It is
\* lost by the gateway's word, if at all.
SendingAgainIsHarmless ==
  \A p \in Payments : transfer[p] = "landed" =>
    Journaled(p) \/ Replayed(p) \/ forgotten[p] \in {"refused", "rate-limited"}
=============================================================================
