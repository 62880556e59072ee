------------------------------ MODULE Summary ------------------------------
(***************************************************************************)
(* The figures a publisher is shown for a period: the receipts, the        *)
(* gateway's one grouped read of them behind its rate limit, and the       *)
(* dashboard that asks again whenever the stream says something happened.  *)
(* Nothing is added up in the browser; what can go wrong is which answer   *)
(* is shown, and whether the last one asked for was asked late enough.     *)
(*                                                                         *)
(* LiveFeed has the stream in full.  Here it promises what it says of      *)
(* itself: every change is an event, or a resync in its place.             *)
(***************************************************************************)
EXTENDS Integers, Sequences, FiniteSets, FiniteSetsExt

CONSTANTS
  Receipts, Works, Consumers,
  Sale,          \* what each receipt is for: work, consumer, method, tariff and fee
  Periods,
  First,         \* the period chosen when the screen opens
  Length,        \* of each period
  Capacity,      \* of the token bucket
  Behind,        \* how far the browser's clock is behind the gateway's
  OpensAt,       \* when the screen opens
  Lag,           \* bound on how long before its row is written each receipt was accepted
  MaxFailures,   \* where the pause stops growing
  MaxTime,       \* bound on the time that passes
  MaxTurns       \* bound on losses, other dashboards' reads, sessions ended, changes of period

Methods == {"escrow", "x402"}

\* The columns of a row of receipts that never change; VARIABLES has those that do.
ReceiptRow == [work : Works, consumer : Consumers, method : Methods, tariff : Nat, fee : Nat]

ASSUME SummaryAssumption ==
  /\ IsFiniteSet(Receipts) /\ Sale \in [Receipts -> ReceiptRow]
  /\ First \in Periods /\ Length \in [Periods -> Nat \ {0}]
  /\ Capacity \in Nat \ {0, 1} /\ Behind \in Nat
  /\ OpensAt \in Nat /\ Lag \in [Receipts -> Nat]
  /\ MaxFailures \in Nat \ {0} /\ MaxTime \in Nat /\ MaxTurns \in Nat

VARIABLES
  ledger,    \* each receipt: none, accrued or settled
  accepted,  \* when it was accepted
  clock,
  tokens,    \* in the bucket of this browser's address
  session,
  period,    \* the one chosen
  link,      \* the attempt to follow the stream: paused, open, or out for good
  failures,  \* attempts that failed in a row
  wait,      \* seconds of the pause still to pass
  queue,     \* events on the stream
  pending,   \* the timer of the next read is set
  reads,     \* those in flight, and how they were answered
  shown,     \* what is on the screen
  turns

ledgerVars == <<ledger, accepted, clock>>
attemptVars == <<link, failures, wait, queue, pending, reads>>
summaryVars == <<ledgerVars, tokens, session, period, attemptVars, shown, turns>>

Nothing == [to |-> 0]

SummaryInit ==
  /\ ledger = [r \in Receipts |-> "none"] /\ accepted = [r \in Receipts |-> 0] /\ clock = OpensAt
  /\ tokens = Capacity /\ session = TRUE
  /\ period = First
  /\ link = "paused" /\ failures = 0 /\ wait = 0 /\ queue = << >> /\ pending = FALSE
  /\ reads = {}
  /\ shown = Nothing /\ turns = 0

Turn == turns < MaxTurns /\ turns' = turns + 1

-----------------------------------------------------------------------------
(* What summarize reads, and what summaryOf makes of it.                   *)

Issued == {r \in Receipts : ledger[r] # "none"}

\* It ends with the browser's now, and its length is the period's.
periodWindow(p, now) == [from |-> now - Length[p], to |-> now]

\* Its beginning is inside, its end is not.
InWindow(r, window) == window.from <= accepted[r] /\ accepted[r] < window.to

Rows(p, to) == [r \in {s \in Issued : InWindow(s, periodWindow(p, to))} |-> ledger[r]]

\* Grouped by work, consumer, method and whether it is settled.
Cells(rows) ==
  LET Key(r) == [work |-> Sale[r].work, consumer |-> Sale[r].consumer,
                 method |-> Sale[r].method, settled |-> rows[r] = "settled"]
      In(key) == {r \in DOMAIN rows : Key(r) = key}
  IN  {[key   |-> key,
        count |-> Cardinality(In(key)),
        total |-> SumFunction([r \in In(key) |-> Sale[r].tariff]),
        fee   |-> SumFunction([r \in In(key) |-> Sale[r].fee])] :
        key \in {Key(r) : r \in DOMAIN rows}}

Total(cells) == SumFunction([cell \in cells |-> cell.total])

\* Mutant of Standing: what was paid per request has a settlement time too.
StandingByTime(key) ==
  IF key.settled THEN "inBatch" ELSE IF key.method = "x402" THEN "perRequest" ELSE "accrued"

Standing(key) ==
  IF key.method = "x402" THEN "perRequest" ELSE IF key.settled THEN "inBatch" ELSE "accrued"

\* add: one table of tallies, by whatever the rows of the table are known by.
Tallied(cells, fields) ==
  LET Name(cell) == [f \in fields |-> cell.key[f]]
  IN  [name \in {Name(cell) : cell \in cells} |-> Total({cell \in cells : Name(cell) = name})]

summaryOf(cells) ==
  LET byWork == Tallied(cells, {"work"})
  IN  [total      |-> SumFunction(byWork),
       fee        |-> SumFunction([cell \in cells |-> cell.fee]),
       count      |-> SumFunction([cell \in cells |-> cell.count]),
       byWork     |-> byWork,
       byConsumer |-> Tallied(cells, {"consumer"}),
       flows      |-> Tallied(cells, {"consumer", "work"}),
       settlement |-> [standing \in {"inBatch", "accrued", "perRequest"} |->
                         Total({cell \in cells : Standing(cell.key) = standing})]]

-----------------------------------------------------------------------------
(* The ledger, and what the stream says of it.                             *)

\* A change is told to whoever listens.  One that is lost on its way is made up for.
Told ==
  IF link # "open" THEN UNCHANGED <<queue, turns>>
  ELSE \/ queue' = Append(queue, "event") /\ UNCHANGED turns
       \/ queue' = Append(queue, "resync") /\ Turn

\* A payment is settled from the start.  A receipt was accepted before its row is written: when
\* its offer was made, or when the content came from the origin.
Issue(r) ==
  /\ ledger[r] = "none"
  /\ ledger' = [ledger EXCEPT ![r] = IF Sale[r].method = "x402" THEN "settled" ELSE "accrued"]
  /\ \E then \in 0..clock :
       /\ clock <= then + Lag[r]
       /\ accepted' = [accepted EXCEPT ![r] = then]
  /\ Told
  /\ UNCHANGED <<clock, tokens, session, period, link, failures, wait, pending, reads,
                 shown>>

Settle(r) ==
  /\ ledger[r] = "accrued"
  /\ ledger' = [ledger EXCEPT ![r] = "settled"]
  /\ Told
  /\ UNCHANGED <<accepted, clock, tokens, session, period, link, failures, wait, pending, reads,
                 shown>>

TimePasses ==
  /\ clock < MaxTime /\ clock' = clock + 1
  /\ UNCHANGED <<ledger, accepted, tokens, session, period, attemptVars, shown, turns>>

-----------------------------------------------------------------------------
(* The gateway in front of its readers.                                    *)

\* tokenBucket.take, which allows the request when it finds a token.
Take == tokens' = IF tokens > 0 THEN tokens - 1 ELSE 0

\* What a refusal tells the client to wait: the next token is a second away.
RetryAfter == 1

\* A second passes: a token for the bucket, and one less to wait.
Second ==
  /\ tokens < Capacity \/ wait > 0
  /\ tokens' = IF tokens < Capacity THEN tokens + 1 ELSE tokens
  /\ wait' = IF wait > 0 THEN wait - 1 ELSE 0
  /\ UNCHANGED <<ledgerVars, session, period, link, failures, queue, pending, reads, shown,
                 turns>>

\* Another dashboard behind the same address takes a token.
Rival ==
  /\ tokens > 0 /\ Turn
  /\ Take
  /\ UNCHANGED <<ledgerVars, session, period, attemptVars, shown>>

\* The session ends, and the gateway closes the stream it was for.
SessionEnds ==
  /\ session /\ session' = FALSE /\ Turn
  /\ UNCHANGED <<ledgerVars, tokens, period, attemptVars, shown>>

\* The limit comes before the session, and the session before the read.
Answered(read) ==
  IF tokens = 0 THEN [read EXCEPT !.answer = "limited"]
  ELSE IF ~session THEN [read EXCEPT !.answer = "unauthorized"]
  ELSE [read EXCEPT !.answer = "rows", !.rows = Rows(read.period, read.to)]

Answer(read) ==
  /\ read.answer = "none"
  /\ Take
  /\ reads' = (reads \ {read}) \cup {Answered(read)}
  /\ UNCHANGED <<ledgerVars, session, period, link, failures, wait, queue, pending, shown,
                 turns>>

-----------------------------------------------------------------------------
(* The dashboard: followStream around followSummary.                       *)

\* The attempt is over: its timer is cancelled and its reads are aborted.
Ends == queue' = << >> /\ pending' = FALSE /\ reads' = {}

\* retryDelayMs, to its ceiling: each failure doubles the pause, a refusal may name a longer one.
Delay(failed, retryAfter) == Max({2 ^ (failed - 1), retryAfter})

\* An attempt that had been up for a minute is a failure of its own.
Failures(healthy) == IF healthy \/ failures = 0 THEN 1 ELSE Min({failures + 1, MaxFailures})

Fails(answer) ==
  /\ Ends
  /\ IF answer = "unauthorized" THEN link' = "out" /\ wait' = 0 /\ UNCHANGED <<failures, turns>>
     ELSE /\ link' = "paused"
          /\ \/ failures' = Failures(FALSE) /\ UNCHANGED turns
             \/ link = "open" /\ failures' = Failures(TRUE) /\ Turn
          /\ wait' = Delay(failures', IF answer = "limited" THEN RetryAfter ELSE 0)

\* Opening the stream is a request like any other.
Open ==
  /\ link = "paused" /\ wait = 0
  /\ Take
  /\ CASE tokens = 0 -> Fails("limited")
       [] tokens > 0 /\ ~session -> Fails("unauthorized")
       [] OTHER -> /\ link' = "open" /\ queue' = <<"ready">>
                   /\ UNCHANGED <<failures, wait, pending, reads, turns>>
  /\ UNCHANGED <<ledgerVars, session, period, shown>>

\* The stream breaks, or the gateway closes it with the session.
Drop ==
  /\ link = "open"
  /\ \/ ~session /\ Fails("none")
     \/ Turn /\ Ends /\ link' = "paused"
        /\ \E healthy \in BOOLEAN : failures' = Failures(healthy)
        /\ wait' = Delay(failures', 0)
  /\ UNCHANGED <<ledgerVars, tokens, session, period, shown>>

\* read: the period ends now, by the clock of the browser.
Ask ==
  /\ pending' = FALSE
  /\ reads' = {[read EXCEPT !.latest = FALSE] : read \in reads} \cup
              {[latest |-> TRUE, period |-> period,
                to |-> IF clock > Behind THEN clock - Behind ELSE 0,
                answer |-> "none", rows |-> << >>]}

\* Mutant of Hear: an event while a read is unanswered asks for nothing more.
HearOnce ==
  /\ queue # << >>
  /\ queue' = Tail(queue)
  /\ IF Head(queue) \in {"ready", "resync"} THEN Ask
     ELSE /\ pending' = (pending \/ reads = {})
          /\ UNCHANGED reads
  /\ UNCHANGED <<ledgerVars, tokens, session, period, link, failures, wait, shown, turns>>

\* Events gather behind one timer, which a ready or a resync does not wait for.
Hear ==
  /\ queue # << >>
  /\ queue' = Tail(queue)
  /\ IF Head(queue) \in {"ready", "resync"} THEN Ask
     ELSE pending' = TRUE /\ UNCHANGED reads
  /\ UNCHANGED <<ledgerVars, tokens, session, period, link, failures, wait, shown, turns>>

TimerFires ==
  /\ pending
  /\ Ask
  /\ UNCHANGED <<ledgerVars, tokens, session, period, link, failures, wait, queue, shown, turns>>

\* Mutant of Show: every answer is shown.
ShowAny(read) == shown' = [to |-> read.to, period |-> read.period, rows |-> read.rows]

\* An answer that was asked for before another is dropped.
Show(read) ==
  shown' = IF read.latest
           THEN [to |-> read.to, period |-> read.period, rows |-> read.rows]
           ELSE shown

\* Answers arrive in any order.  One that is a refusal ends the attempt, whenever it was
\* asked for.
Arrive(read) ==
  /\ read.answer # "none"
  /\ IF read.answer = "rows"
     THEN /\ Show(read)
          /\ reads' = reads \ {read}
          /\ UNCHANGED <<link, failures, wait, queue, pending, turns>>
     ELSE Fails(read.answer) /\ UNCHANGED shown
  /\ UNCHANGED <<ledgerVars, tokens, session, period>>

\* useSummary: the effect of the period before is aborted, and its figures are taken away.
Choose(p) ==
  /\ p # period /\ link # "out" /\ Turn
  /\ period' = p
  /\ Ends /\ link' = "paused" /\ failures' = 0 /\ wait' = 0
  /\ shown' = Nothing
  /\ UNCHANGED <<ledgerVars, tokens, session>>

-----------------------------------------------------------------------------

SummaryNext ==
  \/ \E r \in Receipts : Issue(r) \/ Settle(r)
  \/ TimePasses \/ Second \/ Rival \/ SessionEnds
  \/ Open \/ Drop \/ Hear \/ TimerFires
  \/ \E read \in reads : Answer(read) \/ Arrive(read)
  \/ \E p \in Periods : Choose(p)

SummarySpec == SummaryInit /\ [][SummaryNext]_summaryVars

\* The gateway answers, time passes, and the browser goes on with what it has to handle, in
\* whatever order.
FairSummarySpec ==
  /\ SummarySpec
  /\ WF_summaryVars(Second)
  /\ WF_summaryVars(Open)
  /\ WF_summaryVars(Hear \/ TimerFires \/ \E read \in reads : Arrive(read))
  /\ WF_summaryVars(\E read \in reads : Answer(read))

-----------------------------------------------------------------------------

\* summaryOf: whatever mix of receipts a period holds, every table of the screen comes to the
\* same total, a payment is counted as one of them alone, and money moves from accrued to in
\* batch without a moment in which it is in both or in neither.
FiguresAgree ==
  shown # Nothing =>
    LET rows == shown.rows
        figures == summaryOf(Cells(rows))
        Taken(S) == SumFunction([r \in S |-> Sale[r].tariff])
        Escrow(standing) == {r \in DOMAIN rows : Sale[r].method = "escrow" /\ rows[r] = standing}
    IN  /\ figures.total = Taken(DOMAIN rows)
        /\ \A table \in {figures.byWork, figures.byConsumer, figures.flows, figures.settlement} :
             SumFunction(table) = figures.total
        /\ figures.count = Cardinality(DOMAIN rows)
        /\ figures.settlement.accrued = Taken(Escrow("accrued"))
        /\ figures.settlement.inBatch = Taken(Escrow("settled"))

\* What replaces figures on the screen is read no earlier and of the period chosen: a receipt
\* once counted as settled is never shown accrued again, however the answers cross.
NeverOlder ==
  [][shown' \notin {shown, Nothing} =>
       /\ shown'.period = period'
       /\ shown # Nothing => shown'.to >= shown.to
       /\ shown # Nothing =>
            \A r \in DOMAIN shown.rows :
              shown'.to <= accepted[r] + Length[period] =>
                /\ r \in DOMAIN shown'.rows
                /\ shown.rows[r] = "settled" => shown'.rows[r] = "settled"]_summaryVars

\* The figures on the screen were asked for no earlier than the last receipt was accepted, and
\* every receipt inside the period is among them as the ledger has it.
UpToDate ==
  /\ shown # Nothing
  /\ \A r \in Issued :
       /\ accepted[r] <= shown.to
       /\ accepted[r] < shown.to /\ shown.to <= accepted[r] + Length[period] =>
            r \in DOMAIN shown.rows /\ shown.rows[r] = ledger[r]

\* Once receipts stop coming the screen shows all of them, through dropped streams, lost events
\* and refused reads; or the session is over.  A receipt accepted in the very instant in which
\* the last period ends is the one it may lack, until the next event.
FiguresArrive == <>[](link = "out" \/ UpToDate)
=============================================================================
