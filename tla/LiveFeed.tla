------------------------------ MODULE LiveFeed ------------------------------
(***************************************************************************)
(* What a publisher sees of its receipts while they come in: the tables,   *)
(* the gateway's LISTEN session with its probes, the lookups behind each   *)
(* event, one event stream, and the rows the browser keeps from events and *)
(* pages.  Nothing is acknowledged: a stream that may have lost something  *)
(* says `resync`, and the browser reads its first page again.              *)
(*                                                                         *)
(* One wallet and one browser, as streams share only the listener.  A      *)
(* receipt is its place in the order of acceptance; that is not the order  *)
(* of insertion, since an offer is accepted up to a minute before its      *)
(* voucher is recorded.  The session is taken to last: SignIn ends it.      *)
(***************************************************************************)
EXTENDS Naturals, FiniteSets, FiniteSetsExt, Sequences

CONSTANTS
  N,           \* receipts, bound
  PageSize,
  Snapshots,   \* first pages the browser reads at a time (bound)
  Older,       \* the older page it reads
  MaxFaults    \* bound on connections lost, answers failed, restarts

ASSUME FeedAssumption ==
  N \in Nat /\ PageSize \in Nat \ {0} /\ MaxFaults \in Nat /\ Older \notin Snapshots

Receipts == 1..N

Requests == Snapshots \cup {Older}

VARIABLES
  db,         \* each receipt: none, accrued or settled
  listener,   \* the LISTEN session: none, live, or deaf without knowing it
  missed,     \* the next subscription says resync
  notes,      \* settlements announced on the session, not heard yet
  lookups,    \* events whose receipts are being looked up
  link,       \* the browser's stream: down or open
  queue,      \* events on the stream
  pages,      \* each page request: its cursor, and what was read
  rows,       \* each receipt on the screen: hidden, accrued or settled
  cursor,     \* where the next older page starts; 0 when all is shown
  loaded,
  excused,    \* receipts an event was lost or useless for (history)
  crossed,    \* a page was merged after a snapshot read later (history)
  faults

listenVars == <<listener, missed, notes>>
screenVars == <<rows, cursor, loaded, crossed>>
feedVars == <<db, listenVars, lookups, link, queue, pages, screenVars, excused, faults>>

NoPage == [from |-> 0]

FeedInit ==
  /\ db = [r \in Receipts |-> "none"]
  /\ listener = "none" /\ missed = FALSE /\ notes = {}
  /\ lookups = {}
  /\ link = "down" /\ queue = << >>
  /\ pages = [q \in Requests |-> NoPage]
  /\ rows = [r \in Receipts |-> "hidden"] /\ cursor = 0 /\ loaded = FALSE
  /\ excused = {} /\ crossed = FALSE /\ faults = 0

Fault == faults < MaxFaults /\ faults' = faults + 1

-----------------------------------------------------------------------------
(* The tables.                                                             *)

\* listReceipts below `from`: the newest PageSize, and the cursor when there are more.
Listed(from) ==
  LET below == {r \in Receipts : r < from /\ db[r] # "none"}
      items == {r \in below : Cardinality({s \in below : s > r}) < PageSize}
  IN  [items |-> [r \in items |-> db[r]],
       next  |-> IF items = below THEN 0 ELSE Min(items)]

\* feed.guarded: without a subscriber nothing is looked up.
Looking(kind, r, standing) ==
  IF link = "open" THEN lookups \cup {[kind |-> kind, receipt |-> r, standing |-> standing]}
  ELSE lookups

\* A voucher's receipt; that of a payment is settled from the start, and never changes.
Issue(r) ==
  /\ db[r] = "none"
  /\ db' = [db EXCEPT ![r] = "accrued"]
  /\ lookups' = Looking("receipt", r, "unread")
  /\ UNCHANGED <<listenVars, link, queue, pages, screenVars, excused, faults>>

\* The settler records a batch, here of one receipt, and notifies in the same transaction.
\* Nobody hears of it on a session that was never subscribed, nor will one resync for it.
Settle(r) ==
  /\ db[r] = "accrued"
  /\ db' = [db EXCEPT ![r] = "settled"]
  /\ notes' = IF listener = "live" THEN notes \cup {r} ELSE notes
  /\ excused' = IF listener = "none" /\ ~missed THEN excused \cup {r} ELSE excused
  /\ UNCHANGED <<listener, missed, lookups, link, queue, pages, screenVars, faults>>

-----------------------------------------------------------------------------
(* listenForSettlements.                                                   *)

Resynced == IF link = "open" THEN Append(queue, [kind |-> "resync"]) ELSE queue

\* Mutant of Listening: only a session that subscribes again says resync.
ListeningQuietly ==
  /\ listener' = "live" /\ missed' = FALSE
  /\ queue' = queue

\* A subscription on new handlers.
Listening ==
  /\ listener' = "live" /\ missed' = FALSE
  /\ queue' = IF missed THEN Resynced ELSE queue

\* ensureConnected, at the start and from the probe timer.
Connect ==
  /\ listener = "none"
  /\ Listening
  /\ UNCHANGED <<db, notes, lookups, link, pages, screenVars, excused, faults>>

ConnectFails ==
  /\ listener = "none" /\ Fault
  /\ missed' = TRUE
  /\ UNCHANGED <<db, listener, notes, lookups, link, queue, pages, screenVars, excused>>

\* The socket closes or goes half-open: what was announced on it is lost.
GoDeaf ==
  /\ listener = "live" /\ Fault
  /\ listener' = "deaf" /\ notes' = {}
  /\ UNCHANGED <<db, missed, lookups, link, queue, pages, screenVars, excused>>

\* The driver notices by itself and subscribes again, on the same handlers.
Resubscribe ==
  /\ listener = "deaf"
  /\ listener' = "live" /\ missed' = FALSE
  /\ queue' = Resynced
  /\ UNCHANGED <<db, notes, lookups, link, pages, screenVars, excused, faults>>

\* probe: no echo in time, because the session is deaf or the echo slow.  The old session
\* is closed before a new one is opened.
EchoMissing ==
  /\ \/ listener = "deaf" /\ UNCHANGED faults
     \/ listener = "live" /\ Fault
  /\ listener' = "none" /\ missed' = TRUE /\ notes' = {}
  /\ UNCHANGED <<db, lookups, link, queue, pages, screenVars, excused>>

\* The rows of a batch never change again: when they are looked up does not matter.
Hear(r) ==
  /\ r \in notes
  /\ notes' = notes \ {r}
  /\ lookups' = Looking("settlement", r, "settled")
  /\ UNCHANGED <<db, listener, missed, link, queue, pages, screenVars, excused, faults>>

-----------------------------------------------------------------------------
(* publisherFeed: events name a receipt or a batch, and are looked up.     *)

LookUp(l) ==
  /\ l.standing = "unread"
  /\ lookups' = (lookups \ {l}) \cup {[l EXCEPT !.standing = db[l.receipt]]}
  /\ UNCHANGED <<db, listenVars, link, queue, pages, screenVars, excused, faults>>

\* The error is logged, and nobody is told to read again.
LookUpFails(l) ==
  /\ l.standing = "unread" \/ l.kind = "settlement"
  /\ Fault
  /\ lookups' = lookups \ {l}
  /\ excused' = excused \cup {l.receipt}
  /\ UNCHANGED <<db, listenVars, link, queue, pages, screenVars>>

Deliver(l) ==
  /\ l.standing # "unread"
  /\ lookups' = lookups \ {l}
  /\ queue' = IF link = "open" THEN Append(queue, l) ELSE queue
  /\ UNCHANGED <<db, listenVars, link, pages, screenVars, excused, faults>>

-----------------------------------------------------------------------------
(* The browser: followStream, and the rows of lib/feed.                    *)

\* The stream's own requests end with it; an older page has the screen's lifetime.
WithoutSnapshots == [q \in Requests |-> IF q = Older THEN pages[q] ELSE NoPage]

Open ==
  /\ link = "down"
  /\ link' = "open" /\ queue' = <<[kind |-> "ready"]>>
  /\ UNCHANGED <<db, listenVars, lookups, pages, screenVars, excused, faults>>

Drop ==
  /\ link = "open" /\ Fault
  /\ link' = "down" /\ queue' = << >> /\ pages' = WithoutSnapshots
  /\ UNCHANGED <<db, listenVars, lookups, screenVars, excused>>

GatewayRestart ==
  /\ Fault
  /\ listener' = "none" /\ missed' = FALSE /\ notes' = {}
  /\ lookups' = {}
  /\ link' = "down" /\ queue' = << >> /\ pages' = [q \in Requests |-> NoPage]
  /\ UNCHANGED <<db, screenVars, excused>>

Asked(from) == [from |-> from, read |-> FALSE]

\* Mutant of Reread: a screen that was read once is left to the events.
RereadOnce(q) ==
  /\ queue # << >> /\ Head(queue).kind \in {"ready", "resync"}
  /\ pages[q] = NoPage
  /\ pages' = IF loaded THEN pages ELSE [pages EXCEPT ![q] = Asked(N + 1)]
  /\ queue' = Tail(queue)
  /\ UNCHANGED <<db, listenVars, lookups, link, screenVars, excused, faults>>

\* `ready` and `resync` read the first page again.
Reread(q) ==
  /\ queue # << >> /\ Head(queue).kind \in {"ready", "resync"}
  /\ pages[q] = NoPage
  /\ pages' = [pages EXCEPT ![q] = Asked(N + 1)]
  /\ queue' = Tail(queue)
  /\ UNCHANGED <<db, listenVars, lookups, link, screenVars, excused, faults>>

\* Mutant of Merged: the newer read wins, whatever is on the screen.
MergedAsRead(shown, items) ==
  [r \in Receipts |-> IF r \in DOMAIN items THEN items[r] ELSE shown[r]]

\* merge: a settlement only ever moves forward.
Merged(shown, items) ==
  [r \in Receipts |->
     IF r \in DOMAIN items /\ shown[r] # "settled" THEN items[r] ELSE shown[r]]

\* Below the cursor it may be older than a settlement that nobody will announce again.
ReceiptArrives ==
  /\ queue # << >> /\ Head(queue).kind = "receipt"
  /\ LET e == Head(queue)
     IN  /\ rows' = Merged(rows, [r \in {e.receipt} |-> e.standing])
         /\ excused' = IF rows[e.receipt] = "hidden" /\ e.receipt < cursor
                       THEN excused \cup {e.receipt} ELSE excused
  /\ queue' = Tail(queue)
  /\ UNCHANGED <<db, listenVars, lookups, link, pages, cursor, loaded, crossed, faults>>

\* withSettlement marks a row that is shown; for another the event is lost.
SettlementArrives ==
  /\ queue # << >> /\ Head(queue).kind = "settlement"
  /\ LET r == Head(queue).receipt
     IN  IF rows[r] = "hidden"
         THEN excused' = excused \cup {r} /\ UNCHANGED rows
         ELSE rows' = [rows EXCEPT ![r] = "settled"] /\ UNCHANGED excused
  /\ queue' = Tail(queue)
  /\ UNCHANGED <<db, listenVars, lookups, link, pages, cursor, loaded, crossed, faults>>

AskOlder ==
  /\ loaded /\ cursor # 0 /\ pages[Older] = NoPage
  /\ pages' = [pages EXCEPT ![Older] = Asked(cursor)]
  /\ UNCHANGED <<db, listenVars, lookups, link, queue, screenVars, excused, faults>>

\* The gateway's read; the answer is on its way.
ReadPage(q) ==
  /\ pages[q] # NoPage /\ ~pages[q].read
  /\ pages' = [pages EXCEPT ![q] =
                 [from |-> @.from, read |-> TRUE, passed |-> FALSE, page |-> Listed(@.from)]]
  /\ UNCHANGED <<db, listenVars, lookups, link, queue, screenVars, excused, faults>>

\* A first page that cannot be read ends the attempt; an older one is asked for again.
PageFails(q) ==
  /\ pages[q] # NoPage /\ Fault
  /\ IF q # Older
     THEN link' = "down" /\ queue' = << >> /\ pages' = WithoutSnapshots
     ELSE pages' = [pages EXCEPT ![q] = NoPage] /\ UNCHANGED <<link, queue>>
  /\ UNCHANGED <<db, listenVars, lookups, screenVars, excused>>

\* What a page shows is no longer excused, unless its settlement came after the read.
Shown(items) == {r \in DOMAIN items : items[r] = db[r]}

\* Mutant of Kept: rows below the page stay.
KeptAll(page) == rows

\* Rows below the page's last one are dropped; the cursor starts over from there.
Kept(page) ==
  IF page.next = 0 THEN rows
  ELSE [r \in Receipts |-> IF r > page.next THEN rows[r] ELSE "hidden"]

\* The page's last row is not newer than itself: it is dropped too, and taken as read.
TakenBack(page) ==
  {r \in {page.next} \cap DOMAIN page.items : rows[r] = "settled" /\ page.items[r] = "accrued"}

SnapshotArrives(q) ==
  /\ pages[q] # NoPage /\ pages[q].read
  /\ LET page == pages[q].page
     IN  /\ rows' = Merged(Kept(page), page.items)
         /\ cursor' = page.next
         /\ excused' = (excused \ Shown(page.items)) \cup TakenBack(page)
  /\ loaded' = TRUE
  /\ crossed' = pages[q].passed
  /\ pages' = [p \in Requests |->
                 IF p = q THEN NoPage
                 ELSE IF pages[p] # NoPage /\ pages[p].read THEN [pages[p] EXCEPT !.passed = TRUE]
                 ELSE pages[p]]
  /\ UNCHANGED <<db, listenVars, lookups, link, queue, faults>>

\* A page asked for before a resync moved the cursor would leave a gap above it.
StillWanted == loaded /\ cursor = pages[Older].from

OlderArrives ==
  /\ pages[Older] # NoPage /\ pages[Older].read
  /\ IF StillWanted
     THEN LET page == pages[Older].page
          IN  /\ rows' = Merged(rows, page.items)
              /\ cursor' = page.next
              /\ excused' = excused \ Shown(page.items)
              /\ crossed' = (crossed \/ pages[Older].passed)
     ELSE UNCHANGED <<rows, cursor, excused, crossed>>
  /\ pages' = [pages EXCEPT ![Older] = NoPage]
  /\ UNCHANGED <<db, listenVars, lookups, link, queue, loaded, faults>>

-----------------------------------------------------------------------------

ListenerStep == Connect \/ Resubscribe \/ EchoMissing \/ ConnectFails \/ GoDeaf

LookupStep == \E l \in lookups : LookUp(l) \/ Deliver(l)

BrowserStep ==
  \/ Open \/ ReceiptArrives \/ SettlementArrives \/ OlderArrives
  \/ \E q \in Snapshots : Reread(q) \/ SnapshotArrives(q)
  \/ \E q \in Requests : ReadPage(q)

FeedNext ==
  \/ \E r \in Receipts : Issue(r) \/ Settle(r) \/ Hear(r)
  \/ ListenerStep \/ LookupStep \/ BrowserStep
  \/ \E l \in lookups : LookUpFails(l)
  \/ Drop \/ GatewayRestart \/ AskOlder
  \/ \E q \in Requests : PageFails(q)

FeedSpec == FeedInit /\ [][FeedNext]_feedVars

GatewayStep == Connect \/ EchoMissing \/ LookupStep \/ \E r \in Receipts : Hear(r)

\* Timers and sockets go on by themselves: the probe interval, the connection it makes, the
\* database's answers, and the browser's retries.  Neither side can keep itself busy without
\* a fault, so fairness of each as a whole is enough.  A session that is neither heard nor
\* closed is what the probe is for: nothing is assumed of Resubscribe.
Fairness == WF_feedVars(GatewayStep) /\ WF_feedVars(BrowserStep)

FairFeedSpec == FeedSpec /\ Fairness

-----------------------------------------------------------------------------

\* Nothing is on its way to the browser, and nothing could have got lost unnoticed.
Quiet ==
  /\ link = "open" /\ queue = << >> /\ loaded
  /\ \A q \in Requests : pages[q] = NoPage
  /\ lookups = {} /\ listener = "live" /\ notes = {}

\* feed.ts: settlement only ever moves forward, whatever page or event comes late.
SettlementsStand == [][\A r \in Receipts : rows[r] = "settled" => rows'[r] # "accrued"]_feedVars

\* So it does for every row but the one a first page ends with, and no row is ever ahead
\* of the tables.
SettlementsStandAbove ==
  [][\A r \in Receipts :
       /\ rows[r] = "settled" => rows'[r] # "accrued" \/ (r = cursor' /\ r \in excused')
       /\ rows'[r] = "settled" => db'[r] = "settled"]_feedVars

\* However events, resyncs, reconnections and pages interleave, everything at or above
\* the cursor is on the screen, unless its event was lost in a failed lookup.  A page
\* merged after a snapshot that was read later is the exception.
NoGap ==
  Quiet /\ ~crossed =>
    \A r \in Receipts : db[r] # "none" /\ r >= cursor => rows[r] # "hidden" \/ r \in excused

\* A settled receipt is still shown as accrued only when its event met no row, or could not
\* be looked up, or came before the gateway first listened.
StaleIsExplained ==
  Quiet /\ ~crossed =>
    \A r \in Receipts : rows[r] = "accrued" => db[r] = "accrued" \/ r \in excused

\* A settlement announced to a deaf session reaches the screen all the same.
SettlementsArrive ==
  \A r \in Receipts :
    rows[r] = "accrued" /\ db[r] = "settled"
      ~> rows[r] # "accrued" \/ r \in excused \/ crossed
=============================================================================
