---------------------------- MODULE Registration ----------------------------
(***************************************************************************)
(* What happens to a transaction between its preparation and the answer    *)
(* its sender gets: the gateway that prepares a registration or a change   *)
(* and says how it went, the dashboard that asks until it knows, and, for  *)
(* comparison on the same network, an agent that deposits into its escrow  *)
(* and watches its own transaction with sendAndAwait.                      *)
(*                                                                         *)
(* The network is the cluster as its RPC shows it: a transaction lands     *)
(* until its last valid height, may first be seen on a fork that loses,    *)
(* and leaves the cache of recent statuses after a while.  `confirmed` is  *)
(* taken as final.  Publisher and agent share only that: a behaviour has   *)
(* one or the other (a bound).  Only registration is driven by the         *)
(* dashboard; a change is prepared by the same gateway and asked about in  *)
(* the same way.                                                           *)
(***************************************************************************)
EXTENDS Naturals

CONSTANTS
  Rates,       \* the rates a form offers
  Requests,    \* what the publisher asks for, one after another
  Attempts,    \* 1..n, how often (bound)
  ValidFor,    \* blocks a blockhash is good for
  CacheSpan,   \* blocks the status cache remembers
  MaxHeight,   \* bound on the chain
  MaxFaults,   \* bound on lost answers, losing forks and wallets that fail late
  MaxFailures  \* failed rounds in a row sendAndAwait tolerates

Targets == {"domain", "work"}

\* A request of the forms; what is registered is active.
ASSUME RegistrationAssumption ==
  /\ Requests \subseteq [kind : {"register", "change"}, target : Targets,
                        rate : Rates, status : {"active", "suspended"}]
  /\ \A q \in Requests : q.kind = "register" => q.status = "active"
  /\ Attempts \subseteq Nat \ {0} /\ {ValidFor, CacheSpan, MaxHeight, MaxFaults} \subseteq Nat
  /\ MaxFailures \in Nat \ {0}

Deposit == 0                 \* the agent's transaction

Txs == Attempts \cup {Deposit}

VARIABLES
  height,     \* confirmed block height
  account,    \* the registry's accounts, confirmed
  escrow,     \* whether the agent's escrow is open, confirmed
  tx,         \* each transaction
  ui,         \* the registration on the screen
  check,      \* the status request in flight
  told,       \* what the publisher was last told of each attempt
  watch,      \* the agent's sendAndAwait
  misled,     \* verdicts given on a fork, or about a status forgotten (history)
  faults

vars == <<height, account, escrow, tx, ui, check, told, watch, misled, faults>>

NoAccount == [owner |-> "nobody", rate |-> "none", status |-> "none"]

NoTx == [life |-> "none"]

NoCheck == [step |-> "none"]

Init ==
  /\ height = 0
  /\ \E domain \in {NoAccount, [owner |-> "publisher", rate |-> "low", status |-> "active"]} :
       account = [t \in Targets |-> IF t = "domain" THEN domain ELSE NoAccount]
  /\ escrow = FALSE
  /\ tx = [i \in Txs |-> NoTx]
  /\ ui = [phase |-> "idle", attempt |-> 0]
  /\ check = NoCheck
  /\ told = [i \in Attempts |-> "nothing"]
  /\ watch = [step |-> "none", failures |-> 0]
  /\ misled = {} /\ faults = 0

Fault == faults < MaxFaults /\ faults' = faults + 1

-----------------------------------------------------------------------------
(* The network.                                                            *)

\* A blockhash is taken while the bounded chain still reaches its end.
InBounds == height + ValidFor < MaxHeight

\* init fails on an account that exists; a work needs its domain, of the same owner.
Executes(i) ==
  IF i = Deposit THEN "open" \in tx[i].parts => ~escrow
  ELSE LET t == tx[i].request.target
       IN  /\ "register" \in tx[i].parts => account[t] = NoAccount
           /\ t = "work" \/ "register" \notin tx[i].parts => account["domain"].owner = "publisher"

\* register_domain, register_work; then set_*_rates and set_*_status, in one transaction.
Executed(i) ==
  LET q == tx[i].request
      made == IF "register" \notin tx[i].parts THEN account[q.target]
              ELSE [owner |-> "publisher", status |-> "active",
                    rate |-> IF q.target = "work" THEN "inherited" ELSE q.rate]
      rated == IF "rates" \in tx[i].parts THEN [made EXCEPT !.rate = q.rate] ELSE made
  IN  IF "status" \in tx[i].parts THEN [rated EXCEPT !.status = q.status] ELSE rated

NextBlock ==
  /\ height < MaxHeight
  /\ height' = height + 1
  /\ UNCHANGED <<account, escrow, tx, ui, check, told, watch, misled, faults>>

\* On some fork; what happens on one that loses need not be what happens in the end.
Process(i) ==
  /\ tx[i].life = "sent" /\ height <= tx[i].lastValid
  /\ \E life \in {"fork ok", "fork failed"} :
       /\ tx' = [tx EXCEPT ![i].life = life]
       /\ IF Executes(i) = (life = "fork ok") THEN UNCHANGED faults ELSE Fault
  /\ UNCHANGED <<height, account, escrow, ui, check, told, watch, misled>>

OnFork(i) == tx[i].life \in {"fork ok", "fork failed"}

Confirm(i) ==
  /\ OnFork(i) /\ height <= tx[i].lastValid
  /\ tx' = [tx EXCEPT ![i].life = IF Executes(i) THEN "landed" ELSE "failed", ![i].at = height]
  /\ account' = IF Executes(i) /\ i # Deposit
                THEN [account EXCEPT ![tx[i].request.target] = Executed(i)] ELSE account
  /\ escrow' = (escrow \/ (i = Deposit /\ Executes(i)))
  /\ UNCHANGED <<height, ui, check, told, watch, misled, faults>>

\* The fork it was on lost.
Abandon(i) ==
  /\ OnFork(i)
  /\ tx' = [tx EXCEPT ![i].life = "sent"]
  /\ UNCHANGED <<height, account, escrow, ui, check, told, watch, misled>>

Reorganise(i) == Fault /\ Abandon(i)

\* Past its last valid height a fork that is not confirmed has lost for good.
Lapse(i) ==
  /\ OnFork(i) /\ height > tx[i].lastValid
  /\ Abandon(i)
  /\ UNCHANGED faults

\* The same wallet, from another client.
ChangedElsewhere(t) ==
  /\ account[t].owner = "publisher" /\ Fault
  /\ account' = [account EXCEPT ![t].status = IF @ = "active" THEN "suspended" ELSE "active"]
  /\ UNCHANGED <<height, escrow, tx, ui, check, told, watch, misled>>

\* Another wallet registers the domain; another process of the agent opens the escrow.
Preempted ==
  /\ \/ /\ account["domain"] = NoAccount
        /\ account' = [account EXCEPT !["domain"] =
                          [owner |-> "other", rate |-> "low", status |-> "active"]]
        /\ UNCHANGED escrow
     \/ /\ ~escrow
        /\ escrow' = TRUE
        /\ UNCHANGED account
  /\ UNCHANGED <<height, tx, ui, check, told, watch, misled, faults>>

Included(i) == tx[i].life \in {"landed", "failed"}

\* getSignatureStatuses, without searchTransactionHistory.
RecentStatus(i) ==
  IF OnFork(i) \/ (Included(i) /\ height - tx[i].at <= CacheSpan) THEN tx[i].life ELSE "unseen"

-----------------------------------------------------------------------------
(* The gateway: prepareRegistration and prepareChange, then assemble.      *)

Refusal(q) ==
  IF q.kind = "change" THEN account["domain"].owner # "publisher" \/ account[q.target] = NoAccount
  ELSE \/ account[q.target] # NoAccount
       \/ q.target = "work" /\ account["domain"].owner # "publisher"

\* Mutant of Instructions: a change of rates leaves no room for a change of status.
InstructionsEither(q) ==
  IF q.kind = "register"
  THEN {"register"} \cup (IF q.target = "work" /\ q.rate # "inherited" THEN {"rates"} ELSE {})
  ELSE IF q.rate # account[q.target].rate THEN {"rates"}
  ELSE IF q.status # account[q.target].status THEN {"status"} ELSE {}

\* Only what differs from the account read goes into a change.
Instructions(q) ==
  IF q.kind = "register"
  THEN {"register"} \cup (IF q.target = "work" /\ q.rate # "inherited" THEN {"rates"} ELSE {})
  ELSE (IF q.rate # account[q.target].rate THEN {"rates"} ELSE {})
         \cup (IF q.status # account[q.target].status THEN {"status"} ELSE {})

Told(outcome) == told' = [told EXCEPT ![ui.attempt] = outcome]

Stopped(outcome) ==
  /\ ui' = [ui EXCEPT !.phase = "over"]
  /\ Told(outcome)

\* The accounts are read; a work's origin answers or does not.
Examine ==
  /\ ui.phase = "preparing" /\ tx[ui.attempt] = NoTx
  /\ LET q == ui.request
     IN  \/ /\ \/ Refusal(q)
               \/ q.kind = "register" /\ q.target = "work"
               \/ q.kind = "change" /\ Instructions(q) = {}
            /\ Stopped("nothing sent")
            /\ UNCHANGED tx
         \/ /\ ~Refusal(q) /\ Instructions(q) # {}
            /\ tx' = [tx EXCEPT ![ui.attempt] = [life |-> "examined", request |-> q,
                        base |-> account[q.target], parts |-> Instructions(q),
                        lastValid |-> 0, at |-> 0]]
            /\ UNCHANGED <<ui, told>>
  /\ UNCHANGED <<height, account, escrow, check, watch, misled, faults>>

Assemble ==
  /\ ui.phase = "preparing" /\ tx[ui.attempt].life = "examined" /\ InBounds
  /\ tx' = [tx EXCEPT ![ui.attempt].life = "unsent", ![ui.attempt].lastValid = height + ValidFor]
  /\ ui' = [ui EXCEPT !.phase = "signing"]
  /\ UNCHANGED <<height, account, escrow, check, told, watch, misled, faults>>

-----------------------------------------------------------------------------
(* The gateway: registrationStatus.                                        *)

\* Mutant of Verdict: at its last valid height a transaction counts as expired.
VerdictEarly(i, seen) ==
  CASE RecentStatus(i) = "landed" -> "registered"
    [] RecentStatus(i) \in {"failed", "fork failed"} -> "failed"
    [] RecentStatus(i) = "unseen" /\ seen >= tx[i].lastValid -> "expired"
    [] OTHER -> "pending"

\* Mutant of Verdict: what was never seen is asked about for ever.
VerdictPatient(i, seen) ==
  CASE RecentStatus(i) = "landed" -> "registered"
    [] RecentStatus(i) \in {"failed", "fork failed"} -> "failed"
    [] OTHER -> "pending"

\* An error counts whatever the commitment; the height is the one read before the status.
Verdict(i, seen) ==
  CASE RecentStatus(i) = "landed" -> "registered"
    [] RecentStatus(i) \in {"failed", "fork failed"} -> "failed"
    [] RecentStatus(i) = "unseen" /\ seen > tx[i].lastValid -> "expired"
    [] OTHER -> "pending"

ReadHeight ==
  /\ check.step = "asked"
  /\ check' = [step |-> "height", attempt |-> check.attempt, seen |-> height]
  /\ UNCHANGED <<height, account, escrow, tx, ui, told, watch, misled, faults>>

ReadStatus ==
  /\ check.step = "height"
  /\ LET i == check.attempt
         verdict == Verdict(i, check.seen)
     IN  /\ check' = [step |-> "answered", attempt |-> i, verdict |-> verdict]
         /\ misled' = IF (verdict = "failed" /\ OnFork(i)) \/ (verdict = "expired" /\ Included(i))
                      THEN misled \cup {i} ELSE misled
  /\ UNCHANGED <<height, account, escrow, tx, ui, told, watch, faults>>

-----------------------------------------------------------------------------
(* The dashboard: register, under useRegistration.                         *)

\* The forms are locked while a registration is under way.
Start(q) ==
  /\ ui.phase \in {"idle", "over"}
  /\ ui.attempt + 1 \in Attempts /\ watch.step = "none"
  /\ ui' = [phase |-> "preparing", attempt |-> ui.attempt + 1, request |-> q]
  /\ UNCHANGED <<height, account, escrow, tx, check, told, watch, misled, faults>>

\* Too many requests, no answer, or one that cannot be read.
PrepareFails ==
  /\ ui.phase = "preparing" /\ Fault
  /\ Stopped("nothing sent")
  /\ UNCHANGED <<height, account, escrow, tx, check, watch, misled>>

Confirming ==
  /\ ui' = [ui EXCEPT !.phase = "confirming"]
  /\ check' = [step |-> "asked", attempt |-> ui.attempt]

\* A wallet that signs and sends in one step.
Send ==
  /\ ui.phase = "signing"
  /\ tx' = [tx EXCEPT ![ui.attempt].life = "sent"]
  /\ Confirming
  /\ UNCHANGED <<height, account, escrow, told, watch, misled, faults>>

\* senderFor found no wallet, account or cluster to send with.
CannotSend ==
  /\ ui.phase = "signing"
  /\ Stopped("nothing sent")
  /\ UNCHANGED <<height, account, escrow, tx, check, watch, misled, faults>>

\* The wallet reports an error: most likely it did not send, and that is all that is said.
WalletStops ==
  /\ ui.phase = "signing"
  /\ \/ UNCHANGED <<tx, faults>>
     \/ Fault /\ tx' = [tx EXCEPT ![ui.attempt].life = "sent"]
  /\ Stopped("wallet stopped")
  /\ UNCHANGED <<height, account, escrow, check, watch, misled>>

\* A lost answer is asked for again, for as long as it takes.
CheckFails ==
  /\ check # NoCheck /\ Fault
  /\ Confirming
  /\ UNCHANGED <<height, account, escrow, tx, told, watch, misled>>

CheckArrives ==
  /\ check.step = "answered"
  /\ IF check.verdict = "pending"
     THEN Confirming /\ UNCHANGED told
     ELSE Stopped(check.verdict) /\ check' = NoCheck
  /\ UNCHANGED <<height, account, escrow, tx, watch, misled, faults>>

\* The screen is left, or the session ends: the asking stops, the transaction does not.
Leave ==
  /\ ui.phase \in {"preparing", "signing", "confirming"} /\ Fault
  /\ ui' = [ui EXCEPT !.phase = "over"] /\ check' = NoCheck
  /\ UNCHANGED <<height, account, escrow, tx, told, watch, misled>>

\* A wallet that was still asking when the screen was left sends all the same.
SendsUnwatched(i) ==
  /\ tx[i].life = "unsent" /\ told[i] = "nothing"
  /\ ui.attempt # i \/ ui.phase = "over"
  /\ tx' = [tx EXCEPT ![i].life = "sent"]
  /\ UNCHANGED <<height, account, escrow, ui, check, told, watch, misled, faults>>

-----------------------------------------------------------------------------
(* The agent: deposit, sendAndAwait and awaitSignature for `confirmed`.     *)

\* The escrow is read, to be opened along with a first deposit, then the blockhash; by the
\* time of sending it may have been opened already.  A send that fails may have got through.
DepositSends ==
  /\ watch.step = "none" /\ InBounds /\ ui.attempt = 0
  /\ \E opening \in {TRUE, ~escrow} :
       tx' = [tx EXCEPT ![Deposit] =
                [life |-> "sent", parts |-> IF opening THEN {"open", "deposit"} ELSE {"deposit"},
                 lastValid |-> height + ValidFor, at |-> 0]]
  /\ \/ watch' = [watch EXCEPT !.step = "recent"] /\ UNCHANGED faults
     \/ watch' = [watch EXCEPT !.step = "gave up"] /\ Fault
  /\ UNCHANGED <<height, account, escrow, ui, check, told, misled>>

\* Another round later, or this one went well but decided nothing.
Missed == watch' = [step |-> "recent", failures |-> 0]

Watched(outcome) == watch' = [watch EXCEPT !.step = outcome]

\* decided: neither success nor failure counts on a fork.
ReadRecent ==
  /\ watch.step = "recent"
  /\ CASE RecentStatus(Deposit) = "unseen" -> Watched("height")
       [] OnFork(Deposit)                  -> Missed
       [] OTHER                            -> Watched(tx[Deposit].life)
  /\ UNCHANGED <<height, account, escrow, tx, ui, check, told, misled, faults>>

\* Mutant of WatchHeight: past the last valid height nothing is looked up again.
WatchHeightOnly ==
  /\ watch.step = "height"
  /\ IF height <= tx[Deposit].lastValid THEN Missed ELSE Watched("expired")
  /\ UNCHANGED <<height, account, escrow, tx, ui, check, told, misled, faults>>

WatchHeight ==
  /\ watch.step = "height"
  /\ IF height <= tx[Deposit].lastValid THEN Missed ELSE Watched("history")
  /\ UNCHANGED <<height, account, escrow, tx, ui, check, told, misled, faults>>

\* searchTransactionHistory
ReadHistory ==
  /\ watch.step = "history"
  /\ CASE Included(Deposit) -> Watched(tx[Deposit].life)
       [] OnFork(Deposit)   -> Missed
       [] OTHER             -> Watched("expired")
  /\ UNCHANGED <<height, account, escrow, tx, ui, check, told, misled, faults>>

\* A failed round is only a round missed, until there are too many in a row.
RoundFails ==
  /\ watch.step \in {"recent", "height", "history"}
  /\ watch' = IF watch.failures + 1 = MaxFailures THEN [watch EXCEPT !.step = "gave up"]
              ELSE [step |-> "recent", failures |-> watch.failures + 1]
  /\ UNCHANGED <<height, account, escrow, tx, ui, check, told, misled, faults>>

-----------------------------------------------------------------------------

Network == \E i \in Txs : Process(i) \/ Confirm(i) \/ Reorganise(i) \/ Lapse(i)

Checking == ReadHeight \/ ReadStatus \/ CheckArrives

Watching == ReadRecent \/ WatchHeight \/ ReadHistory

Next ==
  \/ NextBlock \/ Network
  \/ Preempted \/ \E t \in Targets : ChangedElsewhere(t)
  \/ \E q \in Requests : Start(q)
  \/ Examine \/ Assemble \/ PrepareFails
  \/ Send \/ CannotSend \/ WalletStops \/ \E i \in Attempts : SendsUnwatched(i)
  \/ Checking \/ CheckFails \/ Leave
  \/ DepositSends \/ Watching \/ RoundFails

Spec == Init /\ [][Next]_vars

\* The chain goes on, forks that lost are forgotten, and the gateway and the polls answer.
Fairness ==
  /\ WF_vars(NextBlock) /\ WF_vars(Checking) /\ WF_vars(Watching)
  /\ \A i \in Txs : WF_vars(Lapse(i))

FairSpec == Spec /\ Fairness

-----------------------------------------------------------------------------

Ended == {"landed", "failed", "expired", "gave up"}

\* What the publisher is told of a transaction stays true: nothing that was called expired,
\* failed or never sent lands later, whatever was lost or asked again.  The two exceptions
\* are an error seen only on a fork and a success the status cache had forgotten.
ToldTruly ==
  \A i \in Attempts :
    /\ told[i] = "registered" => tx[i].life = "landed"
    /\ told[i] \in {"failed", "expired"} => tx[i].life # "landed" \/ i \in misled
    /\ told[i] = "nothing sent" => tx[i].life \in {"none", "examined", "unsent"}

\* sendAndAwait has neither exception: what it says of a transaction is what happened to it.
WatchedTruly ==
  /\ watch.step \in {"landed", "failed"} => tx[Deposit].life = watch.step
  /\ watch.step = "expired" => ~Included(Deposit)

\* A change that lands leaves each field as it was asked for, unless the field was changed by
\* somebody else after the account was read; a registration lands only on a free account.
LandsAsAsked ==
  [][\A i \in Attempts :
       tx[i].life # "landed" /\ tx'[i].life = "landed" =>
         LET q == tx[i].request
             was == account[q.target]
             is == account'[q.target]
         IN  /\ is.owner = "publisher"
             /\ q.kind = "register" => was = NoAccount
             /\ is.rate = q.rate \/ was.rate # tx[i].base.rate
             /\ is.status = q.status \/ was.status # tx[i].base.status]_vars

\* The network decides or the blockhash expires, so asking always ends while it is answered,
\* in the dashboard and in the agent.
AskingEnds ==
  /\ ui.phase = "confirming" ~> ui.phase # "confirming"
  /\ tx[Deposit] # NoTx ~> watch.step \in Ended
=============================================================================
