------------------------- MODULE RegistrationProofs -------------------------
(***************************************************************************)
(* What the gateway's answers and sendAndAwait's can be relied on for, for *)
(* any requests, any number of attempts, any life of a blockhash and of a  *)
(* cached status, and any number of lost answers and losing forks; and     *)
(* what a change makes of the account it lands on.                         *)
(***************************************************************************)
EXTENDS Registration, TLAPS

-----------------------------------------------------------------------------
(* The invariants.                                                         *)

Account == [owner : {"nobody", "publisher", "other"},
            rate : Rates \cup {"none", "low", "inherited"},
            status : {"none", "active", "suspended"}]

Parts == {"register", "rates", "status", "open", "deposit"}

Forks == {"fork ok", "fork failed"}

\* Where a transaction can be once it was sent.
OnItsWay == {"sent"} \cup Forks \cup {"landed", "failed"}

Attempted == [life : {"examined", "unsent"} \cup OnItsWay, request : Requests, base : Account,
              parts : SUBSET Parts, lastValid : Nat, at : Nat]

Deposited == [life : OnItsWay, parts : SUBSET Parts, lastValid : Nat, at : Nat]

TxType(i) == {NoTx} \cup (IF i = Deposit THEN Deposited ELSE Attempted)

Outcomes == {"registered", "failed", "expired", "nothing sent", "wallet stopped"}

UiType == [phase : {"idle"}, attempt : {0}]
          \cup [phase : {"preparing", "signing", "confirming", "over"}, attempt : Attempts,
                request : Requests]

CheckType == {NoCheck} \cup [step : {"asked"}, attempt : Attempts]
             \cup [step : {"height"}, attempt : Attempts, seen : Nat]
             \cup [step : {"answered"}, attempt : Attempts,
                 verdict : {"registered", "failed", "expired", "pending"}]

TxTypes == tx = [i \in Txs |-> tx[i]] /\ \A i \in Txs : tx[i] \in TxType(i)

\* The types of the whole state.
TypeInv ==
  /\ height \in Nat
  /\ account \in [Targets -> Account]
  /\ TxTypes
  /\ ui \in UiType /\ check \in CheckType
  /\ told \in [Attempts -> {"nothing"} \cup Outcomes]
  /\ watch \in [step : {"none", "recent", "height", "history"} \cup Ended, failures : Nat]
  /\ misled \in SUBSET Attempts

\* Nobody but the publisher registers works, and an account nobody owns is not there.
AccountInv ==
  /\ account["work"].owner # "other"
  /\ \A t \in Targets : account[t].owner = "nobody" => account[t] = NoAccount

\* What is on the screen is the last attempt, and the status asked for is its own.
ScreenInv ==
  /\ \A i \in Attempts : i > ui.attempt => tx[i] = NoTx /\ told[i] = "nothing"
  /\ ui.phase \in {"preparing", "signing", "confirming"} => told[ui.attempt] = "nothing"
  /\ ui.phase = "preparing" => tx[ui.attempt].life \in {"none", "examined"}
  /\ ui.phase = "signing" => tx[ui.attempt].life = "unsent"
  /\ ui.phase = "confirming" => tx[ui.attempt].life \in OnItsWay
  /\ check # NoCheck => ui.phase = "confirming" /\ check.attempt = ui.attempt
  /\ check.step = "height" => check.seen <= height

\* No block can take it any more.
Outlived(i) == tx[i].life = "sent" /\ height > tx[i].lastValid

\* What an outcome says of a transaction, now and from now on.
Holds(i, outcome) ==
  /\ outcome = "registered" => tx[i].life = "landed"
  /\ outcome = "failed" => tx[i].life = "failed" \/ i \in misled
  /\ outcome = "expired" => Outlived(i) \/ i \in misled
  /\ outcome = "nothing sent" => tx[i].life \in {"none", "examined", "unsent"}

\* No outcome that was told, and no verdict on its way to the screen, is untrue.
ToldInv ==
  /\ \A i \in Attempts : Holds(i, told[i])
  /\ check.step = "answered" => Holds(check.attempt, check.verdict)

\* What sendAndAwait has found out so far is so.
WatchInv ==
  /\ watch.step \in {"recent", "height", "history"} => tx[Deposit].life \in OnItsWay
  /\ watch.step = "history" => height > tx[Deposit].lastValid
  /\ watch.step \in {"landed", "failed"} => tx[Deposit].life = watch.step
  /\ watch.step = "expired" => Outlived(Deposit)

\* The instructions of an attempt are what its request asks of the account it was read from.
Composed(t) ==
  LET q == t.request
  IN  IF q.kind = "register"
      THEN t.parts = {"register"} \cup
                     (IF q.target = "work" /\ q.rate # "inherited" THEN {"rates"} ELSE {})
      ELSE /\ "register" \notin t.parts
           /\ "rates" \in t.parts <=> q.rate # t.base.rate
           /\ "status" \in t.parts <=> q.status # t.base.status
           /\ account[q.target].owner = "publisher"

\* What was prepared is composed of the request it was prepared for.
PartsInv == \A i \in Attempts : tx[i] # NoTx => Composed(tx[i])

\* The inductive invariant.
IInv == TypeInv /\ AccountInv /\ ScreenInv /\ ToldInv /\ WatchInv /\ PartsInv
-----------------------------------------------------------------------------
(* How transactions move.                                                  *)

\* What is known of a transaction that was prepared.
LEMMA TxFacts ==
  ASSUME TypeInv, NEW i \in Txs
  PROVE  /\ tx[i].life \in {"none", "examined", "unsent"} \cup OnItsWay
         /\ tx[i].life = "none" <=> tx[i] = NoTx
         /\ tx[i] # NoTx /\ i # Deposit => i \in Attempts /\ tx[i] \in Attempted
         /\ tx[i] # NoTx /\ i = Deposit => tx[i] \in Deposited /\ tx[i].life \in OnItsWay
         /\ tx[i] # NoTx => tx[i].lastValid \in Nat
<1>1. PICK t : t = tx[i] /\ t \in TxType(i)
  BY DEF TypeInv, TxTypes
<1>2. CASE t = NoTx
  BY <1>1, <1>2 DEF NoTx
<1>3. CASE t \in Attempted /\ i # Deposit
  <2>1. t.life # "none" /\ t.life \in {"examined", "unsent"} \cup OnItsWay /\ t.lastValid \in Nat
    BY <1>3 DEF Attempted, OnItsWay, Forks
  <2> QED BY <1>1, <1>3, <2>1 DEF NoTx, Txs
<1>4. CASE t \in Deposited /\ i = Deposit
  <2>1. t.life # "none" /\ t.life \in OnItsWay /\ t.lastValid \in Nat
    BY <1>4 DEF Deposited, OnItsWay, Forks
  <2> QED BY <1>1, <1>4, <2>1 DEF NoTx
<1>5. QED
  BY <1>1, <1>2, <1>3, <1>4 DEF TxType

\* A record put in the place of one.
LEMMA Replaced ==
  ASSUME TypeInv, NEW i \in Txs, NEW u \in TxType(i), tx' = [tx EXCEPT ![i] = u]
  PROVE  TxTypes' /\ tx'[i] = u /\ \A j \in Txs : j # i => tx'[j] = tx[j]
<1>1. tx'[i] = u /\ \A j \in Txs : j # i => tx'[j] = tx[j]
  BY DEF TypeInv, TxTypes
<1>2. tx' = [j \in Txs |-> tx'[j]]
  BY DEF TypeInv, TxTypes
<1>3. \A j \in Txs : tx'[j] \in TxType(j)
  <2>1. \A j \in Txs : tx[j] \in TxType(j)
    BY DEF TypeInv, TxTypes
  <2> QED BY <1>1, <2>1
<1>4. QED
  BY <1>1, <1>2, <1>3 DEF TxTypes

\* What an attempt keeps from its preparation on.
SameTerms(t, u) == u.request = t.request /\ u.base = t.base /\ u.parts = t.parts

\* A transaction is sent; it is taken into a block in time; the block is abandoned or stays.
Sending(t, u) == t.life = "unsent" /\ u.life = "sent"

Including(t, u) ==
  /\ u.lastValid = t.lastValid
  /\ \/ t.life = "sent" /\ u.life \in Forks /\ height <= t.lastValid
     \/ t.life \in Forks /\ u.life = "sent"
     \/ t.life \in Forks /\ u.life \in {"landed", "failed"} /\ height <= t.lastValid

\* A transaction with another life, and at another height.
Turned(t, life) == [t EXCEPT !.life = life]

TurnedAt(t, life, at) == [Turned(t, life) EXCEPT !.at = at]

\* A transaction on its way moves and keeps everything else.
LEMMA Moves ==
  ASSUME TypeInv, NEW i \in Txs, tx[i] # NoTx, NEW life \in OnItsWay, NEW u,
         u = Turned(tx[i], life) \/ (height \in Nat /\ u = TurnedAt(tx[i], life, height))
  PROVE  /\ u \in TxType(i) /\ u # NoTx /\ u.life = life /\ u.lastValid = tx[i].lastValid
         /\ i # Deposit => SameTerms(tx[i], u)
<1>1. PICK t : t = tx[i]
  OBVIOUS
<1>2. life # "none"
  BY DEF OnItsWay, Forks
<1>3. CASE i = Deposit
  <2>1. t \in Deposited
    BY <1>1, <1>3, TxFacts
  <2>2. u \in Deposited /\ u.life = life /\ u.lastValid = t.lastValid
    BY <1>1, <2>1 DEF Deposited, Turned, TurnedAt
  <2> QED BY <1>1, <1>2, <1>3, <2>2 DEF TxType, NoTx
<1>4. CASE i # Deposit
  <2>1. t \in Attempted
    BY <1>1, <1>4, TxFacts
  <2>2. u \in Attempted /\ u.life = life /\ u.lastValid = t.lastValid /\ SameTerms(t, u)
    BY <1>1, <2>1 DEF Attempted, SameTerms, Turned, TurnedAt
  <2> QED BY <1>1, <1>2, <1>4, <2>2 DEF TxType, NoTx
<1>5. QED
  BY <1>3, <1>4

\* The network's steps, but for what they make of accounts.
LEMMA NetworkMoves ==
  ASSUME TypeInv, NEW i \in Txs, Process(i) \/ Confirm(i) \/ Reorganise(i) \/ Lapse(i)
  PROVE  /\ TxTypes' /\ tx'[i] # NoTx /\ Including(tx[i], tx'[i])
         /\ i # Deposit => SameTerms(tx[i], tx'[i])
         /\ \A j \in Txs : j # i => tx'[j] = tx[j]
         /\ UNCHANGED <<height, ui, check, told, watch, misled>>
         /\ tx'[i].life = "landed" => Confirm(i) /\ Executes(i)
         /\ ~ Confirm(i) => UNCHANGED account
<1>1. UNCHANGED <<height, ui, check, told, watch, misled>>
  BY DEF Process, Confirm, Reorganise, Lapse, Abandon
<1>2. height \in Nat /\ tx = [j \in Txs |-> tx[j]]
  BY DEF TypeInv, TxTypes
<1>3. tx[i].life \in {"sent"} \cup Forks
  BY DEF Process, Confirm, Reorganise, Lapse, Abandon, OnFork, Forks
<1>4. tx[i] # NoTx
  BY <1>3, TxFacts DEF Forks
<1>5. CASE Process(i)
  <2>1. PICK life \in Forks : tx' = [tx EXCEPT ![i].life = life] /\ tx[i].life = "sent"
                              /\ height <= tx[i].lastValid
    BY <1>5 DEF Process, Forks
  <2>2. PICK u : u = Turned(tx[i], life)
    OBVIOUS
  <2>3. tx' = [tx EXCEPT ![i] = u]
    BY <2>1, <2>2 DEF Turned
  <2>4. /\ u \in TxType(i) /\ u # NoTx /\ u.life = life /\ u.lastValid = tx[i].lastValid
        /\ i # Deposit => SameTerms(tx[i], u)
    <3>1. life \in OnItsWay
      BY DEF OnItsWay
    <3> QED BY <1>2, <1>4, <2>2, <3>1, Moves
  <2>5. TxTypes' /\ tx'[i] = u /\ \A j \in Txs : j # i => tx'[j] = tx[j]
    BY <2>3, <2>4, Replaced
  <2>6. u.life # "landed" /\ UNCHANGED account
    BY <1>5, <2>4 DEF Forks, Process
  <2> QED BY <1>1, <2>1, <2>4, <2>5, <2>6 DEF Including
<1>6. CASE Confirm(i)
  <2>1. PICK life : life = IF Executes(i) THEN "landed" ELSE "failed"
    OBVIOUS
  <2>2. /\ tx' = [tx EXCEPT ![i].life = life, ![i].at = height]
        /\ tx[i].life \in Forks /\ height <= tx[i].lastValid /\ life \in {"landed", "failed"}
    BY <1>6, <2>1 DEF Confirm, OnFork, Forks
  <2>3. PICK u : u = TurnedAt(tx[i], life, height)
    OBVIOUS
  <2>4. tx' = [tx EXCEPT ![i] = u]
    BY <1>2, <2>2, <2>3 DEF Turned, TurnedAt
  <2>5. /\ u \in TxType(i) /\ u # NoTx /\ u.life = life /\ u.lastValid = tx[i].lastValid
        /\ i # Deposit => SameTerms(tx[i], u)
    <3>1. life \in OnItsWay
      BY <2>2 DEF OnItsWay
    <3> QED BY <1>2, <1>4, <2>3, <3>1, Moves
  <2>6. TxTypes' /\ tx'[i] = u /\ \A j \in Txs : j # i => tx'[j] = tx[j]
    BY <2>4, <2>5, Replaced
  <2> QED BY <1>1, <1>6, <2>1, <2>2, <2>5, <2>6 DEF Including
<1>7. CASE Reorganise(i) \/ Lapse(i)
  <2>1. tx' = [tx EXCEPT ![i].life = "sent"] /\ tx[i].life \in Forks /\ UNCHANGED account
    BY <1>7 DEF Reorganise, Lapse, Abandon, OnFork, Forks
  <2>2. PICK u : u = Turned(tx[i], "sent")
    OBVIOUS
  <2>3. tx' = [tx EXCEPT ![i] = u]
    BY <2>1, <2>2 DEF Turned
  <2>4. /\ u \in TxType(i) /\ u # NoTx /\ u.life = "sent" /\ u.lastValid = tx[i].lastValid
        /\ i # Deposit => SameTerms(tx[i], u)
    <3>1. "sent" \in OnItsWay
      BY DEF OnItsWay
    <3> QED BY <1>2, <1>4, <2>2, <3>1, Moves
  <2>5. TxTypes' /\ tx'[i] = u /\ \A j \in Txs : j # i => tx'[j] = tx[j]
    BY <2>3, <2>4, Replaced
  <2> QED BY <1>1, <2>1, <2>4, <2>5 DEF Including
<1>8. QED
  BY <1>5, <1>6, <1>7

\* An attempt is sent by its wallet.
LEMMA SentBy ==
  ASSUME TypeInv, NEW i \in Attempts, tx[i].life = "unsent", tx' = [tx EXCEPT ![i].life = "sent"]
  PROVE  /\ TxTypes' /\ tx'[i] # NoTx /\ Sending(tx[i], tx'[i]) /\ SameTerms(tx[i], tx'[i])
         /\ \A j \in Txs : j # i => tx'[j] = tx[j]
<1>1. i \in Txs /\ i # Deposit
  BY RegistrationAssumption DEF Txs, Deposit
<1>2. tx[i] # NoTx
  BY <1>1, TxFacts
<1>3. PICK u : u = Turned(tx[i], "sent")
  OBVIOUS
<1>4. tx' = [tx EXCEPT ![i] = u]
  BY <1>3 DEF Turned
<1>5. u \in TxType(i) /\ u # NoTx /\ u.life = "sent" /\ SameTerms(tx[i], u)
  <2>1. "sent" \in OnItsWay
    BY DEF OnItsWay
  <2> QED BY <1>1, <1>2, <1>3, <2>1, Moves
<1>6. QED
  BY <1>1, <1>4, <1>5, Replaced DEF Sending

\* A transaction stays as it is, is sent, or is moved by the network.
Goes(t, u) == u = t \/ Sending(t, u) \/ Including(t, u)

-----------------------------------------------------------------------------
(* What such moves keep.                                                   *)

\* What was said of a transaction stays true; only what was called unsent must stay unsent.
LEMMA StaysTrue ==
  ASSUME TypeInv, NEW i \in Attempts, NEW outcome, Holds(i, outcome),
         Goes(tx[i], tx'[i]) \/ (tx[i].life \in {"none", "examined"} /\ tx'[i].life \in {"examined", "unsent"}),
         Sending(tx[i], tx'[i]) => outcome # "nothing sent",
         height' \in Nat, height <= height', misled \subseteq misled'
  PROVE  Holds(i, outcome)'
<1>1. i \in Txs /\ i # Deposit /\ height \in Nat
  BY RegistrationAssumption DEF Txs, Deposit, TypeInv
<1>2. PICK t, u : t = tx[i] /\ u = tx'[i]
  OBVIOUS
<1>3. t.life # "none" => t.lastValid \in Nat
  BY <1>1, <1>2, TxFacts
<1>4. outcome = "registered" => u.life = "landed"
  BY <1>2 DEF Holds, Goes, Sending, Including, Forks
<1>5. outcome = "failed" => u.life = "failed" \/ i \in misled'
  BY <1>2 DEF Holds, Goes, Sending, Including, Forks
<1>6. outcome = "expired" => Outlived(i)' \/ i \in misled'
  <2> SUFFICES ASSUME outcome = "expired", i \notin misled' PROVE Outlived(i)'
    OBVIOUS
  <2>1. t.life = "sent" /\ height > t.lastValid
    BY <1>2 DEF Holds, Outlived
  <2>2. u = t
    <3>1. ~ (height <= t.lastValid)
      BY <1>1, <1>3, <2>1
    <3> QED BY <1>2, <2>1, <3>1 DEF Goes, Sending, Including, Forks
  <2> QED BY <1>1, <1>2, <1>3, <2>1, <2>2 DEF Outlived
<1>7. outcome = "nothing sent" => u.life \in {"none", "examined", "unsent"}
  BY <1>2 DEF Holds, Goes, Including, Forks
<1>8. QED
  BY <1>2, <1>4, <1>5, <1>6, <1>7 DEF Holds

\* The agent's watch needs only that its transaction moves as the network lets it.
LEMMA WatchStays ==
  ASSUME TypeInv, WatchInv, Goes(tx[Deposit], tx'[Deposit]), UNCHANGED watch,
         height' \in Nat, height <= height'
  PROVE  WatchInv'
<1>1. PICK t, u : t = tx[Deposit] /\ u = tx'[Deposit]
  OBVIOUS
<1>2. /\ t.life \in OnItsWay \cup {"none"} /\ height \in Nat
      /\ t.life # "none" => t.lastValid \in Nat
  <2>1. Deposit \in Txs
    BY DEF Txs
  <2> QED BY <1>1, <2>1, TxFacts DEF TypeInv
<1>3. t.life \in OnItsWay => u.life \in OnItsWay /\ u.lastValid = t.lastValid
  BY <1>1 DEF Goes, Sending, Including, OnItsWay, Forks
<1>4. t.life \in {"landed", "failed"} => u = t
  BY <1>1 DEF Goes, Sending, Including, Forks
<1>5. t.life = "sent" /\ height > t.lastValid => u = t
  <2> SUFFICES ASSUME t.life = "sent", height > t.lastValid PROVE u = t
    OBVIOUS
  <2>1. ~ (height <= t.lastValid)
    BY <1>2
  <2> QED BY <1>1, <2>1 DEF Goes, Sending, Including, Forks
<1>6. watch.step \in {"recent", "height", "history"} => u.life \in OnItsWay
  BY <1>1, <1>3 DEF WatchInv
<1>7. watch.step = "history" => height' > u.lastValid
  <2> SUFFICES ASSUME watch.step = "history" PROVE height' > u.lastValid
    OBVIOUS
  <2>1. t.life \in OnItsWay /\ height > t.lastValid /\ t.life # "none"
    BY <1>1 DEF WatchInv, OnItsWay, Forks
  <2> QED BY <1>2, <1>3, <2>1
<1>8. watch.step \in {"landed", "failed"} => u.life = watch.step
  BY <1>1, <1>4 DEF WatchInv
<1>9. watch.step = "expired" => u.life = "sent" /\ height' > u.lastValid
  <2> SUFFICES ASSUME watch.step = "expired" PROVE u.life = "sent" /\ height' > u.lastValid
    OBVIOUS
  <2>1. t.life = "sent" /\ height > t.lastValid
    BY <1>1 DEF WatchInv, Outlived
  <2> QED BY <1>2, <1>5, <2>1
<1>10. QED
  BY <1>1, <1>6, <1>7, <1>8, <1>9 DEF WatchInv, Outlived

\* Who owns an account keeps it.
OwnersStay == \A t \in Targets : account[t].owner # "nobody" => account'[t].owner = account[t].owner

\* The instructions of an attempt do not change, nor who owns what they were composed for.
LEMMA PartsStay ==
  ASSUME TypeInv, OwnersStay, NEW i \in Attempts, Composed(tx[i]), tx[i] # NoTx,
         tx'[i] = tx[i] \/ SameTerms(tx[i], tx'[i])
  PROVE  Composed(tx[i])'
<1>1. i \in Txs /\ i # Deposit
  BY RegistrationAssumption DEF Txs, Deposit
<1>2. PICK q \in Requests : q = tx[i].request
  <2>1. tx[i] \in Attempted
    BY <1>1, TxFacts
  <2> QED BY <2>1 DEF Attempted
<1>3. tx'[i].request = q /\ tx'[i].base = tx[i].base /\ tx'[i].parts = tx[i].parts
  BY <1>2 DEF SameTerms
<1>4. q.target \in Targets
  BY <1>2, RegistrationAssumption
<1>5. account[q.target].owner = "publisher" => account'[q.target].owner = "publisher"
  BY <1>4 DEF OwnersStay
<1>6. QED
  BY <1>2, <1>3, <1>5 DEF Composed
-----------------------------------------------------------------------------
(* What a transaction makes of an account.                                 *)

\* LandsAsAsked of one attempt.
AsAsked(i) ==
  LET q == tx[i].request
      was == account[q.target]
      is == account'[q.target]
  IN  /\ is.owner = "publisher"
      /\ q.kind = "register" => was = NoAccount
      /\ is.rate = q.rate \/ was.rate # tx[i].base.rate
      /\ is.status = q.status \/ was.status # tx[i].base.status

\* A registration makes its account, a change of one leaves the owner and what nobody asked for.
LEMMA Lands ==
  ASSUME TypeInv, AccountInv, NEW i \in Attempts, tx[i] # NoTx, Composed(tx[i]), Executes(i),
         account' = [account EXCEPT ![tx[i].request.target] = Executed(i)]
  PROVE  account' \in [Targets -> Account] /\ AccountInv' /\ OwnersStay /\ AsAsked(i)
<1>1. i \in Txs /\ i # Deposit
  BY RegistrationAssumption DEF Txs, Deposit
<1>2. PICK t \in Attempted : t = tx[i]
  BY <1>1, TxFacts
<1>3. PICK q \in Requests : q = t.request
  BY <1>2 DEF Attempted
<1>4. /\ q.target \in Targets /\ q.rate \in Rates /\ q.status \in {"active", "suspended"}
      /\ q.kind \in {"register", "change"}
      /\ q.kind = "register" => q.status = "active"
  BY <1>3, RegistrationAssumption
<1>5. PICK was \in Account : was = account[q.target]
  BY <1>4 DEF TypeInv
<1>6. PICK is : is = Executed(i)
  OBVIOUS
<1>7. account' = [account EXCEPT ![q.target] = is]
  BY <1>2, <1>3, <1>6
<1>8. CASE q.kind = "register"
  <2>1. /\ t.parts = {"register"} \cup
                     (IF q.target = "work" /\ q.rate # "inherited" THEN {"rates"} ELSE {})
        /\ "register" \in t.parts /\ "status" \notin t.parts
        /\ "rates" \in t.parts <=> q.target = "work" /\ q.rate # "inherited"
    BY <1>2, <1>3, <1>8 DEF Composed
  <2>2. was = NoAccount
    BY <1>1, <1>2, <1>3, <1>5, <2>1 DEF Executes
  <2>3. PICK made : made = [owner |-> "publisher", status |-> "active",
                            rate |-> IF q.target = "work" THEN "inherited" ELSE q.rate]
    OBVIOUS
  <2>4. is = IF "rates" \in t.parts THEN [made EXCEPT !.rate = q.rate] ELSE made
    BY <1>2, <1>3, <1>6, <2>1, <2>3 DEF Executed
  <2>5. is \in Account /\ is.owner = "publisher" /\ is.rate = q.rate /\ is.status = q.status
    BY <1>4, <1>8, <2>1, <2>3, <2>4 DEF Account
  <2>6. account' \in [Targets -> Account] /\ AccountInv' /\ OwnersStay
    <3>1. was.owner = "nobody"
      BY <2>2 DEF NoAccount
    <3> QED BY <1>4, <1>5, <1>7, <2>5, <3>1 DEF TypeInv, AccountInv, OwnersStay, Targets
  <2>7. AsAsked(i)
    <3>1. account'[q.target] = is
      BY <1>4, <1>7 DEF TypeInv
    <3> QED BY <1>2, <1>3, <1>5, <2>2, <2>5, <3>1 DEF AsAsked
  <2> QED BY <2>6, <2>7
<1>9. CASE q.kind = "change"
  <2>1. /\ "register" \notin t.parts
        /\ "rates" \in t.parts <=> q.rate # t.base.rate
        /\ "status" \in t.parts <=> q.status # t.base.status
        /\ was.owner = "publisher"
    BY <1>2, <1>3, <1>5, <1>9 DEF Composed
  <2>2. PICK rated : rated = IF "rates" \in t.parts THEN [was EXCEPT !.rate = q.rate] ELSE was
    OBVIOUS
  <2>3. is = IF "status" \in t.parts THEN [rated EXCEPT !.status = q.status] ELSE rated
    BY <1>2, <1>3, <1>5, <1>6, <2>1, <2>2 DEF Executed
  <2>4. /\ rated \in Account /\ rated.owner = "publisher" /\ rated.status = was.status
        /\ rated.rate = IF "rates" \in t.parts THEN q.rate ELSE was.rate
    BY <1>4, <2>1, <2>2 DEF Account
  <2>5. /\ is \in Account /\ is.owner = "publisher" /\ is.rate = rated.rate
        /\ is.status = IF "status" \in t.parts THEN q.status ELSE rated.status
    BY <1>4, <2>3, <2>4 DEF Account
  <2>6. account' \in [Targets -> Account] /\ AccountInv' /\ OwnersStay
    <3>1. /\ account' \in [Targets -> Account] /\ account'[q.target] = is
          /\ \A x \in Targets : x # q.target => account'[x] = account[x]
      BY <1>4, <1>7, <2>5 DEF TypeInv
    <3>2. \A x \in Targets : account'[x].owner = account[x].owner
      BY <1>5, <2>1, <2>5, <3>1
    <3>3. "work" \in Targets
      BY DEF Targets
    <3> QED BY <1>4, <1>5, <2>1, <2>5, <3>1, <3>2, <3>3 DEF AccountInv, OwnersStay
  <2>7. AsAsked(i)
    <3>1. account'[q.target] = is
      BY <1>4, <1>7 DEF TypeInv
    <3>2. is.rate = q.rate \/ was.rate # t.base.rate
      BY <2>1, <2>4, <2>5
    <3>3. is.status = q.status \/ was.status # t.base.status
      BY <2>1, <2>4, <2>5
    <3> QED BY <1>2, <1>3, <1>5, <1>9, <2>5, <3>1, <3>2, <3>3 DEF AsAsked
  <2> QED BY <2>6, <2>7
<1>10. QED
  BY <1>4, <1>8, <1>9
-----------------------------------------------------------------------------
(* The network, and others.                                                *)

\* What a status request holds at each step.
LEMMA CheckFacts ==
  ASSUME TypeInv
  PROVE  /\ check.step = "none" <=> check = NoCheck
         /\ check.step \in {"none", "asked", "height", "answered"}
         /\ check # NoCheck => check.attempt \in Attempts
         /\ check.step = "height" => check.seen \in Nat
         /\ check.step = "answered" => check.verdict \in {"registered", "failed", "expired", "pending"}
<1>1. CASE check = NoCheck
  BY <1>1 DEF NoCheck
<1>2. CASE check \in [step : {"asked"}, attempt : Attempts]
  BY <1>2 DEF NoCheck
<1>3. CASE check \in [step : {"height"}, attempt : Attempts, seen : Nat]
  BY <1>3 DEF NoCheck
<1>4. CASE check \in [step : {"answered"}, attempt : Attempts,
                     verdict : {"registered", "failed", "expired", "pending"}]
  BY <1>4 DEF NoCheck
<1>5. QED
  BY <1>1, <1>2, <1>3, <1>4 DEF TypeInv, CheckType

\* What happens unseen by the screen and by the agent's watch.
LEMMA Unseen ==
  ASSUME IInv, TxTypes', height' \in Nat, height <= height',
         account' \in [Targets -> Account], AccountInv', OwnersStay,
         \A i \in Txs : Goes(tx[i], tx'[i]),
         \A i \in Attempts : tx'[i] = tx[i] \/ (tx[i] # NoTx /\ SameTerms(tx[i], tx'[i])),
         \A i \in Attempts : Sending(tx[i], tx'[i]) =>
           told[i] = "nothing" /\ (ui.attempt # i \/ ui.phase = "over"),
         UNCHANGED <<ui, check, told, watch, misled>>
  PROVE  IInv'
<1>1. TypeInv'
  BY DEF IInv, TypeInv
<1>2. \A i \in Attempts : i \in Txs
  BY DEF Txs
<1>3. ScreenInv'
  <2>1. \A i \in Attempts : tx[i] = NoTx => tx'[i] = NoTx
    OBVIOUS
  <2>2. ui.phase \in {"preparing", "signing", "confirming"} => ui.attempt \in Attempts
    BY DEF IInv, TypeInv, UiType
  <2>3. ui.phase = "preparing" => tx'[ui.attempt].life \in {"none", "examined"}
    BY <1>2, <2>2 DEF IInv, ScreenInv, Goes, Sending, Including, Forks
  <2>4. ui.phase = "signing" => tx'[ui.attempt].life = "unsent"
    BY <1>2, <2>2 DEF IInv, ScreenInv, Goes, Sending, Including, Forks
  <2>5. ui.phase = "confirming" => tx'[ui.attempt].life \in OnItsWay
    BY <1>2, <2>2 DEF IInv, ScreenInv, Goes, Sending, Including, OnItsWay
  <2>6. check.step = "height" => check.seen <= height'
    <3> SUFFICES ASSUME check.step = "height" PROVE check.seen <= height'
      OBVIOUS
    <3>1. check.seen \in Nat /\ check.seen <= height /\ height \in Nat
      BY DEF IInv, TypeInv, CheckType, NoCheck, ScreenInv
    <3> QED BY <3>1
  <2> QED BY <2>1, <2>3, <2>4, <2>5, <2>6 DEF IInv, ScreenInv
<1>4. ToldInv'
  <2>1. ASSUME NEW i \in Attempts
        PROVE  Holds(i, told[i])'
    <3>1. PICK o : o = told[i]
      OBVIOUS
    <3>2. Holds(i, o) /\ (Sending(tx[i], tx'[i]) => o # "nothing sent")
      BY <3>1 DEF IInv, ToldInv
    <3>3. Holds(i, o)'
      BY <1>2, <3>2, StaysTrue DEF IInv
    <3> QED BY <3>1, <3>3
  <2>2. ASSUME check.step = "answered"
        PROVE  Holds(check.attempt, check.verdict)'
    <3>1. PICK i, o : i \in Attempts /\ i = check.attempt /\ o = check.verdict /\ o # "nothing sent"
      BY <2>2, CheckFacts DEF IInv
    <3>2. Holds(i, o)
      BY <2>2, <3>1 DEF IInv, ToldInv
    <3>3. Holds(i, o)'
      BY <1>2, <3>1, <3>2, StaysTrue DEF IInv
    <3> QED BY <3>1, <3>3
  <2> QED BY <2>1, <2>2 DEF ToldInv
<1>5. WatchInv'
  <2>1. Deposit \in Txs
    BY DEF Txs
  <2> QED BY <2>1, WatchStays DEF IInv
<1>6. PartsInv'
  <2> SUFFICES ASSUME NEW i \in Attempts, tx'[i] # NoTx PROVE Composed(tx[i])'
    BY DEF PartsInv
  <2>1. tx[i] # NoTx /\ Composed(tx[i])
    BY DEF IInv, PartsInv
  <2> QED BY <2>1, PartsStay DEF IInv
<1>7. QED
  BY <1>1, <1>3, <1>4, <1>5, <1>6 DEF IInv

\* A block goes by.
LEMMA BlockKeeps ==
  ASSUME IInv, NextBlock
  PROVE  IInv'
<1>1. height \in Nat /\ height' = height + 1 /\ UNCHANGED <<account, tx, ui, check, told, watch, misled>>
  BY DEF NextBlock, IInv, TypeInv
<1>2. TxTypes' /\ AccountInv' /\ OwnersStay /\ account' \in [Targets -> Account]
  BY <1>1 DEF IInv, TypeInv, TxTypes, TxType, AccountInv, OwnersStay
<1>3. \A i : Goes(tx[i], tx'[i]) /\ tx'[i] = tx[i] /\ ~ Sending(tx[i], tx'[i])
  BY <1>1 DEF Goes, Sending
<1>4. height' \in Nat /\ height <= height'
  BY <1>1
<1>5. QED
  BY <1>1, <1>2, <1>3, <1>4, Unseen

\* A transaction lands only as AsAsked says, and nobody loses an account.
LEMMA ConfirmMakes ==
  ASSUME IInv, NEW i \in Txs, Confirm(i)
  PROVE  /\ account' \in [Targets -> Account] /\ AccountInv' /\ OwnersStay
         /\ i # Deposit /\ Executes(i) => AsAsked(i)
<1>1. CASE Executes(i) /\ i # Deposit
  <2>1. i \in Attempts /\ tx[i] # NoTx
    <3>1. tx[i].life # "none"
      BY DEF Confirm, OnFork
    <3> QED BY <1>1, <3>1, TxFacts DEF Txs, IInv
  <2>2. Composed(tx[i])
    BY <2>1 DEF IInv, PartsInv
  <2>3. account' = [account EXCEPT ![tx[i].request.target] = Executed(i)]
    BY <1>1 DEF Confirm
  <2> QED BY <1>1, <2>1, <2>2, <2>3, Lands DEF IInv
<1>2. CASE ~ (Executes(i) /\ i # Deposit)
  <2>1. account' = account
    BY <1>2 DEF Confirm
  <2> QED BY <1>2, <2>1 DEF IInv, TypeInv, AccountInv, OwnersStay
<1>3. QED
  BY <1>1, <1>2

\* The network takes a transaction a step further.
LEMMA NetworkKeeps ==
  ASSUME IInv, NEW i \in Txs, Process(i) \/ Confirm(i) \/ Reorganise(i) \/ Lapse(i)
  PROVE  IInv'
<1>1. /\ TxTypes' /\ tx'[i] # NoTx /\ Including(tx[i], tx'[i])
      /\ i # Deposit => SameTerms(tx[i], tx'[i])
      /\ \A j \in Txs : j # i => tx'[j] = tx[j]
      /\ UNCHANGED <<height, ui, check, told, watch, misled>>
      /\ ~ Confirm(i) => UNCHANGED account
  BY NetworkMoves DEF IInv
<1>2. account' \in [Targets -> Account] /\ AccountInv' /\ OwnersStay
  <2>1. CASE Confirm(i)
    BY <2>1, ConfirmMakes
  <2>2. CASE ~ Confirm(i)
    BY <1>1, <2>2 DEF IInv, TypeInv, AccountInv, OwnersStay
  <2> QED BY <2>1, <2>2
<1>3. \A j \in Txs : Goes(tx[j], tx'[j]) /\ ~ Sending(tx[j], tx'[j])
  <2>1. ~ Sending(tx[i], tx'[i])
    BY <1>1 DEF Including, Sending, Forks
  <2> QED BY <1>1, <2>1 DEF Goes, Sending
<1>4. \A j \in Attempts : j \in Txs /\ j # Deposit
  BY RegistrationAssumption DEF Txs, Deposit
<1>5. tx[i] # NoTx
  BY <1>1, TxFacts DEF Including, Forks, IInv
<1>6. height \in Nat /\ height' \in Nat /\ height <= height'
  BY <1>1 DEF IInv, TypeInv
<1>7. \A j \in Attempts : tx'[j] = tx[j] \/ (tx[j] # NoTx /\ SameTerms(tx[j], tx'[j]))
  BY <1>1, <1>4, <1>5
<1>8. QED
  BY <1>1, <1>2, <1>3, <1>4, <1>6, <1>7, Unseen

\* Somebody else registers the domain, opens the escrow or changes a status.
LEMMA OthersKeep ==
  ASSUME IInv, Preempted \/ \E t \in Targets : ChangedElsewhere(t)
  PROVE  IInv'
<1>1. UNCHANGED <<height, tx, ui, check, told, watch, misled>>
  BY DEF Preempted, ChangedElsewhere
<1>2. account' \in [Targets -> Account] /\ AccountInv' /\ OwnersStay
  <2>1. CASE UNCHANGED account
    BY <2>1 DEF IInv, TypeInv, AccountInv, OwnersStay
  <2>2. CASE Preempted /\ ~ UNCHANGED account
    <3>1. PICK a : a = [owner |-> "other", rate |-> "low", status |-> "active"]
      OBVIOUS
    <3>2. account' = [account EXCEPT !["domain"] = a] /\ account["domain"] = NoAccount
      BY <2>2, <3>1 DEF Preempted
    <3>3. a \in Account /\ a.owner = "other" /\ NoAccount.owner = "nobody"
      BY <3>1 DEF Account, NoAccount
    <3> QED BY <3>2, <3>3 DEF IInv, TypeInv, AccountInv, OwnersStay, Targets
  <2>3. ASSUME NEW t \in Targets, ChangedElsewhere(t)
        PROVE  account' \in [Targets -> Account] /\ AccountInv' /\ OwnersStay
    <3>1. PICK s : s = IF account[t].status = "active" THEN "suspended" ELSE "active"
      OBVIOUS
    <3>2. PICK a : a = [account[t] EXCEPT !.status = s]
      OBVIOUS
    <3>3. account[t] \in Account /\ account[t].owner = "publisher"
      BY <2>3 DEF IInv, TypeInv, ChangedElsewhere
    <3>4. a \in Account /\ a.owner = "publisher"
      BY <3>1, <3>2, <3>3 DEF Account
    <3>5. account' = [account EXCEPT ![t] = a]
      BY <2>3, <3>1, <3>2 DEF ChangedElsewhere
    <3>6. /\ account' \in [Targets -> Account] /\ account'[t] = a
          /\ \A x \in Targets : x # t => account'[x] = account[x]
      BY <3>4, <3>5 DEF IInv, TypeInv
    <3> QED BY <3>3, <3>4, <3>6 DEF IInv, AccountInv, OwnersStay, Targets
  <2> QED BY <2>1, <2>2, <2>3
<1>3. TxTypes' /\ height \in Nat /\ height' \in Nat /\ height <= height'
  BY <1>1 DEF IInv, TypeInv, TxTypes, TxType
<1>4. \A i : Goes(tx[i], tx'[i]) /\ tx'[i] = tx[i] /\ ~ Sending(tx[i], tx'[i])
  BY <1>1 DEF Goes, Sending
<1>5. QED
  BY <1>1, <1>2, <1>3, <1>4, Unseen

\* A wallet that was still asking sends.
LEMMA UnwatchedKeeps ==
  ASSUME IInv, NEW i \in Attempts, SendsUnwatched(i)
  PROVE  IInv'
<1>1. /\ tx[i].life = "unsent" /\ told[i] = "nothing" /\ (ui.attempt # i \/ ui.phase = "over")
      /\ tx' = [tx EXCEPT ![i].life = "sent"]
      /\ UNCHANGED <<height, account, ui, check, told, watch, misled>>
  BY DEF SendsUnwatched
<1>2. /\ TxTypes' /\ tx'[i] # NoTx /\ Sending(tx[i], tx'[i]) /\ SameTerms(tx[i], tx'[i])
      /\ \A j \in Txs : j # i => tx'[j] = tx[j]
  BY <1>1, SentBy DEF IInv
<1>3. height \in Nat /\ height' \in Nat /\ height <= height'
      /\ account' \in [Targets -> Account] /\ AccountInv' /\ OwnersStay
  BY <1>1 DEF IInv, TypeInv, AccountInv, OwnersStay
<1>4. \A j \in Attempts : j \in Txs
  BY DEF Txs
<1>5. tx[i] # NoTx
  BY <1>1, <1>4, TxFacts DEF IInv
<1>6. \A j \in Txs : Goes(tx[j], tx'[j]) /\ (Sending(tx[j], tx'[j]) => j = i)
  BY <1>2 DEF Goes, Sending
<1>7. \A j \in Attempts : tx'[j] = tx[j] \/ (tx[j] # NoTx /\ SameTerms(tx[j], tx'[j]))
  BY <1>2, <1>4, <1>5
<1>8. QED
  BY <1>1, <1>2, <1>3, <1>4, <1>6, <1>7, Unseen
-----------------------------------------------------------------------------
(* The screen and the gateway.                                             *)

\* What is on the screen.
LEMMA UiFacts ==
  ASSUME TypeInv
  PROVE  /\ ui.phase \in {"idle", "preparing", "signing", "confirming", "over"}
         /\ ui.attempt \in Nat
         /\ ui.phase # "idle" =>
              /\ ui.attempt \in Attempts /\ ui.request \in Requests
              /\ [ui EXCEPT !.phase = "signing"] \in UiType
              /\ [ui EXCEPT !.phase = "confirming"] \in UiType
              /\ [ui EXCEPT !.phase = "over"] \in UiType
              /\ \A p : [ui EXCEPT !.phase = p].phase = p /\ [ui EXCEPT !.phase = p].attempt = ui.attempt
<1>1. CASE ui \in [phase : {"idle"}, attempt : {0}]
  BY <1>1
<1>2. CASE ui \in [phase : {"preparing", "signing", "confirming", "over"}, attempt : Attempts,
                   request : Requests]
  <2>1. /\ ui.phase \in {"preparing", "signing", "confirming", "over"}
        /\ ui.attempt \in Attempts /\ ui.request \in Requests /\ ui.attempt \in Nat
    BY <1>2, RegistrationAssumption
  <2>2. \A p : [ui EXCEPT !.phase = p].phase = p /\ [ui EXCEPT !.phase = p].attempt = ui.attempt
    BY <1>2
  <2>3. /\ [ui EXCEPT !.phase = "signing"] \in UiType
        /\ [ui EXCEPT !.phase = "confirming"] \in UiType
        /\ [ui EXCEPT !.phase = "over"] \in UiType
    BY <1>2 DEF UiType
  <2> QED BY <2>1, <2>2, <2>3
<1>3. QED
  BY <1>1, <1>2 DEF TypeInv, UiType

\* A step of the dashboard or of the gateway touches nothing but the last attempt.
LEMMA ScreenMoves ==
  ASSUME IInv, TxTypes', ui' \in UiType, check' \in CheckType,
         told' \in [Attempts -> {"nothing"} \cup Outcomes], misled' \in SUBSET Attempts,
         tx'[Deposit] = tx[Deposit],
         ScreenInv', ToldInv',
         \A i \in Attempts : tx'[i] # NoTx => Composed(tx[i])',
         UNCHANGED <<height, account, watch>>
  PROVE  IInv'
<1>1. TypeInv' /\ AccountInv'
  BY DEF IInv, TypeInv, AccountInv
<1>2. WatchInv'
  <2>1. height' \in Nat /\ height <= height' /\ Goes(tx[Deposit], tx'[Deposit])
    BY DEF IInv, TypeInv, Goes
  <2> QED BY <2>1, WatchStays DEF IInv
<1>3. QED
  BY <1>1, <1>2 DEF IInv, PartsInv

\* So does one that sends nothing.
LEMMA ScreenStill ==
  ASSUME IInv, ui' \in UiType, check' \in CheckType,
         told' \in [Attempts -> {"nothing"} \cup Outcomes], misled' \in SUBSET Attempts,
         ScreenInv', ToldInv',
         UNCHANGED <<height, account, tx, watch>>
  PROVE  IInv'
<1>1. TxTypes'
  BY DEF IInv, TypeInv, TxTypes, TxType
<1>2. \A i \in Attempts : tx'[i] # NoTx => Composed(tx[i])'
  BY DEF IInv, PartsInv, Composed
<1>3. QED
  BY <1>1, <1>2, ScreenMoves

\* Ending an attempt with an outcome that holds.
LEMMA StoppedKeeps ==
  ASSUME IInv, NEW outcome \in Outcomes, Stopped(outcome), ui.phase # "idle",
         Holds(ui.attempt, outcome), check' = NoCheck,
         UNCHANGED <<height, account, tx, watch, misled>>
  PROVE  IInv'
<1>1. PICK i \in Attempts : i = ui.attempt
  BY UiFacts DEF IInv
<1>2. ui' \in UiType /\ ui'.phase = "over" /\ ui'.attempt = i
  <2>1. ui' = [ui EXCEPT !.phase = "over"]
    BY DEF Stopped
  <2> QED BY <1>1, <2>1, UiFacts DEF IInv
<1>3. /\ told' \in [Attempts -> {"nothing"} \cup Outcomes] /\ told'[i] = outcome
      /\ \A j \in Attempts : j # i => told'[j] = told[j]
  BY <1>1 DEF IInv, TypeInv, Stopped, Told
<1>4. check' \in CheckType /\ check'.step = "none"
  BY DEF CheckType, NoCheck
<1>5. ScreenInv'
  <2>1. \A j \in Attempts : j > i => tx'[j] = NoTx /\ told'[j] = "nothing"
    <3>1. \A j \in Attempts : j > i => j # i
      BY RegistrationAssumption
    <3> QED BY <1>1, <1>3, <3>1 DEF IInv, ScreenInv
  <2> QED BY <1>2, <1>4, <2>1 DEF ScreenInv
<1>6. ToldInv'
  <2>1. \A j \in Attempts : Holds(j, told[j])'
    BY <1>1, <1>3 DEF IInv, ToldInv, Holds, Outlived
  <2> QED BY <1>4, <2>1 DEF ToldInv
<1>7. misled' \in SUBSET Attempts
  BY DEF IInv, TypeInv
<1>8. QED
  BY <1>2, <1>3, <1>4, <1>5, <1>6, <1>7, ScreenStill

\* A status request is only there while confirming.
LEMMA NoCheckYet ==
  ASSUME IInv, ui.phase # "confirming"
  PROVE  check = NoCheck
BY DEF IInv, ScreenInv

\* The forms start an attempt that nothing was prepared for.
LEMMA StartKeeps ==
  ASSUME IInv, NEW q \in Requests, Start(q)
  PROVE  IInv'
<1>1. PICK n \in Attempts : n = ui.attempt + 1
  BY DEF Start
<1>2. ui' = [phase |-> "preparing", attempt |-> n, request |-> q]
      /\ UNCHANGED <<height, account, tx, check, told, watch, misled>>
  BY <1>1 DEF Start
<1>3. ui' \in UiType /\ ui'.phase = "preparing" /\ ui'.attempt = n
  BY <1>2 DEF UiType
<1>4. check = NoCheck
  BY NoCheckYet DEF Start
<1>5. ScreenInv'
  <2>1. ui.attempt \in Nat /\ \A j \in Attempts : j \in Nat
    BY UiFacts, RegistrationAssumption DEF IInv
  <2>2. \A j \in Attempts : j >= n => tx[j] = NoTx /\ told[j] = "nothing"
    BY <1>1, <2>1 DEF IInv, ScreenInv
  <2>3. \A j \in Attempts : j > n => tx[j] = NoTx /\ told[j] = "nothing"
    BY <2>1, <2>2
  <2>4. tx[n].life = "none" /\ told[n] = "nothing"
    BY <2>1, <2>2 DEF NoTx
  <2> QED BY <1>2, <1>3, <1>4, <2>3, <2>4 DEF ScreenInv, NoCheck
<1>6. ToldInv'
  BY <1>2, <1>4 DEF IInv, ToldInv, Holds, Outlived, NoCheck
<1>7. QED
  BY <1>2, <1>3, <1>5, <1>6, ScreenStill DEF IInv, TypeInv

\* Nothing was sent of what is being prepared or signed.
LEMMA UnsentHolds ==
  ASSUME IInv, ui.phase \in {"preparing", "signing"}
  PROVE  Holds(ui.attempt, "nothing sent") /\ Holds(ui.attempt, "wallet stopped")
BY DEF IInv, ScreenInv, Holds

\* Preparation fails, or there is nothing to send with.
LEMMA NothingSent ==
  ASSUME IInv, PrepareFails \/ CannotSend
  PROVE  IInv'
<1>1. /\ ui.phase \in {"preparing", "signing"} /\ Stopped("nothing sent")
      /\ UNCHANGED <<height, account, tx, check, watch, misled>>
  BY DEF PrepareFails, CannotSend
<1>2. check' = NoCheck
  BY <1>1, NoCheckYet
<1>3. "nothing sent" \in Outcomes
  BY DEF Outcomes
<1>4. QED
  BY <1>1, <1>2, <1>3, UnsentHolds, StoppedKeeps

\* What an attempt is composed of is what its request asks of the account just read.
LEMMA ExamineKeeps ==
  ASSUME IInv, Examine
  PROVE  IInv'
<1>1. PICK i \in Attempts, q \in Requests :
        i = ui.attempt /\ q = ui.request /\ ui.phase = "preparing" /\ tx[i] = NoTx
  BY UiFacts DEF Examine, IInv
<1>2. UNCHANGED <<height, account, check, watch, misled>> /\ check = NoCheck
  BY <1>1, NoCheckYet DEF Examine
<1>3. CASE Stopped("nothing sent") /\ UNCHANGED tx
  <2>1. "nothing sent" \in Outcomes
    BY DEF Outcomes
  <2> QED BY <1>1, <1>2, <1>3, <2>1, UnsentHolds, StoppedKeeps
<1>4. CASE ~ (Stopped("nothing sent") /\ UNCHANGED tx)
  <2>1. PICK u : u = [life |-> "examined", request |-> q, base |-> account[q.target],
                      parts |-> Instructions(q), lastValid |-> 0, at |-> 0]
    OBVIOUS
  <2>2. /\ ~ Refusal(q) /\ tx' = [tx EXCEPT ![i] = u] /\ UNCHANGED <<ui, told>>
    BY <1>1, <1>4, <2>1 DEF Examine
  <2>3. /\ q.target \in Targets /\ q.kind \in {"register", "change"}
        /\ account[q.target] \in Account
    BY RegistrationAssumption DEF IInv, TypeInv
  <2>4. Instructions(q) \subseteq Parts
    BY DEF Instructions, Parts
  <2>5. u \in Attempted /\ u.life = "examined"
    BY <2>1, <2>3, <2>4 DEF Attempted
  <2>6. i \in Txs /\ i # Deposit
    BY RegistrationAssumption DEF Txs, Deposit
  <2>7. TxTypes' /\ tx'[i] = u /\ \A j \in Txs : j # i => tx'[j] = tx[j]
    BY <2>2, <2>5, <2>6, Replaced DEF TxType, IInv
  <2>8. Composed(u)
    <3>1. u.request = q /\ u.base = account[q.target] /\ u.parts = Instructions(q)
      BY <2>1
    <3>2. CASE q.kind = "register"
      BY <3>1, <3>2 DEF Composed, Instructions
    <3>3. CASE q.kind = "change"
      <4>1. account["domain"].owner = "publisher" /\ account[q.target] # NoAccount
        BY <2>2, <3>3 DEF Refusal
      <4>2. account[q.target].owner = "publisher"
        BY <2>3, <4>1 DEF IInv, AccountInv, Targets, Account
      <4> QED BY <3>1, <3>3, <4>2 DEF Composed, Instructions
    <3> QED BY <2>3, <3>2, <3>3
  <2>9. \A j \in Attempts : tx'[j] # NoTx => Composed(tx[j])'
    <3>1. Composed(u)'
      BY <1>2, <2>8 DEF Composed
    <3>2. \A j \in Attempts : j # i /\ tx[j] # NoTx => Composed(tx[j])'
      BY <1>2, <2>7 DEF IInv, PartsInv, Composed, Txs
    <3> QED BY <2>7, <3>1, <3>2 DEF Txs
  <2>10. ScreenInv'
    <3>1. \A j \in Attempts : j > i => j # i /\ j \in Txs
      BY RegistrationAssumption DEF Txs
    <3> QED BY <1>1, <1>2, <2>2, <2>5, <2>7, <3>1 DEF IInv, ScreenInv, NoCheck
  <2>11. ToldInv'
    <3>1. told[i] = "nothing"
      BY <1>1 DEF IInv, ScreenInv
    <3> QED BY <1>2, <2>2, <2>7, <3>1 DEF IInv, ToldInv, Holds, Outlived, Txs, NoCheck
  <2> QED BY <1>2, <2>2, <2>6, <2>7, <2>9, <2>10, <2>11, ScreenMoves DEF IInv, TypeInv, Txs
<1>5. QED
  BY <1>3, <1>4

\* A blockhash is taken.
LEMMA AssembleKeeps ==
  ASSUME IInv, Assemble
  PROVE  IInv'
<1>1. PICK i \in Attempts : i = ui.attempt /\ ui.phase = "preparing" /\ tx[i].life = "examined"
  BY UiFacts DEF Assemble, IInv
<1>2. /\ tx' = [tx EXCEPT ![i].life = "unsent", ![i].lastValid = height + ValidFor]
      /\ ui' = [ui EXCEPT !.phase = "signing"]
      /\ UNCHANGED <<height, account, check, told, watch, misled>> /\ check = NoCheck
  BY <1>1, NoCheckYet DEF Assemble
<1>3. i \in Txs /\ i # Deposit /\ tx[i] # NoTx
  <2>1. i \in Txs /\ i # Deposit
    BY RegistrationAssumption DEF Txs, Deposit
  <2> QED BY <1>1, <2>1, TxFacts DEF IInv
<1>4. PICK t \in Attempted : t = tx[i]
  BY <1>3, TxFacts DEF IInv
<1>5. PICK n \in Nat : n = height + ValidFor
  BY RegistrationAssumption DEF IInv, TypeInv
<1>6. PICK u : u = [[t EXCEPT !.life = "unsent"] EXCEPT !.lastValid = n]
  OBVIOUS
<1>7. u \in Attempted /\ u.life = "unsent" /\ SameTerms(t, u)
  BY <1>4, <1>5, <1>6 DEF Attempted, SameTerms
<1>8. tx' = [tx EXCEPT ![i] = u]
  BY <1>2, <1>4, <1>5, <1>6 DEF IInv, TypeInv, TxTypes
<1>9. TxTypes' /\ tx'[i] = u /\ \A j \in Txs : j # i => tx'[j] = tx[j]
  BY <1>3, <1>7, <1>8, Replaced DEF TxType, IInv
<1>10. ui' \in UiType /\ ui'.phase = "signing" /\ ui'.attempt = i
  BY <1>1, <1>2, UiFacts DEF IInv
<1>11. \A j \in Attempts : j \in Txs /\ (j > i => j # i)
  BY RegistrationAssumption DEF Txs
<1>12. told[i] = "nothing"
  BY <1>1 DEF IInv, ScreenInv
<1>13. ScreenInv'
  BY <1>1, <1>2, <1>7, <1>9, <1>10, <1>11, <1>12 DEF IInv, ScreenInv, NoCheck
<1>14. ToldInv'
  BY <1>2, <1>9, <1>11, <1>12 DEF IInv, ToldInv, Holds, Outlived, NoCheck
<1>15. \A j \in Attempts : tx'[j] # NoTx => Composed(tx[j])'
  <2> SUFFICES ASSUME NEW j \in Attempts, tx'[j] # NoTx PROVE Composed(tx[j])'
    OBVIOUS
  <2>1. tx[j] # NoTx /\ (tx'[j] = tx[j] \/ SameTerms(tx[j], tx'[j]))
    BY <1>3, <1>4, <1>7, <1>9, <1>11
  <2>2. OwnersStay /\ Composed(tx[j])
    BY <1>2, <2>1 DEF OwnersStay, IInv, PartsInv
  <2> QED BY <2>1, <2>2, PartsStay DEF IInv
<1>16. Deposit \in Txs
  BY DEF Txs
<1>17. QED
  BY <1>2, <1>3, <1>9, <1>10, <1>13, <1>14, <1>15, <1>16, ScreenMoves DEF IInv, TypeInv

\* The wallet sends, and the dashboard begins to ask or is told that the wallet stopped.
LEMMA WalletKeeps ==
  ASSUME IInv, Send \/ WalletStops
  PROVE  IInv'
<1>1. PICK i \in Attempts : i = ui.attempt /\ ui.phase = "signing"
  BY UiFacts DEF Send, WalletStops, IInv
<1>2. /\ tx[i].life = "unsent" /\ told[i] = "nothing" /\ check = NoCheck
      /\ UNCHANGED <<height, account, watch, misled>>
  BY <1>1, NoCheckYet DEF IInv, ScreenInv, Send, WalletStops
<1>3. CASE WalletStops /\ UNCHANGED tx
  <2>1. "wallet stopped" \in Outcomes /\ Stopped("wallet stopped") /\ UNCHANGED check
    BY <1>3 DEF Outcomes, WalletStops
  <2> QED BY <1>1, <1>2, <1>3, <2>1, UnsentHolds, StoppedKeeps
<1>4. CASE ~ (WalletStops /\ UNCHANGED tx)
  <2>1. tx' = [tx EXCEPT ![i].life = "sent"]
    BY <1>1, <1>4 DEF Send, WalletStops
  <2>2. /\ TxTypes' /\ tx'[i] # NoTx /\ Sending(tx[i], tx'[i]) /\ SameTerms(tx[i], tx'[i])
        /\ \A j \in Txs : j # i => tx'[j] = tx[j]
    BY <1>2, <2>1, SentBy DEF IInv
  <2>3. i \in Txs /\ i # Deposit /\ tx[i] # NoTx /\ Deposit \in Txs
    <3>1. i \in Txs /\ i # Deposit /\ Deposit \in Txs
      BY RegistrationAssumption DEF Txs, Deposit
    <3> QED BY <1>2, <3>1, TxFacts DEF IInv
  <2>4. \A j \in Attempts : j \in Txs /\ (j > i => j # i)
    BY RegistrationAssumption DEF Txs
  <2>5. \A j \in Attempts : tx'[j] # NoTx => Composed(tx[j])'
    <3> SUFFICES ASSUME NEW j \in Attempts, tx'[j] # NoTx PROVE Composed(tx[j])'
      OBVIOUS
    <3>1. tx[j] # NoTx /\ (tx'[j] = tx[j] \/ SameTerms(tx[j], tx'[j]))
      BY <2>2, <2>3, <2>4
    <3>2. OwnersStay /\ Composed(tx[j])
      BY <1>2, <3>1 DEF OwnersStay, IInv, PartsInv
    <3> QED BY <3>1, <3>2, PartsStay DEF IInv
  <2>6. CASE Send
    <3>1. /\ ui' = [ui EXCEPT !.phase = "confirming"] /\ UNCHANGED told
          /\ check' = [step |-> "asked", attempt |-> i]
      BY <1>1, <2>6 DEF Send, Confirming
    <3>2. ui' \in UiType /\ ui'.phase = "confirming" /\ ui'.attempt = i
      BY <1>1, <3>1, UiFacts DEF IInv
    <3>3. check' \in CheckType /\ check'.step = "asked" /\ check'.attempt = i
      BY <3>1 DEF CheckType
    <3>4. ScreenInv'
      <4>1. tx'[i].life \in OnItsWay
        BY <2>2 DEF Sending, OnItsWay
      <4> QED BY <1>1, <1>2, <2>2, <2>4, <3>1, <3>2, <3>3, <4>1 DEF IInv, ScreenInv
    <3>5. ToldInv'
      BY <1>2, <2>2, <2>4, <3>1, <3>3 DEF IInv, ToldInv, Holds, Outlived
    <3> QED BY <1>2, <2>2, <2>3, <2>5, <3>1, <3>2, <3>3, <3>4, <3>5, ScreenMoves DEF IInv, TypeInv
  <2>7. CASE WalletStops
    <3>1. Stopped("wallet stopped") /\ UNCHANGED check
      BY <2>7 DEF WalletStops
    <3>2. ui' \in UiType /\ ui'.phase = "over" /\ ui'.attempt = i
      <4>1. ui' = [ui EXCEPT !.phase = "over"]
        BY <3>1 DEF Stopped
      <4> QED BY <1>1, <4>1, UiFacts DEF IInv
    <3>3. /\ told' \in [Attempts -> {"nothing"} \cup Outcomes] /\ told'[i] = "wallet stopped"
          /\ \A j \in Attempts : j # i => told'[j] = told[j]
      BY <1>1, <3>1 DEF IInv, TypeInv, Stopped, Told, Outcomes
    <3>4. ScreenInv'
      BY <1>1, <1>2, <2>2, <2>4, <3>1, <3>2, <3>3 DEF IInv, ScreenInv, NoCheck
    <3>5. ToldInv'
      BY <1>2, <2>2, <2>4, <3>1, <3>3 DEF IInv, ToldInv, Holds, Outlived, NoCheck
    <3> QED BY <1>2, <2>2, <2>3, <2>5, <3>1, <3>2, <3>3, <3>4, <3>5, ScreenMoves DEF IInv, TypeInv
  <2> QED BY <2>6, <2>7
<1>5. QED
  BY <1>3, <1>4

\* A status is asked for, again or for the first time, or its height is read.
LEMMA AskingKeeps ==
  ASSUME IInv, ui' = ui, told' = told, check # NoCheck,
         \/ check' = [step |-> "asked", attempt |-> check.attempt]
         \/ check' = [step |-> "height", attempt |-> check.attempt, seen |-> height],
         UNCHANGED <<height, account, tx, watch, misled>>
  PROVE  IInv'
<1>1. PICK i \in Attempts : i = check.attempt /\ i = ui.attempt /\ ui.phase = "confirming"
  BY CheckFacts DEF IInv, ScreenInv
<1>2. /\ check' \in CheckType /\ check'.attempt = i /\ check'.step # "answered"
      /\ check'.step = "height" => check'.seen = height
      /\ height \in Nat
  BY <1>1 DEF IInv, TypeInv, CheckType
<1>3. ScreenInv'
  BY <1>1, <1>2 DEF IInv, ScreenInv
<1>4. ToldInv'
  BY <1>2 DEF IInv, ToldInv, Holds, Outlived
<1>5. QED
  BY <1>2, <1>3, <1>4, ScreenStill DEF IInv, TypeInv

\* What the gateway answers of a transaction that was sent holds, or it is misled.
LEMMA VerdictHolds ==
  ASSUME IInv, ReadStatus
  PROVE  IInv'
<1>1. check.step = "height" /\ check # NoCheck
  BY CheckFacts DEF ReadStatus, IInv
<1>2. PICK i \in Attempts : i = check.attempt /\ i = ui.attempt /\ ui.phase = "confirming"
  BY <1>1, CheckFacts DEF IInv, ScreenInv
<1>3. PICK verdict : verdict = Verdict(i, check.seen)
  OBVIOUS
<1>4. /\ check' = [step |-> "answered", attempt |-> i, verdict |-> verdict]
      /\ misled' = IF (verdict = "failed" /\ OnFork(i)) \/ (verdict = "expired" /\ Included(i))
                   THEN misled \cup {i} ELSE misled
      /\ UNCHANGED <<height, account, tx, ui, told, watch>>
  BY <1>2, <1>3 DEF ReadStatus
<1>5. /\ i \in Txs /\ tx[i].life \in OnItsWay /\ tx[i].lastValid \in Nat
  <2>1. i \in Txs /\ tx[i].life \in OnItsWay
    BY <1>2 DEF Txs, IInv, ScreenInv
  <2>2. tx[i].life # "none"
    BY <2>1 DEF OnItsWay, Forks
  <2> QED BY <2>1, <2>2, TxFacts DEF IInv
<1>6. check.seen \in Nat /\ check.seen <= height /\ height \in Nat
  BY <1>1, CheckFacts DEF IInv, ScreenInv, TypeInv
<1>7. /\ verdict \in {"registered", "failed", "expired", "pending"}
      /\ verdict = "registered" => RecentStatus(i) = "landed"
      /\ verdict = "failed" => RecentStatus(i) \in {"failed", "fork failed"}
      /\ verdict = "expired" => RecentStatus(i) = "unseen" /\ check.seen > tx[i].lastValid
  BY <1>3 DEF Verdict
<1>8. /\ RecentStatus(i) # "unseen" => RecentStatus(i) = tx[i].life
      /\ RecentStatus(i) = "unseen" => ~ OnFork(i)
  BY <1>5 DEF RecentStatus, OnFork, OnItsWay, Forks
<1>9. misled \subseteq misled' /\ misled' \in SUBSET Attempts
  BY <1>4 DEF IInv, TypeInv
<1>10. Holds(i, verdict)'
  <2>1. verdict = "registered" => tx[i].life = "landed"
    BY <1>7, <1>8
  <2>2. verdict = "failed" => tx[i].life = "failed" \/ i \in misled'
    BY <1>4, <1>7, <1>8 DEF OnFork
  <2>3. verdict = "expired" => Outlived(i) \/ i \in misled'
    <3> SUFFICES ASSUME verdict = "expired", ~ Included(i) PROVE Outlived(i)
      BY <1>4
    <3>1. tx[i].life = "sent"
      BY <1>5, <1>7, <1>8 DEF OnItsWay, Forks, OnFork, Included
    <3>2. height > tx[i].lastValid
      BY <1>5, <1>6, <1>7
    <3> QED BY <3>1, <3>2 DEF Outlived
  <2> QED BY <1>4, <1>7, <2>1, <2>2, <2>3 DEF Holds, Outlived
<1>11. check' \in CheckType /\ check'.step = "answered" /\ check'.attempt = i /\ check'.verdict = verdict
  BY <1>4, <1>7 DEF CheckType
<1>12. ScreenInv'
  BY <1>2, <1>4, <1>11 DEF IInv, ScreenInv
<1>13. ToldInv'
  BY <1>4, <1>9, <1>10, <1>11 DEF IInv, ToldInv, Holds, Outlived
<1>14. QED
  BY <1>4, <1>9, <1>11, <1>12, <1>13, ScreenStill DEF IInv, TypeInv

\* An answer arrives or is lost, or the screen is left.
LEMMA AnswerKeeps ==
  ASSUME IInv, CheckArrives \/ CheckFails \/ Leave \/ ReadHeight
  PROVE  IInv'
<1>1. UNCHANGED <<height, account, tx, watch, misled>>
  BY DEF CheckArrives, CheckFails, Leave, ReadHeight
<1>2. ASSUME check # NoCheck, Confirming, told' = told
      PROVE  IInv'
  <2>1. ui.phase = "confirming" /\ check.attempt = ui.attempt
    BY <1>2 DEF IInv, ScreenInv
  <2>2. ui' = ui
    BY <1>2, <2>1 DEF Confirming, IInv, TypeInv, UiType
  <2> QED BY <1>1, <1>2, <2>1, <2>2, AskingKeeps DEF Confirming
<1>3. CASE CheckFails
  BY <1>2, <1>3 DEF CheckFails
<1>4. CASE ReadHeight
  <2>1. check # NoCheck
    BY <1>4, CheckFacts DEF ReadHeight, IInv
  <2> QED BY <1>1, <1>4, <2>1, AskingKeeps DEF ReadHeight
<1>5. CASE CheckArrives
  <2>1. /\ check.step = "answered" /\ check # NoCheck
        /\ check.verdict \in {"registered", "failed", "expired", "pending"}
    BY <1>5, CheckFacts DEF CheckArrives, IInv
  <2>2. CASE check.verdict = "pending"
    BY <1>2, <1>5, <2>1, <2>2 DEF CheckArrives
  <2>3. CASE check.verdict # "pending"
    <3>1. PICK o \in Outcomes : o = check.verdict
      BY <2>1, <2>3 DEF Outcomes
    <3>2. Stopped(o) /\ check' = NoCheck
      BY <1>5, <2>3, <3>1 DEF CheckArrives
    <3>3. ui.phase = "confirming" /\ check.attempt = ui.attempt
      BY <2>1 DEF IInv, ScreenInv
    <3>4. Holds(ui.attempt, o)
      BY <2>1, <3>1, <3>3 DEF IInv, ToldInv
    <3> QED BY <1>1, <3>2, <3>3, <3>4, StoppedKeeps
  <2> QED BY <2>2, <2>3
<1>6. CASE Leave
  <2>1. ui' = [ui EXCEPT !.phase = "over"] /\ check' = NoCheck /\ UNCHANGED told /\ ui.phase # "idle"
    BY <1>6 DEF Leave
  <2>2. ui' \in UiType /\ ui'.phase = "over" /\ ui'.attempt = ui.attempt
    BY <2>1, UiFacts DEF IInv
  <2>3. check' \in CheckType /\ check'.step = "none"
    BY <2>1 DEF CheckType, NoCheck
  <2>4. ScreenInv'
    BY <1>1, <2>1, <2>2, <2>3 DEF IInv, ScreenInv
  <2>5. ToldInv'
    BY <1>1, <2>1, <2>3 DEF IInv, ToldInv, Holds, Outlived
  <2> QED BY <1>1, <2>1, <2>2, <2>3, <2>4, <2>5, ScreenStill DEF IInv, TypeInv
<1>7. QED
  BY <1>3, <1>4, <1>5, <1>6

-----------------------------------------------------------------------------
(* The agent.                                                              *)

\* Its watch moves, and nothing else does.
LEMMA WatchMoves ==
  ASSUME IInv, WatchInv',
         watch' \in [step : {"none", "recent", "height", "history"} \cup Ended, failures : Nat],
         UNCHANGED <<height, account, tx, ui, check, told, misled>>
  PROVE  IInv'
<1>1. TypeInv'
  BY DEF IInv, TypeInv, TxTypes, TxType
<1>2. AccountInv' /\ ScreenInv' /\ ToldInv' /\ PartsInv'
  BY DEF IInv, AccountInv, ScreenInv, ToldInv, Holds, Outlived, PartsInv, Composed
<1>3. QED
  BY <1>1, <1>2 DEF IInv

\* A round of sendAndAwait, which decides only what stays so.
LEMMA RoundKeeps ==
  ASSUME IInv, Watching \/ RoundFails
  PROVE  IInv'
<1>1. UNCHANGED <<height, account, tx, ui, check, told, misled>>
      /\ watch.step \in {"recent", "height", "history"}
  BY DEF Watching, ReadRecent, WatchHeight, ReadHistory, RoundFails
<1>2. Deposit \in Txs
  BY DEF Txs
<1>3. PICK t : t = tx[Deposit]
  OBVIOUS
<1>4. /\ t.life \in OnItsWay /\ t.lastValid \in Nat /\ height \in Nat
      /\ watch.failures \in Nat
  <2>1. t.life \in OnItsWay /\ t.life # "none"
    BY <1>1, <1>3 DEF IInv, WatchInv, OnItsWay, Forks
  <2> QED BY <1>2, <1>3, <2>1, TxFacts DEF IInv, TypeInv
<1>5. \A s : /\ [watch EXCEPT !.step = s].step = s
             /\ s \in {"none", "recent", "height", "history"} \cup Ended =>
                  [watch EXCEPT !.step = s] \in
                    [step : {"none", "recent", "height", "history"} \cup Ended, failures : Nat]
  BY DEF IInv, TypeInv
<1>6. ASSUME watch'.step \in {"recent", "height", "gave up"},
             watch' \in [step : {"none", "recent", "height", "history"} \cup Ended, failures : Nat]
      PROVE  IInv'
  <2>1. WatchInv'
    BY <1>1, <1>3, <1>4, <1>6 DEF WatchInv
  <2> QED BY <1>1, <1>6, <2>1, WatchMoves
<1>7. CASE Missed
  <2>1. watch' = [step |-> "recent", failures |-> 0]
    BY <1>7 DEF Missed
  <2> QED BY <1>6, <2>1
<1>8. ASSUME NEW s \in {"height", "history", "landed", "failed", "expired"}, Watched(s),
             s = "history" => height > t.lastValid,
             s \in {"landed", "failed"} => t.life = s,
             s = "expired" => t.life = "sent" /\ height > t.lastValid
      PROVE  IInv'
  <2>1. watch' = [watch EXCEPT !.step = s]
    BY <1>8 DEF Watched
  <2>2. watch'.step = s /\ watch' \in [step : {"none", "recent", "height", "history"} \cup Ended,
                                       failures : Nat]
    BY <1>5, <2>1 DEF Ended
  <2>3. WatchInv'
    BY <1>1, <1>3, <1>4, <1>8, <2>2 DEF WatchInv, Outlived
  <2> QED BY <1>1, <2>2, <2>3, WatchMoves
<1>9. CASE ReadRecent
  <2>1. PICK seen : seen = RecentStatus(Deposit)
    OBVIOUS
  <2>2. CASE seen = "unseen"
    <3>1. Watched("height")
      <4>1. ~ OnFork(Deposit)
        BY <2>1, <2>2 DEF RecentStatus, OnFork
      <4> QED BY <1>9, <2>1, <2>2, <4>1 DEF ReadRecent
    <3> QED BY <1>8, <3>1
  <2>3. CASE seen # "unseen" /\ OnFork(Deposit)
    <3>1. Missed
      BY <1>9, <2>1, <2>3 DEF ReadRecent
    <3> QED BY <1>7, <3>1
  <2>4. CASE seen # "unseen" /\ ~ OnFork(Deposit)
    <3>1. Watched(t.life)
      BY <1>3, <1>9, <2>1, <2>4 DEF ReadRecent
    <3>2. t.life \in {"landed", "failed"}
      BY <1>3, <2>1, <2>4 DEF RecentStatus, Included
    <3> QED BY <1>8, <3>1, <3>2
  <2> QED BY <2>2, <2>3, <2>4
<1>10. CASE WatchHeight
  <2>1. CASE height <= t.lastValid
    <3>1. Missed
      BY <1>3, <1>10, <2>1 DEF WatchHeight
    <3> QED BY <1>7, <3>1
  <2>2. CASE ~ (height <= t.lastValid)
    <3>1. Watched("history") /\ height > t.lastValid
      BY <1>3, <1>4, <1>10, <2>2 DEF WatchHeight
    <3> QED BY <1>8, <3>1
  <2> QED BY <2>1, <2>2
<1>11. CASE ReadHistory
  <2>1. height > t.lastValid
    BY <1>3, <1>11 DEF ReadHistory, IInv, WatchInv
  <2>2. CASE Included(Deposit)
    <3>1. Watched(t.life) /\ t.life \in {"landed", "failed"}
      <4>1. ~ OnFork(Deposit) /\ t.life \in {"landed", "failed"}
        BY <1>3, <2>2 DEF Included, OnFork
      <4> QED BY <1>3, <1>11, <2>2, <4>1 DEF ReadHistory
    <3> QED BY <1>8, <3>1
  <2>3. CASE ~ Included(Deposit) /\ OnFork(Deposit)
    <3>1. Missed
      BY <1>11, <2>3 DEF ReadHistory
    <3> QED BY <1>7, <3>1
  <2>4. CASE ~ Included(Deposit) /\ ~ OnFork(Deposit)
    <3>1. Watched("expired")
      BY <1>11, <2>4 DEF ReadHistory
    <3>2. t.life = "sent"
      BY <1>3, <1>4, <2>4 DEF Included, OnFork, OnItsWay, Forks
    <3> QED BY <1>8, <2>1, <3>1, <3>2
  <2> QED BY <2>2, <2>3, <2>4
<1>12. CASE RoundFails
  <2>1. CASE watch.failures + 1 = MaxFailures
    <3>1. watch' = [watch EXCEPT !.step = "gave up"]
      BY <1>12, <2>1 DEF RoundFails
    <3>2. watch'.step = "gave up"
          /\ watch' \in [step : {"none", "recent", "height", "history"} \cup Ended, failures : Nat]
      BY <1>5, <3>1 DEF Ended
    <3> QED BY <1>6, <3>2
  <2>2. CASE watch.failures + 1 # MaxFailures
    <3>1. PICK n \in Nat : n = watch.failures + 1
      BY <1>4
    <3>2. watch' = [step |-> "recent", failures |-> n]
      BY <1>12, <2>2, <3>1 DEF RoundFails
    <3> QED BY <1>6, <3>2
  <2> QED BY <2>1, <2>2
<1>13. QED
  BY <1>9, <1>10, <1>11, <1>12 DEF Watching

\* The deposit is sent, for all the agent knows.
LEMMA DepositKeeps ==
  ASSUME IInv, DepositSends
  PROVE  IInv'
<1>1. PICK opening \in {TRUE, ~escrow} :
        tx' = [tx EXCEPT ![Deposit] =
                 [life |-> "sent", parts |-> IF opening THEN {"open", "deposit"} ELSE {"deposit"},
                  lastValid |-> height + ValidFor, at |-> 0]]
  BY DEF DepositSends
<1>2. PICK parts, n : /\ parts = (IF opening THEN {"open", "deposit"} ELSE {"deposit"})
                      /\ n = height + ValidFor
  OBVIOUS
<1>3. PICK u : u = [life |-> "sent", parts |-> parts, lastValid |-> n, at |-> 0]
  OBVIOUS
<1>4. n \in Nat /\ parts \subseteq Parts
  BY <1>2, RegistrationAssumption DEF IInv, TypeInv, Parts
<1>5. u \in Deposited /\ u.life = "sent"
  BY <1>3, <1>4 DEF Deposited, OnItsWay
<1>6. Deposit \in Txs /\ \A i \in Attempts : i \in Txs /\ i # Deposit
  BY RegistrationAssumption DEF Txs, Deposit
<1>7. TxTypes' /\ tx'[Deposit] = u /\ \A j \in Txs : j # Deposit => tx'[j] = tx[j]
  <2>1. tx' = [tx EXCEPT ![Deposit] = u]
    BY <1>1, <1>2, <1>3
  <2>2. u \in TxType(Deposit)
    BY <1>5 DEF TxType
  <2> QED BY <1>6, <2>1, <2>2, Replaced DEF IInv
<1>8. /\ UNCHANGED <<height, account, ui, check, told, misled>>
      /\ watch' = [watch EXCEPT !.step = "recent"] \/ watch' = [watch EXCEPT !.step = "gave up"]
  BY DEF DepositSends
<1>9. /\ watch'.step \in {"recent", "gave up"}
      /\ watch' \in [step : {"none", "recent", "height", "history"} \cup Ended, failures : Nat]
  BY <1>8 DEF IInv, TypeInv, Ended
<1>10. TypeInv'
  BY <1>7, <1>8, <1>9 DEF IInv, TypeInv
<1>11. WatchInv'
  <2>1. tx'[Deposit].life \in OnItsWay
    BY <1>5, <1>7 DEF OnItsWay
  <2> QED BY <1>9, <2>1 DEF WatchInv
<1>12. \A i \in Attempts : tx'[i] = tx[i]
  BY <1>6, <1>7
<1>13. AccountInv' /\ ScreenInv'
  <2>1. ui.phase \in {"preparing", "signing", "confirming"} => ui.attempt \in Attempts
    BY UiFacts DEF IInv
  <2> QED BY <1>8, <1>12, <2>1 DEF IInv, AccountInv, ScreenInv
<1>14. ToldInv'
  <2>1. check.step = "answered" => check.attempt \in Attempts
    BY CheckFacts DEF IInv
  <2> QED BY <1>8, <1>12, <2>1 DEF IInv, ToldInv, Holds, Outlived
<1>15. PartsInv'
  BY <1>8, <1>12 DEF IInv, PartsInv, Composed
<1>16. QED
  BY <1>10, <1>11, <1>13, <1>14, <1>15 DEF IInv
-----------------------------------------------------------------------------
(* What every behaviour keeps, and what it is for.                         *)

\* Nothing was prepared, asked or told yet.
LEMMA Begins == Init => IInv
<1> SUFFICES ASSUME Init PROVE IInv
  OBVIOUS
<1>1. /\ height = 0 /\ tx = [i \in Txs |-> NoTx] /\ ui = [phase |-> "idle", attempt |-> 0]
      /\ check = NoCheck /\ told = [i \in Attempts |-> "nothing"]
      /\ watch = [step |-> "none", failures |-> 0] /\ misled = {}
  BY DEF Init
<1>2. account \in [Targets -> Account] /\ AccountInv
  <2>1. PICK d \in {NoAccount, [owner |-> "publisher", rate |-> "low", status |-> "active"]} :
          account = [t \in Targets |-> IF t = "domain" THEN d ELSE NoAccount]
    BY DEF Init
  <2>2. d \in Account /\ NoAccount \in Account /\ (d.owner = "nobody" => d = NoAccount)
        /\ NoAccount.owner = "nobody"
    BY DEF Account, NoAccount
  <2> QED BY <2>1, <2>2 DEF AccountInv, Targets
<1>3. TypeInv
  <2>1. TxTypes
    BY <1>1 DEF TxTypes, TxType
  <2>2. ui \in UiType /\ check \in CheckType
    BY <1>1 DEF UiType, CheckType
  <2> QED BY <1>1, <1>2, <2>1, <2>2 DEF TypeInv
<1>4. \A i \in Attempts : tx[i] = NoTx /\ told[i] = "nothing"
  BY <1>1 DEF Txs
<1>5. ScreenInv /\ ToldInv /\ WatchInv /\ PartsInv
  BY <1>1, <1>4 DEF ScreenInv, ToldInv, Holds, WatchInv, PartsInv, NoCheck
<1>6. QED
  BY <1>2, <1>3, <1>5 DEF IInv

\* Every step keeps the invariant.
LEMMA StepKeeps ==
  ASSUME IInv, [Next]_vars
  PROVE  IInv'
<1>1. CASE UNCHANGED vars
  <2>1. TypeInv' /\ AccountInv' /\ ScreenInv'
    BY <1>1 DEF vars, IInv, TypeInv, TxTypes, TxType, AccountInv, ScreenInv
  <2>2. ToldInv' /\ WatchInv' /\ PartsInv'
    BY <1>1 DEF vars, IInv, ToldInv, Holds, Outlived, WatchInv, PartsInv, Composed
  <2> QED BY <2>1, <2>2 DEF IInv
<1>2. CASE NextBlock
  BY <1>2, BlockKeeps
<1>3. CASE Network
  BY <1>3, NetworkKeeps DEF Network
<1>4. CASE Preempted \/ \E t \in Targets : ChangedElsewhere(t)
  BY <1>4, OthersKeep
<1>5. CASE \E q \in Requests : Start(q)
  BY <1>5, StartKeeps
<1>6. CASE Examine \/ Assemble
  BY <1>6, ExamineKeeps, AssembleKeeps
<1>7. CASE PrepareFails \/ CannotSend
  BY <1>7, NothingSent
<1>8. CASE Send \/ WalletStops
  BY <1>8, WalletKeeps
<1>9. CASE \E i \in Attempts : SendsUnwatched(i)
  BY <1>9, UnwatchedKeeps
<1>10. CASE Checking \/ CheckFails \/ Leave
  BY <1>10, AnswerKeeps, VerdictHolds DEF Checking
<1>11. CASE DepositSends
  BY <1>11, DepositKeeps
<1>12. CASE Watching \/ RoundFails
  BY <1>12, RoundKeeps
<1>13. QED
  BY <1>1, <1>2, <1>3, <1>4, <1>5, <1>6, <1>7, <1>8, <1>9, <1>10, <1>11, <1>12 DEF Next

\* The invariant holds in every state that can be reached.
LEMMA Invariant == Spec => []IInv
<1>1. Init => IInv
  BY Begins
<1>2. IInv /\ [Next]_vars => IInv'
  BY StepKeeps
<1>3. QED
  BY <1>1, <1>2, PTL DEF Spec

(***************************************************************************)
(* registrationStatus: what the publisher was told of a transaction is so, *)
(* and stays so while the network, the wallet and others go on.            *)
(***************************************************************************)
THEOREM AnswersStayTrue == Spec => []ToldTruly
<1>1. IInv => ToldTruly
  <2> SUFFICES ASSUME IInv, NEW i \in Attempts
               PROVE  /\ told[i] = "registered" => tx[i].life = "landed"
                      /\ told[i] \in {"failed", "expired"} => tx[i].life # "landed" \/ i \in misled
                      /\ told[i] = "nothing sent" => tx[i].life \in {"none", "examined", "unsent"}
    BY DEF ToldTruly
  <2>1. Holds(i, told[i])
    BY DEF IInv, ToldInv
  <2> QED BY <2>1 DEF Holds, Outlived
<1>2. QED
  BY <1>1, Invariant, PTL

(***************************************************************************)
(* sendAndAwait: what the agent takes its transaction for is what became   *)
(* of it, through failed rounds, losing forks and forgotten statuses.      *)
(***************************************************************************)
THEOREM AwaitedTruly == Spec => []WatchedTruly
<1>1. IInv => WatchedTruly
  BY DEF IInv, WatchInv, Outlived, WatchedTruly, Included
<1>2. QED
  BY <1>1, Invariant, PTL

(***************************************************************************)
(* prepareRegistration and prepareChange: a transaction that lands, however *)
(* late and whatever others did in between, sets no field but those that   *)
(* its request asked to be different.                                      *)
(***************************************************************************)
THEOREM LandedAsAsked == Spec => LandsAsAsked
<1>1. IInv /\ [Next]_vars =>
        [\A i \in Attempts : tx[i].life # "landed" /\ tx'[i].life = "landed" => AsAsked(i)]_vars
  <2> SUFFICES ASSUME IInv, Next, NEW i \in Attempts,
                      tx[i].life # "landed", tx'[i].life = "landed"
               PROVE  AsAsked(i)
    OBVIOUS
  <2>1. i \in Txs /\ i # Deposit /\ Deposit \in Txs
    BY RegistrationAssumption DEF Txs, Deposit
  <2>2. tx = [j \in Txs |-> tx[j]]
    BY DEF IInv, TypeInv, TxTypes
  <2>3. PICK j \in Txs : Process(j) \/ Confirm(j) \/ Reorganise(j) \/ Lapse(j)
    <3>1. CASE Network
      BY <3>1 DEF Network
    <3>2. CASE ~ Network
      <4>1. UNCHANGED tx \/ Examine \/ Assemble \/ Send \/ WalletStops
            \/ (\E k \in Attempts : SendsUnwatched(k)) \/ DepositSends
        BY <3>2 DEF Next, NextBlock, Preempted, ChangedElsewhere, Start, PrepareFails, CannotSend,
                    Checking, ReadHeight, ReadStatus, CheckArrives, CheckFails, Leave, Watching,
                    ReadRecent, WatchHeight, ReadHistory, RoundFails
      <4>2. CASE Examine
        <5>1. PICK k, u : /\ k = ui.attempt
                          /\ u = [life |-> "examined", request |-> ui.request,
                                  base |-> account[ui.request.target],
                                  parts |-> Instructions(ui.request), lastValid |-> 0, at |-> 0]
          OBVIOUS
        <5>2. u.life = "examined"
          BY <5>1
        <5>3. tx' = tx \/ tx' = [tx EXCEPT ![k] = u]
          BY <4>2, <5>1 DEF Examine
        <5> QED BY <2>1, <2>2, <5>2, <5>3
      <4>3. CASE Assemble
        <5>1. PICK k \in Attempts : k = ui.attempt /\ tx[k].life = "examined"
          BY <4>3, UiFacts DEF Assemble, IInv
        <5>2. tx[k] \in Attempted /\ k \in Txs
          BY <5>1, TxFacts, RegistrationAssumption DEF Txs, Deposit, IInv
        <5>3. PICK t, u : t = tx[k] /\ u = [[t EXCEPT !.life = "unsent"]
                                               EXCEPT !.lastValid = height + ValidFor]
          OBVIOUS
        <5>4. u.life = "unsent"
          BY <5>2, <5>3 DEF Attempted
        <5>5. tx' = [tx EXCEPT ![k] = u]
          BY <2>2, <4>3, <5>1, <5>3 DEF Assemble
        <5> QED BY <2>1, <2>2, <5>4, <5>5
      <4>5. CASE Send \/ WalletStops \/ \E k \in Attempts : SendsUnwatched(k)
        <5>1. CASE UNCHANGED tx
          BY <5>1
        <5>2. CASE ~ UNCHANGED tx
          <6>1. PICK k \in Attempts : tx[k].life = "unsent" /\ tx' = [tx EXCEPT ![k].life = "sent"]
            BY <4>5, <5>2, UiFacts DEF Send, WalletStops, SendsUnwatched, IInv, ScreenInv
          <6>2. Sending(tx[k], tx'[k]) /\ \A x \in Txs : x # k => tx'[x] = tx[x]
            BY <6>1, SentBy DEF IInv
          <6> QED BY <2>1, <6>2 DEF Sending
        <5> QED BY <5>1, <5>2
      <4>4. CASE DepositSends
        BY <2>1, <2>2, <4>4 DEF DepositSends
      <4> QED BY <4>1, <4>2, <4>3, <4>4, <4>5
    <3> QED BY <3>1, <3>2
  <2>4. /\ tx'[j].life = "landed" => Confirm(j) /\ Executes(j)
        /\ \A k \in Txs : k # j => tx'[k] = tx[k]
    BY <2>3, NetworkMoves DEF IInv
  <2>5. i = j
    BY <2>1, <2>4
  <2> QED BY <2>1, <2>4, <2>5, ConfirmMakes
<1>2. QED
  BY <1>1, Invariant, PTL DEF Spec, LandsAsAsked, AsAsked

=============================================================================
