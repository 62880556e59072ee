-------------------------- MODULE PublisherProofs --------------------------
(***************************************************************************)
(* What a publisher's browser guarantees.  Of signing in: what challenges, *)
(* sessions and the tab hold to, for any number of wallets, nonces and     *)
(* racing verifications, and any lifetimes.  Of the live feed: that no     *)
(* receipt and no settlement gets lost between the tables and the screen   *)
(* for a reason nobody knows of, for any number of receipts, of requests   *)
(* and of faults, and any size of a page.                                  *)
(***************************************************************************)
EXTENDS SignIn, LiveFeed, TLAPS, FiniteSetTheorems, WellFoundedInduction

-----------------------------------------------------------------------------
(* Signing in.                                                             *)

ChallengeRows == [wallet : Wallets, expires : Nat, used : BOOLEAN]

SessionRows == [nonce : Nonces, wallet : Wallets, at : Nat]

\* The sign-in of the tab, before it has a challenge and with one.
Asking == [phase : {"challenging"}, wallet : Wallets]

WithNonce == [phase : {"signing", "sending", "verifying", "denied", "granted"},
              wallet : Wallets, nonce : Nonces]

\* The types of the whole state.
TypeInv ==
  /\ now \in Nat /\ drawn \in Nat
  /\ challenges \in [Nonces -> {NoChallenge} \cup ChallengeRows]
  /\ signed \in [Nonces -> SUBSET Wallets]
  /\ verifying \subseteq [nonce : Nonces, at : Nat, asker : {"tab", "other"}]
  /\ grants \in Seq(SessionRows) /\ sessions \subseteq DOMAIN grants
  /\ connected \in Wallets \cup {NoWallet}
  /\ signing \in {Idle} \cup Asking \cup WithNonce
  /\ session \in {0} \cup DOMAIN grants /\ stored \in {0} \cup DOMAIN grants
  /\ read \in {NoRead} \cup [state : {"asked", "served", "refused"}, token : DOMAIN grants]
  /\ screen \in Wallets \cup {NoWallet}

(***************************************************************************)
(* The strengthening for challenges: a nonce is drawn once and for one     *)
(* wallet, whatever is verified was signed, and no verification or session *)
(* is of a time to come.                                                   *)
(***************************************************************************)
ChallengeInv ==
  /\ \A n \in Nonces : n > drawn => challenges[n] = NoChallenge
  /\ \A v \in verifying :
       /\ v.nonce <= drawn /\ v.at <= now
       /\ challenges[v.nonce] # NoChallenge => challenges[v.nonce].wallet \in signed[v.nonce]
  /\ \A t \in DOMAIN grants : grants[t].nonce <= drawn
  /\ OneSessionPerChallenge

(***************************************************************************)
(* The strengthening for the tab: it signs in only when it has no session, *)
(* and what it reads is for the session it has.                            *)
(***************************************************************************)
TabInv ==
  /\ signing # Idle => session = 0
  /\ read # NoRead => session # 0 /\ read.token = session
  /\ ScreenIsTheirs

\* An empty row is no row, and an idle sign-in no sign-in.
LEMMA RowTypes ==
  /\ \A r \in ChallengeRows : r # NoChallenge /\ r.wallet \in Wallets /\ r.expires \in Nat
  /\ NoChallenge.wallet \notin Wallets
  /\ \A s \in Asking \cup WithNonce : s # Idle /\ s.phase # "idle"
  /\ \A r \in [state : {"asked", "served", "refused"}, token : DOMAIN grants] :
       r # NoRead /\ r.state # "none"
BY SignInAssumption DEF ChallengeRows, NoChallenge, Asking, WithNonce, Idle, NoRead

\* One session more: the earlier ones keep their tokens and their terms.
LEMMA GrantAdded ==
  ASSUME TypeInv, NEW r \in SessionRows, grants' = Append(grants, r)
  PROVE  /\ grants' \in Seq(SessionRows) /\ Len(grants') = Len(grants) + 1 /\ Len(grants) \in Nat
         /\ DOMAIN grants' = DOMAIN grants \cup {Len(grants')} /\ Len(grants') \notin DOMAIN grants
         /\ grants'[Len(grants')] = r
         /\ \A t \in DOMAIN grants : grants'[t] = grants[t]
<1>1. grants \in Seq(SessionRows)
  BY DEF TypeInv
<1>2. /\ grants' \in Seq(SessionRows) /\ Len(grants') = Len(grants) + 1 /\ Len(grants) \in Nat
      /\ DOMAIN grants' = 1..Len(grants) + 1 /\ DOMAIN grants = 1..Len(grants)
      /\ grants'[Len(grants) + 1] = r
      /\ \A t \in 1..Len(grants) : grants'[t] = grants[t]
  BY <1>1
<1>3. QED
  BY <1>2

\* A challenge drawn for w: a row of its own, and of the others only the expired go.
LEMMA DrawnTypes ==
  ASSUME TypeInv, NEW w \in Wallets, Drawn(w)
  PROVE  /\ drawn' = drawn + 1 /\ drawn' \in Nonces
         /\ challenges' \in [Nonces -> {NoChallenge} \cup ChallengeRows]
         /\ challenges'[drawn'] = ChallengeRow(w) /\ ChallengeRow(w) \in ChallengeRows
         /\ \A n \in Nonces \ {drawn'} : challenges'[n] \in {NoChallenge, challenges[n]}
<1>1. ChallengeRow(w) \in ChallengeRows
  BY SignInAssumption DEF ChallengeRow, ChallengeRows, TypeInv
<1>2. QED
  BY <1>1 DEF Drawn, TypeInv

-----------------------------------------------------------------------------

\* The verification the gateway takes up is well typed, whoever asks for it.
LEMMA LookTypes ==
  ASSUME TypeInv, NEW n \in Nonces, NEW asker \in {"tab", "other"}, Look(n, asker)
  PROVE  /\ verifying' \subseteq [nonce : Nonces, at : Nat, asker : {"tab", "other"}]
         /\ UNCHANGED <<challenges, drawn, signed, grants, sessions>>
BY DEF Look, TypeInv

\* The transaction that burns a challenge keeps the types.
LEMMA BurnTypes ==
  ASSUME TypeInv, NEW v \in verifying, Burn(v)
  PROVE  TypeInv'
<1>1. /\ v.nonce \in Nonces /\ v.at \in Nat /\ verifying' \subseteq verifying
      /\ UNCHANGED <<now, drawn, signed, connected, session, stored, read, screen>>
  BY DEF Burn, TypeInv
<1>2. \E outcome \in {"granted", "denied"} : Answered(v, outcome)
  BY DEF Burn
<1>3. signing' \in {Idle} \cup Asking \cup WithNonce
  BY <1>2 DEF Answered, TypeInv, Asking, WithNonce, Idle
<1>4. CASE Burnable(v)
  <2>1. challenges[v.nonce] \in ChallengeRows
    BY <1>1, <1>4 DEF Burnable, TypeInv
  <2>2. SessionRow(v) \in SessionRows
    BY <1>1, <2>1, RowTypes DEF SessionRow, SessionRows
  <2>3. grants' = Append(grants, SessionRow(v))
    BY <1>4 DEF Burn
  <2>4. /\ grants' \in Seq(SessionRows) /\ DOMAIN grants \subseteq DOMAIN grants'
        /\ Len(grants') \in DOMAIN grants'
    BY <2>2, <2>3, GrantAdded
  <2>5. sessions' \subseteq DOMAIN grants'
    BY <1>4, <2>4 DEF Burn, Surviving, TypeInv
  <2>6. challenges' \in [Nonces -> {NoChallenge} \cup ChallengeRows]
    <3>1. challenges' = [challenges EXCEPT ![v.nonce].used = TRUE]
      BY <1>4 DEF Burn
    <3>2. [challenges[v.nonce] EXCEPT !.used = TRUE] \in ChallengeRows
      BY <2>1 DEF ChallengeRows
    <3> QED BY <3>1, <3>2 DEF TypeInv
  <2>7. read' \in {NoRead} \cup [state : {"asked", "served", "refused"}, token : DOMAIN grants']
    BY <1>1, <2>4 DEF TypeInv
  <2> QED BY <1>1, <1>3, <2>4, <2>5, <2>6, <2>7 DEF TypeInv
<1>5. CASE ~ Burnable(v)
  <2>1. UNCHANGED <<challenges, grants, sessions>>
    BY <1>5 DEF Burn
  <2> QED BY <1>1, <1>3, <2>1 DEF TypeInv
<1>6. QED
  BY <1>4, <1>5

\* The gateway's other steps keep the types.
LEMMA GatewayTypes ==
  ASSUME TypeInv,
         \/ \E w \in Wallets : DrawnElsewhere(w)
         \/ \E n \in Nonces : LookElsewhere(n)
         \/ \E v \in verifying : Burn(v) \/ BurnFails(v)
         \/ Tick
  PROVE  TypeInv'
<1>1. ASSUME NEW w \in Wallets, DrawnElsewhere(w)
      PROVE  TypeInv'
  <2>1. Drawn(w) /\ UNCHANGED <<now, verifying, grants, sessions, tabVars>>
    BY <1>1 DEF DrawnElsewhere
  <2>2. signed' \in [Nonces -> SUBSET Wallets]
    BY <1>1, <2>1, DrawnTypes DEF DrawnElsewhere, TypeInv
  <2> QED BY <2>1, <2>2, DrawnTypes DEF TypeInv, tabVars
<1>2. ASSUME NEW n \in Nonces, LookElsewhere(n)
      PROVE  TypeInv'
  BY <1>2, LookTypes DEF LookElsewhere, TypeInv, tabVars
<1>3. ASSUME NEW v \in verifying, BurnFails(v)
      PROVE  TypeInv'
  BY <1>3 DEF BurnFails, TypeInv, tabVars
<1>4. CASE Tick
  BY <1>4 DEF Tick, TypeInv, gatewayVars, tabVars
<1>5. QED
  BY <1>1, <1>2, <1>3, <1>4, BurnTypes

\* The tab's steps of signing in keep the types.
LEMMA SignInTypes ==
  ASSUME TypeInv,
         \/ \E w \in Wallets : SignInStarts(w)
         \/ Challenged \/ Signed \/ LookTab \/ SignInFails
  PROVE  TypeInv'
<1>1. ASSUME NEW w \in Wallets, SignInStarts(w)
      PROVE  TypeInv'
  BY <1>1 DEF SignInStarts, TypeInv, gatewayVars, Asking
<1>2. CASE Challenged
  <2>1. signing.wallet \in Wallets
    BY <1>2 DEF Challenged, TypeInv, Idle, Asking, WithNonce
  <2>2. Drawn(signing.wallet)
    BY <1>2 DEF Challenged
  <2>3. signing' \in WithNonce
    BY <1>2, <2>1, <2>2, DrawnTypes DEF Challenged, WithNonce
  <2> QED BY <1>2, <2>1, <2>2, <2>3, DrawnTypes DEF Challenged, TypeInv
<1>3. CASE Signed
  <2>1. signing \in WithNonce /\ connected \in Wallets
    BY <1>3 DEF Signed, TypeInv, Idle, Asking
  <2>2. signed' \in [Nonces -> SUBSET Wallets]
    BY <1>3, <2>1 DEF Signed, TypeInv, WithNonce
  <2>3. signing' \in {Idle} \cup WithNonce
    BY <1>3, <2>1 DEF Signed, WithNonce
  <2> QED BY <1>3, <2>2, <2>3 DEF Signed, TypeInv
<1>4. CASE LookTab
  <2>1. signing \in WithNonce /\ signing.nonce \in Nonces
    BY <1>4 DEF LookTab, TypeInv, Idle, Asking, WithNonce
  <2>2. signing' \in WithNonce
    BY <1>4, <2>1 DEF LookTab, WithNonce
  <2>3. Look(signing.nonce, "tab") \/ UNCHANGED gatewayVars
    BY <1>4 DEF LookTab
  <2>4. /\ verifying' \subseteq [nonce : Nonces, at : Nat, asker : {"tab", "other"}]
        /\ UNCHANGED <<challenges, drawn, signed, grants, sessions>>
    <3>1. CASE Look(signing.nonce, "tab")
      BY <2>1, <3>1, LookTypes
    <3>2. CASE UNCHANGED gatewayVars
      BY <3>2 DEF gatewayVars, TypeInv
    <3> QED BY <2>3, <3>1, <3>2
  <2> QED BY <1>4, <2>2, <2>4 DEF LookTab, TypeInv
<1>5. CASE SignInFails
  BY <1>5 DEF SignInFails, TypeInv, gatewayVars
<1>6. QED
  BY <1>1, <1>2, <1>3, <1>4, <1>5

\* The tab's steps under a session keep the types.
LEMMA SessionTypes ==
  ASSUME TypeInv,
         \/ \E w \in Wallets \cup {NoWallet} : AccountChanges(w)
         \/ Granted \/ SignOut \/ TimerFires \/ Refused \/ Reload
         \/ Ask \/ Serve \/ Show \/ ReadFails
  PROVE  TypeInv'
<1>1. ASSUME NEW w \in Wallets \cup {NoWallet}, AccountChanges(w)
      PROVE  TypeInv'
  BY <1>1 DEF AccountChanges, SignedOut, Disconnected, TypeInv, gatewayVars
<1>2. CASE Granted
  <2>1. PICK token \in DOMAIN grants :
          IF Ended(token, connected)
          THEN SignedOut /\ Disconnected(connected)
          ELSE session' = token /\ stored' \in {token, stored} /\ UNCHANGED <<connected, read, screen>>
    BY <1>2 DEF Granted
  <2>2. signing' = Idle /\ UNCHANGED <<now, gatewayVars>>
    BY <1>2 DEF Granted
  <2> QED BY <2>1, <2>2 DEF SignedOut, Disconnected, TypeInv, gatewayVars
<1>3. CASE SignOut \/ TimerFires \/ Refused
  BY <1>3 DEF SignOut, TimerFires, Refused, LeaveWhen, SignedOut, Disconnected, TypeInv, gatewayVars
<1>4. CASE Reload
  BY <1>4 DEF Reload, TypeInv, gatewayVars
<1>5. CASE Ask
  BY <1>5 DEF Ask, TypeInv, gatewayVars
<1>6. CASE Serve
  <2>1. read \in [state : {"asked", "served", "refused"}, token : DOMAIN grants]
    BY <1>6 DEF Serve, TypeInv, NoRead
  <2>2. read' \in [state : {"asked", "served", "refused"}, token : DOMAIN grants]
    BY <1>6, <2>1 DEF Serve
  <2>3. UNCHANGED <<now, gatewayVars, connected, signing, session, stored, screen>>
    BY <1>6 DEF Serve
  <2> QED BY <2>2, <2>3 DEF TypeInv, gatewayVars
<1>7. CASE Show
  <2>1. read.token \in DOMAIN grants
    BY <1>7 DEF Show, TypeInv, NoRead
  <2>2. grants[read.token].wallet \in Wallets
    <3>1. grants \in Seq(SessionRows)
      BY DEF TypeInv
    <3>2. grants[read.token] \in SessionRows
      BY <2>1, <3>1
    <3> QED BY <3>2 DEF SessionRows
  <2> QED BY <1>7, <2>2 DEF Show, TypeInv, gatewayVars
<1>8. CASE ReadFails
  BY <1>8 DEF ReadFails, TypeInv, gatewayVars
<1>9. QED
  BY <1>1, <1>2, <1>3, <1>4, <1>5, <1>6, <1>7, <1>8

(***************************************************************************)
(* Every variable keeps its type; in particular a token in hand is always  *)
(* one that was issued.                                                    *)
(***************************************************************************)
LEMMA TypeInvariant == Spec => []TypeInv
<1>1. Init => TypeInv
  BY DEF Init, TypeInv
<1>2. TypeInv /\ [Next]_vars => TypeInv'
  <2> SUFFICES ASSUME TypeInv, [Next]_vars PROVE TypeInv'
    OBVIOUS
  <2>1. CASE Next
    BY <2>1, GatewayTypes, SignInTypes, SessionTypes DEF Next
  <2>2. CASE UNCHANGED vars
    BY <2>2 DEF vars, gatewayVars, tabVars, TypeInv
  <2> QED BY <2>1, <2>2
<1>3. QED
  BY <1>1, <1>2, PTL DEF Spec

-----------------------------------------------------------------------------

\* A step of the tab, or of time: the gateway's rows stay, and signatures only grow.
LEMMA QuietChallenge ==
  ASSUME TypeInv, ChallengeInv, UNCHANGED <<challenges, drawn, grants>>,
         now' \in Nat, now <= now',
         \A n \in Nonces : signed[n] \subseteq signed'[n],
         \A v \in verifying' : \/ v \in verifying
                               \/ /\ v.nonce \in Nonces /\ v.at = now
                                  /\ challenges[v.nonce] # NoChallenge
                                  /\ challenges[v.nonce].wallet \in signed[v.nonce]
  PROVE  ChallengeInv'
<1>1. \A t \in DOMAIN grants : grants[t].nonce \in Nonces
  <2>1. \A t \in DOMAIN grants : grants[t] \in SessionRows
    BY DEF TypeInv
  <2> QED BY <2>1 DEF SessionRows
<1>2. \A v \in verifying : v.nonce \in Nonces /\ v.at \in Nat
  BY DEF TypeInv
<1>3. ASSUME NEW v \in verifying'
      PROVE  /\ v.nonce <= drawn /\ v.at <= now'
             /\ challenges[v.nonce] # NoChallenge => challenges[v.nonce].wallet \in signed'[v.nonce]
  <2>1. CASE v \in verifying
    BY <1>2, <2>1 DEF ChallengeInv, TypeInv
  <2>2. CASE v \notin verifying
    <3>1. /\ v.nonce \in Nonces /\ v.at = now /\ challenges[v.nonce] # NoChallenge
          /\ challenges[v.nonce].wallet \in signed[v.nonce]
      BY <2>2
    <3>2. ~ (v.nonce > drawn)
      BY <3>1 DEF ChallengeInv
    <3>3. v.nonce \in Nat
      BY <3>1, SignInAssumption
    <3> QED BY <3>1, <3>2, <3>3 DEF TypeInv
  <2> QED BY <2>1, <2>2
<1>4. OneSessionPerChallenge'
  BY <1>1 DEF ChallengeInv, OneSessionPerChallenge
<1>5. QED
  BY <1>3, <1>4 DEF ChallengeInv

\* A challenge is drawn: its nonce has no session and no verification yet.
LEMMA DrawnChallenge ==
  ASSUME TypeInv, ChallengeInv, NEW w \in Wallets, Drawn(w),
         UNCHANGED <<now, verifying, grants>>,
         \A n \in Nonces \ {drawn'} : signed'[n] = signed[n]
  PROVE  ChallengeInv'
<1>1. /\ drawn' = drawn + 1 /\ drawn \in Nat /\ drawn' \in Nonces
      /\ challenges'[drawn'] = ChallengeRow(w) /\ ChallengeRow(w) \in ChallengeRows
      /\ \A n \in Nonces \ {drawn'} : challenges'[n] \in {NoChallenge, challenges[n]}
  BY DrawnTypes DEF TypeInv
<1>2. /\ \A n \in Nonces : n \in Nat
      /\ \A t \in DOMAIN grants : grants[t].nonce \in Nonces /\ grants[t].nonce <= drawn
      /\ \A v \in verifying : v.nonce \in Nonces /\ v.nonce <= drawn
  <2>1. \A t \in DOMAIN grants : grants[t] \in SessionRows
    BY DEF TypeInv
  <2> QED BY <2>1, SignInAssumption DEF SessionRows, ChallengeInv, TypeInv
<1>3. /\ \A t \in DOMAIN grants : grants[t].nonce # drawn'
      /\ \A v \in verifying : v.nonce # drawn'
  <2>1. \A n \in Nonces : n <= drawn => n # drawn'
    BY <1>1, <1>2
  <2> QED BY <1>2, <2>1
<1>4. \A n \in Nonces : n > drawn' => challenges'[n] = NoChallenge
  BY <1>1, <1>2 DEF ChallengeInv
<1>5. ASSUME NEW v \in verifying'
      PROVE  /\ v.nonce <= drawn' /\ v.at <= now'
             /\ challenges'[v.nonce] # NoChallenge => challenges'[v.nonce].wallet \in signed'[v.nonce]
  <2>1. v \in verifying /\ v.nonce \in Nonces \ {drawn'} /\ v.nonce \in Nat /\ v.nonce <= drawn
    BY <1>2, <1>3
  <2>2. v.nonce <= drawn'
    BY <1>1, <2>1
  <2>3. challenges'[v.nonce] \in {NoChallenge, challenges[v.nonce]} /\ signed'[v.nonce] = signed[v.nonce]
    BY <1>1, <2>1
  <2> QED BY <2>1, <2>2, <2>3 DEF ChallengeInv
<1>6. \A t \in DOMAIN grants' : grants'[t].nonce <= drawn'
  <2>1. \A n \in Nonces : n <= drawn => n <= drawn'
    BY <1>1, <1>2
  <2> QED BY <1>2, <2>1
<1>7. OneSessionPerChallenge'
  <2>1. \A s, t \in DOMAIN grants' : grants'[s].nonce = grants'[t].nonce => s = t
    BY DEF ChallengeInv, OneSessionPerChallenge
  <2>2. \A t \in DOMAIN grants' : grants'[t].wallet \in signed'[grants'[t].nonce]
    BY <1>2, <1>3 DEF ChallengeInv, OneSessionPerChallenge
  <2>3. ASSUME NEW n \in Nonces, challenges'[n] # NoChallenge
        PROVE  /\ challenges'[n].used <=> \E t \in DOMAIN grants' : grants'[t].nonce = n
               /\ \A t \in DOMAIN grants' : grants'[t].nonce = n => grants'[t].at < challenges'[n].expires
    <3>1. CASE n = drawn'
      BY <1>1, <1>3, <3>1 DEF ChallengeRow
    <3>2. CASE n # drawn'
      <4>1. challenges'[n] = challenges[n]
        BY <1>1, <2>3, <3>2
      <4> QED BY <2>3, <4>1 DEF ChallengeInv, OneSessionPerChallenge
    <3> QED BY <3>1, <3>2
  <2> QED BY <2>1, <2>2, <2>3 DEF OneSessionPerChallenge
<1>8. QED
  BY <1>4, <1>5, <1>6, <1>7 DEF ChallengeInv

\* The transaction spends a challenge that has no session yet, or does nothing.
LEMMA BurnChallenge ==
  ASSUME TypeInv, ChallengeInv, NEW v \in verifying, Burn(v)
  PROVE  ChallengeInv'
<1>1. /\ verifying' \subseteq verifying /\ UNCHANGED <<now, drawn, signed>>
      /\ v.nonce \in Nonces /\ v.at \in Nat /\ v.at <= now /\ now \in Nat /\ v.nonce <= drawn
  BY DEF Burn, TypeInv, ChallengeInv
<1>2. CASE ~ Burnable(v)
  <2>1. UNCHANGED <<challenges, grants>>
    BY <1>2 DEF Burn
  <2> QED BY <1>1, <2>1, QuietChallenge
<1>3. CASE Burnable(v)
  <2>1. PICK n \in Nonces : n = v.nonce
    BY <1>1
  <2>2. PICK row \in ChallengeRows : row = challenges[n]
    BY <1>3, <2>1 DEF Burnable, TypeInv
  <2>3. /\ ~ row.used /\ row.expires > v.at /\ row.wallet \in signed[n]
        /\ row # NoChallenge
    BY <1>3, <2>1, <2>2 DEF Burnable, ChallengeInv
  <2>4. /\ challenges' = [challenges EXCEPT ![n].used = TRUE]
        /\ grants' = Append(grants, [nonce |-> n, wallet |-> row.wallet, at |-> v.at])
    BY <1>3, <2>1, <2>2 DEF Burn, SessionRow
  <2>5. [nonce |-> n, wallet |-> row.wallet, at |-> v.at] \in SessionRows
    BY <1>1, <2>2, RowTypes DEF SessionRows
  <2>6. PICK k : /\ DOMAIN grants' = DOMAIN grants \cup {k} /\ k \notin DOMAIN grants
                 /\ grants'[k] = [nonce |-> n, wallet |-> row.wallet, at |-> v.at]
                 /\ \A t \in DOMAIN grants : grants'[t] = grants[t]
    BY <2>4, <2>5, GrantAdded
  <2>7. /\ challenges'[n] = [row EXCEPT !.used = TRUE]
        /\ \A m \in Nonces \ {n} : challenges'[m] = challenges[m]
    BY <2>2, <2>4 DEF TypeInv
  <2>8. /\ challenges'[n] \in ChallengeRows /\ challenges'[n].used = TRUE
        /\ challenges'[n].expires = row.expires /\ challenges'[n].wallet = row.wallet
    BY <2>2, <2>7 DEF ChallengeRows
  <2>9. \A t \in DOMAIN grants : grants[t].nonce # n
    BY <2>2, <2>3 DEF ChallengeInv, OneSessionPerChallenge
  <2>10. \A m \in Nonces : m > drawn' => challenges'[m] = NoChallenge
    <3>1. ~ (n > drawn)
      BY <2>2, <2>3 DEF ChallengeInv
    <3> QED BY <1>1, <2>7, <3>1 DEF ChallengeInv
  <2>11. \A u \in verifying' :
           /\ u.nonce <= drawn' /\ u.at <= now'
           /\ challenges'[u.nonce] # NoChallenge => challenges'[u.nonce].wallet \in signed'[u.nonce]
    <3>1. ASSUME NEW u \in verifying'
          PROVE  challenges'[u.nonce] # NoChallenge => challenges'[u.nonce].wallet \in signed'[u.nonce]
      <4>1. u \in verifying /\ u.nonce \in Nonces
        BY <1>1 DEF TypeInv
      <4>2. CASE u.nonce = n
        BY <1>1, <2>3, <2>8, <4>2
      <4>3. CASE u.nonce # n
        BY <1>1, <2>7, <4>1, <4>3 DEF ChallengeInv
      <4> QED BY <4>2, <4>3
    <3> QED BY <1>1, <3>1 DEF ChallengeInv
  <2>12. \A t \in DOMAIN grants' : grants'[t].nonce <= drawn'
    BY <1>1, <2>1, <2>6 DEF ChallengeInv
  <2>13. OneSessionPerChallenge'
    <3>1. \A s, t \in DOMAIN grants' : grants'[s].nonce = grants'[t].nonce => s = t
      BY <2>6, <2>9 DEF ChallengeInv, OneSessionPerChallenge
    <3>2. \A t \in DOMAIN grants' : grants'[t].wallet \in signed'[grants'[t].nonce]
      BY <1>1, <2>3, <2>6 DEF ChallengeInv, OneSessionPerChallenge
    <3>3. ASSUME NEW m \in Nonces, challenges'[m] # NoChallenge
          PROVE  /\ challenges'[m].used <=> \E t \in DOMAIN grants' : grants'[t].nonce = m
                 /\ \A t \in DOMAIN grants' : grants'[t].nonce = m => grants'[t].at < challenges'[m].expires
      <4>1. CASE m = n
        <5>1. v.at < row.expires
          BY <1>1, <2>2, <2>3, RowTypes
        <5> QED BY <2>6, <2>8, <2>9, <4>1, <5>1
      <4>2. CASE m # n
        BY <2>6, <2>7, <3>3, <4>2 DEF ChallengeInv, OneSessionPerChallenge
      <4> QED BY <4>1, <4>2
    <3> QED BY <3>1, <3>2, <3>3 DEF OneSessionPerChallenge
  <2> QED BY <2>10, <2>11, <2>12, <2>13 DEF ChallengeInv
<1>4. QED
  BY <1>2, <1>3

\* Every step keeps ChallengeInv.
LEMMA ChallengeStep ==
  ASSUME TypeInv, TypeInv', ChallengeInv, Next
  PROVE  ChallengeInv'
<1>1. now \in Nat /\ now' \in Nat
  BY DEF TypeInv
<1>2. ASSUME NEW w \in Wallets, DrawnElsewhere(w)
      PROVE  ChallengeInv'
  <2>1. Drawn(w) /\ UNCHANGED <<now, verifying, grants>>
    BY <1>2 DEF DrawnElsewhere
  <2>2. \A n \in Nonces \ {drawn'} : signed'[n] = signed[n]
    BY <1>2 DEF DrawnElsewhere, TypeInv
  <2> QED BY <2>1, <2>2, DrawnChallenge
<1>3. CASE Challenged
  <2>1. signing.wallet \in Wallets
    BY <1>3 DEF Challenged, TypeInv, Idle, Asking, WithNonce
  <2> QED BY <1>3, <2>1, DrawnChallenge DEF Challenged
<1>4. ASSUME NEW n \in Nonces, NEW asker \in {"tab", "other"}, Look(n, asker), UNCHANGED now
      PROVE  ChallengeInv'
  <2>1. \A v \in verifying' : \/ v \in verifying
                              \/ /\ v.nonce = n /\ v.at = now
                                 /\ challenges[n] # NoChallenge /\ challenges[n].wallet \in signed[n]
    BY <1>4 DEF Look
  <2> QED BY <1>1, <1>4, <2>1, QuietChallenge DEF Look
<1>5. ASSUME NEW n \in Nonces, LookElsewhere(n)
      PROVE  ChallengeInv'
  BY <1>4, <1>5 DEF LookElsewhere
<1>6. CASE LookTab
  <2>1. signing.nonce \in Nonces /\ UNCHANGED now
    BY <1>6 DEF LookTab, TypeInv, Idle, Asking, WithNonce
  <2>2. CASE UNCHANGED gatewayVars
    BY <1>1, <2>1, <2>2, QuietChallenge DEF gatewayVars
  <2> QED BY <1>4, <1>6, <2>1, <2>2 DEF LookTab
<1>7. ASSUME NEW v \in verifying, Burn(v) \/ BurnFails(v)
      PROVE  ChallengeInv'
  BY <1>1, <1>7, BurnChallenge, QuietChallenge DEF BurnFails
<1>8. CASE Signed
  <2>1. signing.nonce \in Nonces
    BY <1>8 DEF Signed, TypeInv, Idle, Asking, WithNonce
  <2>2. \A n \in Nonces : signed[n] \subseteq signed'[n]
    BY <1>8, <2>1 DEF Signed, TypeInv
  <2> QED BY <1>1, <1>8, <2>2, QuietChallenge DEF Signed
<1>9. CASE Tick
  BY <1>1, <1>9, QuietChallenge DEF Tick, gatewayVars
<1>10. CASE \/ \E w \in Wallets : SignInStarts(w)
            \/ \E w \in Wallets \cup {NoWallet} : AccountChanges(w)
            \/ SignInFails \/ Granted \/ SignOut \/ TimerFires \/ Refused \/ Reload
            \/ Ask \/ Serve \/ Show \/ ReadFails
  <2>1. UNCHANGED <<now, gatewayVars>>
    BY <1>10 DEF SignInStarts, AccountChanges, SignInFails, Granted, SignOut, TimerFires, Refused,
                 LeaveWhen, Reload, Ask, Serve, Show, ReadFails
  <2> QED BY <1>1, <2>1, QuietChallenge DEF gatewayVars
<1>11. QED
  BY <1>2, <1>3, <1>5, <1>6, <1>7, <1>8, <1>9, <1>10 DEF Next

\* ChallengeInv holds in every reachable state.
LEMMA ChallengeInvariant == Spec => []ChallengeInv
<1>1. Init => ChallengeInv
  BY SignInAssumption DEF Init, ChallengeInv, OneSessionPerChallenge
<1>2. TypeInv /\ TypeInv' /\ ChallengeInv /\ [Next]_vars => ChallengeInv'
  <2> SUFFICES ASSUME TypeInv, TypeInv', ChallengeInv, [Next]_vars PROVE ChallengeInv'
    OBVIOUS
  <2>1. CASE UNCHANGED vars
    BY <2>1, QuietChallenge DEF vars, gatewayVars, TypeInv
  <2> QED BY <2>1, ChallengeStep
<1>3. QED
  BY <1>1, <1>2, TypeInvariant, PTL DEF Spec

(***************************************************************************)
(* One challenge opens one session, for the wallet that signed it and      *)
(* before it expired, however many verifications of it race and fail, and  *)
(* a challenge is used exactly when its session was issued (auth.ts).      *)
(***************************************************************************)
THEOREM ChallengeOpensOne == Spec => []OneSessionPerChallenge
<1>1. ChallengeInv => OneSessionPerChallenge
  BY DEF ChallengeInv
<1>2. QED
  BY <1>1, ChallengeInvariant, PTL

-----------------------------------------------------------------------------

\* The terms of the sessions issued stay what they are.
LEMMA TermsStay ==
  ASSUME TypeInv, Next
  PROVE  /\ DOMAIN grants \subseteq DOMAIN grants'
         /\ \A t \in DOMAIN grants : grants'[t] = grants[t] /\ Expiry(t) \in Nat
<1>1. ASSUME NEW t \in DOMAIN grants PROVE Expiry(t) \in Nat
  <2>1. grants[t] \in SessionRows
    BY DEF TypeInv
  <2> QED BY <2>1, SignInAssumption DEF SessionRows, Expiry
<1>2. UNCHANGED grants \/ \E v \in verifying : Burn(v) /\ Burnable(v)
  BY DEF Next, DrawnElsewhere, SignInStarts, AccountChanges, LookElsewhere, Look, Burn, BurnFails,
         Challenged, Signed, LookTab, SignInFails, Granted, SignOut, TimerFires, Refused, LeaveWhen,
         Reload, Ask, Serve, Show, ReadFails, Tick, gatewayVars
<1>3. ASSUME NEW v \in verifying, Burn(v), Burnable(v)
      PROVE  /\ DOMAIN grants \subseteq DOMAIN grants'
             /\ \A t \in DOMAIN grants : grants'[t] = grants[t]
  <2>1. v.nonce \in Nonces /\ v.at \in Nat
    BY DEF TypeInv
  <2>2. challenges[v.nonce] \in ChallengeRows
    BY <1>3, <2>1 DEF Burnable, TypeInv
  <2>3. SessionRow(v) \in SessionRows
    BY <2>1, <2>2, RowTypes DEF SessionRow, SessionRows
  <2>4. grants' = Append(grants, SessionRow(v))
    BY <1>3 DEF Burn
  <2> QED BY <2>3, <2>4, GrantAdded
<1>4. QED
  BY <1>1, <1>2, <1>3

\* Only the transaction of a sign-in takes sessions away, and only expired ones.
LEMMA LastStep ==
  ASSUME TypeInv, TypeInv', ChallengeInv, SessionLasts, Next
  PROVE  SessionLasts'
<1>1. now \in Nat /\ now' \in Nat /\ now <= now'
  <2>1. now \in Nat
    BY DEF TypeInv
  <2>2. UNCHANGED now \/ Tick
    BY DEF Next, DrawnElsewhere, SignInStarts, AccountChanges, LookElsewhere, Burn, BurnFails,
           Challenged, Signed, LookTab, SignInFails, Granted, SignOut, TimerFires, Refused, LeaveWhen,
           Reload, Ask, Serve, Show, ReadFails
  <2> QED BY <2>1, <2>2 DEF Tick
<1>2. \A t \in DOMAIN grants : /\ Expiry(t)' = Expiry(t) /\ Expiry(t) \in Nat
                              /\ grants'[t].at + SessionTtl = Expiry(t)
  BY TermsStay DEF Expiry
<1>3. \A t \in DOMAIN grants' : now' < Expiry(t)' => t \in sessions'
  <2>1. CASE UNCHANGED <<grants, sessions>>
    BY <1>1, <1>2, <2>1 DEF SessionLasts
  <2>2. ASSUME NEW v \in verifying, Burn(v), Burnable(v)
        PROVE  \A t \in DOMAIN grants' : now' < Expiry(t)' => t \in sessions'
    <3>1. /\ v.nonce \in Nonces /\ v.at \in Nat /\ v.at <= now
          /\ sessions' = Surviving(v) \cup {Len(grants')} /\ grants' = Append(grants, SessionRow(v))
      BY <2>2 DEF TypeInv, ChallengeInv, Burn
    <3>2. challenges[v.nonce] \in ChallengeRows
      BY <2>2, <3>1 DEF Burnable, TypeInv
    <3>3. SessionRow(v) \in SessionRows
      BY <3>1, <3>2, RowTypes DEF SessionRow, SessionRows
    <3>4. DOMAIN grants' = DOMAIN grants \cup {Len(grants')}
      BY <3>1, <3>3, GrantAdded
    <3>5. \A t \in DOMAIN grants : now' < Expiry(t) => t \in Surviving(v)
      BY <1>1, <1>2, <3>1 DEF SessionLasts, Surviving
    <3> QED BY <1>2, <3>1, <3>4, <3>5
  <2>3. UNCHANGED <<grants, sessions>> \/ \E v \in verifying : Burn(v) /\ Burnable(v)
    BY DEF Next, DrawnElsewhere, SignInStarts, AccountChanges, LookElsewhere, Look, Burn, BurnFails,
           Challenged, Signed, LookTab, SignInFails, Granted, SignOut, TimerFires, Refused, LeaveWhen,
           Reload, Ask, Serve, Show, ReadFails, Tick, gatewayVars
  <2> QED BY <2>1, <2>2, <2>3
<1>4. read'.state = "refused" => now' >= grants'[read'.token].at + SessionTtl
  <2>1. CASE UNCHANGED read
    <3>1. read.state = "refused" => read.token \in DOMAIN grants
      BY DEF TypeInv, NoRead
    <3> QED BY <1>1, <1>2, <2>1, <3>1 DEF SessionLasts
  <2>2. CASE read' = NoRead \/ Ask
    BY <2>2 DEF NoRead, Ask
  <2>3. CASE Serve
    <3>1. read.token \in DOMAIN grants
      BY <2>3 DEF Serve, TypeInv, NoRead
    <3>2. /\ read'.token = read.token
          /\ read'.state = "refused" => ~ (read.token \in sessions /\ Expiry(read.token) > now)
      BY <2>3 DEF Serve, TypeInv, NoRead
    <3> QED BY <1>1, <1>2, <2>3, <3>1, <3>2 DEF SessionLasts
  <2>4. UNCHANGED read \/ read' = NoRead \/ Ask \/ Serve
    BY DEF Next, DrawnElsewhere, SignInStarts, AccountChanges, LookElsewhere, Burn, BurnFails,
           Challenged, Signed, LookTab, SignInFails, Granted, SignOut, TimerFires, Refused, LeaveWhen,
           SignedOut, Reload, Show, ReadFails, Tick, tabVars
  <2> QED BY <2>1, <2>2, <2>3, <2>4
<1>5. QED
  BY <1>3, <1>4 DEF SessionLasts, Expiry

(***************************************************************************)
(* A session lasts its whole term, whoever signs in meanwhile and as whom, *)
(* so that an answer of 401 means the term is over (sessions.ts).          *)
(***************************************************************************)
THEOREM SessionsLast == Spec => []SessionLasts
<1>1. Init => SessionLasts
  BY DEF Init, SessionLasts, NoRead
<1>2. TypeInv /\ TypeInv' /\ ChallengeInv /\ SessionLasts /\ [Next]_vars => SessionLasts'
  <2> SUFFICES ASSUME TypeInv, TypeInv', ChallengeInv, SessionLasts, [Next]_vars PROVE SessionLasts'
    OBVIOUS
  <2>1. CASE UNCHANGED vars
    BY <2>1 DEF vars, gatewayVars, tabVars, SessionLasts, Expiry
  <2> QED BY <2>1, LastStep
<1>3. QED
  BY <1>1, <1>2, TypeInvariant, ChallengeInvariant, PTL DEF Spec

-----------------------------------------------------------------------------

\* A step that leaves the session, the account and the screen alone, and does not start to
\* read or to sign in.
LEMMA QuietTab ==
  ASSUME TypeInv, TabInv, Next, UNCHANGED <<connected, session, screen>>,
         signing # Idle \/ signing' = Idle,
         read' = NoRead \/ (read # NoRead /\ read'.token = read.token)
  PROVE  TabInv'
<1>1. session # 0 => grants'[session] = grants[session]
  BY TermsStay DEF TypeInv
<1>2. QED
  BY <1>1 DEF TabInv, ScreenIsTheirs

\* Every step keeps TabInv.
LEMMA TabStep ==
  ASSUME TypeInv, TypeInv', TabInv, Next
  PROVE  TabInv'
<1>1. ASSUME NEW v \in verifying, Burn(v) \/ BurnFails(v)
      PROVE  TabInv'
  <2>1. signing' = signing \/ signing # Idle
    BY <1>1 DEF Burn, BurnFails, Answered, Idle, tabVars
  <2>2. UNCHANGED <<connected, session, screen, read>>
    BY <1>1 DEF Burn, BurnFails, tabVars
  <2> QED BY <2>1, <2>2, QuietTab DEF TabInv, NoRead
<1>2. CASE \/ \E w \in Wallets : DrawnElsewhere(w)
           \/ \E n \in Nonces : LookElsewhere(n)
           \/ Tick
  <2>1. UNCHANGED tabVars
    BY <1>2 DEF DrawnElsewhere, LookElsewhere, Tick
  <2> QED BY <2>1, QuietTab DEF tabVars
<1>3. ASSUME NEW w \in Wallets, SignInStarts(w)
      PROVE  TabInv'
  <2>1. session' = 0 /\ UNCHANGED <<session, screen, read>>
    BY <1>3 DEF SignInStarts
  <2> QED BY <2>1 DEF TabInv, ScreenIsTheirs
<1>4. CASE Challenged \/ Signed \/ LookTab \/ SignInFails
  <2>1. signing # Idle /\ UNCHANGED <<connected, session, screen, read>>
    BY <1>4 DEF Challenged, Signed, LookTab, SignInFails, Idle
  <2> QED BY <2>1, QuietTab
<1>5. CASE Granted
  <2>1. session = 0 /\ screen = NoWallet /\ read = NoRead /\ signing' = Idle /\ UNCHANGED grants
    BY <1>5 DEF Granted, Idle, TabInv, ScreenIsTheirs, gatewayVars
  <2>2. PICK token \in DOMAIN grants :
          IF Ended(token, connected)
          THEN SignedOut /\ Disconnected(connected)
          ELSE session' = token /\ stored' \in {token, stored} /\ UNCHANGED <<connected, read, screen>>
    BY <1>5 DEF Granted
  <2>3. CASE Ended(token, connected)
    BY <2>1, <2>2, <2>3 DEF SignedOut, TabInv, ScreenIsTheirs
  <2>4. CASE ~ Ended(token, connected)
    BY <2>1, <2>2, <2>4 DEF Ended, TabInv, ScreenIsTheirs
  <2> QED BY <2>3, <2>4
<1>6. ASSUME NEW w \in Wallets \cup {NoWallet}, AccountChanges(w)
      PROVE  TabInv'
  <2>1. UNCHANGED <<grants, signing>>
    BY <1>6 DEF AccountChanges, gatewayVars
  <2>2. CASE session # 0 /\ Ended(session, w)
    BY <1>6, <2>1, <2>2 DEF AccountChanges, SignedOut, TabInv, ScreenIsTheirs
  <2>3. CASE ~ (session # 0 /\ Ended(session, w))
    BY <1>6, <2>1, <2>3 DEF AccountChanges, Ended, TabInv, ScreenIsTheirs
  <2> QED BY <2>2, <2>3
<1>7. CASE SignOut \/ TimerFires \/ Refused
  BY <1>7 DEF SignOut, TimerFires, Refused, LeaveWhen, SignedOut, TabInv, ScreenIsTheirs
<1>8. CASE Reload
  BY <1>8 DEF Reload, TabInv, ScreenIsTheirs
<1>9. CASE Ask
  <2>1. UNCHANGED <<grants, connected, signing, session, screen>> /\ session # 0
        /\ read'.token = session
    BY <1>9 DEF Ask, gatewayVars
  <2> QED BY <2>1 DEF TabInv, ScreenIsTheirs
<1>10. CASE Serve
  <2>1. read \in [state : {"asked", "served", "refused"}, token : DOMAIN grants]
    BY <1>10 DEF Serve, TypeInv, NoRead
  <2>2. read # NoRead /\ read'.token = read.token
    BY <1>10, <2>1 DEF Serve, NoRead
  <2> QED BY <1>10, <2>2, QuietTab DEF Serve, TabInv
<1>11. CASE Show
  <2>1. /\ read # NoRead /\ read' = NoRead /\ screen' = grants[read.token].wallet
        /\ UNCHANGED <<grants, connected, signing, session>>
    BY <1>11 DEF Show, NoRead, gatewayVars
  <2> QED BY <2>1 DEF TabInv, ScreenIsTheirs
<1>12. CASE ReadFails
  BY <1>12, QuietTab DEF ReadFails, TabInv
<1>13. QED
  BY <1>1, <1>2, <1>3, <1>4, <1>5, <1>6, <1>7, <1>8, <1>9, <1>10, <1>11, <1>12 DEF Next

(***************************************************************************)
(* Whatever the extension's account, the storage, the timer and late       *)
(* answers do, the screen never shows a wallet's data over another session *)
(* or another account (SessionProvider's sessionEnd and signOut).          *)
(***************************************************************************)
THEOREM ScreenIsOwn == Spec => []ScreenIsTheirs
<1>1. Init => TabInv
  BY DEF Init, TabInv, ScreenIsTheirs
<1>2. TypeInv /\ TypeInv' /\ TabInv /\ [Next]_vars => TabInv'
  <2> SUFFICES ASSUME TypeInv, TypeInv', TabInv, [Next]_vars PROVE TabInv'
    OBVIOUS
  <2>1. CASE UNCHANGED vars
    BY <2>1 DEF vars, gatewayVars, tabVars, TabInv, ScreenIsTheirs
  <2> QED BY <2>1, TabStep
<1>3. TabInv => ScreenIsTheirs
  BY DEF TabInv
<1>4. QED
  BY <1>1, <1>2, <1>3, TypeInvariant, PTL DEF Spec

-----------------------------------------------------------------------------
(* The live feed: where every receipt, and every settlement, is.           *)

\* How a receipt stands once it is issued.
Standings == {"accrued", "settled"}

\* Events: of a receipt, looked up, and of a settlement.
ReceiptEvents == [kind : {"receipt"}, receipt : Receipts, standing : Standings]

SettlementEvents == [kind : {"settlement"}, receipt : Receipts, standing : {"settled"}]

\* A receipt that is still to be looked up.
Unread == [kind : {"receipt"}, receipt : Receipts, standing : {"unread"}]

\* What tells the browser to read its first page.
Signals == [kind : {"ready", "resync"}]

Events == ReceiptEvents \cup SettlementEvents \cup Signals

\* What listReceipts answers.
Pages == [items : UNION {[S -> Standings] : S \in SUBSET Receipts}, next : Nat]

\* A request that was made but not read yet, and one whose answer is on its way.
Requested == [from : Nat \ {0}, read : {FALSE}]

ReadPages == [from : Nat \ {0}, read : {TRUE}, passed : BOOLEAN, page : Pages]

\* The types of the whole state.
FeedTypes ==
  /\ db \in [Receipts -> {"none"} \cup Standings]
  /\ listener \in {"none", "live", "deaf"} /\ missed \in BOOLEAN /\ notes \in SUBSET Receipts
  /\ lookups \in SUBSET (ReceiptEvents \cup SettlementEvents \cup Unread)
  /\ link \in {"down", "open"}
  /\ queue \in Seq(Events)
  /\ pages \in [Requests -> {NoPage} \cup Requested \cup ReadPages]
  /\ rows \in [Receipts -> {"hidden"} \cup Standings]
  /\ cursor \in Nat /\ loaded \in BOOLEAN
  /\ excused \in SUBSET Receipts /\ crossed \in BOOLEAN

\* Events that the browser has not seen: behind a lookup, or on the stream.
OnTheWay == lookups \cup Range(queue)

\* An event that says no more than the tables do.
IsTrue(e) ==
  e.kind \in {"receipt", "settlement"} =>
    db[e.receipt] # "none" /\ (e.standing = "settled" => db[e.receipt] = "settled")

\* Nothing runs ahead of the tables.
NothingAhead ==
  /\ \A r \in Receipts :
       /\ rows[r] # "hidden" => db[r] # "none"
       /\ rows[r] = "settled" => db[r] = "settled"
  /\ \A r \in notes : db[r] = "settled"
  /\ \A e \in OnTheWay : IsTrue(e)

\* A request whose answer is on its way, and the rows in that answer.
IsRead(q) == pages[q] # NoPage /\ pages[q].read

Items(q) == pages[q].page.items

InPage(q, r) == r \in DOMAIN Items(q)

\* The answer speaks of the receipts from its last one up to where it was asked to start.
Reaches(q, r) == pages[q].page.next <= r /\ r < pages[q].from

\* A first page is of the stream that is open and starts at the top; an answer holds receipts
\* that are in the tables, down to its last one, and none ahead of the tables.
PagesFit ==
  \A q \in Requests :
    /\ q \in Snapshots /\ pages[q] # NoPage => link = "open" /\ pages[q].from = N + 1
    /\ IsRead(q) =>
         /\ \A r \in DOMAIN Items(q) :
              /\ Reaches(q, r) /\ db[r] # "none"
              /\ Items(q)[r] = "settled" => db[r] = "settled"
         /\ pages[q].page.next # 0 => pages[q].page.next \in DOMAIN Items(q)

\* A stream that is down carries nothing.
DownIsEmpty == link = "down" => queue = << >>

\* The stream tells the browser to read again.
RereadDue == \E e \in Range(queue) : e.kind \in {"ready", "resync"}

\* The session has lost settlements, or will say so when it subscribes.
ResyncDue == listener = "deaf" \/ (listener = "none" /\ missed)

\* A first page is due: the screen as it is now will be replaced.
Reloading == RereadDue \/ \E q \in Snapshots : pages[q] # NoPage

\* An event of the receipt itself is on its way.
Heralded(r) == \E e \in OnTheWay : e.kind = "receipt" /\ e.receipt = r

\* The receipt is on the screen, or on its way there, or was lost for a known reason.
Accounted(r) == rows[r] # "hidden" \/ r \in excused \/ Heralded(r)

\* The receipt's settlement is on its way.
Announced(r) == r \in notes \/ \E e \in OnTheWay : e.kind = "settlement" /\ e.receipt = r

\* Its settlement is on its way, or was lost for a known reason.
Explained(r) == r \in excused \/ Announced(r)

\* An event on its way says accrued of the receipt, and will put such a row on the screen.
StaleEvent(r) == \E e \in OnTheWay : e.kind = "receipt" /\ e.receipt = r /\ e.standing = "accrued"

\* The tables have the receipt settled; the screen says accrued, or is about to.
Late(r) == db[r] = "settled" /\ (rows[r] = "accrued" \/ (rows[r] = "hidden" /\ StaleEvent(r)))

\* So is the answer to a request, and the screen has not overtaken it.
LateItem(q, r) ==
  InPage(q, r) /\ Items(q)[r] = "accrued" /\ db[r] = "settled" /\ rows[r] # "settled"

\* The stream is open and no first page is due: the screen is all there will be.
Current == link = "open" /\ ~Reloading

(***************************************************************************)
(* The account of the screen.  While no first page is due, whatever is at  *)
(* or above the cursor is accounted for; and while no resync is due, what  *)
(* is late on the screen is explained.                                     *)
(***************************************************************************)
OnScreen ==
  Current /\ loaded /\ ~crossed =>
    /\ \A r \in Receipts : db[r] # "none" /\ r >= cursor => Accounted(r)
    /\ ~ResyncDue =>
         \A r \in Receipts : Late(r) /\ (rows[r] = "accrued" \/ r >= cursor) => Explained(r)

(***************************************************************************)
(* The same of an older page that was read and has not arrived: once it is *)
(* merged its receipts are part of the screen.  What the tables got below  *)
(* the cursor since the read must be accounted for by an event, and a      *)
(* settlement that the page does not have yet must be explained.           *)
(***************************************************************************)
OlderInStep ==
  IsRead(Older) /\ ~pages[Older].passed /\ Current =>
    /\ \A r \in Receipts : db[r] # "none" /\ Reaches(Older, r) => InPage(Older, r) \/ Accounted(r)
    /\ ~ResyncDue =>
         \A r \in Receipts :
           /\ LateItem(Older, r) => Explained(r)
           /\ Late(r) /\ rows[r] = "hidden" /\ Reaches(Older, r) /\ ~InPage(Older, r) => Explained(r)

\* After this first page no other is due.
LastReload(q) ==
  /\ ~RereadDue /\ ~ResyncDue
  /\ \A p \in Snapshots \ {q} : pages[p] = NoPage

(***************************************************************************)
(* And of a first page: it takes the screen's place, so what it does not   *)
(* hold must be accounted for without it.  If it is the last that is due,  *)
(* the settlements it does not have are explained, those that the screen   *)
(* shows beside it, and those of an older page that may yet be merged      *)
(* before it.                                                              *)
(***************************************************************************)
SnapshotInStep ==
  \A q \in Snapshots :
    IsRead(q) /\ ~pages[q].passed =>
      /\ \A r \in Receipts : db[r] # "none" /\ Reaches(q, r) => InPage(q, r) \/ Accounted(r)
      /\ LastReload(q) =>
           \A r \in Receipts :
             /\ LateItem(q, r) => Explained(r)
             /\ Reaches(q, r) /\ ~InPage(q, r) =>
                  /\ Late(r) => Explained(r)
                  /\ IsRead(Older) /\ LateItem(Older, r) => Explained(r)

\* The account of the live feed.
FeedInv ==
  /\ FeedTypes
  /\ NothingAhead
  /\ PagesFit
  /\ DownIsEmpty
  /\ OnScreen
  /\ OlderInStep
  /\ SnapshotInStep

-----------------------------------------------------------------------------
(* One page of the feed.                                                   *)

\* Among natural numbers there is a least one, and Min is it.
LEMMA MinIsLeast ==
  ASSUME NEW S \in SUBSET Nat, S # {}
  PROVE  Min(S) \in S /\ \A k \in S : Min(S) <= k
<1>1. PICK m \in S : \A k \in S : ~ (<<k, m>> \in OpToRel(<, Nat))
  BY NatLessThanWellFounded, WFMin
<1>2. \A k \in S : ~ (k < m)
  BY <1>1 DEF OpToRel
<1>3. \A k \in S : m <= k
  BY <1>2
<1>4. QED
  BY <1>3 DEF Min

\* Of some receipts one is the newest.
LEMMA NewestIs ==
  ASSUME NEW S \in SUBSET Receipts, S # {}
  PROVE  \E m \in S : \A k \in S : k <= m
<1>1. N \in Nat /\ \A r \in S : r \in Nat /\ N - r \in Nat
  BY FeedAssumption DEF Receipts
<1>2. PICK D : D = {N - r : r \in S}
  OBVIOUS
<1>3. D \in SUBSET Nat /\ D # {}
  BY <1>1, <1>2
<1>4. Min(D) \in D /\ \A k \in D : Min(D) <= k
  BY <1>3, MinIsLeast
<1>5. PICK m \in S : Min(D) = N - m
  BY <1>2, <1>4
<1>6. \A k \in S : N - m <= N - k
  BY <1>2, <1>4, <1>5
<1>7. QED
  BY <1>1, <1>6

\* listReceipts: the page holds the tables' rows from its last one up, all of them.
LEMMA ListedPage ==
  ASSUME db \in [Receipts -> {"none"} \cup Standings], NEW from \in Nat, NEW page, page = Listed(from)
  PROVE  /\ page \in Pages
         /\ \A r \in DOMAIN page.items :
              r < from /\ page.next <= r /\ page.items[r] = db[r] /\ db[r] # "none"
         /\ page.next # 0 => page.next \in DOMAIN page.items
         /\ \A r \in Receipts :
              db[r] # "none" /\ page.next <= r /\ r < from => r \in DOMAIN page.items
<1> DEFINE below == {r \in Receipts : r < from /\ db[r] # "none"}
           newer(r) == {s \in below : s > r}
           items == {r \in below : Cardinality(newer(r)) < PageSize}
<1>1. page = [items |-> [r \in items |-> db[r]], next |-> IF items = below THEN 0 ELSE Min(items)]
  BY DEF Listed
<1>2. /\ N \in Nat /\ Receipts \subseteq Nat /\ PageSize \in Nat \ {0}
      /\ IsFiniteSet(Receipts)
  BY FeedAssumption, FS_Interval DEF Receipts
<1>3. \A r \in Receipts : IsFiniteSet(newer(r)) /\ Cardinality(newer(r)) \in Nat
  <2> SUFFICES ASSUME NEW r \in Receipts PROVE IsFiniteSet(newer(r)) /\ Cardinality(newer(r)) \in Nat
    OBVIOUS
  <2>1. newer(r) \subseteq Receipts
    OBVIOUS
  <2> QED BY <1>2, <2>1, FS_Subset, FS_CardinalityType
<1>4. ASSUME below # {}
      PROVE  items # {}
  <2>1. PICK m \in below : \A k \in below : k <= m
    BY <1>4, NewestIs
  <2>2. newer(m) = {}
    <3>1. m \in Nat /\ \A s \in below : s \in Nat /\ s <= m
      BY <1>2, <2>1
    <3> HIDE DEF below
    <3>2. \A s \in below : ~ (s > m)
      BY <3>1
    <3> QED BY <3>2
  <2>3. Cardinality(newer(m)) = 0
    BY <2>2, FS_EmptySet
  <2>4. m \in items
    BY <1>2, <2>3
  <2> QED BY <2>4
<1>5. ASSUME items # below
      PROVE  Min(items) \in items /\ \A k \in items : Min(items) <= k
  <2>1. items \in SUBSET Nat /\ items # {}
    BY <1>2, <1>4, <1>5
  <2> HIDE DEF items
  <2> QED BY <2>1, MinIsLeast
<1>6. ASSUME items # below, NEW r \in below, Min(items) <= r
      PROVE  r \in items
  <2>1. PICK m : m = Min(items)
    OBVIOUS
  <2>2. m \in below /\ Cardinality(newer(m)) < PageSize /\ m <= r
    BY <1>5, <1>6, <2>1
  <2>3. newer(r) \subseteq newer(m)
    <3>1. m \in Nat /\ r \in Nat /\ \A s \in below : s \in Nat
      BY <1>2, <1>6, <2>2
    <3> HIDE DEF below
    <3>2. \A s \in below : s > r => s > m
      BY <2>2, <3>1
    <3> QED BY <3>2
  <2>4. Cardinality(newer(r)) <= Cardinality(newer(m))
    BY <1>3, <2>2, <2>3, FS_Subset
  <2> QED BY <1>2, <1>3, <2>2, <2>4
<1>7. \A r \in items : r \in Receipts /\ r < from /\ db[r] # "none" /\ db[r] \in Standings
  OBVIOUS
<1>8. [r \in items |-> db[r]] \in UNION {[S -> Standings] : S \in SUBSET Receipts}
  <2>1. items \in SUBSET Receipts
    BY <1>7
  <2>2. [r \in items |-> db[r]] \in [items -> Standings]
    BY <1>7
  <2> HIDE DEF items
  <2> QED BY <2>1, <2>2
<1>9. \A r \in Receipts : db[r] # "none" /\ r < from => r \in below
  OBVIOUS
<1>10. 0 \notin items
  BY <1>7 DEF Receipts
<1>11. CASE items = below
  <2> HIDE DEF items, below
  <2>1. page = [items |-> [r \in items |-> db[r]], next |-> 0]
    BY <1>1, <1>11
  <2>2. page \in Pages
    BY <1>8, <2>1 DEF Pages
  <2>3. \A r \in items : page.next <= r
    <3>1. page.next = 0
      BY <2>1
    <3>2. \A r \in items : r \in Nat
      BY <1>2, <1>7
    <3> QED BY <3>1, <3>2
  <2> QED BY <1>7, <1>9, <1>11, <2>1, <2>2, <2>3
<1>12. CASE items # below
  <2> HIDE DEF items, below
  <2>1. page.next = Min(items) /\ DOMAIN page.items = items
    BY <1>1, <1>12
  <2>2. Min(items) \in Nat
    BY <1>2, <1>5, <1>7, <1>12
  <2> QED BY <1>1, <1>2, <1>5, <1>6, <1>7, <1>8, <1>9, <1>12, <2>1, <2>2 DEF Pages
<1>13. QED
  BY <1>11, <1>12

-----------------------------------------------------------------------------
(* Events on a stream, and what a request is.                              *)

\* One event more on the stream.
LEMMA Appended ==
  ASSUME NEW T, NEW s \in Seq(T), NEW e \in T
  PROVE  Append(s, e) \in Seq(T) /\ Range(Append(s, e)) = Range(s) \cup {e}
<1>1. /\ Append(s, e) \in Seq(T) /\ Len(s) \in Nat
      /\ DOMAIN s = 1..Len(s) /\ DOMAIN Append(s, e) = 1..Len(s) + 1
      /\ Append(s, e)[Len(s) + 1] = e /\ \A i \in 1..Len(s) : Append(s, e)[i] = s[i]
  OBVIOUS
<1>2. 1..Len(s) + 1 = 1..Len(s) \cup {Len(s) + 1}
  BY <1>1
<1>3. QED
  <2>1. PICK a : a = Append(s, e)
    OBVIOUS
  <2> QED BY <1>1, <1>2, <2>1 DEF Range

\* The first event is taken off it.
LEMMA TakenOff ==
  ASSUME NEW T, NEW s \in Seq(T), s # << >>
  PROVE  Head(s) \in T /\ Tail(s) \in Seq(T) /\ Range(s) = Range(Tail(s)) \cup {Head(s)}
<1>1. /\ Len(s) \in Nat /\ Len(s) >= 1 /\ Head(s) = s[1] /\ s[1] \in T /\ Tail(s) \in Seq(T)
      /\ DOMAIN s = 1..Len(s) /\ DOMAIN Tail(s) = 1..Len(s) - 1
      /\ \A i \in 1..Len(s) - 1 : Tail(s)[i] = s[i + 1]
  OBVIOUS
<1>2. PICK t : t = Tail(s)
  OBVIOUS
<1>3. \A i \in 1..Len(s) - 1 : i + 1 \in 1..Len(s)
  BY <1>1
<1>4. \A i \in 1..Len(s) : i = 1 \/ (i - 1 \in 1..Len(s) - 1 /\ s[i] = t[i - 1])
  BY <1>1, <1>2
<1>5. 1 \in 1..Len(s)
  BY <1>1
<1>6. Range(t) \subseteq Range(s) /\ s[1] \in Range(s)
  BY <1>1, <1>2, <1>3, <1>5 DEF Range
<1>7. Range(s) \subseteq Range(t) \cup {s[1]}
  <2>1. ASSUME NEW i \in 1..Len(s)
        PROVE  s[i] \in Range(t) \cup {s[1]}
    <3>1. i = 1 \/ (i - 1 \in DOMAIN t /\ s[i] = t[i - 1])
      BY <1>1, <1>2, <1>4
    <3> QED BY <3>1 DEF Range
  <2> QED BY <1>1, <2>1 DEF Range
<1>8. QED
  BY <1>1, <1>2, <1>6, <1>7

\* An empty stream has no events.
LEMMA NoEvents == Range(<< >>) = {} /\ \A T : << >> \in Seq(T)
  BY DEF Range

\* The kinds of events.
LEMMA EventKinds ==
  /\ \A e \in Events :
       /\ e.kind \in {"receipt", "settlement", "ready", "resync"}
       /\ e.kind = "receipt" => e \in ReceiptEvents
       /\ e.kind = "settlement" => e \in SettlementEvents
  /\ \A e \in ReceiptEvents \cup SettlementEvents \cup Unread :
       /\ e.kind \in {"receipt", "settlement"} /\ e.receipt \in Receipts
       /\ e.kind = "settlement" => e.standing = "settled"
       /\ e.standing = "unread" => e \in Unread /\ e.kind = "receipt"
       /\ e.standing # "unread" => e \in Events
  BY DEF Events, ReceiptEvents, SettlementEvents, Signals, Unread, Standings

\* What is looked up or on the stream.
LEMMA OnTheWayTypes ==
  ASSUME FeedTypes
  PROVE  /\ \A e \in Range(queue) : e \in Events
         /\ \A e \in OnTheWay : e \in Events \cup Unread
         /\ \A e \in lookups : e \in ReceiptEvents \cup SettlementEvents \cup Unread
<1>1. \A i \in DOMAIN queue : queue[i] \in Events
  BY DEF FeedTypes
<1>2. \A e \in Range(queue) : e \in Events
  BY <1>1 DEF Range
<1>3. \A e \in lookups : e \in ReceiptEvents \cup SettlementEvents \cup Unread
  BY DEF FeedTypes
<1>4. QED
  BY <1>2, <1>3 DEF OnTheWay, Events

\* The states of a request.
LEMMA PageKinds ==
  ASSUME FeedTypes, NEW q \in Requests
  PROVE  /\ NoPage \notin Requested \cup ReadPages
         /\ pages[q] = NoPage \/ pages[q] \in Requested \/ pages[q] \in ReadPages
         /\ IsRead(q) <=> pages[q] \in ReadPages
         /\ IsRead(q) =>
              /\ pages[q].from \in Nat /\ pages[q].passed \in BOOLEAN
              /\ pages[q].page \in Pages /\ pages[q].page.next \in Nat
              /\ DOMAIN Items(q) \in SUBSET Receipts /\ Items(q) \in [DOMAIN Items(q) -> Standings]
<1>1. NoPage \notin Requested \cup ReadPages
  BY DEF NoPage, Requested, ReadPages
<1>2. pages[q] = NoPage \/ pages[q] \in Requested \/ pages[q] \in ReadPages
  BY DEF FeedTypes
<1>3. pages[q] \in Requested => ~ IsRead(q) /\ pages[q] \notin ReadPages
  BY DEF Requested, ReadPages, IsRead
<1>4. pages[q] \in ReadPages => IsRead(q)
  BY <1>1 DEF ReadPages, IsRead
<1>5. IsRead(q) <=> pages[q] \in ReadPages
  BY <1>1, <1>2, <1>3, <1>4 DEF IsRead
<1>6. ASSUME IsRead(q)
      PROVE  /\ pages[q].from \in Nat /\ pages[q].passed \in BOOLEAN
             /\ pages[q].page \in Pages /\ pages[q].page.next \in Nat
             /\ DOMAIN Items(q) \in SUBSET Receipts /\ Items(q) \in [DOMAIN Items(q) -> Standings]
  <2>1. pages[q].from \in Nat /\ pages[q].passed \in BOOLEAN /\ pages[q].page \in Pages
    BY <1>5, <1>6 DEF ReadPages
  <2>2. pages[q].page.next \in Nat /\ Items(q) \in UNION {[S -> Standings] : S \in SUBSET Receipts}
    BY <2>1 DEF Pages, Items
  <2>3. PICK S \in SUBSET Receipts : Items(q) \in [S -> Standings]
    BY <2>2
  <2> QED BY <2>1, <2>2, <2>3
<1>7. QED
  BY <1>1, <1>2, <1>5, <1>6

\* A page that is merged: what rows the screen has then.
LEMMA MergedRows ==
  ASSUME NEW shown \in [Receipts -> {"hidden"} \cup Standings], NEW page \in Pages
  PROVE  /\ Merged(shown, page.items) \in [Receipts -> {"hidden"} \cup Standings]
         /\ \A r \in Receipts :
              Merged(shown, page.items)[r] =
                IF r \in DOMAIN page.items /\ shown[r] # "settled" THEN page.items[r] ELSE shown[r]
<1>1. page.items \in UNION {[S -> Standings] : S \in SUBSET Receipts}
  BY DEF Pages
<1>2. PICK S \in SUBSET Receipts : page.items \in [S -> Standings]
  BY <1>1
<1>3. QED
  BY <1>2 DEF Merged

\* The rows that a first page leaves.
LEMMA KeptRows ==
  ASSUME NEW page \in Pages, rows \in [Receipts -> {"hidden"} \cup Standings]
  PROVE  /\ Kept(page) \in [Receipts -> {"hidden"} \cup Standings]
         /\ \A r \in Receipts :
              Kept(page)[r] = IF page.next = 0 \/ r > page.next THEN rows[r] ELSE "hidden"
  BY DEF Kept

\* What a snapshot does to the requests.
LEMMA PassedPages ==
  ASSUME FeedTypes, NEW q \in Requests,
         pages' = [p \in Requests |->
                 IF p = q THEN NoPage
                 ELSE IF pages[p] # NoPage /\ pages[p].read THEN [pages[p] EXCEPT !.passed = TRUE]
                 ELSE pages[p]]
  PROVE  /\ pages' \in [Requests -> {NoPage} \cup Requested \cup ReadPages]
         /\ pages'[q] = NoPage
         /\ \A p \in Requests \ {q} :
              /\ ~ IsRead(p) => pages'[p] = pages[p]
              /\ IsRead(p) => /\ pages'[p] \in ReadPages /\ pages'[p].passed
                              /\ pages'[p].from = pages[p].from /\ pages'[p].page = pages[p].page
<1>1. ASSUME NEW p \in Requests \ {q}
      PROVE  /\ ~ IsRead(p) => pages'[p] = pages[p]
             /\ IsRead(p) => /\ pages'[p] \in ReadPages /\ pages'[p].passed
                             /\ pages'[p].from = pages[p].from /\ pages'[p].page = pages[p].page
             /\ pages'[p] \in {NoPage} \cup Requested \cup ReadPages
  <2>1. CASE ~ IsRead(p)
    <3>1. pages'[p] = pages[p]
      BY <2>1 DEF IsRead
    <3> QED BY <2>1, <3>1, PageKinds
  <2>2. CASE IsRead(p)
    <3>1. pages'[p] = [pages[p] EXCEPT !.passed = TRUE] /\ pages[p] \in ReadPages
      BY <2>2, PageKinds DEF IsRead
    <3>2. PICK g : g = pages[p]
      OBVIOUS
    <3>3. pages'[p] = [g EXCEPT !.passed = TRUE] /\ g \in ReadPages
      BY <3>1, <3>2
    <3>4. /\ pages'[p] \in ReadPages /\ pages'[p].passed
          /\ pages'[p].from = g.from /\ pages'[p].page = g.page
      BY <3>3 DEF ReadPages
    <3> QED BY <2>2, <3>2, <3>4
  <2> QED BY <2>1, <2>2
<1>2. QED
  BY <1>1

\* The state keeps its types.
LEMMA FeedTypesKept ==
  ASSUME FeedTypes, NothingAhead, FeedNext
  PROVE  FeedTypes'
<1> USE DEF listenVars, screenVars
<1>1. ASSUME NEW r \in Receipts, Issue(r) PROVE FeedTypes'
  BY <1>1 DEF Issue, Looking, FeedTypes, Unread, Standings
<1>2. ASSUME NEW r \in Receipts, Settle(r) PROVE FeedTypes'
  BY <1>2 DEF Settle, FeedTypes, Standings
<1>3. ASSUME NEW r \in Receipts, Hear(r) PROVE FeedTypes'
  BY <1>3 DEF Hear, Looking, FeedTypes, SettlementEvents
<1>4. Resynced \in Seq(Events)
  <2>1. [kind |-> "resync"] \in Events /\ queue \in Seq(Events)
    BY DEF Events, Signals, FeedTypes
  <2> QED BY <2>1, Appended DEF Resynced
<1>5. CASE Connect \/ Resubscribe
  BY <1>4, <1>5 DEF Connect, Resubscribe, Listening, FeedTypes
<1>6. CASE ConnectFails \/ GoDeaf \/ EchoMissing
  BY <1>6 DEF ConnectFails, GoDeaf, EchoMissing, Fault, FeedTypes
<1>7. ASSUME NEW l \in lookups, LookUp(l) PROVE FeedTypes'
  <2>1. l \in Unread /\ l.receipt \in Receipts
    BY <1>7, OnTheWayTypes, EventKinds DEF LookUp
  <2>2. db[l.receipt] \in Standings
    BY <2>1 DEF NothingAhead, IsTrue, OnTheWay, FeedTypes, Unread
  <2>3. [l EXCEPT !.standing = db[l.receipt]] \in ReceiptEvents
    BY <2>1, <2>2 DEF Unread, ReceiptEvents
  <2> QED BY <1>7, <2>3 DEF LookUp, FeedTypes
<1>8. ASSUME NEW l \in lookups, LookUpFails(l) PROVE FeedTypes'
  <2>1. l.receipt \in Receipts
    BY OnTheWayTypes, EventKinds
  <2> QED BY <1>8, <2>1 DEF LookUpFails, Fault, FeedTypes
<1>9. ASSUME NEW l \in lookups, Deliver(l) PROVE FeedTypes'
  <2>1. l \in Events /\ queue \in Seq(Events)
    BY <1>9, OnTheWayTypes, EventKinds DEF Deliver, FeedTypes
  <2>2. Append(queue, l) \in Seq(Events)
    BY <2>1, Appended
  <2> QED BY <1>9, <2>2 DEF Deliver, FeedTypes
<1>10. [kind |-> "ready"] \in Events /\ <<[kind |-> "ready"]>> \in Seq(Events) /\ << >> \in Seq(Events)
  BY DEF Events, Signals
<1>11. WithoutSnapshots \in [Requests -> {NoPage} \cup Requested \cup ReadPages]
  BY DEF WithoutSnapshots, FeedTypes
<1>12. CASE Open
  BY <1>10, <1>12 DEF Open, FeedTypes
<1>13. CASE Drop
  BY <1>10, <1>11, <1>13 DEF Drop, Fault, FeedTypes
<1>14. CASE GatewayRestart
  BY <1>10, <1>14 DEF GatewayRestart, Fault, FeedTypes
<1>15. ASSUME NEW q \in Snapshots, Reread(q) PROVE FeedTypes'
  <2>1. Tail(queue) \in Seq(Events)
    BY <1>15, TakenOff DEF Reread, FeedTypes
  <2>2. Asked(N + 1) \in Requested
    BY FeedAssumption DEF Asked, Requested
  <2> QED BY <1>15, <2>1, <2>2 DEF Reread, FeedTypes
<1>16. ASSUME queue # << >>
       PROVE  Tail(queue) \in Seq(Events) /\ Head(queue) \in Events
  BY <1>16, TakenOff DEF FeedTypes
<1>17. CASE ReceiptArrives
  <2>1. Tail(queue) \in Seq(Events) /\ Head(queue) \in ReceiptEvents
    BY <1>16, <1>17, EventKinds DEF ReceiptArrives
  <2>2. PICK e : e = Head(queue)
    OBVIOUS
  <2>3. e.receipt \in Receipts /\ e.standing \in Standings
    BY <2>1, <2>2 DEF ReceiptEvents
  <2>4. Merged(rows, [r \in {e.receipt} |-> e.standing]) \in [Receipts -> {"hidden"} \cup Standings]
    BY <2>3 DEF Merged, FeedTypes
  <2>5. rows' = Merged(rows, [r \in {e.receipt} |-> e.standing]) /\ excused' \in SUBSET Receipts
    BY <1>17, <2>2, <2>3 DEF ReceiptArrives, FeedTypes
  <2> QED BY <1>17, <2>1, <2>4, <2>5 DEF ReceiptArrives, FeedTypes
<1>18. CASE SettlementArrives
  <2>1. Tail(queue) \in Seq(Events) /\ Head(queue) \in SettlementEvents
    BY <1>16, <1>18, EventKinds DEF SettlementArrives
  <2>2. Head(queue).receipt \in Receipts
    BY <2>1 DEF SettlementEvents
  <2> QED BY <1>18, <2>1, <2>2 DEF SettlementArrives, FeedTypes, Standings
<1>19. CASE AskOlder
  <2>1. Asked(cursor) \in Requested
    BY <1>19 DEF AskOlder, Asked, Requested, FeedTypes
  <2> QED BY <1>19, <2>1 DEF AskOlder, FeedTypes
<1>20. ASSUME NEW q \in Requests, ReadPage(q) PROVE FeedTypes'
  <2>1. pages[q] \in Requested
    BY <1>20, PageKinds DEF ReadPage, IsRead
  <2>2. pages[q].from \in Nat \ {0}
    BY <2>1 DEF Requested
  <2>3. Listed(pages[q].from) \in Pages
    BY <2>2, ListedPage DEF FeedTypes
  <2>4. [from |-> pages[q].from, read |-> TRUE, passed |-> FALSE, page |-> Listed(pages[q].from)] \in ReadPages
    BY <2>2, <2>3 DEF ReadPages
  <2> QED BY <1>20, <2>4 DEF ReadPage, FeedTypes
<1>21. ASSUME NEW q \in Requests, PageFails(q) PROVE FeedTypes'
  BY <1>10, <1>11, <1>21 DEF PageFails, Fault, FeedTypes
<1>22. ASSUME NEW q \in Snapshots, SnapshotArrives(q) PROVE FeedTypes'
  <2>1. q \in Requests /\ IsRead(q)
    BY <1>22 DEF Requests, SnapshotArrives, IsRead
  <2>2. PICK page : page = pages[q].page
    OBVIOUS
  <2>3. page \in Pages /\ page.next \in Nat /\ pages[q].passed \in BOOLEAN
    BY <2>1, <2>2, PageKinds
  <2>4. pages' \in [Requests -> {NoPage} \cup Requested \cup ReadPages]
    BY <1>22, <2>1, PassedPages DEF SnapshotArrives
  <2>5. rows' = Merged(Kept(page), page.items) /\ cursor' = page.next
    BY <1>22, <2>2 DEF SnapshotArrives
  <2>6. rows' \in [Receipts -> {"hidden"} \cup Standings]
    BY <2>3, <2>5, KeptRows, MergedRows DEF FeedTypes
  <2>7. TakenBack(page) \subseteq Receipts
    <3>1. DOMAIN page.items \in SUBSET Receipts
      BY <2>1, <2>2, PageKinds DEF Items
    <3> QED BY <3>1 DEF TakenBack
  <2>8. excused' \in SUBSET Receipts
    BY <1>22, <2>2, <2>7 DEF SnapshotArrives, FeedTypes
  <2> QED BY <1>22, <2>3, <2>4, <2>5, <2>6, <2>8 DEF SnapshotArrives, FeedTypes
<1>23. CASE OlderArrives
  <2>1. Older \in Requests /\ IsRead(Older)
    BY <1>23 DEF Requests, OlderArrives, IsRead
  <2>2. PICK page : page = pages[Older].page
    OBVIOUS
  <2>3. page \in Pages /\ page.next \in Nat /\ pages[Older].passed \in BOOLEAN
    BY <2>1, <2>2, PageKinds
  <2>4. Merged(rows, page.items) \in [Receipts -> {"hidden"} \cup Standings]
    BY <2>3, MergedRows DEF FeedTypes
  <2>5. pages' \in [Requests -> {NoPage} \cup Requested \cup ReadPages]
    BY <1>23 DEF OlderArrives, FeedTypes
  <2>6. CASE StillWanted
    BY <1>23, <2>2, <2>3, <2>4, <2>5, <2>6 DEF OlderArrives, FeedTypes
  <2>7. CASE ~ StillWanted
    BY <1>23, <2>5, <2>7 DEF OlderArrives, FeedTypes
  <2> QED BY <2>6, <2>7
<1>24. QED
  BY <1>1, <1>2, <1>3, <1>5, <1>6, <1>7, <1>8, <1>9, <1>12, <1>13, <1>14, <1>15, <1>17, <1>18, <1>19,
     <1>20, <1>21, <1>22, <1>23 DEF FeedNext, ListenerStep, LookupStep, BrowserStep

\* The tables only move forward.
LEMMA TablesGrow ==
  ASSUME FeedTypes, FeedNext
  PROVE  \A r \in Receipts :
           /\ db[r] # "none" => db'[r] # "none"
           /\ db[r] = "settled" => db'[r] = "settled"
<1>1. CASE UNCHANGED db
  BY <1>1
<1>2. ASSUME NEW r \in Receipts, Issue(r) \/ Settle(r)
      PROVE  \A s \in Receipts : /\ db[s] # "none" => db'[s] # "none"
                                 /\ db[s] = "settled" => db'[s] = "settled"
  BY <1>2 DEF Issue, Settle, FeedTypes
<1>3. QED
  BY <1>1, <1>2 DEF FeedNext, ListenerStep, LookupStep, BrowserStep, Hear, Connect, Resubscribe,
     EchoMissing, ConnectFails, GoDeaf, LookUp, Deliver, Open, ReceiptArrives, SettlementArrives,
     OlderArrives, Reread, SnapshotArrives, ReadPage, LookUpFails, Drop, GatewayRestart, AskOlder,
     PageFails

\* An event that was true stays true.
LEMMA TruthStays ==
  ASSUME FeedTypes, FeedNext, NEW e \in Events \cup Unread, IsTrue(e)
  PROVE  IsTrue(e)'
<1>1. e.kind \in {"receipt", "settlement"} => e.receipt \in Receipts
  BY EventKinds DEF ReceiptEvents, SettlementEvents, Unread
<1>2. QED
  BY <1>1, TablesGrow DEF IsTrue

\* Where each step leaves what is on its way.
LEMMA EventsAfter ==
  ASSUME FeedTypes
  PROVE  /\ \A r \in Receipts :
              /\ Issue(r) =>
                   /\ Range(queue)' = Range(queue)
                   /\ link = "open" =>
                        OnTheWay' = OnTheWay \cup {[kind |-> "receipt", receipt |-> r, standing |-> "unread"]}
                   /\ link # "open" => OnTheWay' = OnTheWay
              /\ Hear(r) =>
                   /\ Range(queue)' = Range(queue)
                   /\ link = "open" =>
                        OnTheWay' = OnTheWay \cup {[kind |-> "settlement", receipt |-> r, standing |-> "settled"]}
                   /\ link # "open" => OnTheWay' = OnTheWay
         /\ Connect \/ Resubscribe =>
              /\ Range(queue)' \in {Range(queue), Range(queue) \cup {[kind |-> "resync"]}}
              /\ OnTheWay' = lookups \cup Range(queue)'
              /\ ResyncDue /\ link = "open" => [kind |-> "resync"] \in Range(queue)'
         /\ \A l \in lookups :
              /\ LookUp(l) =>
                   /\ Range(queue)' = Range(queue)
                   /\ OnTheWay' = (lookups \ {l}) \cup {[l EXCEPT !.standing = db[l.receipt]]} \cup Range(queue)
              /\ LookUpFails(l) =>
                   /\ Range(queue)' = Range(queue)
                   /\ OnTheWay' = (lookups \ {l}) \cup Range(queue)
              /\ Deliver(l) =>
                   /\ link = "open" => Range(queue)' = Range(queue) \cup {l} /\ OnTheWay' = OnTheWay
                   /\ link # "open" => Range(queue)' = Range(queue) /\ OnTheWay' = (lookups \ {l}) \cup Range(queue)
         /\ ReceiptArrives \/ SettlementArrives \/ (\E q \in Snapshots : Reread(q)) =>
              /\ Range(queue) = Range(queue)' \cup {Head(queue)} /\ OnTheWay = OnTheWay' \cup {Head(queue)}
              /\ Head(queue) \in Events
<1> USE DEF OnTheWay
<1>1. ASSUME NEW r \in Receipts
      PROVE  /\ Issue(r) =>
                   /\ Range(queue)' = Range(queue)
                   /\ link = "open" =>
                        OnTheWay' = OnTheWay \cup {[kind |-> "receipt", receipt |-> r, standing |-> "unread"]}
                   /\ link # "open" => OnTheWay' = OnTheWay
             /\ Hear(r) =>
                   /\ Range(queue)' = Range(queue)
                   /\ link = "open" =>
                        OnTheWay' = OnTheWay \cup {[kind |-> "settlement", receipt |-> r, standing |-> "settled"]}
                   /\ link # "open" => OnTheWay' = OnTheWay
  BY DEF Issue, Hear, Looking
<1>2. ASSUME Connect \/ Resubscribe
      PROVE  /\ Range(queue)' \in {Range(queue), Range(queue) \cup {[kind |-> "resync"]}}
             /\ OnTheWay' = lookups \cup Range(queue)'
             /\ ResyncDue /\ link = "open" => [kind |-> "resync"] \in Range(queue)'
  <2>1. [kind |-> "resync"] \in Events /\ queue \in Seq(Events)
    BY DEF Events, Signals, FeedTypes
  <2>2. Range(Append(queue, [kind |-> "resync"])) = Range(queue) \cup {[kind |-> "resync"]}
    BY <2>1, Appended
  <2>3. lookups' = lookups
    BY <1>2 DEF Connect, Resubscribe
  <2>4. /\ queue' = queue \/ queue' = Append(queue, [kind |-> "resync"])
        /\ ResyncDue /\ link = "open" => queue' = Append(queue, [kind |-> "resync"])
    BY <1>2 DEF Connect, Resubscribe, Listening, Resynced, ResyncDue
  <2> QED BY <2>2, <2>3, <2>4
<1>3. ASSUME NEW l \in lookups
      PROVE  /\ LookUp(l) =>
                   /\ Range(queue)' = Range(queue)
                   /\ OnTheWay' = (lookups \ {l}) \cup {[l EXCEPT !.standing = db[l.receipt]]} \cup Range(queue)
             /\ LookUpFails(l) =>
                   /\ Range(queue)' = Range(queue)
                   /\ OnTheWay' = (lookups \ {l}) \cup Range(queue)
  BY DEF LookUp, LookUpFails
<1>4. ASSUME NEW l \in lookups, Deliver(l)
      PROVE  /\ link = "open" => Range(queue)' = Range(queue) \cup {l} /\ OnTheWay' = OnTheWay
             /\ link # "open" => Range(queue)' = Range(queue) /\ OnTheWay' = (lookups \ {l}) \cup Range(queue)
  <2>1. l \in Events /\ queue \in Seq(Events)
    BY <1>4, OnTheWayTypes, EventKinds DEF Deliver, FeedTypes
  <2>2. Range(Append(queue, l)) = Range(queue) \cup {l}
    BY <2>1, Appended
  <2> QED BY <1>4, <2>2 DEF Deliver
<1>5. ASSUME ReceiptArrives \/ SettlementArrives \/ (\E q \in Snapshots : Reread(q))
      PROVE  /\ Range(queue) = Range(queue)' \cup {Head(queue)} /\ OnTheWay = OnTheWay' \cup {Head(queue)}
             /\ Head(queue) \in Events
  <2>1. queue # << >> /\ queue' = Tail(queue) /\ lookups' = lookups /\ queue \in Seq(Events)
    BY <1>5 DEF ReceiptArrives, SettlementArrives, Reread, FeedTypes
  <2>2. Head(queue) \in Events /\ Range(queue) = Range(Tail(queue)) \cup {Head(queue)}
    BY <2>1, TakenOff
  <2> QED BY <2>1, <2>2
<1>6. QED
  BY <1>1, <1>2, <1>3, <1>4, <1>5

\* Whatever crosses what, nothing on the screen, on its way or announced is ahead of the tables.
LEMMA AheadKept ==
  ASSUME FeedTypes, NothingAhead, PagesFit, FeedNext
  PROVE  NothingAhead'
<1> USE DEF listenVars, screenVars
<1>1. \A e \in OnTheWay : IsTrue(e)'
  BY OnTheWayTypes, TruthStays DEF NothingAhead
<1>2. \A r \in Receipts : /\ rows[r] # "hidden" => db'[r] # "none"
                          /\ rows[r] = "settled" => db'[r] = "settled"
  BY TablesGrow DEF NothingAhead
<1>3. notes \in SUBSET Receipts /\ \A r \in notes : db'[r] = "settled"
  BY TablesGrow DEF NothingAhead, FeedTypes
<1>4. ASSUME rows' = rows, \A r \in notes' : r \in notes \/ db'[r] = "settled",
             \A e \in OnTheWay' : e \in OnTheWay \/ IsTrue(e)'
      PROVE  NothingAhead'
  BY <1>1, <1>2, <1>3, <1>4 DEF NothingAhead
<1>5. IsTrue([kind |-> "resync"])' /\ IsTrue([kind |-> "ready"])'
  BY DEF IsTrue
<1>6. ASSUME NEW r \in Receipts, Issue(r) PROVE NothingAhead'
  <2>1. db'[r] = "accrued"
    BY <1>6 DEF Issue, FeedTypes
  <2>2. IsTrue([kind |-> "receipt", receipt |-> r, standing |-> "unread"])'
    BY <2>1 DEF IsTrue
  <2>3. rows' = rows /\ notes' = notes
    BY <1>6 DEF Issue
  <2>4. \A e \in OnTheWay' : e \in OnTheWay \/ IsTrue(e)'
    BY <1>6, <2>2, EventsAfter
  <2> QED BY <1>4, <2>3, <2>4
<1>7. ASSUME NEW r \in Receipts, Settle(r) PROVE NothingAhead'
  <2>1. db'[r] = "settled"
    BY <1>7 DEF Settle, FeedTypes
  <2>2. rows' = rows /\ OnTheWay' = OnTheWay /\ notes' \subseteq notes \cup {r}
    BY <1>7 DEF Settle, OnTheWay
  <2> QED BY <1>4, <2>1, <2>2
<1>8. ASSUME NEW r \in Receipts, Hear(r) PROVE NothingAhead'
  <2>1. db'[r] = "settled"
    BY <1>3, <1>8 DEF Hear
  <2>2. IsTrue([kind |-> "settlement", receipt |-> r, standing |-> "settled"])'
    BY <2>1 DEF IsTrue
  <2>3. rows' = rows /\ notes' \subseteq notes
    BY <1>8 DEF Hear
  <2>4. \A e \in OnTheWay' : e \in OnTheWay \/ IsTrue(e)'
    BY <1>8, <2>2, EventsAfter
  <2> QED BY <1>4, <2>3, <2>4
<1>9. CASE Connect \/ Resubscribe
  <2>1. rows' = rows /\ notes' = notes
    BY <1>9 DEF Connect, Resubscribe
  <2>2. \A e \in OnTheWay' : e \in OnTheWay \/ IsTrue(e)'
    BY <1>5, <1>9, EventsAfter DEF OnTheWay
  <2> QED BY <1>4, <2>1, <2>2
<1>10. CASE ConnectFails \/ GoDeaf \/ EchoMissing
  <2>1. rows' = rows /\ notes' \subseteq notes /\ OnTheWay' = OnTheWay
    BY <1>10 DEF ConnectFails, GoDeaf, EchoMissing, OnTheWay
  <2> QED BY <1>4, <2>1
<1>11. ASSUME NEW l \in lookups, LookUp(l) PROVE NothingAhead'
  <2>1. l \in Unread /\ l.receipt \in Receipts /\ l \in OnTheWay
    BY <1>11, OnTheWayTypes, EventKinds DEF LookUp, OnTheWay
  <2>2. rows' = rows /\ notes' = notes /\ db' = db
    BY <1>11 DEF LookUp
  <2>3. db[l.receipt] # "none"
    BY <2>1 DEF NothingAhead, IsTrue, Unread
  <2>4. PICK e : e = [l EXCEPT !.standing = db[l.receipt]]
    OBVIOUS
  <2>5. e.receipt = l.receipt /\ e.standing = db[l.receipt]
    BY <2>1, <2>4 DEF Unread
  <2>6. IsTrue(e)'
    BY <2>2, <2>3, <2>5 DEF IsTrue
  <2>7. \A f \in OnTheWay' : f \in OnTheWay \/ IsTrue(f)'
    BY <1>11, <2>4, <2>6, EventsAfter DEF OnTheWay
  <2> QED BY <1>4, <2>2, <2>7
<1>12. ASSUME NEW l \in lookups, LookUpFails(l) \/ Deliver(l) PROVE NothingAhead'
  <2>1. rows' = rows /\ notes' = notes
    BY <1>12 DEF LookUpFails, Deliver
  <2>2. \A e \in OnTheWay' : e \in OnTheWay
    BY <1>12, EventsAfter DEF OnTheWay
  <2> QED BY <1>4, <2>1, <2>2
<1>13. CASE Open \/ Drop \/ GatewayRestart
  <2>1. rows' = rows /\ notes' \subseteq notes
    BY <1>13 DEF Open, Drop, GatewayRestart
  <2>2. Range(<<[kind |-> "ready"]>>) = {[kind |-> "ready"]}
    BY DEF Range
  <2>3. \A e \in OnTheWay' : e \in OnTheWay \/ e = [kind |-> "ready"]
    BY <1>13, <2>2, NoEvents DEF Open, Drop, GatewayRestart, OnTheWay
  <2> QED BY <1>4, <1>5, <2>1, <2>3
<1>14. ASSUME NEW q \in Snapshots, Reread(q) PROVE NothingAhead'
  <2>1. rows' = rows /\ notes' = notes
    BY <1>14 DEF Reread
  <2>2. \A e \in OnTheWay' : e \in OnTheWay
    BY <1>14, EventsAfter
  <2> QED BY <1>4, <2>1, <2>2
<1>15. CASE ReceiptArrives \/ SettlementArrives
  <2>1. notes' = notes /\ db' = db /\ queue # << >>
    BY <1>15 DEF ReceiptArrives, SettlementArrives
  <2>2. Head(queue) \in OnTheWay /\ Head(queue) \in Events /\ \A e \in OnTheWay' : e \in OnTheWay
    BY <1>15, EventsAfter
  <2>3. IsTrue(Head(queue)) /\ Head(queue).receipt \in Receipts
    BY <1>15, <2>2, EventKinds DEF ReceiptArrives, SettlementArrives, NothingAhead, ReceiptEvents,
       SettlementEvents
  <2>4. PICK e : e = Head(queue)
    OBVIOUS
  <2>5. ASSUME NEW r \in Receipts
        PROVE  rows'[r] = rows[r] \/ (r = e.receipt /\ e.kind = "receipt" /\ rows'[r] = e.standing)
                                  \/ (r = e.receipt /\ e.kind = "settlement" /\ rows'[r] = "settled")
    BY <1>15, <2>4 DEF ReceiptArrives, SettlementArrives, Merged, FeedTypes
  <2>6. e.kind = "settlement" => e.standing = "settled"
    BY <2>2, <2>4, EventKinds DEF SettlementEvents
  <2>7. \A r \in Receipts : /\ rows'[r] # "hidden" => db'[r] # "none"
                            /\ rows'[r] = "settled" => db'[r] = "settled"
    BY <1>2, <2>1, <2>3, <2>4, <2>5, <2>6 DEF IsTrue
  <2> QED BY <1>1, <1>3, <2>1, <2>2, <2>7 DEF NothingAhead
<1>16. CASE AskOlder \/ (\E q \in Requests : ReadPage(q) \/ PageFails(q))
  <2>1. rows' = rows /\ notes' = notes
    BY <1>16 DEF AskOlder, ReadPage, PageFails
  <2>2. \A e \in OnTheWay' : e \in OnTheWay
    BY <1>16, NoEvents DEF AskOlder, ReadPage, PageFails, OnTheWay
  <2> QED BY <1>4, <2>1, <2>2
<1>17. ASSUME NEW q \in Requests, IsRead(q), NEW shown \in [Receipts -> {"hidden"} \cup Standings],
              rows' = Merged(shown, Items(q)), \A r \in Receipts : shown[r] \in {rows[r], "hidden"},
              notes' = notes, lookups' = lookups, queue' = queue
       PROVE  NothingAhead'
  <2>1. PICK page : page = pages[q].page
    OBVIOUS
  <2>2. /\ page \in Pages /\ page.items = Items(q)
        /\ \A r \in DOMAIN page.items :
             db[r] # "none" /\ (page.items[r] = "settled" => db[r] = "settled")
    BY <1>17, <2>1, PageKinds DEF PagesFit, Items
  <2>3. \A r \in Receipts :
          rows'[r] = IF r \in DOMAIN page.items /\ shown[r] # "settled" THEN page.items[r] ELSE shown[r]
    BY <1>17, <2>2, MergedRows
  <2>4. \A r \in Receipts : rows'[r] \in {"hidden", rows[r]} \/ (r \in DOMAIN page.items /\ rows'[r] = page.items[r])
    BY <1>17, <2>3
  <2>5. \A r \in Receipts : /\ rows'[r] # "hidden" => db'[r] # "none"
                            /\ rows'[r] = "settled" => db'[r] = "settled"
    BY <1>2, <2>2, <2>4, TablesGrow
  <2>6. OnTheWay' = OnTheWay
    BY <1>17 DEF OnTheWay
  <2> QED BY <1>1, <1>3, <1>17, <2>5, <2>6 DEF NothingAhead
<1>18. ASSUME NEW q \in Snapshots, SnapshotArrives(q) PROVE NothingAhead'
  <2>1. q \in Requests /\ IsRead(q)
    BY <1>18 DEF Requests, SnapshotArrives, IsRead
  <2>2. Kept(pages[q].page) \in [Receipts -> {"hidden"} \cup Standings]
        /\ \A r \in Receipts : Kept(pages[q].page)[r] \in {rows[r], "hidden"}
    BY <2>1, PageKinds, KeptRows DEF FeedTypes
  <2> QED BY <1>17, <1>18, <2>1, <2>2 DEF SnapshotArrives, Items
<1>19. CASE OlderArrives
  <2>1. Older \in Requests /\ IsRead(Older)
    BY <1>19 DEF Requests, OlderArrives, IsRead
  <2>2. CASE StillWanted
    <3>1. rows \in [Receipts -> {"hidden"} \cup Standings]
      BY DEF FeedTypes
    <3>2. rows' = Merged(rows, Items(Older)) /\ notes' = notes /\ lookups' = lookups /\ queue' = queue
      BY <1>19, <2>2 DEF OlderArrives, Items
    <3> QED BY <1>17, <2>1, <3>1, <3>2
  <2>3. CASE ~ StillWanted
    <3>1. rows' = rows /\ notes' = notes /\ OnTheWay' = OnTheWay
      BY <1>19, <2>3 DEF OlderArrives, OnTheWay
    <3> QED BY <1>4, <3>1
  <2> QED BY <2>2, <2>3
<1>20. QED
  BY <1>6, <1>7, <1>8, <1>9, <1>10, <1>11, <1>12, <1>13, <1>14, <1>15, <1>16, <1>18, <1>19
     DEF FeedNext, ListenerStep, LookupStep, BrowserStep

\* Requests stay with their stream, and what was read stays a page of the tables.
LEMMA PagesFitKept ==
  ASSUME FeedTypes, NothingAhead, PagesFit, DownIsEmpty, FeedNext
  PROVE  PagesFit' /\ DownIsEmpty'
<1> USE DEF listenVars, screenVars
<1> DEFINE Fits(q) ==
      /\ q \in Snapshots /\ pages[q] # NoPage => link = "open" /\ pages[q].from = N + 1
      /\ IsRead(q) =>
           /\ \A r \in DOMAIN Items(q) :
                /\ Reaches(q, r) /\ db[r] # "none"
                /\ Items(q)[r] = "settled" => db[r] = "settled"
           /\ pages[q].page.next # 0 => pages[q].page.next \in DOMAIN Items(q)
<1>1. ASSUME NEW q \in Requests, pages'[q] = pages[q], q \in Snapshots => link' = link
      PROVE  Fits(q)'
  <2>1. Fits(q)
    BY DEF PagesFit
  <2>2. IsRead(q)' = IsRead(q) /\ Items(q)' = Items(q) /\ \A r : Reaches(q, r)' = Reaches(q, r)
    BY <1>1 DEF IsRead, Items, Reaches
  <2>3. IsRead(q) => DOMAIN Items(q) \in SUBSET Receipts
    BY PageKinds
  <2> QED BY <1>1, <2>1, <2>2, <2>3, TablesGrow
<1>2. ASSUME NEW q \in Requests, pages'[q] = NoPage
      PROVE  Fits(q)'
  BY <1>2 DEF IsRead
<1>3. ASSUME NEW q \in Requests, NEW from, pages'[q] = Asked(from), q \in Snapshots => link' = "open" /\ from = N + 1
      PROVE  Fits(q)'
  BY <1>3 DEF IsRead, Asked
<1>4. ASSUME \A q \in Requests : Fits(q)'
      PROVE  PagesFit'
  BY <1>4 DEF PagesFit
<1>5. ASSUME UNCHANGED <<pages, link>> PROVE PagesFit'
  <2>1. \A q \in Requests : Fits(q)'
    BY <1>1, <1>5
  <2> QED BY <1>4, <2>1
<1>6. CASE UNCHANGED <<pages, link>>
  <2>1. DownIsEmpty'
    <3>1. CASE link = "open"
      BY <1>6, <3>1 DEF DownIsEmpty
    <3>2. CASE link = "down"
      <4>1. queue = << >>
        BY <3>2 DEF DownIsEmpty
      <4>2. queue' = queue
        BY <1>6, <3>2, <4>1 DEF FeedNext, ListenerStep, LookupStep, BrowserStep, Issue, Settle, Hear, Connect,
           Resubscribe, Listening, Resynced, EchoMissing, ConnectFails, GoDeaf, LookUp, Deliver, Open,
           ReceiptArrives, SettlementArrives, OlderArrives, Reread, SnapshotArrives, ReadPage, LookUpFails,
           Drop, GatewayRestart, AskOlder, PageFails
      <4> QED BY <4>1, <4>2 DEF DownIsEmpty
    <3> QED BY <3>1, <3>2 DEF FeedTypes
  <2> QED BY <1>5, <1>6, <2>1
<1>7. ASSUME link' = "down", queue' = << >>, \A q \in Requests : pages'[q] = NoPage \/ (q = Older /\ pages'[q] = pages[q])
      PROVE  PagesFit' /\ DownIsEmpty'
  <2>1. Older \notin Snapshots
    BY FeedAssumption
  <2>2. \A q \in Requests : Fits(q)'
    BY <1>1, <1>2, <1>7, <2>1
  <2> QED BY <1>4, <1>7, <2>2 DEF DownIsEmpty
<1>8. CASE Drop \/ GatewayRestart
  BY <1>7, <1>8 DEF Drop, GatewayRestart, WithoutSnapshots
<1>9. CASE Open
  <2>1. \A q \in Snapshots : pages'[q] = NoPage
    BY <1>9 DEF Open, PagesFit, Requests
  <2>2. \A q \in Requests : Fits(q)'
    BY <1>1, <1>2, <1>9, <2>1 DEF Open, Requests
  <2> QED BY <1>4, <1>9, <2>2 DEF Open, DownIsEmpty
<1>10. ASSUME NEW q \in Snapshots, Reread(q) PROVE PagesFit' /\ DownIsEmpty'
  <2>1. link = "open" /\ link' = link
    BY <1>10 DEF Reread, DownIsEmpty, FeedTypes
  <2>2. \A p \in Requests : p # q => pages'[p] = pages[p]
    BY <1>10 DEF Reread, FeedTypes
  <2>3. pages'[q] = Asked(N + 1) /\ q \in Requests
    BY <1>10 DEF Reread, FeedTypes, Requests
  <2>4. \A p \in Requests : Fits(p)'
    BY <1>1, <1>3, <2>1, <2>2, <2>3
  <2> QED BY <1>4, <2>1, <2>4 DEF DownIsEmpty
<1>11. CASE AskOlder
  <2>1. \A p \in Requests : p # Older => pages'[p] = pages[p]
    BY <1>11 DEF AskOlder, FeedTypes
  <2>2. pages'[Older] = Asked(cursor) /\ Older \in Requests /\ Older \notin Snapshots
    BY <1>11, FeedAssumption DEF AskOlder, FeedTypes, Requests
  <2>3. \A p \in Requests : Fits(p)'
    BY <1>1, <1>3, <1>11, <2>1, <2>2 DEF AskOlder
  <2> QED BY <1>4, <1>11, <2>3 DEF AskOlder, DownIsEmpty
<1>12. ASSUME NEW q \in Requests, ReadPage(q) PROVE PagesFit' /\ DownIsEmpty'
  <2>1. pages[q] \in Requested /\ link' = link /\ queue' = queue /\ db' = db
    BY <1>12, PageKinds DEF ReadPage, IsRead
  <2>2. pages[q].from \in Nat \ {0}
    BY <2>1 DEF Requested
  <2>3. PICK page : page = Listed(pages[q].from)
    OBVIOUS
  <2>4. pages'[q] = [from |-> pages[q].from, read |-> TRUE, passed |-> FALSE, page |-> page]
    BY <1>12, <2>3 DEF ReadPage, FeedTypes
  <2>5. Items(q)' = page.items /\ \A r : Reaches(q, r)' <=> page.next <= r /\ r < pages[q].from
    BY <2>4 DEF Items, Reaches
  <2>6. /\ \A r \in DOMAIN page.items :
              r < pages[q].from /\ page.next <= r /\ page.items[r] = db[r] /\ db[r] # "none"
        /\ page.next # 0 => page.next \in DOMAIN page.items
    BY <2>2, <2>3, ListedPage DEF FeedTypes
  <2>7. q \in Snapshots => link = "open" /\ pages[q].from = N + 1
    BY <2>1, PageKinds DEF PagesFit
  <2>8. Fits(q)'
    BY <2>1, <2>4, <2>5, <2>6, <2>7
  <2>9. \A p \in Requests : p # q => pages'[p] = pages[p]
    BY <1>12 DEF ReadPage, FeedTypes
  <2>10. \A p \in Requests : Fits(p)'
    BY <1>1, <2>1, <2>8, <2>9
  <2> QED BY <1>4, <2>1, <2>10 DEF DownIsEmpty
<1>13. ASSUME NEW q \in Requests, PageFails(q) PROVE PagesFit' /\ DownIsEmpty'
  <2>1. CASE q # Older
    BY <1>7, <1>13, <2>1 DEF PageFails, WithoutSnapshots
  <2>2. CASE q = Older
    <3>1. /\ link' = link /\ queue' = queue /\ pages'[q] = NoPage
          /\ \A p \in Requests : p # q => pages'[p] = pages[p]
      BY <1>13, <2>2 DEF PageFails, FeedTypes
    <3>2. \A p \in Requests : Fits(p)'
      BY <1>1, <1>2, <3>1
    <3> QED BY <1>4, <3>1, <3>2 DEF DownIsEmpty
  <2> QED BY <2>1, <2>2
<1>14. ASSUME NEW q \in Snapshots, SnapshotArrives(q) PROVE PagesFit' /\ DownIsEmpty'
  <2>1. q \in Requests /\ link' = link /\ queue' = queue
    BY <1>14 DEF Requests, SnapshotArrives
  <2>2. /\ pages'[q] = NoPage
        /\ \A p \in Requests \ {q} :
              /\ ~ IsRead(p) => pages'[p] = pages[p]
              /\ IsRead(p) => /\ pages'[p] \in ReadPages
                              /\ pages'[p].from = pages[p].from /\ pages'[p].page = pages[p].page
    BY <1>14, <2>1, PassedPages DEF SnapshotArrives
  <2>3. ASSUME NEW p \in Requests \ {q}, IsRead(p)
        PROVE  Fits(p)'
    <3>1. Fits(p)
      BY DEF PagesFit
    <3>2. Items(p)' = Items(p) /\ \A r : Reaches(p, r)' <=> Reaches(p, r)
      BY <2>2, <2>3 DEF Items, Reaches
    <3>3. DOMAIN Items(p) \in SUBSET Receipts /\ pages[p] # NoPage
      BY <2>3, PageKinds
    <3>4. pages'[p].page = pages[p].page /\ pages'[p].from = pages[p].from
      BY <2>2, <2>3
    <3> QED BY <2>1, <2>3, <3>1, <3>2, <3>3, <3>4, TablesGrow
  <2>4. \A p \in Requests : Fits(p)'
    BY <1>1, <1>2, <2>1, <2>2, <2>3
  <2> QED BY <1>4, <2>1, <2>4 DEF DownIsEmpty
<1>15. CASE OlderArrives
  <2>1. /\ link' = link /\ queue' = queue /\ pages'[Older] = NoPage
        /\ \A p \in Requests : p # Older => pages'[p] = pages[p]
    BY <1>15 DEF OlderArrives, FeedTypes, Requests
  <2>2. \A p \in Requests : Fits(p)'
    BY <1>1, <1>2, <2>1
  <2> QED BY <1>4, <2>1, <2>2 DEF DownIsEmpty
<1>16. QED
  <2>1. CASE \E r \in Receipts : Issue(r) \/ Settle(r) \/ Hear(r)
    BY <1>6, <2>1 DEF Issue, Settle, Hear
  <2>2. CASE ListenerStep \/ LookupStep \/ \E l \in lookups : LookUpFails(l)
    BY <1>6, <2>2 DEF ListenerStep, LookupStep, LookUp, Deliver, LookUpFails, Connect, Resubscribe,
       EchoMissing, ConnectFails, GoDeaf
  <2>3. CASE ReceiptArrives \/ SettlementArrives
    BY <1>6, <2>3 DEF ReceiptArrives, SettlementArrives
  <2> QED BY <1>8, <1>9, <1>10, <1>11, <1>12, <1>13, <1>14, <1>15, <2>1, <2>2, <2>3 DEF FeedNext, BrowserStep

-----------------------------------------------------------------------------
(* What keeps the account of the receipts.                                 *)

\* A step that loses sight of no receipt and of no settlement, and leaves first pages alone,
\* keeps the account.
LEMMA CarriedOver ==
  ASSUME FeedTypes, FeedTypes', OnScreen, OlderInStep, SnapshotInStep,
         link' = link, cursor' = cursor, loaded' = loaded, crossed' = crossed,
         \A q \in Snapshots : pages'[q] = pages[q],
         pages'[Older] = pages[Older] \/ ~ IsRead(Older)',
         RereadDue => RereadDue',
         ResyncDue /\ link = "open" => ResyncDue' \/ RereadDue',
         link = "open" =>
           \A r \in Receipts :
             /\ db[r] = "none" /\ db'[r] # "none" => Accounted(r)'
             /\ Accounted(r) => Accounted(r)',
         \A r \in Receipts : rows[r] = "settled" => rows'[r] = "settled",
         link = "open" /\ ~ ResyncDue' =>
           \A r \in Receipts :
             /\ Explained(r) => Explained(r)' \/ rows'[r] = "settled"
             /\ db[r] # "settled" /\ db'[r] = "settled" => Explained(r)'
             /\ Late(r)' => \/ Explained(r)'
                            \/ Late(r) /\ (rows'[r] = rows[r] \/ (rows[r] = "hidden" /\ r >= cursor)),
         \A q \in Snapshots : pages[q] # NoPage => link = "open"
  PROVE  OnScreen' /\ OlderInStep' /\ SnapshotInStep'
<1>1. Current' => Current /\ ~ RereadDue' /\ ~ RereadDue
  BY DEF Current, Reloading
<1>2. link = "open" /\ ~ ResyncDue' /\ ~ RereadDue' => ~ ResyncDue
  OBVIOUS
<1>3. \A r \in Receipts : Late(r)' => rows'[r] # "settled" /\ db'[r] = "settled"
  BY DEF Late
<1>4. Current => link = "open"
  BY DEF Current
<1>5. OnScreen'
  <2> SUFFICES ASSUME Current', loaded', ~ crossed'
               PROVE  /\ \A r \in Receipts : db'[r] # "none" /\ r >= cursor' => Accounted(r)'
                      /\ ~ ResyncDue' =>
                           \A r \in Receipts :
                             Late(r)' /\ (rows'[r] = "accrued" \/ r >= cursor') => Explained(r)'
    BY DEF OnScreen
  <2>1. Current /\ loaded /\ ~ crossed /\ link = "open" /\ ~ RereadDue'
    BY <1>1, <1>4
  <2>2. ASSUME NEW r \in Receipts, db'[r] # "none", r >= cursor'
        PROVE  Accounted(r)'
    BY <2>1, <2>2 DEF OnScreen
  <2>3. ASSUME ~ ResyncDue', NEW r \in Receipts, Late(r)', rows'[r] = "accrued" \/ r >= cursor'
        PROVE  Explained(r)'
    <3>1. ~ ResyncDue
      BY <1>2, <2>1, <2>3
    <3>2. Late(r) /\ (rows[r] = "accrued" \/ r >= cursor) => Explained(r)
      BY <2>1, <3>1 DEF OnScreen
    <3> QED BY <1>3, <2>1, <2>3, <3>2
  <2> QED BY <2>2, <2>3
<1>6. ASSUME NEW q \in Requests, pages'[q] = pages[q], ~ ResyncDue', link = "open",
             NEW r \in Receipts, LateItem(q, r)'
      PROVE  LateItem(q, r) \/ Explained(r)'
  BY <1>6 DEF LateItem, InPage, Items
<1>7. ASSUME NEW q \in Requests, pages'[q] = pages[q]
      PROVE  IsRead(q)' = IsRead(q) /\ \A r : InPage(q, r)' = InPage(q, r) /\ Reaches(q, r)' = Reaches(q, r)
  BY <1>7 DEF IsRead, InPage, Items, Reaches
<1>8. ASSUME NEW q \in Requests, NEW r \in Receipts, LateItem(q, r)'
      PROVE  rows'[r] # "settled"
  BY <1>8 DEF LateItem
<1>9. OlderInStep'
  <2> SUFFICES ASSUME IsRead(Older)', ~ pages'[Older].passed, Current'
               PROVE  /\ \A r \in Receipts :
                           db'[r] # "none" /\ Reaches(Older, r)' => InPage(Older, r)' \/ Accounted(r)'
                      /\ ~ ResyncDue' =>
                           \A r \in Receipts :
                             /\ LateItem(Older, r)' => Explained(r)'
                             /\ Late(r)' /\ rows'[r] = "hidden" /\ Reaches(Older, r)' /\ ~ InPage(Older, r)'
                                  => Explained(r)'
    BY DEF OlderInStep
  <2>1. pages'[Older] = pages[Older] /\ Older \in Requests /\ Current /\ link = "open" /\ ~ RereadDue'
    BY <1>1, <1>4 DEF Requests
  <2>2. IsRead(Older) /\ ~ pages[Older].passed
        /\ \A r : InPage(Older, r)' = InPage(Older, r) /\ Reaches(Older, r)' = Reaches(Older, r)
    BY <1>7, <2>1
  <2>3. ASSUME NEW r \in Receipts, db'[r] # "none", Reaches(Older, r)'
        PROVE  InPage(Older, r)' \/ Accounted(r)'
    BY <2>1, <2>2, <2>3 DEF OlderInStep
  <2>4. ASSUME ~ ResyncDue', NEW r \in Receipts, LateItem(Older, r)'
        PROVE  Explained(r)'
    <3>1. LateItem(Older, r) => Explained(r)
      BY <1>2, <2>1, <2>2, <2>4 DEF OlderInStep
    <3> QED BY <1>6, <1>8, <2>1, <2>4, <3>1
  <2>5. ASSUME ~ ResyncDue', NEW r \in Receipts,
               Late(r)', rows'[r] = "hidden", Reaches(Older, r)', ~ InPage(Older, r)'
        PROVE  Explained(r)'
    <3>1. Late(r) /\ rows[r] = "hidden" => Explained(r)
      BY <1>2, <2>1, <2>2, <2>5 DEF OlderInStep
    <3> QED BY <1>3, <2>1, <2>5, <3>1
  <2> QED BY <2>3, <2>4, <2>5
<1>10. SnapshotInStep'
  <2> SUFFICES ASSUME NEW q \in Snapshots, IsRead(q)', ~ pages'[q].passed
               PROVE  /\ \A r \in Receipts :
                           db'[r] # "none" /\ Reaches(q, r)' => InPage(q, r)' \/ Accounted(r)'
                      /\ LastReload(q)' =>
                           \A r \in Receipts :
                             /\ LateItem(q, r)' => Explained(r)'
                             /\ Reaches(q, r)' /\ ~ InPage(q, r)' =>
                                  /\ Late(r)' => Explained(r)'
                                  /\ IsRead(Older)' /\ LateItem(Older, r)' => Explained(r)'
    BY DEF SnapshotInStep
  <2>1. pages'[q] = pages[q] /\ q \in Requests /\ Older \in Requests
    BY DEF Requests
  <2>2. IsRead(q) /\ ~ pages[q].passed
        /\ \A r : InPage(q, r)' = InPage(q, r) /\ Reaches(q, r)' = Reaches(q, r)
    BY <1>7, <2>1
  <2>3. link = "open"
    BY <2>1, <2>2 DEF IsRead
  <2>4. LastReload(q)' => LastReload(q) /\ ~ ResyncDue'
    BY <2>3 DEF LastReload
  <2>5. ASSUME NEW r \in Receipts, db'[r] # "none", Reaches(q, r)'
        PROVE  InPage(q, r)' \/ Accounted(r)'
    BY <2>1, <2>2, <2>3, <2>5 DEF SnapshotInStep
  <2>6. ASSUME LastReload(q)', NEW r \in Receipts, LateItem(q, r)'
        PROVE  Explained(r)'
    <3>1. LateItem(q, r) => Explained(r)
      BY <2>2, <2>4, <2>6 DEF SnapshotInStep
    <3> QED BY <1>6, <1>8, <2>1, <2>3, <2>4, <2>6, <3>1
  <2>7. ASSUME LastReload(q)', NEW r \in Receipts, Reaches(q, r)', ~ InPage(q, r)'
        PROVE  /\ Late(r)' => Explained(r)'
               /\ IsRead(Older)' /\ LateItem(Older, r)' => Explained(r)'
    <3>1. /\ Late(r) => Explained(r)
          /\ IsRead(Older) /\ LateItem(Older, r) => Explained(r)
      BY <2>2, <2>4, <2>7 DEF SnapshotInStep
    <3>2. Late(r)' => Explained(r)'
      BY <1>3, <2>3, <2>4, <2>7, <3>1
    <3>3. ASSUME IsRead(Older)', LateItem(Older, r)'
          PROVE  Explained(r)'
      <4>1. pages'[Older] = pages[Older] /\ IsRead(Older)
        BY <1>7, <2>1, <3>3
      <4>2. LateItem(Older, r) \/ Explained(r)'
        BY <1>6, <2>1, <2>3, <2>4, <2>7, <3>3, <4>1
      <4> QED BY <1>8, <2>1, <2>3, <2>4, <2>7, <3>1, <3>3, <4>1, <4>2
    <3> QED BY <3>2, <3>3
  <2> QED BY <2>5, <2>6, <2>7
<1>11. QED
  BY <1>5, <1>9, <1>10

\* The tables, the listener and the lookups lose sight of nothing.
LEMMA AccountKeptByGateway ==
  ASSUME FeedInv, FeedTypes', FeedNext,
         \/ \E r \in Receipts : Issue(r) \/ Settle(r) \/ Hear(r)
         \/ ListenerStep \/ LookupStep \/ \E l \in lookups : LookUpFails(l)
  PROVE  OnScreen' /\ OlderInStep' /\ SnapshotInStep'
<1> USE DEF listenVars, screenVars
<1> DEFINE InStep == OnScreen' /\ OlderInStep' /\ SnapshotInStep'
<1>1. FeedTypes /\ NothingAhead /\ PagesFit /\ OnScreen /\ OlderInStep /\ SnapshotInStep
  BY DEF FeedInv
<1>2. UNCHANGED <<link, cursor, loaded, crossed, pages, rows>>
  BY DEF Issue, Settle, Hear, ListenerStep, LookupStep, LookUpFails, LookUp, Deliver, Connect,
     Resubscribe, EchoMissing, ConnectFails, GoDeaf
<1>3. \A q \in Snapshots : pages[q] # NoPage => link = "open"
  BY <1>1 DEF PagesFit, Requests
<1>4. ASSUME Range(queue) \subseteq Range(queue)',
             ResyncDue /\ link = "open" => ResyncDue' \/ RereadDue',
             link = "open" =>
               \A r \in Receipts :
                 /\ db[r] = "none" /\ db'[r] # "none" => Accounted(r)'
                 /\ Accounted(r) => Accounted(r)',
             link = "open" /\ ~ ResyncDue' =>
               \A r \in Receipts :
                 /\ Explained(r) => Explained(r)'
                 /\ db[r] # "settled" /\ db'[r] = "settled" => Explained(r)'
                 /\ Late(r)' => Explained(r)' \/ Late(r)
      PROVE  InStep
  <2>1. RereadDue => RereadDue'
    BY <1>4 DEF RereadDue
  <2>2. \A q \in Snapshots : pages'[q] = pages[q]
    BY <1>2
  <2>3. \A r \in Receipts : rows[r] = "settled" => rows'[r] = "settled"
    BY <1>2
  <2>4. link = "open" /\ ~ ResyncDue' =>
           \A r \in Receipts :
             /\ Explained(r) => Explained(r)' \/ rows'[r] = "settled"
             /\ db[r] # "settled" /\ db'[r] = "settled" => Explained(r)'
             /\ Late(r)' => \/ Explained(r)'
                            \/ Late(r) /\ (rows'[r] = rows[r] \/ (rows[r] = "hidden" /\ r >= cursor))
    BY <1>2, <1>4
  <2> QED BY <1>1, <1>2, <1>3, <1>4, <2>1, <2>2, <2>3, <2>4, CarriedOver
<1>5. ASSUME NEW r \in Receipts, Issue(r) PROVE InStep
  <2>1. /\ db[r] = "none" /\ db'[r] = "accrued" /\ \A s \in Receipts \ {r} : db'[s] = db[s]
        /\ excused' = excused /\ notes' = notes /\ listener' = listener /\ missed' = missed
    BY <1>1, <1>5 DEF Issue, FeedTypes
  <2>2. PICK e : e = [kind |-> "receipt", receipt |-> r, standing |-> "unread"]
    OBVIOUS
  <2>3. Range(queue)' = Range(queue) /\ (link = "open" => OnTheWay' = OnTheWay \cup {e})
    BY <1>1, <1>5, <2>2, EventsAfter
  <2>4. ASSUME link = "open", NEW s \in Receipts
        PROVE  /\ db[s] = "none" /\ db'[s] # "none" => Accounted(s)'
               /\ Accounted(s) => Accounted(s)'
               /\ Explained(s) => Explained(s)'
               /\ db[s] # "settled" /\ db'[s] = "settled" => Explained(s)'
               /\ Late(s)' => Late(s)
    <3>1. e \in OnTheWay' /\ OnTheWay \subseteq OnTheWay' /\ e.kind = "receipt" /\ e.receipt = r
          /\ e.standing = "unread"
      BY <2>2, <2>3, <2>4
    <3>2. s = r => Heralded(s)'
      BY <3>1 DEF Heralded
    <3>3. /\ Heralded(s) => Heralded(s)'
          /\ Announced(s) => Announced(s)'
          /\ StaleEvent(s)' => StaleEvent(s)
      BY <2>1, <2>3, <2>4, <3>1 DEF Heralded, Announced, StaleEvent
    <3> QED BY <1>2, <2>1, <3>2, <3>3 DEF Accounted, Explained, Late
  <2>5. ResyncDue' = ResyncDue
    BY <2>1 DEF ResyncDue
  <2> QED BY <1>4, <2>3, <2>4, <2>5
<1>6. ASSUME NEW r \in Receipts, Settle(r) PROVE InStep
  <2>1. /\ db[r] = "accrued" /\ db'[r] = "settled" /\ \A s \in Receipts \ {r} : db'[s] = db[s]
        /\ excused \subseteq excused' /\ notes \subseteq notes' /\ listener' = listener /\ missed' = missed
        /\ queue' = queue /\ lookups' = lookups
        /\ listener = "live" => r \in notes'
        /\ listener = "none" /\ ~ missed => r \in excused'
    BY <1>1, <1>6 DEF Settle, FeedTypes
  <2>2. OnTheWay' = OnTheWay /\ ResyncDue' = ResyncDue
    BY <2>1 DEF OnTheWay, ResyncDue
  <2>3. ~ ResyncDue => Explained(r)'
    BY <1>1, <2>1 DEF ResyncDue, FeedTypes, Explained, Announced
  <2>4. ASSUME NEW s \in Receipts
        PROVE  /\ db[s] = "none" => db'[s] = "none"
               /\ Accounted(s) => Accounted(s)'
               /\ Explained(s) => Explained(s)'
               /\ Late(s)' => Late(s) \/ s = r
               /\ db[s] # "settled" /\ db'[s] = "settled" => s = r
    <3>1. /\ Heralded(s) => Heralded(s)'
          /\ Announced(s) => Announced(s)'
          /\ StaleEvent(s)' => StaleEvent(s)
      BY <2>1, <2>2 DEF Heralded, Announced, StaleEvent
    <3> QED BY <1>2, <2>1, <3>1 DEF Accounted, Explained, Late
  <2> QED BY <1>4, <2>1, <2>2, <2>3, <2>4
<1>7. ASSUME NEW r \in Receipts, Hear(r) PROVE InStep
  <2>1. /\ r \in notes /\ notes' = notes \ {r} /\ db' = db /\ excused' = excused
        /\ listener' = listener /\ missed' = missed
    BY <1>7 DEF Hear
  <2>2. PICK e : e = [kind |-> "settlement", receipt |-> r, standing |-> "settled"]
    OBVIOUS
  <2>3. Range(queue)' = Range(queue) /\ (link = "open" => OnTheWay' = OnTheWay \cup {e})
    BY <1>1, <1>7, <2>2, EventsAfter
  <2>4. ASSUME link = "open", NEW s \in Receipts
        PROVE  /\ Accounted(s) => Accounted(s)'
               /\ Explained(s) => Explained(s)'
               /\ Late(s)' => Late(s)
    <3>1. e \in OnTheWay' /\ OnTheWay \subseteq OnTheWay' /\ e.kind = "settlement" /\ e.receipt = r
      BY <2>2, <2>3, <2>4
    <3>2. /\ Heralded(s) => Heralded(s)'
          /\ Announced(s) => Announced(s)'
          /\ StaleEvent(s)' => StaleEvent(s)
      BY <2>1, <2>3, <2>4, <3>1 DEF Heralded, Announced, StaleEvent
    <3> QED BY <1>2, <2>1, <3>2 DEF Accounted, Explained, Late
  <2>5. ResyncDue' = ResyncDue
    BY <2>1 DEF ResyncDue
  <2> QED BY <1>4, <2>1, <2>3, <2>4, <2>5
<1>8. CASE Connect \/ Resubscribe
  <2>1. db' = db /\ excused' = excused /\ notes' = notes
    BY <1>8 DEF Connect, Resubscribe
  <2>2. /\ Range(queue) \subseteq Range(queue)' /\ OnTheWay \subseteq OnTheWay'
        /\ \A e \in OnTheWay' : e \in OnTheWay \/ e = [kind |-> "resync"]
        /\ ResyncDue /\ link = "open" => [kind |-> "resync"] \in Range(queue)'
    BY <1>1, <1>8, EventsAfter DEF OnTheWay
  <2>3. ResyncDue /\ link = "open" => RereadDue'
    <3>1. [kind |-> "resync"].kind = "resync"
      OBVIOUS
    <3> QED BY <2>2, <3>1 DEF RereadDue
  <2>4. ASSUME NEW s \in Receipts
        PROVE  /\ Accounted(s) => Accounted(s)'
               /\ Explained(s) => Explained(s)'
               /\ Late(s)' => Late(s)
    <3>1. /\ Heralded(s) => Heralded(s)'
          /\ Announced(s) => Announced(s)'
          /\ StaleEvent(s)' => StaleEvent(s)
      BY <2>1, <2>2 DEF Heralded, Announced, StaleEvent
    <3> QED BY <1>2, <2>1, <3>1 DEF Accounted, Explained, Late
  <2> QED BY <1>4, <2>1, <2>2, <2>3, <2>4
<1>9. CASE ConnectFails \/ GoDeaf \/ EchoMissing
  <2>1. db' = db /\ excused' = excused /\ OnTheWay' = OnTheWay /\ queue' = queue /\ ResyncDue'
    BY <1>9 DEF ConnectFails, GoDeaf, EchoMissing, OnTheWay, ResyncDue
  <2>2. \A s \in Receipts : Accounted(s) => Accounted(s)'
    BY <1>2, <2>1 DEF Accounted, Heralded
  <2> QED BY <1>4, <2>1, <2>2
<1>10. ASSUME NEW l \in lookups, LookUp(l) PROVE InStep
  <2>1. /\ db' = db /\ excused' = excused /\ notes' = notes /\ listener' = listener /\ missed' = missed
        /\ l.standing = "unread"
    BY <1>10 DEF LookUp
  <2>2. l \in Unread
    BY <1>1, <2>1, OnTheWayTypes, EventKinds
  <2>3. PICK e : e = [l EXCEPT !.standing = db[l.receipt]]
    OBVIOUS
  <2>4. e.kind = "receipt" /\ e.receipt = l.receipt /\ e.standing = db[l.receipt] /\ l.kind = "receipt"
    BY <2>2, <2>3 DEF Unread
  <2>5. Range(queue)' = Range(queue) /\ OnTheWay' = (lookups \ {l}) \cup {e} \cup Range(queue)
    BY <1>1, <1>10, <2>3, EventsAfter
  <2>6. /\ e \in OnTheWay' /\ \A f \in OnTheWay : f = l \/ f \in OnTheWay'
        /\ \A f \in OnTheWay' : f = e \/ f \in OnTheWay
    BY <2>5 DEF OnTheWay
  <2>7. ASSUME NEW s \in Receipts
        PROVE  /\ Accounted(s) => Accounted(s)'
               /\ Explained(s) => Explained(s)'
               /\ Late(s)' => Late(s)
    <3>1. /\ Heralded(s) => Heralded(s)'
          /\ Announced(s) => Announced(s)'
          /\ StaleEvent(s)' => StaleEvent(s) \/ db[s] # "settled"
      BY <2>1, <2>4, <2>6 DEF Heralded, Announced, StaleEvent
    <3> QED BY <1>2, <2>1, <3>1 DEF Accounted, Explained, Late
  <2>8. ResyncDue' = ResyncDue
    BY <2>1 DEF ResyncDue
  <2> QED BY <1>4, <2>1, <2>5, <2>7, <2>8
<1>11. ASSUME NEW l \in lookups, LookUpFails(l) PROVE InStep
  <2>1. /\ db' = db /\ excused' = excused \cup {l.receipt} /\ notes' = notes
        /\ listener' = listener /\ missed' = missed
    BY <1>11 DEF LookUpFails
  <2>2. Range(queue)' = Range(queue) /\ OnTheWay' = (lookups \ {l}) \cup Range(queue)
    BY <1>1, <1>11, EventsAfter
  <2>3. /\ \A f \in OnTheWay : f = l \/ f \in OnTheWay'
        /\ \A f \in OnTheWay' : f \in OnTheWay
    BY <2>2 DEF OnTheWay
  <2>4. ASSUME NEW s \in Receipts
        PROVE  /\ Accounted(s) => Accounted(s)'
               /\ Explained(s) => Explained(s)'
               /\ Late(s)' => Late(s)
    <3>1. /\ Heralded(s) => Heralded(s)' \/ s = l.receipt
          /\ Announced(s) => Announced(s)' \/ s = l.receipt
          /\ StaleEvent(s)' => StaleEvent(s)
      BY <2>1, <2>3 DEF Heralded, Announced, StaleEvent
    <3> QED BY <1>2, <2>1, <3>1 DEF Accounted, Explained, Late
  <2>5. ResyncDue' = ResyncDue
    BY <2>1 DEF ResyncDue
  <2> QED BY <1>4, <2>1, <2>2, <2>4, <2>5
<1>12. ASSUME NEW l \in lookups, Deliver(l) PROVE InStep
  <2>1. /\ db' = db /\ excused' = excused /\ notes' = notes /\ listener' = listener /\ missed' = missed
    BY <1>12 DEF Deliver
  <2>2. Range(queue) \subseteq Range(queue)' /\ (link = "open" => OnTheWay' = OnTheWay)
    BY <1>1, <1>12, EventsAfter
  <2>3. ASSUME link = "open", NEW s \in Receipts
        PROVE  /\ Accounted(s) => Accounted(s)'
               /\ Explained(s) => Explained(s)'
               /\ Late(s)' => Late(s)
    BY <1>2, <2>1, <2>2, <2>3 DEF Accounted, Explained, Late, Heralded, Announced, StaleEvent
  <2>4. ResyncDue' = ResyncDue
    BY <2>1 DEF ResyncDue
  <2> QED BY <1>4, <2>1, <2>2, <2>3, <2>4
<1>13. QED
  BY <1>5, <1>6, <1>7, <1>8, <1>9, <1>10, <1>11, <1>12 DEF ListenerStep, LookupStep

\* Events that arrive, and requests for older pages.
LEMMA AccountKeptByEvents ==
  ASSUME FeedInv, FeedTypes', FeedNext, ReceiptArrives \/ SettlementArrives \/ AskOlder \/ PageFails(Older)
  PROVE  OnScreen' /\ OlderInStep' /\ SnapshotInStep'
<1> USE DEF listenVars, screenVars
<1> DEFINE InStep == OnScreen' /\ OlderInStep' /\ SnapshotInStep'
<1>1. FeedTypes /\ NothingAhead /\ PagesFit /\ OnScreen /\ OlderInStep /\ SnapshotInStep
  BY DEF FeedInv
<1>2. UNCHANGED <<link, cursor, loaded, crossed, listener, missed, notes, db>>
  BY DEF ReceiptArrives, SettlementArrives, AskOlder, PageFails
<1>3. \A q \in Snapshots : pages[q] # NoPage => link = "open"
  BY <1>1 DEF PagesFit, Requests
<1>4. ResyncDue' = ResyncDue
  BY <1>2 DEF ResyncDue
<1>5. ASSUME \A q \in Snapshots : pages'[q] = pages[q],
             pages'[Older] = pages[Older] \/ ~ IsRead(Older)',
             RereadDue => RereadDue',
             \A r \in Receipts : Accounted(r) => Accounted(r)',
             \A r \in Receipts : rows[r] = "settled" => rows'[r] = "settled",
             \A r \in Receipts :
               /\ Explained(r) => Explained(r)' \/ rows'[r] = "settled"
               /\ Late(r)' => \/ Explained(r)'
                              \/ Late(r) /\ (rows'[r] = rows[r] \/ (rows[r] = "hidden" /\ r >= cursor))
      PROVE  InStep
  BY <1>1, <1>2, <1>3, <1>4, <1>5, CarriedOver
<1>6. CASE AskOlder \/ PageFails(Older)
  <2>1. Older \notin Snapshots /\ Older \in Requests
    BY FeedAssumption DEF Requests
  <2>2. /\ \A q \in Snapshots : pages'[q] = pages[q]
        /\ pages'[Older] \in {NoPage, Asked(cursor)}
        /\ rows' = rows /\ excused' = excused /\ queue' = queue /\ lookups' = lookups
    BY <1>1, <1>6, <2>1 DEF AskOlder, PageFails, FeedTypes, Requests
  <2>3. ~ IsRead(Older)'
    BY <2>2 DEF IsRead, Asked
  <2>4. OnTheWay' = OnTheWay /\ RereadDue' = RereadDue
    BY <2>2 DEF OnTheWay, RereadDue
  <2>5. \A r \in Receipts : /\ Accounted(r)' = Accounted(r) /\ Explained(r)' = Explained(r)
                            /\ Late(r)' = Late(r) /\ rows'[r] = rows[r]
    BY <1>2, <2>2, <2>4 DEF Accounted, Heralded, Explained, Announced, Late, StaleEvent
  <2> QED BY <1>5, <2>2, <2>3, <2>4, <2>5
<1>7. CASE ReceiptArrives \/ SettlementArrives
  <2>1. pages' = pages
    BY <1>7 DEF ReceiptArrives, SettlementArrives
  <2>2. PICK e : e = Head(queue)
    OBVIOUS
  <2>3. /\ Range(queue) = Range(queue)' \cup {e} /\ OnTheWay = OnTheWay' \cup {e} /\ e \in Events
        /\ e.kind \in {"receipt", "settlement"}
    BY <1>1, <1>7, <2>2, EventsAfter DEF ReceiptArrives, SettlementArrives
  <2>4. e.receipt \in Receipts /\ e.standing \in Standings
    BY <2>3, EventKinds DEF ReceiptEvents, SettlementEvents, Standings
  <2>5. RereadDue => RereadDue'
    BY <2>3 DEF RereadDue
  <2>6. ASSUME NEW s \in Receipts
        PROVE  /\ Heralded(s) => Heralded(s)' \/ (e.kind = "receipt" /\ s = e.receipt)
               /\ Announced(s) => Announced(s)' \/ (e.kind = "settlement" /\ s = e.receipt)
               /\ StaleEvent(s)' => StaleEvent(s)
    BY <1>2, <2>3 DEF Heralded, Announced, StaleEvent
  <2>7. CASE ReceiptArrives
    <3>1. e.kind = "receipt"
      BY <2>2, <2>7 DEF ReceiptArrives
    <3>2. /\ rows'[e.receipt] = IF rows[e.receipt] # "settled" THEN e.standing ELSE "settled"
          /\ \A s \in Receipts : s # e.receipt => rows'[s] = rows[s]
          /\ excused \subseteq excused'
          /\ rows[e.receipt] = "hidden" /\ e.receipt < cursor => e.receipt \in excused'
      BY <1>1, <2>2, <2>4, <2>7 DEF ReceiptArrives, Merged, FeedTypes
    <3>3. e \in OnTheWay
      BY <2>3
    <3>4. e.receipt \in Nat /\ cursor \in Nat
      BY <1>1, <2>4 DEF FeedTypes, Receipts
    <3>5. ASSUME NEW s \in Receipts
          PROVE  /\ Accounted(s) => Accounted(s)'
                 /\ rows[s] = "settled" => rows'[s] = "settled"
                 /\ Explained(s) => Explained(s)'
                 /\ Late(s)' => \/ Explained(s)'
                                \/ Late(s) /\ (rows'[s] = rows[s] \/ (rows[s] = "hidden" /\ s >= cursor))
      <4>1. rows'[e.receipt] # "hidden"
        BY <2>4, <3>2 DEF Standings
      <4>2. Accounted(s) => Accounted(s)'
        BY <2>6, <3>2, <4>1 DEF Accounted
      <4>3. Explained(s) => Explained(s)'
        BY <2>6, <3>1, <3>2 DEF Explained
      <4>4. ASSUME Late(s)'
            PROVE  \/ Explained(s)'
                   \/ Late(s) /\ (rows'[s] = rows[s] \/ (rows[s] = "hidden" /\ s >= cursor))
        <5>1. CASE s # e.receipt
          BY <1>2, <2>6, <3>2, <4>4, <5>1 DEF Late
        <5>2. CASE s = e.receipt
          <6>1. rows'[s] = "accrued" /\ db[s] = "settled" /\ e.standing = "accrued" /\ rows[s] # "settled"
            BY <1>2, <2>4, <3>2, <4>1, <4>4, <5>2 DEF Late, Standings
          <6>2. StaleEvent(s)
            BY <3>1, <3>3, <5>2, <6>1 DEF StaleEvent
          <6>3. rows[s] = "accrued" \/ rows[s] = "hidden"
            BY <1>1, <6>1 DEF FeedTypes, Standings
          <6>4. rows[s] = "hidden" => s >= cursor \/ s \in excused'
            BY <3>2, <3>4, <5>2
          <6> QED BY <6>1, <6>2, <6>3, <6>4 DEF Late, Explained
        <5> QED BY <5>1, <5>2
      <4> QED BY <3>2, <4>2, <4>3, <4>4
    <3> QED BY <1>5, <2>1, <2>5, <3>5
  <2>8. CASE SettlementArrives
    <3>1. e.kind = "settlement"
      BY <2>2, <2>8 DEF SettlementArrives
    <3>2. /\ \A s \in Receipts : rows'[s] = rows[s] \/ rows'[s] = "settled"
          /\ excused \subseteq excused'
          /\ e.receipt \in excused' \/ rows'[e.receipt] = "settled"
          /\ \A s \in Receipts : rows[s] = "hidden" => rows'[s] = "hidden"
      BY <1>1, <2>2, <2>4, <2>8 DEF SettlementArrives, FeedTypes
    <3>3. ASSUME NEW s \in Receipts
          PROVE  /\ Accounted(s) => Accounted(s)'
                 /\ rows[s] = "settled" => rows'[s] = "settled"
                 /\ Explained(s) => Explained(s)' \/ rows'[s] = "settled"
                 /\ Late(s)' => Late(s) /\ rows'[s] = rows[s]
      <4>1. Accounted(s) => Accounted(s)'
        BY <2>6, <3>1, <3>2 DEF Accounted
      <4>2. Explained(s) => Explained(s)' \/ rows'[s] = "settled"
        BY <2>6, <3>2 DEF Explained
      <4>3. Late(s)' => Late(s) /\ rows'[s] = rows[s]
        BY <1>2, <2>6, <3>2 DEF Late
      <4> QED BY <3>2, <4>1, <4>2, <4>3
    <3> QED BY <1>5, <2>1, <2>5, <3>3
  <2> QED BY <1>7, <2>7, <2>8
<1>8. QED
  BY <1>6, <1>7

\* While a stream is down, or has just said `ready`, nothing is owed to it yet.
LEMMA AccountKeptByStream ==
  ASSUME FeedInv, FeedTypes', FeedNext,
         Open \/ Drop \/ GatewayRestart \/ \E q \in Snapshots : PageFails(q)
  PROVE  OnScreen' /\ OlderInStep' /\ SnapshotInStep'
<1>1. FeedTypes /\ PagesFit
  BY DEF FeedInv
<1>2. \A q \in Snapshots : pages'[q] = NoPage
  <2>1. \A q \in Snapshots : q # Older /\ q \in Requests
    BY FeedAssumption DEF Requests
  <2>2. CASE Open
    BY <1>1, <2>1, <2>2 DEF Open, PagesFit, FeedTypes
  <2>3. CASE Drop \/ GatewayRestart \/ \E q \in Snapshots : PageFails(q)
    BY <2>1, <2>3 DEF Drop, GatewayRestart, PageFails, WithoutSnapshots
  <2> QED BY <2>2, <2>3
<1>3. SnapshotInStep'
  BY <1>2 DEF SnapshotInStep, IsRead
<1>4. ~ Current'
  <2>1. CASE Open
    <3>1. queue' = <<[kind |-> "ready"]>>
      BY <2>1 DEF Open
    <3>2. [kind |-> "ready"] \in Range(queue)'
      BY <3>1 DEF Range
    <3>3. [kind |-> "ready"].kind = "ready"
      OBVIOUS
    <3> QED BY <3>2, <3>3 DEF Current, Reloading, RereadDue
  <2>2. CASE Drop \/ GatewayRestart \/ \E q \in Snapshots : PageFails(q)
    <3>1. link' = "down"
      BY <2>2, FeedAssumption DEF Drop, GatewayRestart, PageFails
    <3> QED BY <3>1 DEF Current
  <2> QED BY <2>1, <2>2
<1>5. QED
  BY <1>3, <1>4 DEF OnScreen, OlderInStep

\* The first page is asked for: until it arrives, it makes up for what is missing.
LEMMA AccountKeptByReread ==
  ASSUME FeedInv, FeedTypes', FeedNext, NEW q \in Snapshots, Reread(q)
  PROVE  OnScreen' /\ OlderInStep' /\ SnapshotInStep'
<1> USE DEF listenVars, screenVars
<1>1. FeedTypes /\ PagesFit /\ SnapshotInStep
  BY DEF FeedInv
<1>2. /\ q \in Requests /\ pages'[q] = Asked(N + 1) /\ \A p \in Requests : p # q => pages'[p] = pages[p]
      /\ UNCHANGED <<db, rows, excused, notes>>
  BY <1>1 DEF Reread, FeedTypes, Requests
<1>3. pages'[q] # NoPage /\ ~ IsRead(q)'
  BY <1>2, FeedAssumption DEF IsRead, Asked, NoPage
<1>4. ~ Current'
  BY <1>3 DEF Current, Reloading
<1>5. \A p \in Snapshots \ {q} : ~ LastReload(p)'
  BY <1>3 DEF LastReload
<1>6. ASSUME NEW p \in Snapshots, IsRead(p)', ~ pages'[p].passed
      PROVE  \A r \in Receipts : db'[r] # "none" /\ Reaches(p, r)' => InPage(p, r)' \/ Accounted(r)'
  <2>1. p # q /\ pages'[p] = pages[p]
    BY <1>2, <1>3, <1>6 DEF Requests
  <2>2. IsRead(p) /\ ~ pages[p].passed
        /\ \A r : InPage(p, r)' = InPage(p, r) /\ Reaches(p, r)' = Reaches(p, r)
    BY <1>6, <2>1 DEF IsRead, InPage, Items, Reaches
  <2>3. OnTheWay = OnTheWay' \cup {Head(queue)} /\ Head(queue).kind \in {"ready", "resync"}
    BY <1>1, EventsAfter DEF Reread
  <2>4. \A r \in Receipts : Accounted(r) => Accounted(r)'
    BY <1>2, <2>3 DEF Accounted, Heralded
  <2> QED BY <1>1, <1>2, <2>2, <2>4 DEF SnapshotInStep
<1>7. QED
  BY <1>3, <1>4, <1>5, <1>6 DEF OnScreen, OlderInStep, SnapshotInStep

\* When only requests change, what is on the screen, on its way or announced stays as it was.
LEMMA SameAccount ==
  ASSUME UNCHANGED <<db, rows, excused, notes, lookups, queue, listener, missed>>
  PROVE  /\ \A r : /\ Accounted(r)' = Accounted(r) /\ Explained(r)' = Explained(r)
                   /\ Late(r)' = Late(r)
         /\ OnTheWay' = OnTheWay /\ RereadDue' = RereadDue /\ ResyncDue' = ResyncDue
<1>1. OnTheWay' = OnTheWay /\ RereadDue' = RereadDue /\ ResyncDue' = ResyncDue
  BY DEF OnTheWay, RereadDue, ResyncDue
<1>2. QED
  BY <1>1 DEF Accounted, Heralded, Explained, Announced, Late, StaleEvent

\* A request that a step leaves alone says what it said.
LEMMA SameRequest ==
  ASSUME NEW q, pages'[q] = pages[q], UNCHANGED <<db, rows>>
  PROVE  /\ IsRead(q)' = IsRead(q) /\ pages'[q].passed = pages[q].passed
         /\ \A r : /\ InPage(q, r)' = InPage(q, r) /\ Reaches(q, r)' = Reaches(q, r)
                   /\ LateItem(q, r)' = LateItem(q, r)
  BY DEF IsRead, InPage, Items, Reaches, LateItem

\* A page that was just read holds all the tables have, as they have it.
LEMMA AccountKeptByRead ==
  ASSUME FeedInv, FeedTypes', FeedNext, NEW q \in Requests, ReadPage(q)
  PROVE  OnScreen' /\ OlderInStep' /\ SnapshotInStep'
<1> USE DEF listenVars, screenVars
<1>1. FeedTypes /\ OnScreen /\ OlderInStep /\ SnapshotInStep
  BY DEF FeedInv
<1>2. UNCHANGED <<db, rows, excused, notes, lookups, queue, listener, missed, link, cursor, loaded, crossed>>
  BY DEF ReadPage
<1>3. PICK page : page = Listed(pages[q].from)
  OBVIOUS
<1>4. /\ pages'[q] = [from |-> pages[q].from, read |-> TRUE, passed |-> FALSE, page |-> page]
      /\ \A p \in Requests : p # q => pages'[p] = pages[p]
  BY <1>1, <1>3 DEF ReadPage, FeedTypes
<1>5. pages[q] # NoPage /\ pages'[q] # NoPage /\ IsRead(q)' /\ ~ pages'[q].passed
  <2>1. pages[q] # NoPage /\ pages[q] \in Requested
    BY <1>1, PageKinds DEF ReadPage, IsRead
  <2>2. pages[q].from # 0
    BY <2>1 DEF Requested
  <2> QED BY <1>4, <2>1, <2>2 DEF NoPage, IsRead
<1>6. \A r \in Receipts : /\ db'[r] # "none" /\ Reaches(q, r)' => InPage(q, r)'
                          /\ ~ LateItem(q, r)'
  <2>1. pages[q].from \in Nat
    BY <1>1, PageKinds DEF ReadPage, IsRead, Requested
  <2>2. /\ \A r \in DOMAIN page.items : page.items[r] = db[r]
        /\ \A r \in Receipts :
              db[r] # "none" /\ page.next <= r /\ r < pages[q].from => r \in DOMAIN page.items
    BY <1>1, <1>3, <2>1, ListedPage DEF FeedTypes
  <2> QED BY <1>2, <1>4, <2>2 DEF InPage, Items, Reaches, LateItem
<1>7. /\ \A r : Accounted(r)' = Accounted(r) /\ Explained(r)' = Explained(r) /\ Late(r)' = Late(r)
      /\ RereadDue' = RereadDue /\ ResyncDue' = ResyncDue
  BY <1>2, SameAccount
<1>8. \A r : Late(r)' => db'[r] # "none"
  BY DEF Late
<1>9. \A p \in Snapshots : (pages'[p] = NoPage) = (pages[p] = NoPage)
  BY <1>4, <1>5 DEF Requests
<1>10. Current' = Current
  BY <1>2, <1>7, <1>9 DEF Current, Reloading
<1>11. OnScreen'
  BY <1>1, <1>2, <1>7, <1>10 DEF OnScreen
<1>12. ASSUME NEW p \in Requests, p # q
       PROVE  /\ IsRead(p)' = IsRead(p) /\ pages'[p].passed = pages[p].passed
              /\ \A r : /\ InPage(p, r)' = InPage(p, r) /\ Reaches(p, r)' = Reaches(p, r)
                        /\ LateItem(p, r)' = LateItem(p, r)
  BY <1>2, <1>4, <1>12, SameRequest
<1>13. Older \in Requests /\ Snapshots \subseteq Requests
  BY DEF Requests
<1>14. OlderInStep'
  <2>1. CASE q = Older
    BY <1>6, <1>8, <2>1 DEF OlderInStep
  <2>2. CASE q # Older
    BY <1>1, <1>2, <1>7, <1>10, <1>12, <1>13, <2>2 DEF OlderInStep
  <2> QED BY <2>1, <2>2
<1>15. SnapshotInStep'
  <2> SUFFICES ASSUME NEW p \in Snapshots, IsRead(p)', ~ pages'[p].passed
               PROVE  /\ \A r \in Receipts :
                           db'[r] # "none" /\ Reaches(p, r)' => InPage(p, r)' \/ Accounted(r)'
                      /\ LastReload(p)' =>
                           \A r \in Receipts :
                             /\ LateItem(p, r)' => Explained(r)'
                             /\ Reaches(p, r)' /\ ~ InPage(p, r)' =>
                                  /\ Late(r)' => Explained(r)'
                                  /\ IsRead(Older)' /\ LateItem(Older, r)' => Explained(r)'
    BY DEF SnapshotInStep
  <2>1. CASE p = q
    <3>1. \A r : LateItem(Older, r)' => db'[r] # "none"
      BY DEF LateItem
    <3> QED BY <1>6, <1>8, <2>1, <3>1
  <2>2. CASE p # q
    <3>1. LastReload(p)' = LastReload(p)
      BY <1>7, <1>9 DEF LastReload
    <3>2. \A r \in Receipts : IsRead(Older)' /\ LateItem(Older, r)' => IsRead(Older) /\ LateItem(Older, r)
      BY <1>6, <1>12, <1>13
    <3>3. IsRead(p) /\ ~ pages[p].passed
          /\ \A r : /\ InPage(p, r)' = InPage(p, r) /\ Reaches(p, r)' = Reaches(p, r)
                    /\ LateItem(p, r)' = LateItem(p, r)
      BY <1>12, <1>13, <2>2
    <3>4. /\ \A r \in Receipts : db[r] # "none" /\ Reaches(p, r) => InPage(p, r) \/ Accounted(r)
          /\ LastReload(p) =>
               \A r \in Receipts :
                 /\ LateItem(p, r) => Explained(r)
                 /\ Reaches(p, r) /\ ~ InPage(p, r) =>
                      /\ Late(r) => Explained(r)
                      /\ IsRead(Older) /\ LateItem(Older, r) => Explained(r)
      BY <1>1, <3>3 DEF SnapshotInStep
    <3> QED BY <1>2, <1>7, <3>1, <3>2, <3>3, <3>4
  <2> QED BY <2>1, <2>2
<1>16. QED
  BY <1>11, <1>14, <1>15

\* A first page replaces the screen: what it says is in step with what is still to come.
LEMMA AccountKeptBySnapshot ==
  ASSUME FeedInv, FeedTypes', FeedNext, NEW q \in Snapshots, SnapshotArrives(q)
  PROVE  OnScreen' /\ OlderInStep' /\ SnapshotInStep'
<1>1. FeedTypes /\ PagesFit /\ SnapshotInStep /\ q \in Requests /\ IsRead(q)
  BY DEF FeedInv, Requests, SnapshotArrives, IsRead
<1>2. PICK page : page = pages[q].page
  OBVIOUS
<1>3. /\ page \in Pages /\ page.next \in Nat /\ page.items = Items(q)
      /\ DOMAIN page.items \in SUBSET Receipts /\ page.items \in [DOMAIN page.items -> Standings]
  BY <1>1, <1>2, PageKinds DEF Items
<1>4. /\ pages'[q] = NoPage
      /\ \A p \in Requests \ {q} :
            /\ ~ IsRead(p) => pages'[p] = pages[p]
            /\ IsRead(p) => pages'[p] \in ReadPages /\ pages'[p].passed
  BY <1>1, PassedPages DEF SnapshotArrives
<1>5. UNCHANGED <<db, listener, missed, notes, lookups, link, queue>>
  BY DEF SnapshotArrives, listenVars
<1>6. \A p \in Requests : IsRead(p)' => pages'[p].passed
  <2>1. ~ IsRead(q)'
    BY <1>4 DEF IsRead
  <2>2. ASSUME NEW p \in Requests, p # q, ~ IsRead(p)
        PROVE  ~ IsRead(p)'
    BY <1>4, <2>2 DEF IsRead
  <2> QED BY <1>4, <2>1, <2>2
<1>7. OlderInStep' /\ SnapshotInStep'
  BY <1>6 DEF OlderInStep, SnapshotInStep, Requests
<1>8. OnTheWay' = OnTheWay /\ RereadDue' = RereadDue /\ ResyncDue' = ResyncDue
  BY <1>5 DEF OnTheWay, RereadDue, ResyncDue
<1>9. Current' => ~ RereadDue /\ \A p \in Snapshots \ {q} : pages[p] = NoPage
  <2>1. ASSUME NEW p \in Snapshots \ {q}, pages'[p] = NoPage
        PROVE  pages[p] = NoPage
    <3>1. p \in Requests \ {q}
      BY DEF Requests
    <3> QED BY <1>1, <1>4, <2>1, <3>1, PageKinds
  <2> QED BY <1>8, <2>1 DEF Current, Reloading
<1>10. \A r \in Receipts :
         rows'[r] = IF r \in DOMAIN page.items /\ Kept(page)[r] # "settled" THEN page.items[r]
                    ELSE Kept(page)[r]
  <2>1. Kept(page) \in [Receipts -> {"hidden"} \cup Standings]
    BY <1>1, <1>3, KeptRows DEF FeedTypes
  <2>2. rows' = Merged(Kept(page), page.items)
    BY <1>2 DEF SnapshotArrives
  <2> QED BY <1>3, <2>1, <2>2, MergedRows
<1>11. \A r \in Receipts :
         Kept(page)[r] = IF page.next = 0 \/ r > page.next THEN rows[r] ELSE "hidden"
  BY <1>1, <1>3, KeptRows DEF FeedTypes
<1>12. cursor' = page.next /\ excused' = (excused \ Shown(page.items)) \cup TakenBack(page)
       /\ crossed' = pages[q].passed
  BY <1>2 DEF SnapshotArrives
<1>13. \A r \in Receipts : r >= page.next => Reaches(q, r)
  <2>1. N \in Nat /\ pages[q].from = N + 1 /\ Receipts = 1..N
    BY <1>1, FeedAssumption, PageKinds DEF PagesFit, Receipts, IsRead
  <2> QED BY <1>2, <1>3, <2>1 DEF Reaches
<1>14. /\ \A r \in DOMAIN page.items : r >= page.next
       /\ page.next # 0 => page.next \in DOMAIN page.items
  <2>1. /\ \A r \in DOMAIN page.items : page.next <= r
        /\ page.next # 0 => page.next \in DOMAIN page.items
    BY <1>1, <1>2, <1>3 DEF PagesFit, Reaches
  <2>2. \A r \in DOMAIN page.items : r \in Nat
    BY <1>3 DEF Receipts
  <2> QED BY <1>3, <2>1, <2>2
<1>15. \A r \in Receipts : r >= page.next /\ r \notin DOMAIN page.items => rows'[r] = rows[r]
  <2>1. \A r \in Receipts : r >= page.next /\ r # page.next => r > page.next
    BY <1>3 DEF Receipts
  <2> QED BY <1>10, <1>11, <1>14, <2>1
<1>16. \A r : InPage(q, r) <=> r \in DOMAIN page.items
  BY <1>3 DEF InPage
<1>17. \A r : r \in excused /\ (r \in DOMAIN page.items => page.items[r] # db[r]) => r \in excused'
  BY <1>12 DEF Shown
<1>18. ASSUME ~ crossed', NEW r \in Receipts, db'[r] # "none", r >= cursor'
       PROVE  Accounted(r)'
  <2>1. CASE r \in DOMAIN page.items
    <3>1. page.items[r] \in Standings
      BY <1>3, <2>1
    <3>2. rows'[r] # "hidden"
      BY <1>10, <2>1, <3>1 DEF Standings
    <3> QED BY <3>2 DEF Accounted
  <2>2. CASE r \notin DOMAIN page.items
    <3>1. Accounted(r)
      BY <1>1, <1>5, <1>12, <1>13, <1>16, <1>18, <2>2 DEF SnapshotInStep
    <3>2. rows'[r] = rows[r]
      BY <1>12, <1>15, <1>18, <2>2
    <3> QED BY <1>8, <1>17, <2>2, <3>1, <3>2 DEF Accounted, Heralded
  <2> QED BY <2>1, <2>2
<1>19. ASSUME ~ crossed', Current', ~ ResyncDue', NEW r \in Receipts, Late(r)',
              rows'[r] = "accrued" \/ r >= cursor'
       PROVE  Explained(r)'
  <2>1. LastReload(q)
    BY <1>8, <1>9, <1>19 DEF LastReload
  <2>2. db[r] = "settled"
    BY <1>5, <1>19 DEF Late
  <2>3. Explained(r) /\ (r \in DOMAIN page.items => page.items[r] = "accrued") => Explained(r)'
    BY <1>5, <1>8, <1>17, <2>2 DEF Explained, Announced
  <2>4. CASE r \in DOMAIN page.items
    <3>1. page.items[r] \in Standings
      BY <1>3, <2>4
    <3>2. page.items[r] = "accrued" /\ Kept(page)[r] # "settled"
      BY <1>10, <1>19, <2>4, <3>1 DEF Late, Standings
    <3>3. CASE rows[r] = "settled"
      <4>1. r = page.next
        <5>1. ~ (r > page.next) /\ r >= page.next
          BY <1>11, <1>14, <2>4, <3>2, <3>3
        <5> QED BY <1>3, <5>1 DEF Receipts
      <4>2. r \in TakenBack(page)
        BY <2>4, <3>2, <3>3, <4>1 DEF TakenBack
      <4> QED BY <1>12, <4>2 DEF Explained
    <3>4. CASE rows[r] # "settled"
      <4>1. LateItem(q, r)
        BY <1>3, <1>16, <2>2, <2>4, <3>2, <3>4 DEF LateItem
      <4>2. Explained(r)
        BY <1>1, <1>12, <1>19, <2>1, <4>1 DEF SnapshotInStep
      <4> QED BY <2>3, <3>2, <4>2
    <3> QED BY <3>3, <3>4
  <2>5. CASE r \notin DOMAIN page.items
    <3>1. r >= page.next
      <4>1. CASE rows'[r] = "accrued"
        <5>1. page.next = 0 \/ r > page.next
          BY <1>10, <1>11, <2>5, <4>1
        <5> QED BY <1>3, <5>1 DEF Receipts
      <4> QED BY <1>12, <1>19, <4>1
    <3>2. rows'[r] = rows[r]
      BY <1>15, <2>5, <3>1
    <3>3. Late(r)
      BY <1>5, <1>8, <1>19, <3>2 DEF Late, StaleEvent
    <3>4. Explained(r)
      BY <1>1, <1>12, <1>13, <1>16, <1>19, <2>1, <2>5, <3>1, <3>3 DEF SnapshotInStep
    <3> QED BY <2>3, <2>5, <3>4
  <2> QED BY <2>4, <2>5
<1>20. OnScreen'
  BY <1>18, <1>19 DEF OnScreen
<1>21. QED
  BY <1>7, <1>20

\* An older page joins the rows above it, or is put aside.
LEMMA AccountKeptByOlder ==
  ASSUME FeedInv, FeedTypes', FeedNext, OlderArrives
  PROVE  OnScreen' /\ OlderInStep' /\ SnapshotInStep'
<1>1. /\ FeedTypes /\ PagesFit /\ OnScreen /\ OlderInStep /\ SnapshotInStep
      /\ Older \in Requests /\ Older \notin Snapshots /\ Snapshots \subseteq Requests /\ IsRead(Older)
  BY FeedAssumption DEF FeedInv, Requests, OlderArrives, IsRead
<1>2. UNCHANGED <<db, listener, missed, notes, lookups, link, queue, loaded>>
  BY DEF OlderArrives, listenVars
<1>3. pages'[Older] = NoPage /\ ~ IsRead(Older)' /\ \A p \in Snapshots : pages'[p] = pages[p]
  BY <1>1 DEF OlderArrives, FeedTypes, IsRead
<1>4. OlderInStep'
  BY <1>3 DEF OlderInStep
<1>5. OnTheWay' = OnTheWay /\ RereadDue' = RereadDue /\ ResyncDue' = ResyncDue
  BY <1>2 DEF OnTheWay, RereadDue, ResyncDue
<1>6. CASE ~ StillWanted
  <2>1. UNCHANGED <<rows, cursor, excused, crossed>>
    BY <1>6 DEF OlderArrives
  <2>2. \A r : Accounted(r)' = Accounted(r) /\ Explained(r)' = Explained(r) /\ Late(r)' = Late(r)
    BY <1>2, <2>1, SameAccount
  <2>3. \A q \in Snapshots : pages[q] # NoPage => link = "open"
    BY <1>1 DEF PagesFit
  <2>4. \A r \in Receipts : db[r] = "none" => db'[r] = "none"
    BY <1>2
  <2>5. ASSUME NEW r \in Receipts
        PROVE  /\ rows[r] = "settled" => rows'[r] = "settled"
               /\ Accounted(r) => Accounted(r)'
               /\ Explained(r) => Explained(r)' \/ rows'[r] = "settled"
               /\ db[r] # "settled" /\ db'[r] = "settled" => Explained(r)'
               /\ Late(r)' => \/ Explained(r)'
                              \/ Late(r) /\ (rows'[r] = rows[r] \/ (rows[r] = "hidden" /\ r >= cursor))
    BY <1>2, <2>1, <2>2
  <2> QED BY <1>1, <1>2, <1>3, <1>5, <2>1, <2>3, <2>4, <2>5, CarriedOver
<1>7. CASE StillWanted
  <2>1. PICK page : page = pages[Older].page
    OBVIOUS
  <2>2. /\ page \in Pages /\ page.next \in Nat /\ page.items = Items(Older)
        /\ DOMAIN page.items \in SUBSET Receipts /\ page.items \in [DOMAIN page.items -> Standings]
        /\ pages[Older].passed \in BOOLEAN
    BY <1>1, <2>1, PageKinds DEF Items
  <2>3. /\ rows' = Merged(rows, page.items) /\ cursor' = page.next
        /\ excused' = excused \ Shown(page.items)
        /\ crossed' = (crossed \/ pages[Older].passed)
        /\ loaded /\ cursor = pages[Older].from
    BY <1>7, <2>1 DEF OlderArrives, StillWanted
  <2>4. ASSUME NEW r \in Receipts
        PROVE  /\ rows'[r] = IF r \in DOMAIN page.items /\ rows[r] # "settled" THEN page.items[r]
                             ELSE rows[r]
               /\ r \in DOMAIN page.items => rows'[r] # "hidden" /\ page.items[r] \in Standings
               /\ rows[r] # "hidden" => rows'[r] # "hidden"
               /\ rows[r] = "settled" => rows'[r] = "settled"
    <3>1. rows'[r] = IF r \in DOMAIN page.items /\ rows[r] # "settled" THEN page.items[r] ELSE rows[r]
      BY <1>1, <2>2, <2>3, MergedRows DEF FeedTypes
    <3>2. r \in DOMAIN page.items => page.items[r] \in Standings
      BY <2>2
    <3> QED BY <3>1, <3>2 DEF Standings
  <2>5. \A r : InPage(Older, r) <=> r \in DOMAIN page.items
    BY <2>2 DEF InPage
  <2>6. \A r \in Receipts : r < cursor \/ r >= cursor
    BY <1>1 DEF FeedTypes, Receipts
  <2>7. \A r \in Receipts : r >= page.next => r >= cursor \/ Reaches(Older, r)
    BY <2>1, <2>2, <2>3, <2>6 DEF Reaches, Receipts
  <2>8. \A r \in DOMAIN page.items : ~ (r >= cursor)
    <3>1. \A r \in DOMAIN page.items : r < cursor /\ r \in Nat /\ cursor \in Nat
      BY <1>1, <2>2, <2>3 DEF PagesFit, Reaches, FeedTypes, Receipts
    <3> QED BY <3>1
  <2>9. ASSUME NEW r \in Receipts, Accounted(r) \/ InPage(Older, r)
        PROVE  Accounted(r)'
    <3>1. r \in excused => r \in excused' \/ r \in DOMAIN page.items
      BY <2>3 DEF Shown
    <3> QED BY <1>5, <2>4, <2>5, <2>9, <3>1 DEF Accounted, Heralded
  <2>10. ASSUME NEW r \in Receipts, Explained(r), rows'[r] # "settled", db[r] = "settled"
         PROVE  Explained(r)'
    <3>1. r \in DOMAIN page.items => page.items[r] # db[r]
      BY <2>4, <2>10
    <3>2. r \in excused => r \in excused'
      BY <2>3, <3>1 DEF Shown
    <3> QED BY <1>2, <1>5, <2>10, <3>2 DEF Explained, Announced
  <2>11. ASSUME NEW r \in Receipts, Late(r)'
         PROVE  /\ rows'[r] # "settled" /\ db[r] = "settled"
                /\ r \in DOMAIN page.items => LateItem(Older, r)
                /\ r \notin DOMAIN page.items => Late(r) /\ rows'[r] = rows[r]
    <3>1. rows'[r] # "settled" /\ db[r] = "settled"
      BY <1>2, <2>11 DEF Late
    <3>2. r \in DOMAIN page.items => page.items[r] = "accrued" /\ rows[r] # "settled"
      BY <2>4, <3>1 DEF Standings
    <3>3. r \notin DOMAIN page.items => Late(r) /\ rows'[r] = rows[r]
      BY <1>2, <1>5, <2>4, <2>11 DEF Late, StaleEvent
    <3> QED BY <2>2, <2>5, <3>1, <3>2, <3>3 DEF LateItem
  <2>12. OnScreen'
    <3> SUFFICES ASSUME Current', ~ crossed'
                 PROVE  /\ \A r \in Receipts : db'[r] # "none" /\ r >= cursor' => Accounted(r)'
                        /\ ~ ResyncDue' =>
                             \A r \in Receipts :
                               Late(r)' /\ (rows'[r] = "accrued" \/ r >= cursor') => Explained(r)'
      BY DEF OnScreen
    <3>1. Current /\ ~ crossed /\ ~ pages[Older].passed
      BY <1>1, <1>2, <1>3, <1>5, <2>2, <2>3 DEF Current, Reloading, FeedTypes
    <3>2. ASSUME NEW r \in Receipts, db'[r] # "none", r >= cursor'
          PROVE  Accounted(r)'
      <4>1. r >= cursor \/ Reaches(Older, r)
        BY <2>3, <2>7, <3>2
      <4>2. Accounted(r) \/ InPage(Older, r)
        BY <1>1, <1>2, <2>3, <3>1, <3>2, <4>1 DEF OnScreen, OlderInStep
      <4> QED BY <2>9, <4>2
    <3>3. ASSUME ~ ResyncDue', NEW r \in Receipts, Late(r)', rows'[r] = "accrued" \/ r >= cursor'
          PROVE  Explained(r)'
      <4>1. CASE r \in DOMAIN page.items
        <5>1. Explained(r)
          BY <1>1, <1>5, <2>11, <3>1, <3>3, <4>1 DEF OlderInStep
        <5> QED BY <2>10, <2>11, <3>3, <5>1
      <4>2. CASE r \notin DOMAIN page.items
        <5>1. Late(r) /\ rows'[r] = rows[r]
          BY <2>11, <3>3, <4>2
        <5>2. rows[r] = "accrued" \/ r >= cursor \/ (rows[r] = "hidden" /\ Reaches(Older, r))
          BY <2>3, <2>7, <3>3, <5>1 DEF Late
        <5>3. Explained(r)
          BY <1>1, <1>5, <2>3, <2>5, <3>1, <3>3, <4>2, <5>1, <5>2 DEF OnScreen, OlderInStep
        <5> QED BY <2>10, <2>11, <3>3, <5>3
      <4> QED BY <4>1, <4>2
    <3> QED BY <3>2, <3>3
  <2>13. SnapshotInStep'
    <3> SUFFICES ASSUME NEW p \in Snapshots, IsRead(p)', ~ pages'[p].passed
                 PROVE  /\ \A r \in Receipts :
                             db'[r] # "none" /\ Reaches(p, r)' => InPage(p, r)' \/ Accounted(r)'
                        /\ LastReload(p)' =>
                             \A r \in Receipts :
                               /\ LateItem(p, r)' => Explained(r)'
                               /\ Reaches(p, r)' /\ ~ InPage(p, r)' =>
                                    /\ Late(r)' => Explained(r)'
                                    /\ IsRead(Older)' /\ LateItem(Older, r)' => Explained(r)'
      BY DEF SnapshotInStep
    <3>1. /\ IsRead(p) /\ ~ pages[p].passed
          /\ \A r : InPage(p, r)' = InPage(p, r) /\ Reaches(p, r)' = Reaches(p, r)
      BY <1>3 DEF IsRead, InPage, Items, Reaches
    <3>2. LastReload(p)' = LastReload(p)
      BY <1>3, <1>5 DEF LastReload
    <3>3. /\ \A r \in Receipts : db[r] # "none" /\ Reaches(p, r) => InPage(p, r) \/ Accounted(r)
          /\ LastReload(p) =>
               \A r \in Receipts :
                 /\ LateItem(p, r) => Explained(r)
                 /\ Reaches(p, r) /\ ~ InPage(p, r) =>
                      /\ Late(r) => Explained(r)
                      /\ IsRead(Older) /\ LateItem(Older, r) => Explained(r)
      BY <1>1, <3>1 DEF SnapshotInStep
    <3>4. ASSUME NEW r \in Receipts, db'[r] # "none", Reaches(p, r)'
          PROVE  InPage(p, r)' \/ Accounted(r)'
      BY <1>2, <2>9, <3>1, <3>3, <3>4
    <3>5. ASSUME LastReload(p)', NEW r \in Receipts, LateItem(p, r)'
          PROVE  Explained(r)'
      <4>1. rows'[r] # "settled" /\ db[r] = "settled" /\ LateItem(p, r)
        BY <1>2, <1>3, <2>4, <3>5 DEF LateItem, InPage, Items
      <4> QED BY <2>10, <3>2, <3>3, <3>5, <4>1
    <3>6. ASSUME LastReload(p)', NEW r \in Receipts, Reaches(p, r)', ~ InPage(p, r)', Late(r)'
          PROVE  Explained(r)'
      <4>1. Explained(r)
        BY <1>1, <2>11, <3>1, <3>2, <3>3, <3>6
      <4> QED BY <2>10, <2>11, <3>6, <4>1
    <3> QED BY <1>3, <3>4, <3>5, <3>6
  <2> QED BY <1>4, <2>12, <2>13
<1>8. QED
  BY <1>6, <1>7

\* Every step keeps the account.
LEMMA FeedInvKept == FeedInv /\ [FeedNext]_feedVars => FeedInv'
<1> SUFFICES ASSUME FeedInv, [FeedNext]_feedVars PROVE FeedInv'
  OBVIOUS
<1>1. FeedTypes /\ NothingAhead /\ PagesFit /\ DownIsEmpty /\ OnScreen /\ OlderInStep /\ SnapshotInStep
  BY DEF FeedInv
<1>2. CASE FeedNext
  <2>1. FeedTypes'
    BY <1>1, <1>2, FeedTypesKept
  <2>2. NothingAhead'
    BY <1>1, <1>2, AheadKept
  <2>3. PagesFit' /\ DownIsEmpty'
    BY <1>1, <1>2, PagesFitKept
  <2>4. OnScreen' /\ OlderInStep' /\ SnapshotInStep'
    <3>1. CASE \/ \E r \in Receipts : Issue(r) \/ Settle(r) \/ Hear(r)
               \/ ListenerStep \/ LookupStep \/ \E l \in lookups : LookUpFails(l)
      BY <1>2, <2>1, <3>1, AccountKeptByGateway
    <3>2. CASE ReceiptArrives \/ SettlementArrives \/ AskOlder \/ PageFails(Older)
      BY <1>2, <2>1, <3>2, AccountKeptByEvents
    <3>3. CASE Open \/ Drop \/ GatewayRestart \/ \E q \in Snapshots : PageFails(q)
      BY <1>2, <2>1, <3>3, AccountKeptByStream
    <3>4. CASE \E q \in Snapshots : Reread(q)
      BY <1>2, <2>1, <3>4, AccountKeptByReread
    <3>5. CASE \E q \in Requests : ReadPage(q)
      BY <1>2, <2>1, <3>5, AccountKeptByRead
    <3>6. CASE \E q \in Snapshots : SnapshotArrives(q)
      BY <1>2, <2>1, <3>6, AccountKeptBySnapshot
    <3>7. CASE OlderArrives
      BY <1>2, <2>1, <3>7, AccountKeptByOlder
    <3> QED BY <1>2, <3>1, <3>2, <3>3, <3>4, <3>5, <3>6, <3>7 DEF FeedNext, BrowserStep, Requests
  <2> QED BY <2>1, <2>2, <2>3, <2>4 DEF FeedInv
<1>3. CASE UNCHANGED feedVars
  <2>1. UNCHANGED <<db, listener, missed, notes, lookups, link, queue, pages, rows, cursor, loaded,
                    excused, crossed>>
    BY <1>3 DEF feedVars, listenVars, screenVars
  <2>2. FeedTypes' /\ DownIsEmpty'
    BY <1>1, <2>1 DEF FeedTypes, DownIsEmpty
  <2>3. /\ \A r : Accounted(r)' = Accounted(r) /\ Explained(r)' = Explained(r) /\ Late(r)' = Late(r)
        /\ OnTheWay' = OnTheWay /\ RereadDue' = RereadDue /\ ResyncDue' = ResyncDue
    BY <2>1, SameAccount
  <2>4. NothingAhead'
    BY <1>1, <2>1, <2>3 DEF NothingAhead, IsTrue
  <2>5. PagesFit'
    BY <1>1, <2>1 DEF PagesFit, IsRead, Items, Reaches
  <2>6. Current' = Current /\ \A q : LastReload(q)' = LastReload(q)
    BY <2>1, <2>3 DEF Current, Reloading, LastReload
  <2>7. \A q : /\ IsRead(q)' = IsRead(q) /\ pages'[q].passed = pages[q].passed
               /\ \A r : /\ InPage(q, r)' = InPage(q, r) /\ Reaches(q, r)' = Reaches(q, r)
                         /\ LateItem(q, r)' = LateItem(q, r)
    BY <2>1, SameRequest
  <2>8. OnScreen' /\ OlderInStep' /\ SnapshotInStep'
    BY <1>1, <2>1, <2>3, <2>6, <2>7 DEF OnScreen, OlderInStep, SnapshotInStep
  <2> QED BY <2>2, <2>4, <2>5, <2>8 DEF FeedInv
<1>4. QED
  BY <1>2, <1>3

\* At the start nothing was promised.
LEMMA FeedInvAtStart == FeedInit => FeedInv
<1> SUFFICES ASSUME FeedInit PROVE FeedInv
  OBVIOUS
<1>1. Range(queue) = {} /\ OnTheWay = {} /\ \A q \in Requests : ~ IsRead(q)
  BY NoEvents DEF FeedInit, OnTheWay, IsRead
<1>2. FeedTypes
  BY NoEvents DEF FeedInit, FeedTypes
<1>3. NothingAhead
  BY <1>1 DEF FeedInit, NothingAhead
<1>4. PagesFit
  BY <1>1 DEF FeedInit, PagesFit, Requests
<1>5. ~ Current
  BY DEF FeedInit, Current
<1>6. QED
  BY <1>1, <1>2, <1>3, <1>4, <1>5 DEF FeedInv, FeedInit, DownIsEmpty, OnScreen, OlderInStep, SnapshotInStep,
     Requests

\* The account of the live feed, of every receipt and every settlement, holds throughout.
THEOREM FeedAccount == FeedSpec => []FeedInv
<1>1. FeedInit => FeedInv
  BY FeedInvAtStart
<1>2. FeedInv /\ [FeedNext]_feedVars => FeedInv'
  BY FeedInvKept
<1>3. QED
  BY <1>1, <1>2, PTL DEF FeedSpec

\* When all is quiet nothing is on its way, and nothing is being read again.
LEMMA QuietIs ==
  ASSUME FeedTypes, Quiet
  PROVE  Current /\ loaded /\ ~ ResyncDue /\ OnTheWay = {} /\ notes = {}
<1>1. Range(queue) = {} /\ OnTheWay = {}
  BY NoEvents DEF Quiet, OnTheWay
<1>2. ~ Reloading
  BY <1>1 DEF Quiet, Reloading, RereadDue, Requests
<1>3. QED
  BY <1>1, <1>2 DEF Quiet, Current, ResyncDue

\* However events, resyncs, reconnections and pages interleave, a quiet screen shows every
\* receipt at or above its cursor, except those whose event could not be looked up.
THEOREM NoGaps == FeedSpec => []NoGap
<1>1. FeedInv => NoGap
  <2> SUFFICES ASSUME FeedInv, Quiet, ~ crossed, NEW r \in Receipts, db[r] # "none", r >= cursor
               PROVE  rows[r] # "hidden" \/ r \in excused
    BY DEF NoGap
  <2>1. Current /\ loaded /\ OnTheWay = {}
    BY QuietIs DEF FeedInv
  <2>2. Accounted(r)
    BY <2>1 DEF FeedInv, OnScreen
  <2> QED BY <2>1, <2>2 DEF Accounted, Heralded
<1>2. QED
  BY <1>1, FeedAccount, PTL

\* On a quiet screen a settled receipt still reads accrued only for one of the reasons that
\* are known to leave it so.
THEOREM StaleExplained == FeedSpec => []StaleIsExplained
<1>1. FeedInv => StaleIsExplained
  <2> SUFFICES ASSUME FeedInv, Quiet, ~ crossed, NEW r \in Receipts, rows[r] = "accrued",
                      db[r] # "accrued"
               PROVE  r \in excused
    BY DEF StaleIsExplained
  <2>1. Current /\ loaded /\ ~ ResyncDue /\ OnTheWay = {} /\ notes = {}
    BY QuietIs DEF FeedInv
  <2>2. db[r] = "settled"
    BY DEF FeedInv, NothingAhead, FeedTypes, Standings
  <2>3. Explained(r)
    BY <2>1, <2>2 DEF FeedInv, OnScreen, Late
  <2> QED BY <2>1, <2>3 DEF Explained, Announced
<1>2. QED
  BY <1>1, FeedAccount, PTL

\* lib/feed: no page and no event that comes late takes a settlement back from a row, but for
\* the last row of a first page, which is then excused; and no row is ahead of the tables.
THEOREM SettlementsHold == FeedSpec => SettlementsStandAbove
<1> DEFINE Holds == \A r \in Receipts :
                      /\ rows[r] = "settled" => rows'[r] # "accrued" \/ (r = cursor' /\ r \in excused')
                      /\ rows'[r] = "settled" => db'[r] = "settled"
<1>1. ASSUME FeedInv, FeedInv', FeedNext
      PROVE  Holds
  <2>1. ASSUME NEW r \in Receipts, rows'[r] = "settled"
        PROVE  db'[r] = "settled"
    BY <1>1, <2>1 DEF FeedInv, NothingAhead
  <2>2. ASSUME NEW r \in Receipts, rows[r] = "settled", rows'[r] = "accrued"
        PROVE  r = cursor' /\ r \in excused'
    <3>1. FeedTypes /\ PagesFit
      BY <1>1 DEF FeedInv
    <3>2. rows' # rows
      BY <2>2
    <3>3. ~ (ReceiptArrives \/ SettlementArrives)
      <4>1. ASSUME ReceiptArrives
            PROVE  FALSE
        <5>1. PICK e : e = Head(queue)
          OBVIOUS
        <5>2. rows' = Merged(rows, [s \in {e.receipt} |-> e.standing])
          BY <4>1, <5>1 DEF ReceiptArrives
        <5> QED BY <2>2, <5>2 DEF Merged
      <4>2. ASSUME SettlementArrives
            PROVE  FALSE
        BY <2>2, <3>1, <4>2 DEF SettlementArrives, FeedTypes
      <4> QED BY <4>1, <4>2
    <3>4. ~ OlderArrives
      <4>1. ASSUME OlderArrives
            PROVE  FALSE
        <5>1. rows' = Merged(rows, pages[Older].page.items)
          BY <2>2, <4>1 DEF OlderArrives
        <5> QED BY <2>2, <5>1 DEF Merged
      <4> QED BY <4>1
    <3>5. PICK q \in Snapshots : SnapshotArrives(q)
      BY <1>1, <3>2, <3>3, <3>4 DEF FeedNext, ListenerStep, LookupStep, BrowserStep, Issue, Settle, Hear,
         Connect, Resubscribe, EchoMissing, ConnectFails, GoDeaf, LookUp, Deliver, Open, Reread, ReadPage,
         LookUpFails, Drop, GatewayRestart, AskOlder, PageFails, screenVars
    <3>6. q \in Requests /\ IsRead(q)
      BY <3>5 DEF Requests, SnapshotArrives, IsRead
    <3>7. PICK page : page = pages[q].page
      OBVIOUS
    <3>8. page \in Pages /\ page.next \in Nat /\ page.items = Items(q)
      BY <3>1, <3>6, <3>7, PageKinds DEF Items
    <3>9. rows' = Merged(Kept(page), page.items) /\ cursor' = page.next /\ TakenBack(page) \subseteq excused'
      BY <3>5, <3>7 DEF SnapshotArrives
    <3>10. /\ Kept(page) \in [Receipts -> {"hidden"} \cup Standings]
           /\ Kept(page)[r] = IF page.next = 0 \/ r > page.next THEN rows[r] ELSE "hidden"
      BY <3>1, <3>8, KeptRows DEF FeedTypes
    <3>11. rows'[r] = IF r \in DOMAIN page.items /\ Kept(page)[r] # "settled" THEN page.items[r]
                      ELSE Kept(page)[r]
      BY <3>8, <3>9, <3>10, MergedRows
    <3>12. r \in DOMAIN page.items /\ page.items[r] = "accrued" /\ ~ (page.next = 0 \/ r > page.next)
      BY <2>2, <3>10, <3>11
    <3>13. page.next <= r
      BY <3>1, <3>6, <3>7, <3>8, <3>12 DEF PagesFit, Reaches
    <3>14. r = page.next
      BY <3>8, <3>12, <3>13 DEF Receipts
    <3>15. r \in TakenBack(page)
      BY <2>2, <3>12, <3>14 DEF TakenBack
    <3> QED BY <3>9, <3>14, <3>15
  <2>3. \A r \in Receipts : rows'[r] = "settled" => db'[r] = "settled"
    BY <2>1
  <2> QED BY <2>2, <2>3
<1>2. FeedInv /\ FeedInv' /\ [FeedNext]_feedVars => [Holds]_feedVars
  BY <1>1
<1>3. QED
  BY <1>2, FeedAccount, PTL DEF FeedSpec, SettlementsStandAbove

=============================================================================
