------------------------------- MODULE SignIn -------------------------------
(***************************************************************************)
(* How a publisher gets into its cabinet and out of it: one-time           *)
(* challenges and sessions at the gateway, and one browser tab with a      *)
(* wallet extension whose account may change at any moment.  Other tabs,   *)
(* retried requests and strangers who know a nonce appear as requests the  *)
(* gateway gets from elsewhere.                                            *)
(*                                                                         *)
(* One clock for both sides.  A nonce is its number in the order of        *)
(* drawing, a token its number in the order of issue: neither repeats.     *)
(***************************************************************************)
EXTENDS Naturals, FiniteSets, Sequences

CONSTANTS
  Wallets,        \* accounts of the wallet extension
  NoWallet,
  Nonces,         \* 1..n, challenges ever drawn (bound)
  MaxVerifying,   \* verifications the gateway is amid (bound)
  ChallengeTtl, SessionTtl,
  MaxTime         \* bound on the clock

ASSUME SignInAssumption ==
  /\ NoWallet \notin Wallets
  /\ Nonces \subseteq Nat \ {0} /\ ChallengeTtl \in Nat /\ SessionTtl \in Nat /\ MaxTime \in Nat

VARIABLES
  now,
  challenges,   \* rows of auth_challenges, by nonce
  drawn,        \* nonces drawn so far
  signed,       \* wallets that signed the text of a nonce
  verifying,    \* verifications past the signature check, not yet in the transaction
  grants,       \* sessions ever issued, in order: the token is the index
  sessions,     \* tokens that have a row
  connected,    \* the extension's account as the page knows it
  signing,      \* the sign-in under way in the tab
  session,      \* the tab's token, 0 when signed out
  stored,       \* the token in sessionStorage
  read,         \* the tab's read of publisher data in flight
  screen        \* whose data is on the screen

gatewayVars == <<challenges, drawn, signed, verifying, grants, sessions>>
tabVars == <<connected, signing, session, stored, read, screen>>
vars == <<now, gatewayVars, tabVars>>

NoChallenge == [wallet |-> NoWallet]

Idle == [phase |-> "idle"]

NoRead == [state |-> "none"]

Init ==
  /\ now = 0
  /\ challenges = [n \in Nonces |-> NoChallenge] /\ drawn = 0
  /\ signed = [n \in Nonces |-> {}]
  /\ verifying = {} /\ grants = << >> /\ sessions = {}
  /\ connected = NoWallet /\ signing = Idle
  /\ session = 0 /\ stored = 0
  /\ read = NoRead /\ screen = NoWallet

Expiry(token) == grants[token].at + SessionTtl

-----------------------------------------------------------------------------
(* The gateway.                                                            *)

\* A row of auth_challenges, not used yet.
ChallengeRow(w) == [wallet |-> w, expires |-> now + ChallengeTtl, used |-> FALSE]

\* Rows that expired are deleted whenever one is added.
Drawn(w) ==
  /\ drawn + 1 \in Nonces
  /\ drawn' = drawn + 1
  /\ challenges' = [n \in Nonces |->
       IF n = drawn + 1 THEN ChallengeRow(w)
       ELSE IF challenges[n] # NoChallenge /\ challenges[n].expires <= now THEN NoChallenge
       ELSE challenges[n]]

\* verify, up to the signature check, which stamps the time: nothing is awaited in between.
\* A forged attempt ends here and changes nothing.
Look(n, asker) ==
  /\ challenges[n] # NoChallenge
  /\ IF challenges[n].wallet \in signed[n]
     THEN /\ Cardinality(verifying) < MaxVerifying
          /\ verifying' = verifying \cup {[nonce |-> n, at |-> now, asker |-> asker]}
     ELSE UNCHANGED verifying
  /\ UNCHANGED <<challenges, drawn, signed, grants, sessions>>

\* Mutant of Burnable: a challenge that was used is found too.
BurnableTwice(v) == challenges[v.nonce] # NoChallenge /\ challenges[v.nonce].expires > v.at

Burnable(v) ==
  /\ challenges[v.nonce] # NoChallenge
  /\ ~challenges[v.nonce].used
  /\ challenges[v.nonce].expires > v.at

\* Mutant of Surviving: one session for each wallet.
SurvivingOthers(v) == {t \in sessions : grants[t].wallet # challenges[v.nonce].wallet}

Surviving(v) == {t \in sessions : Expiry(t) > v.at}

\* The answer to the tab, if it still waits for this one.
Answered(v, outcome) ==
  signing' = IF v.asker = "tab" /\ signing.phase = "verifying" /\ signing.nonce = v.nonce
             THEN [signing EXCEPT !.phase = outcome] ELSE signing

\* A row of sessions, which keeps of its token only a hash; it expires SessionTtl from `at`.
SessionRow(v) == [nonce |-> v.nonce, wallet |-> challenges[v.nonce].wallet, at |-> v.at]

\* The transaction: burn, delete the expired, insert the session.
Burn(v) ==
  /\ verifying' = verifying \ {v}
  /\ IF Burnable(v)
     THEN /\ challenges' = [challenges EXCEPT ![v.nonce].used = TRUE]
          /\ grants' = Append(grants, SessionRow(v))
          /\ sessions' = Surviving(v) \cup {Len(grants')}
          /\ Answered(v, "granted")
     ELSE /\ Answered(v, "denied")
          /\ UNCHANGED <<challenges, grants, sessions>>
  /\ UNCHANGED <<now, drawn, signed, connected, session, stored, read, screen>>

\* The transaction fails, or the process dies: nothing of it is left.
BurnFails(v) ==
  /\ verifying' = verifying \ {v}
  /\ UNCHANGED <<now, challenges, drawn, signed, grants, sessions, tabVars>>

\* Another tab of an owner, or a stranger that only names a wallet.
DrawnElsewhere(w) ==
  /\ Drawn(w)
  /\ \E by \in {{}, {w}} : signed' = [signed EXCEPT ![drawn'] = by]
  /\ UNCHANGED <<now, verifying, grants, sessions, tabVars>>

LookElsewhere(n) ==
  /\ Look(n, "other")
  /\ UNCHANGED <<now, tabVars>>

-----------------------------------------------------------------------------
(* The tab: signInWith.                                                    *)

\* The wallet connects if it was not; the page is told at once.
SignInStarts(w) ==
  /\ session = 0 /\ signing = Idle
  /\ connected \in {NoWallet, w}
  /\ connected' = w
  /\ signing' = [phase |-> "challenging", wallet |-> w]
  /\ UNCHANGED <<now, gatewayVars, session, stored, read, screen>>

Challenged ==
  /\ signing.phase = "challenging"
  /\ Drawn(signing.wallet)
  /\ signing' = [phase |-> "signing", wallet |-> signing.wallet, nonce |-> drawn']
  /\ UNCHANGED <<now, signed, verifying, grants, sessions, connected, session, stored, read, screen>>

\* The extension signs with the account it has now.  signIn reports which, and another stops
\* the sign-in; signMessage does not, and the gateway denies what it is sent.
Signed ==
  /\ signing.phase = "signing" /\ connected # NoWallet
  /\ signed' = [signed EXCEPT ![signing.nonce] = @ \cup {connected}]
  /\ \/ connected # signing.wallet /\ signing' = Idle
     \/ signing' = [signing EXCEPT !.phase = "sending"]
  /\ UNCHANGED <<now, challenges, drawn, verifying, grants, sessions, connected, session, stored,
                 read, screen>>

LookTab ==
  /\ signing.phase = "sending"
  /\ LET n == signing.nonce
     IN  IF challenges[n] # NoChallenge /\ challenges[n].wallet \in signed[n]
         THEN Look(n, "tab") /\ signing' = [signing EXCEPT !.phase = "verifying"]
         ELSE signing' = [signing EXCEPT !.phase = "denied"] /\ UNCHANGED gatewayVars
  /\ UNCHANGED <<now, connected, session, stored, read, screen>>

\* Refused in the wallet, denied by the gateway, or an answer lost: the gateway goes on.
SignInFails ==
  /\ signing.phase \notin {"idle", "granted"}
  /\ signing' = Idle
  /\ UNCHANGED <<now, gatewayVars, connected, session, stored, read, screen>>

-----------------------------------------------------------------------------
(* The tab: SessionProvider.                                               *)

\* sessionEnd
Ended(token, account) ==
  \/ now >= Expiry(token)
  \/ account # NoWallet /\ account # grants[token].wallet

\* Mutant of SignedOut: what the session asked for still arrives.
SignedOutOnly ==
  /\ session' = 0 /\ stored' = 0
  /\ screen' = NoWallet
  /\ read' = read

\* signOut: the cabinet unmounts, which aborts what it asked for.  Disconnecting may fail.
SignedOut ==
  /\ session' = 0 /\ stored' = 0
  /\ screen' = NoWallet
  /\ read' = NoRead

Disconnected(account) == connected' \in {NoWallet, account}

\* The session is saved, if storage takes it, and its effect looks at the account again.
Granted ==
  /\ signing.phase = "granted"
  /\ \E token \in DOMAIN grants :
       /\ grants[token].nonce = signing.nonce
       /\ IF Ended(token, connected)
          THEN SignedOut /\ Disconnected(connected)
          ELSE session' = token /\ stored' \in {token, stored} /\ UNCHANGED <<connected, read, screen>>
  /\ signing' = Idle
  /\ UNCHANGED <<now, gatewayVars>>

\* The publisher picks another account, or the extension locks.
AccountChanges(w) ==
  /\ w # connected
  /\ IF session # 0 /\ Ended(session, w)
     THEN SignedOut /\ Disconnected(w)
     ELSE connected' = w /\ UNCHANGED <<session, stored, read, screen>>
  /\ UNCHANGED <<now, gatewayVars, signing>>

\* The button, the timer when it is due, which a sleeping machine runs late, or a 401.
LeaveWhen(reason) ==
  /\ session # 0
  /\ reason
  /\ SignedOut /\ Disconnected(connected)
  /\ UNCHANGED <<now, gatewayVars, signing>>

SignOut == LeaveWhen(TRUE)

Refused == LeaveWhen(read.state = "refused")

TimerFires == LeaveWhen(now >= Expiry(session))

\* loadSession
Reload ==
  /\ connected' = NoWallet /\ signing' = Idle
  /\ session' = IF stored # 0 /\ now < Expiry(stored) THEN stored ELSE 0
  /\ stored' = session'
  /\ read' = NoRead /\ screen' = NoWallet
  /\ UNCHANGED <<now, gatewayVars>>

\* publisherApiFor, with the session's token.
Ask ==
  /\ session # 0 /\ read = NoRead
  /\ read' = [state |-> "asked", token |-> session]
  /\ UNCHANGED <<now, gatewayVars, connected, signing, session, stored, screen>>

\* requireSession: the row must be there and not expired; the data is its wallet's.
Serve ==
  /\ read.state = "asked"
  /\ read' = [read EXCEPT !.state =
                IF read.token \in sessions /\ Expiry(read.token) > now THEN "served" ELSE "refused"]
  /\ UNCHANGED <<now, gatewayVars, connected, signing, session, stored, screen>>

Show ==
  /\ read.state = "served"
  /\ screen' = grants[read.token].wallet
  /\ read' = NoRead
  /\ UNCHANGED <<now, gatewayVars, connected, signing, session, stored>>

ReadFails ==
  /\ read # NoRead
  /\ read' = NoRead
  /\ UNCHANGED <<now, gatewayVars, connected, signing, session, stored, screen>>

Tick ==
  /\ now < MaxTime
  /\ now' = now + 1
  /\ UNCHANGED <<gatewayVars, tabVars>>

Next ==
  \/ \E w \in Wallets : DrawnElsewhere(w) \/ SignInStarts(w)
  \/ \E w \in Wallets \cup {NoWallet} : AccountChanges(w)
  \/ \E n \in Nonces : LookElsewhere(n)
  \/ \E v \in verifying : Burn(v) \/ BurnFails(v)
  \/ Challenged \/ Signed \/ LookTab \/ SignInFails \/ Granted
  \/ SignOut \/ TimerFires \/ Refused \/ Reload
  \/ Ask \/ Serve \/ Show \/ ReadFails
  \/ Tick

Spec == Init /\ [][Next]_vars

-----------------------------------------------------------------------------

\* However verifications of one challenge race, repeat or fail, it opens one session, for
\* the wallet that signed it and before it expired; and a stranger's attempts never spend
\* it: a challenge is used exactly when its session was issued.
OneSessionPerChallenge ==
  /\ \A s, t \in DOMAIN grants : grants[s].nonce = grants[t].nonce => s = t
  /\ \A t \in DOMAIN grants : grants[t].wallet \in signed[grants[t].nonce]
  /\ \A n \in Nonces :
       challenges[n] # NoChallenge =>
         /\ challenges[n].used <=> \E t \in DOMAIN grants : grants[t].nonce = n
         /\ \A t \in DOMAIN grants : grants[t].nonce = n => grants[t].at < challenges[n].expires

\* Whatever the account, the storage, the timer and late answers do, the screen never shows
\* a wallet's data over another session, or over another account of the extension.
ScreenIsTheirs ==
  /\ session # 0 => connected \in {NoWallet, grants[session].wallet}
  /\ screen # NoWallet => session # 0 /\ screen = grants[session].wallet

\* A session lasts its whole term: signing in elsewhere, even with the same wallet, takes
\* nobody's session away.  An answer of 401 therefore means the term is over.
SessionLasts ==
  /\ \A t \in DOMAIN grants : now < Expiry(t) => t \in sessions
  /\ read.state = "refused" => now >= Expiry(read.token)
=============================================================================
