------------------------- MODULE AgentJournalProofs -------------------------
(***************************************************************************)
(* What the agent's journal guarantees for any number of drafts, payments, *)
(* attempts and connections.                                               *)
(***************************************************************************)
EXTENDS AgentJournal, TLAPS, WellFoundedInduction

\* Facts about the constants that the steps use.
LEMMA Constants ==
  /\ MaxDrafts \in Nat /\ MaxAttempts \in Nat \ {0} /\ MaxPresent \in Nat \ {0}
  /\ NoJournal \notin Journal
  /\ NoPayment \notin Payments /\ NoConnection \notin Connections
  BY AgentAssumption

\* What the sequence operators of the model do to the set of the elements.
LEMMA AppendRange ==
  ASSUME NEW S, NEW s \in Seq(S), NEW x \in S
  PROVE  /\ Append(s, x) \in Seq(S) /\ Len(Append(s, x)) = Len(s) + 1
         /\ Range(Append(s, x)) = Range(s) \cup {x}
         /\ Append(s, x) # << >> /\ Last(Append(s, x)) = x /\ Front(Append(s, x)) = s
<1>1. /\ Append(s, x) \in Seq(S) /\ Len(Append(s, x)) = Len(s) + 1 /\ Len(s) \in Nat
      /\ Append(s, x)[Len(s) + 1] = x
      /\ \A i \in 1..Len(s) : Append(s, x)[i] = s[i]
      /\ Append(s, x) # << >>
  OBVIOUS
<1>2. Last(Append(s, x)) = x /\ Front(Append(s, x)) = s
  BY <1>1 DEF Last, Front
<1>3. DOMAIN Append(s, x) = 1..Len(s) + 1 /\ DOMAIN s = 1..Len(s)
  BY <1>1
<1>4. Range(Append(s, x)) = Range(s) \cup {x}
  BY <1>1, <1>3 DEF Range
<1>5. QED
  BY <1>1, <1>2, <1>4

\* A nonempty sequence is its head and its tail.
LEMMA HeadRange ==
  ASSUME NEW S, NEW s \in Seq(S), s # << >>
  PROVE  /\ Head(s) \in S /\ Head(s) \in Range(s)
         /\ Tail(s) \in Seq(S) /\ Range(Tail(s)) \subseteq Range(s)
<1>1. /\ Len(s) \in Nat /\ Len(s) # 0 /\ DOMAIN s = 1..Len(s) /\ Head(s) = s[1]
      /\ Tail(s) \in Seq(S) /\ DOMAIN Tail(s) = 1..Len(s) - 1
      /\ \A i \in 1..Len(s) - 1 : Tail(s)[i] = s[i + 1]
  OBVIOUS
<1>2. QED
  BY <1>1 DEF Range

\* The front of a sequence has no element the sequence has not.
LEMMA FrontRange ==
  ASSUME NEW S, NEW s \in Seq(S), s # << >>
  PROVE  /\ Front(s) \in Seq(S) /\ Last(s) \in S
         /\ Range(s) = Range(Front(s)) \cup {Last(s)}
<1>1. /\ Len(s) \in Nat /\ Len(s) # 0 /\ DOMAIN s = 1..Len(s)
      /\ Front(s) \in Seq(S) /\ DOMAIN Front(s) = 1..Len(s) - 1
      /\ \A i \in 1..Len(s) - 1 : Front(s)[i] = s[i]
  BY DEF Front
<1>2. QED
  BY <1>1 DEF Range, Last

\* A prefix of a sequence is a sequence of the same elements.
LEMMA PrefixType ==
  ASSUME NEW S, NEW s \in Seq(S), NEW n \in 0..Len(s)
  PROVE  SubSeq(s, 1, n) \in Seq(S) /\ Len(SubSeq(s, 1, n)) = n
OBVIOUS

\* The empty sequence has no elements.
LEMMA EmptyRange == Range(<< >>) = {}
  BY DEF Range

\* The elements of a sequence over a set are in that set.
LEMMA RangeType ==
  ASSUME NEW S, NEW s \in Seq(S)
  PROVE  Range(s) \subseteq S /\ \A i \in 1..Len(s) : s[i] \in Range(s)
  BY DEF Range

\* A set of naturals has a least element.
LEMMA LeastOf ==
  ASSUME NEW S \in SUBSET Nat, S # {}
  PROVE  \E m \in S : \A k \in S : m <= k
<1>1. PICK m \in S : \A k \in S : ~ (<<k, m>> \in OpToRel(<, Nat))
  BY NatLessThanWellFounded, WFMin
<1>2. \A k \in S : ~ (k < m)
  BY <1>1 DEF OpToRel
<1>3. \A k \in S : m <= k
  BY <1>2
<1>4. QED
  BY <1>3

\* Concatenation and appending, place by place.
LEMMA Concatenation ==
  ASSUME NEW S, NEW a \in Seq(S), NEW b \in Seq(S)
  PROVE  /\ a \o b \in Seq(S) /\ Len(a \o b) = Len(a) + Len(b)
         /\ \A i \in 1..Len(a) + Len(b) : (a \o b)[i] = IF i <= Len(a) THEN a[i] ELSE b[i - Len(a)]
  OBVIOUS

\* Forgetting one payment keeps the others.
LEMMA RemoveFirstRange ==
  ASSUME NEW S, NEW s \in Seq(S), NEW e
  PROVE  /\ RemoveFirst(s, e) \in Seq(S)
         /\ \A x \in Range(s) : x # e => x \in Range(RemoveFirst(s, e))
<1>1. CASE ~ \E i \in 1..Len(s) : s[i] = e
  BY <1>1 DEF RemoveFirst
<1>2. CASE \E i \in 1..Len(s) : s[i] = e
  <2> DEFINE I == {i \in 1..Len(s) : s[i] = e}
             k == Min(I)
  <2>1. RemoveFirst(s, e) = RemoveAt(s, k)
    BY <1>2 DEF RemoveFirst, SelectInSeq
  <2>2. k \in 1..Len(s) /\ s[k] = e
    <3>1. \E i \in I : \A j \in I : i <= j
      <4>1. I \in SUBSET Nat /\ I # {}
        BY <1>2
      <4> HIDE DEF I
      <4> QED BY <4>1, LeastOf
    <3> QED BY <3>1 DEF Min
  <2> HIDE DEF k
  <2>3. RemoveAt(s, k) = SubSeq(s, 1, k - 1) \o SubSeq(s, k + 1, Len(s))
    BY DEF RemoveAt
  <2> DEFINE a == SubSeq(s, 1, k - 1)
             b == SubSeq(s, k + 1, Len(s))
  <2>4. /\ a \in Seq(S) /\ Len(a) = k - 1 /\ \A i \in 1..k - 1 : a[i] = s[i]
        /\ b \in Seq(S) /\ Len(b) = Len(s) - k /\ \A i \in 1..Len(s) - k : b[i] = s[i + k]
    BY <2>2
  <2> DEFINE t == a \o b
             n == Len(s)
  <2>5. /\ t \in Seq(S) /\ DOMAIN t = 1..n - 1 /\ n \in Nat
        /\ \A i \in 1..k - 1 : t[i] = s[i]
        /\ \A i \in k..n - 1 : t[i] = s[i + 1]
    <3> HIDE DEF a, b
    <3>1. n \in Nat /\ k \in 1..n
      BY <2>2
    <3>2. /\ t \in Seq(S) /\ Len(t) = Len(a) + Len(b)
          /\ \A i \in 1..Len(a) + Len(b) :
               t[i] = IF i <= Len(a) THEN a[i] ELSE b[i - Len(a)]
      BY <2>4, Concatenation
    <3> HIDE DEF t, n
    <3>3. /\ Len(a) = k - 1 /\ Len(b) = n - k
          /\ \A i \in 1..k - 1 : a[i] = s[i]
          /\ \A i \in 1..n - k : b[i] = s[i + k]
      BY <2>4 DEF n
    <3>4. Len(t) = n - 1 /\ DOMAIN t = 1..n - 1
      BY <3>1, <3>2, <3>3
    <3>5. \A i \in 1..k - 1 : t[i] = s[i]
      BY <3>1, <3>2, <3>3
    <3>6. ASSUME NEW i \in k..n - 1
          PROVE  t[i] = s[i + 1]
      <4>1. i - (k - 1) \in 1..n - k /\ (i - (k - 1)) + k = i + 1 /\ ~ (i <= k - 1) /\ i \in 1..n - 1
        BY <3>1
      <4>2. t[i] = b[i - (k - 1)]
        BY <3>1, <3>2, <3>3, <4>1
      <4>3. b[i - (k - 1)] = s[(i - (k - 1)) + k]
        BY <3>3, <4>1
      <4> QED BY <4>1, <4>2, <4>3
    <3> QED BY <3>1, <3>2, <3>4, <3>5, <3>6
  <2>6. DOMAIN s = 1..n /\ RemoveFirst(s, e) = t
    BY <2>1, <2>3
  <2> HIDE DEF t, n, I
  <2>7. ASSUME NEW j \in 1..n, j # k
        PROVE  \E i \in 1..n - 1 : t[i] = s[j]
    <3>1. k \in 1..n
      BY <2>2 DEF n
    <3>2. CASE j < k
      BY <2>5, <3>1, <3>2
    <3>3. CASE j > k
      <4>1. j - 1 \in k..n - 1 /\ j - 1 \in 1..n - 1 /\ (j - 1) + 1 = j
        BY <2>5, <3>1, <3>3
      <4>2. t[j - 1] = s[(j - 1) + 1]
        BY <2>5, <4>1
      <4> QED BY <4>1, <4>2
    <3> QED BY <2>5, <2>7, <3>1, <3>2, <3>3
  <2>8. ASSUME NEW x \in Range(s), x # e
        PROVE  x \in Range(t)
    <3>1. PICK j \in 1..n : s[j] = x /\ j # k
      BY <2>2, <2>6, <2>8 DEF Range
    <3>2. PICK i \in 1..n - 1 : t[i] = s[j]
      BY <2>7, <3>1
    <3> QED BY <2>5, <3>1, <3>2 DEF Range
  <2> QED BY <2>5, <2>6, <2>8
<1>3. QED
  BY <1>1, <1>2
-----------------------------------------------------------------------------

Answers == {"none", "delivered", "server-error", "replayed", "refused", "offer-expired",
            "chain-mismatch", "payment-not-found", "rate-limited"}

Agent ==
  [pc      : {"down", "ready", "resolving", "offered", "sending", "awaiting", "buying",
              "landing", "watching", "presenting", "asking"},
   attempt : 1..MaxAttempts \cup 1..MaxPresent,
   todo    : Seq(Chain),
   offer   : [draft : Nat, seq : Nat],
   answer  : Answers,
   queue   : Seq(Payments),
   goal    : {"none", "escrow", "x402"},
   payment : Payments \cup {NoPayment},
   conn    : Connections \cup {NoConnection}]

Presented == [pc : {"reading"}, payment : Payments]

Redeeming == [pc : {"recording"}, payment : Payments, price : Prices \cup {Unlicensed}]

\* Where the agent has a payment in hand, and where it has an offer.
Paying == {"landing", "watching", "presenting", "asking"}

Buying == {"offered", "sending", "awaiting"}

\* The types of the whole state, phase by phase of the agent.
TypeInv ==
  /\ TypeOK
  /\ agent \in Agent
  /\ inbox \subseteq [offer : [draft : 1..MaxDrafts, seq : Nat], chain : Chain]
  /\ terms \in Prices \cup {Unlicensed}
  /\ handling \in [Connections -> {Idle} \cup Presented \cup Redeeming]
  /\ agent.pc # "down" => journal # NoJournal
  /\ agent.pc \in Paying => agent.payment \in Payments
  /\ agent.pc \in Buying => agent.offer.draft \in 1..MaxDrafts
  /\ agent.pc \in {"sending", "awaiting"} => journal.doubtful # << >>

\* The shapes of the agent that its steps start from.
LEMMA AgentTypes ==
  /\ Down \in Agent
  /\ \A a \in Agent :
       /\ [a EXCEPT !.pc = "awaiting"] \in Agent
       /\ \A x \in Answers : [a EXCEPT !.answer = x] \in Agent
<1>1. 1 \in 1..MaxAttempts /\ << >> \in Seq(Chain) /\ << >> \in Seq(Payments)
  BY Constants
<1>2. Down \in Agent
  BY <1>1 DEF Agent, Down, NoOffer, Answers
<1>3. QED
  BY <1>2 DEF Agent

\* The journal and the queue decide where request goes on; all of it is well typed.
LEMMA ProceedTypes ==
  ASSUME TypeInv, journal \in Journal, NEW a \in Agent
  PROVE  /\ Proceed(a) \in Agent
         /\ Proceed(a).pc \in {"landing", "resolving", "buying", "ready"}
         /\ Proceed(a).pc = "landing" => Proceed(a).payment \in Payments
         /\ Proceed(a).pc = "resolving" => Proceed(a).todo = journal.doubtful
                                            /\ Proceed(a).answer = "none"
<1>1. a.queue \in Seq(Payments) /\ journal.doubtful \in Seq(Chain)
  BY DEF Agent, Journal
<1>2. CASE a.queue # << >>
  <2>1. Head(a.queue) \in Payments /\ Tail(a.queue) \in Seq(Payments)
    BY <1>1, <1>2, HeadRange
  <2>2. Proceed(a) = [a EXCEPT !.pc = "landing", !.payment = Head(a.queue), !.queue = Tail(a.queue)]
    BY <1>2 DEF Proceed
  <2> QED BY <2>1, <2>2 DEF Agent
<1>3. CASE a.queue = << >> /\ a.goal = "escrow"
  BY <1>1, <1>3, AgentTypes DEF Proceed, Agent, Down
<1>4. CASE a.queue = << >> /\ a.goal = "x402"
  BY <1>4, AgentTypes DEF Proceed, Agent, Down
<1>5. CASE a.queue = << >> /\ a.goal \notin {"escrow", "x402"}
  BY <1>5, AgentTypes DEF Proceed, Agent, Down
<1>6. QED
  BY <1>2, <1>3, <1>4, <1>5

\* Presenting the same voucher again keeps the types.
LEMMA RetriedTypes ==
  ASSUME TypeInv, journal' \in Journal
  PROVE  /\ Retried \in Agent
         /\ Retried.pc \in {"down", "resolving"}
         /\ Retried.pc = "resolving" => Retried.todo = journal'.doubtful /\ Retried.answer = "none"
<1>1. agent.attempt < MaxAttempts => agent.attempt + 1 \in 1..MaxAttempts
  BY Constants DEF TypeInv, Agent
<1>2. journal'.doubtful \in Seq(Chain)
  BY DEF Journal
<1>3. QED
  BY <1>1, <1>2, AgentTypes DEF Retried, Agent, Down

\* What the steps write into the journal keeps it one.
LEMMA JournalTypes ==
  ASSUME NEW j \in Journal
  PROVE  /\ \A c \in Chain : /\ [j EXCEPT !.position = c, !.doubtful = << >>] \in Journal
                              /\ [j EXCEPT !.doubtful = Append(@, c)] \in Journal
         /\ j.doubtful # << >> => [j EXCEPT !.doubtful = Front(@)] \in Journal
         /\ \A p \in Payments : /\ [j EXCEPT !.payments = Append(@, p)] \in Journal
                                 /\ [j EXCEPT !.payments = RemoveFirst(@, p)] \in Journal
<1>1. j.doubtful \in Seq(Chain) /\ j.payments \in Seq(Payments) /\ << >> \in Seq(Chain)
  BY DEF Journal
<1>2. /\ \A c \in Chain : Append(j.doubtful, c) \in Seq(Chain)
      /\ j.doubtful # << >> => Front(j.doubtful) \in Seq(Chain)
  BY <1>1, FrontRange
<1>3. \A p \in Payments : /\ Append(j.payments, p) \in Seq(Payments)
                          /\ RemoveFirst(j.payments, p) \in Seq(Payments)
  BY <1>1, RemoveFirstRange
<1>4. QED
  BY <1>1, <1>2, <1>3 DEF Journal

\* A step of the agent that writes nothing, or only the journal and the process.
LEMMA AgentOnly ==
  ASSUME TypeInv, journal' \in Journal, agent' \in Agent,
         UNCHANGED <<voucherVars, paymentVars>>,
         agent'.pc \in Paying => agent'.payment \in Payments,
         agent'.pc \in Buying => agent'.offer.draft \in 1..MaxDrafts,
         agent'.pc \in {"sending", "awaiting"} => journal'.doubtful # << >>
  PROVE  TypeInv' /\ journal' \in Journal
BY Constants DEF TypeInv, TypeOK, voucherVars, paymentVars, historyVars, Agent

\* The same for the payment variables.
LEMMA PaymentStep ==
  ASSUME TypeInv, journal' \in Journal, agent' \in Agent, UNCHANGED <<voucherVars, terms>>,
         agent'.pc \in Paying => agent'.payment \in Payments,
         agent'.pc \notin Buying,
         transfer' \in [Payments -> {"unsigned", "signed", "sent", "landed", "failed", "expired"}],
         paid' \in [Payments -> Prices \cup {Unlicensed}],
         handling' \in [Connections -> {Idle} \cup Presented \cup Redeeming],
         forgotten' \in [Payments -> {"no", "refused", "rate-limited", "not-sent"}],
         UNCHANGED outdated
  PROVE  TypeInv' /\ journal' \in Journal
BY Constants DEF TypeInv, TypeOK, voucherVars, Agent, Buying

\* The agent's and the gateway's voucher steps keep the types.
LEMMA VoucherTypes ==
  ASSUME TypeInv,
         \/ Start \/ Crash \/ \E rail \in {"escrow", "x402"} : Request(rail)
         \/ Lookup \/ Offer \/ Unavailable \/ Sign \/ Send \/ Answered \/ Unanswered
  PROVE  TypeInv' /\ journal' \in Journal
<1>1. journal # NoJournal => journal \in Journal
  BY DEF TypeInv, TypeOK
<1>2. CASE Start
  <2>1. journal' \in Journal
    <3>1. settledPosition \in Chain
      <4>1. kept \in Seq(1..MaxDrafts) /\ settled \in 0..Len(kept)
        BY DEF TypeInv, TypeOK, Chain
      <4> QED BY <4>1, PrefixType DEF Chain, settledPosition
    <3>2. << >> \in Seq(Chain) /\ << >> \in Seq(Payments)
      OBVIOUS
    <3> QED BY <1>1, <1>2, <3>1, <3>2 DEF Start, Journal
  <2>2. agent' \in Agent /\ agent'.pc = "ready"
    BY <1>2, AgentTypes DEF Start, Agent
  <2> QED BY <1>2, <2>1, <2>2, AgentOnly DEF Start, Paying, Buying
<1>3. CASE Crash
  BY <1>1, <1>3, AgentTypes, AgentOnly DEF Crash, Down, Paying, Buying, TypeInv
<1>4. ASSUME NEW rail \in {"escrow", "x402"}, Request(rail)
      PROVE  TypeInv' /\ journal' \in Journal
  <2>1. journal \in Journal
    BY <1>1, <1>4 DEF Request, TypeInv
  <2>2. [Down EXCEPT !.queue = journal.payments, !.goal = rail] \in Agent
    BY <2>1, AgentTypes DEF Agent, Journal
  <2> QED BY <1>4, <2>1, <2>2, ProceedTypes, AgentOnly DEF Request, Paying, Buying
<1>5. CASE Lookup
  <2>1. journal \in Journal /\ agent.todo \in Seq(Chain) /\ agent.todo # << >>
    BY <1>1, <1>5 DEF Lookup, TypeInv, Agent
  <2>2. Head(agent.todo) \in Chain /\ Tail(agent.todo) \in Seq(Chain) /\ << >> \in Seq(Chain)
    BY <2>1, HeadRange
  <2>3. journal' \in Journal
    BY <1>5, <2>1, <2>2, JournalTypes DEF Lookup, Learned
  <2>4. agent' \in Agent /\ agent'.pc = "resolving"
    BY <1>5, <2>2 DEF Lookup, TypeInv, Agent
  <2> QED BY <1>5, <2>3, <2>4, AgentOnly DEF Lookup, Paying, Buying
<1>6. CASE Offer
  <2>1. drafts' \in 0..MaxDrafts /\ drafts + 1 \in 1..MaxDrafts /\ Len(kept) + 1 \in Nat
    BY <1>6, Constants DEF Offer, TypeInv, TypeOK, Chain
  <2>2. agent' \in Agent /\ agent'.pc = "offered" /\ agent'.offer.draft = drafts + 1
    <3>1. agent' = [agent EXCEPT !.pc = "offered",
                                 !.offer = [draft |-> drafts + 1, seq |-> Len(kept) + 1]]
      BY <1>6 DEF Offer
    <3>2. [draft |-> drafts + 1, seq |-> Len(kept) + 1] \in [draft : Nat, seq : Nat]
      BY <2>1
    <3> QED BY <3>1, <3>2 DEF TypeInv, Agent
  <2>3. journal' = journal /\ journal # NoJournal
    BY <1>6 DEF Offer, TypeInv
  <2> QED BY <1>6, <2>1, <2>2, <2>3 DEF Offer, TypeInv, TypeOK, paymentVars, historyVars, Paying, Buying,
                                        Agent
<1>7. CASE Unavailable
  <2>1. agent' \in Agent /\ agent'.pc \in {"ready", "buying"}
    BY <1>7, AgentTypes DEF Unavailable, Agent
  <2> QED BY <1>1, <1>7, <2>1, AgentOnly DEF Unavailable, Paying, Buying, TypeInv
<1>8. CASE Sign
  <2>1. journal \in Journal /\ agent.offer.draft \in 1..MaxDrafts
    BY <1>1, <1>8 DEF Sign, TypeInv, Buying
  <2>2. Append(journal.position, agent.offer.draft) \in Chain
    BY <2>1 DEF Journal, Chain
  <2>3. journal' \in Journal
    BY <1>8, <2>1, <2>2, JournalTypes DEF Sign
  <2>4. CASE agent' = [agent EXCEPT !.pc = "sending"]
    <3>1. agent' \in Agent /\ agent'.pc = "sending" /\ agent'.offer = agent.offer
      BY <2>4 DEF TypeInv, Agent
    <3>2. journal'.doubtful = Append(journal.doubtful, Append(journal.position, agent.offer.draft))
      BY <1>8, <2>1, <2>4, <3>1, RetriedTypes, <2>3 DEF Sign, Journal, Down
    <3>3. journal'.doubtful # << >>
      BY <2>1, <2>2, <3>2, AppendRange DEF Journal
    <3> QED BY <1>8, <2>1, <2>3, <3>1, <3>3, AgentOnly DEF Sign, Paying
  <2>5. CASE agent' = Retried \/ agent' = Down
    <3>1. agent' \in Agent /\ agent'.pc \in {"down", "resolving"}
      BY <2>3, <2>5, AgentTypes, RetriedTypes DEF Down
    <3> QED BY <1>8, <2>3, <3>1, AgentOnly DEF Sign, Paying, Buying
  <2> QED BY <1>8, <2>4, <2>5 DEF Sign
<1>9. CASE Send
  <2>1. journal \in Journal /\ agent.offer.draft \in 1..MaxDrafts /\ agent.offer \in [draft : Nat, seq : Nat]
    BY <1>1, <1>9 DEF Send, TypeInv, Buying, Agent
  <2>2. Append(journal.position, agent.offer.draft) \in Chain
    BY <2>1 DEF Journal, Chain
  <2>3. [offer |-> agent.offer, chain |-> Append(journal.position, agent.offer.draft)]
          \in [offer : [draft : 1..MaxDrafts, seq : Nat], chain : Chain]
    BY <2>1, <2>2
  <2>4. agent' \in Agent /\ agent'.pc = "awaiting" /\ agent'.offer = agent.offer
    BY <1>9 DEF Send, TypeInv, Agent
  <2> QED BY <1>9, <2>1, <2>3, <2>4 DEF Send, TypeInv, TypeOK, paymentVars, historyVars, Paying, Agent
<1>10. CASE Answered
  <2>1. journal \in Journal /\ agent.offer.draft \in 1..MaxDrafts
    BY <1>1, <1>10 DEF Answered, TypeInv, Buying
  <2>2. Append(journal.position, agent.offer.draft) \in Chain
    BY <2>1 DEF Journal, Chain
  <2>3. journal' \in Journal
    <3>1. journal.doubtful # << >>
      BY <1>10 DEF Answered, TypeInv
    <3>2. journal' = Learned(Append(journal.position, agent.offer.draft)) \/ journal' = journal \/ journal' = Forgotten
      BY <1>10 DEF Answered
    <3> QED BY <2>1, <2>2, <3>1, <3>2, JournalTypes DEF Learned, Forgotten
  <2>4. agent' \in Agent /\ agent'.pc \in {"down", "resolving", "ready"}
    <3>1. agent' = Retried \/ agent' = [Down EXCEPT !.pc = "ready"]
      BY <1>10 DEF Answered
    <3>2. [Down EXCEPT !.pc = "ready"] \in Agent /\ [Down EXCEPT !.pc = "ready"].pc = "ready"
      BY AgentTypes DEF Agent
    <3> QED BY <2>3, <3>1, <3>2, RetriedTypes
  <2> QED BY <1>10, <2>3, <2>4, AgentOnly DEF Answered, Paying, Buying
<1>11. CASE Unanswered
  <2>1. journal' \in Journal
    BY <1>1, <1>11 DEF Unanswered, TypeInv
  <2> QED BY <1>11, <2>1, RetriedTypes, AgentOnly DEF Unanswered, Paying, Buying
<1>12. QED
  BY <1>2, <1>3, <1>4, <1>5, <1>6, <1>7, <1>8, <1>9, <1>10, <1>11

\* An answer changes nothing of an agent but the answer and its connection.
LEMMA ReplyTypes ==
  ASSUME TypeInv, NEW c \in Connections, NEW answer \in Answers, Reply(c, answer)
  PROVE  /\ agent' \in Agent /\ agent'.pc = agent.pc /\ agent'.offer = agent.offer
         /\ agent'.payment = agent.payment
         /\ \/ agent' = agent
            \/ /\ agent.pc = "asking" /\ agent.conn = c
               /\ agent'.answer \in {answer, "server-error"} /\ agent'.conn = NoConnection
<1>1. "server-error" \in Answers
  BY DEF Answers
<1>2. CASE agent.pc = "asking" /\ agent.conn = c
  <2>1. PICK a \in {answer, "server-error"} :
          agent' = [agent EXCEPT !.answer = a, !.conn = NoConnection]
    BY <1>2 DEF Reply
  <2> QED BY <1>1, <1>2, <2>1 DEF TypeInv, Agent
<1>3. CASE ~(agent.pc = "asking" /\ agent.conn = c)
  BY <1>3 DEF Reply, TypeInv
<1>4. QED
  BY <1>2, <1>3

\* A payment presented again keeps the types.
LEMMA PresentAgainTypes ==
  ASSUME TypeInv, agent.pc = "asking"
  PROVE  /\ PresentAgain \in Agent
         /\ PresentAgain.pc \in {"presenting", "landing", "resolving", "buying", "ready"}
         /\ PresentAgain.pc = "presenting" => PresentAgain.payment = agent.payment
         /\ PresentAgain.pc \in Paying => PresentAgain.payment \in Payments
         /\ PresentAgain.pc = "resolving" => PresentAgain.todo = journal.doubtful
                                             /\ PresentAgain.answer = "none"
<1>1. journal \in Journal /\ agent.payment \in Payments
  BY DEF TypeInv, TypeOK, Paying
<1>2. CASE agent.attempt < MaxPresent
  <2>1. agent.attempt + 1 \in 1..MaxPresent
    BY <1>2, Constants DEF TypeInv, Agent
  <2>2. PresentAgain = [agent EXCEPT !.pc = "presenting", !.attempt = @ + 1,
                                     !.conn = NoConnection, !.answer = "none"]
    BY <1>2 DEF PresentAgain
  <2> QED BY <1>1, <2>1, <2>2 DEF TypeInv, Agent, Answers
<1>3. CASE ~(agent.attempt < MaxPresent)
  <2>1. PresentAgain = Proceed(agent)
    BY <1>3 DEF PresentAgain
  <2> QED BY <1>1, <2>1, ProceedTypes DEF TypeInv, Paying
<1>4. QED
  BY <1>2, <1>3

\* The steps of the x402 rail keep the types.
LEMMA PaymentTypes ==
  ASSUME TypeInv,
         \/ \E p \in Payments : Buy(p)
         \/ NotSold \/ Broadcast \/ SendFails \/ Landing
         \/ \E c \in Connections : Present(c)
         \/ Told \/ Untold
  PROVE  TypeInv' /\ journal' \in Journal
<1>1. journal # NoJournal => journal \in Journal
  BY DEF TypeInv, TypeOK
<1>2. ASSUME NEW p \in Payments, Buy(p)
      PROVE  TypeInv' /\ journal' \in Journal
  <2>1. journal \in Journal /\ journal' \in Journal
    <3>1. journal \in Journal
      BY <1>1, <1>2 DEF Buy, TypeInv
    <3> QED BY <1>2, <3>1, JournalTypes DEF Buy
  <2>2. agent' \in Agent /\ agent'.pc = "landing" /\ agent'.payment = p
    BY <1>2 DEF Buy, TypeInv, Agent
  <2> QED BY <1>2, <2>1, <2>2, PaymentStep DEF Buy, TypeInv, TypeOK, Buying, historyVars
<1>3. CASE NotSold
  <2>1. agent' \in Agent /\ agent'.pc = "ready"
    BY <1>3, AgentTypes DEF NotSold, Agent
  <2> QED BY <1>1, <1>3, <2>1, AgentOnly DEF NotSold, Paying, Buying, TypeInv
<1>4. CASE Broadcast
  <2>1. agent' \in Agent /\ agent'.pc = "watching" /\ agent'.payment = agent.payment
        /\ agent.payment \in Payments /\ journal \in Journal
    BY <1>1, <1>4 DEF Broadcast, TypeInv, Agent, Paying
  <2> QED BY <1>4, <2>1, PaymentStep DEF Broadcast, TypeInv, TypeOK, Buying, historyVars
<1>5. CASE Landing
  <2>1. journal \in Journal /\ agent.payment \in Payments /\ agent \in Agent
    BY <1>1, <1>5 DEF Landing, TypeInv, Paying
  <2>2. journal' \in Journal
    BY <1>5, <2>1, JournalTypes DEF Landing, Without
  <2>3. /\ [agent EXCEPT !.pc = "presenting", !.attempt = 1] \in Agent
        /\ [agent EXCEPT !.pc = "presenting", !.attempt = 1].pc = "presenting"
        /\ [agent EXCEPT !.pc = "presenting", !.attempt = 1].payment = agent.payment
    <3>1. 1 \in 1..MaxPresent
      BY Constants
    <3> QED BY <2>1, <3>1 DEF Agent
  <2>4. agent' \in {[agent EXCEPT !.pc = "presenting", !.attempt = 1], Proceed(agent)}
    BY <1>5 DEF Landing
  <2> HIDE DEF Agent
  <2>5. /\ agent' \in Agent /\ agent'.pc \notin Buying
        /\ agent'.pc \in Paying => agent'.payment \in Payments
    BY <2>1, <2>3, <2>4, ProceedTypes DEF Paying, Buying
  <2> QED BY <1>5, <2>2, <2>5, AgentOnly DEF Landing, Buying
<1>6. ASSUME NEW c \in Connections, Present(c)
      PROVE  TypeInv' /\ journal' \in Journal
  <2>1. agent.payment \in Payments /\ journal \in Journal
    BY <1>1, <1>6 DEF Present, TypeInv, Paying
  <2>2. agent' \in Agent /\ agent'.pc = "asking" /\ agent'.payment = agent.payment
    BY <1>6 DEF Present, TypeInv, Agent, Answers
  <2>3. handling' \in [Connections -> {Idle} \cup Presented \cup Redeeming]
    BY <1>6, <2>1 DEF Present, TypeInv, Presented
  <2> QED BY <1>6, <2>1, <2>2, <2>3, PaymentStep DEF Present, TypeInv, TypeOK, Buying, historyVars
<1>7. CASE Told
  <2>1. journal \in Journal /\ agent.payment \in Payments
    BY <1>1, <1>7 DEF Told, TypeInv, Paying
  <2>2. journal' \in Journal
    BY <1>7, <2>1, JournalTypes DEF Told, Without
  <2>3. [agent EXCEPT !.attempt = 1, !.answer = "none"] \in Agent
    <3>1. 1 \in 1..MaxPresent
      BY Constants
    <3> QED BY <3>1 DEF TypeInv, Agent, Answers
  <2>4. agent' \in {PresentAgain, Proceed([agent EXCEPT !.attempt = 1, !.answer = "none"])}
    BY <1>7 DEF Told
  <2>5. /\ agent' \in Agent /\ agent'.pc \notin Buying
        /\ agent'.pc \in Paying => agent'.payment \in Payments
    BY <1>7, <2>1, <2>3, <2>4, ProceedTypes, PresentAgainTypes DEF Paying, Buying, Told
  <2> QED BY <1>7, <2>1, <2>2, <2>5, PaymentStep DEF Told, TypeInv, TypeOK
<1>8. CASE Untold
  <2>1. journal \in Journal
    BY <1>1, <1>8 DEF Untold, TypeInv
  <2> QED BY <1>8, <2>1, PresentAgainTypes, AgentOnly DEF Untold, Buying
<1>9. CASE SendFails
  <2>1. journal \in Journal /\ agent.payment \in Payments /\ agent \in Agent
    BY <1>1, <1>9 DEF SendFails, TypeInv, Paying
  <2>2. journal' \in Journal
    BY <1>9, <2>1, JournalTypes DEF SendFails, Without
  <2>3. /\ agent' \in Agent /\ agent'.pc \notin Buying
        /\ agent'.pc \in Paying => agent'.payment \in Payments
    BY <1>9, <2>1, ProceedTypes DEF SendFails, Paying, Buying
  <2> QED BY <1>9, <2>1, <2>2, <2>3, PaymentStep DEF SendFails, TypeInv, TypeOK
<1>10. QED
  BY <1>2, <1>3, <1>4, <1>5, <1>6, <1>7, <1>8, <1>9

\* Crashes, settlements and changes of terms keep the types.
LEMMA WorldTypes ==
  ASSUME TypeInv, WorldStep
  PROVE  TypeInv'
<1>1. ASSUME NEW v \in inbox, HandleVoucher(v)
      PROVE  TypeInv'
  <2>1. PICK verdict \in Verdicts(v), garbled \in BOOLEAN :
          /\ kept' = IF verdict = "delivered" THEN Append(kept, v.offer.draft) ELSE kept
          /\ agent' = IF agent.pc = "awaiting" /\ agent.offer = v.offer
                      THEN [agent EXCEPT !.answer = IF garbled THEN "server-error" ELSE verdict]
                      ELSE agent
    BY <1>1 DEF HandleVoucher
  <2>2. v.offer.draft \in 1..MaxDrafts /\ kept \in Seq(1..MaxDrafts) /\ settled \in 0..Len(kept)
    BY DEF TypeInv, TypeOK, Chain
  <2>3. kept' \in Seq(1..MaxDrafts) /\ settled \in 0..Len(kept')
    <3>1. CASE kept' = kept
      BY <2>2, <3>1
    <3>2. CASE kept' = Append(kept, v.offer.draft)
      BY <2>2, <3>2, AppendRange
    <3> QED BY <2>1, <3>1, <3>2
  <2>4. agent' \in Agent /\ agent'.pc = agent.pc /\ agent'.offer = agent.offer
        /\ agent'.payment = agent.payment
    <3>1. verdict \in Answers /\ "server-error" \in Answers
      BY DEF Verdicts, Answers
    <3> QED BY <2>1, <3>1 DEF TypeInv, Agent
  <2> QED BY <1>1, <2>3, <2>4 DEF HandleVoucher, TypeInv, TypeOK, Chain, paymentVars, historyVars, Agent
<1>2. ASSUME NEW o \in offers, ForgetOffer(o)
      PROVE  TypeInv'
  BY <1>2 DEF ForgetOffer, TypeInv, TypeOK, paymentVars, historyVars
<1>3. CASE GatewayCrash
  BY <1>3 DEF GatewayCrash, TypeInv, TypeOK, historyVars
<1>4. CASE Settle
  BY <1>4 DEF Settle, TypeInv, TypeOK, paymentVars, historyVars, Chain
<1>5. ASSUME NEW t \in Prices \cup {Unlicensed}, SetTerms(t)
      PROVE  TypeInv'
  BY <1>5 DEF SetTerms, TypeInv, TypeOK, voucherVars
<1>6. ASSUME NEW p \in Payments, Decide(p)
      PROVE  TypeInv'
  BY <1>6 DEF Decide, TypeInv, TypeOK, voucherVars, historyVars
<1>7. ASSUME NEW c \in Connections, Redeem(c) \/ Record(c) \/ FetchFails(c)
      PROVE  TypeInv'
  <2>1. \E answer \in Answers : Reply(c, answer)
        \/ UNCHANGED agent
    BY <1>7 DEF Redeem, Record, FetchFails, Answers
  <2>2. handling' \in [Connections -> {Idle} \cup Presented \cup Redeeming]
    <3>1. \/ handling' = [handling EXCEPT ![c] = Idle]
          \/ /\ handling[c].pc = "reading"
             /\ handling' = [handling EXCEPT ![c] = [pc |-> "recording", payment |-> handling[c].payment,
                                                     price |-> terms]]
      BY <1>7 DEF Redeem, Record, FetchFails
    <3>2. handling[c].pc = "reading" => handling[c].payment \in Payments
      BY DEF TypeInv, Presented, Redeeming, Idle
    <3> QED BY <3>1, <3>2 DEF TypeInv, Redeeming
  <2>3. UNCHANGED <<journal, voucherVars, terms, transfer, paid, historyVars>>
    BY <1>7 DEF Redeem, Record, FetchFails
  <2>4. agent' \in Agent /\ agent'.pc = agent.pc /\ agent'.offer = agent.offer
        /\ agent'.payment = agent.payment
    BY <2>1, ReplyTypes DEF TypeInv
  <2> QED BY <2>2, <2>3, <2>4 DEF TypeInv, TypeOK, voucherVars, historyVars, Agent
<1>8. QED
  BY <1>1, <1>2, <1>3, <1>4, <1>5, <1>6, <1>7 DEF WorldStep

(***************************************************************************)
(* Every variable keeps its type, and the process never works without a    *)
(* journal.                                                                *)
(***************************************************************************)
LEMMA TypeInvariant == Spec => []TypeInv
<1>1. Init => TypeInv
  <2> SUFFICES ASSUME Init PROVE TypeInv
    OBVIOUS
  <2>1. agent \in Agent /\ agent.pc = "down"
    BY AgentTypes DEF Init, Down
  <2>2. << >> \in Chain /\ 0 \in 0..Len(<< >>) /\ 0 \in 0..MaxDrafts
    BY Constants DEF Chain
  <2>3. TypeOK
    BY <2>1, <2>2 DEF Init, TypeOK, Agent
  <2> QED BY <2>1, <2>3 DEF Init, TypeInv, Paying, Buying
<1>2. TypeInv /\ [Next]_vars => TypeInv'
  <2> SUFFICES ASSUME TypeInv, [Next]_vars PROVE TypeInv'
    OBVIOUS
  <2>1. CASE AgentStep
    BY <2>1, VoucherTypes, PaymentTypes DEF AgentStep
  <2>2. CASE WorldStep
    BY <2>2, WorldTypes
  <2>3. CASE UNCHANGED vars
    BY <2>3 DEF vars, voucherVars, paymentVars, historyVars, TypeInv, TypeOK
  <2> QED BY <2>1, <2>2, <2>3 DEF Next
<1>3. QED
  BY <1>1, <1>2, PTL DEF Spec

(***************************************************************************)
(* Every variable keeps its type: no attempt beyond the limits, no draft   *)
(* that was never made.                                                    *)
(***************************************************************************)
THEOREM TypeCorrect == Spec => []TypeOK
<1>1. TypeInv => TypeOK
  BY DEF TypeInv
<1>2. QED
  BY <1>1, TypeInvariant, PTL

-----------------------------------------------------------------------------

\* A draft that nothing commits to yet: not kept, and in no voucher on its way.
Unused(x) ==
  /\ x \in 1..drafts
  /\ x \notin Range(kept)
  /\ \A v \in inbox : v.offer.draft # x

\* The doubt the agent recorded last is for the voucher of its offer.
InDoubt == Last(journal.doubtful) = Append(journal.position, agent.offer.draft)

\* Where the process is with its voucher.  An answer it waits for, once there, is the last
\* word on that voucher: it is not on its way any more, and was kept or not accordingly.
AgentVoucher ==
  /\ agent.pc = "resolving" => Range(agent.todo) \subseteq Range(journal.doubtful)
  /\ agent.pc \in {"resolving", "offered", "sending"} => agent.answer = "none"
  /\ agent.pc \in {"offered", "sending"} => Unused(agent.offer.draft)
  /\ agent.pc \in {"sending", "awaiting"} => InDoubt
  /\ agent.pc = "awaiting" =>
       IF agent.answer = "none"
       THEN /\ agent.offer.draft \notin Range(kept)
            /\ \A v \in inbox : v.offer.draft = agent.offer.draft => v.offer = agent.offer
       ELSE /\ \A v \in inbox : v.offer.draft # agent.offer.draft
            /\ agent.answer = "delivered" => kept = Append(journal.position, agent.offer.draft)
            /\ agent.answer \notin {"delivered", "server-error", "replayed"}
                 => agent.offer.draft \notin Range(kept)

(***************************************************************************)
(* The strengthening for the agent's history.  A voucher on its way is one *)
(* of the doubts, or continues a position already passed, which the        *)
(* gateway will not keep: that is why a doubt may be forgotten only on the *)
(* last word about it, and why learning that one doubt was kept clears     *)
(* the others.                                                             *)
(***************************************************************************)
VoucherInv ==
  /\ Range(kept) \subseteq 1..drafts
  /\ \A v \in inbox : v.offer.draft <= drafts /\ Last(v.chain) = v.offer.draft
  /\ \A v, w \in inbox : v.offer.draft = w.offer.draft => v = w
  /\ journal = NoJournal => kept = << >> /\ inbox = {}
  /\ journal # NoJournal =>
       /\ kept \in {journal.position} \cup Range(journal.doubtful)
       /\ \A d \in Range(journal.doubtful) :
            \E x \in 1..drafts \ Range(journal.position) : d = Append(journal.position, x)
       /\ \A v \in inbox : \/ v.chain \in Range(journal.doubtful)
                            \/ Len(v.chain) <= Len(journal.position)
  /\ AgentVoucher

-----------------------------------------------------------------------------

\* A payment that is signed and not void is in the journal until its fate is known, or one
\* of the three answers that lose it was given.
Tracked(p) ==
  transfer[p] \in {"signed", "sent", "landed"} =>
    \/ Journaled(p)
    \/ Replayed(p)
    \/ p \in outdated
    \/ forgotten[p] \in {"rate-limited", "not-sent"}

\* A payment that is not for the terms in force was overtaken by a change of them.
InDate(p) == transfer[p] # "unsigned" /\ paid[p] # terms => p \in outdated

\* Only landed payments are presented, and what is recorded is the price that was paid.
Handled(c) ==
  handling[c].pc # "idle" =>
    /\ transfer[handling[c].payment] = "landed"
    /\ handling[c].pc = "recording" => handling[c].price = paid[handling[c].payment]
    /\ agent.pc = "asking" /\ agent.conn = c => handling[c].payment = agent.payment

\* The answers the agent gets are about the payment it has in hand.
AgentPayment ==
  /\ agent.pc \in {"presenting", "asking"} => transfer[agent.payment] = "landed"
  /\ agent.pc = "asking" =>
       /\ agent.answer \in {"none", "delivered", "server-error", "replayed", "refused",
                            "payment-not-found", "rate-limited"}
       /\ agent.answer \in {"delivered", "replayed"} => Replayed(agent.payment)
       /\ agent.answer = "refused" => agent.payment \in outdated

(***************************************************************************)
(* The strengthening for payments: the agent may forget one only on an     *)
(* answer about it, and the gateway records only what landed, whatever is  *)
(* presented again and whatever the price has become since.                *)
(***************************************************************************)
PaymentInv ==
  /\ \A p \in Payments : Tracked(p) /\ InDate(p)
  /\ RedeemedOnce /\ \A r \in receipts : r.payment \in Payments
  /\ \A c \in Connections : Handled(c)
  /\ AgentPayment

\* Steps that take back no receipt and leave landed payments as they are.
LEMMA LandedStays ==
  ASSUME PaymentInv, UNCHANGED receipts,
         \A p \in Payments : transfer[p] = "landed" => transfer'[p] = "landed" /\ paid'[p] = paid[p]
  PROVE  /\ RedeemedOnce' /\ \A r \in receipts' : r.payment \in Payments
         /\ \A p : Replayed(p)' <=> Replayed(p)
BY DEF PaymentInv, RedeemedOnce, Replayed

\* A step that moves no money, loses no payment from the journal and does not start to
\* present one.
LEMMA QuietPayment ==
  ASSUME PaymentInv, UNCHANGED <<transfer, paid, receipts, forgotten>>, outdated \subseteq outdated',
         terms' # terms => \A p \in Payments : InDate(p)',
         journal # NoJournal =>
           journal' # NoJournal /\ Range(journal.payments) \subseteq Range(journal'.payments),
         \A c \in Connections : handling'[c] = handling[c] \/ handling'[c].pc = "idle",
         agent'.pc \in {"presenting", "asking"} => agent' = agent
  PROVE  PaymentInv'
<1>1. /\ RedeemedOnce' /\ \A r \in receipts' : r.payment \in Payments
      /\ \A p : Replayed(p)' <=> Replayed(p)
  BY LandedStays
<1>2. ASSUME NEW p \in Payments PROVE Tracked(p)'
  BY <1>1 DEF PaymentInv, Tracked, Journaled
<1>3. ASSUME NEW c \in Connections PROVE Handled(c)'
  BY DEF PaymentInv, Handled
<1>4. AgentPayment'
  BY <1>1 DEF PaymentInv, AgentPayment, Replayed
<1>5. ASSUME NEW p \in Payments PROVE InDate(p)'
  BY DEF PaymentInv, InDate
<1>6. QED
  BY <1>1, <1>2, <1>3, <1>4, <1>5 DEF PaymentInv

\* Paying by voucher is quiet in that sense.
LEMMA VoucherQuiet ==
  ASSUME TypeInv, TypeInv', PaymentInv,
         \/ Start \/ Crash \/ \E rail \in {"escrow", "x402"} : Request(rail)
         \/ Lookup \/ Offer \/ Unavailable \/ Sign \/ Send \/ Answered \/ Unanswered
  PROVE  PaymentInv'
<1>1. UNCHANGED paymentVars
  BY DEF Start, Crash, Request, Lookup, Offer, Unavailable, Sign, Send, Answered, Unanswered
<1>2. journal # NoJournal => journal' # NoJournal /\ journal'.payments = journal.payments
  <2> SUFFICES ASSUME journal # NoJournal
               PROVE  journal' # NoJournal /\ journal'.payments = journal.payments
    OBVIOUS
  <2>1. journal \in Journal
    BY DEF TypeInv, TypeOK
  <2>2. \A c : journal' = Learned(c) => journal'.payments = journal.payments
    BY <2>1 DEF Learned, Journal
  <2>3. journal' = Forgotten => journal'.payments = journal.payments
    BY <2>1 DEF Forgotten, Journal
  <2>4. journal'.payments = journal.payments
    BY <2>1, <2>2, <2>3 DEF Start, Crash, Request, Lookup, Offer, Unavailable, Sign, Send, Answered,
                            Unanswered, Journal
  <2>5. journal' # NoJournal
    BY VoucherTypes, Constants
  <2> QED BY <2>4, <2>5
<1>3. agent'.pc \notin {"presenting", "asking"}
  <2>1. CASE \E rail \in {"escrow", "x402"} : Request(rail)
    <3>1. PICK rail \in {"escrow", "x402"} : Request(rail)
      BY <2>1
    <3>2. journal \in Journal
      BY <3>1 DEF Request, TypeInv, TypeOK
    <3>3. [Down EXCEPT !.queue = journal.payments, !.goal = rail] \in Agent
      BY <3>2, AgentTypes DEF Agent, Journal
    <3> QED BY <3>1, <3>2, <3>3, ProceedTypes DEF Request
  <2>2. CASE Sign \/ Answered \/ Unanswered
    <3>1. agent' = Retried \/ agent'.pc \in {"sending", "down", "ready"}
      BY <2>2, AgentTypes DEF Sign, Answered, Unanswered, TypeInv, Agent, Down
    <3>2. journal' \in Journal
      BY <2>2, VoucherTypes
    <3> QED BY <3>1, <3>2, RetriedTypes
  <2>3. CASE Start \/ Crash \/ Unavailable
    BY <2>3, AgentTypes DEF Start, Crash, Unavailable, Agent, Down
  <2>4. CASE Lookup \/ Send
    BY <2>4 DEF Lookup, Send, TypeInv, Agent
  <2>5. CASE Offer
    BY <2>5 DEF Offer, TypeInv, Agent
  <2> QED BY <2>1, <2>2, <2>3, <2>4, <2>5
<1>4. QED
  BY <1>1, <1>2, <1>3, QuietPayment DEF paymentVars, historyVars

\* The steps of a payment, from its signature to the last word on it.
LEMMA PaymentSteps ==
  ASSUME TypeInv, PaymentInv,
         \/ \E p \in Payments : Buy(p)
         \/ NotSold \/ Broadcast \/ SendFails \/ Landing
         \/ \E c \in Connections : Present(c)
         \/ Told \/ Untold
  PROVE  PaymentInv'
<1>1. TypeInv' /\ journal' \in Journal /\ NoJournal \notin Journal
  BY PaymentTypes, Constants
<1>2. journal \in Journal /\ journal # NoJournal
  BY DEF TypeInv, TypeOK, Buy, NotSold, Broadcast, SendFails, Landing, Present, Told, Untold
<1>3. agent.pc \in Paying => agent.payment \in Payments
  BY DEF TypeInv
<1>4. ASSUME NEW p \in Payments
      PROVE  /\ Range(Append(journal.payments, p)) = Range(journal.payments) \cup {p}
             /\ \A q \in Range(journal.payments) : q # p => q \in Range(Without(p).payments)
  <2>1. journal.payments \in Seq(Payments)
    BY <1>2 DEF Journal
  <2>2. Without(p).payments = RemoveFirst(journal.payments, p)
    BY <1>2 DEF Without, Journal
  <2> QED BY <2>1, <2>2, AppendRange, RemoveFirstRange
<1>5. ASSUME NEW p \in Payments, Buy(p)
      PROVE  PaymentInv'
  <2>1. /\ transfer[p] = "unsigned" /\ transfer' = [transfer EXCEPT ![p] = "signed"]
        /\ paid' = [paid EXCEPT ![p] = terms] /\ UNCHANGED <<terms, handling, receipts, forgotten, outdated>>
        /\ journal' = [journal EXCEPT !.payments = Append(@, p)]
        /\ agent' = [agent EXCEPT !.pc = "landing", !.payment = p]
    BY <1>5 DEF Buy, historyVars
  <2>2. /\ \A q \in Payments \ {p} : transfer'[q] = transfer[q] /\ paid'[q] = paid[q]
        /\ agent'.pc = "landing"
    BY <2>1 DEF TypeInv, TypeOK, Agent
  <2>3. /\ RedeemedOnce' /\ \A r \in receipts' : r.payment \in Payments
        /\ \A q : Replayed(q)' <=> Replayed(q)
    BY <2>1, <2>2, LandedStays
  <2>4. Range(journal'.payments) = Range(journal.payments) \cup {p} /\ journal' # NoJournal
    BY <1>1, <1>2, <1>4, <2>1 DEF Journal
  <2>5. ASSUME NEW q \in Payments PROVE Tracked(q)' /\ InDate(q)'
    <3>1. Tracked(q)'
      BY <1>2, <2>1, <2>2, <2>3, <2>4 DEF PaymentInv, Tracked, Journaled
    <3>2. paid'[p] = terms
      BY <2>1 DEF TypeInv, TypeOK
    <3> QED BY <2>1, <2>2, <3>1, <3>2 DEF PaymentInv, InDate
  <2>6. ASSUME NEW c \in Connections, handling'[c].pc # "idle" PROVE Handled(c)'
    <3>1. handling[c].payment \in Payments /\ transfer[handling[c].payment] = "landed"
      BY <2>1, <2>6 DEF PaymentInv, Handled, TypeInv, Presented, Redeeming, Idle
    <3>2. handling[c].payment # p
      BY <2>1, <3>1
    <3> QED BY <2>1, <2>2, <2>6, <3>1, <3>2 DEF PaymentInv, Handled
  <2>7. AgentPayment'
    BY <2>2 DEF AgentPayment
  <2>8. \A c \in Connections : Handled(c)'
    BY <2>6 DEF Handled
  <2> QED BY <2>3, <2>5, <2>7, <2>8 DEF PaymentInv
<1>6. CASE NotSold
  <2>1. agent'.pc = "ready"
    BY <1>6, AgentTypes DEF NotSold, Agent
  <2> QED BY <1>6, <2>1, QuietPayment DEF NotSold, paymentVars, historyVars, TypeInv
<1>7. CASE Broadcast
  <2>1. /\ transfer' \in {transfer, [transfer EXCEPT ![agent.payment] = IF @ = "signed" THEN "sent" ELSE @]}
        /\ UNCHANGED <<journal, terms, paid, handling, receipts, forgotten, outdated>>
        /\ agent'.pc = "watching" /\ agent.payment \in Payments
    BY <1>3, <1>7 DEF Broadcast, TypeInv, Agent, Paying, historyVars
  <2>2. \A q \in Payments : \/ transfer'[q] = transfer[q]
                            \/ transfer[q] = "signed" /\ transfer'[q] = "sent"
    BY <2>1 DEF TypeInv, TypeOK
  <2>3. /\ RedeemedOnce' /\ \A r \in receipts' : r.payment \in Payments
        /\ \A q : Replayed(q)' <=> Replayed(q)
    BY <2>1, <2>2, LandedStays
  <2>4. ASSUME NEW q \in Payments PROVE Tracked(q)' /\ InDate(q)'
    BY <2>1, <2>2, <2>3 DEF PaymentInv, Tracked, InDate, Journaled
  <2>5. ASSUME NEW c \in Connections PROVE Handled(c)'
    <3>1. handling[c].pc # "idle" => handling[c].payment \in Payments
      BY DEF TypeInv, Presented, Redeeming, Idle
    <3> QED BY <2>1, <2>2, <3>1 DEF PaymentInv, Handled
  <2>6. AgentPayment'
    BY <2>1 DEF AgentPayment
  <2> QED BY <2>3, <2>4, <2>5, <2>6 DEF PaymentInv
<1>8. CASE Landing
  <2>1. /\ agent.payment \in Payments /\ agent \in Agent
        /\ transfer[agent.payment] \in {"landed", "failed", "expired"} /\ UNCHANGED paymentVars
    BY <1>3, <1>8 DEF Landing, Paying, TypeInv
  <2>2. CASE transfer[agent.payment] = "landed"
    <3>1. agent' = [agent EXCEPT !.pc = "presenting", !.attempt = 1] /\ UNCHANGED journal
      BY <1>8, <2>2 DEF Landing
    <3>2. agent'.pc = "presenting" /\ agent'.payment = agent.payment
      BY <2>1, <3>1 DEF Agent
    <3> QED BY <2>1, <2>2, <3>1, <3>2 DEF PaymentInv, RedeemedOnce, Tracked, InDate, Journaled, Handled,
                                          AgentPayment, Replayed, paymentVars, historyVars
  <2>3. CASE transfer[agent.payment] # "landed"
    <3>1. agent' = Proceed(agent) /\ journal' = Without(agent.payment)
      BY <1>8, <2>3 DEF Landing
    <3>2. agent'.pc \notin {"presenting", "asking"}
      BY <1>2, <2>1, <3>1, ProceedTypes
    <3>3. ASSUME NEW q \in Payments PROVE Tracked(q)' /\ InDate(q)'
      BY <1>1, <1>2, <1>4, <2>1, <2>3, <3>1
         DEF PaymentInv, Tracked, InDate, Journaled, Replayed, paymentVars, historyVars
    <3>4. (\A c \in Connections : Handled(c)') /\ AgentPayment'
      BY <2>1, <3>2 DEF PaymentInv, Handled, AgentPayment, paymentVars
    <3> QED BY <2>1, <3>3, <3>4 DEF PaymentInv, RedeemedOnce, paymentVars
  <2> QED BY <2>2, <2>3
<1>9. ASSUME NEW c \in Connections, Present(c)
      PROVE  PaymentInv'
  <2>1. /\ handling' = [handling EXCEPT ![c] = [pc |-> "reading", payment |-> agent.payment]]
        /\ agent' = [agent EXCEPT !.pc = "asking", !.conn = c, !.answer = "none"]
        /\ UNCHANGED <<journal, terms, transfer, paid, receipts, forgotten, outdated>>
        /\ transfer[agent.payment] = "landed"
    BY <1>9 DEF Present, PaymentInv, AgentPayment, historyVars
  <2>2. /\ agent'.pc = "asking" /\ agent'.conn = c /\ agent'.answer = "none"
        /\ agent'.payment = agent.payment
        /\ \A d \in Connections \ {c} : handling'[d] = handling[d]
        /\ handling'[c] = [pc |-> "reading", payment |-> agent.payment]
    BY <2>1 DEF TypeInv, Agent
  <2>3. ASSUME NEW d \in Connections PROVE Handled(d)'
    BY <2>1, <2>2 DEF PaymentInv, Handled
  <2> QED BY <2>1, <2>2, <2>3 DEF PaymentInv, RedeemedOnce, Tracked, InDate, Journaled, AgentPayment,
                                  Replayed
<1>10. CASE Told
  <2>1. /\ agent.pc = "asking" /\ agent.answer # "none" /\ agent.payment \in Payments
        /\ UNCHANGED <<terms, transfer, paid, handling, receipts, outdated>>
        /\ transfer[agent.payment] = "landed"
        /\ agent.answer \in {"none", "delivered", "server-error", "replayed", "refused",
                             "payment-not-found", "rate-limited"}
        /\ agent.answer \in {"delivered", "replayed"} => Replayed(agent.payment)
        /\ agent.answer = "refused" => agent.payment \in outdated
    BY <1>3, <1>10 DEF Told, PaymentInv, AgentPayment, Paying
  <2>2. CASE agent.answer \in {"server-error", "payment-not-found"}
    <3>1. agent' = PresentAgain /\ UNCHANGED <<journal, forgotten>>
      BY <1>10, <2>2 DEF Told
    <3>2. /\ agent'.pc # "asking"
          /\ agent'.pc = "presenting" => agent'.payment = agent.payment
      BY <2>1, <3>1, PresentAgainTypes
    <3> QED BY <2>1, <3>1, <3>2 DEF PaymentInv, RedeemedOnce, Tracked, InDate, Journaled, Handled,
                                    AgentPayment, Replayed
  <2>3. CASE agent.answer \notin {"server-error", "payment-not-found"}
    <3>1. /\ agent' = Proceed([agent EXCEPT !.attempt = 1, !.answer = "none"])
          /\ journal' = Without(agent.payment)
          /\ forgotten' = IF agent.answer \in {"refused", "rate-limited"}
                          THEN [forgotten EXCEPT ![agent.payment] = agent.answer] ELSE forgotten
      BY <1>10, <2>3 DEF Told
    <3>2. [agent EXCEPT !.attempt = 1, !.answer = "none"] \in Agent
      <4>1. 1 \in 1..MaxPresent
        BY Constants
      <4> QED BY <4>1 DEF TypeInv, Agent, Answers
    <3>3. agent'.pc \notin {"presenting", "asking"}
      BY <1>2, <3>1, <3>2, ProceedTypes
    <3>4. /\ \/ Replayed(agent.payment) \/ agent.payment \in outdated
             \/ forgotten'[agent.payment] = "rate-limited"
          /\ \A q \in Payments \ {agent.payment} : forgotten'[q] = forgotten[q]
      BY <2>1, <2>3, <3>1 DEF TypeInv, TypeOK
    <3>5. ASSUME NEW q \in Payments PROVE Tracked(q)' /\ InDate(q)'
      <4>1. (Replayed(q)' <=> Replayed(q)) /\ InDate(q)'
        BY <2>1 DEF Replayed, PaymentInv, InDate
      <4>2. CASE q = agent.payment
        BY <2>1, <3>4, <4>1, <4>2 DEF Tracked
      <4>3. CASE q # agent.payment
        BY <1>1, <1>2, <1>4, <2>1, <3>1, <3>4, <4>1, <4>3 DEF PaymentInv, Tracked, Journaled
      <4> QED BY <4>1, <4>2, <4>3
    <3>6. (\A c \in Connections : Handled(c)') /\ AgentPayment'
      BY <2>1, <3>3 DEF PaymentInv, Handled, AgentPayment
    <3> QED BY <2>1, <3>5, <3>6 DEF PaymentInv, RedeemedOnce
  <2> QED BY <2>2, <2>3
<1>11. CASE Untold
  <2>1. agent' = PresentAgain /\ UNCHANGED <<journal, paymentVars>> /\ agent.pc = "asking"
    BY <1>11 DEF Untold
  <2>2. transfer[agent.payment] = "landed"
    BY <2>1 DEF PaymentInv, AgentPayment
  <2>3. /\ agent'.pc # "asking"
        /\ agent'.pc = "presenting" => agent'.payment = agent.payment
    BY <2>1, PresentAgainTypes
  <2> QED BY <2>1, <2>2, <2>3 DEF PaymentInv, RedeemedOnce, Tracked, InDate, Journaled, Handled,
                                  AgentPayment, Replayed, paymentVars, historyVars
<1>12. CASE SendFails
  <2>1. /\ agent.payment \in Payments /\ agent \in Agent
        /\ agent' = Proceed(agent) /\ journal' = Without(agent.payment)
        /\ forgotten' = [forgotten EXCEPT ![agent.payment] = "not-sent"]
        /\ UNCHANGED <<terms, transfer, paid, handling, receipts, outdated>>
    BY <1>3, <1>12 DEF SendFails, Paying, TypeInv
  <2>2. agent'.pc \notin {"presenting", "asking"}
    BY <1>2, <2>1, ProceedTypes
  <2>3. /\ forgotten'[agent.payment] = "not-sent"
        /\ \A q \in Payments \ {agent.payment} : forgotten'[q] = forgotten[q]
    BY <2>1 DEF TypeInv, TypeOK
  <2>4. ASSUME NEW q \in Payments PROVE Tracked(q)' /\ InDate(q)'
    <3>1. InDate(q)' /\ (Replayed(q)' <=> Replayed(q))
      BY <2>1 DEF PaymentInv, InDate, Replayed
    <3>2. CASE q = agent.payment
      <4>1. forgotten'[q] = "not-sent"
        BY <2>3, <3>2
      <4> QED BY <3>1, <4>1 DEF Tracked
    <3>3. CASE q # agent.payment
      BY <1>1, <1>2, <1>4, <2>1, <2>3, <3>1, <3>3 DEF PaymentInv, Tracked, Journaled
    <3> QED BY <3>1, <3>2, <3>3
  <2>5. (\A c \in Connections : Handled(c)') /\ AgentPayment'
    BY <2>1, <2>2 DEF PaymentInv, Handled, AgentPayment
  <2> QED BY <2>1, <2>4, <2>5 DEF PaymentInv, RedeemedOnce
<1>13. QED
  BY <1>5, <1>6, <1>7, <1>8, <1>9, <1>10, <1>11, <1>12

\* The gateway, the cluster and the owner.
LEMMA PaymentWorld ==
  ASSUME TypeInv, PaymentInv, WorldStep
  PROVE  PaymentInv'
<1>1. ASSUME NEW v \in inbox, HandleVoucher(v)
      PROVE  PaymentInv'
  <2>1. agent' = agent \/ agent'.pc = "awaiting"
    <3>1. \/ agent' = agent
          \/ /\ agent.pc = "awaiting"
             /\ \E x : agent' = [agent EXCEPT !.answer = x]
      BY <1>1 DEF HandleVoucher
    <3> QED BY <3>1 DEF TypeInv, Agent
  <2> QED BY <1>1, <2>1, QuietPayment DEF HandleVoucher, paymentVars, historyVars
<1>2. ASSUME NEW o \in offers, ForgetOffer(o)
      PROVE  PaymentInv'
  BY <1>2, QuietPayment DEF ForgetOffer, paymentVars, historyVars
<1>3. CASE GatewayCrash
  <2>1. \A c \in Connections : handling'[c].pc = "idle"
    BY <1>3 DEF GatewayCrash, Idle
  <2> QED BY <1>3, <2>1, QuietPayment DEF GatewayCrash, historyVars
<1>4. CASE Settle
  BY <1>4, QuietPayment DEF Settle, paymentVars, historyVars
<1>5. ASSUME NEW t \in Prices \cup {Unlicensed}, SetTerms(t)
      PROVE  PaymentInv'
  <2>1. /\ UNCHANGED <<journal, agent, transfer, paid, handling, receipts, forgotten>>
        /\ terms' = t
        /\ outdated' = outdated \cup {p \in Payments : transfer[p] # "unsigned" /\ paid[p] # t}
    BY <1>5 DEF SetTerms
  <2>2. \A p \in Payments : InDate(p)'
    BY <2>1 DEF InDate
  <2> QED BY <2>1, <2>2, QuietPayment
<1>6. ASSUME NEW p \in Payments, Decide(p)
      PROVE  PaymentInv'
  <2>1. /\ transfer[p] \in {"signed", "sent"}
        /\ transfer'[p] \in {"landed", "failed", "expired"}
        /\ \A q \in Payments \ {p} : transfer'[q] = transfer[q]
        /\ UNCHANGED <<journal, agent, terms, paid, handling, receipts, forgotten, outdated>>
    BY <1>6 DEF Decide, TypeInv, TypeOK, historyVars
  <2>2. \A q \in Payments : transfer[q] = "landed" => q # p /\ transfer'[q] = "landed"
    BY <2>1
  <2>3. /\ RedeemedOnce' /\ \A r \in receipts' : r.payment \in Payments
        /\ \A q : Replayed(q)' <=> Replayed(q)
    BY <2>1, <2>2, LandedStays
  <2>4. ASSUME NEW q \in Payments PROVE Tracked(q)' /\ InDate(q)'
    BY <2>1, <2>3 DEF PaymentInv, Tracked, InDate, Journaled
  <2>5. ASSUME NEW c \in Connections PROVE Handled(c)'
    <3>1. handling[c].pc # "idle" => handling[c].payment \in Payments
      BY DEF TypeInv, Presented, Redeeming, Idle
    <3> QED BY <2>1, <2>2, <3>1 DEF PaymentInv, Handled
  <2>6. AgentPayment'
    BY <2>1, <2>2, <2>3 DEF PaymentInv, AgentPayment, TypeInv, Paying
  <2> QED BY <2>3, <2>4, <2>5, <2>6 DEF PaymentInv
<1>7. ASSUME NEW c \in Connections, Redeem(c) \/ Record(c) \/ FetchFails(c)
      PROVE  PaymentInv'
  <2>0. PICK p : p = handling[c].payment
    OBVIOUS
  <2>1. /\ p \in Payments /\ transfer[p] = "landed"
        /\ handling[c].pc \in {"reading", "recording"}
        /\ handling[c].pc = "recording" => handling[c].price = paid[p]
        /\ agent.pc = "asking" /\ agent.conn = c => agent.payment = p
        /\ UNCHANGED <<journal, terms, transfer, paid, forgotten, outdated>>
    BY <1>7, <2>0 DEF Redeem, Record, FetchFails, PaymentInv, Handled, TypeInv, Presented, Redeeming, Idle,
                      historyVars
  <2>2. \A d \in Connections \ {c} : handling'[d] = handling[d]
    BY <1>7 DEF Redeem, Record, FetchFails, TypeInv
  <2>3. \/ handling'[c] = Idle
        \/ /\ handling'[c] = [pc |-> "recording", payment |-> p, price |-> paid[p]]
           /\ UNCHANGED <<agent, receipts>>
    BY <1>7, <2>0 DEF Redeem, Record, FetchFails, TypeInv, PaysWhatIsDue
  <2>4. \/ UNCHANGED receipts
        \/ /\ ~ Replayed(p)
           /\ receipts' = receipts \cup {[payment |-> p, price |-> paid[p], no |-> Cardinality(receipts)]}
    BY <1>7, <2>0, <2>1 DEF Redeem, Record, FetchFails
  <2>5. /\ \A q : Replayed(q) => Replayed(q)'
        /\ \A r \in receipts' : r.payment \in Payments
        /\ RedeemedOnce'
    BY <2>1, <2>4 DEF PaymentInv, RedeemedOnce, Replayed
  <2>6. ASSUME NEW q \in Payments PROVE Tracked(q)' /\ InDate(q)'
    BY <2>1, <2>5 DEF PaymentInv, Tracked, InDate, Journaled
  <2>7. PICK answer \in {"none", "delivered", "server-error", "replayed", "refused",
                         "payment-not-found", "rate-limited"} :
          /\ UNCHANGED agent \/ Reply(c, answer)
          /\ answer \in {"delivered", "replayed"} => Replayed(p)'
          /\ answer = "refused" => p \in outdated
    <3>1. CASE Redeem(c)
      <4>1. ~ PaysWhatIsDue(p) => p \in outdated
        BY <2>1 DEF PaymentInv, InDate, PaysWhatIsDue
      <4> QED BY <2>0, <3>1, <4>1 DEF Redeem
    <3>2. CASE Record(c) /\ Replayed(p)
      BY <2>0, <2>5, <3>2 DEF Record
    <3>3. CASE Record(c) /\ ~ Replayed(p)
      <4>1. /\ Reply(c, "delivered")
            /\ [payment |-> p, price |-> handling[c].price, no |-> Cardinality(receipts)] \in receipts'
        BY <2>0, <3>3 DEF Record
      <4>2. Replayed(p)'
        BY <4>1 DEF Replayed
      <4> QED BY <4>1, <4>2
    <3>4. CASE FetchFails(c)
      BY <3>4 DEF FetchFails
    <3> QED BY <1>7, <3>1, <3>2, <3>3, <3>4
  <2>8. /\ agent'.pc = agent.pc /\ agent'.payment = agent.payment
        /\ \/ agent' = agent
           \/ /\ agent.pc = "asking" /\ agent.conn = c
              /\ agent'.answer \in {answer, "server-error"} /\ agent'.conn = NoConnection
    <3>1. answer \in Answers
      BY DEF Answers
    <3> QED BY <2>7, <3>1, ReplyTypes
  <2>9. ASSUME NEW d \in Connections PROVE Handled(d)'
    <3>1. NoConnection \notin Connections
      BY Constants
    <3>2. CASE d = c
      BY <2>1, <2>3, <3>2 DEF Handled, Idle
    <3>3. CASE d # c
      BY <2>1, <2>2, <2>8, <3>1, <3>3 DEF PaymentInv, Handled
    <3> QED BY <3>2, <3>3
  <2>10. AgentPayment'
    BY <2>1, <2>5, <2>7, <2>8 DEF PaymentInv, AgentPayment, Replayed
  <2> QED BY <2>5, <2>6, <2>9, <2>10 DEF PaymentInv
<1>8. QED
  BY <1>1, <1>2, <1>3, <1>4, <1>5, <1>6, <1>7 DEF WorldStep

\* PaymentInv holds in every reachable state.
LEMMA PaymentInvariant == Spec => []PaymentInv
<1>1. Init => PaymentInv
  BY DEF Init, Down, Idle, PaymentInv, Tracked, InDate, RedeemedOnce, Handled, AgentPayment
<1>2. TypeInv /\ TypeInv' /\ PaymentInv /\ [Next]_vars => PaymentInv'
  <2> SUFFICES ASSUME TypeInv, TypeInv', PaymentInv, [Next]_vars PROVE PaymentInv'
    OBVIOUS
  <2>1. CASE AgentStep
    BY <2>1, VoucherQuiet, PaymentSteps DEF AgentStep
  <2>2. CASE WorldStep
    BY <2>2, PaymentWorld
  <2>3. CASE UNCHANGED vars
    BY <2>3, QuietPayment DEF vars, voucherVars, paymentVars, historyVars
  <2> QED BY <2>1, <2>2, <2>3 DEF Next
<1>3. QED
  BY <1>1, <1>2, TypeInvariant, PTL DEF Spec

(***************************************************************************)
(* A payment that landed is never lost, wherever the agent, the gateway or *)
(* the network stops: it is redeemed, or in the journal still, unless the  *)
(* terms were changed under it, the gateway answered that it has no time,  *)
(* or the node refused to send it (forgetPayment in those three places).   *)
(***************************************************************************)
THEOREM LandedPayments == Spec => []LandedIsAccounted
<1>1. PaymentInv => LandedIsAccounted
  BY DEF PaymentInv, Tracked, LandedIsAccounted
<1>2. QED
  BY <1>1, PaymentInvariant, PTL

(***************************************************************************)
(* One payment buys one receipt, at the price it paid, however many        *)
(* connections present it at once and whatever the price has become.       *)
(***************************************************************************)
THEOREM RedeemsOnce == Spec => []RedeemedOnce
<1>1. PaymentInv => RedeemedOnce
  BY DEF PaymentInv
<1>2. QED
  BY <1>1, PaymentInvariant, PTL

-----------------------------------------------------------------------------

\* A doubt is the position and one draft more; what the gateway keeps goes at least as far
\* as the position.
LEMMA DoubtShape ==
  ASSUME TypeInv, VoucherInv, journal \in Journal
  PROVE  /\ journal.position \in Seq(1..MaxDrafts) /\ journal.doubtful \in Seq(Chain)
         /\ \A d \in Range(journal.doubtful) :
              /\ Len(d) = Len(journal.position) + 1 /\ Front(d) = journal.position
              /\ d = Append(journal.position, Last(d))
              /\ Last(d) \in 1..drafts \ Range(journal.position)
              /\ Range(d) = Range(journal.position) \cup {Last(d)}
         /\ Range(journal.position) \subseteq Range(kept)
         /\ Len(journal.position) <= Len(kept)
<1>1. /\ journal.position \in Seq(1..MaxDrafts) /\ journal.doubtful \in Seq(Chain)
      /\ drafts \in 0..MaxDrafts /\ MaxDrafts \in Nat /\ journal # NoJournal
  BY Constants DEF Journal, Chain, TypeInv, TypeOK
<1>2. ASSUME NEW d \in Range(journal.doubtful)
      PROVE  /\ Len(d) = Len(journal.position) + 1 /\ Front(d) = journal.position
             /\ d = Append(journal.position, Last(d))
             /\ Last(d) \in 1..drafts \ Range(journal.position)
             /\ Range(d) = Range(journal.position) \cup {Last(d)}
  <2>1. PICK x \in 1..drafts \ Range(journal.position) : d = Append(journal.position, x)
    BY <1>1 DEF VoucherInv
  <2>2. x \in 1..MaxDrafts
    BY <1>1
  <2> QED BY <1>1, <2>1, <2>2, AppendRange
<1>3. kept = journal.position \/ kept \in Range(journal.doubtful)
  BY <1>1 DEF VoucherInv
<1>4. Len(journal.position) \in Nat
  BY <1>1
<1>5. QED
  BY <1>1, <1>2, <1>3, <1>4

\* At most one doubt is kept: the one whose draft the gateway has a receipt for.
LEMMA KeptDoubt ==
  ASSUME TypeInv, VoucherInv, journal \in Journal,
         NEW d \in Range(journal.doubtful), Last(d) \in Range(kept)
  PROVE  kept = d
<1>1. kept = journal.position \/ kept \in Range(journal.doubtful)
  BY Constants DEF VoucherInv
<1>2. kept # journal.position
  BY DoubtShape
<1>3. Range(kept) = Range(journal.position) \cup {Last(kept)}
  BY <1>1, <1>2, DoubtShape
<1>4. Last(d) \notin Range(journal.position)
  BY DoubtShape
<1>5. Last(kept) = Last(d)
  BY <1>3, <1>4
<1>6. kept = Append(journal.position, Last(kept)) /\ d = Append(journal.position, Last(d))
  BY <1>1, <1>2, DoubtShape
<1>7. QED
  BY <1>5, <1>6

\* A step after which the journal says of vouchers what it said, and no voucher is new.
LEMMA QuietVoucher ==
  ASSUME TypeInv, VoucherInv, UNCHANGED <<kept, drafts>>, inbox' \subseteq inbox,
         journal = NoJournal => journal' = NoJournal,
         journal # NoJournal =>
           /\ journal' # NoJournal
           /\ journal'.position = journal.position /\ journal'.doubtful = journal.doubtful,
         \/ agent' = agent
         \/ /\ agent'.pc \notin Buying
            /\ agent'.pc = "resolving" =>
                 Range(agent'.todo) \subseteq Range(journal'.doubtful) /\ agent'.answer = "none"
  PROVE  VoucherInv'
<1>1. /\ Range(kept') \subseteq 1..drafts'
      /\ \A v \in inbox' : v.offer.draft <= drafts' /\ Last(v.chain) = v.offer.draft
      /\ \A v, w \in inbox' : v.offer.draft = w.offer.draft => v = w
      /\ journal' = NoJournal => kept' = << >> /\ inbox' = {}
  BY DEF VoucherInv
<1>2. ASSUME journal' # NoJournal
      PROVE  /\ kept' \in {journal'.position} \cup Range(journal'.doubtful)
             /\ \A d \in Range(journal'.doubtful) :
                  \E x \in 1..drafts' \ Range(journal'.position) : d = Append(journal'.position, x)
             /\ \A v \in inbox' : \/ v.chain \in Range(journal'.doubtful)
                                  \/ Len(v.chain) <= Len(journal'.position)
  BY <1>2 DEF VoucherInv
<1>3. AgentVoucher'
  <2>1. CASE agent' = agent
    <3>1. agent.pc # "down" =>
            journal'.position = journal.position /\ journal'.doubtful = journal.doubtful
      BY DEF TypeInv
    <3> QED BY <2>1, <3>1 DEF VoucherInv, AgentVoucher, Unused, InDoubt
  <2>2. CASE agent' # agent
    BY <2>2 DEF AgentVoucher, Buying
  <2> QED BY <2>1, <2>2
<1>4. QED
  BY <1>1, <1>2, <1>3 DEF VoucherInv

\* Learning that a doubt is what the gateway keeps: the others cannot be.
LEMMA LearnedVoucher ==
  ASSUME TypeInv, VoucherInv, journal \in Journal, NEW d \in Range(journal.doubtful), kept = d,
         journal' = Learned(d), UNCHANGED voucherVars,
         agent'.pc \notin Buying, agent'.pc = "resolving" => agent'.todo = << >> /\ agent'.answer = "none"
  PROVE  VoucherInv'
<1>1. journal'.position = d /\ journal'.doubtful = << >> /\ UNCHANGED <<kept, drafts, inbox>>
  BY DEF Learned, Journal, voucherVars
<1>2. d \in Chain /\ journal \in Journal /\ journal # NoJournal
  BY DoubtShape, RangeType, Constants
<1>3. journal' # NoJournal
  BY <1>2, JournalTypes, Constants DEF Learned
<1>4. \A v \in inbox : Len(v.chain) <= Len(d)
  <2>1. Len(d) = Len(journal.position) + 1 /\ Len(journal.position) \in Nat
    BY DoubtShape
  <2>2. ASSUME NEW v \in inbox PROVE Len(v.chain) <= Len(d)
    <3>1. CASE v.chain \in Range(journal.doubtful)
      BY <2>1, <3>1, DoubtShape
    <3>2. CASE v.chain \notin Range(journal.doubtful)
      <4>1. Len(v.chain) \in Nat /\ Len(v.chain) <= Len(journal.position)
        BY <1>2, <3>2 DEF VoucherInv, TypeInv, Chain
      <4> QED BY <2>1, <4>1
    <3> QED BY <3>1, <3>2
  <2> QED BY <2>2
<1>5. AgentVoucher'
  BY EmptyRange DEF AgentVoucher, Buying
<1>6. QED
  BY <1>1, <1>2, <1>3, <1>4, <1>5, EmptyRange DEF VoucherInv

\* A doubt recorded for a draft ends in that draft, and is the last of them.
LEMMA DoubtAdded ==
  ASSUME NEW j \in Journal, NEW x \in 1..MaxDrafts
  PROVE  /\ Append(j.position, x) \in Chain /\ Last(Append(j.position, x)) = x
         /\ Range(Append(j.doubtful, Append(j.position, x)))
              = Range(j.doubtful) \cup {Append(j.position, x)}
         /\ Last(Append(j.doubtful, Append(j.position, x))) = Append(j.position, x)
<1>1. j.position \in Seq(1..MaxDrafts) /\ j.doubtful \in Seq(Chain)
  BY DEF Journal, Chain
<1>2. Append(j.position, x) \in Chain /\ Last(Append(j.position, x)) = x
  BY <1>1, AppendRange DEF Chain
<1>3. PICK d \in Chain : d = Append(j.position, x)
  BY <1>2
<1>4. Range(Append(j.doubtful, d)) = Range(j.doubtful) \cup {d} /\ Last(Append(j.doubtful, d)) = d
  BY <1>1, AppendRange
<1>5. QED
  BY <1>2, <1>3, <1>4

\* The agent's own steps on the way of a voucher.
LEMMA VoucherSteps ==
  ASSUME TypeInv, TypeInv', VoucherInv,
         \/ Start \/ Crash \/ \E rail \in {"escrow", "x402"} : Request(rail)
         \/ Lookup \/ Offer \/ Unavailable \/ Sign \/ Send \/ Answered \/ Unanswered
  PROVE  VoucherInv'
<1>1. journal' \in Journal /\ NoJournal \notin Journal
  BY VoucherTypes, Constants
<1>2. journal # NoJournal => journal \in Journal
  BY DEF TypeInv, TypeOK
<1>3. CASE Start
  <2>1. agent'.pc = "ready"
    BY <1>3, AgentTypes DEF Start, Agent
  <2>2. CASE journal # NoJournal
    BY <1>1, <1>3, <2>1, <2>2, QuietVoucher DEF Start, voucherVars, Buying
  <2>3. CASE journal = NoJournal
    <3>1. kept = << >> /\ inbox = {} /\ UNCHANGED <<kept, drafts, inbox>>
      BY <1>3, <2>3 DEF Start, VoucherInv, voucherVars
    <3>2. settledPosition = << >>
      BY <3>1 DEF settledPosition, TypeInv, TypeOK
    <3>3. journal'.position = << >> /\ journal'.doubtful = << >>
      BY <1>3, <2>3, <3>2 DEF Start
    <3>4. AgentVoucher'
      BY <2>1 DEF AgentVoucher
    <3> QED BY <1>1, <3>1, <3>3, <3>4, EmptyRange DEF VoucherInv
  <2> QED BY <2>2, <2>3
<1>4. CASE Crash
  BY <1>1, <1>4, QuietVoucher DEF Crash, Down, voucherVars, Buying
<1>5. ASSUME NEW rail \in {"escrow", "x402"}, Request(rail)
      PROVE  VoucherInv'
  <2>1. journal \in Journal
    BY <1>2, <1>5 DEF Request, TypeInv
  <2>2. [Down EXCEPT !.queue = journal.payments, !.goal = rail] \in Agent
    BY <2>1, AgentTypes DEF Agent, Journal
  <2> QED BY <1>1, <1>5, <2>1, <2>2, ProceedTypes, QuietVoucher DEF Request, voucherVars, Buying
<1>6. CASE Lookup
  <2>1. journal \in Journal /\ agent.pc = "resolving" /\ agent.todo # << >> /\ agent.answer = "none"
        /\ agent.todo \in Seq(Chain) /\ Range(agent.todo) \subseteq Range(journal.doubtful)
        /\ UNCHANGED voucherVars
    BY <1>2, <1>6 DEF Lookup, TypeInv, Agent, VoucherInv, AgentVoucher
  <2>2. PICK doubt : doubt = Head(agent.todo)
    OBVIOUS
  <2>3. doubt \in Range(journal.doubtful) /\ Range(Tail(agent.todo)) \subseteq Range(journal.doubtful)
    BY <2>1, <2>2, HeadRange
  <2>4. CASE Last(doubt) \in Range(kept)
    <3>1. journal' = Learned(doubt) /\ agent' = [agent EXCEPT !.todo = << >>]
      BY <1>6, <2>2, <2>4 DEF Lookup
    <3>2. kept = doubt
      BY <2>1, <2>3, <2>4, KeptDoubt
    <3>3. agent'.pc = "resolving" /\ agent'.todo = << >> /\ agent'.answer = "none"
      BY <2>1, <3>1 DEF TypeInv, Agent
    <3> QED BY <2>1, <2>3, <3>1, <3>2, <3>3, LearnedVoucher DEF Buying
  <2>5. CASE Last(doubt) \notin Range(kept)
    <3>1. UNCHANGED journal /\ agent' = [agent EXCEPT !.todo = Tail(@)]
      BY <1>6, <2>2, <2>5 DEF Lookup
    <3>2. agent'.pc = "resolving" /\ agent'.todo = Tail(agent.todo) /\ agent'.answer = "none"
      BY <2>1, <3>1 DEF TypeInv, Agent
    <3> QED BY <1>1, <2>1, <2>3, <3>1, <3>2, QuietVoucher DEF voucherVars, Buying
  <2> QED BY <2>4, <2>5
<1>7. CASE Offer
  <2>1. /\ drafts' = drafts + 1 /\ drafts \in Nat /\ UNCHANGED <<journal, kept, inbox>>
        /\ agent.answer = "none" /\ journal # NoJournal
    BY <1>7, Constants DEF Offer, TypeInv, TypeOK, VoucherInv, AgentVoucher
  <2>2. agent'.pc = "offered" /\ agent'.offer.draft = drafts + 1 /\ agent'.answer = "none"
    <3>1. agent' = [agent EXCEPT !.pc = "offered",
                                 !.offer = [draft |-> drafts + 1, seq |-> Len(kept) + 1]]
      BY <1>7 DEF Offer
    <3> QED BY <2>1, <3>1 DEF TypeInv, Agent
  <2>3. 1..drafts \subseteq 1..drafts' /\ drafts + 1 \in 1..drafts' /\ drafts + 1 \notin 1..drafts
    BY <2>1
  <2>4. \A v \in inbox : v.offer.draft <= drafts' /\ v.offer.draft # drafts + 1
    BY <2>1 DEF VoucherInv, TypeInv
  <2>5. Unused(agent.offer.draft)'
    BY <2>1, <2>2, <2>3, <2>4 DEF Unused, VoucherInv
  <2>6. AgentVoucher'
    BY <2>2, <2>5 DEF AgentVoucher
  <2> QED BY <2>1, <2>3, <2>4, <2>6 DEF VoucherInv
<1>8. CASE Unavailable
  <2>1. agent'.pc \in {"ready", "buying"}
    BY <1>8, AgentTypes DEF Unavailable, Agent
  <2> QED BY <1>1, <1>8, <2>1, QuietVoucher DEF Unavailable, voucherVars, Buying
<1>9. CASE Sign /\ agent.offer.seq = Len(journal.position) + 1
  <2>1. PICK x : x = agent.offer.draft
    OBVIOUS
  <2>2. /\ journal' = [journal EXCEPT !.doubtful = Append(@, Append(journal.position, x))]
        /\ agent' = [agent EXCEPT !.pc = "sending"] /\ UNCHANGED <<kept, drafts, inbox>>
        /\ journal \in Journal /\ agent.answer = "none" /\ Unused(x)
    BY <1>2, <1>9, <2>1 DEF Sign, TypeInv, voucherVars, VoucherInv, AgentVoucher
  <2>3. /\ agent'.pc = "sending" /\ agent'.offer.draft = x /\ agent'.answer = "none"
        /\ journal'.position = journal.position
        /\ journal'.doubtful = Append(journal.doubtful, Append(journal.position, x))
    BY <2>1, <2>2 DEF TypeInv, Agent, Journal
  <2>4. x \in 1..MaxDrafts /\ x \in 1..drafts
    BY <1>9, <2>1, <2>2 DEF Sign, TypeInv, Buying, Unused
  <2>6. /\ Range(journal'.doubtful) = Range(journal.doubtful) \cup {Append(journal.position, x)}
        /\ Last(journal'.doubtful) = Append(journal.position, x)
    BY <2>2, <2>3, <2>4, DoubtAdded
  <2>7. x \notin Range(journal.position)
    BY <2>2, DoubtShape DEF Unused
  <2>8. AgentVoucher'
    <3>1. InDoubt'
      BY <2>3, <2>6 DEF InDoubt
    <3>2. Unused(agent.offer.draft)'
      BY <2>2, <2>3 DEF Unused
    <3> QED BY <2>3, <3>1, <3>2 DEF AgentVoucher
  <2>9. /\ kept' \in {journal'.position} \cup Range(journal'.doubtful)
        /\ \A d \in Range(journal'.doubtful) :
             \E y \in 1..drafts' \ Range(journal'.position) : d = Append(journal'.position, y)
        /\ \A v \in inbox' : \/ v.chain \in Range(journal'.doubtful)
                             \/ Len(v.chain) <= Len(journal'.position)
    <3>1. journal # NoJournal
      BY <1>1, <2>2
    <3> QED BY <2>2, <2>3, <2>4, <2>6, <2>7, <3>1 DEF VoucherInv
  <2> QED BY <1>1, <2>2, <2>8, <2>9 DEF VoucherInv
<1>10. CASE Sign /\ agent.offer.seq # Len(journal.position) + 1
  <2>1. UNCHANGED <<journal, voucherVars>> /\ agent' \in {Retried, Down}
    BY <1>10 DEF Sign
  <2> QED BY <1>1, <2>1, RetriedTypes, QuietVoucher DEF Down, voucherVars, Buying
<1>11. CASE Send
  <2>1. PICK v : v = [offer |-> agent.offer, chain |-> Append(journal.position, agent.offer.draft)]
    OBVIOUS
  <2>2. /\ inbox' = inbox \cup {v} /\ UNCHANGED <<journal, kept, drafts>>
        /\ agent' = [agent EXCEPT !.pc = "awaiting"]
        /\ agent.answer = "none" /\ Unused(agent.offer.draft) /\ InDoubt
        /\ journal \in Journal /\ journal # NoJournal /\ journal.doubtful # << >>
        /\ agent.offer.draft \in 1..MaxDrafts
    BY <1>2, <1>11, <2>1 DEF Send, TypeInv, VoucherInv, AgentVoucher, Buying
  <2>3. agent'.pc = "awaiting" /\ agent'.offer = agent.offer /\ agent'.answer = "none"
    BY <2>2 DEF TypeInv, Agent
  <2>4. v.offer = agent.offer /\ v.chain = Last(journal.doubtful)
    BY <2>1, <2>2 DEF InDoubt
  <2>5. v.chain \in Range(journal.doubtful)
    BY <2>2, <2>4, FrontRange DEF Journal
  <2>6. Last(v.chain) = v.offer.draft
    BY <2>1, <2>2, <2>4, DoubtAdded
  <2>7. v.offer.draft <= drafts /\ v.offer.draft \notin Range(kept)
        /\ \A w \in inbox : w.offer.draft # v.offer.draft
    BY <2>2, <2>4 DEF Unused
  <2>8. AgentVoucher'
    BY <2>2, <2>3, <2>4, <2>7 DEF AgentVoucher, InDoubt
  <2> QED BY <2>2, <2>5, <2>6, <2>7, <2>8 DEF VoucherInv
<1>12. CASE Answered
  <2>1. PICK x : x = agent.offer.draft
    OBVIOUS
  <2>2. /\ agent.pc = "awaiting" /\ agent.answer # "none" /\ UNCHANGED voucherVars
        /\ journal \in Journal /\ journal # NoJournal /\ journal.doubtful # << >>
        /\ Last(journal.doubtful) = Append(journal.position, x)
        /\ \A v \in inbox : v.offer.draft # x
        /\ agent.answer = "delivered" => kept = Append(journal.position, x)
        /\ agent.answer \notin {"delivered", "server-error", "replayed"} => x \notin Range(kept)
        /\ agent' \in {Retried, [Down EXCEPT !.pc = "ready"]}
    BY <1>2, <1>12, <2>1 DEF Answered, TypeInv, VoucherInv, AgentVoucher, InDoubt
  <2>3. /\ agent'.pc \notin Buying
        /\ agent'.pc = "resolving" => agent'.todo = journal'.doubtful /\ agent'.answer = "none"
    <3>1. [Down EXCEPT !.pc = "ready"].pc = "ready"
      BY AgentTypes DEF Agent
    <3> QED BY <1>1, <2>2, <3>1, RetriedTypes DEF Buying
  <2>4. /\ journal.doubtful \in Seq(Chain)
        /\ Range(journal.doubtful) = Range(Front(journal.doubtful)) \cup {Append(journal.position, x)}
    BY <2>2, FrontRange DEF Journal
  <2>5. CASE agent.answer = "delivered"
    <3>1. journal' = Learned(Append(journal.position, x)) /\ agent' = [Down EXCEPT !.pc = "ready"]
      BY <1>12, <2>1, <2>5 DEF Answered
    <3>2. agent'.pc = "ready"
      BY <3>1, AgentTypes DEF Agent
    <3> QED BY <2>2, <2>4, <2>5, <3>1, <3>2, LearnedVoucher DEF Buying
  <2>6. CASE agent.answer \in {"server-error", "replayed"}
    <3>1. UNCHANGED journal
      BY <1>12, <2>6 DEF Answered
    <3> QED BY <1>1, <2>2, <2>3, <3>1, QuietVoucher DEF voucherVars
  <2>7. CASE agent.answer \notin {"delivered", "server-error", "replayed"}
    <3>1. journal' = [journal EXCEPT !.doubtful = Front(@)]
      BY <1>12, <2>7 DEF Answered, Forgotten
    <3>2. journal'.position = journal.position /\ journal'.doubtful = Front(journal.doubtful)
      BY <2>2, <3>1 DEF Journal
    <3>3. x \notin Range(kept) /\ kept # Append(journal.position, x)
      <4>1. Append(journal.position, x) \in Range(journal.doubtful)
        BY <2>4
      <4>2. Last(Append(journal.position, x)) \in Range(Append(journal.position, x))
        BY <2>2, <4>1, DoubtShape
      <4>3. x \in 1..MaxDrafts
        BY <2>1, <2>2 DEF TypeInv, Buying
      <4>4. Last(Append(journal.position, x)) = x
        BY <2>2, <4>3, DoubtAdded
      <4> QED BY <2>2, <2>7, <4>2, <4>4
    <3>4. ASSUME NEW v \in inbox PROVE v.chain # Append(journal.position, x)
      <4>1. x \in 1..MaxDrafts
        BY <2>1, <2>2 DEF TypeInv, Buying
      <4>2. Last(Append(journal.position, x)) = x
        BY <2>2, <4>1, DoubtAdded
      <4> QED BY <2>2, <4>2 DEF VoucherInv
    <3>5. AgentVoucher'
      BY <2>3 DEF AgentVoucher, Buying
    <3> QED BY <1>1, <2>2, <2>4, <3>2, <3>3, <3>4, <3>5 DEF VoucherInv, voucherVars
  <2> QED BY <2>5, <2>6, <2>7
<1>13. CASE Unanswered
  BY <1>1, <1>13, RetriedTypes, QuietVoucher DEF Unanswered, voucherVars, Buying
<1>14. QED
  BY <1>3, <1>4, <1>5, <1>6, <1>7, <1>8, <1>9, <1>10, <1>11, <1>12, <1>13

\* Paying by x402 leaves the vouchers alone.
LEMMA PaymentQuiet ==
  ASSUME TypeInv, VoucherInv,
         \/ \E p \in Payments : Buy(p)
         \/ NotSold \/ Broadcast \/ SendFails \/ Landing
         \/ \E c \in Connections : Present(c)
         \/ Told \/ Untold
  PROVE  VoucherInv'
<1>1. journal \in Journal /\ journal' \in Journal /\ NoJournal \notin Journal /\ agent \in Agent
  BY PaymentTypes, Constants
     DEF TypeInv, TypeOK, Buy, NotSold, Broadcast, SendFails, Landing, Present, Told, Untold
<1>2. journal'.position = journal.position /\ journal'.doubtful = journal.doubtful
  <2>1. \/ UNCHANGED journal
        \/ \E s : journal' = [journal EXCEPT !.payments = s]
    BY DEF Buy, NotSold, Broadcast, SendFails, Landing, Present, Told, Untold, Without
  <2> QED BY <1>1, <2>1 DEF Journal
<1>3. UNCHANGED voucherVars
  BY DEF Buy, NotSold, Broadcast, SendFails, Landing, Present, Told, Untold
<1>4. /\ agent'.pc \notin Buying
      /\ agent'.pc = "resolving" => agent'.todo = journal.doubtful /\ agent'.answer = "none"
  <2>1. CASE \E p \in Payments : Buy(p)
    BY <1>1, <2>1 DEF Buy, Agent, Buying
  <2>2. CASE NotSold
    BY <2>2, AgentTypes DEF NotSold, Agent, Buying
  <2>3. CASE Broadcast
    BY <1>1, <2>3 DEF Broadcast, Agent, Buying
  <2>4. CASE Landing
    <3>1. agent' \in {[agent EXCEPT !.pc = "presenting", !.attempt = 1], Proceed(agent)}
      BY <2>4 DEF Landing
    <3>2. [agent EXCEPT !.pc = "presenting", !.attempt = 1].pc = "presenting"
      BY <1>1 DEF Agent
    <3> QED BY <1>1, <3>1, <3>2, ProceedTypes DEF Buying
  <2>5. CASE \E c \in Connections : Present(c)
    BY <1>1, <2>5 DEF Present, Agent, Buying
  <2>6. CASE Told
    <3>1. agent' \in {PresentAgain, Proceed([agent EXCEPT !.attempt = 1, !.answer = "none"])}
      BY <2>6 DEF Told
    <3>2. [agent EXCEPT !.attempt = 1, !.answer = "none"] \in Agent
      <4>1. 1 \in 1..MaxPresent
        BY Constants
      <4> QED BY <1>1, <4>1 DEF Agent, Answers
    <3> QED BY <1>1, <2>6, <3>1, <3>2, ProceedTypes, PresentAgainTypes DEF Buying, Told
  <2>7. CASE Untold
    BY <2>7, PresentAgainTypes DEF Untold, Buying
  <2>8. CASE SendFails
    BY <1>1, <2>8, ProceedTypes DEF SendFails, Buying
  <2> QED BY <2>1, <2>2, <2>3, <2>4, <2>5, <2>6, <2>7, <2>8
<1>5. QED
  BY <1>1, <1>2, <1>3, <1>4, QuietVoucher DEF voucherVars

\* The gateway takes a voucher in: it keeps one only where its own history ends.
LEMMA VoucherHandled ==
  ASSUME TypeInv, VoucherInv, NEW v \in inbox, HandleVoucher(v)
  PROVE  VoucherInv'
<1>1. PICK verdict \in Verdicts(v), garbled \in BOOLEAN :
        /\ kept' = IF verdict = "delivered" THEN Append(kept, v.offer.draft) ELSE kept
        /\ agent' = IF agent.pc = "awaiting" /\ agent.offer = v.offer
                    THEN [agent EXCEPT !.answer = IF garbled THEN "server-error" ELSE verdict]
                    ELSE agent
  BY DEF HandleVoucher
<1>2. /\ inbox' = inbox \ {v} /\ UNCHANGED <<journal, drafts>>
      /\ verdict \in {"refused", "offer-expired", "replayed", "chain-mismatch", "delivered"}
      /\ verdict = "delivered" => v.chain = Append(kept, v.offer.draft)
  BY <1>1 DEF HandleVoucher, Verdicts
<1>3. /\ journal # NoJournal /\ journal \in Journal
      /\ v.offer.draft \in 1..MaxDrafts /\ v.offer.draft \in 1..drafts
      /\ kept \in Seq(1..MaxDrafts) /\ drafts \in 0..MaxDrafts
  BY Constants DEF VoucherInv, TypeInv, TypeOK, Chain
<1>3a. /\ Range(Append(kept, v.offer.draft)) = Range(kept) \cup {v.offer.draft}
      /\ Len(Append(kept, v.offer.draft)) = Len(kept) + 1 /\ Front(Append(kept, v.offer.draft)) = kept
  <2>0. PICK S : S = 1..MaxDrafts
    OBVIOUS
  <2>1. kept \in Seq(S)
    BY <1>3, <2>0
  <2>2. ASSUME NEW x \in S
        PROVE  /\ Range(Append(kept, x)) = Range(kept) \cup {x}
               /\ Len(Append(kept, x)) = Len(kept) + 1 /\ Front(Append(kept, x)) = kept
    BY <2>1, AppendRange
  <2> QED BY <1>3, <2>0, <2>2
<1>4. ASSUME verdict = "delivered"
      PROVE  kept = journal.position /\ kept' = v.chain /\ v.chain \in Range(journal.doubtful)
  <2>1. Len(v.chain) = Len(kept) + 1 /\ Front(v.chain) = kept /\ Len(kept) \in Nat
    <3>1. v.chain = Append(kept, v.offer.draft) /\ Len(kept) \in Nat
      BY <1>2, <1>3, <1>4
    <3> QED BY <1>3a, <3>1
  <2>2. Len(journal.position) <= Len(kept) /\ Len(journal.position) \in Nat
    BY <1>3, DoubtShape
  <2>3. v.chain \in Range(journal.doubtful)
    BY <1>3, <2>1, <2>2 DEF VoucherInv
  <2> QED BY <1>1, <1>2, <1>3, <1>4, <2>1, <2>3, DoubtShape
<1>5. Range(kept') \subseteq Range(kept) \cup {v.offer.draft} /\ (verdict # "delivered" => kept' = kept)
  BY <1>3a, <1>1
<1>6. kept' \in {journal.position} \cup Range(journal.doubtful)
  BY <1>3, <1>4, <1>5 DEF VoucherInv
<1>7. AgentVoucher'
  <2>1. CASE agent.pc = "awaiting" /\ agent.offer = v.offer
    <3>1. /\ agent'.pc = "awaiting" /\ agent'.offer = agent.offer
          /\ agent'.answer = IF garbled THEN "server-error" ELSE verdict
      BY <1>1, <1>2, <2>1 DEF TypeInv, Agent, Answers
    <3>2. agent.answer = "none" /\ agent.offer.draft \notin Range(kept) /\ InDoubt
      BY <2>1 DEF VoucherInv, AgentVoucher
    <3>3. InDoubt'
      BY <1>2, <3>1, <3>2 DEF InDoubt
    <3>4. \A w \in inbox' : w.offer.draft # agent.offer.draft
      BY <1>2, <2>1 DEF VoucherInv
    <3>5. agent'.answer = "delivered" => kept' = Append(journal.position, agent.offer.draft)
      BY <1>1, <1>2, <1>4, <2>1, <3>1
    <3>6. agent'.answer \notin {"delivered", "server-error", "replayed"}
            => agent.offer.draft \notin Range(kept')
      BY <1>2, <1>5, <3>1, <3>2
    <3>7. agent'.answer # "none"
      BY <1>2, <3>1
    <3> QED BY <1>2, <3>1, <3>3, <3>4, <3>5, <3>6, <3>7 DEF AgentVoucher
  <2>2. CASE ~ (agent.pc = "awaiting" /\ agent.offer = v.offer)
    <3>1. agent' = agent
      BY <1>1, <2>2
    <3>2. agent.pc \in {"offered", "sending"} => Unused(agent.offer.draft)'
      BY <1>2, <1>5, <3>1 DEF VoucherInv, AgentVoucher, Unused
    <3>3. agent.pc = "awaiting" =>
            /\ v.offer.draft # agent.offer.draft
            /\ agent.offer.draft \in Range(kept') => agent.offer.draft \in Range(kept)
      BY <1>5, <2>2 DEF VoucherInv, AgentVoucher
    <3>4. agent.pc = "awaiting" /\ agent.answer = "delivered" => kept' = kept
      <4>1. agent.pc = "awaiting" /\ agent.answer = "delivered" => kept # journal.position
        <5>1. agent.pc = "awaiting" => agent.offer.draft \in 1..MaxDrafts
          BY DEF TypeInv, Buying
        <5>2. journal.position \in Seq(1..MaxDrafts)
          BY <1>3, DoubtShape
        <5>3. agent.pc = "awaiting" =>
                Len(Append(journal.position, agent.offer.draft)) # Len(journal.position)
          BY <5>1, <5>2
        <5> QED BY <5>3 DEF VoucherInv, AgentVoucher
      <4> QED BY <1>4, <1>5, <4>1
    <3> QED BY <1>2, <3>1, <3>2, <3>3, <3>4 DEF VoucherInv, AgentVoucher, InDoubt
  <2> QED BY <2>1, <2>2
<1>8. Range(kept') \subseteq 1..drafts
  BY <1>3, <1>5 DEF VoucherInv
<1>9. QED
  BY <1>2, <1>3, <1>6, <1>7, <1>8 DEF VoucherInv

\* Crashes, settlements and changes of terms keep VoucherInv.
LEMMA VoucherWorld ==
  ASSUME TypeInv, VoucherInv, WorldStep
  PROVE  VoucherInv'
<1>1. ASSUME NEW v \in inbox, HandleVoucher(v)
      PROVE  VoucherInv'
  BY <1>1, VoucherHandled
<1>2. ASSUME NEW o \in offers, ForgetOffer(o)
      PROVE  VoucherInv'
  BY <1>2, QuietVoucher DEF ForgetOffer
<1>3. CASE GatewayCrash
  BY <1>3, QuietVoucher DEF GatewayCrash
<1>4. CASE Settle
  BY <1>4, QuietVoucher DEF Settle
<1>5. ASSUME NEW t \in Prices \cup {Unlicensed}, SetTerms(t)
      PROVE  VoucherInv'
  BY <1>5, QuietVoucher DEF SetTerms, voucherVars
<1>6. ASSUME NEW p \in Payments, Decide(p)
      PROVE  VoucherInv'
  BY <1>6, QuietVoucher DEF Decide, voucherVars
<1>7. ASSUME NEW c \in Connections, Redeem(c) \/ Record(c) \/ FetchFails(c)
      PROVE  VoucherInv'
  <2>1. UNCHANGED <<journal, voucherVars>>
    BY <1>7 DEF Redeem, Record, FetchFails
  <2>2. UNCHANGED agent \/ \E answer \in Answers : Reply(c, answer)
    BY <1>7 DEF Redeem, Record, FetchFails, Answers
  <2>3. agent' = agent \/ agent'.pc = "asking"
    BY <2>2, ReplyTypes
  <2> QED BY <2>1, <2>3, QuietVoucher DEF voucherVars, Buying
<1>8. QED
  BY <1>1, <1>2, <1>3, <1>4, <1>5, <1>6, <1>7 DEF WorldStep

\* VoucherInv holds in every reachable state.
LEMMA VoucherInvariant == Spec => []VoucherInv
<1>1. Init => VoucherInv
  BY EmptyRange DEF Init, Down, VoucherInv, AgentVoucher
<1>2. TypeInv /\ TypeInv' /\ VoucherInv /\ [Next]_vars => VoucherInv'
  <2> SUFFICES ASSUME TypeInv, TypeInv', VoucherInv, [Next]_vars PROVE VoucherInv'
    OBVIOUS
  <2>1. CASE AgentStep
    BY <2>1, VoucherSteps, PaymentQuiet DEF AgentStep
  <2>2. CASE WorldStep
    BY <2>2, VoucherWorld
  <2>3. CASE UNCHANGED vars
    BY <2>3, QuietVoucher DEF vars, voucherVars
  <2> QED BY <2>1, <2>2, <2>3 DEF Next
<1>3. QED
  BY <1>1, <1>2, TypeInvariant, PTL DEF Spec

(***************************************************************************)
(* The agent never loses track of what it owes, wherever an answer is lost *)
(* or a process stops: what the gateway kept is the history its journal    *)
(* ends at, or one of the vouchers it holds in doubt (recordDoubt before   *)
(* send, resolveDoubt after).                                              *)
(***************************************************************************)
THEOREM HistoryKept == Spec => []HistoryIsJournaled
<1>1. VoucherInv => HistoryIsJournaled
  BY DEF VoucherInv, HistoryIsJournaled
<1>2. QED
  BY <1>1, VoucherInvariant, PTL

(***************************************************************************)
(* All doubts continue the position the journal ends at, so that at most   *)
(* one of them can be kept, as journal.ts says.                            *)
(***************************************************************************)
THEOREM DoubtsAtOneSeq == Spec => []DoubtsShareSeq
<1>1. TypeInv /\ VoucherInv => DoubtsShareSeq
  <2> SUFFICES ASSUME TypeInv, VoucherInv, journal # NoJournal,
                      NEW d \in Range(journal.doubtful)
               PROVE  Front(d) = journal.position
    BY DEF DoubtsShareSeq
  <2>1. journal \in Journal
    BY DEF TypeInv, TypeOK
  <2> QED BY <2>1, DoubtShape
<1>2. QED
  BY <1>1, TypeInvariant, VoucherInvariant, PTL
=============================================================================
