--------------------------- MODULE RegistryProofs ---------------------------
(***************************************************************************)
(* What the registry guarantees its readers, for any hosts, sources and    *)
(* publishers, any corpus, and any number of changes and runs of the seed. *)
(***************************************************************************)
EXTENDS Registry, TLAPS

CorpusWorks == UNION {{Corpus[i].works[j] : j \in DOMAIN Corpus[i].works} : i \in DOMAIN Corpus}

Owners == Publishers \cup {Corpus[i].owner : i \in DOMAIN Corpus}

Payouts == Publishers \cup {Corpus[i].payout : i \in DOMAIN Corpus}

AllStatuses ==
  Statuses \cup {Corpus[i].status : i \in DOMAIN Corpus} \cup {w.status : w \in CorpusWorks}

AllRates ==
  Rates \cup {NoRate} \cup {Corpus[i].rate : i \in DOMAIN Corpus} \cup {w.rate : w \in CorpusWorks}

AllContents == Contents \cup {w.content : w \in CorpusWorks}

\* The accounts, and what a reader makes of them.
Domains == [owner : Owners, payout : Payouts, rate : AllRates, status : AllStatuses]

Works == [domain : Hosts, content : AllContents, rate : AllRates, status : AllStatuses]

Quotes == [slot : Nat \ {0}, source : Sources, domain : Domains, work : Works,
           tariff : AllRates, recipient : Payouts]

Rows == [slot : Nat \ {0}, account : Domains \cup Works]

\* The types of the accounts, of what readers hold and of the rows mirrored.
TypeInv ==
  /\ domains \in [Hosts -> {None} \cup Domains]
  /\ works \in [Sources -> {None} \cup Works]
  /\ slot \in Nat \ {0}
  /\ changed \in [Hosts \cup Sources -> Nat]
  /\ authors \in [Sources -> SUBSET (Owners \cup {Operator})]
  /\ requests \in [Readers -> {None} \cup Quotes]
  /\ mirror \in [Hosts \cup Sources -> {None} \cup Rows]
  /\ served \in [Hosts \cup Sources -> Nat]
  /\ todo \subseteq Plan

\* What an instruction does to a domain's account: the owner and where its money goes stay.
DomainWritten(h, d) ==
  /\ h \in Hosts /\ d \in Domains
  /\ domains' = [domains EXCEPT ![h] = d]
  /\ domains[h] # None => d.owner = domains[h].owner /\ d.payout = domains[h].payout
  /\ Writes(h)
  /\ UNCHANGED <<works, authors>>

\* And to a work's account: it stays under its domain, and only that domain's owner or the
\* operator writes it.
WorkWritten(s, w, who) ==
  /\ s \in Sources /\ w \in Works
  /\ works' = [works EXCEPT ![s] = w]
  /\ domains[w.domain] # None /\ who \in {domains[w.domain].owner, Operator}
  /\ works[s] # None => w.domain = works[s].domain
  /\ Writes(s) /\ Authored(s, who)
  /\ UNCHANGED domains

(***************************************************************************)
(* The strengthening for terms: a work is written only by the owner of the *)
(* domain it is under, or by the operator, and a request holds works of    *)
(* the address's own host only.                                            *)
(***************************************************************************)
TermsInv ==
  /\ \A s \in Sources :
       IF works[s] = None THEN authors[s] = {}
       ELSE /\ domains[works[s].domain] # None
            /\ authors[s] \subseteq {domains[works[s].domain].owner, Operator}
  /\ \A r \in Readers :
       requests[r] # None =>
         LET s == requests[r].source
         IN  /\ works[s] # None /\ works[s].domain = HostOf[s]
             /\ requests[r].recipient = domains[HostOf[s]].payout

(***************************************************************************)
(* The strengthening for the mirror: a snapshot in hand is what the chain  *)
(* holds, as long as the slot of the last change is not past it.           *)
(***************************************************************************)
MirrorInv ==
  /\ \A k \in Hosts \cup Sources : changed[k] <= slot /\ (mirror[k] # None => mirror[k].slot <= slot)
  /\ \A r \in Readers :
       requests[r] # None =>
         LET q == requests[r]
             h == HostOf[q.source]
         IN  /\ q.slot <= slot
             /\ q.slot >= changed[h] => q.domain = domains[h]
             /\ q.slot >= changed[q.source] => q.work = works[q.source]
  /\ MirrorKeepsUp

(***************************************************************************)
(* The strengthening for the seed: it still has to register a domain, or   *)
(* the domain is its owner's, before it comes to a work under it.          *)
(***************************************************************************)
OwnedInCorpus(i) ==
  domains[Corpus[i].host] # None /\ domains[Corpus[i].host].owner = Corpus[i].owner

\* What the seed registered is under the corpus's domain, and so will be what it still has to apply.
SeedInv ==
  /\ \A step \in todo :
       step.kind = "register_work" =>
         OwnedInCorpus(step.domain) \/ Step("register_domain", step.domain, 0) \in todo
  /\ \A i \in DOMAIN Corpus : \A j \in DOMAIN Corpus[i].works :
       LET s == Corpus[i].works[j].source
       IN  s \in seeded => /\ works[s] # None /\ works[s].domain = Corpus[i].host
                           /\ OwnedInCorpus(i)

-----------------------------------------------------------------------------

\* An account, a request and a row of the mirror are never what stands for none of them.
LEMMA AccountTypes ==
  /\ \A d \in Domains : d # None /\ d.owner \in Owners /\ d.payout \in Payouts /\ d.rate \in AllRates
  /\ \A w \in Works : w # None /\ w.domain \in Hosts /\ w.rate \in AllRates
  /\ \A q \in Quotes : q # None /\ q.source \in Sources /\ q.slot \in Nat \ {0}
  /\ \A m \in Rows : m # None /\ m.slot \in Nat \ {0}
BY DEF Domains, Works, Quotes, Rows, None

\* The steps of the plan name domains and works of the corpus.
LEMMA PlanTypes ==
  ASSUME NEW step \in Plan
  PROVE  /\ step.domain \in DOMAIN Corpus /\ DomainOf(step).host \in Hosts
         /\ step.kind \in {"register_domain", "set_domain_status", "register_work",
                           "set_work_rates", "set_work_status"}
         /\ step = Step(step.kind, step.domain, step.work)
         /\ step.kind \in {"register_domain", "set_domain_status"} => step.work = 0
         /\ step.kind \in {"register_work", "set_work_rates", "set_work_status"} =>
              /\ step.work \in DOMAIN Corpus[step.domain].works
              /\ step.work \in Nat \ {0} /\ step.domain \in DOMAIN Corpus
              /\ WorkOf(step).source \in Sources /\ WorkOf(step) \in CorpusWorks
              /\ Step("register_domain", step.domain, 0) \in Plan
<1>1. PICK i \in DOMAIN Corpus :
        step \in DomainSteps(i) \cup UNION {WorkSteps(i, j) : j \in DOMAIN Corpus[i].works}
  BY DEF Plan
<1>2. Step("register_domain", i, 0) \in Plan
  BY <1>1 DEF Plan, DomainSteps
<1>3. CASE step \in DomainSteps(i)
  <2>1. step \in {Step("register_domain", i, 0), Step("set_domain_status", i, 0)}
    BY <1>3 DEF DomainSteps, If
  <2> QED BY <1>1, <2>1, CorpusAssumption DEF Step, DomainOf
<1>4. CASE step \notin DomainSteps(i)
  <2>1. PICK j \in DOMAIN Corpus[i].works : step \in WorkSteps(i, j)
    BY <1>1, <1>4
  <2>2. step \in {Step("register_work", i, j), Step("set_work_rates", i, j), Step("set_work_status", i, j)}
    BY <2>1 DEF WorkSteps, If
  <2>3. Corpus[i].works[j] \in CorpusWorks
    BY <1>1, <2>1 DEF CorpusWorks
  <2> QED BY <1>1, <1>2, <2>1, <2>2, <2>3, CorpusAssumption DEF Step, DomainOf, WorkOf
<1>5. QED
  BY <1>3, <1>4

\* What the instructions do, whoever sends them.
LEMMA DomainRegistered ==
  ASSUME TypeInv, NEW payer, NEW h \in Hosts, NEW owner \in Owners, NEW payout \in Payouts,
         NEW rate \in AllRates, RegisterDomain(payer, h, owner, payout, rate)
  PROVE  \E d : DomainWritten(h, d) /\ domains[h] = None /\ d.owner = owner
<1>1. PICK d : d = [owner |-> owner, payout |-> payout, rate |-> rate, status |-> "active"]
  OBVIOUS
<1>2. d \in Domains /\ d.owner = owner
  BY <1>1 DEF Domains, AllStatuses, Statuses
<1>3. DomainWritten(h, d) /\ domains[h] = None
  BY <1>1, <1>2 DEF RegisterDomain, DomainWritten
<1>4. QED
  BY <1>2, <1>3

\* A field set leaves a domain a domain, and its owner and payout as they were.
LEMMA DomainSet ==
  ASSUME TypeInv, NEW owner, NEW h \in Hosts, NEW value,
         \/ value \in AllRates /\ SetDomain(owner, h, "rate", value)
         \/ value \in AllStatuses /\ SetDomain(owner, h, "status", value)
  PROVE  \E d : DomainWritten(h, d)
<1>1. domains[h] \in Domains
  BY DEF SetDomain, TypeInv
<1>2. CASE value \in AllRates /\ SetDomain(owner, h, "rate", value)
  <2>1. [domains[h] EXCEPT !.rate = value] \in Domains
    BY <1>1, <1>2 DEF Domains
  <2>2. domains' = [domains EXCEPT ![h] = [domains[h] EXCEPT !.rate = value]]
    BY <1>2 DEF SetDomain
  <2> QED BY <1>1, <1>2, <2>1, <2>2 DEF SetDomain, DomainWritten, Domains
<1>3. CASE value \in AllStatuses /\ SetDomain(owner, h, "status", value)
  <2>1. [domains[h] EXCEPT !.status = value] \in Domains
    BY <1>1, <1>3 DEF Domains
  <2>2. domains' = [domains EXCEPT ![h] = [domains[h] EXCEPT !.status = value]]
    BY <1>3 DEF SetDomain
  <2> QED BY <1>1, <1>3, <2>1, <2>2 DEF SetDomain, DomainWritten, Domains
<1>4. QED
  BY <1>2, <1>3

\* register_work adds a work of the right type.
LEMMA WorkRegistered ==
  ASSUME TypeInv, NEW payer, NEW h \in Hosts, NEW s \in Sources, NEW content \in AllContents,
         RegisterWork(payer, h, s, content)
  PROVE  \E w : WorkWritten(s, w, payer) /\ works[s] = None /\ w.domain = h
<1>1. PICK w : w = [domain |-> h, content |-> content, rate |-> NoRate, status |-> "active"]
  OBVIOUS
<1>2. w \in Works /\ w.domain = h
  BY <1>1 DEF Works, AllStatuses, Statuses, AllRates
<1>3. WorkWritten(s, w, payer) /\ works[s] = None
  BY <1>1, <1>2 DEF RegisterWork, WorkWritten
<1>4. QED
  BY <1>2, <1>3

\* A field set leaves a work a work, under the domain it was under.
LEMMA WorkSet ==
  ASSUME TypeInv, NEW owner, NEW h \in Hosts, NEW s \in Sources, NEW value,
         \/ value \in AllRates /\ SetWork(owner, h, s, "rate", value)
         \/ value \in AllStatuses /\ SetWork(owner, h, s, "status", value)
  PROVE  \E w : WorkWritten(s, w, owner)
<1>1. works[s] \in Works
  BY DEF SetWork, TypeInv
<1>2. CASE value \in AllRates /\ SetWork(owner, h, s, "rate", value)
  <2>1. [works[s] EXCEPT !.rate = value] \in Works
    BY <1>1, <1>2 DEF Works
  <2>2. works' = [works EXCEPT ![s] = [works[s] EXCEPT !.rate = value]]
    BY <1>2 DEF SetWork
  <2> QED BY <1>1, <1>2, <2>1, <2>2 DEF SetWork, WorkWritten, Works
<1>3. CASE value \in AllStatuses /\ SetWork(owner, h, s, "status", value)
  <2>1. [works[s] EXCEPT !.status = value] \in Works
    BY <1>1, <1>3 DEF Works
  <2>2. works' = [works EXCEPT ![s] = [works[s] EXCEPT !.status = value]]
    BY <1>3 DEF SetWork
  <2> QED BY <1>1, <1>3, <2>1, <2>2 DEF SetWork, WorkWritten, Works
<1>4. QED
  BY <1>2, <1>3

\* A publisher's change is such a write.
LEMMA ChangeWrites ==
  ASSUME TypeInv, NEW p \in Publishers, Change(p)
  PROVE  /\ \/ \E h, d : DomainWritten(h, d)
            \/ \E s, w, who : WorkWritten(s, w, who)
         /\ UNCHANGED <<gatewayVars, seedVars>>
<1>1. PICK ix \in InstructionsOf(p) : Executes(ix)
  BY DEF Change
<1>2. p \in Owners /\ p \in Payouts /\ Rates \subseteq AllRates /\ NoRate \in AllRates
      /\ Statuses \subseteq AllStatuses /\ Contents \subseteq AllContents
  BY DEF Owners, Payouts, AllRates, AllStatuses, AllContents
<1>3. ASSUME NEW h \in Hosts, NEW rate \in Rates, ix = buildRegisterDomain(p, h, p, p, rate)
      PROVE  \E g, d : DomainWritten(g, d)
  <2>1. RegisterDomain(p, h, p, p, rate)
    BY <1>1, <1>3 DEF Executes, buildRegisterDomain, Instruction
  <2> QED BY <1>2, <2>1, DomainRegistered
<1>4. ASSUME NEW h \in Hosts, NEW s \in Sources, NEW content \in Contents,
             ix = buildRegisterWork(p, h, s, content)
      PROVE  \E q, w, who : WorkWritten(q, w, who)
  <2>1. RegisterWork(p, h, s, content)
    BY <1>1, <1>4 DEF Executes, buildRegisterWork, Instruction
  <2> QED BY <1>2, <2>1, WorkRegistered
<1>5. ASSUME NEW h \in Hosts, NEW rate \in Rates, ix = buildSetDomainRates(p, h, rate)
      PROVE  \E g, d : DomainWritten(g, d)
  <2>1. SetDomain(p, h, "rate", rate)
    BY <1>1, <1>5 DEF Executes, buildSetDomainRates, Instruction
  <2> QED BY <1>2, <2>1, DomainSet
<1>6. ASSUME NEW h \in Hosts, NEW status \in Statuses, ix = buildSetDomainStatus(p, h, status)
      PROVE  \E g, d : DomainWritten(g, d)
  <2>1. SetDomain(p, h, "status", status)
    BY <1>1, <1>6 DEF Executes, buildSetDomainStatus, Instruction
  <2> QED BY <1>2, <2>1, DomainSet
<1>7. ASSUME NEW h \in Hosts, NEW s \in Sources, NEW rate \in Rates \cup {NoRate},
             ix = buildSetWorkRates(p, h, s, rate)
      PROVE  \E q, w, who : WorkWritten(q, w, who)
  <2>1. SetWork(p, h, s, "rate", rate)
    BY <1>1, <1>7 DEF Executes, buildSetWorkRates, Instruction
  <2> QED BY <1>2, <2>1, WorkSet
<1>8. ASSUME NEW h \in Hosts, NEW s \in Sources, NEW status \in Statuses,
             ix = buildSetWorkStatus(p, h, s, status)
      PROVE  \E q, w, who : WorkWritten(q, w, who)
  <2>1. SetWork(p, h, s, "status", status)
    BY <1>1, <1>8 DEF Executes, buildSetWorkStatus, Instruction
  <2> QED BY <1>2, <2>1, WorkSet
<1>9. (\E h, d : DomainWritten(h, d)) \/ (\E s, w, who : WorkWritten(s, w, who))
  BY <1>1, <1>3, <1>4, <1>5, <1>6, <1>7, <1>8 DEF InstructionsOf
<1>10. QED
  BY <1>9 DEF Change

\* So is a step of the seed; its registrations are first ones.
LEMMA SeedWrites ==
  ASSUME TypeInv, NEW step \in Plan, Executes(InstructionOf(step))
  PROVE  /\ \/ \E h, d : DomainWritten(h, d)
            \/ \E s, w, who : WorkWritten(s, w, who)
         /\ step.kind = "register_domain" =>
              \E d : /\ DomainWritten(DomainOf(step).host, d)
                     /\ d.owner = DomainOf(step).owner
         /\ step.kind = "register_work" =>
              \E w, who : /\ WorkWritten(WorkOf(step).source, w, who)
                          /\ w.domain = DomainOf(step).host
<1> DEFINE d == DomainOf(step)
           w == WorkOf(step)
<1>1. /\ step.domain \in DOMAIN Corpus /\ d.host \in Hosts
      /\ step.kind \in {"register_domain", "set_domain_status", "register_work",
                        "set_work_rates", "set_work_status"}
      /\ step.kind \in {"register_work", "set_work_rates", "set_work_status"} =>
           w.source \in Sources /\ w \in CorpusWorks
  BY PlanTypes
<1>2. d.owner \in Owners /\ d.payout \in Payouts /\ d.rate \in AllRates /\ d.status \in AllStatuses
  BY <1>1 DEF DomainOf, Owners, Payouts, AllRates, AllStatuses
<1>3. w \in CorpusWorks => w.rate \in AllRates /\ w.status \in AllStatuses /\ w.content \in AllContents
  BY DEF AllRates, AllStatuses, AllContents
<1>4. CASE step.kind = "register_domain"
  <2>1. RegisterDomain(Operator, d.host, d.owner, d.payout, d.rate)
    BY <1>4 DEF InstructionOf, Executes, buildRegisterDomain, Instruction
  <2> HIDE DEF d
  <2>2. \E x : DomainWritten(d.host, x) /\ domains[d.host] = None /\ x.owner = d.owner
    BY <1>1, <1>2, <2>1, DomainRegistered
  <2> QED BY <1>4, <2>2 DEF d
<1>5. CASE step.kind = "set_domain_status"
  <2>1. SetDomain(d.owner, d.host, "status", d.status)
    BY <1>5 DEF InstructionOf, Executes, buildSetDomainStatus, Instruction
  <2> HIDE DEF d
  <2>2. \E x : DomainWritten(d.host, x)
    BY <1>1, <1>2, <2>1, DomainSet
  <2> QED BY <1>5, <2>2
<1>6. CASE step.kind = "register_work"
  <2>1. RegisterWork(Operator, d.host, w.source, w.content)
    BY <1>6 DEF InstructionOf, Executes, buildRegisterWork, Instruction
  <2> HIDE DEF d, w
  <2>2. \E x : WorkWritten(w.source, x, Operator) /\ works[w.source] = None /\ x.domain = d.host
    BY <1>1, <1>3, <1>6, <2>1, WorkRegistered
  <2> QED BY <1>6, <2>2 DEF d, w
<1>7. CASE step.kind = "set_work_rates"
  <2>1. SetWork(d.owner, d.host, w.source, "rate", w.rate)
    BY <1>7 DEF InstructionOf, Executes, buildSetWorkRates, Instruction
  <2> HIDE DEF d, w
  <2>2. \E x : WorkWritten(w.source, x, d.owner)
    BY <1>1, <1>3, <1>7, <2>1, WorkSet
  <2> QED BY <1>7, <2>2
<1>8. CASE step.kind = "set_work_status"
  <2>1. SetWork(d.owner, d.host, w.source, "status", w.status)
    BY <1>8 DEF InstructionOf, Executes, buildSetWorkStatus, Instruction
  <2> HIDE DEF d, w
  <2>2. \E x : WorkWritten(w.source, x, d.owner)
    BY <1>1, <1>3, <1>8, <2>1, WorkSet
  <2> QED BY <1>8, <2>2
<1>9. QED
  BY <1>1, <1>4, <1>5, <1>6, <1>7, <1>8

-----------------------------------------------------------------------------

\* What a write leaves, and that it is newer than all before it.
LEMMA WriteTypes ==
  ASSUME TypeInv,
         \/ \E h, d : DomainWritten(h, d)
         \/ \E s, w, who : WorkWritten(s, w, who),
         UNCHANGED gatewayVars, todo' \subseteq Plan
  PROVE  TypeInv'
<1>1. ASSUME NEW h, NEW d, DomainWritten(h, d)
      PROVE  TypeInv'
  BY <1>1 DEF DomainWritten, Writes, TypeInv, gatewayVars
<1>2. ASSUME NEW s, NEW w, NEW who, WorkWritten(s, w, who)
      PROVE  TypeInv'
  <2>1. who \in Owners \cup {Operator}
    <3>1. domains[w.domain] \in Domains
      BY <1>2, AccountTypes DEF WorkWritten, TypeInv
    <3> QED BY <1>2, <3>1, AccountTypes DEF WorkWritten
  <2> QED BY <1>2, <2>1 DEF WorkWritten, Writes, Authored, TypeInv, gatewayVars
<1>3. QED
  BY <1>1, <1>2

\* The larger of two slots.
LEMMA Newest ==
  ASSUME NEW a \in Nat, NEW b \in Nat
  PROVE  Max({a, b}) \in {a, b} /\ Max({a, b}) >= a /\ Max({a, b}) >= b
<1>1. \E x \in {a, b} : \A y \in {a, b} : x >= y
  <2>1. a >= b \/ b >= a
    OBVIOUS
  <2> QED BY <2>1
<1>2. Max({a, b}) \in {a, b} /\ \A y \in {a, b} : Max({a, b}) >= y
  BY <1>1 DEF Max
<1>3. QED
  BY <1>2

\* What a request reads, and what it leaves in the mirror.
LEMMA ReadTypes ==
  ASSUME TypeInv, NEW r \in Readers, NEW s \in Sources, Read(r, s)
  PROVE  /\ TypeInv'
         /\ requests'[r].slot = slot /\ requests'[r].source = s
         /\ requests'[r].domain = domains[HostOf[s]] /\ requests'[r].work = works[s]
         /\ requests'[r].recipient = domains[HostOf[s]].payout
         /\ works[s] # None /\ works[s].domain = HostOf[s]
         /\ \A q \in Readers \ {r} : requests'[q] = requests[q]
<1>1. /\ HostOf[s] \in Hosts /\ works[s] \in Works /\ domains[HostOf[s]] \in Domains
      /\ works[s].domain = HostOf[s] /\ works[s] # None
  BY RegistryAssumption DEF Read, Quoted, TypeInv
<1>2. Tariff(domains[HostOf[s]], works[s]) \in AllRates
  BY <1>1, AccountTypes DEF Tariff
<1>3. PICK q : q = [slot |-> slot, source |-> s, domain |-> domains[HostOf[s]], work |-> works[s],
                    tariff |-> Tariff(domains[HostOf[s]], works[s]),
                    recipient |-> domains[HostOf[s]].payout]
  OBVIOUS
<1>4. q \in Quotes
  BY <1>1, <1>2, <1>3, AccountTypes DEF Quotes, TypeInv
<1>5. requests' = [requests EXCEPT ![r] = q] /\ UNCHANGED <<chainVars, mirror, served, todo>>
  BY <1>3 DEF Read, seedVars
<1>6. TypeInv'
  BY <1>4, <1>5 DEF TypeInv, chainVars
<1>7. requests'[r] = q /\ \A p \in Readers \ {r} : requests'[p] = requests[p]
  BY <1>5 DEF TypeInv
<1>8. QED
  BY <1>1, <1>3, <1>6, <1>7

\* Recording an issuance keeps the rows well typed.
LEMMA RecordTypes ==
  ASSUME TypeInv, NEW r \in Readers, Record(r)
  PROVE  TypeInv'
<1>1. PICK q : q = requests[r]
  OBVIOUS
<1>2. q \in Quotes
  BY <1>1 DEF Record, TypeInv
<1>3. PICK s, h : s = q.source /\ h = HostOf[s]
  OBVIOUS
<1>4. s \in Sources /\ h \in Hosts /\ q.slot \in Nat \ {0}
  BY <1>2, <1>3, RegistryAssumption, AccountTypes
<1>5. DomainRow(q) \in Rows /\ WorkRow(q) \in Rows
  BY <1>2 DEF DomainRow, WorkRow, Rows, Quotes
<1>6. /\ mirror' = [mirror EXCEPT ![h] = Upsert(DomainRow(q), @), ![s] = Upsert(WorkRow(q), @)]
      /\ served' = [served EXCEPT ![h] = Max({@, q.slot}), ![s] = Max({@, q.slot})]
      /\ requests' = [requests EXCEPT ![r] = None]
      /\ UNCHANGED <<chainVars, todo>>
  BY <1>1, <1>3 DEF Record, seedVars
<1>7. /\ mirror[h] \in {None} \cup Rows /\ mirror[s] \in {None} \cup Rows
      /\ served[h] \in Nat /\ served[s] \in Nat /\ h # s
  BY <1>4, RegistryAssumption DEF TypeInv
<1>8. mirror' \in [Hosts \cup Sources -> {None} \cup Rows]
  BY <1>5, <1>6, <1>7 DEF Upsert, TypeInv
<1>9. served' \in [Hosts \cup Sources -> Nat]
  <2>1. Max({served[h], q.slot}) \in Nat /\ Max({served[s], q.slot}) \in Nat
    BY <1>4, <1>7, Newest
  <2> QED BY <1>6, <1>7, <2>1 DEF TypeInv
<1>10. QED
  BY <1>6, <1>8, <1>9 DEF TypeInv, chainVars

\* Every step keeps the types.
LEMMA TypeStep ==
  ASSUME TypeInv, Next
  PROVE  TypeInv'
<1>1. ASSUME NEW p \in Publishers, Change(p)
      PROVE  TypeInv'
  BY <1>1, ChangeWrites, WriteTypes DEF seedVars, TypeInv
<1>2. ASSUME NEW r \in Readers, Forget(r)
      PROVE  TypeInv'
  BY <1>2 DEF Forget, TypeInv, chainVars, seedVars
<1>3. CASE SeedStarts
  <2>1. todo' \subseteq Plan
    BY <1>3 DEF SeedStarts
  <2> QED BY <1>3, <2>1 DEF SeedStarts, TypeInv, chainVars, gatewayVars
<1>4. CASE SeedApplies
  <2>1. PICK step \in todo : Executes(InstructionOf(step)) /\ todo' \in {todo \ {step}, {}}
    BY <1>4 DEF SeedApplies
  <2>2. UNCHANGED gatewayVars /\ todo' \subseteq Plan /\ step \in Plan
    BY <1>4, <2>1 DEF SeedApplies, TypeInv
  <2> QED BY <2>1, <2>2, SeedWrites, WriteTypes
<1>5. CASE SeedStops
  BY <1>5 DEF SeedStops, TypeInv, chainVars, gatewayVars
<1>6. QED
  BY <1>1, <1>2, <1>3, <1>4, <1>5, ReadTypes, RecordTypes DEF Next

(***************************************************************************)
(* Every account, request and row keeps its type; whoever owns a domain is *)
(* a publisher, or an owner that the corpus names.                         *)
(***************************************************************************)
LEMMA TypeInvariant == Spec => []TypeInv
<1>1. Init => TypeInv
  BY DEF Init, TypeInv
<1>2. TypeInv /\ [Next]_vars => TypeInv'
  <2> SUFFICES ASSUME TypeInv, [Next]_vars PROVE TypeInv'
    OBVIOUS
  <2>1. CASE UNCHANGED vars
    BY <2>1 DEF vars, chainVars, gatewayVars, seedVars, TypeInv
  <2> QED BY <2>1, TypeStep
<1>3. QED
  BY <1>1, <1>2, PTL DEF Spec

-----------------------------------------------------------------------------

\* Every step writes an account and leaves the gateway alone, or leaves the accounts alone.
LEMMA Steps ==
  ASSUME TypeInv, Next
  PROVE  \/ (\E h, d : DomainWritten(h, d)) /\ UNCHANGED gatewayVars
         \/ (\E s, w, who : WorkWritten(s, w, who)) /\ UNCHANGED gatewayVars
         \/ (\E r \in Readers, s \in Sources : Read(r, s)) /\ UNCHANGED chainVars
         \/ (\E r \in Readers : Record(r) \/ Forget(r)) /\ UNCHANGED chainVars
         \/ UNCHANGED <<chainVars, gatewayVars>>
<1>1. ASSUME NEW p \in Publishers, Change(p)
      PROVE  /\ UNCHANGED gatewayVars
             /\ (\E h, d : DomainWritten(h, d)) \/ (\E s, w, who : WorkWritten(s, w, who))
  BY <1>1, ChangeWrites
<1>2. CASE SeedApplies
  <2>1. PICK step \in todo : Executes(InstructionOf(step))
    BY <1>2 DEF SeedApplies
  <2>2. UNCHANGED gatewayVars /\ step \in Plan
    BY <1>2, <2>1 DEF SeedApplies, TypeInv
  <2>3. (\E h, d : DomainWritten(h, d)) \/ (\E s, w, who : WorkWritten(s, w, who))
    BY <2>1, <2>2, SeedWrites
  <2> QED BY <2>2, <2>3
<1>3. CASE SeedStarts \/ SeedStops
  BY <1>3 DEF SeedStarts, SeedStops
<1>4. CASE \/ \E r \in Readers, s \in Sources : Read(r, s)
           \/ \E r \in Readers : Record(r) \/ Forget(r)
  <2>1. UNCHANGED chainVars
    BY <1>4 DEF Read, Record, Forget
  <2> QED BY <1>4, <2>1
<1>5. QED
  BY <1>1, <1>2, <1>3, <1>4 DEF Next

\* Every step keeps TermsInv.
LEMMA TermsStep ==
  ASSUME TypeInv, TermsInv, Next
  PROVE  TermsInv'
<1>1. ASSUME NEW h, NEW d, DomainWritten(h, d), UNCHANGED gatewayVars
      PROVE  TermsInv'
  <2>1. /\ domains' = [domains EXCEPT ![h] = d] /\ d # None /\ h \in Hosts
        /\ domains[h] # None => d.owner = domains[h].owner /\ d.payout = domains[h].payout
        /\ UNCHANGED <<works, authors, requests>>
    BY <1>1, AccountTypes DEF DomainWritten, gatewayVars
  <2>2. \A g \in Hosts : domains[g] # None =>
          /\ domains'[g] # None /\ domains'[g].owner = domains[g].owner
          /\ domains'[g].payout = domains[g].payout
    BY <2>1 DEF TypeInv
  <2>3. ASSUME NEW s \in Sources
        PROVE  IF works'[s] = None THEN authors'[s] = {}
               ELSE /\ domains'[works'[s].domain] # None
                    /\ authors'[s] \subseteq {domains'[works'[s].domain].owner, Operator}
    <3>1. works[s] # None => works[s].domain \in Hosts
      BY AccountTypes DEF TypeInv
    <3> QED BY <2>1, <2>2, <3>1 DEF TermsInv
  <2>4. ASSUME NEW r \in Readers, requests'[r] # None
        PROVE  LET s == requests'[r].source
               IN  /\ works'[s] # None /\ works'[s].domain = HostOf[s]
                   /\ requests'[r].recipient = domains'[HostOf[s]].payout
    <3>1. PICK s \in Sources : s = requests[r].source
      BY <2>1, <2>4, AccountTypes DEF TypeInv
    <3>2. /\ works[s] # None /\ works[s].domain = HostOf[s] /\ HostOf[s] \in Hosts
          /\ requests[r].recipient = domains[HostOf[s]].payout
          /\ domains[HostOf[s]] # None
      BY <2>1, <2>4, <3>1, RegistryAssumption DEF TermsInv
    <3> QED BY <2>1, <2>2, <3>1, <3>2
  <2> QED BY <2>3, <2>4 DEF TermsInv
<1>2. ASSUME NEW s, NEW w, NEW who, WorkWritten(s, w, who), UNCHANGED gatewayVars
      PROVE  TermsInv'
  <2>1. /\ works' = [works EXCEPT ![s] = w] /\ w # None /\ s \in Sources
        /\ domains[w.domain] # None /\ who \in {domains[w.domain].owner, Operator}
        /\ works[s] # None => w.domain = works[s].domain
        /\ authors' = [authors EXCEPT ![s] = @ \cup {who}]
        /\ UNCHANGED <<domains, requests>>
    BY <1>2, AccountTypes DEF WorkWritten, Authored, gatewayVars
  <2>2. /\ works'[s] = w /\ \A q \in Sources \ {s} : works'[q] = works[q]
        /\ authors'[s] = authors[s] \cup {who}
        /\ \A q \in Sources \ {s} : authors'[q] = authors[q]
    BY <2>1 DEF TypeInv
  <2>3. ASSUME NEW q \in Sources
        PROVE  IF works'[q] = None THEN authors'[q] = {}
               ELSE /\ domains'[works'[q].domain] # None
                    /\ authors'[q] \subseteq {domains'[works'[q].domain].owner, Operator}
    BY <2>1, <2>2 DEF TermsInv
  <2>4. ASSUME NEW r \in Readers, requests'[r] # None
        PROVE  LET q == requests'[r].source
               IN  /\ works'[q] # None /\ works'[q].domain = HostOf[q]
                   /\ requests'[r].recipient = domains'[HostOf[q]].payout
    <3>1. PICK q \in Sources : q = requests[r].source
      BY <2>1, <2>4, AccountTypes DEF TypeInv
    <3> QED BY <2>1, <2>2, <2>4, <3>1 DEF TermsInv
  <2> QED BY <2>3, <2>4 DEF TermsInv
<1>3. ASSUME NEW r \in Readers, NEW s \in Sources, Read(r, s), UNCHANGED chainVars
      PROVE  TermsInv'
  <2>1. /\ requests'[r].source = s /\ works[s] # None /\ works[s].domain = HostOf[s]
        /\ requests'[r].recipient = domains[HostOf[s]].payout
        /\ \A q \in Readers \ {r} : requests'[q] = requests[q]
    BY <1>3, ReadTypes
  <2> QED BY <1>3, <2>1 DEF TermsInv, chainVars
<1>4. ASSUME NEW r \in Readers, Record(r) \/ Forget(r), UNCHANGED chainVars
      PROVE  TermsInv'
  <2>1. \A q \in Readers : requests'[q] = None \/ requests'[q] = requests[q]
    BY <1>4 DEF Record, Forget, TypeInv
  <2> QED BY <1>4, <2>1 DEF TermsInv, chainVars
<1>5. CASE UNCHANGED <<chainVars, gatewayVars>>
  BY <1>5 DEF TermsInv, chainVars, gatewayVars
<1>6. QED
  BY <1>1, <1>2, <1>3, <1>4, <1>5, Steps

(***************************************************************************)
(* What an agent is asked to pay goes to the owner of the address's host,  *)
(* and nobody but that owner and the operator ever wrote the work's terms, *)
(* whoever registered the address first and whatever changes after it was  *)
(* read (quoteFor's check of the domain, has_one = domain).                *)
(***************************************************************************)
THEOREM HostsOwnTerms == Spec => []TermsAreTheHosts
<1>1. Init => TermsInv
  BY DEF Init, TermsInv
<1>2. TypeInv /\ TermsInv /\ [Next]_vars => TermsInv'
  <2> SUFFICES ASSUME TypeInv, TermsInv, [Next]_vars PROVE TermsInv'
    OBVIOUS
  <2>1. CASE UNCHANGED vars
    BY <2>1 DEF vars, chainVars, gatewayVars, TermsInv
  <2> QED BY <2>1, TermsStep
<1>3. TypeInv /\ TermsInv => TermsAreTheHosts
  <2> SUFFICES ASSUME TypeInv, TermsInv, NEW r \in Readers, requests[r] # None
               PROVE  LET domain == domains[HostOf[requests[r].source]]
                      IN  /\ requests[r].recipient = domain.payout
                          /\ authors[requests[r].source] \subseteq {domain.owner, Operator}
    BY DEF TermsAreTheHosts
  <2>1. requests[r].source \in Sources
    BY AccountTypes DEF TypeInv
  <2> QED BY <2>1 DEF TermsInv
<1>4. QED
  BY <1>1, <1>2, <1>3, TypeInvariant, PTL DEF Spec

-----------------------------------------------------------------------------

\* A write makes its account newer than every snapshot and row; all others stay as they were.
LEMMA MirrorWritten ==
  ASSUME TypeInv, MirrorInv, NEW key \in Hosts \cup Sources, Writes(key), UNCHANGED gatewayVars,
         \A g \in Hosts \ {key} : domains'[g] = domains[g],
         \A s \in Sources \ {key} : works'[s] = works[s]
  PROVE  MirrorInv'
<1>1. /\ slot' = slot + 1 /\ slot \in Nat
      /\ changed' = [changed EXCEPT ![key] = slot + 1]
      /\ UNCHANGED <<requests, mirror, served>>
  BY DEF Writes, gatewayVars, TypeInv
<1>2. changed'[key] = slot + 1 /\ \A k \in (Hosts \cup Sources) \ {key} : changed'[k] = changed[k]
  BY <1>1 DEF TypeInv
<1>3. \A k \in Hosts \cup Sources : mirror[k] # None => mirror[k].slot \in Nat
  BY AccountTypes DEF TypeInv
<1>4. \A k \in Hosts \cup Sources : changed[k] \in Nat /\ served[k] \in Nat
  BY DEF TypeInv
<1>5. ASSUME NEW k \in Hosts \cup Sources
      PROVE  changed'[k] <= slot' /\ (mirror'[k] # None => mirror'[k].slot <= slot')
  BY <1>1, <1>2, <1>3, <1>4, <1>5 DEF MirrorInv
<1>6. ASSUME NEW r \in Readers, requests'[r] # None
      PROVE  LET q == requests'[r]
                 h == HostOf[q.source]
             IN  /\ q.slot <= slot'
                 /\ q.slot >= changed'[h] => q.domain = domains'[h]
                 /\ q.slot >= changed'[q.source] => q.work = works'[q.source]
  <2>1. PICK q \in Quotes : q = requests[r]
    BY <1>1, <1>6 DEF TypeInv
  <2>2. PICK h \in Hosts, s \in Sources : s = q.source /\ h = HostOf[s]
    BY <2>1, AccountTypes, RegistryAssumption
  <2>3. /\ q.slot <= slot /\ q.slot \in Nat
        /\ q.slot >= changed[h] => q.domain = domains[h]
        /\ q.slot >= changed[s] => q.work = works[s]
    BY <1>1, <1>6, <2>1, <2>2, AccountTypes DEF MirrorInv
  <2>4. q.slot >= changed'[h] => q.domain = domains'[h]
    BY <1>1, <1>2, <2>2, <2>3
  <2>5. q.slot >= changed'[s] => q.work = works'[s]
    BY <1>1, <1>2, <2>2, <2>3
  <2> QED BY <1>1, <2>1, <2>2, <2>3, <2>4, <2>5
<1>7. ASSUME NEW k \in Hosts \cup Sources, mirror'[k] # None, mirror'[k].slot >= changed'[k]
      PROVE  mirror'[k].account = IF k \in Hosts THEN domains'[k] ELSE works'[k]
  <2>1. k # key
    BY <1>1, <1>2, <1>3, <1>7 DEF MirrorInv
  <2>2. mirror[k] # None /\ mirror[k].slot >= changed[k]
    BY <1>1, <1>2, <1>7, <2>1
  <2>3. mirror[k].account = IF k \in Hosts THEN domains[k] ELSE works[k]
    BY <2>2 DEF MirrorInv, MirrorKeepsUp
  <2> QED BY <1>1, <2>1, <2>3
<1>8. ASSUME NEW k \in Hosts \cup Sources, served'[k] > 0
      PROVE  mirror'[k] # None /\ mirror'[k].slot >= served'[k]
  BY <1>1, <1>8 DEF MirrorInv, MirrorKeepsUp
<1>9. MirrorKeepsUp'
  BY <1>7, <1>8 DEF MirrorKeepsUp
<1>10. QED
  BY <1>5, <1>6, <1>9 DEF MirrorInv

\* The row kept of two is no older than either, and is one of them.
LEMMA Upserted ==
  ASSUME NEW row \in Rows, NEW held \in {None} \cup Rows
  PROVE  LET kept == Upsert(row, held)
         IN  /\ kept \in Rows /\ kept \in {row, held} /\ kept.slot >= row.slot
             /\ held # None => kept.slot >= held.slot
  BY AccountTypes DEF Upsert

\* What recording a snapshot leaves of a row of the mirror.
LEMMA MirrorRecorded ==
  ASSUME TypeInv, MirrorInv, NEW key \in Hosts \cup Sources, NEW row \in Rows,
         row.slot <= slot,
         row.slot >= changed[key] => row.account = IF key \in Hosts THEN domains[key] ELSE works[key]
  PROVE  LET kept == Upsert(row, mirror[key])
             newest == Max({served[key], row.slot})
         IN  /\ kept # None /\ kept.slot >= newest /\ kept.slot <= slot
             /\ kept.slot >= changed[key] =>
                  kept.account = IF key \in Hosts THEN domains[key] ELSE works[key]
<1>1. PICK held \in {None} \cup Rows : held = mirror[key]
  BY DEF TypeInv
<1>2. PICK kept : kept = Upsert(row, held)
  OBVIOUS
<1>3. /\ kept \in Rows /\ kept \in {row, held} /\ kept.slot >= row.slot
      /\ held # None => kept.slot >= held.slot
  BY <1>2, Upserted
<1>4. /\ held # None => held.slot <= slot
      /\ served[key] > 0 => held # None /\ held.slot >= served[key]
      /\ held # None /\ held.slot >= changed[key] =>
           held.account = IF key \in Hosts THEN domains[key] ELSE works[key]
  BY <1>1 DEF MirrorInv, MirrorKeepsUp
<1>5. served[key] \in Nat /\ row.slot \in Nat \ {0} /\ kept # None /\ kept.slot \in Nat
      /\ (held # None => held.slot \in Nat)
  BY <1>3, AccountTypes DEF TypeInv
<1>6. PICK newest : newest = Max({served[key], row.slot})
  OBVIOUS
<1>7. newest \in {served[key], row.slot}
  BY <1>5, <1>6, Newest
<1>8. kept.slot >= newest
  BY <1>3, <1>4, <1>5, <1>7
<1>9. kept.slot <= slot
  BY <1>3, <1>4, <1>5
<1>10. kept.slot >= changed[key] =>
         kept.account = IF key \in Hosts THEN domains[key] ELSE works[key]
  BY <1>3, <1>4, <1>5
<1>11. QED
  BY <1>1, <1>2, <1>5, <1>6, <1>8, <1>9, <1>10

\* Every step keeps MirrorInv.
LEMMA MirrorStep ==
  ASSUME TypeInv, MirrorInv, Next
  PROVE  MirrorInv'
<1>1. ASSUME NEW h, NEW d, DomainWritten(h, d), UNCHANGED gatewayVars
      PROVE  MirrorInv'
  <2>1. /\ h \in Hosts /\ Writes(h)
        /\ \A g \in Hosts \ {h} : domains'[g] = domains[g]
        /\ \A s \in Sources \ {h} : works'[s] = works[s]
    BY <1>1 DEF DomainWritten, TypeInv
  <2> QED BY <1>1, <2>1, MirrorWritten
<1>2. ASSUME NEW s, NEW w, NEW who, WorkWritten(s, w, who), UNCHANGED gatewayVars
      PROVE  MirrorInv'
  <2>1. /\ s \in Sources /\ Writes(s)
        /\ \A g \in Hosts \ {s} : domains'[g] = domains[g]
        /\ \A q \in Sources \ {s} : works'[q] = works[q]
    BY <1>2 DEF WorkWritten, TypeInv
  <2> QED BY <1>2, <2>1, MirrorWritten
<1>3. ASSUME NEW r \in Readers, NEW s \in Sources, Read(r, s), UNCHANGED chainVars
      PROVE  MirrorInv'
  <2>1. /\ requests'[r].slot = slot /\ requests'[r].source = s
        /\ requests'[r].domain = domains[HostOf[s]] /\ requests'[r].work = works[s]
        /\ \A q \in Readers \ {r} : requests'[q] = requests[q]
    BY <1>3, ReadTypes
  <2>2. UNCHANGED <<domains, works, slot, changed, mirror, served>>
    BY <1>3 DEF Read, chainVars
  <2>3. slot <= slot
    BY DEF TypeInv
  <2>4. ASSUME NEW p \in Readers, requests'[p] # None
        PROVE  LET q == requests'[p]
                   h == HostOf[q.source]
               IN  /\ q.slot <= slot'
                   /\ q.slot >= changed'[h] => q.domain = domains'[h]
                   /\ q.slot >= changed'[q.source] => q.work = works'[q.source]
    BY <2>1, <2>2, <2>3, <2>4 DEF MirrorInv
  <2>5. MirrorKeepsUp'
    BY <2>2 DEF MirrorInv, MirrorKeepsUp
  <2> QED BY <2>2, <2>4, <2>5 DEF MirrorInv
<1>4. ASSUME NEW r \in Readers, Forget(r), UNCHANGED chainVars
      PROVE  MirrorInv'
  <2>1. /\ \A p \in Readers : requests'[p] = None \/ requests'[p] = requests[p]
        /\ UNCHANGED <<domains, works, slot, changed, mirror, served>>
    BY <1>4 DEF Forget, chainVars, TypeInv
  <2> QED BY <2>1 DEF MirrorInv, MirrorKeepsUp
<1>5. ASSUME NEW r \in Readers, Record(r), UNCHANGED chainVars
      PROVE  MirrorInv'
  <2>1. PICK q \in Quotes : q = requests[r] /\ q # None
    BY <1>5 DEF Record, TypeInv
  <2>2. PICK s \in Sources, h \in Hosts : s = q.source /\ h = HostOf[s] /\ h # s
    BY <2>1, AccountTypes, RegistryAssumption
  <2>3. /\ mirror' = [mirror EXCEPT ![h] = Upsert(DomainRow(q), @), ![s] = Upsert(WorkRow(q), @)]
        /\ served' = [served EXCEPT ![h] = Max({@, q.slot}), ![s] = Max({@, q.slot})]
        /\ requests' = [requests EXCEPT ![r] = None]
        /\ UNCHANGED <<domains, works, slot, changed>>
    BY <1>5, <2>1, <2>2 DEF Record, chainVars
  <2>4. /\ mirror'[h] = Upsert(DomainRow(q), mirror[h]) /\ mirror'[s] = Upsert(WorkRow(q), mirror[s])
        /\ served'[h] = Max({served[h], q.slot}) /\ served'[s] = Max({served[s], q.slot})
        /\ \A k \in (Hosts \cup Sources) \ {h, s} : mirror'[k] = mirror[k] /\ served'[k] = served[k]
    BY <2>2, <2>3 DEF TypeInv
  <2>5. /\ q.slot <= slot
        /\ q.slot >= changed[h] => q.domain = domains[h]
        /\ q.slot >= changed[s] => q.work = works[s]
    BY <2>1, <2>2 DEF MirrorInv
  <2>6. /\ mirror'[h] # None /\ mirror'[h].slot >= served'[h] /\ mirror'[h].slot <= slot
        /\ mirror'[h].slot >= changed[h] => mirror'[h].account = domains[h]
    <3>1. DomainRow(q) \in Rows /\ DomainRow(q).slot = q.slot /\ DomainRow(q).account = q.domain
      BY <2>1 DEF DomainRow, Rows, Quotes
    <3> QED BY <2>2, <2>4, <2>5, <3>1, MirrorRecorded
  <2>7. /\ mirror'[s] # None /\ mirror'[s].slot >= served'[s] /\ mirror'[s].slot <= slot
        /\ mirror'[s].slot >= changed[s] => mirror'[s].account = works[s]
    <3>1. WorkRow(q) \in Rows /\ WorkRow(q).slot = q.slot /\ WorkRow(q).account = q.work
      BY <2>1 DEF WorkRow, Rows, Quotes
    <3>2. s \notin Hosts
      BY <2>2, RegistryAssumption
    <3> QED BY <2>2, <2>4, <2>5, <3>1, <3>2, MirrorRecorded
  <2>8. \A k \in Hosts \cup Sources :
          changed'[k] <= slot' /\ (mirror'[k] # None => mirror'[k].slot <= slot')
    BY <2>3, <2>4, <2>6, <2>7 DEF MirrorInv
  <2>9. \A p \in Readers : requests'[p] = None \/ requests'[p] = requests[p]
    BY <2>3 DEF TypeInv
  <2>10. MirrorKeepsUp'
    <3> SUFFICES ASSUME NEW k \in Hosts \cup Sources
                 PROVE  /\ served'[k] > 0 => mirror'[k] # None /\ mirror'[k].slot >= served'[k]
                        /\ mirror'[k] # None /\ mirror'[k].slot >= changed'[k]
                             => mirror'[k].account = IF k \in Hosts THEN domains'[k] ELSE works'[k]
      BY DEF MirrorKeepsUp
    <3>1. CASE k = h
      BY <2>2, <2>3, <2>6, <3>1
    <3>2. CASE k = s
      BY <2>2, <2>3, <2>7, <3>2, RegistryAssumption
    <3>3. CASE k \notin {h, s}
      BY <2>3, <2>4, <3>3 DEF MirrorInv, MirrorKeepsUp
    <3> QED BY <3>1, <3>2, <3>3
  <2> QED BY <2>3, <2>8, <2>9, <2>10 DEF MirrorInv
<1>6. CASE UNCHANGED <<chainVars, gatewayVars>>
  BY <1>6 DEF MirrorInv, MirrorKeepsUp, chainVars, gatewayVars
<1>7. QED
  BY <1>1, <1>2, <1>3, <1>4, <1>5, <1>6, Steps

(***************************************************************************)
(* However late and in whatever order requests record their snapshots, a   *)
(* row of the tables is never older than what was served from it, and it   *)
(* is the account itself once nothing has changed since (upsertMirror's    *)
(* condition on the slot).                                                 *)
(***************************************************************************)
THEOREM RowsFollowTheChain == Spec => []MirrorKeepsUp
<1>1. Init => MirrorInv
  BY DEF Init, MirrorInv, MirrorKeepsUp
<1>2. TypeInv /\ MirrorInv /\ [Next]_vars => MirrorInv'
  <2> SUFFICES ASSUME TypeInv, MirrorInv, [Next]_vars PROVE MirrorInv'
    OBVIOUS
  <2>1. CASE UNCHANGED vars
    BY <2>1 DEF vars, chainVars, gatewayVars, MirrorInv, MirrorKeepsUp
  <2> QED BY <2>1, MirrorStep
<1>3. MirrorInv => MirrorKeepsUp
  BY DEF MirrorInv
<1>4. QED
  BY <1>1, <1>2, <1>3, TypeInvariant, PTL DEF Spec

-----------------------------------------------------------------------------

\* An owner of a domain, and the domain a work is under, stay what they are.
LEMMA OwnersStay ==
  ASSUME TypeInv,
         \/ \E h, d : DomainWritten(h, d)
         \/ \E s, w, who : WorkWritten(s, w, who)
  PROVE  /\ \A i \in DOMAIN Corpus : OwnedInCorpus(i) => OwnedInCorpus(i)'
         /\ \A s \in Sources : works[s] # None => works'[s] # None /\ works'[s].domain = works[s].domain
<1>1. \A i \in DOMAIN Corpus : Corpus[i].host \in Hosts
  BY CorpusAssumption
<1>2. ASSUME NEW h, NEW d, DomainWritten(h, d)
      PROVE  /\ \A g \in Hosts : domains[g] # None => domains'[g] # None /\ domains'[g].owner = domains[g].owner
             /\ works' = works
  BY <1>2, AccountTypes DEF DomainWritten, TypeInv
<1>3. ASSUME NEW s, NEW w, NEW who, WorkWritten(s, w, who)
      PROVE  /\ \A q \in Sources : works[q] # None => works'[q] # None /\ works'[q].domain = works[q].domain
             /\ domains' = domains
  BY <1>3, AccountTypes DEF WorkWritten, TypeInv
<1>4. QED
  BY <1>1, <1>2, <1>3 DEF OwnedInCorpus

\* What a run of the seed finds registered is registered to the owner the corpus names.
LEMMA FoundIsOwned ==
  ASSUME NEW step \in Plan, step.kind = "register_domain",
         StateOf(step, ReadRegistry(Plan)) = "done"
  PROVE  OwnedInCorpus(step.domain)
<1>1. PICK h : h = DomainOf(step).host
  OBVIOUS
<1>2. ReadRegistry(Plan).domains[h] = domains[h]
  BY <1>1 DEF ReadRegistry, Restrict
<1>3. domains[h] # None /\ domains[h].owner = DomainOf(step).owner
  BY <1>1, <1>2 DEF StateOf
<1>4. QED
  BY <1>1, <1>3 DEF OwnedInCorpus, DomainOf

\* In the order of the plan a domain comes before the works under it.
LEMMA DomainFirst ==
  ASSUME NEW step \in Plan, step.kind = "register_work"
  PROVE  LET first == Step("register_domain", step.domain, 0)
         IN  first # step /\ ~Before(step, first)
<1>1. step.domain \in DOMAIN Corpus /\ step.work \in Nat \ {0}
  BY PlanTypes
<1>2. PICK first : first = Step("register_domain", step.domain, 0)
  OBVIOUS
<1>3. first.domain = step.domain /\ first.work = 0 /\ first.kind = "register_domain"
  BY <1>2 DEF Step
<1>4. step.domain \in Nat /\ ~(step.domain < step.domain)
  BY <1>1, CorpusAssumption
<1>5. QED
  BY <1>1, <1>2, <1>3, <1>4 DEF Before

\* Every step keeps SeedInv.
LEMMA SeedStep ==
  ASSUME TypeInv, SeedInv, Next
  PROVE  SeedInv'
<1> DEFINE Placed(i, s) == works[s] # None /\ works[s].domain = Corpus[i].host /\ OwnedInCorpus(i)
<1>1. \A i \in DOMAIN Corpus : \A j \in DOMAIN Corpus[i].works : Corpus[i].works[j].source \in Sources
  BY CorpusAssumption
<1>2. ASSUME \/ \E h, d : DomainWritten(h, d)
             \/ \E s, w, who : WorkWritten(s, w, who)
      PROVE  /\ \A i \in DOMAIN Corpus : OwnedInCorpus(i) => OwnedInCorpus(i)'
             /\ \A i \in DOMAIN Corpus, s \in Sources : Placed(i, s) => Placed(i, s)'
  BY <1>2, OwnersStay
<1>3. \A i \in DOMAIN Corpus : \A j \in DOMAIN Corpus[i].works :
        Corpus[i].works[j].source \in seeded => Placed(i, Corpus[i].works[j].source)
  BY DEF SeedInv
<1>4. ASSUME NEW p \in Publishers, Change(p)
      PROVE  SeedInv'
  <2>1. /\ (\E h, d : DomainWritten(h, d)) \/ (\E s, w, who : WorkWritten(s, w, who))
        /\ UNCHANGED <<todo, seeded>>
    BY <1>4, ChangeWrites DEF seedVars
  <2>2. \A step \in todo : step.domain \in DOMAIN Corpus
    BY PlanTypes DEF TypeInv
  <2> QED BY <1>1, <1>2, <1>3, <2>1, <2>2 DEF SeedInv
<1>5. CASE SeedStarts
  <2>1. PICK snapshot : snapshot = ReadRegistry(Plan)
    OBVIOUS
  <2>2. /\ \A step \in Plan : StateOf(step, snapshot) # "mismatch"
        /\ todo' = {step \in Plan : StateOf(step, snapshot) = "todo"}
        /\ UNCHANGED <<domains, works, seeded>>
    BY <1>5, <2>1 DEF SeedStarts, chainVars
  <2>3. ASSUME NEW step \in todo', step.kind = "register_work"
        PROVE  OwnedInCorpus(step.domain)' \/ Step("register_domain", step.domain, 0) \in todo'
    <3>1. PICK first : first = Step("register_domain", step.domain, 0)
      OBVIOUS
    <3>2. first \in Plan /\ first.kind = "register_domain" /\ first.domain = step.domain
      BY <2>2, <2>3, <3>1, PlanTypes DEF Step
    <3>3. StateOf(first, snapshot) \in {"todo", "done", "mismatch"}
      BY <3>2 DEF StateOf
    <3>4. CASE StateOf(first, snapshot) = "done"
      <4>1. OwnedInCorpus(step.domain)
        BY <2>1, <3>2, <3>4, FoundIsOwned
      <4> QED BY <2>2, <4>1 DEF OwnedInCorpus
    <3>5. CASE StateOf(first, snapshot) = "todo"
      BY <2>2, <3>1, <3>2, <3>5
    <3> QED BY <2>2, <3>2, <3>3, <3>4, <3>5
  <2> QED BY <1>3, <2>2, <2>3 DEF SeedInv, OwnedInCorpus
<1>6. CASE SeedApplies
  <2>1. PICK step \in todo : /\ Upcoming(step) /\ Executes(InstructionOf(step))
                             /\ seeded' = Seeded(step)
                             /\ todo' \in {todo \ {step}, {}}
    BY <1>6 DEF SeedApplies
  <2>2. step \in Plan /\ todo \subseteq Plan
    BY DEF TypeInv
  <2>3. (\E h, d : DomainWritten(h, d)) \/ (\E s, w, who : WorkWritten(s, w, who))
    BY <2>1, <2>2, SeedWrites
  <2>4. ASSUME NEW other \in todo', other.kind = "register_work"
        PROVE  OwnedInCorpus(other.domain)' \/ Step("register_domain", other.domain, 0) \in todo'
    <3>1. PICK first : first = Step("register_domain", other.domain, 0)
      OBVIOUS
    <3>2. other \in todo /\ other.domain \in DOMAIN Corpus /\ todo' = todo \ {step}
      BY <2>1, <2>2, <2>4, PlanTypes
    <3>3. CASE OwnedInCorpus(other.domain)
      BY <1>2, <2>3, <3>2, <3>3
    <3>4. CASE first \in todo /\ first # step
      BY <3>1, <3>2, <3>4
    <3>5. CASE first = step
      <4>1. step.kind = "register_domain" /\ step.domain = other.domain
        BY <3>1, <3>5 DEF Step
      <4>2. PICK h, d : DomainWritten(h, d) /\ h = DomainOf(step).host /\ d.owner = DomainOf(step).owner
        BY <2>1, <2>2, <4>1, SeedWrites
      <4>3. domains'[h] # None /\ domains'[h].owner = d.owner
        BY <4>2, AccountTypes DEF DomainWritten, TypeInv
      <4> QED BY <4>1, <4>2, <4>3 DEF OwnedInCorpus, DomainOf
    <3> QED BY <2>4, <3>1, <3>2, <3>3, <3>4, <3>5 DEF SeedInv
  <2>5. ASSUME NEW i \in DOMAIN Corpus, NEW j \in DOMAIN Corpus[i].works,
               Corpus[i].works[j].source \in seeded'
        PROVE  Placed(i, Corpus[i].works[j].source)'
    <3>1. CASE Corpus[i].works[j].source \in seeded
      BY <1>1, <1>2, <1>3, <2>3, <3>1
    <3>2. CASE Corpus[i].works[j].source \notin seeded
      <4>1. step.kind = "register_work" /\ Corpus[i].works[j].source = WorkOf(step).source
        BY <2>1, <2>5, <3>2 DEF Seeded
      <4>2. step.domain = i /\ step.work = j
        BY <2>2, <4>1, PlanTypes, CorpusAssumption DEF WorkOf
      <4>3. OwnedInCorpus(i)
        <5>1. PICK first : first = Step("register_domain", i, 0)
          OBVIOUS
        <5>2. first \notin todo
          BY <2>1, <2>2, <4>1, <4>2, <5>1, DomainFirst DEF Upcoming
        <5> QED BY <4>1, <4>2, <5>1, <5>2 DEF SeedInv
      <4>4. PICK s, w, who : WorkWritten(s, w, who) /\ s = WorkOf(step).source /\ w.domain = DomainOf(step).host
        BY <2>1, <2>2, <4>1, SeedWrites
      <4>5. works'[s] # None /\ works'[s].domain = w.domain
        BY <4>4, AccountTypes DEF WorkWritten, TypeInv
      <4>6. OwnedInCorpus(i)'
        BY <1>2, <2>3, <4>3
      <4> QED BY <4>1, <4>2, <4>4, <4>5, <4>6 DEF DomainOf
    <3> QED BY <3>1, <3>2
  <2> QED BY <2>4, <2>5 DEF SeedInv
<1>7. CASE SeedStops
  BY <1>3, <1>7 DEF SeedStops, SeedInv, OwnedInCorpus, chainVars
<1>8. ASSUME \/ \E r \in Readers, s \in Sources : Read(r, s)
             \/ \E r \in Readers : Record(r) \/ Forget(r)
      PROVE  SeedInv'
  <2>1. UNCHANGED <<domains, works, todo, seeded>>
    BY <1>8 DEF Read, Record, Forget, chainVars, seedVars
  <2> QED BY <1>3, <2>1 DEF SeedInv, OwnedInCorpus
<1>9. QED
  BY <1>4, <1>5, <1>6, <1>7, <1>8 DEF Next

(***************************************************************************)
(* Whatever publishers register between its reading and its steps, the     *)
(* seed puts a work of the corpus under the corpus's domain and no other,  *)
(* and that domain belongs to whom the corpus says (register_work needs no *)
(* owner's signature, so the order of the plan and the stop at a mismatch  *)
(* or a refusal are what this rests on).                                   *)
(***************************************************************************)
THEOREM SeedKeepsOwners == Spec => []SeededUnderOwner
<1>1. Init => SeedInv
  BY DEF Init, SeedInv
<1>2. TypeInv /\ SeedInv /\ [Next]_vars => SeedInv'
  <2> SUFFICES ASSUME TypeInv, SeedInv, [Next]_vars PROVE SeedInv'
    OBVIOUS
  <2>1. CASE UNCHANGED vars
    BY <2>1 DEF vars, chainVars, seedVars, SeedInv, OwnedInCorpus
  <2> QED BY <2>1, SeedStep
<1>3. SeedInv => SeededUnderOwner
  BY DEF SeedInv, SeededUnderOwner, OwnedInCorpus
<1>4. QED
  BY <1>1, <1>2, <1>3, TypeInvariant, PTL DEF Spec

=============================================================================
