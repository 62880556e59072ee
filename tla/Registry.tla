------------------------------ MODULE Registry ------------------------------
(***************************************************************************)
(* The registry on the chain and those who lean on it: publishers and the  *)
(* operator who write it, the gateway that quotes from a snapshot and      *)
(* later mirrors that snapshot into its tables, and seed-registry, which   *)
(* compares the chain with a corpus and applies what is missing step by    *)
(* step.  Nothing here holds a lock: every reader acts on what it read.    *)
(*                                                                         *)
(* Hosts are canonical and stand for their PDAs.  The two use types are    *)
(* one, since each has its own rate and they never mix.                    *)
(***************************************************************************)
EXTENDS Naturals, Sequences, SequencesExt

CONSTANTS
  Hosts, Sources,
  HostOf,        \* the host of a source's address
  Publishers, Operator,
  Rates,         \* what publishers charge
  Contents,      \* hashes of what a source serves
  NoRate,        \* a work without a rate of its own
  Corpus,        \* what seed-registry wants: a sequence of domains and works
  Readers,       \* requests the gateway is amid
  MaxChanges,    \* bound on changes not made by the seed
  MaxRuns        \* bound on runs of the seed

ASSUME RegistryAssumption ==
  /\ HostOf \in [Sources -> Hosts]
  /\ Operator \notin Publishers /\ NoRate \notin Rates
  /\ MaxChanges \in Nat /\ MaxRuns \in Nat
  /\ Hosts \cap Sources = {}

\* No source appears twice in the corpus (corpus.test.ts).
ASSUME CorpusAssumption ==
  /\ DOMAIN Corpus \subseteq Nat
  /\ \A i \in DOMAIN Corpus : Corpus[i].host \in Hosts /\ DOMAIN Corpus[i].works \subseteq Nat \ {0}
  /\ \A i, m \in DOMAIN Corpus : \A j \in DOMAIN Corpus[i].works, n \in DOMAIN Corpus[m].works :
       /\ Corpus[i].works[j].source \in Sources
       /\ Corpus[i].works[j].source = Corpus[m].works[n].source => i = m /\ j = n

VARIABLES
  domains, works,     \* the accounts, by host and by source
  slot,               \* one for each change
  changed,            \* the slot a host or a source last changed in
  authors,            \* who ever wrote a source's account (history)
  changes,
  requests,           \* what each reader holds
  mirror,             \* rows of the tables domains and works, by host and by source
  served,             \* the newest slot anything was served from (history)
  todo,               \* the steps of the seed's run still to apply
  runs,
  seeded              \* sources the seed registered (history)

chainVars == <<domains, works, slot, changed, authors>>
gatewayVars == <<requests, mirror, served>>
seedVars == <<todo, runs, seeded>>
vars == <<chainVars, changes, gatewayVars, seedVars>>

None == [slot |-> 0]

Init ==
  /\ domains = [h \in Hosts |-> None] /\ works = [s \in Sources |-> None]
  /\ slot = 1 /\ changed = [k \in Hosts \cup Sources |-> 0]
  /\ authors = [s \in Sources |-> {}] /\ changes = 0
  /\ requests = [r \in Readers |-> None]
  /\ mirror = [k \in Hosts \cup Sources |-> None]
  /\ served = [k \in Hosts \cup Sources |-> 0]
  /\ todo = {} /\ runs = 0 /\ seeded = {}

-----------------------------------------------------------------------------
(* The program: registry.rs.                                               *)

Writes(key) ==
  /\ slot' = slot + 1
  /\ changed' = [changed EXCEPT ![key] = slot']

Authored(s, who) == authors' = [authors EXCEPT ![s] = @ \cup {who}]

\* init: an address is registered once; the owner is not changed by anything.
RegisterDomain(payer, h, owner, payout, rate) ==
  /\ domains[h] = None
  /\ payer \in {owner, Operator}
  /\ domains' = [domains EXCEPT ![h] =
                   [owner |-> owner, payout |-> payout, rate |-> rate, status |-> "active"]]
  /\ Writes(h)
  /\ UNCHANGED <<works, authors>>

\* The program sees a hash of the source, never its host.
RegisterWork(payer, h, s, content) ==
  /\ works[s] = None /\ domains[h] # None
  /\ payer \in {domains[h].owner, Operator}
  /\ works' = [works EXCEPT ![s] =
                 [domain |-> h, content |-> content, rate |-> NoRate, status |-> "active"]]
  /\ Writes(s) /\ Authored(s, payer)
  /\ UNCHANGED domains

SetDomain(owner, h, field, value) ==
  /\ domains[h] # None /\ domains[h].owner = owner
  /\ domains' = [domains EXCEPT ![h] = [@ EXCEPT ![field] = value]]
  /\ Writes(h)
  /\ UNCHANGED <<works, authors>>

\* Mutant of SetWork: has_one = domain is missing, so any domain of the signer will do.
SetWorkOfAny(owner, h, s, field, value) ==
  /\ domains[h] # None /\ domains[h].owner = owner
  /\ works[s] # None
  /\ works' = [works EXCEPT ![s] = [@ EXCEPT ![field] = value]]
  /\ Writes(s) /\ Authored(s, owner)
  /\ UNCHANGED domains

SetWork(owner, h, s, field, value) ==
  /\ domains[h] # None /\ domains[h].owner = owner
  /\ works[s] # None /\ works[s].domain = h
  /\ works' = [works EXCEPT ![s] = [@ EXCEPT ![field] = value]]
  /\ Writes(s) /\ Authored(s, owner)
  /\ UNCHANGED domains

Statuses == {"active", "suspended"}

-----------------------------------------------------------------------------
(* The instructions as packages/chain builds them: who has to sign, the    *)
(* accounts they name, and what they carry.                                *)

Instruction(name, signer, host, source, data) ==
  [name |-> name, signer |-> signer, host |-> host, source |-> source, data |-> data]

buildRegisterDomain(payer, host, owner, payout, rate) ==
  Instruction("register_domain", payer, host, None,
              [owner |-> owner, payout |-> payout, rate |-> rate])

buildRegisterWork(payer, host, source, content) ==
  Instruction("register_work", payer, host, source, content)

buildSetDomainRates(owner, host, rate) ==
  Instruction("set_domain_rates", owner, host, None, rate)

buildSetDomainStatus(owner, host, status) ==
  Instruction("set_domain_status", owner, host, None, status)

\* The domain is the one named, whatever domain the work is under.
buildSetWorkRates(owner, host, source, rate) ==
  Instruction("set_work_rates", owner, host, source, rate)

buildSetWorkStatus(owner, host, source, status) ==
  Instruction("set_work_status", owner, host, source, status)

Executes(ix) ==
  CASE ix.name = "register_domain" ->
         RegisterDomain(ix.signer, ix.host, ix.data.owner, ix.data.payout, ix.data.rate)
    [] ix.name = "register_work" -> RegisterWork(ix.signer, ix.host, ix.source, ix.data)
    [] ix.name = "set_domain_rates" -> SetDomain(ix.signer, ix.host, "rate", ix.data)
    [] ix.name = "set_domain_status" -> SetDomain(ix.signer, ix.host, "status", ix.data)
    [] ix.name = "set_work_rates" -> SetWork(ix.signer, ix.host, ix.source, "rate", ix.data)
    [] ix.name = "set_work_status" -> SetWork(ix.signer, ix.host, ix.source, "status", ix.data)

\* Any instruction a publisher may sign, on any domain and any work.
InstructionsOf(p) ==
  {buildRegisterDomain(p, h, p, p, rate) : h \in Hosts, rate \in Rates} \cup
  {buildRegisterWork(p, h, s, content) : h \in Hosts, s \in Sources, content \in Contents} \cup
  {buildSetDomainRates(p, h, rate) : h \in Hosts, rate \in Rates} \cup
  {buildSetDomainStatus(p, h, status) : h \in Hosts, status \in Statuses} \cup
  {buildSetWorkRates(p, h, s, rate) : h \in Hosts, s \in Sources, rate \in Rates \cup {NoRate}} \cup
  {buildSetWorkStatus(p, h, s, status) : h \in Hosts, s \in Sources, status \in Statuses}

Change(p) ==
  /\ changes < MaxChanges /\ changes' = changes + 1
  /\ \E ix \in InstructionsOf(p) : Executes(ix)
  /\ UNCHANGED <<gatewayVars, seedVars>>

-----------------------------------------------------------------------------
(* The gateway: rpcRegistry.read, quoteFor and upsertMirror.               *)

\* resolveRate: a suspended domain closes all of its works; a work's own rate comes first.
Licensed(domain, work) == domain.status = "active" /\ work.status = "active"

Tariff(domain, work) == IF work.rate = NoRate THEN domain.rate ELSE work.rate

\* Mutant of Quoted: the work may sit under any domain.
QuotedAnywhere(h, domain, work) ==
  /\ work # None /\ domain # None
  /\ Licensed(domain, work)

Quoted(h, domain, work) ==
  /\ work # None /\ domain # None
  /\ work.domain = h
  /\ Licensed(domain, work)

\* One call reads config, domain and work of one slot.  Whatever is not quoted is refused,
\* and nothing of it is kept.
Read(r, s) ==
  /\ requests[r] = None
  /\ LET h == HostOf[s]
     IN  /\ Quoted(h, domains[h], works[s])
         /\ requests' = [requests EXCEPT ![r] =
              [slot |-> slot, source |-> s, domain |-> domains[h], work |-> works[s],
               tariff |-> Tariff(domains[h], works[s]), recipient |-> domains[h].payout]]
  /\ UNCHANGED <<chainVars, changes, mirror, served, seedVars>>

\* Mutant of Upsert: the last to commit wins.
UpsertLast(row, held) == row

\* onConflictDoUpdate, where the slot held is less.
Upsert(row, held) == IF held = None \/ held.slot < row.slot THEN row ELSE held

\* Rows of domains and works: the account as the snapshot has it, and the snapshot's slot.
DomainRow(q) == [slot |-> q.slot, account |-> q.domain]

WorkRow(q) == [slot |-> q.slot, account |-> q.work]

\* The issuance is recorded, and both rows with it, in one transaction.
Record(r) ==
  LET q == requests[r]
      s == q.source
      h == HostOf[s]
  IN  /\ q # None
      /\ mirror' = [mirror EXCEPT
           ![h] = Upsert(DomainRow(q), @),
           ![s] = Upsert(WorkRow(q), @)]
      /\ served' = [served EXCEPT ![h] = Max({@, q.slot}), ![s] = Max({@, q.slot})]
      /\ requests' = [requests EXCEPT ![r] = None]
      /\ UNCHANGED <<chainVars, changes, seedVars>>

\* The voucher is refused, never comes, or the process dies.
Forget(r) ==
  /\ requests[r] # None
  /\ requests' = [requests EXCEPT ![r] = None]
  /\ UNCHANGED <<chainVars, changes, mirror, served, seedVars>>

-----------------------------------------------------------------------------
(* seed-registry: buildSeedPlan, diffSeedPlan and the loop of its cli.     *)

\* Step of the corpus's domain number `domain`, for its work number `work`, 0 for the domain.
Step(kind, domain, work) == [kind |-> kind, domain |-> domain, work |-> work]

DomainOf(step) == Corpus[step.domain]

WorkOf(step) == Corpus[step.domain].works[step.work]

If(condition, step) == IF condition THEN {step} ELSE {}

\* A status other than active, and a rate of a work's own, are steps of their own.
DomainSteps(i) ==
  {Step("register_domain", i, 0)} \cup
  If(Corpus[i].status # "active", Step("set_domain_status", i, 0))

WorkSteps(i, j) ==
  LET w == Corpus[i].works[j]
  IN  {Step("register_work", i, j)} \cup
      If(w.rate # NoRate, Step("set_work_rates", i, j)) \cup
      If(w.status # "active", Step("set_work_status", i, j))

Plan ==
  UNION {DomainSteps(i) \cup UNION {WorkSteps(i, j) : j \in DOMAIN Corpus[i].works} :
           i \in DOMAIN Corpus}

Kinds == <<"register_domain", "set_domain_status", "register_work", "set_work_rates", "set_work_status">>

Rank(kind) == CHOOSE n \in DOMAIN Kinds : Kinds[n] = kind

\* The order of the plan: domain by domain, and in each first the domain, then its works.
Before(a, b) ==
  \/ a.domain < b.domain
  \/ a.domain = b.domain /\ a.work < b.work
  \/ a.domain = b.domain /\ a.work = b.work /\ Rank(a.kind) < Rank(b.kind)

\* readRegistry: every account the plan names, in one call.
ReadRegistry(plan) ==
  LET hosts == {DomainOf(step).host : step \in plan}
      sources == {WorkOf(step).source : step \in {s \in plan : s.work # 0}}
  IN  [domains |-> Restrict(domains, hosts), works |-> Restrict(works, sources)]

\* evaluate: a change is never a mismatch, and a registered work is told by its content alone.
StateOf(step, snapshot) ==
  LET domain == DomainOf(step)
      work == WorkOf(step)
      d == snapshot.domains[domain.host]
      w == snapshot.works[work.source]
      Registered(account, equal) ==
        IF account = None THEN "todo" ELSE IF equal THEN "done" ELSE "mismatch"
      Applied(account, equal) == IF account # None /\ equal THEN "done" ELSE "todo"
  IN  CASE step.kind = "register_domain" ->
             Registered(d, d # None /\ <<d.owner, d.payout, d.rate>> =
                           <<domain.owner, domain.payout, domain.rate>>)
        [] step.kind = "set_domain_status" ->
             Applied(d, d # None /\ d.status = domain.status)
        [] step.kind = "register_work" ->
             Registered(w, w # None /\ w.content = work.content)
        [] step.kind = "set_work_rates" -> Applied(w, w # None /\ w.rate = work.rate)
        [] step.kind = "set_work_status" -> Applied(w, w # None /\ w.status = work.status)

\* Any mismatch stops the seed before its first step.
SeedStarts ==
  /\ todo = {} /\ runs < MaxRuns /\ runs' = runs + 1
  /\ LET snapshot == ReadRegistry(Plan)
     IN  /\ \A step \in Plan : StateOf(step, snapshot) # "mismatch"
         /\ todo' = {step \in Plan : StateOf(step, snapshot) = "todo"}
  /\ UNCHANGED <<chainVars, changes, gatewayVars, seeded>>

\* register_* is signed by the operator, set_* by the owner the corpus names.
InstructionOf(step) ==
  LET d == DomainOf(step)
      w == WorkOf(step)
  IN  CASE step.kind = "register_domain" ->
             buildRegisterDomain(Operator, d.host, d.owner, d.payout, d.rate)
        [] step.kind = "set_domain_status" -> buildSetDomainStatus(d.owner, d.host, d.status)
        [] step.kind = "register_work" ->
             buildRegisterWork(Operator, d.host, w.source, w.content)
        [] step.kind = "set_work_rates" -> buildSetWorkRates(d.owner, d.host, w.source, w.rate)
        [] step.kind = "set_work_status" ->
             buildSetWorkStatus(d.owner, d.host, w.source, w.status)

Seeded(step) == IF step.kind = "register_work" THEN seeded \cup {WorkOf(step).source} ELSE seeded

Upcoming(step) == step \in todo /\ \A other \in todo \ {step} : Before(step, other)

\* A step lands; its confirmation may be lost, which ends the run as an error does.
SeedApplies ==
  /\ \E step \in todo :
       /\ Upcoming(step)
       /\ Executes(InstructionOf(step))
       /\ seeded' = Seeded(step)
       /\ todo' \in {todo \ {step}, {}}
  /\ UNCHANGED <<changes, gatewayVars, runs>>

\* Mutant of SeedStops: a step the program refuses is passed over.
SeedGoesOn ==
  /\ \E step \in todo : Upcoming(step) /\ todo' = todo \ {step}
  /\ UNCHANGED <<chainVars, changes, gatewayVars, runs, seeded>>

\* A step the program refuses, or that never reaches it, ends the run.
SeedStops ==
  /\ todo # {} /\ todo' = {}
  /\ UNCHANGED <<chainVars, changes, gatewayVars, runs, seeded>>

-----------------------------------------------------------------------------

Next ==
  \/ \E p \in Publishers : Change(p)
  \/ \E r \in Readers, s \in Sources : Read(r, s)
  \/ \E r \in Readers : Record(r) \/ Forget(r)
  \/ SeedStarts \/ SeedApplies \/ SeedStops

Spec == Init /\ [][Next]_vars

-----------------------------------------------------------------------------

\* What an agent is asked to pay goes to the owner of the address's host, on terms nobody else
\* ever had a hand in, whoever registered the address first and under whichever domain.
TermsAreTheHosts ==
  \A r \in Readers :
    requests[r] # None =>
      LET domain == domains[HostOf[requests[r].source]]
      IN  /\ requests[r].recipient = domain.payout
          /\ authors[requests[r].source] \subseteq {domain.owner, Operator}

\* Requests record their snapshots in any order.  A row is never older than a snapshot that
\* was served from it, and it is the account itself once nothing has changed since.
MirrorKeepsUp ==
  \A k \in Hosts \cup Sources :
    /\ served[k] > 0 => mirror[k] # None /\ mirror[k].slot >= served[k]
    /\ mirror[k] # None /\ mirror[k].slot >= changed[k]
         => mirror[k].account = IF k \in Hosts THEN domains[k] ELSE works[k]

\* cli.ts: whatever others register meanwhile, the seed puts no work of the corpus under a
\* domain that belongs to somebody else.
SeededUnderOwner ==
  \A i \in DOMAIN Corpus : \A j \in DOMAIN Corpus[i].works :
    LET s == Corpus[i].works[j].source
    IN  s \in seeded => /\ works[s].domain = Corpus[i].host
                        /\ domains[Corpus[i].host].owner = Corpus[i].owner
=============================================================================
