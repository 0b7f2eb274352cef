---------------------------- MODULE QuoteBinding ----------------------------
(***************************************************************************)
(* From a parameters table that operators edit, through the cache each     *)
(* server instance keeps of it, to the quote of an unpaid request (402)    *)
(* and the checks a payment for that quote meets.  An instance checks its  *)
(* configuration and fixes its catalog once, at cold start; everything     *)
(* else is resolved again for every request, and every resolution may      *)
(* first refresh the cache, which is an await.                             *)
(*                                                                         *)
(* Versions number the states of the table.  A cached map is the version   *)
(* it was read from, 0 being the empty map of a new process.               *)
(***************************************************************************)
EXTENDS Integers, Sequences

CONSTANTS
  Buyers,        \* buyers; each asks for a quote, pays, and may come back
  Instances,     \* server processes behind one database
  Tables,        \* states an operator may leave the parameters table in
  MaxVersions,   \* bound on the states of the table
  Env,           \* the environment variable behind each parameter
  Pubkeys,       \* values that parse as a public key
  SignerKey,     \* public key of MERCHANT_SIGNER_KEYPAIR_BASE58
  Catalogs,      \* values that parse as a token catalog
  SeedCatalog,   \* the one migrations/init.sql puts in the table
  TtlChoices,    \* other time-outs a buyer may sign, besides the quoted one
  Cutoff,        \* SLA_ESCROW_DELIVERY_CUTOFF_SECONDS
  Budget,        \* SLA_ESCROW_DELIVERY_BUDGET_SECONDS
  CacheTtl,      \* PARAMETERS_CACHE_TTL_SEC, in ticks
  MaxFetch,      \* the time-outs of one fetch added up, in ticks
  Faults,        \* which of FaultKinds may happen
  Empty,         \* a row whose value is the empty string
  None           \* no row, no variable, no value

(* db       a fetch or a migration fails or times out;
   restart  an instance is replaced by a new one. *)
FaultKinds == {"db", "restart"}

Names ==
  {"pay_to", "network", "timeout", "merchant", "beneficiary", "oracles", "catalog"}

(* Of two lengths of time, the longer. *)
Longer(a, b) == IF a > b THEN a ELSE b

ASSUME QuoteBindingAssumption ==
  /\ Buyers \intersect Instances = {}
  /\ None \notin Buyers \union Instances \union Pubkeys \union Catalogs
  /\ None \notin Int \union {"aborted", "internal_error", "ttl_too_short", "payment_required",
                           "payment_ttl_mismatch", "payment_ttl_too_short",
                           "sla_hash_mismatch", "accepted"}
  /\ SeedCatalog \in Catalogs
  /\ CacheTtl \in Nat
  /\ MaxFetch \in Nat
  /\ MaxVersions \in Nat \ {0}
  /\ TtlChoices \subseteq Nat
  /\ Faults \subseteq FaultKinds

VARIABLES
  history,    \* the states the table has had
  version,    \* the one it is in
  retired,    \* ticks since each version was replaced
  cache,      \* per instance: version of the map, age of last_fetch, and
              \* whether the last fetch succeeded
  pc,         \* where each buyer, and the cold start of each instance, is
  at,         \* the instance that serves a buyer
  step,       \* the parameter it resolves, as an index into Script
  phase,      \* how far that resolution is
  age,        \* ticks since its fetch began
  snap,       \* the version its SELECT saw
  got,        \* the values it has resolved
  catalog,    \* the catalog an instance serves
  offer,      \* the quote in a buyer's hands
  ttl,        \* the time-out the buyer signed
  answer,     \* the last answer a buyer got, if it concerns its quote
  calm        \* no edit since the task began, nor in the Window before it

tableVars == <<history, version, retired>>
readVars  == <<step, phase, age, snap, got>>
buyerVars == <<at, offer, ttl, answer>>
vars == <<tableVars, cache, readVars, catalog, buyerVars, pc, calm>>

Readers  == Buyers \union Instances
Versions == 1..MaxVersions

(* How long a replaced version may still be served. *)
Window == Longer(CacheTtl, MaxFetch)

Later(t, cap) == IF t < cap THEN t + 1 ELSE cap

----------------------------------------------------------------------------
(* Resolving one parameter. *)

NoRows == [own |-> [n \in Names |-> None], wild |-> [n \in Names |-> None]]

MapOf(v) == IF v = 0 THEN NoRows ELSE history[v]

(* The endpoint's row, else the wildcard row; an empty value, wherever it was
   found, leaves the parameter to the environment. *)
Resolve(map, n) ==
  LET row == IF map.own[n] # None THEN map.own[n] ELSE map.wild[n]
  IN  IF row \in {None, Empty} THEN Env[n] ELSE row

ConfigNetwork == IF Env["network"] = None THEN "mainnet-beta" ELSE Env["network"]

ConfigTimeout == IF Env["timeout"] # None /\ Env["timeout"] >= 0 THEN Env["timeout"] ELSE 3600

(* With the defaults of the callers; a negative number is one that does not
   parse as u64. *)
Resolved(map, n) ==
  LET v == Resolve(map, n)
  IN  CASE n = "network" -> IF v = None THEN ConfigNetwork ELSE v
        [] n = "timeout" -> IF v # None /\ v >= 0 THEN v ELSE ConfigTimeout
        [] OTHER -> v

(* What each task resolves, in the order of the code. *)
Script ==
  [starting |-> <<"catalog", "pay_to", "merchant", "oracles", "beneficiary", "merchant">>,
   quoting  |-> <<"pay_to", "network", "timeout", "merchant", "beneficiary", "oracles">>,
   paying   |-> <<"timeout">>]

Reading(r) == pc[r] \in {"starting", "quoting", "paying"}
At(r) == IF r \in Instances THEN r ELSE at[r]
Name(r) == Script[pc[r]][step[r]]

(* The value r is about to resolve, and all it will have then. *)
Value(r) == Resolved(MapOf(cache[At(r)].version), Name(r))
Got(r)   == [got[r] EXCEPT ![Name(r)] = Value(r)]

----------------------------------------------------------------------------
(* What the values must satisfy. *)

MinTtl == Longer(Cutoff + Budget, 60)

(* The account pr402 makes FundPayment.seller. *)
Payout(g) == IF g["beneficiary"] # None THEN g["beneficiary"] ELSE g["merchant"]

(* The cluster a document names for a network. *)
Cluster(network) ==
  IF network \in {"devnet", "testnet"} THEN network ELSE "mainnet-beta"

(* The SLA is rebuilt from the request, the catalog and the cluster; what the
   request itself contributes is the same on both sides. *)
SlaHash(network, cat) == [cluster |-> Cluster(network), deliver |-> cat]

ValidateTtl(signed, quoted) ==
  CASE signed # quoted -> "payment_ttl_mismatch"
    [] signed = quoted /\ signed < MinTtl -> "payment_ttl_too_short"
    [] OTHER -> "accepted"

(* A faulty StartProblem: the signer is compared with the merchant wallet, not
   with the payout account. *)
StartProblemMerchant(s, g) ==
  LET bad == CASE s = 1 -> g["catalog"] \notin Catalogs
               [] s = 3 -> g["merchant"] \notin Pubkeys \/ g["merchant"] = g["pay_to"]
               [] s = 4 -> g["oracles"] \in {None, {}}
               [] s = 6 -> g["merchant"] # SignerKey
               [] OTHER -> FALSE
  IN  IF bad THEN "aborted" ELSE None

(* The answer when the value resolved last stops the task; None if it goes on. *)
StartProblem(s, g) ==
  LET bad == CASE s = 1 -> g["catalog"] \notin Catalogs
               [] s = 3 -> g["merchant"] \notin Pubkeys \/ g["merchant"] = g["pay_to"]
               [] s = 4 -> g["oracles"] \in {None, {}}
               [] s = 6 -> Payout(g) # SignerKey
               [] OTHER -> FALSE
  IN  IF bad THEN "aborted" ELSE None

(* A faulty QuoteProblem: the time-out is quoted unchecked. *)
QuoteProblemUnchecked(s, g) ==
  CASE s = 1 /\ g["pay_to"] = None -> "internal_error"
    [] s = 4 /\ g["merchant"] = None -> "internal_error"
    [] s = 6 /\ g["oracles"] \in {None, {}} -> "internal_error"
    [] OTHER -> None

QuoteProblem(s, g) ==
  CASE s = 1 /\ g["pay_to"] = None -> "internal_error"
    [] s = 3 /\ g["timeout"] < MinTtl -> "ttl_too_short"
    [] s = 4 /\ g["merchant"] = None -> "internal_error"
    [] s = 6 /\ g["oracles"] \in {None, {}} -> "internal_error"
    [] OTHER -> None

Problem(r) ==
  CASE pc[r] = "starting" -> StartProblem(step[r], Got(r))
    [] pc[r] = "quoting"  -> QuoteProblem(step[r], Got(r))
    [] pc[r] = "paying"   -> None

(* A faulty Verdict: the signed time-out is compared with the configuration. *)
VerdictConfigured(b) ==
  LET t == ValidateTtl(ttl[b], ConfigTimeout)
  IN  IF t # "accepted" THEN t
      ELSE IF SlaHash(ConfigNetwork, catalog[at[b]]) # SlaHash(offer[b].network, offer[b].catalog)
      THEN "sla_hash_mismatch"
      ELSE "accepted"

(* The verdict on a payment once the time-out is resolved. *)
Verdict(b) ==
  LET t == ValidateTtl(ttl[b], Value(b))
  IN  IF t # "accepted" THEN t
      ELSE IF SlaHash(ConfigNetwork, catalog[at[b]]) # SlaHash(offer[b].network, offer[b].catalog)
      THEN "sla_hash_mismatch"
      ELSE "accepted"

----------------------------------------------------------------------------

NewCache == [version |-> 0, age |-> CacheTtl + 1, ok |-> FALSE]
Nothing  == [n \in Names |-> None]

Init ==
  /\ \E t \in Tables : history = [v \in Versions |-> t]
  /\ version = 1
  /\ retired = [v \in Versions |-> 0]
  /\ cache = [i \in Instances |-> NewCache]
  /\ pc = [r \in Readers |-> IF r \in Instances THEN "down" ELSE "idle"]
  /\ at = [b \in Buyers |-> None]
  /\ step = [r \in Readers |-> 1]
  /\ phase = [r \in Readers |-> "check"]
  /\ age = [r \in Readers |-> 0]
  /\ snap = [r \in Readers |-> 0]
  /\ got = [r \in Readers |-> Nothing]
  /\ catalog = [i \in Instances |-> None]
  /\ offer = [b \in Buyers |-> None]
  /\ ttl = [b \in Buyers |-> None]
  /\ answer = [b \in Buyers |-> None]
  /\ calm = [r \in Readers |-> FALSE]

(* The table comes to hold t. *)
Install(t) ==
  /\ version < MaxVersions
  /\ version' = version + 1
  /\ history' = [history EXCEPT ![version + 1] = t]
  /\ retired' = [retired EXCEPT ![version] = 0]
  /\ calm' = [r \in Readers |-> FALSE]

(* An operator edits the table; the last version is left for a migration. *)
Edit ==
  /\ version + 1 < MaxVersions
  /\ \E t \in Tables : t # history[version] /\ Install(t)
  /\ UNCHANGED <<cache, readVars, catalog, buyerVars, pc>>

Quiet == \A v \in 1..(version - 1) : retired[v] > Window

(* r begins a task, resolving its first parameter: between tasks, step, phase
   and got are as at first. *)
Begin(r, task) ==
  /\ pc' = [pc EXCEPT ![r] = task]
  /\ UNCHANGED readVars

----------------------------------------------------------------------------
(* resolve_string and refresh_parameters_from_db.  Finding the cache fresh and
   reading it is one step: a store that falls between the two might as well have
   come first, if its fetch took no longer than CacheTtl. *)

(* A faulty MayRead: a map, once fetched, is never fetched again. *)
MayReadForever(r) ==
  /\ Reading(r)
  /\ \/ phase[r] = "read"
     \/ phase[r] = "check" /\ cache[At(r)].version # 0

(* A faulty MayRead: the first lookup of a new process does not fetch. *)
MayReadEmpty(r) ==
  /\ Reading(r)
  /\ \/ phase[r] = "read"
     \/ phase[r] = "check" /\ (cache[At(r)].age <= CacheTtl \/ cache[At(r)].version = 0)

MayRead(r) ==
  /\ Reading(r)
  /\ \/ phase[r] = "read"
     \/ phase[r] = "check" /\ cache[At(r)].age <= CacheTtl

StartFetch(r) ==
  /\ Reading(r) /\ phase[r] = "check"
  /\ cache[At(r)].age > CacheTtl
  /\ phase' = [phase EXCEPT ![r] = "fetch"]
  /\ UNCHANGED <<tableVars, cache, step, age, snap, got, catalog, buyerVars, pc, calm>>

Select(r) ==
  /\ Reading(r) /\ phase[r] = "fetch" /\ snap[r] = 0
  /\ snap' = [snap EXCEPT ![r] = version]
  /\ UNCHANGED <<tableVars, cache, step, phase, age, got, catalog, buyerVars, pc, calm>>

(* A faulty StampAge: last_fetch is the instant at which the fetch ended. *)
StampAgeEnd(r) == 0

(* last_fetch becomes the instant at which the fetch began. *)
StampAge(r) == IF age[r] > CacheTtl THEN CacheTtl + 1 ELSE age[r]

FetchEnds(r, c) ==
  /\ cache' = [cache EXCEPT ![At(r)] = c]
  /\ phase' = [phase EXCEPT ![r] = "read"]
  /\ snap' = [snap EXCEPT ![r] = 0]
  /\ age' = [age EXCEPT ![r] = 0]
  /\ UNCHANGED <<tableVars, step, got, catalog, buyerVars, pc, calm>>

StoreMap(r) ==
  /\ Reading(r) /\ phase[r] = "fetch" /\ snap[r] # 0
  /\ FetchEnds(r, [version |-> snap[r], age |-> StampAge(r), ok |-> TRUE])

(* The old map is kept, and stamped as if it had been read now. *)
FetchFails(r) ==
  /\ "db" \in Faults
  /\ Reading(r) /\ phase[r] = "fetch"
  /\ FetchEnds(r, [version |-> cache[At(r)].version, age |-> StampAge(r), ok |-> FALSE])

(* The value is taken and the task goes on to the next parameter. *)
ReadOn(r) ==
  /\ MayRead(r)
  /\ Problem(r) = None
  /\ step[r] < Len(Script[pc[r]])
  /\ got' = [got EXCEPT ![r] = Got(r)]
  /\ step' = [step EXCEPT ![r] = @ + 1]
  /\ phase' = [phase EXCEPT ![r] = "check"]
  /\ UNCHANGED <<tableVars, cache, age, snap, catalog, buyerVars, pc, calm>>

(* The last value is taken; where the task goes then, and with what. *)
Finish(r, from, to, g) ==
  /\ pc[r] = from /\ MayRead(r)
  /\ Problem(r) = None
  /\ step[r] = Len(Script[from])
  /\ pc' = [pc EXCEPT ![r] = to]
  /\ step' = [step EXCEPT ![r] = 1]
  /\ phase' = [phase EXCEPT ![r] = "check"]
  /\ got' = [got EXCEPT ![r] = g]
  /\ UNCHANGED <<tableVars, cache, age, snap, catalog, at, offer, ttl, calm>>

----------------------------------------------------------------------------
(* The unpaid request: build_unpaid_402. *)

Answer(b, from, to, code) ==
  /\ pc[b] = from
  /\ pc' = [pc EXCEPT ![b] = to]
  /\ answer' = [answer EXCEPT ![b] = code]

Ask(b, i) ==
  /\ pc[b] \in {"idle", "quoted", "answered"}
  /\ pc[i] = "up"
  /\ Begin(b, "quoting")
  /\ at' = [at EXCEPT ![b] = i]
  /\ offer' = [offer EXCEPT ![b] = None]
  /\ ttl' = [ttl EXCEPT ![b] = None]
  /\ answer' = [answer EXCEPT ![b] = None]
  /\ calm' = [calm EXCEPT ![b] = Quiet]
  /\ UNCHANGED <<tableVars, cache, catalog>>

QuoteRefused(b) ==
  /\ pc[b] = "quoting" /\ MayRead(b) /\ Problem(b) # None
  /\ Answer(b, "quoting", "answered", Problem(b))
  /\ step' = [step EXCEPT ![b] = 1]
  /\ phase' = [phase EXCEPT ![b] = "check"]
  /\ got' = [got EXCEPT ![b] = Nothing]
  /\ UNCHANGED <<tableVars, cache, age, snap, catalog, at, offer, ttl, calm>>

QuoteResolved(b) == Finish(b, "quoting", "supported", Got(b)) /\ UNCHANGED answer

(* The facilitator describes the network; the quote goes out. *)
Quote(b) ==
  /\ Answer(b, "supported", "quoted", "payment_required")
  /\ offer' = [offer EXCEPT ![b] =
       [network |-> got[b]["network"], timeout |-> got[b]["timeout"],
        payout |-> Payout(got[b]), catalog |-> catalog[at[b]],
        calm |-> calm[b] /\ calm[at[b]]]]
  /\ got' = [got EXCEPT ![b] = Nothing]
  /\ UNCHANGED <<tableVars, cache, step, phase, age, snap, catalog, at, ttl, calm>>

FacilitatorFails(b) ==
  /\ Answer(b, "supported", "answered", "internal_error")
  /\ got' = [got EXCEPT ![b] = Nothing]
  /\ UNCHANGED <<tableVars, cache, step, phase, age, snap, catalog, at, offer, ttl, calm>>

----------------------------------------------------------------------------
(* The paid request, up to the point where the SLA is uploaded.  What the buyer
   signed once is sent again in a retry or a replay, and judged again, whatever
   the ledger holds by then. *)

Pay(b, i) ==
  /\ pc[b] \in {"idle", "quoted", "answered"} /\ offer[b] # None
  /\ pc[i] = "up"
  /\ Begin(b, "paying")
  /\ at' = [at EXCEPT ![b] = i]
  /\ IF ttl[b] # None THEN UNCHANGED ttl
     ELSE \E t \in TtlChoices \union {offer[b].timeout} : ttl' = [ttl EXCEPT ![b] = t]
  /\ calm' = [calm EXCEPT ![b] = @ /\ calm[i]]
  /\ UNCHANGED <<tableVars, cache, catalog, offer, answer>>

Judge(b) ==
  /\ Finish(b, "paying", "answered", Nothing)
  /\ answer' = [answer EXCEPT ![b] = Verdict(b)]

----------------------------------------------------------------------------
(* Cold start. *)

Boot(i) ==
  /\ pc[i] = "down"
  /\ Begin(i, "starting")
  /\ calm' = [calm EXCEPT ![i] = Quiet]
  /\ UNCHANGED <<tableVars, cache, catalog, buyerVars>>

(* The process ends, with its cache and the requests it was serving. *)
Down(i) ==
  LET lost == {b \in Buyers : at[b] = i /\ pc[b] \in {"quoting", "supported", "paying"}}
      gone == lost \union {i}
  IN  /\ pc' = [r \in Readers |-> IF r = i THEN "down" ELSE IF r \in lost THEN "idle" ELSE pc[r]]
      /\ step' = [r \in Readers |-> IF r \in gone THEN 1 ELSE step[r]]
      /\ phase' = [r \in Readers |-> IF r \in gone THEN "check" ELSE phase[r]]
      /\ age' = [r \in Readers |-> IF r \in gone THEN 0 ELSE age[r]]
      /\ snap' = [r \in Readers |-> IF r \in gone THEN 0 ELSE snap[r]]
      /\ got' = [r \in Readers |-> IF r \in gone THEN Nothing ELSE got[r]]
      /\ cache' = [cache EXCEPT ![i] = NewCache]
      /\ catalog' = [catalog EXCEPT ![i] = None]
      /\ UNCHANGED buyerVars

StartAborts(i) ==
  /\ pc[i] = "starting" /\ MayRead(i) /\ Problem(i) # None
  /\ Down(i) /\ UNCHANGED <<tableVars, calm>>

StartResolved(i) == Finish(i, "starting", "mints", Got(i)) /\ UNCHANGED answer

(* The mints of the catalog are checked on chain. *)
MintsValid(i) ==
  /\ pc[i] = "mints"
  /\ pc' = [pc EXCEPT ![i] = "migrating"]
  /\ UNCHANGED <<tableVars, cache, readVars, catalog, buyerVars, calm>>

MintsInvalid(i) == pc[i] = "mints" /\ Down(i) /\ UNCHANGED <<tableVars, calm>>

Seeded == [history[version] EXCEPT !.own["catalog"] = SeedCatalog]

(* init.sql puts its catalog row in the table, over any other. *)
Seed ==
  IF Seeded = history[version] THEN UNCHANGED <<tableVars, calm>> ELSE Install(Seeded)

(* The instance serves the catalog it resolved before the migration. *)
Migrate(i) ==
  /\ pc[i] = "migrating"
  /\ Seed
  /\ pc' = [pc EXCEPT ![i] = "up"]
  /\ catalog' = [catalog EXCEPT ![i] = got[i]["catalog"]]
  /\ got' = [got EXCEPT ![i] = Nothing]
  /\ UNCHANGED <<cache, step, phase, age, snap, buyerVars>>

(* A batch that timed out may have been committed. *)
MigrateFails(i) ==
  /\ "db" \in Faults
  /\ pc[i] = "migrating"
  /\ Down(i)
  /\ Seed \/ UNCHANGED <<tableVars, calm>>

Restart(i) ==
  /\ "restart" \in Faults
  /\ pc[i] = "up"
  /\ Down(i) /\ UNCHANGED <<tableVars, calm>>

----------------------------------------------------------------------------

(* Time passes, but not between the end of a fetch and the read after it, and
   no fetch outlasts its time-outs. *)
Tick ==
  /\ \A r \in Readers : phase[r] # "read" /\ (phase[r] = "fetch" => age[r] < MaxFetch)
  /\ cache' = [i \in Instances |-> [cache[i] EXCEPT !.age = Later(@, CacheTtl + 1)]]
  /\ age' = [r \in Readers |-> IF phase[r] = "fetch" THEN age[r] + 1 ELSE age[r]]
  /\ retired' = [v \in Versions |->
       IF v < version THEN Later(retired[v], Window + 1) ELSE retired[v]]
  /\ UNCHANGED <<history, version, step, phase, snap, got, catalog, buyerVars, pc, calm>>

Resolution(r) ==
  StartFetch(r) \/ Select(r) \/ StoreMap(r) \/ FetchFails(r) \/ ReadOn(r)

ColdStart(i) ==
  \/ Boot(i) \/ StartAborts(i) \/ StartResolved(i) \/ MintsValid(i) \/ MintsInvalid(i)
  \/ Migrate(i) \/ MigrateFails(i)

Serve(b) == QuoteRefused(b) \/ QuoteResolved(b) \/ Quote(b) \/ FacilitatorFails(b) \/ Judge(b)

Buy(b) == \E i \in Instances : Ask(b, i) \/ Pay(b, i)

Next ==
  \/ \E r \in Readers : Resolution(r)
  \/ \E i \in Instances : ColdStart(i) \/ Restart(i)
  \/ \E b \in Buyers : Serve(b) \/ Buy(b)
  \/ Edit
  \/ Tick

Spec == Init /\ [][Next]_vars

(* Handlers run on, a fetch ends by its time-outs, and buyers keep coming.  A
   database that an instance asks again and again answers now and then. *)
Fairness ==
  /\ \A r \in Readers : WF_vars(Resolution(r))
  /\ \A i \in Instances :
       /\ WF_vars(ColdStart(i))
       /\ SF_vars(\E r \in Readers : At(r) = i /\ Select(r))
       /\ SF_vars(\E r \in Readers : At(r) = i /\ StoreMap(r))
       /\ SF_vars(MintsValid(i))
       /\ SF_vars(Migrate(i))
  /\ \A b \in Buyers : WF_vars(Serve(b)) /\ WF_vars(Buy(b))
  /\ SF_vars(Tick)

FairSpec == Spec /\ Fairness

----------------------------------------------------------------------------

(* Every variable has its type: ages stay below the limits that matter, and no
   map is newer than the table. *)
TypeOK ==
  /\ version \in Versions
  /\ DOMAIN history = Versions
  /\ retired \in [Versions -> 0..(Window + 1)]
  /\ cache \in [Instances ->
       [version : 0..version, age : 0..(CacheTtl + 1), ok : BOOLEAN]]
  /\ pc \in [Readers -> {"idle", "quoting", "supported", "quoted", "paying", "answered",
                         "down", "starting", "mints", "migrating", "up"}]
  /\ at \in [Buyers -> Instances \union {None}]
  /\ step \in [Readers -> 1..6]
  /\ phase \in [Readers -> {"check", "fetch", "read"}]
  /\ age \in [Readers -> 0..MaxFetch]
  /\ snap \in [Readers -> 0..version]
  /\ calm \in [Readers -> BOOLEAN]

(* A value about to be used comes from a version that was current within the
   Window, unless the last fetch failed: of overlapping fetches the one that
   ends last wins, yet it was stamped when it began. *)
Recent(v) == v > 0 /\ (v = version \/ retired[v] <= Window)

ServedRecently ==
  \A r \in Readers :
    MayRead(r) /\ cache[At(r)].ok => Recent(cache[At(r)].version)

(* If the table was left alone, a quote is the table's, whole: no field of it
   comes from another version or from the environment. *)
CalmQuotesCurrent ==
  \A b \in Buyers :
    pc[b] = "quoted" /\ calm[b] =>
      /\ \A n \in {"network", "timeout"} : offer[b][n] = Resolved(history[version], n)
      /\ offer[b].payout =
           Payout([n \in Names |-> Resolved(history[version], n)])

(* A buyer who signs what was quoted, while table and catalog are left alone,
   is not refused, whichever instances serve the quote and the payment, if the
   table and the environment name one cluster. *)
CalmPaymentsAccepted ==
  \A b \in Buyers :
    /\ answer[b] \in {"payment_ttl_mismatch", "payment_ttl_too_short", "sla_hash_mismatch"}
    /\ ttl[b] = offer[b].timeout
    /\ Cluster(offer[b].network) = Cluster(ConfigNetwork)
    => ~(calm[b] /\ offer[b].calm)

(* No quote can be refused for being too short once it is paid. *)
QuotesLongEnough ==
  \A b \in Buyers :
    answer[b] = "payment_ttl_too_short" => ttl[b] # offer[b].timeout

(* What an instance checked when it started holds for its quotes as long as
   nobody edits the table: SubmitDelivery will carry the signature of the
   account FundPayment names. *)
CalmPayoutSigned ==
  \A b \in Buyers : offer[b] # None /\ offer[b].calm => offer[b].payout = SignerKey

(* Edits reach the buyers: once the operators rest, the quotes handed out are
   in the end those of the table. *)
CatchesUp ==
  <>[](\A b \in Buyers :
         pc[b] = "quoted" => offer[b].timeout = Resolved(history[version], "timeout"))
=============================================================================
