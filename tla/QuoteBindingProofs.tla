------------------------ MODULE QuoteBindingProofs ------------------------
(***************************************************************************)
(* What the parameters table promises through its caches, for any number   *)
(* of buyers, instances and versions and any tables: nothing is served     *)
(* that was replaced longer ago than the Window, every quote can be paid,  *)
(* and quotes, their payments and their payout accounts agree with a table *)
(* that is left alone.                                                     *)
(*                                                                         *)
(* A map is as recent as its stamp says only because last_fetch is the     *)
(* instant before the SELECT.  So the invariant follows a version from the *)
(* SELECT, whose request carries it for at most MaxFetch, to the cache,    *)
(* whose age counts from before that SELECT, to the reader that does not   *)
(* look at the age again after its own refresh.                            *)
(***************************************************************************)
EXTENDS QuoteBinding, TLAPS

(* Version v was current at some time within the last t ticks. *)
Fresh(v, t) == v > 0 /\ (v = version \/ retired[v] <= t)

(* Only a task resolves parameters, at an instance, and only a fetch under way
   holds the outcome of a SELECT. *)
Disciplined ==
  /\ \A b \in Buyers : Reading(b) => at[b] \in Instances
  /\ \A r \in Readers : ~Reading(r) => phase[r] = "check"
  /\ \A r \in Readers : phase[r] # "fetch" => snap[r] = 0

FetchedRecently == \A r \in Readers : snap[r] # 0 => Fresh(snap[r], age[r])

CachedRecently ==
  \A i \in Instances :
    cache[i].ok =>
      /\ cache[i].version > 0
      /\ cache[i].age <= CacheTtl => Fresh(cache[i].version, cache[i].age)

(* Whoever has just refreshed the cache reads what is there, however old a map
   another request has stored since. *)
ReadRecently ==
  \A r \in Readers :
    phase[r] = "read" /\ cache[At(r)].ok => Fresh(cache[At(r)].version, Window)

----------------------------------------------------------------------------

(* The tasks have at most six parameters to resolve. *)
LEMMA ScriptLength ==
  ASSUME NEW task \in {"starting", "quoting", "paying"}
  PROVE  Len(Script[task]) \in 1..6
  BY DEF Script

(* Neither limit of the Window is beyond it. *)
LEMMA WindowIsLonger ==
  /\ Window \in Nat
  /\ CacheTtl <= Window
  /\ MaxFetch <= Window
  BY QuoteBindingAssumption DEF Window, Longer

(* Instances and buyers have different names. *)
LEMMA ServedAt ==
  ASSUME NEW r \in Readers, Disciplined, Reading(r)
  PROVE  At(r) \in Instances
  BY DEF Disciplined, At, Readers

(* A clock stays below its cap and moves by one tick at most. *)
LEMMA LaterTicks ==
  ASSUME NEW cap \in Nat, NEW t \in 0..cap
  PROVE  /\ Later(t, cap) \in 0..cap
         /\ Later(t, cap) <= t + 1
         /\ t <= Later(t, cap)
         /\ t < cap => Later(t, cap) = t + 1
  BY DEF Later

----------------------------------------------------------------------------

(* What a version number, a map and a resolution may be, one conjunct per
   variable that a step can take out of its type. *)
LEMMA InitType == Init => TypeOK
  BY QuoteBindingAssumption, WindowIsLonger
  DEF Init, TypeOK, Versions, Readers, NewCache

(* Installing a state of the table. *)
LEMMA InstallType ==
  ASSUME TypeOK, NEW t, Install(t)
  PROVE  /\ version' \in Versions
         /\ version' = version + 1
         /\ DOMAIN history' = Versions
         /\ retired' \in [Versions -> 0..(Window + 1)]
         /\ calm' \in [Readers -> BOOLEAN]
         /\ retired'[version] = 0
         /\ \A v \in Versions : v # version => retired'[v] = retired[v]
         /\ cache \in [Instances ->
              [version : 0..version', age : 0..(CacheTtl + 1), ok : BOOLEAN]]
         /\ snap \in [Readers -> 0..version']
  <1>1. /\ version \in Nat
        /\ version < MaxVersions
        /\ version' = version + 1
        /\ version' \in Versions
    BY QuoteBindingAssumption DEF TypeOK, Install, Versions
  <1>2. /\ DOMAIN history' = Versions
        /\ retired' \in [Versions -> 0..(Window + 1)]
        /\ retired'[version] = 0
        /\ \A v \in Versions : v # version => retired'[v] = retired[v]
        /\ calm' \in [Readers -> BOOLEAN]
    BY <1>1, WindowIsLonger DEF TypeOK, Install
  <1>3. 0..version \subseteq 0..version'
    BY <1>1
  <1>4. cache \in [Instances ->
              [version : 0..version', age : 0..(CacheTtl + 1), ok : BOOLEAN]]
    BY <1>3 DEF TypeOK
  <1>5. snap \in [Readers -> 0..version']
    BY <1>3 DEF TypeOK
  <1> QED BY <1>1, <1>2, <1>4, <1>5

LEMMA StampType ==
  ASSUME TypeOK, NEW r \in Readers
  PROVE  StampAge(r) \in 0..(CacheTtl + 1)
  BY QuoteBindingAssumption DEF TypeOK, StampAge

LEMMA FetchEndsType ==
  ASSUME TypeOK, NEW r \in Readers, NEW c, FetchEnds(r, c),
         At(r) \in Instances =>
           c \in [version : 0..version, age : 0..(CacheTtl + 1), ok : BOOLEAN]
  PROVE  TypeOK'
  <1>1. 0 \in 0..version /\ 0 \in 0..MaxFetch
    BY QuoteBindingAssumption DEF TypeOK, Versions
  <1>2. cache' \in [Instances ->
             [version : 0..version, age : 0..(CacheTtl + 1), ok : BOOLEAN]]
    BY DEF TypeOK, FetchEnds
  <1>3. /\ phase' \in [Readers -> {"check", "fetch", "read"}]
        /\ snap' \in [Readers -> 0..version]
        /\ age' \in [Readers -> 0..MaxFetch]
    BY <1>1 DEF TypeOK, FetchEnds
  <1> QED BY <1>2, <1>3 DEF TypeOK, FetchEnds, tableVars, buyerVars

LEMMA FinishType ==
  ASSUME TypeOK, NEW r \in Readers, NEW from, NEW to \in {"supported", "answered", "mints"},
         NEW g, Finish(r, from, to, g)
  PROVE  TypeOK'
  BY DEF TypeOK, Finish, tableVars

(* A process that ends, except for what its last batch did to the table. *)
LEMMA DownType ==
  ASSUME TypeOK, NEW i \in Instances, Down(i)
  PROVE  /\ pc' \in [Readers -> {"idle", "quoting", "supported", "quoted", "paying", "answered",
                                 "down", "starting", "mints", "migrating", "up"}]
         /\ at' \in [Buyers -> Instances \union {None}]
         /\ step' \in [Readers -> 1..6]
         /\ phase' \in [Readers -> {"check", "fetch", "read"}]
         /\ age' \in [Readers -> 0..MaxFetch]
         /\ snap' \in [Readers -> 0..version]
         /\ cache' \in [Instances ->
              [version : 0..version, age : 0..(CacheTtl + 1), ok : BOOLEAN]]
  <1>1. version \in Nat
    BY QuoteBindingAssumption DEF TypeOK, Versions
  <1>2. NewCache \in [version : 0..version, age : 0..(CacheTtl + 1), ok : BOOLEAN]
    BY <1>1, QuoteBindingAssumption DEF NewCache
  <1>3. cache' \in [Instances ->
              [version : 0..version, age : 0..(CacheTtl + 1), ok : BOOLEAN]]
    BY <1>2 DEF TypeOK, Down
  <1>4. /\ pc' \in [Readers -> {"idle", "quoting", "supported", "quoted", "paying", "answered",
                                "down", "starting", "mints", "migrating", "up"}]
        /\ phase' \in [Readers -> {"check", "fetch", "read"}]
    BY DEF TypeOK, Down
  <1>5. /\ step' \in [Readers -> 1..6]
        /\ age' \in [Readers -> 0..MaxFetch]
        /\ snap' \in [Readers -> 0..version]
    BY <1>1, QuoteBindingAssumption DEF TypeOK, Down
  <1>6. at' \in [Buyers -> Instances \union {None}]
    BY DEF TypeOK, Down, buyerVars
  <1> QED BY <1>3, <1>4, <1>5, <1>6

(* A process that ends and leaves the table alone, or seeds it. *)
LEMMA DownAndTableType ==
  ASSUME TypeOK, NEW i \in Instances, Down(i), Seed \/ UNCHANGED <<tableVars, calm>>
  PROVE  TypeOK'
  <1>1. CASE UNCHANGED <<tableVars, calm>>
    BY <1>1, DownType DEF TypeOK, tableVars
  <1>2. CASE Install(Seeded)
    <2>1. /\ version' \in Versions
          /\ version' = version + 1
          /\ DOMAIN history' = Versions
          /\ retired' \in [Versions -> 0..(Window + 1)]
          /\ calm' \in [Readers -> BOOLEAN]
      BY <1>2, InstallType
    <2>2. 0..version \subseteq 0..version'
      BY <2>1, QuoteBindingAssumption DEF TypeOK, Versions
    <2>3. /\ cache' \in [Instances ->
                [version : 0..version', age : 0..(CacheTtl + 1), ok : BOOLEAN]]
          /\ snap' \in [Readers -> 0..version']
      BY <2>2, DownType
    <2> QED BY <2>1, <2>3, DownType DEF TypeOK
  <1> QED BY <1>1, <1>2 DEF Seed

LEMMA ResolutionType ==
  ASSUME TypeOK, NEW r \in Readers, Resolution(r)
  PROVE  TypeOK'
  <1>1. CASE StartFetch(r)
    BY <1>1 DEF TypeOK, StartFetch, tableVars, buyerVars
  <1>2. CASE Select(r)
    <2>1. version \in 0..version
      BY QuoteBindingAssumption DEF TypeOK, Versions
    <2> QED BY <1>2, <2>1 DEF TypeOK, Select, tableVars, buyerVars
  <1>3. CASE StoreMap(r)
    BY <1>3, StampType, FetchEndsType DEF StoreMap, TypeOK
  <1>4. CASE FetchFails(r)
    BY <1>4, StampType, FetchEndsType DEF FetchFails, TypeOK
  <1>5. CASE ReadOn(r)
    <2>1. step[r] + 1 \in 1..6
      <3>1. PICK n \in 1..6 : n = Len(Script[pc[r]])
        BY <1>5, ScriptLength DEF ReadOn, MayRead, Reading
      <3>2. step[r] \in 1..6 /\ step[r] < n
        BY <1>5, <3>1 DEF ReadOn, TypeOK
      <3> QED BY <3>2
    <2> QED BY <1>5, <2>1 DEF TypeOK, ReadOn, tableVars, buyerVars
  <1> QED BY <1>1, <1>2, <1>3, <1>4, <1>5 DEF Resolution

LEMMA ColdStartType ==
  ASSUME TypeOK, NEW i \in Instances, ColdStart(i) \/ Restart(i)
  PROVE  TypeOK'
  <1> i \in Readers
    BY DEF Readers
  <1>1. CASE Boot(i)
    BY <1>1 DEF TypeOK, Boot, Begin, Quiet, tableVars, readVars, buyerVars
  <1>2. CASE StartAborts(i)
    BY <1>2, DownAndTableType DEF StartAborts
  <1>3. CASE StartResolved(i)
    BY <1>3, FinishType DEF StartResolved
  <1>4. CASE MintsValid(i)
    BY <1>4 DEF TypeOK, MintsValid, tableVars, readVars, buyerVars
  <1>5. CASE MintsInvalid(i)
    BY <1>5, DownAndTableType DEF MintsInvalid
  <1>6. CASE Migrate(i)
    <2>1. CASE UNCHANGED <<tableVars, calm>>
      BY <1>6, <2>1 DEF TypeOK, Migrate, tableVars, buyerVars
    <2>2. CASE Install(Seeded)
      BY <1>6, <2>2, InstallType DEF TypeOK, Migrate, buyerVars
    <2> QED BY <1>6, <2>1, <2>2 DEF Migrate, Seed
  <1>7. CASE MigrateFails(i)
    BY <1>7, DownAndTableType DEF MigrateFails
  <1>8. CASE Restart(i)
    BY <1>8, DownAndTableType DEF Restart
  <1> QED BY <1>1, <1>2, <1>3, <1>4, <1>5, <1>6, <1>7, <1>8 DEF ColdStart

LEMMA BuyerType ==
  ASSUME TypeOK, NEW b \in Buyers, Serve(b) \/ Buy(b)
  PROVE  TypeOK'
  <1> b \in Readers
    BY DEF Readers
  <1>1. CASE QuoteRefused(b)
    BY <1>1 DEF TypeOK, QuoteRefused, Answer, tableVars
  <1>2. CASE QuoteResolved(b)
    BY <1>2, FinishType DEF QuoteResolved
  <1>3. CASE Quote(b)
    BY <1>3 DEF TypeOK, Quote, Answer, tableVars
  <1>4. CASE FacilitatorFails(b)
    BY <1>4 DEF TypeOK, FacilitatorFails, Answer, tableVars
  <1>5. CASE Judge(b)
    BY <1>5, FinishType DEF Judge
  <1>6. ASSUME NEW i \in Instances, Ask(b, i) PROVE TypeOK'
    BY <1>6 DEF TypeOK, Ask, Begin, Quiet, tableVars, readVars
  <1>7. ASSUME NEW i \in Instances, Pay(b, i) PROVE TypeOK'
    <2>1. (calm[b] /\ calm[i]) \in BOOLEAN
      BY DEF TypeOK, Readers
    <2> QED BY <1>7, <2>1 DEF TypeOK, Pay, Begin, tableVars, readVars
  <1> QED BY <1>1, <1>2, <1>3, <1>4, <1>5, <1>6, <1>7 DEF Serve, Buy

LEMMA TickType == TypeOK /\ Tick => TypeOK'
  <1> SUFFICES ASSUME TypeOK, Tick PROVE TypeOK'
    OBVIOUS
  <1>1. \A i \in Instances : cache'[i] = [cache[i] EXCEPT !.age = Later(@, CacheTtl + 1)]
    BY DEF Tick
  <1>2. cache' \in [Instances ->
              [version : 0..version, age : 0..(CacheTtl + 1), ok : BOOLEAN]]
    <2>1. CacheTtl + 1 \in Nat
      BY QuoteBindingAssumption
    <2>2. ASSUME NEW i \in Instances
          PROVE  [cache[i] EXCEPT !.age = Later(@, CacheTtl + 1)]
                   \in [version : 0..version, age : 0..(CacheTtl + 1), ok : BOOLEAN]
      BY <2>1, LaterTicks DEF TypeOK
    <2> QED BY <2>2 DEF Tick
  <1>3. age' \in [Readers -> 0..MaxFetch]
    BY QuoteBindingAssumption DEF TypeOK, Tick
  <1>4. retired' \in [Versions -> 0..(Window + 1)]
    <2>1. Window + 1 \in Nat
      BY WindowIsLonger
    <2> QED BY <2>1, LaterTicks DEF TypeOK, Tick
  <1> QED BY <1>2, <1>3, <1>4 DEF TypeOK, Tick, buyerVars

LEMMA TypeStep == TypeOK /\ [Next]_vars => TypeOK'
  <1> SUFFICES ASSUME TypeOK, [Next]_vars PROVE TypeOK'
    OBVIOUS
  <1>1. CASE Edit
    BY <1>1, InstallType DEF Edit, TypeOK, readVars, buyerVars
  <1>2. CASE UNCHANGED vars
    BY <1>2 DEF TypeOK, vars, tableVars, readVars, buyerVars
  <1> QED BY <1>1, <1>2, ResolutionType, ColdStartType, BuyerType, TickType DEF Next

(* Ages stay below their caps, and neither a cache nor a fetch holds a version
   that the table has not reached. *)
THEOREM TypeCorrect == Spec => []TypeOK
  BY InitType, TypeStep, PTL DEF Spec

----------------------------------------------------------------------------

LEMMA InitDisciplined == Init => Disciplined
  BY QuoteBindingAssumption DEF Init, Disciplined, Reading, Readers

LEMMA FinishDisciplined ==
  ASSUME TypeOK, Disciplined, NEW r \in Readers, NEW from,
         NEW to \in {"supported", "answered", "mints"}, NEW g,
         Finish(r, from, to, g)
  PROVE  Disciplined'
  BY DEF TypeOK, Disciplined, Finish, MayRead, Reading, Readers

LEMMA DownDisciplined ==
  ASSUME TypeOK, Disciplined, NEW i \in Instances, Down(i)
  PROVE  Disciplined'
  <1>1. ASSUME NEW b \in Buyers, Reading(b)' PROVE at'[b] \in Instances
    BY <1>1, QuoteBindingAssumption DEF TypeOK, Disciplined, Down, Reading, Readers, buyerVars
  <1>2. ASSUME NEW r \in Readers, ~Reading(r)' PROVE phase'[r] = "check"
    BY <1>2 DEF TypeOK, Disciplined, Down, Reading
  <1>3. ASSUME NEW r \in Readers, phase'[r] # "fetch" PROVE snap'[r] = 0
    BY <1>3 DEF TypeOK, Disciplined, Down
  <1> QED BY <1>1, <1>2, <1>3 DEF Disciplined

LEMMA ResolutionDisciplined ==
  ASSUME TypeOK, Disciplined, NEW r \in Readers, Resolution(r)
  PROVE  Disciplined'
  <1>1. CASE StartFetch(r)
    BY <1>1 DEF TypeOK, Disciplined, StartFetch, Reading, buyerVars
  <1>2. CASE Select(r)
    BY <1>2 DEF TypeOK, Disciplined, Select, Reading, buyerVars
  <1>3. ASSUME NEW c, FetchEnds(r, c), Reading(r) PROVE Disciplined'
    BY <1>3 DEF TypeOK, Disciplined, FetchEnds, Reading, buyerVars
  <1>4. CASE ReadOn(r)
    BY <1>4 DEF TypeOK, Disciplined, ReadOn, MayRead, Reading, buyerVars
  <1> QED BY <1>1, <1>2, <1>3, <1>4 DEF Resolution, StoreMap, FetchFails

LEMMA ColdStartDisciplined ==
  ASSUME TypeOK, Disciplined, NEW i \in Instances, ColdStart(i) \/ Restart(i)
  PROVE  Disciplined'
  <1> i \in Readers /\ i \notin Buyers
    BY QuoteBindingAssumption DEF Readers
  <1>1. CASE Boot(i)
    BY <1>1 DEF TypeOK, Disciplined, Boot, Begin, Reading, Readers, readVars, buyerVars
  <1>2. CASE Down(i)
    BY <1>2, DownDisciplined
  <1>3. CASE StartResolved(i)
    BY <1>3, FinishDisciplined DEF StartResolved
  <1>4. CASE MintsValid(i)
    BY <1>4 DEF TypeOK, Disciplined, MintsValid, Reading, readVars, buyerVars
  <1>5. CASE Migrate(i)
    BY <1>5 DEF TypeOK, Disciplined, Migrate, Reading, buyerVars
  <1> QED BY <1>1, <1>2, <1>3, <1>4, <1>5
          DEF ColdStart, StartAborts, MintsInvalid, MigrateFails, Restart

LEMMA BuyerDisciplined ==
  ASSUME TypeOK, Disciplined, NEW b \in Buyers, Serve(b) \/ Buy(b)
  PROVE  Disciplined'
  <1> b \in Readers
    BY DEF Readers
  <1>1. CASE QuoteRefused(b)
    BY <1>1 DEF TypeOK, Disciplined, QuoteRefused, Answer, MayRead, Reading, Readers
  <1>2. CASE QuoteResolved(b) \/ Judge(b)
    BY <1>2, FinishDisciplined DEF QuoteResolved, Judge
  <1>3. CASE Quote(b) \/ FacilitatorFails(b)
    BY <1>3 DEF TypeOK, Disciplined, Quote, FacilitatorFails, Answer, Reading, Readers
  <1>4. ASSUME NEW i \in Instances, Ask(b, i) \/ Pay(b, i) PROVE Disciplined'
    BY <1>4 DEF TypeOK, Disciplined, Ask, Pay, Begin, Reading, Readers, readVars
  <1> QED BY <1>1, <1>2, <1>3, <1>4 DEF Serve, Buy

LEMMA DisciplinedStep == TypeOK /\ Disciplined /\ [Next]_vars => Disciplined'
  <1> SUFFICES ASSUME TypeOK, Disciplined, [Next]_vars PROVE Disciplined'
    OBVIOUS
  <1>1. CASE Edit
    BY <1>1 DEF Disciplined, Edit, Reading, readVars, buyerVars
  <1>2. CASE Tick
    BY <1>2 DEF Disciplined, Tick, Reading, buyerVars
  <1>3. CASE UNCHANGED vars
    BY <1>3 DEF Disciplined, Reading, vars, readVars, buyerVars
  <1> QED BY <1>1, <1>2, <1>3, ResolutionDisciplined, ColdStartDisciplined, BuyerDisciplined
          DEF Next

----------------------------------------------------------------------------
(* How fresh a version stays. *)

Recently == FetchedRecently /\ CachedRecently /\ ReadRecently

(* Of the steps of the table, none makes a version older. *)
Survival == \A v \in 0..version, n \in Nat : Fresh(v, n) => Fresh(v, n)'

LEMMA InstallSurvival ==
  ASSUME TypeOK, NEW t, Install(t)
  PROVE  Survival
  <1> SUFFICES ASSUME NEW v \in 0..version, NEW n \in Nat, Fresh(v, n)
               PROVE  Fresh(v, n)'
    BY DEF Survival
  <1>1. /\ version \in 1..MaxVersions /\ version' = version + 1
        /\ retired'[version] = 0
        /\ \A w \in Versions : w # version => retired'[w] = retired[w]
    BY InstallType DEF TypeOK, Versions
  <1>2. v \in Versions /\ v < version'
    BY <1>1, QuoteBindingAssumption DEF Fresh, Versions
  <1>3. CASE v = version
    BY <1>1, <1>3 DEF Fresh
  <1>4. CASE v # version
    BY <1>1, <1>2, <1>4 DEF Fresh
  <1> QED BY <1>3, <1>4

LEMMA TableSurvival ==
  ASSUME TypeOK, Edit \/ Seed \/ UNCHANGED <<version, retired>>
  PROVE  Survival
  <1>1. CASE UNCHANGED <<version, retired>>
    BY <1>1 DEF Survival, Fresh
  <1>2. ASSUME NEW t, Install(t) PROVE Survival
    BY <1>2, InstallSurvival
  <1> QED BY <1>1, <1>2 DEF Edit, Seed, tableVars

(* A tick makes it one tick older. *)
LEMMA TickSurvival ==
  ASSUME TypeOK, Tick
  PROVE  \A v \in 0..version, n \in Nat : Fresh(v, n) => Fresh(v, n + 1)'
  <1> SUFFICES ASSUME NEW v \in 0..version, NEW n \in Nat, Fresh(v, n)
               PROVE  Fresh(v, n + 1)'
    OBVIOUS
  <1>1. v \in Versions /\ version' = version
    BY QuoteBindingAssumption DEF TypeOK, Tick, Fresh, Versions
  <1>2. retired'[v] <= retired[v] + 1 /\ retired[v] \in Nat /\ retired'[v] \in Nat
    <2>1. retired[v] \in 0..(Window + 1) /\ Window + 1 \in Nat
      BY <1>1, WindowIsLonger DEF TypeOK
    <2>2. /\ Later(retired[v], Window + 1) <= retired[v] + 1
          /\ Later(retired[v], Window + 1) \in 0..(Window + 1)
      BY <2>1, LaterTicks
    <2>3. retired'[v] = IF v < version THEN Later(retired[v], Window + 1) ELSE retired[v]
      BY <1>1 DEF Tick
    <2> QED BY <2>1, <2>2, <2>3
  <1>3. CASE v = version
    BY <1>1, <1>3 DEF Fresh
  <1>4. CASE v # version
    <2>1. v > 0 /\ retired[v] <= n
      BY <1>4 DEF Fresh
    <2>2. retired'[v] <= n + 1
      BY <1>2, <2>1
    <2> QED BY <2>1, <2>2 DEF Fresh
  <1> QED BY <1>3, <1>4

(* A longer memory covers a shorter one. *)
LEMMA FreshWeakens ==
  ASSUME TypeOK, NEW v \in 0..version, NEW m \in Nat, NEW n \in Nat, m <= n, Fresh(v, m)
  PROVE  Fresh(v, n)
  BY QuoteBindingAssumption, WindowIsLonger DEF TypeOK, Fresh, Versions

(* Steps that bring no version from anywhere to anywhere. *)
LEMMA NothingMoves ==
  ASSUME TypeOK, Recently, Survival,
         \A i \in Instances : cache'[i] = cache[i] \/ ~cache'[i].ok,
         \A r \in Readers : snap'[r] = 0 \/ (snap'[r] = snap[r] /\ age'[r] = age[r]),
         \A r \in Readers : phase'[r] = "read" =>
            /\ At(r)' \in Instances
            /\ cache'[At(r)'].ok => phase[r] = "read" /\ At(r)' = At(r)
  PROVE  Recently'
  <1>1. FetchedRecently'
    <2> SUFFICES ASSUME NEW r \in Readers, snap'[r] # 0
                 PROVE  Fresh(snap[r], age[r])'
      BY DEF FetchedRecently
    <2>1. snap'[r] = snap[r] /\ age'[r] = age[r] /\ snap[r] \in 0..version /\ age[r] \in Nat
      BY QuoteBindingAssumption DEF TypeOK
    <2>2. Fresh(snap[r], age[r])
      BY <2>1 DEF Recently, FetchedRecently
    <2>3. Fresh(snap[r], age[r])'
      BY <2>1, <2>2 DEF Survival, Fresh
    <2> QED BY <2>1, <2>3 DEF Fresh
  <1>2. CachedRecently'
    <2> SUFFICES ASSUME NEW i \in Instances, cache'[i].ok
                 PROVE  (/\ cache[i].version > 0
                         /\ cache[i].age <= CacheTtl => Fresh(cache[i].version, cache[i].age))'
      BY DEF CachedRecently
    <2>1. cache'[i] = cache[i] /\ cache[i].version \in 0..version /\ cache[i].age \in Nat
      BY QuoteBindingAssumption DEF TypeOK
    <2>2. /\ cache[i].version > 0
          /\ cache[i].age <= CacheTtl => Fresh(cache[i].version, cache[i].age)
      BY <2>1 DEF Recently, CachedRecently
    <2> QED BY <2>1, <2>2 DEF Survival, Fresh
  <1>3. ReadRecently'
    <2> SUFFICES ASSUME NEW r \in Readers, (phase[r] = "read" /\ cache[At(r)].ok)'
                 PROVE  Fresh(cache[At(r)].version, Window)'
      BY DEF ReadRecently
    <2>1. At(r)' \in Instances /\ phase[r] = "read" /\ At(r)' = At(r)
      OBVIOUS
    <2>2. cache'[At(r)] = cache[At(r)] /\ cache[At(r)].version \in 0..version
      BY <2>1 DEF TypeOK
    <2>3. Fresh(cache[At(r)].version, Window)
      BY <2>1, <2>2 DEF Recently, ReadRecently
    <2> QED BY <2>1, <2>2, <2>3, WindowIsLonger DEF Survival, Fresh
  <1> QED BY <1>1, <1>2, <1>3 DEF Recently

LEMMA DownMoves ==
  ASSUME TypeOK, Disciplined, Recently, Survival, NEW i \in Instances, Down(i)
  PROVE  Recently'
  <1>1. \A j \in Instances : cache'[j] = cache[j] \/ ~cache'[j].ok
    BY DEF TypeOK, Down, NewCache
  <1>2. \A r \in Readers : snap'[r] = 0 \/ (snap'[r] = snap[r] /\ age'[r] = age[r])
    BY DEF TypeOK, Down
  <1>3. ASSUME NEW r \in Readers, phase'[r] = "read"
        PROVE  At(r)' \in Instances /\ phase[r] = "read" /\ At(r)' = At(r)
    <2>1. phase[r] = "read" /\ At(r)' = At(r)
      BY <1>3 DEF TypeOK, Down, At, buyerVars
    <2>2. At(r) \in Instances
      BY <2>1, ServedAt DEF Disciplined
    <2> QED BY <2>1, <2>2
  <1> QED BY <1>1, <1>2, <1>3, NothingMoves

LEMMA FinishMoves ==
  ASSUME TypeOK, Disciplined, Recently, Survival, NEW r \in Readers, NEW from, NEW to, NEW g,
         Finish(r, from, to, g)
  PROVE  Recently'
  <1>1. ASSUME NEW q \in Readers, phase'[q] = "read"
        PROVE  At(q)' \in Instances /\ phase[q] = "read" /\ At(q)' = At(q)
    <2>1. phase[q] = "read" /\ At(q)' = At(q)
      BY <1>1 DEF TypeOK, Finish, At
    <2>2. At(q) \in Instances
      BY <2>1, ServedAt DEF Disciplined
    <2> QED BY <2>1, <2>2
  <1> QED BY <1>1, NothingMoves DEF Finish

(* Steps that leave the caches and the fetches alone, and whose readers, if they
   look at a map, are those that did before. *)
LEMMA Untouched ==
  ASSUME TypeOK, Disciplined, Recently, Survival, UNCHANGED <<cache, age, snap>>,
         \A r \in Readers : phase'[r] = "read" => phase[r] = "read" /\ At(r)' = At(r)
  PROVE  Recently'
  <1>1. ASSUME NEW r \in Readers, phase'[r] = "read"
        PROVE  At(r)' \in Instances /\ phase[r] = "read" /\ At(r)' = At(r)
    <2>1. At(r) \in Instances
      BY <1>1, ServedAt DEF Disciplined
    <2> QED BY <1>1, <2>1
  <1> QED BY <1>1, NothingMoves

(* The map of a fetch reaches the cache no younger than it is, and those who
   read it next get one that was replaced within MaxFetch. *)
LEMMA StoreMoves ==
  ASSUME TypeOK, Disciplined, Recently, NEW r \in Readers, StoreMap(r)
  PROVE  Recently'
  <1> DEFINE v == snap[r]
             c == [version |-> v, age |-> StampAge(r), ok |-> TRUE]
  <1>1. /\ v \in 0..version /\ version \in Nat /\ age[r] \in 0..MaxFetch
        /\ CacheTtl \in Nat /\ MaxFetch \in Nat /\ Window \in Nat /\ MaxFetch <= Window
    BY QuoteBindingAssumption, WindowIsLonger DEF TypeOK, Versions
  <1>2. Fresh(v, age[r]) /\ v > 0
    BY DEF StoreMap, Recently, FetchedRecently, Fresh
  <1>3. At(r) \in Instances
    BY ServedAt DEF StoreMap
  <1>4. /\ cache' = [cache EXCEPT ![At(r)] = c]
        /\ snap' = [snap EXCEPT ![r] = 0]
        /\ age' = [age EXCEPT ![r] = 0]
        /\ phase' = [phase EXCEPT ![r] = "read"]
        /\ version' = version /\ retired' = retired /\ at' = at
    BY DEF StoreMap, FetchEnds, tableVars, buyerVars
  <1>5. \A w, n : Fresh(w, n)' = Fresh(w, n)
    BY <1>4 DEF Fresh
  <1>6. \A q : At(q)' = At(q)
    BY <1>4 DEF At
  <1>7. FetchedRecently'
    BY <1>4, <1>5 DEF TypeOK, Recently, FetchedRecently
  <1>8. CachedRecently'
    <2> SUFFICES ASSUME NEW i \in Instances, cache'[i].ok
                 PROVE  (/\ cache[i].version > 0
                         /\ cache[i].age <= CacheTtl => Fresh(cache[i].version, cache[i].age))'
      BY DEF CachedRecently
    <2>1. CASE i = At(r)
      <3>1. cache'[i] = c
        BY <1>4, <2>1 DEF TypeOK
      <3>2. c.age <= CacheTtl => c.age = age[r]
        BY <1>1 DEF StampAge
      <3> QED BY <1>2, <1>5, <3>1, <3>2
    <2>2. CASE i # At(r)
      BY <1>4, <1>5, <2>2 DEF TypeOK, Recently, CachedRecently
    <2> QED BY <2>1, <2>2
  <1>9. ReadRecently'
    <2> SUFFICES ASSUME NEW q \in Readers, (phase[q] = "read" /\ cache[At(q)].ok)'
                 PROVE  Fresh(cache[At(q)].version, Window)'
      BY DEF ReadRecently
    <2>1. CASE At(q) = At(r)
      <3>1. cache'[At(q)] = c
        BY <1>3, <1>4, <2>1 DEF TypeOK
      <3>2. Fresh(v, Window)
        BY <1>1, <1>2, FreshWeakens
      <3> QED BY <1>5, <1>6, <3>1, <3>2
    <2>2. CASE At(q) # At(r)
      <3>1. phase[q] = "read" /\ cache'[At(q)] = cache[At(q)]
        BY <1>4, <1>6, <2>2 DEF TypeOK
      <3>2. Fresh(cache[At(q)].version, Window)
        BY <1>6, <3>1 DEF Recently, ReadRecently
      <3> QED BY <1>5, <1>6, <3>1, <3>2
    <2> QED BY <2>1, <2>2
  <1> QED BY <1>7, <1>8, <1>9 DEF Recently

LEMMA ResolutionMoves ==
  ASSUME TypeOK, Disciplined, Recently, NEW r \in Readers, Resolution(r)
  PROVE  Recently'
  <1>1. CASE StartFetch(r)
    <2>1. \A q \in Readers : phase'[q] = "read" => phase[q] = "read" /\ At(q)' = At(q)
      BY <1>1 DEF TypeOK, StartFetch, At, buyerVars
    <2>2. Survival
      BY <1>1, TableSurvival DEF StartFetch, tableVars
    <2> QED BY <1>1, <2>1, <2>2, Untouched DEF StartFetch
  <1>2. CASE Select(r)
    <2>1. /\ version' = version /\ retired' = retired /\ cache' = cache
          /\ phase' = phase /\ age' = age /\ at' = at
          /\ snap' = [snap EXCEPT ![r] = version]
      BY <1>2 DEF Select, tableVars, buyerVars
    <2>2. \A w, n : Fresh(w, n)' = Fresh(w, n)
      BY <2>1 DEF Fresh
    <2>3. \A q : At(q)' = At(q)
      BY <2>1 DEF At
    <2>4. Fresh(version, age[r])
      BY QuoteBindingAssumption DEF TypeOK, Versions, Fresh
    <2>5. FetchedRecently'
      BY <2>1, <2>2, <2>4 DEF TypeOK, Recently, FetchedRecently
    <2>6. CachedRecently'
      BY <2>1, <2>2 DEF Recently, CachedRecently
    <2>7. ReadRecently'
      BY <2>1, <2>2, <2>3 DEF Recently, ReadRecently
    <2> QED BY <2>5, <2>6, <2>7 DEF Recently
  <1>3. CASE StoreMap(r)
    BY <1>3, StoreMoves
  <1>4. CASE FetchFails(r)
    <2>1. At(r) \in Instances
      BY <1>4, ServedAt DEF FetchFails
    <2>2. /\ \A i \in Instances : cache'[i] = cache[i] \/ ~cache'[i].ok
          /\ ~cache'[At(r)].ok
          /\ \A q \in Readers : snap'[q] = 0 \/ (snap'[q] = snap[q] /\ age'[q] = age[q])
      BY <1>4, <2>1 DEF TypeOK, FetchFails, FetchEnds
    <2>3. ASSUME NEW q \in Readers, phase'[q] = "read"
          PROVE  /\ At(q)' \in Instances
                 /\ cache'[At(q)'].ok => phase[q] = "read" /\ At(q)' = At(q)
      <3>1. At(q)' = At(q)
        BY <1>4 DEF FetchFails, FetchEnds, At, buyerVars
      <3>2. CASE q = r
        BY <2>1, <2>2, <3>1, <3>2
      <3>3. CASE q # r
        <4>1. phase[q] = "read"
          BY <1>4, <2>3, <3>3 DEF TypeOK, FetchFails, FetchEnds
        <4> QED BY <3>1, <4>1, ServedAt DEF Disciplined
      <3> QED BY <3>2, <3>3
    <2>4. Survival
      BY <1>4, TableSurvival DEF FetchFails, FetchEnds, tableVars
    <2> QED BY <2>2, <2>3, <2>4, NothingMoves
  <1>5. CASE ReadOn(r)
    <2>1. \A q \in Readers : phase'[q] = "read" => phase[q] = "read" /\ At(q)' = At(q)
      BY <1>5 DEF TypeOK, ReadOn, At, buyerVars
    <2>2. Survival
      BY <1>5, TableSurvival DEF ReadOn, tableVars
    <2> QED BY <1>5, <2>1, <2>2, Untouched DEF ReadOn
  <1> QED BY <1>1, <1>2, <1>3, <1>4, <1>5 DEF Resolution

LEMMA ColdStartMoves ==
  ASSUME TypeOK, Disciplined, Recently, NEW i \in Instances, ColdStart(i) \/ Restart(i)
  PROVE  Recently'
  <1> i \in Readers
    BY DEF Readers
  <1>1. CASE Boot(i) \/ MintsValid(i)
    <2>1. /\ UNCHANGED <<version, retired, cache, age, snap, phase, at>>
      BY <1>1 DEF Boot, MintsValid, Begin, tableVars, readVars, buyerVars
    <2> QED BY <2>1, Untouched, TableSurvival DEF At
  <1>2. CASE Migrate(i)
    <2>1. UNCHANGED <<cache, age, snap, phase, at>> /\ Seed
      BY <1>2 DEF Migrate, buyerVars
    <2> QED BY <2>1, Untouched, TableSurvival DEF At
  <1>3. CASE StartResolved(i)
    BY <1>3, FinishMoves, TableSurvival DEF StartResolved, Finish, tableVars
  <1>4. CASE Down(i) /\ (Seed \/ UNCHANGED <<tableVars, calm>>)
    BY <1>4, DownMoves, TableSurvival DEF tableVars
  <1> QED BY <1>1, <1>2, <1>3, <1>4
          DEF ColdStart, StartAborts, MintsInvalid, MigrateFails, Restart

LEMMA BuyerMoves ==
  ASSUME TypeOK, Disciplined, Recently, NEW b \in Buyers, Serve(b) \/ Buy(b)
  PROVE  Recently'
  <1> b \in Readers /\ b \notin Instances
    BY QuoteBindingAssumption DEF Readers
  <1>1. CASE QuoteRefused(b)
    <2>1. \A q \in Readers : phase'[q] = "read" => phase[q] = "read" /\ At(q)' = At(q)
      BY <1>1 DEF TypeOK, QuoteRefused, At
    <2> QED BY <1>1, <2>1, Untouched, TableSurvival DEF QuoteRefused, tableVars
  <1>2. CASE QuoteResolved(b) \/ Judge(b)
    BY <1>2, FinishMoves, TableSurvival DEF QuoteResolved, Judge, Finish, tableVars
  <1>3. CASE Quote(b) \/ FacilitatorFails(b)
    <2>1. UNCHANGED <<version, retired, cache, age, snap, phase, at>>
      BY <1>3 DEF Quote, FacilitatorFails, tableVars
    <2> QED BY <2>1, Untouched, TableSurvival DEF At
  <1>4. ASSUME NEW i \in Instances, Ask(b, i) \/ Pay(b, i) PROVE Recently'
    <2>1. /\ UNCHANGED <<version, retired, cache, age, snap, phase>>
          /\ at' = [at EXCEPT ![b] = i]
          /\ ~Reading(b)
      BY <1>4 DEF Ask, Pay, Begin, Reading, tableVars, readVars
    <2>2. \A q \in Readers : phase'[q] = "read" => phase[q] = "read" /\ At(q)' = At(q)
      BY <2>1 DEF TypeOK, Disciplined, At, Readers
    <2> QED BY <2>1, <2>2, Untouched, TableSurvival
  <1> QED BY <1>1, <1>2, <1>3, <1>4 DEF Serve, Buy

(* Everything grows older together, and nobody is about to read. *)
LEMMA TickMoves == TypeOK /\ Disciplined /\ Recently /\ Tick => Recently'
  <1> SUFFICES ASSUME TypeOK, Disciplined, Recently, Tick PROVE Recently'
    OBVIOUS
  <1>1. FetchedRecently'
    <2> SUFFICES ASSUME NEW r \in Readers, (snap[r] # 0)'
                 PROVE  Fresh(snap[r], age[r])'
      BY DEF FetchedRecently
    <2>1. /\ snap'[r] = snap[r] /\ snap[r] \in 0..version /\ snap[r] # 0
          /\ age[r] \in Nat
      BY QuoteBindingAssumption DEF TypeOK, Tick
    <2>2. age'[r] = age[r] + 1
      BY <2>1 DEF Tick, Disciplined
    <2>3. Fresh(snap[r], age[r])
      BY <2>1 DEF Recently, FetchedRecently
    <2> QED BY <2>1, <2>2, <2>3, TickSurvival DEF Fresh
  <1>2. CachedRecently'
    <2> SUFFICES ASSUME NEW i \in Instances, (cache[i].ok)'
                 PROVE  (/\ cache[i].version > 0
                         /\ cache[i].age <= CacheTtl => Fresh(cache[i].version, cache[i].age))'
      BY DEF CachedRecently
    <2>1. /\ cache[i].version \in 0..version
          /\ cache[i].age \in 0..(CacheTtl + 1) /\ CacheTtl + 1 \in Nat /\ CacheTtl \in Nat
      BY QuoteBindingAssumption DEF TypeOK
    <2>2. /\ cache'[i].version = cache[i].version
          /\ cache'[i].ok = cache[i].ok
          /\ cache'[i].age = Later(cache[i].age, CacheTtl + 1)
      <3>1. cache'[i] = [cache[i] EXCEPT !.age = Later(cache[i].age, CacheTtl + 1)]
        BY DEF Tick
      <3>2. cache[i] \in [version : 0..version, age : 0..(CacheTtl + 1), ok : BOOLEAN]
        BY DEF TypeOK
      <3> DEFINE t == Later(cache[i].age, CacheTtl + 1)
      <3>3. cache'[i] = [cache[i] EXCEPT !.age = t]
        BY <3>1
      <3> HIDE DEF t
      <3>4. cache'[i].version = cache[i].version /\ cache'[i].ok = cache[i].ok /\ cache'[i].age = t
        BY <3>2, <3>3
      <3> QED BY <3>4 DEF t
    <2>3. cache[i].version > 0
      BY <2>2 DEF Recently, CachedRecently
    <2>4. ASSUME cache'[i].age <= CacheTtl
          PROVE  Fresh(cache[i].version, cache[i].age) /\ cache'[i].age = cache[i].age + 1
      <3>1. cache[i].age <= CacheTtl /\ cache'[i].age = cache[i].age + 1
        BY <2>1, <2>2, <2>4 DEF Later
      <3> QED BY <2>2, <3>1 DEF Recently, CachedRecently
    <2> QED BY <2>1, <2>2, <2>3, <2>4, TickSurvival DEF Fresh
  <1>3. ReadRecently'
    BY DEF Tick, ReadRecently, TypeOK
  <1> QED BY <1>1, <1>2, <1>3 DEF Recently

----------------------------------------------------------------------------

Inductive == TypeOK /\ Disciplined /\ Recently

LEMMA InitInductive == Init => Inductive
  <1> SUFFICES ASSUME Init PROVE Inductive
    OBVIOUS
  <1>1. TypeOK /\ Disciplined
    BY InitType, InitDisciplined
  <1>2. Recently
    BY <1>1, ServedAt DEF Init, Recently, FetchedRecently, CachedRecently, ReadRecently, NewCache, Readers
  <1> QED BY <1>1, <1>2 DEF Inductive

LEMMA InductiveStep == Inductive /\ [Next]_vars => Inductive'
  <1> SUFFICES ASSUME TypeOK, Disciplined, Recently, [Next]_vars PROVE Inductive'
    BY DEF Inductive
  <1>1. CASE Edit \/ UNCHANGED vars
    <2>1. UNCHANGED <<cache, age, snap, phase, at>>
      BY <1>1 DEF Edit, vars, readVars, buyerVars
    <2>2. Survival
      BY <1>1, TableSurvival DEF vars, tableVars
    <2>3. Recently'
      BY <2>1, <2>2, Untouched DEF At
    <2> QED BY <2>3, TypeStep, DisciplinedStep DEF Inductive
  <1>2. CASE Tick
    BY <1>2, TickMoves, TypeStep, DisciplinedStep DEF Inductive
  <1>3. CASE \E r \in Readers : Resolution(r)
    BY <1>3, ResolutionMoves, TypeStep, DisciplinedStep DEF Inductive
  <1>4. CASE \E i \in Instances : ColdStart(i) \/ Restart(i)
    BY <1>4, ColdStartMoves, TypeStep, DisciplinedStep DEF Inductive
  <1>5. CASE \E b \in Buyers : Serve(b) \/ Buy(b)
    BY <1>5, BuyerMoves, TypeStep, DisciplinedStep DEF Inductive
  <1> QED BY <1>1, <1>2, <1>3, <1>4, <1>5 DEF Next

LEMMA InductiveImplies == Inductive => ServedRecently
  <1> SUFFICES ASSUME Inductive, NEW r \in Readers, MayRead(r), cache[At(r)].ok
               PROVE  Recent(cache[At(r)].version)
    BY DEF ServedRecently
  <1>1. CASE phase[r] = "read"
    BY <1>1 DEF Inductive, Recently, ReadRecently, Fresh, Recent
  <1>2. CASE phase[r] = "check" /\ cache[At(r)].age <= CacheTtl
    <2>1. At(r) \in Instances
      BY ServedAt DEF Inductive, MayRead
    <2>2. Fresh(cache[At(r)].version, cache[At(r)].age)
      BY <1>2, <2>1 DEF Inductive, Recently, CachedRecently
    <2>3. /\ cache[At(r)].version \in 0..version
          /\ cache[At(r)].age \in Nat
          /\ cache[At(r)].age <= Window
      BY <1>2, <2>1, QuoteBindingAssumption, WindowIsLonger DEF Inductive, TypeOK
    <2>4. Fresh(cache[At(r)].version, Window)
      BY <2>2, <2>3, WindowIsLonger, FreshWeakens DEF Inductive
    <2> QED BY <2>4 DEF Fresh, Recent
  <1> QED BY <1>1, <1>2 DEF MayRead

(* Unless its last refresh failed, an instance serves no value that was replaced
   longer ago than the time-to-live of the cache or, if that is longer, the
   time-outs of a fetch: overlapping refreshes, restarts and edits included. *)
THEOREM NothingStale == Spec => []ServedRecently
  BY InitInductive, InductiveStep, InductiveImplies, PTL DEF Spec

----------------------------------------------------------------------------
(* What the values of a task, and the quote made of them, look like. *)

Shaped ==
  /\ DOMAIN got = Readers /\ \A r \in Readers : DOMAIN got[r] = Names
  /\ DOMAIN offer = Buyers /\ DOMAIN ttl = Buyers /\ DOMAIN answer = Buyers
  /\ DOMAIN catalog = Instances

(* A task begins with the first parameter of its script. *)
Rested == \A r \in Readers : ~Reading(r) => step[r] = 1

(* Nobody is served by a process that is not up. *)
Hosted ==
  \A b \in Buyers :
    /\ pc[b] # "starting"
    /\ pc[b] \in {"quoting", "supported", "paying"} => at[b] \in Instances /\ pc[at[b]] = "up"

LEMMA NoneIsNoCode ==
  /\ \A t \in Int : None # t
  /\ None # "aborted" /\ None # "internal_error" /\ None # "ttl_too_short"
  /\ None # "payment_ttl_mismatch" /\ None # "payment_ttl_too_short"
  /\ None # "sla_hash_mismatch" /\ None # "accepted" /\ None # "payment_required"
  BY QuoteBindingAssumption

LEMMA QuotingScript ==
  /\ Len(Script["quoting"]) = 6
  /\ Script["quoting"][1] = "pay_to" /\ Script["quoting"][2] = "network"
  /\ Script["quoting"][3] = "timeout" /\ Script["quoting"][4] = "merchant"
  /\ Script["quoting"][5] = "beneficiary" /\ Script["quoting"][6] = "oracles"
  BY DEF Script

LEMMA StartingScript ==
  /\ Len(Script["starting"]) = 6
  /\ Script["starting"][1] = "catalog" /\ Script["starting"][2] = "pay_to"
  /\ Script["starting"][3] = "merchant" /\ Script["starting"][4] = "oracles"
  /\ Script["starting"][5] = "beneficiary" /\ Script["starting"][6] = "merchant"
  BY DEF Script

LEMMA PayingScript == Len(Script["paying"]) = 1 /\ Script["paying"][1] = "timeout"
  BY DEF Script

(* Every entry of a script is a parameter. *)
LEMMA ScriptNames ==
  ASSUME NEW task \in {"starting", "quoting", "paying"}, NEW k \in 1..Len(Script[task])
  PROVE  Script[task][k] \in Names
  <1>1. CASE task = "starting"
    <2>1. k \in {1, 2, 3, 4, 5, 6}
      BY <1>1, StartingScript
    <2> QED BY <1>1, <2>1, StartingScript DEF Names
  <1>2. CASE task = "quoting"
    <2>1. k \in {1, 2, 3, 4, 5, 6}
      BY <1>2, QuotingScript
    <2> QED BY <1>2, <2>1, QuotingScript DEF Names
  <1>3. CASE task = "paying"
    <2>1. k = 1
      BY <1>3, PayingScript
    <2> QED BY <1>3, <2>1, PayingScript DEF Names
  <1> QED BY <1>1, <1>2, <1>3

(* Taking a value changes that value and nothing else. *)
LEMMA GotShape ==
  ASSUME Shaped, NEW r \in Readers
  PROVE  /\ DOMAIN Got(r) = Names
         /\ Name(r) \in Names => Got(r)[Name(r)] = Value(r)
         /\ \A n \in Names : n # Name(r) => Got(r)[n] = got[r][n]
  BY DEF Shaped, Got

LEMMA InitShaped == Init => Shaped /\ Rested /\ Hosted
  BY QuoteBindingAssumption DEF Init, Shaped, Rested, Hosted, Readers, Nothing

LEMMA ShapedStep == TypeOK /\ Shaped /\ [Next]_vars => Shaped'
  <1> SUFFICES ASSUME TypeOK, Shaped, [Next]_vars PROVE Shaped'
    OBVIOUS
  <1>n. DOMAIN Nothing = Names
    BY DEF Nothing
  <1>1. ASSUME NEW r \in Readers, Resolution(r) PROVE Shaped'
    <2>1. CASE StartFetch(r) \/ Select(r)
      BY <2>1 DEF Shaped, StartFetch, Select, buyerVars
    <2>2. CASE StoreMap(r) \/ FetchFails(r)
      BY <2>2 DEF Shaped, StoreMap, FetchFails, FetchEnds, buyerVars
    <2>3. CASE ReadOn(r)
      <3>1. DOMAIN Got(r) = Names
        BY GotShape
      <3> QED BY <2>3, <3>1 DEF Shaped, ReadOn, buyerVars
    <2> QED BY <1>1, <2>1, <2>2, <2>3 DEF Resolution
  <1>2. ASSUME NEW i \in Instances, Down(i) PROVE Shaped'
    BY <1>2, <1>n DEF Shaped, Down, buyerVars
  <1>3. ASSUME NEW r \in Readers, NEW from, NEW to, NEW g, Finish(r, from, to, g), DOMAIN g = Names,
               DOMAIN answer' = Buyers
        PROVE  Shaped'
    BY <1>3 DEF Shaped, Finish
  <1>4. ASSUME NEW i \in Instances, ColdStart(i) \/ Restart(i) PROVE Shaped'
    <2> i \in Readers
      BY DEF Readers
    <2>1. CASE StartResolved(i)
      <3>1. DOMAIN Got(i) = Names /\ DOMAIN answer' = Buyers
        BY <2>1, GotShape DEF StartResolved, Shaped
      <3> QED BY <1>3, <2>1, <3>1 DEF StartResolved
    <2>2. CASE Boot(i) \/ MintsValid(i)
      BY <2>2 DEF Shaped, Boot, MintsValid, Begin, readVars, buyerVars
    <2>3. CASE Migrate(i)
      BY <2>3, <1>n DEF Shaped, Migrate, buyerVars
    <2> QED BY <1>2, <1>4, <2>1, <2>2, <2>3
            DEF ColdStart, StartAborts, MintsInvalid, MigrateFails, Restart
  <1>5. ASSUME NEW b \in Buyers, Serve(b) \/ Buy(b) PROVE Shaped'
    <2> b \in Readers
      BY DEF Readers
    <2>1. CASE QuoteRefused(b) \/ FacilitatorFails(b)
      BY <2>1, <1>n DEF Shaped, QuoteRefused, FacilitatorFails, Answer
    <2>2. CASE QuoteResolved(b)
      <3>1. DOMAIN Got(b) = Names /\ DOMAIN answer' = Buyers
        BY <2>2, GotShape DEF QuoteResolved, Shaped
      <3> QED BY <1>3, <2>2, <3>1 DEF QuoteResolved
    <2>3. CASE Quote(b)
      BY <2>3, <1>n DEF Shaped, Quote, Answer
    <2>4. CASE Judge(b)
      <3>1. DOMAIN answer' = Buyers
        BY <2>4 DEF Judge, Shaped
      <3> QED BY <1>3, <1>n, <2>4, <3>1 DEF Judge
    <2>5. ASSUME NEW i \in Instances, Ask(b, i) \/ Pay(b, i) PROVE Shaped'
      BY <2>5 DEF Shaped, Ask, Pay, Begin, readVars
    <2> QED BY <1>5, <2>1, <2>2, <2>3, <2>4, <2>5 DEF Serve, Buy
  <1>6. CASE Edit \/ Tick \/ UNCHANGED vars
    BY <1>6 DEF Shaped, Edit, Tick, vars, readVars, buyerVars
  <1> QED BY <1>1, <1>4, <1>5, <1>6 DEF Next

LEMMA RestedStep == TypeOK /\ Rested /\ [Next]_vars => Rested'
  <1> SUFFICES ASSUME TypeOK, Rested, [Next]_vars PROVE Rested'
    OBVIOUS
  <1>1. ASSUME NEW r \in Readers, Resolution(r) PROVE Rested'
    <2>1. CASE ReadOn(r)
      BY <2>1 DEF TypeOK, Rested, ReadOn, MayRead, Reading
    <2>2. CASE ~ReadOn(r)
      <3>1. UNCHANGED <<pc, step>>
        BY <1>1, <2>2 DEF Resolution, StartFetch, Select, StoreMap, FetchFails, FetchEnds
      <3> QED BY <3>1 DEF Rested, Reading
    <2> QED BY <2>1, <2>2
  <1>2. ASSUME NEW i \in Instances, Down(i) PROVE Rested'
    BY <1>2 DEF TypeOK, Rested, Down, Reading
  <1>3. ASSUME NEW r \in Readers, NEW from, NEW to, NEW g, Finish(r, from, to, g) PROVE Rested'
    BY <1>3 DEF TypeOK, Rested, Finish, Reading
  <1>4. ASSUME NEW i \in Instances, ColdStart(i) \/ Restart(i) PROVE Rested'
    <2> i \in Readers
      BY DEF Readers
    <2>1. CASE Boot(i) \/ MintsValid(i) \/ Migrate(i)
      BY <2>1 DEF TypeOK, Rested, Boot, MintsValid, Migrate, Begin, readVars, Reading
    <2> QED BY <1>2, <1>3, <1>4, <2>1
            DEF ColdStart, StartAborts, StartResolved, MintsInvalid, MigrateFails, Restart
  <1>5. ASSUME NEW b \in Buyers, Serve(b) \/ Buy(b) PROVE Rested'
    <2> b \in Readers
      BY DEF Readers
    <2>1. CASE QuoteRefused(b) \/ FacilitatorFails(b) \/ Quote(b)
      BY <2>1 DEF TypeOK, Rested, QuoteRefused, FacilitatorFails, Quote, Answer, Reading
    <2>2. ASSUME NEW i \in Instances, Ask(b, i) \/ Pay(b, i) PROVE Rested'
      BY <2>2 DEF TypeOK, Rested, Ask, Pay, Begin, readVars, Reading
    <2> QED BY <1>3, <1>5, <2>1, <2>2 DEF Serve, Buy, QuoteResolved, Judge
  <1>6. CASE Edit \/ Tick \/ UNCHANGED vars
    BY <1>6 DEF Rested, Edit, Tick, vars, readVars, Reading
  <1> QED BY <1>1, <1>4, <1>5, <1>6 DEF Next

LEMMA HostedStep == TypeOK /\ Hosted /\ [Next]_vars => Hosted'
  <1> SUFFICES ASSUME TypeOK, Hosted, [Next]_vars PROVE Hosted'
    OBVIOUS
  <1>k. Buyers \subseteq Readers /\ Instances \subseteq Readers /\ Buyers \intersect Instances = {}
    BY QuoteBindingAssumption DEF Readers
  <1>1. ASSUME NEW r \in Readers, Resolution(r) PROVE Hosted'
    BY <1>1 DEF Hosted, Resolution, StartFetch, Select, StoreMap, FetchFails, FetchEnds, ReadOn, buyerVars
  <1>2. ASSUME NEW i \in Instances, Down(i) PROVE Hosted'
    <2> SUFFICES ASSUME NEW b \in Buyers, pc'[b] \in {"quoting", "supported", "paying"}
                 PROVE  at'[b] \in Instances /\ pc'[at'[b]] = "up"
      BY <1>2, <1>k DEF Hosted, Down
    <2>1. pc[b] = pc'[b] /\ at'[b] = at[b] /\ at[b] # i
      BY <1>2, <1>k DEF TypeOK, Down, buyerVars
    <2>2. at[b] \in Instances /\ pc[at[b]] = "up"
      BY <2>1 DEF Hosted
    <2> QED BY <1>2, <1>k, <2>1, <2>2 DEF TypeOK, Down
  <1>4. ASSUME NEW i \in Instances, ColdStart(i) \/ Restart(i) PROVE Hosted'
    <2>1. CASE StartResolved(i)
      BY <2>1, <1>k DEF TypeOK, Hosted, StartResolved, Finish
    <2>2. CASE Boot(i) \/ MintsValid(i)
      BY <2>2, <1>k DEF TypeOK, Hosted, Boot, MintsValid, Begin, buyerVars
    <2>3. CASE Migrate(i)
      BY <2>3, <1>k DEF TypeOK, Hosted, Migrate, buyerVars
    <2> QED BY <1>2, <1>4, <2>1, <2>2, <2>3
            DEF ColdStart, StartAborts, MintsInvalid, MigrateFails, Restart
  <1>5. ASSUME NEW b \in Buyers, Serve(b) \/ Buy(b) PROVE Hosted'
    <2>1. CASE QuoteRefused(b) \/ FacilitatorFails(b) \/ Quote(b)
      BY <2>1, <1>k DEF TypeOK, Hosted, QuoteRefused, FacilitatorFails, Quote, Answer
    <2>2. CASE QuoteResolved(b) \/ Judge(b)
      BY <2>2, <1>k DEF TypeOK, Hosted, QuoteResolved, Judge, Finish
    <2>3. ASSUME NEW i \in Instances, Ask(b, i) \/ Pay(b, i) PROVE Hosted'
      BY <2>3, <1>k DEF TypeOK, Hosted, Ask, Pay, Begin
    <2> QED BY <1>5, <2>1, <2>2, <2>3 DEF Serve, Buy
  <1>6. CASE Edit \/ Tick \/ UNCHANGED vars
    BY <1>6 DEF Hosted, Edit, Tick, vars, buyerVars
  <1> QED BY <1>1, <1>4, <1>5, <1>6 DEF Next

----------------------------------------------------------------------------
(* Quotes that can be paid. *)

Refusals == {"payment_ttl_mismatch", "payment_ttl_too_short", "sla_hash_mismatch"}

LongEnough(t) == t # None /\ ~(t < MinTtl)

(* A time-out is checked before it is quoted, what was signed stays signed as
   long as an answer to it stands, and no answer calls a quote too short. *)
PayableOf(b) ==
  /\ (pc[b] = "quoting" /\ step[b] > 3) \/ pc[b] = "supported" => LongEnough(got[b]["timeout"])
  /\ offer[b] # None => LongEnough(offer[b].timeout)
  /\ pc[b] = "paying" => offer[b] # None /\ ttl[b] # None
  /\ answer[b] \in Refusals => ttl[b] # None
  /\ answer[b] = "payment_ttl_too_short" => ttl[b] # offer[b].timeout

Payable == \A b \in Buyers : PayableOf(b)

(* What a step of others leaves of a buyer's quote. *)
Untroubled(b) ==
  /\ UNCHANGED <<offer[b], ttl[b], answer[b]>>
  /\ pc'[b] \in {"quoting", "supported", "paying"} => UNCHANGED <<pc[b], step[b], got[b]>>

LEMMA UntroubledPays ==
  ASSUME NEW b \in Buyers, PayableOf(b), Untroubled(b)
  PROVE  PayableOf(b)'
  BY DEF PayableOf, Untroubled, LongEnough

LEMMA OneBuyerPays ==
  ASSUME Payable, NEW b \in Buyers,
         \A c \in Buyers : c # b => Untroubled(c), PayableOf(b)'
  PROVE  Payable'
  BY UntroubledPays DEF Payable

(* The default of an unset time-out is a number. *)
LEMMA TimeoutIsSet == ASSUME NEW map PROVE Resolved(map, "timeout") # None
  <1>1. ConfigTimeout # None
    BY NoneIsNoCode DEF ConfigTimeout
  <1> DEFINE v == Resolve(map, "timeout")
  <1>2. Resolved(map, "timeout") = IF v # None /\ v >= 0 THEN v ELSE ConfigTimeout
    BY DEF Resolved
  <1> HIDE DEF v
  <1> QED BY <1>1, <1>2

(* A quote goes on past its time-out only if that is long enough. *)
LEMMA QuotingOn ==
  ASSUME TypeOK, Shaped, Payable, NEW b \in Buyers, pc[b] = "quoting",
         Problem(b) = None, step[b] >= 3
  PROVE  LongEnough(Got(b)["timeout"])
  <1> b \in Readers
    BY DEF Readers
  <1>1. step[b] \in {3, 4, 5, 6}
    BY DEF TypeOK
  <1>2. "timeout" \in Names
    BY DEF Names
  <1>3. CASE step[b] = 3
    <2>1. Name(b) = "timeout"
      BY <1>3, QuotingScript DEF Name
    <2>2. Got(b)["timeout"] = Value(b)
      BY <1>2, <2>1, GotShape
    <2>3. Value(b) # None
      BY <2>1, TimeoutIsSet DEF Value
    <2>4. QuoteProblem(3, Got(b)) = None
      BY <1>3 DEF Problem
    <2>5. ~(Got(b)["timeout"] < MinTtl)
      BY <2>4, NoneIsNoCode DEF QuoteProblem
    <2> QED BY <2>2, <2>3, <2>5 DEF LongEnough
  <1>4. CASE step[b] \in {4, 5, 6}
    <2>1. Name(b) # "timeout"
      BY <1>4, QuotingScript DEF Name
    <2>2. Got(b)["timeout"] = got[b]["timeout"]
      BY <1>2, <2>1, GotShape
    <2> QED BY <1>4, <2>2 DEF Payable, PayableOf
  <1> QED BY <1>1, <1>3, <1>4

LEMMA PayableRefused ==
  ASSUME TypeOK, Shaped, Payable, NEW b \in Buyers, QuoteRefused(b)
  PROVE  PayableOf(b)'
  <1> b \in Readers
    BY DEF Readers
  <1>1. pc[b] = "quoting" /\ Problem(b) # None
    BY DEF QuoteRefused
  <1>2. Problem(b) \in {"internal_error", "ttl_too_short", None}
    BY <1>1 DEF Problem, QuoteProblem
  <1>3. /\ answer'[b] = Problem(b) /\ pc'[b] = "answered"
        /\ offer' = offer /\ ttl' = ttl
    BY DEF QuoteRefused, Answer, TypeOK, Shaped
  <1> QED BY <1>1, <1>2, <1>3 DEF Refusals, Payable, PayableOf, LongEnough

LEMMA PayableJudged ==
  ASSUME TypeOK, Shaped, Payable, NEW b \in Buyers, Judge(b)
  PROVE  PayableOf(b)'
  <1> b \in Readers
    BY DEF Readers
  <1>1. /\ pc[b] = "paying" /\ pc'[b] = "answered"
        /\ offer' = offer /\ ttl' = ttl /\ answer'[b] = Verdict(b)
    BY DEF Judge, Finish, TypeOK, Shaped
  <1>2. offer[b] # None /\ ttl[b] # None /\ LongEnough(offer[b].timeout)
    BY <1>1 DEF Payable, PayableOf
  <1>3. ASSUME Verdict(b) = "payment_ttl_too_short" PROVE ttl[b] # offer[b].timeout
    <2>1. ValidateTtl(ttl[b], Value(b)) = "payment_ttl_too_short"
      BY <1>3 DEF Verdict
    <2>2. ttl[b] < MinTtl
      BY <2>1 DEF ValidateTtl
    <2> QED BY <1>2, <2>2 DEF LongEnough
  <1> QED BY <1>1, <1>2, <1>3 DEF PayableOf, LongEnough

LEMMA PayableBuyer ==
  ASSUME TypeOK, Shaped, Rested, Payable, NEW b \in Buyers, Serve(b) \/ Buy(b)
  PROVE  Payable'
  <1> b \in Readers /\ PayableOf(b)
    BY DEF Readers, Payable
  <1>1. CASE QuoteRefused(b)
    <2>1. \A c \in Buyers : c # b => Untroubled(c)
      BY <1>1 DEF QuoteRefused, Answer, Untroubled, TypeOK, Shaped, Readers
    <2> QED BY <1>1, <2>1, PayableRefused, OneBuyerPays
  <1>2. CASE QuoteResolved(b)
    <2>1. /\ pc[b] = "quoting" /\ step[b] = 6 /\ Problem(b) = None
          /\ pc'[b] = "supported" /\ got'[b] = Got(b)
          /\ offer' = offer /\ ttl' = ttl /\ answer' = answer
      BY <1>2, QuotingScript DEF QuoteResolved, Finish, TypeOK, Shaped
    <2>2. \A c \in Buyers : c # b => Untroubled(c)
      BY <1>2 DEF QuoteResolved, Finish, Untroubled, TypeOK, Shaped, Readers
    <2>3. LongEnough(got'[b]["timeout"])
      BY <2>1, QuotingOn
    <2>4. PayableOf(b)'
      BY <2>1, <2>3 DEF PayableOf, LongEnough
    <2> QED BY <2>2, <2>4, OneBuyerPays
  <1>3. CASE Quote(b)
    <2>1. /\ pc[b] = "supported" /\ pc'[b] = "quoted" /\ answer'[b] = "payment_required"
          /\ offer'[b].timeout = got[b]["timeout"]
          /\ ttl' = ttl
      BY <1>3 DEF Quote, Answer, TypeOK, Shaped
    <2>2. \A c \in Buyers : c # b => Untroubled(c)
      BY <1>3 DEF Quote, Answer, Untroubled, TypeOK, Shaped, Readers
    <2>3. PayableOf(b)'
      BY <2>1 DEF PayableOf, LongEnough, Refusals
    <2> QED BY <2>2, <2>3, OneBuyerPays
  <1>4. CASE FacilitatorFails(b)
    <2>1. /\ pc'[b] = "answered" /\ answer'[b] = "internal_error"
          /\ offer' = offer /\ ttl' = ttl
      BY <1>4 DEF FacilitatorFails, Answer, TypeOK, Shaped
    <2>2. \A c \in Buyers : c # b => Untroubled(c)
      BY <1>4 DEF FacilitatorFails, Answer, Untroubled, TypeOK, Shaped, Readers
    <2>3. PayableOf(b)'
      BY <2>1 DEF PayableOf, LongEnough, Refusals
    <2> QED BY <2>2, <2>3, OneBuyerPays
  <1>5. CASE Judge(b)
    <2>1. \A c \in Buyers : c # b => Untroubled(c)
      BY <1>5 DEF Judge, Finish, Untroubled, TypeOK, Shaped, Readers
    <2> QED BY <1>5, <2>1, PayableJudged, OneBuyerPays
  <1>6. ASSUME NEW i \in Instances, Ask(b, i) PROVE Payable'
    <2>1. /\ ~Reading(b) /\ pc'[b] = "quoting" /\ step' = step
          /\ offer'[b] = None /\ answer'[b] = None
      BY <1>6 DEF Ask, Begin, Reading, readVars, TypeOK, Shaped
    <2>2. \A c \in Buyers : c # b => Untroubled(c)
      BY <1>6 DEF Ask, Begin, readVars, Untroubled, TypeOK, Shaped, Readers
    <2>3. step'[b] = 1
      BY <2>1 DEF Rested
    <2>4. answer'[b] \notin Refusals /\ answer'[b] # "payment_ttl_too_short"
      BY <2>1, NoneIsNoCode DEF Refusals
    <2>5. PayableOf(b)'
      BY <2>1, <2>3, <2>4 DEF PayableOf
    <2> QED BY <2>2, <2>5, OneBuyerPays
  <1>7. ASSUME NEW i \in Instances, Pay(b, i) PROVE Payable'
    <2>1. /\ pc'[b] = "paying"
          /\ offer' = offer /\ answer' = answer /\ offer[b] # None
          /\ ttl[b] # None => ttl'[b] = ttl[b]
          /\ ttl[b] = None => ttl'[b] \in TtlChoices \union {offer[b].timeout}
      BY <1>7 DEF Pay, Begin, TypeOK, Shaped
    <2>2. \A c \in Buyers : c # b => Untroubled(c)
      BY <1>7 DEF Pay, Begin, readVars, Untroubled, TypeOK, Shaped, Readers
    <2>3. LongEnough(offer[b].timeout)
      BY <2>1 DEF PayableOf
    <2>4. ttl'[b] # None
      <3>1. None \notin TtlChoices
        <4>1. None \notin Int /\ TtlChoices \subseteq Nat
          BY QuoteBindingAssumption
        <4>2. Nat \subseteq Int
          OBVIOUS
        <4> QED BY <4>1, <4>2, Zenon
      <3> QED BY <2>1, <2>3, <3>1 DEF LongEnough
    <2>5. answer[b] = "payment_ttl_too_short" => ttl'[b] # offer[b].timeout
      BY <2>1 DEF PayableOf, Refusals
    <2>6. PayableOf(b)'
      BY <2>1, <2>3, <2>4, <2>5 DEF PayableOf, LongEnough
    <2> QED BY <2>2, <2>6, OneBuyerPays
  <1> QED BY <1>1, <1>2, <1>3, <1>4, <1>5, <1>6, <1>7 DEF Serve, Buy

LEMMA PayableStep ==
  TypeOK /\ Shaped /\ Rested /\ Payable /\ [Next]_vars => Payable'
  <1> SUFFICES ASSUME TypeOK, Shaped, Rested, Payable, [Next]_vars PROVE Payable'
    OBVIOUS
  <1>k. /\ Buyers \subseteq Readers /\ Instances \subseteq Readers
        /\ Buyers \intersect Instances = {}
    BY QuoteBindingAssumption DEF Readers
  <1>0. ASSUME \A b \in Buyers : Untroubled(b) PROVE Payable'
    BY <1>0, UntroubledPays DEF Payable
  <1>1. ASSUME NEW r \in Readers, Resolution(r) PROVE Payable'
    <2>1. CASE ReadOn(r)
      <3>1. /\ Problem(r) = None /\ step' = [step EXCEPT ![r] = @ + 1]
            /\ got' = [got EXCEPT ![r] = Got(r)]
            /\ pc' = pc /\ offer' = offer /\ ttl' = ttl /\ answer' = answer
        BY <2>1 DEF ReadOn, buyerVars
      <3>2. CASE r \in Instances
        BY <1>0, <1>k, <3>1, <3>2 DEF Untroubled, TypeOK, Shaped
      <3>3. CASE r \in Buyers
        <4>1. ASSUME pc[r] = "quoting", step'[r] > 3 PROVE LongEnough(got'[r]["timeout"])
          <5>1. step[r] >= 3 /\ got'[r] = Got(r)
            BY <3>1, <4>1, <1>k DEF TypeOK, Shaped
          <5> QED BY <3>1, <3>3, <4>1, <5>1, QuotingOn
        <4>2. pc[r] # "supported"
          BY <2>1 DEF ReadOn, MayRead, Reading
        <4>3. PayableOf(r)'
          BY <3>1, <3>3, <4>1, <4>2 DEF Payable, PayableOf, LongEnough
        <4>4. \A b \in Buyers : b # r => Untroubled(b)
          BY <3>1, <1>k DEF TypeOK, Shaped, Untroubled
        <4> QED BY <3>3, <4>3, <4>4, OneBuyerPays
      <3> QED BY <3>2, <3>3 DEF Readers
    <2>2. CASE ~ReadOn(r)
      BY <1>0, <1>1, <2>2 DEF Resolution, Untroubled, StartFetch, Select, StoreMap, FetchFails, FetchEnds, buyerVars
    <2> QED BY <2>1, <2>2
  <1>2. ASSUME NEW i \in Instances, Down(i) PROVE Payable'
    BY <1>0, <1>2, <1>k DEF Untroubled, Down, buyerVars, TypeOK
  <1>4. ASSUME NEW i \in Instances, ColdStart(i) \/ Restart(i) PROVE Payable'
    <2>1. CASE StartResolved(i)
      BY <1>0, <1>k, <2>1 DEF Untroubled, StartResolved, Finish, TypeOK, Shaped
    <2>2. CASE Boot(i) \/ MintsValid(i)
      BY <1>0, <1>k, <2>2 DEF Untroubled, Boot, MintsValid, Begin, readVars, buyerVars, TypeOK, Shaped
    <2>3. CASE Migrate(i)
      BY <1>0, <1>k, <2>3 DEF Untroubled, Migrate, buyerVars, TypeOK, Shaped
    <2> QED BY <1>2, <1>4, <2>1, <2>2, <2>3
            DEF ColdStart, StartAborts, MintsInvalid, MigrateFails, Restart
  <1>5. ASSUME NEW b \in Buyers, Serve(b) \/ Buy(b) PROVE Payable'
    BY <1>5, PayableBuyer
  <1>6. CASE Edit \/ Tick \/ UNCHANGED vars
    BY <1>0, <1>6 DEF Untroubled, Edit, Tick, vars, readVars, buyerVars
  <1> QED BY <1>1, <1>4, <1>5, <1>6 DEF Next

LEMMA InitPayable == Init => Payable
  <1> SUFFICES ASSUME Init PROVE Payable
    OBVIOUS
  <1>1. \A b \in Buyers : pc[b] = "idle" /\ offer[b] = None /\ answer[b] = None
    BY QuoteBindingAssumption DEF Init, Readers
  <1> QED BY <1>1, NoneIsNoCode DEF Payable, PayableOf, Refusals

(* Every quote can be paid: none is refused at payment for a time-out that was
   too short when it was quoted, whatever becomes of the parameters. *)
THEOREM QuotesPayable == Spec => []QuotesLongEnough
  <1> DEFINE Inv == TypeOK /\ Shaped /\ Rested /\ Payable
  <1>1. Init => Inv
    BY InitType, InitShaped, InitPayable
  <1>2. Inv /\ [Next]_vars => Inv'
    BY TypeStep, ShapedStep, RestedStep, PayableStep
  <1>3. Inv => QuotesLongEnough
    BY DEF Payable, PayableOf, QuotesLongEnough
  <1> QED BY <1>1, <1>2, <1>3, PTL DEF Spec

----------------------------------------------------------------------------
(* What a table that is left alone promises. *)

(* What the table makes of a parameter now, and of the payout account. *)
Current(n) == Resolved(history[version], n)
PayoutNow  == Payout([n \in Names |-> Resolved(history[version], n)])

(* As long as no fetch fails, whoever reads a cache reads a fetched map. *)
Stocked ==
  /\ \A i \in Instances : cache[i].ok \/ cache[i].age > CacheTtl
  /\ \A r \in Readers : phase[r] = "read" => cache[At(r)].ok

(* Where no edit came near a task, there is one version left to be served. *)
CalmIsQuiet == \A r \in Readers : calm[r] => Quiet

LEMMA InitStocked == Init => Stocked /\ CalmIsQuiet
  BY QuoteBindingAssumption DEF Init, Stocked, CalmIsQuiet, NewCache, At, Readers

LEMMA StockedStep ==
  ASSUME "db" \notin Faults, TypeOK, Disciplined, Hosted, Stocked, [Next]_vars
  PROVE  Stocked'
  <1>k. /\ Buyers \subseteq Readers /\ Instances \subseteq Readers
        /\ Buyers \intersect Instances = {}
    BY QuoteBindingAssumption DEF Readers
  <1>0. ASSUME cache' = cache,
               \A r \in Readers : phase'[r] = "read" => phase[r] = "read" /\ At(r)' = At(r)
        PROVE  Stocked'
    BY <1>0 DEF Stocked
  <1>1. ASSUME NEW r \in Readers, Resolution(r) PROVE Stocked'
    <2>1. CASE StoreMap(r)
      <3>1. At(r) \in Instances
        BY <2>1, ServedAt DEF StoreMap
      <3>2. /\ cache'[At(r)].ok
            /\ \A i \in Instances : i # At(r) => cache'[i] = cache[i]
            /\ \A q \in Readers : q # r => phase'[q] = phase[q]
            /\ \A q : At(q)' = At(q)
        BY <2>1, <3>1 DEF StoreMap, FetchEnds, At, buyerVars, TypeOK
      <3>3. ASSUME NEW q \in Readers, phase'[q] = "read" PROVE cache'[At(q)'].ok
        <4>1. CASE At(q) = At(r)
          BY <3>2, <4>1
        <4>2. CASE At(q) # At(r)
          <5>1. phase[q] = "read"
            BY <3>2, <3>3, <4>2
          <5>2. At(q) \in Instances
            BY <5>1, ServedAt DEF Disciplined
          <5> QED BY <3>2, <4>2, <5>1, <5>2 DEF Stocked
        <4> QED BY <4>1, <4>2
      <3>4. \A i \in Instances : cache'[i].ok \/ cache'[i].age > CacheTtl
        BY <3>2 DEF Stocked
      <3> QED BY <3>3, <3>4 DEF Stocked
    <2>2. CASE StartFetch(r) \/ Select(r) \/ ReadOn(r)
      BY <1>0, <2>2 DEF StartFetch, Select, ReadOn, At, buyerVars, TypeOK
    <2> QED BY <1>1, <2>1, <2>2 DEF Resolution, FetchFails
  <1>2. ASSUME NEW i \in Instances, Down(i) PROVE Stocked'
    <2>1. \A j \in Instances : cache'[j].ok \/ cache'[j].age > CacheTtl
      BY <1>2, QuoteBindingAssumption DEF Down, NewCache, Stocked, TypeOK
    <2>2. ASSUME NEW q \in Readers, phase'[q] = "read" PROVE cache'[At(q)'].ok
      <3>1. phase[q] = "read" /\ At(q)' = At(q) /\ Reading(q)
        BY <1>2, <2>2 DEF Down, At, buyerVars, Disciplined
      <3>2. At(q) # i
        BY <1>2, <1>k, <2>2, <3>1 DEF Down, At, Reading, Hosted, Readers
      <3>3. At(q) \in Instances
        BY <3>1, ServedAt
      <3> QED BY <1>2, <3>1, <3>2, <3>3 DEF Down, Stocked, TypeOK
    <2> QED BY <2>1, <2>2 DEF Stocked
  <1>3. ASSUME NEW r \in Readers, NEW from, NEW to, NEW g, Finish(r, from, to, g) PROVE Stocked'
    BY <1>0, <1>3 DEF Finish, At, TypeOK
  <1>4. ASSUME NEW i \in Instances, ColdStart(i) \/ Restart(i) PROVE Stocked'
    <2> i \in Readers
      BY <1>k
    <2>1. CASE Boot(i) \/ MintsValid(i) \/ Migrate(i)
      BY <1>0, <2>1 DEF Boot, MintsValid, Migrate, Begin, readVars, buyerVars, At
    <2> QED BY <1>2, <1>3, <1>4, <2>1
            DEF ColdStart, StartAborts, StartResolved, MintsInvalid, MigrateFails, Restart
  <1>5. ASSUME NEW b \in Buyers, Serve(b) \/ Buy(b) PROVE Stocked'
    <2> b \in Readers
      BY <1>k
    <2>1. CASE QuoteRefused(b) \/ FacilitatorFails(b) \/ Quote(b)
      BY <1>0, <2>1 DEF QuoteRefused, FacilitatorFails, Quote, Answer, At, TypeOK
    <2>2. ASSUME NEW i \in Instances, Ask(b, i) \/ Pay(b, i) PROVE Stocked'
      <3>1. /\ UNCHANGED <<cache, phase>> /\ at' = [at EXCEPT ![b] = i] /\ ~Reading(b)
        BY <2>2 DEF Ask, Pay, Begin, Reading, readVars
      <3> QED BY <1>0, <3>1 DEF At, TypeOK, Disciplined, Readers
    <2> QED BY <1>3, <1>5, <2>1, <2>2 DEF Serve, Buy, QuoteResolved, Judge
  <1>6. CASE Tick
    <2>1. ASSUME NEW i \in Instances PROVE cache'[i].ok \/ cache'[i].age > CacheTtl
      <3>1. cache'[i] = [cache[i] EXCEPT !.age = Later(cache[i].age, CacheTtl + 1)]
        BY <1>6 DEF Tick
      <3>2. /\ cache[i] \in [version : 0..version, age : 0..(CacheTtl + 1), ok : BOOLEAN]
            /\ CacheTtl \in Nat
        BY QuoteBindingAssumption DEF TypeOK
      <3> DEFINE t == Later(cache[i].age, CacheTtl + 1)
      <3>3. cache[i].age > CacheTtl => t > CacheTtl
        BY <3>2 DEF Later
      <3>4. cache'[i] = [cache[i] EXCEPT !.age = t]
        BY <3>1
      <3> HIDE DEF t
      <3>5. cache'[i].ok = cache[i].ok /\ cache'[i].age = t
        BY <3>2, <3>4
      <3> QED BY <3>3, <3>5 DEF Stocked
    <2>2. \A r \in Readers : phase'[r] # "read"
      BY <1>6 DEF Tick
    <2> QED BY <2>1, <2>2 DEF Stocked
  <1>7. CASE Edit \/ UNCHANGED vars
    BY <1>0, <1>7 DEF Edit, vars, readVars, buyerVars, At
  <1> QED BY <1>1, <1>4, <1>5, <1>6, <1>7 DEF Next

(* What a step may do to the table. *)
TableStill == UNCHANGED <<history, version>>

LEMMA QuietLasts ==
  ASSUME TypeOK, Quiet, UNCHANGED tableVars \/ Tick
  PROVE  Quiet'
  <1>1. CASE UNCHANGED tableVars
    BY <1>1 DEF Quiet, tableVars
  <1>2. CASE Tick
    <2>1. /\ version' = version /\ version \in Versions
          /\ \A v \in 1..(version - 1) : v \in Versions /\ v < version
      BY <1>2, QuoteBindingAssumption DEF Tick, TypeOK, Versions
    <2>2. ASSUME NEW v \in 1..(version - 1) PROVE retired'[v] > Window
      <3>1. retired'[v] = Later(retired[v], Window + 1)
        BY <1>2, <2>1 DEF Tick
      <3>2. retired[v] > Window /\ retired[v] \in 0..(Window + 1) /\ Window \in Nat
        BY <2>1, WindowIsLonger DEF Quiet, TypeOK
      <3> QED BY <3>1, <3>2 DEF Later
    <2> QED BY <2>1, <2>2 DEF Quiet
  <1> QED BY <1>1, <1>2

LEMMA CalmIsQuietStep ==
  ASSUME TypeOK, CalmIsQuiet, [Next]_vars
  PROVE  CalmIsQuiet'
  <1>k. Buyers \subseteq Readers /\ Instances \subseteq Readers
    BY DEF Readers
  <1>0. ASSUME UNCHANGED tableVars \/ Tick,
               \A r \in Readers : calm'[r] => calm[r] \/ Quiet
        PROVE  CalmIsQuiet'
    BY <1>0, QuietLasts DEF CalmIsQuiet
  <1>1. ASSUME NEW t, Install(t) PROVE CalmIsQuiet'
    BY <1>1 DEF Install, CalmIsQuiet
  <1>2. ASSUME NEW r \in Readers, Resolution(r) PROVE CalmIsQuiet'
    BY <1>0, <1>2
    DEF Resolution, StartFetch, Select, StoreMap, FetchFails, FetchEnds, ReadOn
  <1>3. ASSUME NEW i \in Instances, ColdStart(i) \/ Restart(i) PROVE CalmIsQuiet'
    <2>1. CASE Boot(i)
      BY <1>0, <1>k, <2>1 DEF Boot, TypeOK
    <2>2. CASE UNCHANGED <<tableVars, calm>>
      BY <1>0, <2>2
    <2>3. CASE StartResolved(i) \/ MintsValid(i)
      BY <1>0, <2>3 DEF StartResolved, Finish, MintsValid
    <2> QED BY <1>1, <1>3, <2>1, <2>2, <2>3
            DEF ColdStart, StartAborts, MintsInvalid, MigrateFails, Restart, Migrate, Seed
  <1>4. ASSUME NEW b \in Buyers, Serve(b) \/ Buy(b) PROVE CalmIsQuiet'
    <2>1. ASSUME NEW i \in Instances, Ask(b, i) \/ Pay(b, i) PROVE CalmIsQuiet'
      BY <1>0, <1>k, <2>1 DEF Ask, Pay, TypeOK
    <2>2. CASE Serve(b)
      BY <1>0, <2>2
      DEF Serve, QuoteRefused, QuoteResolved, Quote, FacilitatorFails, Judge, Finish
    <2> QED BY <1>4, <2>1, <2>2 DEF Buy
  <1>5. CASE Tick \/ UNCHANGED vars
    BY <1>0, <1>5 DEF Tick, vars
  <1> QED BY <1>1, <1>2, <1>3, <1>4, <1>5 DEF Next, Edit

(* A calm task takes what the table says now. *)
LEMMA CalmReadsCurrent ==
  ASSUME Inductive, Stocked, CalmIsQuiet, NEW r \in Readers, MayRead(r), calm[r]
  PROVE  Value(r) = Current(Name(r))
  <1> DEFINE v == cache[At(r)].version
  <1>1. At(r) \in Instances
    BY ServedAt DEF Inductive, MayRead
  <1>2. /\ cache[At(r)] \in [version : 0..version, age : 0..(CacheTtl + 1), ok : BOOLEAN]
        /\ version \in Versions /\ CacheTtl \in Nat /\ MaxVersions \in Nat
    BY <1>1, QuoteBindingAssumption DEF Inductive, TypeOK
  <1>3. cache[At(r)].ok
    BY <1>1, <1>2 DEF Stocked, MayRead
  <1>4. Recent(v)
    BY <1>3, InductiveImplies DEF ServedRecently
  <1>5. v = version
    <2>1. ASSUME v # version PROVE FALSE
      <3>1. v \in 1..(version - 1)
        BY <1>2, <1>4, <2>1 DEF Recent, Versions
      <3>2. retired[v] > Window
        BY <3>1 DEF CalmIsQuiet, Quiet
      <3>3. retired[v] <= Window /\ retired[v] \in Int /\ Window \in Int
        BY <1>2, <1>4, <2>1, <3>1, WindowIsLonger DEF Recent, Inductive, TypeOK, Versions
      <3> QED BY <3>2, <3>3
    <2> QED BY <2>1
  <1>6. version # 0
    BY <1>2 DEF Versions
  <1> QED BY <1>5, <1>6 DEF Value, MapOf, Current

----------------------------------------------------------------------------
(* A task nobody disturbs holds what the table says. *)
SteadyTask(r) ==
  calm[r] =>
    /\ pc[r] \in {"starting", "quoting"} =>
         \A k \in 1..6 : k < step[r] =>
           got[r][Script[pc[r]][k]] = Current(Script[pc[r]][k])
    /\ pc[r] = "supported" =>
         \A n \in {"network", "timeout", "merchant", "beneficiary"} : got[r][n] = Current(n)
    /\ pc[r] \in {"mints", "migrating"} => got[r]["catalog"] = Current("catalog")

(* An instance nobody disturbed since it started checked the payout account of
   this table, and serves its catalog. *)
SteadyStart(i) ==
  calm[i] =>
    /\ pc[i] \in {"mints", "migrating", "up"} => PayoutNow = SignerKey
    /\ pc[i] = "up" => catalog[i] = Current("catalog")

(* So do the quotes of such an instance, and so are they judged. *)
SteadyOffer(b) ==
  /\ offer[b] # None /\ calm[b] =>
       /\ offer[b].timeout = Current("timeout")
       /\ offer[b].calm => offer[b].catalog = Current("catalog")
  /\ offer[b] # None /\ offer[b].calm => offer[b].payout = SignerKey
  /\ pc[b] = "quoted" /\ calm[b] =>
       /\ offer[b]["network"] = Current("network")
       /\ offer[b]["timeout"] = Current("timeout")
       /\ offer[b].payout = PayoutNow
  /\ pc[b] = "paying" /\ calm[b] => calm[at[b]]
  /\ /\ answer[b] \in Refusals
     /\ ttl[b] = offer[b].timeout
     /\ Cluster(offer[b].network) = Cluster(ConfigNetwork)
     => ~(calm[b] /\ offer[b].calm)

Steady ==
  /\ \A r \in Readers : SteadyTask(r)
  /\ \A i \in Instances : SteadyStart(i)
  /\ \A b \in Buyers : SteadyOffer(b)

(* The invariant as a whole: what the checks of the code see of the table. *)
Settled ==
  /\ Inductive
  /\ Shaped /\ Rested /\ Hosted /\ Payable
  /\ Stocked /\ CalmIsQuiet
  /\ Steady

----------------------------------------------------------------------------
(* Steps that leave things as they are. *)

LEMMA StillCurrent ==
  ASSUME TableStill
  PROVE  (\A n : Current(n)' = Current(n)) /\ PayoutNow' = PayoutNow
  BY DEF TableStill, Current, PayoutNow

LEMMA TaskStays ==
  ASSUME TableStill, NEW r \in Readers, SteadyTask(r), calm'[r] => calm[r],
         pc'[r] \in {"starting", "quoting", "supported", "mints", "migrating"} =>
           UNCHANGED <<pc[r], step[r], got[r]>>
  PROVE  SteadyTask(r)'
  BY StillCurrent DEF SteadyTask

LEMMA StartStays ==
  ASSUME TableStill, NEW i \in Instances, SteadyStart(i), calm'[i] => calm[i],
         pc'[i] \in {"mints", "migrating", "up"} => UNCHANGED <<pc[i], catalog[i]>>
  PROVE  SteadyStart(i)'
  BY StillCurrent DEF SteadyStart

LEMMA OfferStays ==
  ASSUME TableStill, NEW b \in Buyers, SteadyOffer(b), calm'[b] => calm[b],
         UNCHANGED <<offer[b], ttl[b], answer[b]>>,
         pc'[b] = "quoted" => pc[b] = "quoted",
         pc'[b] = "paying" => pc[b] = "paying" /\ calm'[at[b]] = calm[at[b]] /\ at'[b] = at[b]
  PROVE  SteadyOffer(b)'
  BY StillCurrent DEF SteadyOffer

(* An edit ends every calm; the quotes given out before are as they were. *)
LEMMA SteadyAfterEdit ==
  ASSUME Shaped, Steady, NEW t, Install(t), UNCHANGED offer
  PROVE  Steady'
  <1>1. \A r \in Readers : ~calm'[r]
    BY DEF Install
  <1>2. \A r \in Readers : SteadyTask(r)'
    BY <1>1 DEF SteadyTask
  <1>3. \A i \in Instances : SteadyStart(i)'
    BY <1>1 DEF SteadyStart, Readers
  <1>4. \A b \in Buyers : SteadyOffer(b)'
    BY <1>1 DEF Steady, SteadyOffer, Readers
  <1> QED BY <1>2, <1>3, <1>4 DEF Steady

----------------------------------------------------------------------------
(* Resolving. *)

LEMMA SteadyReadOn ==
  ASSUME Settled, NEW r \in Readers, ReadOn(r)
  PROVE  SteadyTask(r)'
  <1>1. /\ MayRead(r) /\ pc' = pc /\ calm' = calm /\ TableStill
        /\ got'[r] = Got(r) /\ step'[r] = step[r] + 1
        /\ step[r] \in 1..6 /\ step[r] < Len(Script[pc[r]])
        /\ pc[r] \in {"starting", "quoting", "paying"}
    BY DEF ReadOn, MayRead, Reading, TableStill, tableVars, Settled, Inductive, TypeOK, Shaped
  <1>2. SUFFICES ASSUME calm[r], pc[r] \in {"starting", "quoting"},
                        NEW k \in 1..6, k < step[r] + 1
                 PROVE  Got(r)[Script[pc[r]][k]] = Current(Script[pc[r]][k])
    BY <1>1, StillCurrent DEF SteadyTask
  <1>3. Len(Script[pc[r]]) = 6
    BY <1>2, StartingScript, QuotingScript
  <1>4. Script[pc[r]][k] \in Names
    BY <1>2, <1>3, ScriptNames
  <1>5. CASE Script[pc[r]][k] = Name(r)
    <2>1. Value(r) = Current(Name(r))
      BY <1>1, <1>2, CalmReadsCurrent DEF Settled
    <2>2. Got(r)[Name(r)] = Value(r)
      BY <1>4, <1>5, GotShape DEF Settled
    <2> QED BY <1>5, <2>1, <2>2
  <1>6. CASE Script[pc[r]][k] # Name(r)
    <2>1. k # step[r]
      BY <1>6 DEF Name
    <2>2. k < step[r]
      BY <1>1, <1>2, <2>1
    <2>3. got[r][Script[pc[r]][k]] = Current(Script[pc[r]][k])
      BY <1>2, <2>2 DEF Settled, Steady, SteadyTask
    <2> QED BY <1>4, <1>6, <2>3, GotShape DEF Settled
  <1> QED BY <1>5, <1>6

(* At the last parameter, all are known. *)
LEMMA SteadyLast ==
  ASSUME Settled, NEW r \in Readers, MayRead(r), calm[r],
         pc[r] \in {"starting", "quoting"}, step[r] = 6, NEW k \in 1..6
  PROVE  Got(r)[Script[pc[r]][k]] = Current(Script[pc[r]][k])
  <1>1. Len(Script[pc[r]]) = 6
    BY StartingScript, QuotingScript
  <1>2. Script[pc[r]][k] \in Names
    BY <1>1, ScriptNames
  <1>3. CASE Script[pc[r]][k] = Name(r)
    <2>1. Value(r) = Current(Name(r))
      BY CalmReadsCurrent DEF Settled
    <2>2. Got(r)[Name(r)] = Value(r)
      BY <1>2, <1>3, GotShape DEF Settled
    <2> QED BY <1>3, <2>1, <2>2
  <1>4. CASE Script[pc[r]][k] # Name(r)
    <2>1. k < step[r]
      BY <1>4 DEF Name
    <2>2. got[r][Script[pc[r]][k]] = Current(Script[pc[r]][k])
      BY <2>1 DEF Settled, Steady, SteadyTask
    <2> QED BY <1>2, <1>4, <2>2, GotShape DEF Settled
  <1> QED BY <1>3, <1>4

LEMMA SteadyQuoted ==
  ASSUME Settled, NEW r \in Readers, MayRead(r), calm[r], pc[r] = "quoting", step[r] = 6
  PROVE  \A n \in {"network", "timeout", "merchant", "beneficiary"} : Got(r)[n] = Current(n)
  <1>1. \A k \in 1..6 : Got(r)[Script["quoting"][k]] = Current(Script["quoting"][k])
    BY SteadyLast
  <1> QED BY <1>1, QuotingScript

LEMMA SteadyStarted ==
  ASSUME Settled, NEW r \in Readers, MayRead(r), calm[r], pc[r] = "starting", step[r] = 6
  PROVE  \A n \in {"catalog", "merchant", "beneficiary"} : Got(r)[n] = Current(n)
  <1>1. \A k \in 1..6 : Got(r)[Script["starting"][k]] = Current(Script["starting"][k])
    BY SteadyLast
  <1> QED BY <1>1, StartingScript

(* The payout account of values that agree with the table is the table's. *)
LEMMA PayoutAgrees ==
  ASSUME NEW g, g["merchant"] = Current("merchant"), g["beneficiary"] = Current("beneficiary")
  PROVE  Payout(g) = PayoutNow
  <1> DEFINE now == [n \in Names |-> Resolved(history[version], n)]
  <1>1. now["merchant"] = Current("merchant") /\ now["beneficiary"] = Current("beneficiary")
    BY DEF Names, Current
  <1>2. PayoutNow = Payout(now)
    BY DEF PayoutNow
  <1> HIDE DEF now
  <1> QED BY <1>1, <1>2 DEF Payout

----------------------------------------------------------------------------
(* Steps of one reader among all. *)

LEMMA SteadyResolution ==
  ASSUME Settled, NEW r \in Readers, Resolution(r)
  PROVE  Steady'
  <1>1. /\ TableStill /\ calm' = calm /\ pc' = pc /\ UNCHANGED <<catalog, at, offer, ttl, answer>>
    BY DEF Resolution, StartFetch, Select, StoreMap, FetchFails, FetchEnds, ReadOn,
           TableStill, tableVars, buyerVars
  <1>2. \A i \in Instances : SteadyStart(i)'
    BY <1>1, StartStays DEF Settled, Steady
  <1>3. \A b \in Buyers : SteadyOffer(b)'
    BY <1>1, OfferStays DEF Settled, Steady
  <1>4. ASSUME NEW q \in Readers PROVE SteadyTask(q)'
    <2>1. CASE q = r /\ ReadOn(r)
      BY <2>1, SteadyReadOn
    <2>2. CASE ~(q = r /\ ReadOn(r))
      <3>1. UNCHANGED <<step[q], got[q]>>
        BY <2>2 DEF Resolution, StartFetch, Select, StoreMap, FetchFails, FetchEnds, ReadOn,
                    Settled, Inductive, TypeOK, Shaped
      <3>2. SteadyTask(q)
        BY DEF Settled, Steady
      <3> QED BY <1>1, <3>1, <3>2, TaskStays
    <2> QED BY <2>1, <2>2
  <1> QED BY <1>2, <1>3, <1>4 DEF Steady

LEMMA SteadyDown ==
  ASSUME Settled, NEW i \in Instances, Down(i), TableStill, calm' = calm
  PROVE  Steady'
  <1>k. /\ Buyers \subseteq Readers /\ Instances \subseteq Readers
        /\ Buyers \intersect Instances = {}
    BY QuoteBindingAssumption DEF Readers
  <1>1. ASSUME NEW r \in Readers PROVE SteadyTask(r)'
    <2>1. pc'[r] \in {"starting", "quoting", "supported", "mints", "migrating"} =>
            UNCHANGED <<pc[r], step[r], got[r]>>
      BY DEF Down
    <2>2. SteadyTask(r)
      BY DEF Settled, Steady
    <2> QED BY <2>1, <2>2, TaskStays
  <1>2. ASSUME NEW j \in Instances PROVE SteadyStart(j)'
    <2>1. pc'[j] \in {"mints", "migrating", "up"} => UNCHANGED <<pc[j], catalog[j]>>
      BY <1>k DEF Down, Settled, Shaped
    <2>2. SteadyStart(j)
      BY DEF Settled, Steady
    <2> QED BY <2>1, <2>2, StartStays
  <1>3. ASSUME NEW b \in Buyers PROVE SteadyOffer(b)'
    <2>1. pc'[b] \in {"quoted", "paying"} => pc'[b] = pc[b]
      BY <1>k DEF Down
    <2>2. SteadyOffer(b)
      BY DEF Settled, Steady
    <2> QED BY <2>1, <2>2, OfferStays DEF Down, buyerVars
  <1> QED BY <1>1, <1>2, <1>3 DEF Steady

LEMMA SteadyBoot ==
  ASSUME Settled, NEW i \in Instances, Boot(i)
  PROVE  Steady'
  <1>k. /\ Buyers \subseteq Readers /\ Instances \subseteq Readers
        /\ Buyers \intersect Instances = {}
    BY QuoteBindingAssumption DEF Readers
  <1>1. /\ TableStill /\ UNCHANGED <<catalog, at, offer, ttl, answer, step, got>>
        /\ pc[i] = "down" /\ pc'[i] = "starting"
        /\ \A r \in Readers : r # i => UNCHANGED <<pc[r], calm[r]>>
    BY <1>k DEF Boot, Begin, TableStill, tableVars, readVars, buyerVars, Settled, Inductive, TypeOK
  <1>2. ASSUME NEW r \in Readers PROVE SteadyTask(r)'
    <2>1. CASE r = i
      <3>1. step'[i] = 1
        BY <1>1, <1>k DEF Settled, Rested, Reading
      <3> QED BY <1>1, <2>1, <3>1 DEF SteadyTask
    <2>2. CASE r # i
      <3>1. SteadyTask(r)
        BY DEF Settled, Steady
      <3> QED BY <1>1, <2>2, <3>1, TaskStays
    <2> QED BY <2>1, <2>2
  <1>3. ASSUME NEW j \in Instances PROVE SteadyStart(j)'
    <2>1. CASE j = i
      BY <1>1, <2>1 DEF SteadyStart
    <2>2. CASE j # i
      <3>1. SteadyStart(j)
        BY DEF Settled, Steady
      <3> QED BY <1>1, <1>k, <2>2, <3>1, StartStays
    <2> QED BY <2>1, <2>2
  <1>4. ASSUME NEW b \in Buyers PROVE SteadyOffer(b)'
    <2>1. SteadyOffer(b) /\ b # i /\ b \in Readers
      BY <1>k DEF Settled, Steady
    <2>2. pc[b] = "paying" => at[b] # i /\ at[b] \in Readers
      BY <1>1, <1>k DEF Settled, Hosted
    <2> QED BY <1>1, <2>1, <2>2, OfferStays
  <1> QED BY <1>2, <1>3, <1>4 DEF Steady

LEMMA SteadyStartResolved ==
  ASSUME Settled, NEW i \in Instances, StartResolved(i)
  PROVE  Steady'
  <1>k. /\ Buyers \subseteq Readers /\ Instances \subseteq Readers
        /\ Buyers \intersect Instances = {}
    BY QuoteBindingAssumption DEF Readers
  <1>1. /\ TableStill /\ UNCHANGED <<catalog, at, offer, ttl, answer, calm>>
        /\ MayRead(i) /\ Problem(i) = None /\ step[i] = 6
        /\ pc[i] = "starting" /\ pc'[i] = "mints" /\ got'[i] = Got(i)
        /\ \A r \in Readers : r # i => UNCHANGED <<pc[r], step[r], got[r]>>
    BY <1>k, StartingScript
    DEF StartResolved, Finish, TableStill, tableVars, Settled, Inductive, TypeOK, Shaped
  <1>2. ASSUME NEW r \in Readers PROVE SteadyTask(r)'
    <2>1. CASE r = i
      <3>1. calm[i] => Got(i)["catalog"] = Current("catalog")
        BY <1>1, <1>k, SteadyStarted
      <3> QED BY <1>1, <2>1, <3>1, StillCurrent DEF SteadyTask
    <2>2. CASE r # i
      <3>1. SteadyTask(r)
        BY DEF Settled, Steady
      <3> QED BY <1>1, <2>2, <3>1, TaskStays
    <2> QED BY <2>1, <2>2
  <1>3. ASSUME NEW j \in Instances PROVE SteadyStart(j)'
    <2>1. CASE j = i
      <3>1. calm[i] => Payout(Got(i)) = PayoutNow
        BY <1>1, <1>k, SteadyStarted, PayoutAgrees
      <3>2. StartProblem(6, Got(i)) = None
        BY <1>1 DEF Problem
      <3>3. Payout(Got(i)) = SignerKey
        BY <3>2, NoneIsNoCode DEF StartProblem
      <3> QED BY <1>1, <2>1, <3>1, <3>3, StillCurrent DEF SteadyStart
    <2>2. CASE j # i
      <3>1. SteadyStart(j)
        BY DEF Settled, Steady
      <3> QED BY <1>1, <1>k, <2>2, <3>1, StartStays
    <2> QED BY <2>1, <2>2
  <1>4. ASSUME NEW b \in Buyers PROVE SteadyOffer(b)'
    <2>1. SteadyOffer(b) /\ b # i /\ b \in Readers
      BY <1>k DEF Settled, Steady
    <2> QED BY <1>1, <2>1, OfferStays
  <1> QED BY <1>2, <1>3, <1>4 DEF Steady

LEMMA SteadyMints ==
  ASSUME Settled, NEW i \in Instances, MintsValid(i)
  PROVE  Steady'
  <1>k. /\ Buyers \subseteq Readers /\ Instances \subseteq Readers
        /\ Buyers \intersect Instances = {}
    BY QuoteBindingAssumption DEF Readers
  <1>1. /\ TableStill /\ UNCHANGED <<catalog, at, offer, ttl, answer, calm, step, got>>
        /\ pc[i] = "mints" /\ pc'[i] = "migrating"
        /\ \A r \in Readers : r # i => UNCHANGED pc[r]
    BY <1>k
    DEF MintsValid, TableStill, tableVars, readVars, buyerVars, Settled, Inductive, TypeOK
  <1>2. ASSUME NEW r \in Readers PROVE SteadyTask(r)'
    <2>1. SteadyTask(r)
      BY DEF Settled, Steady
    <2>2. CASE r = i
      BY <1>1, <2>1, <2>2, StillCurrent DEF SteadyTask
    <2>3. CASE r # i
      BY <1>1, <2>1, <2>3, TaskStays
    <2> QED BY <2>2, <2>3
  <1>3. ASSUME NEW j \in Instances PROVE SteadyStart(j)'
    <2>1. SteadyStart(j)
      BY DEF Settled, Steady
    <2>2. CASE j = i
      BY <1>1, <2>1, <2>2, StillCurrent DEF SteadyStart
    <2>3. CASE j # i
      BY <1>1, <1>k, <2>1, <2>3, StartStays
    <2> QED BY <2>2, <2>3
  <1>4. ASSUME NEW b \in Buyers PROVE SteadyOffer(b)'
    <2>1. SteadyOffer(b) /\ b # i /\ b \in Readers
      BY <1>k DEF Settled, Steady
    <2> QED BY <1>1, <2>1, OfferStays
  <1> QED BY <1>2, <1>3, <1>4 DEF Steady

(* An instance whose migration changed nothing serves the catalog of the table. *)
LEMMA SteadyMigrate ==
  ASSUME Settled, NEW i \in Instances, Migrate(i)
  PROVE  Steady'
  <1>k. /\ Buyers \subseteq Readers /\ Instances \subseteq Readers
        /\ Buyers \intersect Instances = {}
    BY QuoteBindingAssumption DEF Readers
  <1>1. CASE Install(Seeded)
    BY <1>1, SteadyAfterEdit DEF Migrate, buyerVars, Settled
  <1>2. CASE UNCHANGED <<tableVars, calm>>
    <2>1. /\ TableStill /\ UNCHANGED <<at, offer, ttl, answer, calm, step>>
          /\ pc[i] = "migrating" /\ pc'[i] = "up" /\ catalog'[i] = got[i]["catalog"]
          /\ \A r \in Readers : r # i => UNCHANGED <<pc[r], got[r]>>
          /\ \A j \in Instances : j # i => UNCHANGED catalog[j]
      BY <1>k, <1>2
      DEF Migrate, TableStill, tableVars, buyerVars, Settled, Inductive, TypeOK, Shaped
    <2>2. ASSUME NEW r \in Readers PROVE SteadyTask(r)'
      <3>1. SteadyTask(r)
        BY DEF Settled, Steady
      <3>2. CASE r = i
        BY <2>1, <3>2 DEF SteadyTask
      <3>3. CASE r # i
        BY <2>1, <3>1, <3>3, TaskStays
      <3> QED BY <3>2, <3>3
    <2>3. ASSUME NEW j \in Instances PROVE SteadyStart(j)'
      <3>1. SteadyStart(j) /\ SteadyTask(j)
        BY <1>k DEF Settled, Steady
      <3>2. CASE j = i
        <4>1. calm[i] => PayoutNow = SignerKey /\ got[i]["catalog"] = Current("catalog")
          BY <2>1, <3>1, <3>2 DEF SteadyStart, SteadyTask
        <4> QED BY <2>1, <3>2, <4>1, StillCurrent DEF SteadyStart
      <3>3. CASE j # i
        BY <2>1, <1>k, <3>1, <3>3, StartStays
      <3> QED BY <3>2, <3>3
    <2>4. ASSUME NEW b \in Buyers PROVE SteadyOffer(b)'
      <3>1. SteadyOffer(b) /\ b # i /\ b \in Readers
        BY <1>k DEF Settled, Steady
      <3> QED BY <2>1, <3>1, OfferStays
    <2> QED BY <2>2, <2>3, <2>4 DEF Steady
  <1> QED BY <1>1, <1>2 DEF Migrate, Seed

LEMMA SteadyColdStart ==
  ASSUME Settled, NEW i \in Instances, ColdStart(i) \/ Restart(i)
  PROVE  Steady'
  <1>1. ASSUME Down(i), UNCHANGED <<tableVars, calm>> PROVE Steady'
    BY <1>1, SteadyDown DEF TableStill, tableVars
  <1>2. ASSUME Down(i), Install(Seeded) PROVE Steady'
    BY <1>2, SteadyAfterEdit DEF Down, buyerVars, Settled
  <1> QED BY <1>1, <1>2, SteadyBoot, SteadyStartResolved, SteadyMints, SteadyMigrate
          DEF ColdStart, StartAborts, MintsInvalid, MigrateFails, Restart, Seed

----------------------------------------------------------------------------
(* Steps of a buyer's request. *)

(* Of all readers, only this buyer is concerned. *)
LEMMA OneBuyerSteady ==
  ASSUME Settled, TableStill, NEW b \in Buyers,
         \A r \in Readers : r # b => UNCHANGED <<pc[r], calm[r], step[r], got[r]>>,
         \A c \in Buyers : c # b => UNCHANGED <<at[c], offer[c], ttl[c], answer[c]>>,
         UNCHANGED catalog, SteadyTask(b)', SteadyOffer(b)'
  PROVE  Steady'
  <1>k. /\ Buyers \subseteq Readers /\ Instances \subseteq Readers
        /\ Buyers \intersect Instances = {}
    BY QuoteBindingAssumption DEF Readers
  <1>1. ASSUME NEW r \in Readers PROVE SteadyTask(r)'
    <2>1. SteadyTask(r)
      BY DEF Settled, Steady
    <2>2. CASE r # b
      BY <2>1, <2>2, TaskStays
    <2> QED BY <2>2
  <1>2. ASSUME NEW i \in Instances PROVE SteadyStart(i)'
    <2>1. SteadyStart(i) /\ i # b /\ i \in Readers
      BY <1>k DEF Settled, Steady
    <2> QED BY <2>1, StartStays
  <1>3. ASSUME NEW c \in Buyers PROVE SteadyOffer(c)'
    <2>1. SteadyOffer(c) /\ c \in Readers
      BY <1>k DEF Settled, Steady
    <2>2. CASE c # b
      <3>1. pc[c] = "paying" => at[c] # b /\ at[c] \in Readers
        BY <1>k DEF Settled, Hosted
      <3> QED BY <2>1, <2>2, <3>1, OfferStays
    <2> QED BY <2>2
  <1> QED BY <1>1, <1>2, <1>3 DEF Steady

LEMMA SteadyRefused ==
  ASSUME Settled, NEW b \in Buyers, QuoteRefused(b) \/ FacilitatorFails(b)
  PROVE  Steady'
  <1> b \in Readers /\ SteadyOffer(b)
    BY DEF Readers, Settled, Steady
  <1>1. /\ TableStill /\ UNCHANGED <<catalog, at, offer, ttl, calm>>
        /\ pc'[b] = "answered"
        /\ answer'[b] \in {"internal_error", "ttl_too_short", None}
        /\ \A r \in Readers : r # b => UNCHANGED <<pc[r], step[r], got[r]>>
        /\ \A c \in Buyers : c # b => UNCHANGED answer[c]
    BY DEF QuoteRefused, FacilitatorFails, Answer, Problem, QuoteProblem,
           TableStill, tableVars, Settled, Inductive, TypeOK, Shaped
  <1>2. SteadyTask(b)'
    BY <1>1 DEF SteadyTask
  <1>3. SteadyOffer(b)'
    <2>1. answer'[b] \notin Refusals
      BY <1>1, NoneIsNoCode DEF Refusals
    <2> QED BY <1>1, <2>1, StillCurrent DEF SteadyOffer
  <1> QED BY <1>1, <1>2, <1>3, OneBuyerSteady

LEMMA SteadyQuoteResolved ==
  ASSUME Settled, NEW b \in Buyers, QuoteResolved(b)
  PROVE  Steady'
  <1> b \in Readers /\ SteadyOffer(b)
    BY DEF Readers, Settled, Steady
  <1>1. /\ TableStill /\ UNCHANGED <<catalog, at, offer, ttl, answer, calm>>
        /\ MayRead(b) /\ step[b] = 6
        /\ pc[b] = "quoting" /\ pc'[b] = "supported" /\ got'[b] = Got(b)
        /\ \A r \in Readers : r # b => UNCHANGED <<pc[r], step[r], got[r]>>
    BY QuotingScript
    DEF QuoteResolved, Finish, TableStill, tableVars, Settled, Inductive, TypeOK, Shaped
  <1>2. SteadyTask(b)'
    <2>1. calm[b] => \A n \in {"network", "timeout", "merchant", "beneficiary"} :
                       Got(b)[n] = Current(n)
      BY <1>1, SteadyQuoted
    <2> QED BY <1>1, <2>1, StillCurrent DEF SteadyTask
  <1>3. SteadyOffer(b)'
    BY <1>1, OfferStays
  <1> QED BY <1>1, <1>2, <1>3, OneBuyerSteady

LEMMA SteadyQuote ==
  ASSUME Settled, NEW b \in Buyers, Quote(b)
  PROVE  Steady'
  <1>k. /\ Buyers \subseteq Readers /\ Instances \subseteq Readers
        /\ Buyers \intersect Instances = {}
    BY QuoteBindingAssumption DEF Readers
  <1> b \in Readers /\ SteadyTask(b)
    BY DEF Readers, Settled, Steady
  <1>1. /\ TableStill /\ UNCHANGED <<catalog, at, ttl, calm>>
        /\ pc[b] = "supported" /\ pc'[b] = "quoted" /\ answer'[b] = "payment_required"
        /\ offer'[b].network = got[b]["network"] /\ offer'[b].timeout = got[b]["timeout"]
        /\ offer'[b].payout = Payout(got[b]) /\ offer'[b].catalog = catalog[at[b]]
        /\ offer'[b].calm = (calm[b] /\ calm[at[b]])
        /\ offer'[b]["network"] = got[b]["network"] /\ offer'[b]["timeout"] = got[b]["timeout"]
        /\ \A r \in Readers : r # b => UNCHANGED <<pc[r], step[r], got[r]>>
        /\ \A c \in Buyers : c # b => UNCHANGED <<offer[c], answer[c]>>
    BY DEF Quote, Answer, TableStill, tableVars, Settled, Inductive, TypeOK, Shaped
  <1>2. SteadyTask(b)'
    BY <1>1 DEF SteadyTask
  <1>3. calm[b] => /\ got[b]["network"] = Current("network")
                   /\ got[b]["timeout"] = Current("timeout")
                   /\ Payout(got[b]) = PayoutNow
    BY <1>1, PayoutAgrees DEF SteadyTask
  <1>4. calm[at[b]] => catalog[at[b]] = Current("catalog") /\ PayoutNow = SignerKey
    BY <1>1 DEF Settled, Steady, Hosted, SteadyStart
  <1>5. SteadyOffer(b)'
    BY <1>1, <1>3, <1>4, StillCurrent DEF SteadyOffer, Refusals
  <1> QED BY <1>1, <1>2, <1>5, OneBuyerSteady

LEMMA SteadyAsk ==
  ASSUME Settled, NEW b \in Buyers, NEW i \in Instances, Ask(b, i)
  PROVE  Steady'
  <1> b \in Readers
    BY DEF Readers
  <1>1. /\ TableStill /\ UNCHANGED <<catalog, step, got>>
        /\ ~Reading(b) /\ pc'[b] = "quoting" /\ offer'[b] = None /\ answer'[b] = None
        /\ \A r \in Readers : r # b => UNCHANGED <<pc[r], calm[r]>>
        /\ \A c \in Buyers : c # b => UNCHANGED <<at[c], offer[c], ttl[c], answer[c]>>
    BY DEF Ask, Begin, Reading, readVars, TableStill, tableVars, Settled, Inductive, TypeOK, Shaped
  <1>2. SteadyTask(b)'
    <2>1. step'[b] = 1
      BY <1>1 DEF Settled, Rested
    <2> QED BY <1>1, <2>1 DEF SteadyTask
  <1>3. SteadyOffer(b)'
    BY <1>1, NoneIsNoCode DEF SteadyOffer, Refusals
  <1> QED BY <1>1, <1>2, <1>3, OneBuyerSteady

LEMMA SteadyPay ==
  ASSUME Settled, NEW b \in Buyers, NEW i \in Instances, Pay(b, i)
  PROVE  Steady'
  <1>k. /\ Buyers \subseteq Readers /\ Instances \subseteq Readers
        /\ Buyers \intersect Instances = {}
    BY QuoteBindingAssumption DEF Readers
  <1> b \in Readers /\ SteadyOffer(b) /\ PayableOf(b)
    BY DEF Readers, Settled, Steady, Payable
  <1>1. /\ TableStill /\ UNCHANGED <<catalog, step, got, offer, answer>>
        /\ pc'[b] = "paying" /\ at'[b] = i
        /\ ttl[b] # None => ttl'[b] = ttl[b]
        /\ calm'[b] = (calm[b] /\ calm[i]) /\ calm'[i] = calm[i]
        /\ \A r \in Readers : r # b => UNCHANGED <<pc[r], calm[r]>>
        /\ \A c \in Buyers : c # b => UNCHANGED <<at[c], ttl[c]>>
    BY <1>k DEF Pay, Begin, readVars, TableStill, tableVars, Settled, Inductive, TypeOK, Shaped
  <1>2. SteadyTask(b)'
    BY <1>1 DEF SteadyTask
  <1>3. answer[b] \in Refusals => ttl'[b] = ttl[b]
    BY <1>1 DEF PayableOf
  <1>4. SteadyOffer(b)'
    BY <1>1, <1>3, StillCurrent DEF SteadyOffer
  <1> QED BY <1>1, <1>2, <1>4, OneBuyerSteady

LEMMA SteadyJudge ==
  ASSUME Settled, NEW b \in Buyers, Judge(b)
  PROVE  Steady'
  <1> b \in Readers /\ SteadyOffer(b) /\ PayableOf(b)
    BY DEF Readers, Settled, Steady, Payable
  <1>1. /\ TableStill /\ UNCHANGED <<catalog, at, offer, ttl, calm>>
        /\ MayRead(b) /\ step[b] = 1
        /\ pc[b] = "paying" /\ pc'[b] = "answered" /\ answer'[b] = Verdict(b)
        /\ \A r \in Readers : r # b => UNCHANGED <<pc[r], step[r], got[r]>>
        /\ \A c \in Buyers : c # b => UNCHANGED answer[c]
    BY PayingScript
    DEF Judge, Finish, TableStill, tableVars, Settled, Inductive, TypeOK, Shaped
  <1>2. SteadyTask(b)'
    BY <1>1 DEF SteadyTask
  <1>3. ASSUME calm[b], offer[b].calm, ttl[b] = offer[b].timeout,
               Cluster(offer[b].network) = Cluster(ConfigNetwork)
        PROVE  Verdict(b) = "accepted"
    <2>1. offer[b] # None /\ LongEnough(offer[b].timeout)
      BY <1>1 DEF PayableOf
    <2>2. Value(b) = Current("timeout")
      <3>1. Name(b) = "timeout"
        BY <1>1, PayingScript DEF Name
      <3> QED BY <1>1, <1>3, <3>1, CalmReadsCurrent DEF Settled
    <2>3. ttl[b] = Value(b) /\ ~(ttl[b] < MinTtl)
      BY <1>3, <2>1, <2>2 DEF SteadyOffer, LongEnough
    <2>4. ValidateTtl(ttl[b], Value(b)) = "accepted"
      BY <2>3 DEF ValidateTtl
    <2>5. catalog[at[b]] = offer[b].catalog
      <3>1. calm[at[b]] /\ at[b] \in Instances /\ pc[at[b]] = "up"
        BY <1>1, <1>3 DEF SteadyOffer, Settled, Hosted
      <3>2. catalog[at[b]] = Current("catalog")
        BY <3>1 DEF Settled, Steady, SteadyStart
      <3>3. offer[b].catalog = Current("catalog")
        BY <1>3, <2>1 DEF SteadyOffer
      <3> QED BY <3>2, <3>3
    <2>6. SlaHash(ConfigNetwork, catalog[at[b]]) = SlaHash(offer[b].network, offer[b].catalog)
      BY <1>3, <2>5 DEF SlaHash
    <2> QED BY <2>4, <2>6 DEF Verdict
  <1>4. SteadyOffer(b)'
    BY <1>1, <1>3, StillCurrent DEF SteadyOffer, Refusals
  <1> QED BY <1>1, <1>2, <1>4, OneBuyerSteady

LEMMA SteadyStep == Settled /\ [Next]_vars => Steady'
  <1> SUFFICES ASSUME Settled, [Next]_vars PROVE Steady'
    OBVIOUS
  <1>1. CASE \E r \in Readers : Resolution(r)
    BY <1>1, SteadyResolution
  <1>2. CASE \E i \in Instances : ColdStart(i) \/ Restart(i)
    BY <1>2, SteadyColdStart
  <1>3. CASE \E b \in Buyers : Serve(b) \/ Buy(b)
    BY <1>3, SteadyRefused, SteadyQuoteResolved, SteadyQuote, SteadyJudge, SteadyAsk, SteadyPay
    DEF Serve, Buy
  <1>4. CASE Edit
    BY <1>4, SteadyAfterEdit DEF Edit, buyerVars, Settled
  <1>5. CASE Tick \/ UNCHANGED vars
    <2>1. TableStill /\ UNCHANGED <<calm, pc, step, got, catalog, at, offer, ttl, answer>>
      BY <1>5 DEF Tick, vars, tableVars, readVars, buyerVars, TableStill
    <2>2. \A r \in Readers : SteadyTask(r)'
      BY <2>1, TaskStays DEF Settled, Steady
    <2>3. \A i \in Instances : SteadyStart(i)'
      BY <2>1, StartStays DEF Settled, Steady
    <2>4. \A b \in Buyers : SteadyOffer(b)'
      BY <2>1, OfferStays DEF Settled, Steady
    <2> QED BY <2>2, <2>3, <2>4 DEF Steady
  <1> QED BY <1>1, <1>2, <1>3, <1>4, <1>5 DEF Next

LEMMA InitSettled == Init => Settled
  <1> SUFFICES ASSUME Init PROVE Settled
    OBVIOUS
  <1>1. Steady
    <2>1. /\ \A r \in Readers : ~calm[r]
          /\ \A b \in Buyers : b \in Readers /\ offer[b] = None /\ answer[b] = None
          /\ \A i \in Instances : i \in Readers
      BY DEF Init, Readers
    <2> QED BY <2>1, NoneIsNoCode DEF Steady, SteadyTask, SteadyStart, SteadyOffer, Refusals
  <1> QED BY <1>1, InitInductive, InitShaped, InitPayable, InitStocked DEF Settled

LEMMA SettledStep ==
  ASSUME "db" \notin Faults
  PROVE  Settled /\ [Next]_vars => Settled'
  <1> SUFFICES ASSUME Settled, [Next]_vars PROVE Settled'
    OBVIOUS
  <1>1. Inductive'
    BY InductiveStep DEF Settled
  <1>2. Shaped' /\ Rested' /\ Hosted' /\ Payable'
    BY ShapedStep, RestedStep, HostedStep, PayableStep DEF Settled, Inductive
  <1>3. Stocked' /\ CalmIsQuiet'
    BY StockedStep, CalmIsQuietStep DEF Settled, Inductive
  <1>4. Steady'
    BY SteadyStep
  <1> QED BY <1>1, <1>2, <1>3, <1>4 DEF Settled

LEMMA SettledAlways ==
  ASSUME "db" \notin Faults
  PROVE  Spec => []Settled
  BY InitSettled, SettledStep, PTL DEF Spec

----------------------------------------------------------------------------

(* If the table was left alone and no fetch failed, a quote is the table's,
   whole, however many instances and buyers there are. *)
THEOREM QuotesAreCurrent ==
  ASSUME "db" \notin Faults
  PROVE  Spec => []CalmQuotesCurrent
  <1>1. Settled => CalmQuotesCurrent
    <2> SUFFICES ASSUME Settled, NEW b \in Buyers, pc[b] = "quoted", calm[b]
                 PROVE  /\ \A n \in {"network", "timeout"} :
                             offer[b][n] = Resolved(history[version], n)
                        /\ offer[b].payout =
                             Payout([n \in Names |-> Resolved(history[version], n)])
      BY DEF CalmQuotesCurrent
    <2>1. SteadyOffer(b)
      BY DEF Settled, Steady
    <2> QED BY <2>1 DEF SteadyOffer, Current, PayoutNow
  <1> QED BY <1>1, SettledAlways, PTL

(* A payment for such a quote, judged while the table is still left alone, is
   not refused, whichever instance judges it. *)
THEOREM PaymentsAreAccepted ==
  ASSUME "db" \notin Faults
  PROVE  Spec => []CalmPaymentsAccepted
  <1>1. Settled => CalmPaymentsAccepted
    BY DEF Settled, Steady, SteadyOffer, CalmPaymentsAccepted, Refusals
  <1> QED BY <1>1, SettledAlways, PTL

(* The account such a quote names is the one SubmitDelivery signs for. *)
THEOREM PayoutIsSigned ==
  ASSUME "db" \notin Faults
  PROVE  Spec => []CalmPayoutSigned
  <1>1. Settled => CalmPayoutSigned
    BY DEF Settled, Steady, SteadyOffer, CalmPayoutSigned
  <1> QED BY <1>1, SettledAlways, PTL
============================================================================
