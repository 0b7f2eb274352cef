--------------------------- MODULE ShowcaseProofs ---------------------------
(***************************************************************************)
(* Overlapping refreshes show no stock older than themselves, for any      *)
(* number of items, refreshes and sales.                                   *)
(*                                                                         *)
(* Refreshes write one array without waiting for each other, so what a     *)
(* refresh has stored may be overwritten before it draws.  What matters is *)
(* that whatever overwrites it was read since the page was last quiet:     *)
(* below the item a running refresh is at, everything is that fresh, no    *)
(* matter whose answer it is.                                              *)
(***************************************************************************)
EXTENDS Showcase, TLAPS

LEMMA CountFacts == Count \in Nat /\ Count >= 1 /\ 1 \in Items /\ Count \in Items
  BY ShowcaseAssumption DEF Items

LEMMA NothingType == Nothing \in Readings /\ Asked \in Calls
  BY DEF Nothing, Readings, Asked, Calls

LEMMA AnswersType ==
  ASSUME TypeOK, NEW i \in Items, NEW a \in Answers(i)
  PROVE  a \in Readings /\ a.asOf = now
  BY DEF TypeOK, Answers, Readings

LEMMA InitType == Init => TypeOK
<1> SUFFICES ASSUME Init PROVE TypeOK
  OBVIOUS
<1>1. [pc |-> "unused", item |-> 1, got |-> Nothing] \in RefreshStates
  BY CountFacts, NothingType DEF RefreshStates
<1>2. stock \in [Items -> Nat]
  BY ShowcaseAssumption DEF Init, Items
<1> QED
  BY <1>1, <1>2, NothingType DEF Init, TypeOK

-----------------------------------------------------------------------------
(* The next item of a refresh, or the first again once it is over. *)
LEMMA StoredType ==
  ASSUME TypeOK, NEW r \in Refreshes, RefreshStores(r)
  PROVE  /\ refresh'[r] \in RefreshStates
         /\ LastItem(r) => refresh'[r].pc = "over" /\ refresh'[r].item = 1
         /\ ~LastItem(r) => refresh'[r].pc = "asked" /\ refresh'[r].item = refresh[r].item + 1
<1>1. refresh[r].item \in Items
  BY DEF TypeOK, RefreshStates
<1>2. refresh'[r] = [pc |-> IF LastItem(r) THEN "over" ELSE "asked",
                     item |-> IF LastItem(r) THEN 1 ELSE refresh[r].item + 1, got |-> Nothing]
  BY DEF TypeOK, RefreshStores
<1>3. ~LastItem(r) => refresh[r].item + 1 \in Items
  BY <1>1, CountFacts DEF LastItem, Items
<1>4. CASE LastItem(r)
  BY <1>2, <1>4, CountFacts, NothingType DEF RefreshStates
<1>5. CASE ~LastItem(r)
  BY <1>2, <1>3, <1>5, NothingType DEF RefreshStates
<1> QED
  BY <1>4, <1>5

LEMMA LoadingType ==
  ASSUME TypeOK, NEW i \in Items, Loading(i) \/ MetadataBody(i) \/ Sale(i)
  PROVE  TypeOK'
<1> USE DEF TypeOK
<1>1. CASE MetadataEnds(i) \/ MetadataProceeds(i) \/ MetadataBody(i)
  BY <1>1 DEF MetadataEnds, MetadataProceeds, MetadataBody
<1>2. CASE FirstRead(i)
  <2>1. PICK a \in Answers(i) : call' = [call EXCEPT ![i] = [pc |-> "read", got |-> a]]
    BY <1>2 DEF FirstRead
  <2>2. [pc |-> "read", got |-> a] \in Calls
    BY AnswersType DEF Calls
  <2> QED
    BY <1>2, <2>1, <2>2 DEF FirstRead
<1>3. CASE FirstAnswer(i)
  <2>1. [call[i] EXCEPT !.pc = "over"] \in Calls
    BY DEF Calls
  <2> QED
    BY <1>3, <2>1 DEF FirstAnswer
<1>4. CASE Sale(i)
  <2>1. stock[i] - 1 \in Nat /\ now + 1 \in Nat
    BY <1>4 DEF Sale
  <2> QED
    BY <1>4, <2>1 DEF Sale
<1> QED
  BY <1>1, <1>2, <1>3, <1>4 DEF Loading

LEMMA RefreshType ==
  ASSUME TypeOK, NEW r \in Refreshes,
         (\E i \in Items : Buy(r, i)) \/ CloseSheet(r) \/ Refreshing(r)
  PROVE  TypeOK'
<1> USE DEF TypeOK
<1>1. CASE \E i \in Items : Buy(r, i)
  <2>1. [refresh[r] EXCEPT !.pc = "shopping"] \in RefreshStates
    BY DEF RefreshStates
  <2> QED
    BY <1>1, <2>1 DEF Buy
<1>2. CASE CloseSheet(r)
  <2>1. [refresh[r] EXCEPT !.pc = "asked"] \in RefreshStates
    BY DEF RefreshStates
  <2> QED
    BY <1>2, <2>1 DEF CloseSheet
<1>3. CASE NodeReads(r)
  <2>1. refresh[r].item \in Items
    BY DEF RefreshStates
  <2>2. PICK a \in Answers(refresh[r].item) :
          refresh' = [refresh EXCEPT ![r].pc = "read", ![r].got = a]
    BY <1>3 DEF NodeReads
  <2>3. a \in Readings
    BY <2>1, AnswersType
  <2>4. [[refresh[r] EXCEPT !.pc = "read"] EXCEPT !.got = a] \in RefreshStates
    BY <2>3 DEF RefreshStates
  <2> QED
    BY <1>3, <2>2, <2>4 DEF NodeReads
<1>4. CASE RefreshStores(r)
  <2>1. refresh'[r] \in RefreshStates
    BY <1>4, StoredType
  <2>2. refresh[r].item \in Items /\ refresh[r].got \in Readings
    BY DEF RefreshStates
  <2>3. enriched' \in [Items -> Readings]
    BY <1>4, <2>2 DEF RefreshStores
  <2>4. cards' \in [Items -> Readings]
    BY <1>4, <2>3 DEF RefreshStores
  <2>5. refresh' \in [Refreshes -> RefreshStates]
    BY <1>4, <2>1 DEF RefreshStores
  <2> QED
    BY <1>4, <2>3, <2>4, <2>5 DEF RefreshStores
<1> QED
  BY <1>1, <1>2, <1>3, <1>4 DEF Refreshing

LEMMA NextType == TypeOK /\ [Next]_vars => TypeOK'
<1> SUFFICES ASSUME TypeOK, [Next]_vars PROVE TypeOK'
  OBVIOUS
<1>1. CASE LoadFails \/ CatalogArrives \/ EndpointResolved \/ UNCHANGED vars
  BY <1>1 DEF TypeOK, LoadFails, CatalogArrives, EndpointResolved, vars
<1>2. CASE OpenShop
  <2>1. enriched' \in [Items -> Readings]
    BY <1>2 DEF TypeOK, OpenShop, Calls
  <2> QED
    BY <1>2, <2>1 DEF TypeOK, OpenShop
<1>3. CASE \E i \in Items : Loading(i) \/ MetadataBody(i) \/ Sale(i)
  BY <1>3, LoadingType
<1>4. CASE \E r \in Refreshes :
             (\E i \in Items : Buy(r, i)) \/ CloseSheet(r) \/ Refreshing(r)
  BY <1>4, RefreshType
<1> QED
  BY <1>1, <1>2, <1>3, <1>4 DEF Next

(* Readings, places in the refresh loop and how far the page is stay what
   they are, for every catalog (App.ts 21-95). *)
THEOREM ShowcaseTyped == Spec => []TypeOK
  BY InitType, NextType, PTL DEF Spec

-----------------------------------------------------------------------------
(* Before the cards are there, nobody can have closed a sheet. *)
NobodyYet ==
  boot # "open" => busySince = 0 /\ \A r \in Refreshes : refresh[r].pc = "unused"

BeginsAtFirst ==
  \A r \in Refreshes : refresh[r].pc \notin {"asked", "read"} => refresh[r].item = 1

(* What a running refresh has passed, and what it holds. *)
Fresh(r) ==
  r \in Running =>
    /\ \A i \in Items : i < refresh[r].item => enriched[i].asOf >= busySince
    /\ refresh[r].pc = "read" => refresh[r].got.asOf >= busySince

FreshInv ==
  /\ TypeOK
  /\ busySince <= now
  /\ NobodyYet
  /\ BeginsAtFirst
  /\ \A r \in Refreshes : Fresh(r)
  /\ StalenessBounded

LEMMA InitFresh == Init => FreshInv
<1> SUFFICES ASSUME Init PROVE FreshInv
  OBVIOUS
<1>1. boot = "catalog" /\ \A r \in Refreshes : refresh[r].pc = "unused" /\ refresh[r].item = 1
  BY DEF Init
<1>2. busySince = 0 /\ now = 0
  BY DEF Init
<1>3. \A r \in Refreshes : r \notin Running
  BY <1>1 DEF Running
<1> QED
  BY <1>1, <1>2, <1>3, InitType
  DEF FreshInv, NobodyYet, BeginsAtFirst, Fresh, StalenessBounded

(* Steps that leave the cards, the array and the refreshes alone. *)
LEMMA QuietStep ==
  ASSUME FreshInv, TypeOK', boot' # "open" \/ boot = "open",
         enriched' = enriched, cards' = cards, refresh' = refresh, busySince' = busySince,
         busySince <= now', boot = "open" => boot' = "open"
  PROVE  FreshInv'
<1>1. Running' = Running
  BY DEF Running
<1> QED
  BY <1>1 DEF FreshInv, NobodyYet, BeginsAtFirst, Fresh, StalenessBounded

LEMMA OpenShopFresh ==
  ASSUME FreshInv, TypeOK', OpenShop
  PROVE  FreshInv'
<1>1. busySince = 0 /\ \A r \in Refreshes : refresh[r].pc = "unused"
  BY DEF FreshInv, NobodyYet, OpenShop
<1>2. Running' = {}
  BY <1>1 DEF Running, OpenShop
<1>3. \A i \in Items : cards'[i].asOf \in Nat
  BY DEF TypeOK, Readings
<1>4. boot' = "open" /\ now' = now /\ busySince' = busySince /\ refresh' = refresh
      /\ cards' = enriched'
  BY DEF OpenShop
<1>5. StalenessBounded'
  BY <1>1, <1>3, <1>4 DEF StalenessBounded
<1>6. NobodyYet' /\ BeginsAtFirst' /\ busySince' <= now'
  BY <1>4 DEF NobodyYet, BeginsAtFirst, FreshInv
<1>7. \A r \in Refreshes : Fresh(r)'
  BY <1>2 DEF Fresh
<1> QED
  BY <1>5, <1>6, <1>7 DEF FreshInv

(* The first refresh since the page was quiet resets the clock; a later one
   does not. *)
LEMMA CloseSheetFresh ==
  ASSUME FreshInv, TypeOK', NEW r \in Refreshes, CloseSheet(r)
  PROVE  FreshInv'
<1>1. /\ refresh'[r] = [refresh[r] EXCEPT !.pc = "asked"]
      /\ \A q \in Refreshes \ {r} : refresh'[q] = refresh[q]
  BY DEF CloseSheet, FreshInv, TypeOK
<1>2. refresh'[r].pc = "asked" /\ refresh'[r].item = 1
  BY <1>1 DEF CloseSheet, FreshInv, BeginsAtFirst, TypeOK, RefreshStates
<1>3. Running' = Running \union {r}
  BY <1>1, <1>2 DEF Running
<1>4. boot' = boot /\ now' = now /\ enriched' = enriched /\ cards' = cards
  BY DEF CloseSheet
<1>5. boot = "open"
  BY DEF FreshInv, NobodyYet, CloseSheet
<1>6. busySince' = busySince \/ (Running = {} /\ busySince' = now)
  BY DEF CloseSheet
<1>7. Fresh(r)'
  BY <1>2 DEF Fresh, Items
<1>8. \A q \in Refreshes \ {r} : Fresh(q)'
  BY <1>1, <1>3, <1>4, <1>6 DEF FreshInv, Fresh
<1>9. busySince' <= now'
  BY <1>4, <1>6 DEF FreshInv, TypeOK
<1>10. NobodyYet' /\ BeginsAtFirst'
  BY <1>1, <1>2, <1>4, <1>5 DEF FreshInv, NobodyYet, BeginsAtFirst
<1>11. StalenessBounded'
  BY <1>3 DEF StalenessBounded
<1> QED
  BY <1>7, <1>8, <1>9, <1>10, <1>11 DEF FreshInv

LEMMA NodeReadsFresh ==
  ASSUME FreshInv, TypeOK', NEW r \in Refreshes, NodeReads(r)
  PROVE  FreshInv'
<1>1. refresh[r].item \in Items /\ refresh[r] \in RefreshStates
  BY DEF FreshInv, TypeOK, RefreshStates
<1>2. PICK a \in Answers(refresh[r].item) :
        refresh' = [refresh EXCEPT ![r].pc = "read", ![r].got = a]
  BY DEF NodeReads
<1>3. a.asOf = now
  BY <1>1, AnswersType DEF FreshInv
<1>4. /\ refresh'[r].pc = "read" /\ refresh'[r].item = refresh[r].item /\ refresh'[r].got = a
      /\ \A q \in Refreshes \ {r} : refresh'[q] = refresh[q]
  BY <1>1, <1>2 DEF FreshInv, TypeOK, RefreshStates
<1>5. Running' = Running /\ r \in Running
  BY <1>4 DEF Running, NodeReads
<1>6. /\ boot' = boot /\ now' = now /\ enriched' = enriched /\ cards' = cards
      /\ busySince' = busySince
  BY DEF NodeReads
<1>7. Fresh(r)'
  BY <1>3, <1>4, <1>5, <1>6 DEF FreshInv, Fresh
<1>8. \A q \in Refreshes \ {r} : Fresh(q)'
  BY <1>4, <1>5, <1>6 DEF FreshInv, Fresh
<1>9. NobodyYet' /\ BeginsAtFirst'
  BY <1>4, <1>6 DEF FreshInv, NobodyYet, BeginsAtFirst, NodeReads
<1>10. StalenessBounded'
  BY <1>5 DEF StalenessBounded
<1> QED
  BY <1>6, <1>7, <1>8, <1>9, <1>10 DEF FreshInv

LEMMA RefreshStoresFresh ==
  ASSUME FreshInv, TypeOK', NEW r \in Refreshes, RefreshStores(r)
  PROVE  FreshInv'
<1> DEFINE at == refresh[r].item
<1>1. at \in Items /\ refresh[r].got \in Readings /\ r \in Running
  BY DEF FreshInv, TypeOK, RefreshStates, RefreshStores, Running
<1>2. /\ boot' = boot /\ now' = now /\ busySince' = busySince
      /\ enriched' = [enriched EXCEPT ![at] = refresh[r].got]
      /\ cards' = IF LastItem(r) THEN enriched' ELSE cards
      /\ \A q \in Refreshes \ {r} : refresh'[q] = refresh[q]
  BY DEF RefreshStores, FreshInv, TypeOK
<1>3. /\ \A i \in Items : i < at => enriched[i].asOf >= busySince
      /\ refresh[r].got.asOf >= busySince
  BY <1>1 DEF FreshInv, Fresh, RefreshStores
<1>4. /\ enriched'[at].asOf >= busySince
      /\ \A i \in Items : i # at => enriched'[i] = enriched[i]
  BY <1>1, <1>2, <1>3 DEF FreshInv, TypeOK
<1>5. /\ LastItem(r) => refresh'[r].pc = "over" /\ refresh'[r].item = 1
      /\ ~LastItem(r) => refresh'[r].pc = "asked" /\ refresh'[r].item = at + 1
  BY StoredType DEF FreshInv
<1>6. \A q \in Refreshes \ {r} : Fresh(q)'
  <2> SUFFICES ASSUME NEW q \in Refreshes \ {r}, q \in Running' PROVE Fresh(q)'
    BY DEF Fresh
  <2>1. q \in Running /\ Fresh(q)
    BY <1>2 DEF Running, FreshInv
  <2>2. \A i \in Items : i < refresh[q].item => enriched'[i].asOf >= busySince
    BY <1>4, <2>1 DEF Fresh
  <2> QED
    BY <1>2, <2>1, <2>2 DEF Fresh
<1>7. Fresh(r)'
  <2>1. CASE LastItem(r)
    BY <1>5, <2>1 DEF Fresh, Running
  <2>2. CASE ~LastItem(r)
    <3>1. \A i \in Items : i < at + 1 => i < at \/ i = at
      BY <1>1 DEF Items
    <3>2. \A i \in Items : i < at + 1 => enriched'[i].asOf >= busySince
      BY <1>3, <1>4, <3>1
    <3> QED
      BY <1>2, <1>5, <2>2, <3>2 DEF Fresh
  <2> QED
    BY <2>1, <2>2
<1>8. StalenessBounded'
  <2>1. CASE LastItem(r)
    <3>1. \A i \in Items : i < at \/ i = at
      BY <1>1, <2>1, CountFacts DEF LastItem, Items
    <3>2. \A i \in Items : enriched'[i].asOf >= busySince
      BY <1>3, <1>4, <3>1
    <3> QED
      BY <1>2, <2>1, <3>2 DEF StalenessBounded
  <2>2. CASE ~LastItem(r)
    <3>1. r \in Running'
      BY <1>5, <2>2 DEF Running
    <3> QED
      BY <3>1 DEF StalenessBounded
  <2> QED
    BY <2>1, <2>2
<1>9. NobodyYet'
  BY <1>2 DEF FreshInv, NobodyYet, RefreshStores
<1>10. BeginsAtFirst'
  BY <1>2, <1>5 DEF FreshInv, BeginsAtFirst
<1> QED
  BY <1>2, <1>6, <1>7, <1>8, <1>9, <1>10 DEF FreshInv

LEMMA BuyFresh ==
  ASSUME FreshInv, TypeOK', NEW r \in Refreshes, NEW i \in Items, Buy(r, i)
  PROVE  FreshInv'
<1>1. /\ refresh'[r].pc = "shopping" /\ refresh'[r].item = refresh[r].item
      /\ \A q \in Refreshes \ {r} : refresh'[q] = refresh[q]
  BY DEF Buy, FreshInv, TypeOK, RefreshStates
<1>2. /\ boot = "open" /\ boot' = boot /\ now' = now /\ enriched' = enriched /\ cards' = cards
      /\ busySince' = busySince /\ refresh[r].pc = "unused"
  BY DEF Buy
<1>3. Running' = Running /\ r \notin Running
  BY <1>1, <1>2 DEF Running
<1>4. \A q \in Refreshes : Fresh(q)'
  BY <1>1, <1>2, <1>3 DEF FreshInv, Fresh
<1>5. NobodyYet' /\ BeginsAtFirst'
  BY <1>1, <1>2 DEF FreshInv, NobodyYet, BeginsAtFirst
<1>6. StalenessBounded'
  BY <1>2, <1>3 DEF FreshInv, StalenessBounded
<1> QED
  BY <1>2, <1>4, <1>5, <1>6 DEF FreshInv

LEMMA NextFresh == FreshInv /\ [Next]_vars => FreshInv'
<1> SUFFICES ASSUME FreshInv, [Next]_vars PROVE FreshInv'
  OBVIOUS
<1>0. TypeOK' /\ TypeOK
  BY NextType DEF FreshInv
<1>1. CASE LoadFails \/ CatalogArrives \/ EndpointResolved \/ UNCHANGED vars
  <2>1. boot = "open" => boot' = "open"
    BY <1>1 DEF LoadFails, CatalogArrives, EndpointResolved, vars
  <2>2. boot' # "open" \/ boot = "open"
    BY <1>1 DEF LoadFails, CatalogArrives, EndpointResolved, vars
  <2>3. /\ enriched' = enriched /\ cards' = cards /\ refresh' = refresh
        /\ busySince' = busySince /\ now' = now
    BY <1>1 DEF LoadFails, CatalogArrives, EndpointResolved, vars
  <2> QED
    BY <1>0, <2>1, <2>2, <2>3, QuietStep DEF FreshInv
<1>2. CASE OpenShop
  BY <1>0, <1>2, OpenShopFresh
<1>3. CASE \E i \in Items : Loading(i) \/ MetadataBody(i) \/ Sale(i)
  <2>1. /\ boot' = boot /\ enriched' = enriched /\ cards' = cards /\ refresh' = refresh
        /\ busySince' = busySince /\ (now' = now \/ now' = now + 1)
    BY <1>3 DEF Loading, MetadataEnds, MetadataProceeds, MetadataBody, FirstRead,
                FirstAnswer, Sale
  <2>2. busySince <= now'
    BY <1>0, <2>1 DEF FreshInv, TypeOK
  <2> QED
    BY <1>0, <2>1, <2>2, QuietStep
<1>4. CASE \E r \in Refreshes :
             (\E i \in Items : Buy(r, i)) \/ CloseSheet(r) \/ Refreshing(r)
  BY <1>0, <1>4, BuyFresh, CloseSheetFresh, NodeReadsFresh, RefreshStoresFresh DEF Refreshing
<1> QED
  BY <1>1, <1>2, <1>3, <1>4 DEF Next

LEMMA FreshInvariant == Spec => []FreshInv
  BY InitFresh, NextFresh, PTL DEF Spec

(* A quiet page shows no balance older than the refreshes that led to the
   quiet, and all that was stored, however many of them overlapped
   (App.ts 80-94). *)
THEOREM QuietCardsFresh == Spec => []StalenessBounded
<1>1. FreshInv => StalenessBounded
  BY DEF FreshInv
<1> QED
  BY <1>1, FreshInvariant, PTL
=============================================================================
