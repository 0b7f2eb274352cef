------------------------------ MODULE Showcase ------------------------------
(***************************************************************************)
(* The storefront's page of tokens: how it loads, and how closing purchase *)
(* sheets refreshes the stock on its cards.  A refresh asks for the items' *)
(* balances one after the other, stores each answer in the array all       *)
(* refreshes share, and draws the cards when it has asked for the last;    *)
(* nothing stops two refreshes from overlapping.                           *)
(*                                                                         *)
(* External: the catalog endpoint, the facilitator's /health, the RPC node *)
(* (a balance is read at some moment between the call and its answer), the *)
(* servers of metadata documents, and everyone who buys.                   *)
(***************************************************************************)
EXTENDS Integers

CONSTANTS
  Count,         \* number of items in the catalog
  StartStock,    \* per item: balance of the seller's account at the start
  MaxRefreshes   \* bound on the sheets opened

ASSUME ShowcaseAssumption ==
  /\ Count \in Nat \ {0}
  /\ StartStock \in [1 .. Count -> Nat]
  /\ MaxRefreshes \in Nat

VARIABLES
  stock,       \* per item: balance on chain
  now,         \* transfers out of the seller's accounts so far
  boot,        \* how far bootstrapApp is
  meta,        \* per item: how far fetchTokenMetadata is
  call,        \* per item: the first fetchSellerInventory
  enriched,    \* per item: the inventory in the shared array
  cards,       \* per item: the inventory its card was drawn with
  refresh,     \* per sheet: its refreshInventory, once it is closed
  busySince    \* value of now when a refresh last started alone (history)

vars == <<stock, now, boot, meta, call, enriched, cards, refresh, busySince>>

Items     == 1 .. Count
Refreshes == 1 .. MaxRefreshes

(* An answer of fetchSellerInventory: the balance and when it was read. *)
Readings == [raw : Nat, asOf : Nat]
Nothing  == [raw |-> 0, asOf |-> 0]

(* A fetchSellerInventory: asked, read by the node, or over. *)
Calls == [pc : {"asked", "read", "over"}, got : Readings]
Asked == [pc |-> "asked", got |-> Nothing]

RefreshStates ==
  [pc : {"unused", "shopping", "asked", "read", "over"}, item : Items, got : Readings]

TypeOK ==
  /\ stock \in [Items -> Nat]
  /\ now \in Nat
  /\ boot \in {"catalog", "cluster", "tokens", "open", "failed"}
  /\ meta \in [Items -> {"account", "headers", "body", "over"}]
  /\ call \in [Items -> Calls]
  /\ enriched \in [Items -> Readings]
  /\ cards \in [Items -> Readings]
  /\ refresh \in [Refreshes -> RefreshStates]
  /\ busySince \in Nat

Init ==
  /\ stock = StartStock
  /\ now = 0
  /\ boot = "catalog"
  /\ meta = [i \in Items |-> "account"]
  /\ call = [i \in Items |-> Asked]
  /\ enriched = [i \in Items |-> Nothing]
  /\ cards = [i \in Items |-> Nothing]
  /\ refresh = [r \in Refreshes |-> [pc |-> "unused", item |-> 1, got |-> Nothing]]
  /\ busySince = 0

-----------------------------------------------------------------------------
(* bootstrapApp *)

(* The banner instead of a shop. *)
LoadFails ==
  /\ boot \in {"catalog", "cluster"}
  /\ boot' = "failed"
  /\ UNCHANGED <<stock, now, meta, call, enriched, cards, refresh, busySince>>

CatalogArrives ==
  /\ boot = "catalog"
  /\ boot' = "cluster"
  /\ UNCHANGED <<stock, now, meta, call, enriched, cards, refresh, busySince>>

(* resolveRpcEndpoint always finds one: the catalog's, else that of the
   facilitator's /health, whose failure is no error, else a public one.  The
   header is drawn and the items are asked for, all at once. *)
EndpointResolved ==
  /\ boot = "cluster"
  /\ boot' = "tokens"
  /\ UNCHANGED <<stock, now, meta, call, enriched, cards, refresh, busySince>>

(* The account is missing, unreadable or without a usable URI, the node
   fails, or the document's server does, within eight seconds. *)
MetadataEnds(i) ==
  /\ boot = "tokens"
  /\ meta[i] \in {"account", "headers"}
  /\ meta' = [meta EXCEPT ![i] = "over"]
  /\ UNCHANGED <<stock, now, boot, call, enriched, cards, refresh, busySince>>

(* The account is parsed and its document asked for; then its headers are
   there, and the timer is cleared. *)
MetadataProceeds(i) ==
  /\ boot = "tokens"
  /\ \/ meta[i] = "account" /\ meta' = [meta EXCEPT ![i] = "headers"]
     \/ meta[i] = "headers" /\ meta' = [meta EXCEPT ![i] = "body"]
  /\ UNCHANGED <<stock, now, boot, call, enriched, cards, refresh, busySince>>

(* The body is read, with no timer. *)
MetadataBody(i) ==
  /\ meta[i] = "body"
  /\ meta' = [meta EXCEPT ![i] = "over"]
  /\ UNCHANGED <<stock, now, boot, call, enriched, cards, refresh, busySince>>

(* What the node may answer now: the balance, or an error, which counts as
   an empty account. *)
Answers(i) == {[raw |-> stock[i], asOf |-> now], [raw |-> 0, asOf |-> now]}

(* A faulty fetchSellerInventory, whose failure is the page's. *)
FirstReadThrows(i) ==
  /\ boot = "tokens"
  /\ call[i].pc = "asked"
  /\ \/ call' = [call EXCEPT ![i] = [pc |-> "read", got |-> [raw |-> stock[i], asOf |-> now]]]
        /\ UNCHANGED boot
     \/ boot' = "failed" /\ UNCHANGED call
  /\ UNCHANGED <<stock, now, meta, enriched, cards, refresh, busySince>>

(* The node answers fetchSellerInventory, or fails. *)
FirstRead(i) ==
  /\ boot = "tokens"
  /\ call[i].pc = "asked"
  /\ \E a \in Answers(i) : call' = [call EXCEPT ![i] = [pc |-> "read", got |-> a]]
  /\ UNCHANGED <<stock, now, boot, meta, enriched, cards, refresh, busySince>>

FirstAnswer(i) ==
  /\ call[i].pc = "read"
  /\ call' = [call EXCEPT ![i].pc = "over"]
  /\ UNCHANGED <<stock, now, boot, meta, enriched, cards, refresh, busySince>>

(* Promise.all is complete, and the cards are drawn. *)
OpenShop ==
  /\ boot = "tokens"
  /\ \A i \in Items : meta[i] = "over" /\ call[i].pc = "over"
  /\ boot' = "open"
  /\ enriched' = [i \in Items |-> call[i].got]
  /\ cards' = enriched'
  /\ UNCHANGED <<stock, now, meta, call, refresh, busySince>>

-----------------------------------------------------------------------------
(* Sheets and refreshes. *)

Running == {r \in Refreshes : refresh[r].pc \in {"asked", "read"}}

(* A card's button, disabled where no stock is shown, opens a sheet. *)
Buy(r, i) ==
  /\ boot = "open"
  /\ cards[i].raw > 0
  /\ refresh[r].pc = "unused"
  /\ refresh' = [refresh EXCEPT ![r].pc = "shopping"]
  /\ UNCHANGED <<stock, now, boot, meta, call, enriched, cards, busySince>>

(* onClose: refreshInventory asks for the first item. *)
CloseSheet(r) ==
  /\ refresh[r].pc = "shopping"
  /\ refresh' = [refresh EXCEPT ![r].pc = "asked"]
  /\ busySince' = IF Running = {} THEN now ELSE busySince
  /\ UNCHANGED <<stock, now, boot, meta, call, enriched, cards>>

NodeReads(r) ==
  /\ refresh[r].pc = "asked"
  /\ \E a \in Answers(refresh[r].item) :
       refresh' = [refresh EXCEPT ![r].pc = "read", ![r].got = a]
  /\ UNCHANGED <<stock, now, boot, meta, call, enriched, cards, busySince>>

(* A faulty loop, which stops before the last item. *)
LastItemMissed(r) == refresh[r].item >= Count - 1

(* The loop has no further item. *)
LastItem(r) == refresh[r].item = Count

(* The answer is stored, and the next item asked for or the cards drawn. *)
RefreshStores(r) ==
  LET i == refresh[r].item IN
  /\ refresh[r].pc = "read"
  /\ enriched' = [enriched EXCEPT ![i] = refresh[r].got]
  /\ refresh' = [refresh EXCEPT ![r] =
       [pc |-> IF LastItem(r) THEN "over" ELSE "asked",
        item |-> IF LastItem(r) THEN 1 ELSE i + 1, got |-> Nothing]]
  /\ cards' = IF LastItem(r) THEN enriched' ELSE cards
  /\ UNCHANGED <<stock, now, boot, meta, call, busySince>>

(* Tokens are delivered to somebody. *)
Sale(i) ==
  /\ stock[i] > 0
  /\ stock' = [stock EXCEPT ![i] = @ - 1]
  /\ now' = now + 1
  /\ UNCHANGED <<boot, meta, call, enriched, cards, refresh, busySince>>

-----------------------------------------------------------------------------
(* What the page waits for, and what a timer or the network layer ends. *)
Loading(i) == MetadataEnds(i) \/ MetadataProceeds(i) \/ FirstRead(i) \/ FirstAnswer(i)

Refreshing(r) == NodeReads(r) \/ RefreshStores(r)

Next ==
  \/ LoadFails \/ CatalogArrives \/ EndpointResolved \/ OpenShop
  \/ \E i \in Items : Loading(i) \/ MetadataBody(i) \/ Sale(i)
  \/ \E r \in Refreshes :
       (\E i \in Items : Buy(r, i)) \/ CloseSheet(r) \/ Refreshing(r)

Spec == Init /\ [][Next]_vars

(* A fetch settles in the end, except for a body that a server stalls. *)
FairSpec ==
  /\ Spec
  /\ WF_vars(OpenShop)
  /\ \A i \in Items : WF_vars(Loading(i))
  /\ \A r \in Refreshes : WF_vars(Refreshing(r))

-----------------------------------------------------------------------------
(* Once the page is quiet, its cards show what the shared array holds, and
   nothing there was read before the refreshes that led to this quiet began:
   an older refresh may overwrite and draw over a younger one, but only one
   it overlaps (App.ts 54-73, 80-94). *)
StalenessBounded ==
  boot = "open" /\ Running = {} =>
    /\ cards = enriched
    /\ \A i \in Items : cards[i].asOf >= busySince

(* Whatever an item's metadata, image or balance meets, the shop opens, and
   every refresh ends; but the server of a metadata document may stall in its
   body, because the timer of fetchImageFromUri is cleared at the headers
   (App.ts 54-77, 87-94, metadata.ts 76-117, inventory.ts 16-36). *)
PageSettles ==
  /\ (\A i \in Items : []<>(meta[i] # "body")) => (boot = "tokens" ~> boot = "open")
  /\ \A r \in Refreshes : []<>(r \notin Running)
=============================================================================
