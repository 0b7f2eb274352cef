--------------------------- MODULE PurchaseSheet ---------------------------
(***************************************************************************)
(* The purchase sheets of the storefront.  A sheet holds a quantity and a  *)
(* nonce the buyer may change at any time, and runs one purchase at a      *)
(* time: quote, confirmation dialog, unsigned transaction from the         *)
(* facilitator, signature by the wallet, paid GET.  Each of these is an    *)
(* await, during which the sheet stays editable and can be closed, the     *)
(* wallet can change accounts and the seller its prices.  A closed sheet   *)
(* does not stop its purchase, and another sheet may be opened meanwhile.  *)
(*                                                                         *)
(* A session <<quantity, terms>> stands for the USDC total and the raw     *)
(* delivery amount the seller computes from them; a hash is the record it  *)
(* hashes; the n-th value drawn by randomHex32 is n.                       *)
(***************************************************************************)
EXTENDS Integers

CONSTANTS
  Sheets,        \* purchase sheets; each is opened at most once
  Wallets,       \* accounts of the buyer's wallet
  MaxQuantity,   \* largest quantity (10000 in the code)
  MaxNonces,     \* bound on the nonces drawn by all sheets
  MaxUids,       \* bound on the payments built by all sheets
  Terms,         \* price lists the instances of the seller may serve
  None           \* no wallet, no total, no result

ASSUME PurchaseSheetAssumption ==
  /\ MaxQuantity \in Nat \ {0}
  /\ None \notin Wallets
  /\ None \notin Nat
  /\ None \notin Nat \X Terms

VARIABLES
  sheet,      \* per sheet: what openPurchaseSheet's closure holds
  run,        \* per sheet: the locals of its runPurchase and executePurchase
  wallet,     \* pubkey of the wallet bridge (getWalletState)
  nonces,     \* nonces drawn so far
  uids,       \* payment uids drawn so far
  payments    \* paid GETs the seller has not answered, or has taken money for

vars == <<sheet, run, wallet, nonces, uids, payments>>

Quantities == 1 .. MaxQuantity
Sessions   == Quantities \X Terms
Accounts   == Wallets \union {None}

(* The query of the unpaid and of the paid GET. *)
Queries == [quantity : Quantities, recipient : Wallets, nonce : Nat]

(* What computeSlaHash hashes, besides constants and the payment uid. *)
Slas == [session : Sessions, recipient : Wallets, nonce : Nat]

SheetStates ==
  [shown    : {"unopened", "open", "closed"},
   quantity : Quantities,
   step     : {"idle", "quote", "sign", "done"},
   nonce    : Nat,
   total    : Sessions \union {None},    \* quoteUsdcRaw
   error    : BOOLEAN,                   \* errorMsg is not empty
   wallet   : Accounts,                  \* the one its listeners captured
   result   : Nat \union {None}]         \* uid of the delivered payment

(* payer and query are arguments; quote, sla and uid are locals; asked is
   the quantity the sheet showed when the buyer confirmed. *)
NoRun == [pc |-> "none"]

Quoting    == [pc : {"quoting"}, payer : Wallets, query : Queries]
Confirming == [pc : {"confirming"}, payer : Wallets, query : Queries, quote : Sessions]
Signing    == [pc : {"building", "signing"}, payer : Wallets, query : Queries,
               quote : Sessions, sla : Slas, uid : Nat, asked : Quantities]
Paying     == [pc : {"paying"}, uid : Nat]
RunStates  == {NoRun} \union Quoting \union Confirming \union Signing \union Paying

Fates == {"sent", "undelivered", "delivered"}

Payments ==
  [sheet : Sheets, uid : Nat, payer : Wallets, signer : Wallets, query : Queries,
   paid : Sessions, sla : Slas, asked : Quantities, fate : Fates]

TypeOK ==
  /\ sheet \in [Sheets -> SheetStates]
  /\ run \in [Sheets -> RunStates]
  /\ wallet \in Accounts
  /\ nonces \in Nat
  /\ uids \in Nat
  /\ payments \in SUBSET Payments

Unopened ==
  [shown |-> "unopened", quantity |-> 1, step |-> "idle", nonce |-> 0,
   total |-> None, error |-> FALSE, wallet |-> None, result |-> None]

Init ==
  /\ sheet = [s \in Sheets |-> Unopened]
  /\ run = [s \in Sheets |-> NoRun]
  /\ wallet \in Accounts
  /\ nonces = 0
  /\ uids = 0
  /\ payments = {}

-----------------------------------------------------------------------------
(* The sheet. *)

(* render: new listeners, which capture the wallet of this moment. *)
Rendered(sh) == [sh EXCEPT !.wallet = wallet]

Clamped(q) == IF q < 1 THEN 1 ELSE IF q > MaxQuantity THEN MaxQuantity ELSE q

(* A faulty edit: the quantity changes under the old nonce. *)
EditedKeepingNonce(sh, q) == [sh EXCEPT !.quantity = q, !.total = None]

(* The quantity changes: a new nonce, and the total is no longer shown. *)
Edited(sh, q) == [sh EXCEPT !.quantity = q, !.nonce = nonces + 1, !.total = None]

Draw ==
  /\ nonces < MaxNonces
  /\ nonces' = nonces + 1

Open(s) ==
  /\ sheet[s].shown = "unopened"
  /\ Draw
  /\ sheet' = [sheet EXCEPT
       ![s] = Rendered([@ EXCEPT !.shown = "open", !.nonce = nonces + 1])]
  /\ UNCHANGED <<run, wallet, uids, payments>>

Close(s) ==
  /\ sheet[s].shown = "open"
  /\ sheet' = [sheet EXCEPT ![s].shown = "closed"]
  /\ UNCHANGED <<run, wallet, nonces, uids, payments>>

(* A number is typed; it is clamped, and nothing is rendered. *)
TypeQuantity(s) ==
  /\ sheet[s].shown = "open"
  /\ Draw
  /\ \E typed \in 0 .. MaxQuantity + 1 :
       sheet' = [sheet EXCEPT ![s] = Edited(@, Clamped(typed))]
  /\ UNCHANGED <<run, wallet, uids, payments>>

(* The minus or the plus button, at a limit too. *)
StepQuantity(s) ==
  /\ sheet[s].shown = "open"
  /\ Draw
  /\ \E d \in {-1, 1} :
       sheet' = [sheet EXCEPT ![s] = Rendered(Edited(@, Clamped(@.quantity + d)))]
  /\ UNCHANGED <<run, wallet, uids, payments>>

(* The steps "Quote", "Sign payment", "Deliver", "Done" that carry a tick. *)
Ticked(step) ==
  LET active == CASE step = "idle" -> 0 [] step = "quote" -> 1
                  [] step = "sign" -> 2 [] step = "done" -> 5
  IN {i \in 1 .. 4 : i < active}

-----------------------------------------------------------------------------
(* runPurchase *)

(* A faulty button, still there after a success. *)
ClickableAgain(s) == sheet[s].shown = "open" /\ sheet[s].step \in {"idle", "done"}

(* The primary button is there and enabled. *)
Clickable(s) == sheet[s].shown = "open" /\ sheet[s].step = "idle"

ClickUnconnected(s) ==
  /\ Clickable(s)
  /\ sheet[s].wallet = None
  /\ sheet' = [sheet EXCEPT ![s] = Rendered([@ EXCEPT !.error = TRUE])]
  /\ UNCHANGED <<run, wallet, nonces, uids, payments>>

Click(s) ==
  /\ Clickable(s)
  /\ sheet[s].wallet # None
  /\ sheet' = [sheet EXCEPT ![s] = Rendered([@ EXCEPT !.error = FALSE, !.step = "quote"])]
  /\ run' = [run EXCEPT
       ![s] = [pc    |-> "quoting",
               payer |-> sheet[s].wallet,
               query |-> [quantity  |-> sheet[s].quantity,
                          recipient |-> sheet[s].wallet,
                          nonce     |-> sheet[s].nonce]]]
  /\ UNCHANGED <<wallet, nonces, uids, payments>>

(* The catch of runPurchase. *)
Failed(sh) == Rendered([sh EXCEPT !.error = TRUE, !.step = "idle"])

Fail(s) ==
  /\ sheet' = [sheet EXCEPT ![s] = Failed(@)]
  /\ run' = [run EXCEPT ![s] = NoRun]
  /\ UNCHANGED <<wallet, nonces, uids, payments>>

(* A 402 comes back, and the dialog opens. *)
QuoteArrives(s) ==
  /\ run[s].pc = "quoting"
  /\ \E t \in Terms : LET session == <<run[s].query.quantity, t>> IN
       /\ sheet' = [sheet EXCEPT ![s].total = session]
       /\ run' = [run EXCEPT
            ![s] = [pc |-> "confirming", payer |-> @.payer, query |-> @.query,
                    quote |-> session]]
  /\ UNCHANGED <<wallet, nonces, uids, payments>>

(* No answer, another status, or a body without a quote. *)
QuoteFails(s) ==
  /\ run[s].pc = "quoting"
  /\ Fail(s)

(* A faulty argument: the account the wallet is on now. *)
CurrentPayer(s) == wallet

(* The account that pays: the one the listener captured. *)
Payer(s) == run[s].payer

(* executePurchase begins: its arguments are read and the uid is drawn. *)
Confirm(s) ==
  /\ run[s].pc = "confirming"
  /\ uids < MaxUids
  /\ uids' = uids + 1
  /\ sheet' = [sheet EXCEPT ![s] = Rendered([@ EXCEPT !.step = "sign"])]
  /\ run' = [run EXCEPT
       ![s] = [pc    |-> "building", payer |-> Payer(s), query |-> @.query,
               quote |-> @.quote, uid |-> uids + 1, asked |-> sheet[s].quantity,
               sla   |-> [session   |-> @.quote,
                          recipient |-> @.query.recipient,
                          nonce     |-> sheet[s].nonce]]]
  /\ UNCHANGED <<wallet, nonces, payments>>

(* A faulty cancel button: the sheet keeps saying it is processing. *)
DeclineKeepingStep(s) ==
  /\ run[s].pc = "confirming"
  /\ sheet' = [sheet EXCEPT ![s] = Rendered(@)]
  /\ run' = [run EXCEPT ![s] = NoRun]
  /\ UNCHANGED <<wallet, nonces, uids, payments>>

(* The answer is no. *)
Decline(s) ==
  /\ run[s].pc = "confirming"
  /\ sheet' = [sheet EXCEPT ![s] = Rendered([@ EXCEPT !.step = "idle"])]
  /\ run' = [run EXCEPT ![s] = NoRun]
  /\ UNCHANGED <<wallet, nonces, uids, payments>>

(* The facilitator returns the unsigned transaction, and a signer is there. *)
TransactionBuilt(s) ==
  /\ run[s].pc = "building"
  /\ run' = [run EXCEPT ![s].pc = "signing"]
  /\ UNCHANGED <<sheet, wallet, nonces, uids, payments>>

(* No oracle in the quote, no transaction, or no signer. *)
BuildFails(s) ==
  /\ run[s].pc = "building"
  /\ Fail(s)

(* The wallet signs with its account; the paid GET goes to the URL of the
   quote. *)
Sign(s) ==
  /\ run[s].pc = "signing"
  /\ wallet # None
  /\ payments' = payments \union
       {[sheet |-> s, uid |-> run[s].uid, payer |-> run[s].payer, signer |-> wallet,
         query |-> run[s].query, paid |-> run[s].quote, sla |-> run[s].sla,
         asked |-> run[s].asked, fate |-> "sent"]}
  /\ run' = [run EXCEPT ![s] = [pc |-> "paying", uid |-> @.uid]]
  /\ UNCHANGED <<sheet, wallet, nonces, uids>>

(* Rejected, cancelled, or no wallet is connected. *)
SigningFails(s) ==
  /\ run[s].pc = "signing"
  /\ Fail(s)

Sent(s) == {p \in payments : p.sheet = s /\ p.uid = run[s].uid}

(* A faulty paid GET: the status of the answer is not looked at. *)
AnsweredIsDelivered(s) ==
  /\ run[s].pc = "paying"
  /\ \A p \in Sent(s) : p.fate # "sent"
  /\ sheet' = [sheet EXCEPT
       ![s] = Rendered([@ EXCEPT !.step = "done", !.result = run[s].uid])]
  /\ run' = [run EXCEPT ![s] = NoRun]
  /\ UNCHANGED <<wallet, nonces, uids, payments>>

(* 200, whose body is the result. *)
Delivered(s) ==
  /\ run[s].pc = "paying"
  /\ \E p \in Sent(s) : p.fate = "delivered"
  /\ sheet' = [sheet EXCEPT
       ![s] = Rendered([@ EXCEPT !.step = "done", !.result = run[s].uid])]
  /\ run' = [run EXCEPT ![s] = NoRun]
  /\ UNCHANGED <<wallet, nonces, uids, payments>>

(* Any other status. *)
PaymentRefused(s) ==
  /\ run[s].pc = "paying"
  /\ \A p \in Sent(s) : p.fate = "undelivered"
  /\ Fail(s)

(* A faulty catch: a broken connection leaves the sheet as it was. *)
AnswerLostUnreported(s) ==
  /\ run[s].pc = "paying"
  /\ UNCHANGED vars

(* A faulty recovery: a broken connection starts another payment. *)
AnswerLostRetried(s) ==
  /\ run[s].pc = "paying"
  /\ uids < MaxUids
  /\ uids' = uids + 1
  /\ \E p \in Sent(s) :
       payments' = payments \union {[p EXCEPT !.uid = uids + 1, !.fate = "sent"]}
  /\ run' = [run EXCEPT ![s].uid = uids + 1]
  /\ UNCHANGED <<sheet, wallet, nonces>>

(* The connection breaks, whatever became of the request. *)
AnswerLost(s) ==
  /\ run[s].pc = "paying"
  /\ Fail(s)

-----------------------------------------------------------------------------
(* The seller, the wallet. *)

(* The SLA rebuilt from the query, by an instance whose prices are t, has the
   hash of the payment. *)
Matches(p, t) ==
  p.sla = [session   |-> <<p.query.quantity, t>>,
           recipient |-> p.query.recipient,
           nonce     |-> p.query.nonce]

(* The escrow takes the payer's USDC, on the payer's signature; the delivery
   may fail afterwards. *)
Acceptable(p, t) == Matches(p, t) /\ p.signer = p.payer

SellerSettles(p) ==
  /\ p.fate = "sent"
  /\ \E t \in Terms : Acceptable(p, t)
  /\ \E fate \in Fates \ {"sent"} :
       payments' = (payments \ {p}) \union {[p EXCEPT !.fate = fate]}
  /\ UNCHANGED <<sheet, run, wallet, nonces, uids>>

(* Refused for any reason, before the escrow takes anything. *)
SellerRefuses(p) ==
  /\ p.fate = "sent"
  /\ payments' = payments \ {p}
  /\ UNCHANGED <<sheet, run, wallet, nonces, uids>>

(* miracle-pubkey, or the header's disconnect button. *)
WalletChanges ==
  /\ \E w \in Accounts \ {wallet} : wallet' = w
  /\ UNCHANGED <<sheet, run, nonces, uids, payments>>

-----------------------------------------------------------------------------
Buyer(s) ==
  \/ Open(s) \/ Close(s)
  \/ TypeQuantity(s) \/ StepQuantity(s)
  \/ ClickUnconnected(s) \/ Click(s)
  \/ Decline(s) \/ Confirm(s)

(* What a purchase waits for, other than its buyer. *)
Answer(s) ==
  \/ QuoteArrives(s) \/ QuoteFails(s)
  \/ TransactionBuilt(s) \/ BuildFails(s)
  \/ Sign(s) \/ SigningFails(s)
  \/ Delivered(s) \/ PaymentRefused(s) \/ AnswerLost(s)

Next ==
  \/ \E s \in Sheets : Buyer(s) \/ Answer(s)
  \/ \E p \in payments : SellerSettles(p) \/ SellerRefuses(p)
  \/ WalletChanges

Spec == Init /\ [][Next]_vars

(* A fetch settles in the end, if only with a network error, and the wallet
   answers a signature request. *)
FairSpec == Spec /\ \A s \in Sheets : WF_vars(Answer(s))

-----------------------------------------------------------------------------
(* Escrow holds the payment. *)
Settled == {p \in payments : p.fate \in {"undelivered", "delivered"}}

(* A settled payment is for the quantity its sheet showed when the buyer
   confirmed it, at the price the dialog named: a quote the buyer edited
   away is never paid, although the sheet can be edited while it is being
   fetched and confirmed.  This is what the new nonce of every edit is for
   (PurchaseSheet.ts 71-89, 134). *)
SettledAsShown ==
  \A p \in Settled :
    /\ p.asked = p.query.quantity
    /\ p.paid = p.sla.session
    /\ p.paid[1] = p.asked

(* The account whose USDC is in escrow is the one that receives the tokens,
   whatever account the wallet is on when it signs (PurchaseSheet.ts 34,
   slaEscrow.ts 138-167). *)
PayerReceives ==
  \A p \in Settled : p.signer = p.query.recipient /\ p.payer = p.sla.recipient

(* The button is enabled exactly when no purchase runs, and "Quote" is ticked
   exactly once the buyer has confirmed one: neither an error nor a cancel
   leaves the sheet processing, and no purchase starts over a running one
   (PurchaseSheet.ts 53-60, 91-142, 157-177). *)
ButtonFollowsRun ==
  \A s \in Sheets :
    LET pc == run[s].pc IN
    /\ sheet[s].step \in {"idle", "done"} <=> pc = "none"
    /\ sheet[s].step # "done" =>
         (1 \in Ticked(sheet[s].step) <=> pc \in {"building", "signing", "paying"})

(* "Sign payment", "Deliver" and "Done" are ticked for a payment that was
   delivered; and if the sheet was not edited since, it shows its quantity
   and its total (PurchaseSheet.ts 45-51, 134-136, 171). *)
SuccessShowsDelivery ==
  \A s \in Sheets :
    Ticked(sheet[s].step) \intersect 2 .. 4 # {} =>
      \E p \in payments :
        /\ p.sheet = s /\ p.uid = sheet[s].result /\ p.fate = "delivered"
        /\ sheet[s].nonce = p.query.nonce =>
             sheet[s].quantity = p.query.quantity /\ sheet[s].total = p.paid

(* A delivered sheet is spent: it never pays again, however often it is
   clicked or edited (PurchaseSheet.ts 54-60). *)
DoneIsFinal ==
  [][\A s \in Sheets :
       sheet[s].step = "done" =>
         /\ sheet'[s].step = "done"
         /\ \A p \in payments' \ payments : p.fate = "sent" => p.sheet # s]_vars

(* A confirmed purchase ends: the sheet returns to its button or reports
   success (PurchaseSheet.ts 132-141). *)
PurchasesEnd ==
  \A s \in Sheets : []<>(run[s].pc \in {"none", "confirming"})

(* The amount a dialog names; and the grants of the dialogs: those a purchase
   still carries, and those in a paid GET the seller has not answered. *)
Asked == [s \in Sheets |-> IF run[s].pc = "confirming" THEN run[s].quote ELSE None]

GrantHeld(s) == [sheet |-> s, number |-> run[s].uid, amount |-> run[s].quote]
GrantOf(p)   == [sheet |-> p.sheet, number |-> p.uid, amount |-> p.paid]

Carried == {GrantHeld(s) : s \in {s \in Sheets : run[s].pc \in {"building", "signing"}}}
Pending == {GrantOf(p) : p \in {p \in payments : p.fate = "sent"}}
Spent   == {GrantOf(p) : p \in Settled}

Consent == INSTANCE BuyerConsent WITH
  Amounts <- Sessions, asked <- Asked, last <- uids,
  granted <- Carried \union Pending, spent <- Spent

(* Money moves only as the dialogs say: one payment, of the total shown, for
   each confirmation, and none after a cancel, across retries, closed sheets
   and requests that outlive them (slaEscrow.ts 78-187). *)
ImplementsConsent == Consent!Spec
=============================================================================
