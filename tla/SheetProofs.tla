----------------------------- MODULE SheetProofs -----------------------------
(***************************************************************************)
(* A settled payment is what the buyer was shown, and the account that     *)
(* pays is the one that receives, for any number of sheets, edits,         *)
(* accounts, price lists and retries; the sheets implement BuyerConsent;   *)
(* and a sheet that reports success has its delivery, for good.            *)
(*                                                                         *)
(* The buyer may edit the sheet while its quote is fetched and confirmed,  *)
(* and the payment then mixes the quote of the old quantity with the nonce *)
(* of the new one.  What saves it is that nonces are never drawn twice: as *)
(* long as a purchase and its sheet share a nonce they share a quantity,   *)
(* and the seller only takes a payment whose query and SLA share a nonce.  *)
(***************************************************************************)
EXTENDS PurchaseSheet, TLAPS

LEMMA Clamping ==
  ASSUME NEW q \in Int PROVE Clamped(q) \in Quantities
  BY PurchaseSheetAssumption DEF Clamped, Quantities

(* The shapes a sheet takes are sheets. *)
LEMMA RenderedType ==
  ASSUME wallet \in Accounts, NEW sh \in SheetStates
  PROVE  Rendered(sh) \in SheetStates
  BY DEF Rendered, SheetStates

LEMMA EditedType ==
  ASSUME nonces \in Nat, NEW sh \in SheetStates, NEW q \in Quantities
  PROVE  Edited(sh, q) \in SheetStates
<1>1. \A n \in Nat : [sh EXCEPT !.quantity = q, !.nonce = n, !.total = None] \in SheetStates
  BY DEF SheetStates
<1>2. nonces + 1 \in Nat
  OBVIOUS
<1> QED
  BY <1>1, <1>2 DEF Edited

LEMMA FailedType ==
  ASSUME wallet \in Accounts, NEW sh \in SheetStates
  PROVE  Failed(sh) \in SheetStates
  BY DEF Failed, Rendered, SheetStates

LEMMA SteppedType ==
  ASSUME wallet \in Accounts, NEW sh \in SheetStates,
         NEW step \in {"idle", "quote", "sign", "done"}
  PROVE  /\ Rendered([sh EXCEPT !.step = step]) \in SheetStates
         /\ Rendered([sh EXCEPT !.error = FALSE, !.step = step]) \in SheetStates
         /\ \A uid \in Nat :
              Rendered([sh EXCEPT !.step = step, !.result = uid]) \in SheetStates
  BY DEF Rendered, SheetStates

(* What a purchase holds where it is. *)
LEMMA RunKinds ==
  ASSUME NEW x \in RunStates
  PROVE  /\ x.pc = "none" => x = NoRun
         /\ x.pc = "quoting" => x \in Quoting
         /\ x.pc = "confirming" => x \in Confirming
         /\ x.pc \in {"building", "signing"} => x \in Signing
         /\ x.pc = "paying" => x \in Paying
         /\ x.pc \in {"none", "quoting", "confirming", "building", "signing", "paying"}
  BY DEF RunStates, NoRun, Quoting, Confirming, Signing, Paying

LEMMA InitType == Init => TypeOK
<1> SUFFICES ASSUME Init PROVE TypeOK
  OBVIOUS
<1>1. Unopened \in SheetStates
  BY PurchaseSheetAssumption DEF Unopened, SheetStates, Quantities, Accounts
<1>2. NoRun \in RunStates
  BY DEF RunStates
<1> QED
  BY <1>1, <1>2 DEF Init, TypeOK

-----------------------------------------------------------------------------
(* One step per action; most change one sheet and one purchase. *)

LEMMA FailType ==
  ASSUME TypeOK, NEW s \in Sheets, Fail(s)
  PROVE  TypeOK'
<1>1. Failed(sheet[s]) \in SheetStates
  BY FailedType DEF TypeOK
<1>2. sheet' \in [Sheets -> SheetStates] /\ run' \in [Sheets -> RunStates]
  BY <1>1 DEF Fail, TypeOK, RunStates
<1> QED
  BY <1>2 DEF Fail, TypeOK

LEMMA BuyerType ==
  ASSUME TypeOK, NEW s \in Sheets, Buyer(s)
  PROVE  TypeOK'
<1> USE DEF TypeOK
<1>1. CASE Open(s)
  <2> DEFINE sh == [sheet[s] EXCEPT !.shown = "open", !.nonce = nonces + 1]
  <2>1. sh \in SheetStates
    <3>1. \A n \in Nat :
            [sheet[s] EXCEPT !.shown = "open", !.nonce = n] \in SheetStates
      BY DEF SheetStates
    <3>2. nonces + 1 \in Nat
      OBVIOUS
    <3> QED
      BY <3>1, <3>2
  <2>2. Rendered(sh) \in SheetStates
    BY <2>1, RenderedType
  <2> QED
    BY <1>1, <2>2 DEF Open, Draw
<1>2. CASE Close(s)
  <2>1. [sheet[s] EXCEPT !.shown = "closed"] \in SheetStates
    BY DEF SheetStates
  <2> QED
    BY <1>2, <2>1 DEF Close
<1>3. CASE TypeQuantity(s)
  <2>1. PICK typed \in 0 .. MaxQuantity + 1 :
          sheet' = [sheet EXCEPT ![s] = Edited(@, Clamped(typed))]
    BY <1>3 DEF TypeQuantity
  <2>2. Edited(sheet[s], Clamped(typed)) \in SheetStates
    <3>1. Clamped(typed) \in Quantities
      BY Clamping
    <3> QED
      BY <3>1, EditedType
  <2> QED
    BY <1>3, <2>1, <2>2 DEF TypeQuantity, Draw
<1>4. CASE StepQuantity(s)
  <2>1. PICK d \in {-1, 1} :
          sheet' = [sheet EXCEPT ![s] = Rendered(Edited(@, Clamped(@.quantity + d)))]
    BY <1>4 DEF StepQuantity
  <2>2. sheet[s].quantity + d \in Int
    BY DEF SheetStates, Quantities
  <2>3. Edited(sheet[s], Clamped(sheet[s].quantity + d)) \in SheetStates
    <3>1. Clamped(sheet[s].quantity + d) \in Quantities
      BY <2>2, Clamping
    <3> QED
      BY <3>1, EditedType
  <2>4. Rendered(Edited(sheet[s], Clamped(sheet[s].quantity + d))) \in SheetStates
    BY <2>3, RenderedType
  <2> QED
    BY <1>4, <2>1, <2>4 DEF StepQuantity, Draw
<1>5. CASE ClickUnconnected(s)
  <2>1. [sheet[s] EXCEPT !.error = TRUE] \in SheetStates
    BY DEF SheetStates
  <2>2. Rendered([sheet[s] EXCEPT !.error = TRUE]) \in SheetStates
    BY <2>1, RenderedType
  <2> QED
    BY <1>5, <2>2 DEF ClickUnconnected
<1>6. CASE Click(s)
  <2>1. Rendered([sheet[s] EXCEPT !.error = FALSE, !.step = "quote"]) \in SheetStates
    BY SteppedType
  <2>2. sheet[s].wallet \in Wallets
    BY <1>6 DEF Click, SheetStates, Accounts
  <2>3. [quantity |-> sheet[s].quantity, recipient |-> sheet[s].wallet,
         nonce |-> sheet[s].nonce] \in Queries
    BY <2>2 DEF SheetStates, Queries
  <2>4. run'[s] \in Quoting
    BY <1>6, <2>2, <2>3 DEF Click, Quoting
  <2> QED
    BY <1>6, <2>1, <2>4 DEF Click, RunStates
<1>7. CASE Decline(s)
  <2>1. Rendered([sheet[s] EXCEPT !.step = "idle"]) \in SheetStates
    BY SteppedType
  <2> QED
    BY <1>7, <2>1 DEF Decline, RunStates
<1>8. CASE Confirm(s)
  <2>1. Rendered([sheet[s] EXCEPT !.step = "sign"]) \in SheetStates
    BY SteppedType
  <2>2. run[s] \in Confirming
    BY <1>8, RunKinds DEF Confirm
  <2>3. [session |-> run[s].quote, recipient |-> run[s].query.recipient,
         nonce |-> sheet[s].nonce] \in Slas
    BY <2>2 DEF Confirming, Slas, Queries, SheetStates
  <2>4. sheet[s].quantity \in Quantities
    BY DEF SheetStates
  <2>5. run'[s] \in Signing
    BY <1>8, <2>2, <2>3, <2>4 DEF Confirm, Payer, Confirming, Signing
  <2> QED
    BY <1>8, <2>1, <2>5 DEF Confirm, RunStates
<1> QED
  BY <1>1, <1>2, <1>3, <1>4, <1>5, <1>6, <1>7, <1>8 DEF Buyer

LEMMA AnswerType ==
  ASSUME TypeOK, NEW s \in Sheets, Answer(s)
  PROVE  TypeOK'
<1> USE DEF TypeOK
<1>1. CASE QuoteArrives(s)
  <2>1. run[s] \in Quoting
    BY <1>1, RunKinds DEF QuoteArrives
  <2>2. PICK t \in Terms :
          /\ sheet' = [sheet EXCEPT ![s].total = <<run[s].query.quantity, t>>]
          /\ run' = [run EXCEPT
               ![s] = [pc |-> "confirming", payer |-> @.payer, query |-> @.query,
                       quote |-> <<run[s].query.quantity, t>>]]
    BY <1>1 DEF QuoteArrives
  <2>3. <<run[s].query.quantity, t>> \in Sessions
    BY <2>1 DEF Quoting, Queries, Sessions
  <2>4. [sheet[s] EXCEPT !.total = <<run[s].query.quantity, t>>] \in SheetStates
    BY <2>3 DEF SheetStates
  <2>5. run'[s] \in Confirming
    BY <2>1, <2>2, <2>3 DEF Quoting, Confirming
  <2> QED
    BY <1>1, <2>2, <2>4, <2>5 DEF QuoteArrives, RunStates
<1>2. CASE QuoteFails(s) \/ BuildFails(s) \/ SigningFails(s) \/ PaymentRefused(s) \/ AnswerLost(s)
  BY <1>2, FailType DEF QuoteFails, BuildFails, SigningFails, PaymentRefused, AnswerLost
<1>3. CASE TransactionBuilt(s)
  <2>1. run[s] \in Signing
    BY <1>3, RunKinds DEF TransactionBuilt
  <2>2. run'[s] \in Signing
    BY <1>3, <2>1 DEF TransactionBuilt, Signing
  <2> QED
    BY <1>3, <2>2 DEF TransactionBuilt, RunStates
<1>4. CASE Sign(s)
  <2>1. run[s] \in Signing
    BY <1>4, RunKinds DEF Sign
  <2>2. wallet \in Wallets
    BY <1>4 DEF Sign, Accounts
  <2>3. [sheet |-> s, uid |-> run[s].uid, payer |-> run[s].payer, signer |-> wallet,
         query |-> run[s].query, paid |-> run[s].quote, sla |-> run[s].sla,
         asked |-> run[s].asked, fate |-> "sent"] \in Payments
    BY <2>1, <2>2 DEF Signing, Payments, Fates
  <2>4. run'[s] \in Paying
    BY <1>4, <2>1 DEF Sign, Signing, Paying
  <2> QED
    BY <1>4, <2>3, <2>4 DEF Sign, RunStates
<1>5. CASE Delivered(s)
  <2>1. run[s].uid \in Nat
    BY <1>5, RunKinds DEF Delivered, Paying
  <2>2. Rendered([sheet[s] EXCEPT !.step = "done", !.result = run[s].uid]) \in SheetStates
    BY <2>1, SteppedType
  <2> QED
    BY <1>5, <2>2 DEF Delivered, RunStates
<1> QED
  BY <1>1, <1>2, <1>3, <1>4, <1>5 DEF Answer

LEMMA SellerType ==
  ASSUME TypeOK, NEW p \in payments, SellerSettles(p) \/ SellerRefuses(p)
  PROVE  TypeOK'
<1>1. CASE SellerSettles(p)
  <2>1. PICK fate \in Fates \ {"sent"} :
          payments' = (payments \ {p}) \union {[p EXCEPT !.fate = fate]}
    BY <1>1 DEF SellerSettles
  <2>2. [p EXCEPT !.fate = fate] \in Payments
    BY DEF TypeOK, Payments
  <2> QED
    BY <1>1, <2>1, <2>2 DEF SellerSettles, TypeOK
<1>2. CASE SellerRefuses(p)
  BY <1>2 DEF SellerRefuses, TypeOK
<1> QED
  BY <1>1, <1>2

LEMMA NextType == TypeOK /\ [Next]_vars => TypeOK'
<1> SUFFICES ASSUME TypeOK, [Next]_vars PROVE TypeOK'
  OBVIOUS
<1>1. CASE \E s \in Sheets : Buyer(s) \/ Answer(s)
  BY <1>1, BuyerType, AnswerType
<1>2. CASE \E p \in payments : SellerSettles(p) \/ SellerRefuses(p)
  BY <1>2, SellerType
<1>3. CASE WalletChanges
  BY <1>3 DEF WalletChanges, TypeOK
<1>4. CASE UNCHANGED vars
  BY <1>4 DEF vars, TypeOK
<1> QED
  BY <1>1, <1>2, <1>3, <1>4 DEF Next

(* Every reachable state is well typed: quantities stay within the limits of
   the input whatever is typed or clicked, and a purchase has what its next
   step reads (PurchaseSheet.ts 70-89, 93-142). *)
THEOREM TypeCorrect == Spec => []TypeOK
  BY InitType, NextType, PTL DEF Spec
-----------------------------------------------------------------------------
(* The inductive invariant. *)

NoncesDrawn == \A s \in Sheets : sheet[s].nonce <= nonces

(* A purchase pays with the account it quoted for; a quantity goes with its
   nonce; a quote is for the quantity of its query.  What the buyer confirmed
   may have another quantity, but then the SLA has another nonce. *)
QuotingHonest(s) ==
  run[s].pc \in {"quoting", "confirming"} =>
    /\ run[s].query.recipient = run[s].payer
    /\ run[s].query.nonce <= nonces
    /\ run[s].query.nonce = sheet[s].nonce => run[s].query.quantity = sheet[s].quantity
    /\ run[s].pc = "confirming" => run[s].quote[1] = run[s].query.quantity

SigningHonest(s) ==
  run[s].pc \in {"building", "signing"} =>
    /\ run[s].query.recipient = run[s].payer
    /\ run[s].sla.recipient = run[s].payer
    /\ run[s].sla.session = run[s].quote
    /\ run[s].quote[1] = run[s].query.quantity
    /\ run[s].sla.nonce = run[s].query.nonce => run[s].asked = run[s].query.quantity

RunsHonest == \A s \in Sheets : QuotingHonest(s) /\ SigningHonest(s)

Honest(p) ==
  /\ p.query.recipient = p.payer
  /\ p.sla.recipient = p.payer
  /\ p.sla.session = p.paid
  /\ p.paid[1] = p.query.quantity
  /\ p.sla.nonce = p.query.nonce => p.asked = p.query.quantity
  /\ p.fate # "sent" => p.sla.nonce = p.query.nonce /\ p.signer = p.payer

PaymentsHonest == \A p \in payments : Honest(p)

SheetInv == TypeOK /\ NoncesDrawn /\ RunsHonest /\ PaymentsHonest

(* A step of one sheet leaves the others as they were. *)
LEMMA OthersHonest ==
  ASSUME TypeOK, TypeOK', NoncesDrawn, RunsHonest, NEW s \in Sheets,
         \A r \in Sheets \ {s} : sheet'[r] = sheet[r] /\ run'[r] = run[r],
         nonces <= nonces', sheet'[s].nonce <= nonces',
         QuotingHonest(s)', SigningHonest(s)'
  PROVE  NoncesDrawn' /\ RunsHonest'
<1>1. \A r \in Sheets : sheet[r].nonce \in Nat
  BY DEF TypeOK, SheetStates
<1>2. nonces \in Nat /\ nonces' \in Nat
  BY DEF TypeOK
<1>3. NoncesDrawn'
  BY <1>1, <1>2 DEF NoncesDrawn
<1>4. ASSUME NEW r \in Sheets \ {s} PROVE QuotingHonest(r)' /\ SigningHonest(r)'
  <2>1. run[r].pc \in {"quoting", "confirming"} => run[r].query.nonce \in Nat
    BY RunKinds DEF TypeOK, Quoting, Confirming, Queries
  <2>2. QuotingHonest(r) /\ SigningHonest(r)
    BY DEF RunsHonest
  <2>3. sheet'[r] = sheet[r] /\ run'[r] = run[r]
    OBVIOUS
  <2> QED
    BY <1>2, <2>1, <2>2, <2>3 DEF QuotingHonest, SigningHonest
<1> QED
  BY <1>3, <1>4 DEF RunsHonest

LEMMA InitHonest == Init => SheetInv
<1> SUFFICES ASSUME Init PROVE SheetInv
  OBVIOUS
<1>1. \A s \in Sheets : sheet[s].nonce = 0 /\ run[s].pc = "none"
  BY DEF Init, Unopened, NoRun
<1>2. NoncesDrawn
  <2>1. 0 <= 0
    OBVIOUS
  <2>2. nonces = 0
    BY DEF Init
  <2> QED
    BY <1>1, <2>1, <2>2, Zenon DEF NoncesDrawn
<1>3. RunsHonest
  BY <1>1 DEF RunsHonest, QuotingHonest, SigningHonest
<1>4. PaymentsHonest
  BY DEF Init, PaymentsHonest
<1> QED
  BY <1>2, <1>3, <1>4, InitType DEF SheetInv

(* An edit, whatever the new quantity, leaves its purchase behind. *)
LEMMA EditHonest ==
  ASSUME SheetInv, TypeOK', NEW s \in Sheets, NEW sh, run' = run, Draw, payments' = payments,
         sheet' = [sheet EXCEPT ![s] = sh], sh.nonce = nonces + 1
  PROVE  SheetInv'
<1> USE DEF SheetInv
<1>1. nonces \in Nat /\ nonces' = nonces + 1
  BY DEF TypeOK, Draw
<1>2. sheet'[s].nonce = nonces + 1 /\ \A r \in Sheets \ {s} : sheet'[r] = sheet[r]
  BY DEF TypeOK
<1>3. QuotingHonest(s)'
  <2>1. run[s].pc \in {"quoting", "confirming"} => run[s].query.nonce \in Nat
    BY RunKinds DEF TypeOK, Quoting, Confirming, Queries
  <2>2. QuotingHonest(s)
    BY DEF RunsHonest
  <2> QED
    BY <1>1, <1>2, <2>1, <2>2 DEF QuotingHonest
<1>4. SigningHonest(s)'
  BY DEF RunsHonest, SigningHonest
<1>5. NoncesDrawn' /\ RunsHonest'
  BY <1>1, <1>2, <1>3, <1>4, OthersHonest
<1> QED
  BY <1>5 DEF PaymentsHonest, Honest

(* Rendering and messages change neither nonce nor quantity. *)
LEMMA KeepHonest ==
  ASSUME SheetInv, TypeOK', NEW s \in Sheets, nonces' = nonces,
         \A r \in Sheets \ {s} : sheet'[r] = sheet[r] /\ run'[r] = run[r],
         sheet'[s].nonce = sheet[s].nonce,
         QuotingHonest(s)', SigningHonest(s)', PaymentsHonest'
  PROVE  SheetInv'
<1> USE DEF SheetInv
<1>1. nonces <= nonces' /\ sheet'[s].nonce <= nonces'
  BY DEF TypeOK, NoncesDrawn
<1>2. NoncesDrawn' /\ RunsHonest'
  BY <1>1, OthersHonest
<1> QED
  BY <1>2

(* What a step of a sheet may show without touching nonce and quantity. *)
LEMMA ShownKept ==
  ASSUME NEW sh \in SheetStates, NEW step, NEW e, NEW uid
  PROVE  /\ Failed(sh).nonce = sh.nonce
         /\ Rendered([sh EXCEPT !.error = e]).nonce = sh.nonce
         /\ Rendered([sh EXCEPT !.step = step]).nonce = sh.nonce
         /\ Rendered([sh EXCEPT !.error = e, !.step = step]).nonce = sh.nonce
         /\ Rendered([sh EXCEPT !.step = step, !.result = uid]).nonce = sh.nonce
         /\ Rendered([sh EXCEPT !.error = e, !.step = step]).quantity = sh.quantity
  BY DEF Failed, Rendered, SheetStates

(* The end of a purchase. *)
LEMMA EndHonest ==
  ASSUME SheetInv, TypeOK', NEW s \in Sheets, NEW sh,
         sheet' = [sheet EXCEPT ![s] = sh], sh.nonce = sheet[s].nonce,
         run' = [run EXCEPT ![s] = NoRun], nonces' = nonces, payments' = payments
  PROVE  SheetInv'
<1>1. run'[s].pc = "none" /\ sheet'[s].nonce = sheet[s].nonce
  BY DEF SheetInv, TypeOK, NoRun
<1>2. QuotingHonest(s)' /\ SigningHonest(s)'
  BY <1>1 DEF QuotingHonest, SigningHonest
<1>3. PaymentsHonest'
  BY DEF SheetInv, PaymentsHonest, Honest
<1>4. \A r \in Sheets \ {s} : sheet'[r] = sheet[r] /\ run'[r] = run[r]
  BY DEF SheetInv, TypeOK
<1> QED
  BY <1>1, <1>2, <1>3, <1>4, KeepHonest

LEMMA FailHonest ==
  ASSUME SheetInv, TypeOK', NEW s \in Sheets, Fail(s)
  PROVE  SheetInv'
<1>1. Failed(sheet[s]).nonce = sheet[s].nonce
  BY ShownKept DEF SheetInv, TypeOK
<1> QED
  BY <1>1, EndHonest DEF Fail

LEMMA BuyerHonest ==
  ASSUME SheetInv, TypeOK', NEW s \in Sheets, Buyer(s)
  PROVE  SheetInv'
<1> USE DEF SheetInv
<1>0. sheet[s] \in SheetStates /\ run[s] \in RunStates /\ nonces \in Nat
  BY DEF TypeOK
<1>1. CASE Open(s)
  <2> DEFINE sh == Rendered([sheet[s] EXCEPT !.shown = "open", !.nonce = nonces + 1])
  <2>1. sh.nonce = nonces + 1
    BY <1>0 DEF Rendered, SheetStates
  <2>2. sheet' = [sheet EXCEPT ![s] = sh] /\ run' = run /\ Draw /\ payments' = payments
    BY <1>1 DEF Open
  <2> QED
    BY <2>1, <2>2, EditHonest
<1>2. CASE Close(s)
  <2>1. /\ sheet'[s].nonce = sheet[s].nonce
        /\ sheet'[s].quantity = sheet[s].quantity
        /\ \A r \in Sheets \ {s} : sheet'[r] = sheet[r]
    BY <1>0, <1>2 DEF Close, TypeOK, SheetStates
  <2>2. run' = run /\ nonces' = nonces /\ payments' = payments
    BY <1>2 DEF Close
  <2>3. QuotingHonest(s)' /\ SigningHonest(s)' /\ PaymentsHonest'
    BY <2>1, <2>2 DEF RunsHonest, QuotingHonest, SigningHonest, PaymentsHonest, Honest
  <2> QED
    BY <2>1, <2>2, <2>3, KeepHonest
<1>3. CASE TypeQuantity(s)
  <2>1. PICK typed \in 0 .. MaxQuantity + 1 :
          sheet' = [sheet EXCEPT ![s] = Edited(@, Clamped(typed))]
    BY <1>3 DEF TypeQuantity
  <2> DEFINE sh == Edited(sheet[s], Clamped(typed))
  <2>2. sh.nonce = nonces + 1
    BY <1>0 DEF Edited, SheetStates
  <2>3. sheet' = [sheet EXCEPT ![s] = sh]
    BY <1>0, <2>1
  <2>4. run' = run /\ Draw /\ payments' = payments
    BY <1>3 DEF TypeQuantity
  <2> HIDE DEF sh
  <2> QED
    BY <2>2, <2>3, <2>4, EditHonest
<1>4. CASE StepQuantity(s)
  <2>1. PICK d \in {-1, 1} :
          sheet' = [sheet EXCEPT ![s] = Rendered(Edited(@, Clamped(@.quantity + d)))]
    BY <1>4 DEF StepQuantity
  <2> DEFINE sh == Rendered(Edited(sheet[s], Clamped(sheet[s].quantity + d)))
  <2>2. sh.nonce = nonces + 1
    BY <1>0 DEF Rendered, Edited, SheetStates
  <2>3. sheet' = [sheet EXCEPT ![s] = sh]
    BY <1>0, <2>1
  <2>4. run' = run /\ Draw /\ payments' = payments
    BY <1>4 DEF StepQuantity
  <2> HIDE DEF sh
  <2> QED
    BY <2>2, <2>3, <2>4, EditHonest
<1>5. CASE ClickUnconnected(s)
  <2>1. run' = run /\ nonces' = nonces /\ payments' = payments
    BY <1>5 DEF ClickUnconnected
  <2>2. /\ sheet'[s].nonce = sheet[s].nonce
        /\ sheet'[s].quantity = sheet[s].quantity
        /\ \A r \in Sheets \ {s} : sheet'[r] = sheet[r]
    BY <1>0, <1>5 DEF ClickUnconnected, TypeOK, Rendered, SheetStates
  <2>3. QuotingHonest(s)' /\ SigningHonest(s)' /\ PaymentsHonest'
    BY <2>1, <2>2 DEF RunsHonest, QuotingHonest, SigningHonest, PaymentsHonest, Honest
  <2> QED
    BY <2>1, <2>2, <2>3, KeepHonest
<1>6. CASE Click(s)
  <2>1. /\ sheet'[s].nonce = sheet[s].nonce
        /\ sheet'[s].quantity = sheet[s].quantity
        /\ \A r \in Sheets \ {s} : sheet'[r] = sheet[r] /\ run'[r] = run[r]
    BY <1>0, <1>6 DEF Click, TypeOK, Rendered, SheetStates
  <2>2. /\ run'[s].pc = "quoting"
        /\ run'[s].payer = sheet[s].wallet
        /\ run'[s].query = [quantity  |-> sheet[s].quantity,
                            recipient |-> sheet[s].wallet,
                            nonce     |-> sheet[s].nonce]
    BY <1>6 DEF Click, TypeOK
  <2>3. nonces' = nonces /\ payments' = payments
    BY <1>6 DEF Click
  <2>4. sheet[s].nonce <= nonces
    BY DEF NoncesDrawn
  <2>5. QuotingHonest(s)' /\ SigningHonest(s)'
    BY <2>1, <2>2, <2>3, <2>4 DEF QuotingHonest, SigningHonest
  <2>6. PaymentsHonest'
    BY <2>3 DEF PaymentsHonest, Honest
  <2> QED
    BY <2>1, <2>3, <2>5, <2>6, KeepHonest
<1>7. CASE Decline(s)
  <2>1. Rendered([sheet[s] EXCEPT !.step = "idle"]).nonce = sheet[s].nonce
    BY <1>0, ShownKept
  <2> QED
    BY <1>7, <2>1, EndHonest DEF Decline
<1>8. CASE Confirm(s)
  <2>1. /\ sheet'[s].nonce = sheet[s].nonce
        /\ \A r \in Sheets \ {s} : sheet'[r] = sheet[r] /\ run'[r] = run[r]
    BY <1>0, <1>8 DEF Confirm, TypeOK, Rendered, SheetStates
  <2>2. run[s].pc = "confirming" /\ QuotingHonest(s)
    BY <1>8 DEF Confirm, RunsHonest
  <2>3. /\ run'[s].pc = "building"
        /\ run'[s].payer = run[s].payer
        /\ run'[s].query = run[s].query
        /\ run'[s].quote = run[s].quote
        /\ run'[s].asked = sheet[s].quantity
        /\ run'[s].sla = [session |-> run[s].quote, recipient |-> run[s].query.recipient,
                          nonce |-> sheet[s].nonce]
    BY <1>8 DEF Confirm, Payer, TypeOK
  <2>4. nonces' = nonces /\ payments' = payments
    BY <1>8 DEF Confirm
  <2>5. QuotingHonest(s)' /\ SigningHonest(s)'
    BY <2>2, <2>3 DEF QuotingHonest, SigningHonest
  <2>6. PaymentsHonest'
    BY <2>4 DEF PaymentsHonest, Honest
  <2> QED
    BY <2>1, <2>4, <2>5, <2>6, KeepHonest
<1> QED
  BY <1>1, <1>2, <1>3, <1>4, <1>5, <1>6, <1>7, <1>8 DEF Buyer

LEMMA AnswerHonest ==
  ASSUME SheetInv, TypeOK', NEW s \in Sheets, Answer(s)
  PROVE  SheetInv'
<1> USE DEF SheetInv
<1>0. sheet[s] \in SheetStates /\ run[s] \in RunStates
  BY DEF TypeOK
<1>1. CASE QuoteArrives(s)
  <2>1. run[s].pc = "quoting" /\ QuotingHonest(s)
    BY <1>1 DEF QuoteArrives, RunsHonest
  <2>2. PICK t \in Terms :
          /\ sheet' = [sheet EXCEPT ![s].total = <<run[s].query.quantity, t>>]
          /\ run' = [run EXCEPT
               ![s] = [pc |-> "confirming", payer |-> @.payer, query |-> @.query,
                       quote |-> <<run[s].query.quantity, t>>]]
    BY <1>1 DEF QuoteArrives
  <2>3. /\ sheet'[s].nonce = sheet[s].nonce
        /\ sheet'[s].quantity = sheet[s].quantity
        /\ \A r \in Sheets \ {s} : sheet'[r] = sheet[r] /\ run'[r] = run[r]
    BY <1>0, <2>2 DEF TypeOK, SheetStates
  <2>4. /\ run'[s].pc = "confirming"
        /\ run'[s].payer = run[s].payer
        /\ run'[s].query = run[s].query
        /\ run'[s].quote[1] = run[s].query.quantity
    BY <2>2 DEF TypeOK
  <2>5. nonces' = nonces /\ payments' = payments
    BY <1>1 DEF QuoteArrives
  <2>6. QuotingHonest(s)' /\ SigningHonest(s)'
    BY <2>1, <2>3, <2>4, <2>5 DEF QuotingHonest, SigningHonest
  <2>7. PaymentsHonest'
    BY <2>5 DEF PaymentsHonest, Honest
  <2> QED
    BY <2>3, <2>5, <2>6, <2>7, KeepHonest
<1>2. CASE QuoteFails(s) \/ BuildFails(s) \/ SigningFails(s) \/ PaymentRefused(s) \/ AnswerLost(s)
  BY <1>2, FailHonest DEF QuoteFails, BuildFails, SigningFails, PaymentRefused, AnswerLost
<1>3. CASE TransactionBuilt(s)
  <2>1. run[s] \in Signing /\ SigningHonest(s) /\ run[s].pc = "building"
    BY <1>0, <1>3, RunKinds DEF TransactionBuilt, RunsHonest
  <2>2. /\ run'[s] = [run[s] EXCEPT !.pc = "signing"]
        /\ \A r \in Sheets \ {s} : run'[r] = run[r]
    BY <1>3 DEF TransactionBuilt, TypeOK
  <2>3. sheet' = sheet /\ nonces' = nonces /\ payments' = payments
    BY <1>3 DEF TransactionBuilt
  <2>4. QuotingHonest(s)' /\ SigningHonest(s)'
    BY <2>1, <2>2 DEF QuotingHonest, SigningHonest, Signing
  <2>5. PaymentsHonest'
    BY <2>3 DEF PaymentsHonest, Honest
  <2> QED
    BY <2>2, <2>3, <2>4, <2>5, KeepHonest
<1>4. CASE Sign(s)
  <2> DEFINE new == [sheet |-> s, uid |-> run[s].uid, payer |-> run[s].payer,
                     signer |-> wallet, query |-> run[s].query, paid |-> run[s].quote,
                     sla |-> run[s].sla, asked |-> run[s].asked, fate |-> "sent"]
  <2>1. SigningHonest(s) /\ run[s].pc = "signing"
    BY <1>4 DEF Sign, RunsHonest
  <2>2. Honest(new)
    BY <2>1 DEF Honest, SigningHonest
  <2>3. payments' = payments \union {new}
    BY <1>4 DEF Sign
  <2>4. PaymentsHonest'
    <3> HIDE DEF new
    <3> QED
      BY <2>2, <2>3 DEF PaymentsHonest, Honest
  <2>5. run'[s].pc = "paying" /\ \A r \in Sheets \ {s} : run'[r] = run[r]
    BY <1>4 DEF Sign, TypeOK
  <2>6. sheet' = sheet /\ nonces' = nonces
    BY <1>4 DEF Sign
  <2>7. QuotingHonest(s)' /\ SigningHonest(s)'
    BY <2>5 DEF QuotingHonest, SigningHonest
  <2> QED
    BY <2>4, <2>5, <2>6, <2>7, KeepHonest
<1>5. CASE Delivered(s)
  <2> DEFINE sh == Rendered([sheet[s] EXCEPT !.step = "done", !.result = run[s].uid])
  <2>1. sh.nonce = sheet[s].nonce
    BY <1>0 DEF Rendered, SheetStates
  <2>2. /\ sheet' = [sheet EXCEPT ![s] = sh]
        /\ run' = [run EXCEPT ![s] = NoRun]
        /\ nonces' = nonces /\ payments' = payments
    BY <1>5 DEF Delivered
  <2> HIDE DEF sh
  <2> QED
    BY <2>1, <2>2, EndHonest
<1> QED
  BY <1>1, <1>2, <1>3, <1>4, <1>5 DEF Answer

(* The seller takes a payment only on matching nonces and the payer's key. *)
LEMMA SellerHonest ==
  ASSUME SheetInv, TypeOK', NEW p \in payments, SellerSettles(p) \/ SellerRefuses(p)
  PROVE  SheetInv'
<1> USE DEF SheetInv
<1>1. sheet' = sheet /\ run' = run /\ nonces' = nonces
  BY DEF SellerSettles, SellerRefuses
<1>2. PaymentsHonest'
  <2>1. CASE SellerRefuses(p)
    BY <2>1 DEF SellerRefuses, PaymentsHonest, Honest
  <2>2. CASE SellerSettles(p)
    <3>1. PICK fate \in Fates \ {"sent"} :
            payments' = (payments \ {p}) \union {[p EXCEPT !.fate = fate]}
      BY <2>2 DEF SellerSettles
    <3>2. p.sla.nonce = p.query.nonce /\ p.signer = p.payer
      BY <2>2 DEF SellerSettles, Acceptable, Matches
    <3>3. Honest([p EXCEPT !.fate = fate])
      BY <3>2 DEF PaymentsHonest, Honest, TypeOK, Payments
    <3> QED
      BY <3>1, <3>3 DEF PaymentsHonest, Honest
  <2> QED
    BY <2>1, <2>2
<1>3. NoncesDrawn' /\ RunsHonest'
  BY <1>1 DEF NoncesDrawn, RunsHonest, QuotingHonest, SigningHonest
<1> QED
  BY <1>2, <1>3

LEMMA NextHonest == SheetInv /\ [Next]_vars => SheetInv'
<1> SUFFICES ASSUME SheetInv, [Next]_vars PROVE SheetInv'
  OBVIOUS
<1>0. TypeOK'
  BY NextType DEF SheetInv
<1>1. CASE \E s \in Sheets : Buyer(s) \/ Answer(s)
  BY <1>0, <1>1, BuyerHonest, AnswerHonest
<1>2. CASE \E p \in payments : SellerSettles(p) \/ SellerRefuses(p)
  BY <1>0, <1>2, SellerHonest
<1>3. CASE WalletChanges \/ UNCHANGED vars
  <2>1. sheet' = sheet /\ run' = run /\ nonces' = nonces /\ payments' = payments
    BY <1>3 DEF WalletChanges, vars
  <2> QED
    BY <1>0, <2>1 DEF SheetInv, NoncesDrawn, RunsHonest, QuotingHonest, SigningHonest,
                      PaymentsHonest, Honest
<1> QED
  BY <1>1, <1>2, <1>3 DEF Next

LEMMA SheetInvariant == Spec => []SheetInv
  BY InitHonest, NextHonest, PTL DEF Spec

(* Escrow never holds money for a quantity or a price the buyer was not shown
   on confirming, whatever was edited while the quote was under way
   (PurchaseSheet.ts 71-89, 134; slaEscrow.ts 118-130). *)
THEOREM PaidAsShown == Spec => []SettledAsShown
<1>1. SheetInv => SettledAsShown
  BY DEF SheetInv, PaymentsHonest, Honest, Settled, SettledAsShown
<1> QED
  BY <1>1, SheetInvariant, PTL

(* The account that pays is the one that receives, whatever the wallet changes
   to in between (PurchaseSheet.ts 34, slaEscrow.ts 138-167). *)
THEOREM PayerIsRecipient == Spec => []PayerReceives
<1>1. SheetInv => PayerReceives
  BY DEF SheetInv, PaymentsHonest, Honest, Settled, PayerReceives
<1> QED
  BY <1>1, SheetInvariant, PTL

-----------------------------------------------------------------------------
(* The button. *)

Button(s) ==
  /\ sheet[s].step \in {"idle", "done"} <=> run[s].pc = "none"
  /\ sheet[s].step = "sign" <=> run[s].pc \in {"building", "signing", "paying"}

Buttons == \A s \in Sheets : Button(s)

LEMMA TickedFirst ==
  ASSUME NEW step \in {"idle", "quote", "sign", "done"}
  PROVE  1 \in Ticked(step) <=> step \in {"sign", "done"}
  BY DEF Ticked

(* A step of one sheet, with where it leads. *)
LEMMA ButtonStep ==
  ASSUME TypeOK, Buttons, NEW s \in Sheets, NEW sh,
         sheet' = [sheet EXCEPT ![s] = sh], \A r \in Sheets \ {s} : run'[r] = run[r],
         \/ sh.step = "quote" /\ run'[s].pc \in {"quoting", "confirming"}
         \/ sh.step = "sign" /\ run'[s].pc \in {"building", "signing", "paying"}
         \/ sh.step \in {"idle", "done"} /\ run'[s].pc = "none"
  PROVE  Buttons'
<1>1. sheet'[s] = sh
  BY DEF TypeOK
<1>2. Button(s)'
  BY <1>1 DEF Button
<1>3. \A r \in Sheets \ {s} : sheet'[r] = sheet[r]
  BY DEF TypeOK
<1> QED
  BY <1>2, <1>3 DEF Buttons, Button

(* A step that leaves every purchase, and the step shown, alone. *)
LEMMA ButtonKept ==
  ASSUME TypeOK, Buttons, NEW s \in Sheets, NEW sh, run' = run,
         sheet' = [sheet EXCEPT ![s] = sh], sh.step = sheet[s].step
  PROVE  Buttons'
  BY DEF TypeOK, Buttons, Button

LEMMA FailButtons ==
  ASSUME TypeOK, Buttons, NEW s \in Sheets, Fail(s)
  PROVE  Buttons'
<1> DEFINE sh == Failed(sheet[s])
<1>1. sh.step = "idle"
  BY DEF Failed, Rendered, TypeOK, SheetStates
<1>2. run'[s].pc = "none" /\ \A r \in Sheets \ {s} : run'[r] = run[r]
  BY DEF Fail, TypeOK, NoRun
<1>3. sheet' = [sheet EXCEPT ![s] = sh]
  BY DEF Fail
<1> HIDE DEF sh
<1> QED
  BY <1>1, <1>2, <1>3, ButtonStep

LEMMA BuyerButtons ==
  ASSUME TypeOK, Buttons, NEW s \in Sheets, Buyer(s)
  PROVE  Buttons'
<1>0. sheet[s] \in SheetStates /\ Button(s)
  BY DEF TypeOK, Buttons
<1>1. CASE Open(s)
  <2> DEFINE sh == Rendered([sheet[s] EXCEPT !.shown = "open", !.nonce = nonces + 1])
  <2>1. sh.step = sheet[s].step
    BY <1>0 DEF Rendered, SheetStates
  <2>2. sheet' = [sheet EXCEPT ![s] = sh] /\ run' = run
    BY <1>1 DEF Open
  <2> HIDE DEF sh
  <2> QED
    BY <2>1, <2>2, ButtonKept
<1>2. CASE Close(s)
  <2> DEFINE sh == [sheet[s] EXCEPT !.shown = "closed"]
  <2>1. sh.step = sheet[s].step
    BY <1>0 DEF SheetStates
  <2>2. sheet' = [sheet EXCEPT ![s] = sh] /\ run' = run
    BY <1>2 DEF Close
  <2> HIDE DEF sh
  <2> QED
    BY <2>1, <2>2, ButtonKept
<1>3. CASE TypeQuantity(s)
  <2>1. PICK typed \in 0 .. MaxQuantity + 1 :
          sheet' = [sheet EXCEPT ![s] = Edited(@, Clamped(typed))]
    BY <1>3 DEF TypeQuantity
  <2> DEFINE sh == Edited(sheet[s], Clamped(typed))
  <2>2. sh.step = sheet[s].step
    BY <1>0 DEF Edited, SheetStates
  <2>3. sheet' = [sheet EXCEPT ![s] = sh] /\ run' = run
    BY <1>3, <2>1 DEF TypeQuantity
  <2> HIDE DEF sh
  <2> QED
    BY <2>2, <2>3, ButtonKept
<1>4. CASE StepQuantity(s)
  <2>1. PICK d \in {-1, 1} :
          sheet' = [sheet EXCEPT ![s] = Rendered(Edited(@, Clamped(@.quantity + d)))]
    BY <1>4 DEF StepQuantity
  <2> DEFINE sh == Rendered(Edited(sheet[s], Clamped(sheet[s].quantity + d)))
  <2>2. sh.step = sheet[s].step
    BY <1>0 DEF Rendered, Edited, SheetStates
  <2>3. sheet' = [sheet EXCEPT ![s] = sh] /\ run' = run
    BY <1>4, <2>1 DEF StepQuantity
  <2> HIDE DEF sh
  <2> QED
    BY <2>2, <2>3, ButtonKept
<1>5. CASE ClickUnconnected(s)
  <2> DEFINE sh == Rendered([sheet[s] EXCEPT !.error = TRUE])
  <2>1. sh.step = sheet[s].step
    BY <1>0 DEF Rendered, SheetStates
  <2>2. sheet' = [sheet EXCEPT ![s] = sh] /\ run' = run
    BY <1>5 DEF ClickUnconnected
  <2> HIDE DEF sh
  <2> QED
    BY <2>1, <2>2, ButtonKept
<1>6. CASE Click(s)
  <2> DEFINE sh == Rendered([sheet[s] EXCEPT !.error = FALSE, !.step = "quote"])
  <2>1. sh.step = "quote"
    BY <1>0 DEF Rendered, SheetStates
  <2>2. sheet' = [sheet EXCEPT ![s] = sh]
    BY <1>6 DEF Click
  <2>3. run'[s].pc = "quoting" /\ \A r \in Sheets \ {s} : run'[r] = run[r]
    BY <1>6 DEF Click, TypeOK
  <2> HIDE DEF sh
  <2> QED
    BY <2>1, <2>2, <2>3, ButtonStep
<1>7. CASE Decline(s)
  <2> DEFINE sh == Rendered([sheet[s] EXCEPT !.step = "idle"])
  <2>1. sh.step = "idle"
    BY <1>0 DEF Rendered, SheetStates
  <2>2. sheet' = [sheet EXCEPT ![s] = sh]
    BY <1>7 DEF Decline
  <2>3. run'[s].pc = "none" /\ \A r \in Sheets \ {s} : run'[r] = run[r]
    BY <1>7 DEF Decline, TypeOK, NoRun
  <2> HIDE DEF sh
  <2> QED
    BY <2>1, <2>2, <2>3, ButtonStep
<1>8. CASE Confirm(s)
  <2> DEFINE sh == Rendered([sheet[s] EXCEPT !.step = "sign"])
  <2>1. sh.step = "sign"
    BY <1>0 DEF Rendered, SheetStates
  <2>2. sheet' = [sheet EXCEPT ![s] = sh]
    BY <1>8 DEF Confirm
  <2>3. run'[s].pc = "building" /\ \A r \in Sheets \ {s} : run'[r] = run[r]
    BY <1>8 DEF Confirm, TypeOK
  <2> HIDE DEF sh
  <2> QED
    BY <2>1, <2>2, <2>3, ButtonStep
<1> QED
  BY <1>1, <1>2, <1>3, <1>4, <1>5, <1>6, <1>7, <1>8 DEF Buyer

LEMMA AnswerButtons ==
  ASSUME TypeOK, Buttons, NEW s \in Sheets, Answer(s)
  PROVE  Buttons'
<1>0. sheet[s] \in SheetStates /\ run[s] \in RunStates /\ Button(s)
  BY DEF TypeOK, Buttons
<1>1. CASE QuoteArrives(s)
  <2>1. PICK t \in Terms :
          /\ sheet' = [sheet EXCEPT ![s].total = <<run[s].query.quantity, t>>]
          /\ run' = [run EXCEPT
               ![s] = [pc |-> "confirming", payer |-> @.payer, query |-> @.query,
                       quote |-> <<run[s].query.quantity, t>>]]
    BY <1>1 DEF QuoteArrives
  <2> DEFINE sh == [sheet[s] EXCEPT !.total = <<run[s].query.quantity, t>>]
  <2>2. sh.step = "quote"
    BY <1>0, <1>1 DEF QuoteArrives, Button, SheetStates
  <2>3. sheet' = [sheet EXCEPT ![s] = sh]
    BY <2>1
  <2>4. run'[s].pc = "confirming" /\ \A r \in Sheets \ {s} : run'[r] = run[r]
    BY <2>1 DEF TypeOK
  <2> HIDE DEF sh
  <2> QED
    BY <2>2, <2>3, <2>4, ButtonStep
<1>2. CASE QuoteFails(s) \/ BuildFails(s) \/ SigningFails(s) \/ PaymentRefused(s) \/ AnswerLost(s)
  BY <1>2, FailButtons DEF QuoteFails, BuildFails, SigningFails, PaymentRefused, AnswerLost
<1>3. CASE TransactionBuilt(s) \/ Sign(s)
  <2>1. sheet[s].step = "sign"
    BY <1>0, <1>3 DEF TransactionBuilt, Sign, Button
  <2>2. sheet' = [sheet EXCEPT ![s] = sheet[s]]
    BY <1>3 DEF TransactionBuilt, Sign, TypeOK
  <2>3. run'[s].pc \in {"signing", "paying"} /\ \A r \in Sheets \ {s} : run'[r] = run[r]
    <3>1. CASE TransactionBuilt(s)
      <4>1. run[s] \in Signing
        BY <1>0, <3>1, RunKinds DEF TransactionBuilt
      <4> QED
        BY <3>1, <4>1 DEF TransactionBuilt, TypeOK, Signing
    <3>2. CASE Sign(s)
      BY <3>2 DEF Sign, TypeOK
    <3> QED
      BY <1>3, <3>1, <3>2
  <2> QED
    BY <2>1, <2>2, <2>3, ButtonStep
<1>4. CASE Delivered(s)
  <2> DEFINE sh == Rendered([sheet[s] EXCEPT !.step = "done", !.result = run[s].uid])
  <2>1. sh.step = "done"
    BY <1>0 DEF Rendered, SheetStates
  <2>2. sheet' = [sheet EXCEPT ![s] = sh]
    BY <1>4 DEF Delivered
  <2>3. run'[s].pc = "none" /\ \A r \in Sheets \ {s} : run'[r] = run[r]
    BY <1>4 DEF Delivered, TypeOK, NoRun
  <2> HIDE DEF sh
  <2> QED
    BY <2>1, <2>2, <2>3, ButtonStep
<1> QED
  BY <1>1, <1>2, <1>3, <1>4 DEF Answer

LEMMA ButtonsInvariant == Spec => []Buttons
<1>1. Init => Buttons
  <2> SUFFICES ASSUME Init, NEW s \in Sheets PROVE Button(s)
    BY DEF Buttons
  <2>1. sheet[s].step = "idle" /\ run[s].pc = "none"
    BY DEF Init, Unopened, NoRun
  <2> QED
    BY <2>1 DEF Button
<1>2. TypeOK /\ Buttons /\ [Next]_vars => Buttons'
  <2> SUFFICES ASSUME TypeOK, Buttons, [Next]_vars PROVE Buttons'
    OBVIOUS
  <2>1. CASE \E s \in Sheets : Buyer(s) \/ Answer(s)
    BY <2>1, BuyerButtons, AnswerButtons
  <2>2. CASE \/ \E p \in payments : SellerSettles(p) \/ SellerRefuses(p)
             \/ WalletChanges
             \/ UNCHANGED vars
    BY <2>2 DEF SellerSettles, SellerRefuses, WalletChanges, vars, Buttons, Button
  <2> QED
    BY <2>1, <2>2 DEF Next
<1> QED
  BY <1>1, <1>2, TypeCorrect, PTL DEF Spec

(* No way out of a purchase, be it an error, a cancel or a success, leaves the
   button wrong for what is running (PurchaseSheet.ts 53-60, 91-142). *)
THEOREM ButtonTrue == Spec => []ButtonFollowsRun
<1>1. TypeOK /\ Buttons => ButtonFollowsRun
  <2> SUFFICES ASSUME TypeOK, Buttons, NEW s \in Sheets
               PROVE  LET pc == run[s].pc IN
                      /\ sheet[s].step \in {"idle", "done"} <=> pc = "none"
                      /\ sheet[s].step # "done" =>
                           (1 \in Ticked(sheet[s].step) <=> pc \in {"building", "signing", "paying"})
    BY DEF ButtonFollowsRun
  <2>1. sheet[s].step \in {"idle", "quote", "sign", "done"}
    BY DEF TypeOK, SheetStates
  <2>2. 1 \in Ticked(sheet[s].step) <=> sheet[s].step \in {"sign", "done"}
    BY <2>1, TickedFirst
  <2> QED
    BY <2>1, <2>2 DEF Buttons, Button
<1> QED
  BY <1>1, TypeCorrect, ButtonsInvariant, PTL

----------------------------------------------------------------------------
(* Purchase sheets implement BuyerConsent: every payment that is taken was
   granted in a dialog, for the amount it named, and each grant is taken at
   most once.

   The mapping forgets who carries a grant, so a grant that is spent or lapses
   has to be carried by nobody else.  This is what drawing a new payment uid in
   every executePurchase gives: no two purchases under way, and no two paid
   GETs, share one. *)

Holds(s) == run[s].pc \in {"building", "signing"}

UidsDrawn ==
  /\ \A s \in Sheets : Holds(s) => run[s].uid <= uids
  /\ \A p \in payments : p.uid <= uids

UidsApart ==
  /\ \A r, s \in Sheets : Holds(r) /\ Holds(s) /\ run[r].uid = run[s].uid => r = s
  /\ \A s \in Sheets, p \in payments : Holds(s) => p.uid # run[s].uid
  /\ \A p, q \in payments : p.uid = q.uid => p = q

UidInv == TypeOK /\ UidsDrawn /\ UidsApart

LEMMA UidTypes ==
  ASSUME TypeOK
  PROVE  /\ uids \in Nat
         /\ \A s \in Sheets : Holds(s) => run[s] \in Signing /\ run[s].uid \in Nat
         /\ \A p \in payments : p \in Payments /\ p.uid \in Nat
  BY RunKinds DEF TypeOK, Holds, Signing, Payments

LEMMA InitUids == Init => UidInv
<1> SUFFICES ASSUME Init PROVE UidInv
  OBVIOUS
<1>1. payments = {} /\ \A s \in Sheets : ~Holds(s)
  BY DEF Init, Holds, NoRun
<1> QED
  BY <1>1, InitType DEF UidInv, UidsDrawn, UidsApart

(* A purchase that ends, or changes without taking up a payment. *)
LEMMA IdleUids ==
  ASSUME UidInv, TypeOK', NEW s \in Sheets, uids' = uids, payments' = payments,
         \A r \in Sheets \ {s} : run'[r] = run[r],
         Holds(s)' => Holds(s) /\ run'[s].uid = run[s].uid
  PROVE  UidInv'
<1>1. \A r \in Sheets : Holds(r)' => Holds(r) /\ run'[r].uid = run[r].uid
  BY DEF Holds
<1>2. UidsDrawn'
  BY <1>1 DEF UidInv, UidsDrawn
<1>3. UidsApart'
  BY <1>1 DEF UidInv, UidsApart
<1> QED
  BY <1>2, <1>3 DEF UidInv

LEMMA ConfirmUids ==
  ASSUME UidInv, TypeOK', NEW s \in Sheets, Confirm(s)
  PROVE  UidInv'
<1>0. TypeOK /\ UidsDrawn /\ UidsApart
  BY DEF UidInv
<1>1. /\ uids' = uids + 1
      /\ payments' = payments
      /\ run'[s].uid = uids + 1
      /\ \A r \in Sheets \ {s} : run'[r] = run[r]
  BY <1>0 DEF Confirm, TypeOK
<1>2. \A r \in Sheets \ {s} : Holds(r)' => Holds(r) /\ run'[r].uid = run[r].uid
  BY <1>1 DEF Holds
<1>3. uids \in Nat /\ \A r \in Sheets : Holds(r) => run[r].uid \in Nat /\ run[r].uid <= uids
  BY <1>0, UidTypes DEF UidsDrawn
<1>4. \A p \in payments : p.uid \in Nat /\ p.uid <= uids
  BY <1>0, UidTypes DEF UidsDrawn
<1>5. UidsDrawn'
  BY <1>1, <1>2, <1>3, <1>4 DEF UidsDrawn
<1>6. UidsApart'
  <2>1. \A r, t \in Sheets : Holds(r)' /\ Holds(t)' /\ run'[r].uid = run'[t].uid => r = t
    <3> SUFFICES ASSUME NEW r \in Sheets, NEW t \in Sheets, Holds(r)', Holds(t)',
                        run'[r].uid = run'[t].uid, r # t
                 PROVE  FALSE
      OBVIOUS
    <3>1. CASE r # s /\ t # s
      BY <1>0, <1>2, <3>1 DEF UidsApart
    <3>2. CASE r = s
      BY <1>1, <1>2, <1>3, <3>2
    <3>3. CASE t = s
      BY <1>1, <1>2, <1>3, <3>3
    <3> QED
      BY <3>1, <3>2, <3>3
  <2>2. \A r \in Sheets, p \in payments' : Holds(r)' => p.uid # run'[r].uid
    <3> SUFFICES ASSUME NEW r \in Sheets, NEW p \in payments, Holds(r)'
                 PROVE  p.uid # run'[r].uid
      BY <1>1
    <3>1. CASE r = s
      BY <1>1, <1>3, <1>4, <3>1
    <3>2. CASE r # s
      BY <1>0, <1>2, <3>2 DEF UidsApart
    <3> QED
      BY <3>1, <3>2
  <2> QED
    BY <1>0, <1>1, <2>1, <2>2 DEF UidsApart
<1> QED
  BY <1>5, <1>6 DEF UidInv

LEMMA SignUids ==
  ASSUME UidInv, TypeOK', NEW s \in Sheets, Sign(s)
  PROVE  UidInv'
<1>0. TypeOK /\ UidsDrawn /\ UidsApart
  BY DEF UidInv
<1> DEFINE new == [sheet |-> s, uid |-> run[s].uid, payer |-> run[s].payer,
                   signer |-> wallet, query |-> run[s].query, paid |-> run[s].quote,
                   sla |-> run[s].sla, asked |-> run[s].asked, fate |-> "sent"]
<1>1. uids' = uids /\ payments' = payments \union {new} /\ Holds(s)
  BY DEF Sign, Holds
<1>2. new.uid = run[s].uid
  OBVIOUS
<1>3. \A r \in Sheets : Holds(r)' => r # s /\ Holds(r) /\ run'[r].uid = run[r].uid
  BY <1>0 DEF Sign, Holds, TypeOK
<1> HIDE DEF new
<1>4. UidsDrawn'
  BY <1>0, <1>1, <1>2, <1>3 DEF UidsDrawn
<1>5. UidsApart'
  <2>1. \A r, t \in Sheets : Holds(r)' /\ Holds(t)' /\ run'[r].uid = run'[t].uid => r = t
    BY <1>0, <1>3 DEF UidsApart
  <2>2. \A r \in Sheets, p \in payments' : Holds(r)' => p.uid # run'[r].uid
    BY <1>0, <1>1, <1>2, <1>3 DEF UidsApart
  <2>3. \A p, q \in payments' : p.uid = q.uid => p = q
    BY <1>0, <1>1, <1>2 DEF UidsApart
  <2> QED
    BY <2>1, <2>2, <2>3 DEF UidsApart
<1> QED
  BY <1>4, <1>5 DEF UidInv

(* The seller changes what became of a payment, or forgets it. *)
LEMMA SellerUids ==
  ASSUME UidInv, TypeOK', NEW p \in payments, SellerSettles(p) \/ SellerRefuses(p)
  PROVE  UidInv'
<1>0. TypeOK /\ UidsDrawn /\ UidsApart
  BY DEF UidInv
<1>1. uids' = uids /\ run' = run
  BY DEF SellerSettles, SellerRefuses
<1>2. PICK new : new.uid = p.uid /\ payments' \subseteq (payments \ {p}) \union {new}
  <2>1. CASE SellerRefuses(p)
    BY <2>1 DEF SellerRefuses
  <2>2. CASE SellerSettles(p)
    <3>1. PICK fate \in Fates \ {"sent"} :
            payments' = (payments \ {p}) \union {[p EXCEPT !.fate = fate]}
      BY <2>2 DEF SellerSettles
    <3>2. [p EXCEPT !.fate = fate].uid = p.uid
      BY <1>0, UidTypes DEF Payments
    <3> QED
      BY <3>1, <3>2
  <2> QED
    BY <2>1, <2>2
<1>3. UidsDrawn'
  BY <1>0, <1>1, <1>2 DEF UidsDrawn, Holds
<1>4. UidsApart'
  BY <1>0, <1>1, <1>2 DEF UidsApart, Holds
<1> QED
  BY <1>3, <1>4 DEF UidInv

LEMMA BuyerUids ==
  ASSUME UidInv, TypeOK', NEW s \in Sheets, Buyer(s)
  PROVE  UidInv'
<1>0. TypeOK
  BY DEF UidInv
<1>1. CASE Confirm(s)
  BY <1>1, ConfirmUids
<1>2. CASE Open(s) \/ Close(s) \/ TypeQuantity(s) \/ StepQuantity(s) \/ ClickUnconnected(s)
  <2>1. uids' = uids /\ payments' = payments /\ run' = run
    BY <1>2 DEF Open, Close, TypeQuantity, StepQuantity, ClickUnconnected
  <2> QED
    BY <2>1, IdleUids DEF Holds
<1>3. CASE Click(s) \/ Decline(s)
  <2>1. /\ uids' = uids /\ payments' = payments
        /\ \A r \in Sheets \ {s} : run'[r] = run[r]
        /\ run'[s].pc \in {"none", "quoting"}
    BY <1>0, <1>3 DEF Click, Decline, NoRun, TypeOK
  <2> QED
    BY <2>1, IdleUids DEF Holds
<1> QED
  BY <1>1, <1>2, <1>3 DEF Buyer

LEMMA AnswerUids ==
  ASSUME UidInv, TypeOK', NEW s \in Sheets, Answer(s)
  PROVE  UidInv'
<1>0. TypeOK
  BY DEF UidInv
<1>1. CASE Sign(s)
  BY <1>1, SignUids
<1>2. CASE TransactionBuilt(s)
  <2>1. run[s] \in Signing
    BY <1>0, <1>2, RunKinds DEF TransactionBuilt, TypeOK
  <2>2. /\ uids' = uids /\ payments' = payments
        /\ \A r \in Sheets \ {s} : run'[r] = run[r]
        /\ run'[s].uid = run[s].uid
    BY <1>0, <1>2, <2>1 DEF TransactionBuilt, TypeOK, Signing
  <2>3. Holds(s)
    BY <1>2 DEF TransactionBuilt, Holds
  <2> QED
    BY <2>2, <2>3, IdleUids
<1>3. CASE \/ QuoteArrives(s) \/ QuoteFails(s) \/ BuildFails(s) \/ SigningFails(s)
           \/ Delivered(s) \/ PaymentRefused(s) \/ AnswerLost(s)
  <2>1. /\ uids' = uids /\ payments' = payments
        /\ \A r \in Sheets \ {s} : run'[r] = run[r]
        /\ run'[s].pc \in {"none", "confirming"}
    BY <1>0, <1>3 DEF QuoteArrives, QuoteFails, BuildFails, SigningFails, Delivered,
                      PaymentRefused, AnswerLost, Fail, NoRun, TypeOK
  <2> QED
    BY <2>1, IdleUids DEF Holds
<1> QED
  BY <1>1, <1>2, <1>3 DEF Answer

LEMMA NextUids ==
  ASSUME UidInv, [Next]_vars
  PROVE  UidInv'
<1>1. TypeOK'
  BY NextType DEF UidInv
<1>2. CASE \E s \in Sheets : Buyer(s) \/ Answer(s)
  BY <1>1, <1>2, BuyerUids, AnswerUids
<1>3. CASE \E p \in payments : SellerSettles(p) \/ SellerRefuses(p)
  BY <1>1, <1>3, SellerUids
<1>4. CASE WalletChanges \/ UNCHANGED vars
  <2>1. uids' = uids /\ payments' = payments /\ run' = run
    BY <1>4 DEF WalletChanges, vars
  <2> QED
    BY <1>1, <2>1 DEF UidInv, UidsDrawn, UidsApart, Holds
<1> QED
  BY <1>2, <1>3, <1>4 DEF Next

(* No two purchases under way, and no two payments, have a uid in common. *)
LEMMA UidInvariant == Spec => []UidInv
<1>1. Init => UidInv
  BY InitUids
<1>2. UidInv /\ [Next]_vars => UidInv'
  BY NextUids
<1> QED
  BY <1>1, <1>2, PTL DEF Spec

-----------------------------------------------------------------------------
(* What the mapped variables become. *)

LEMMA AskedIsConfirmed ==
  ASSUME TypeOK, NEW s \in Sheets
  PROVE  (run[s].pc = "confirming" => Asked[s] = run[s].quote /\ Asked[s] \in Sessions)
         /\ (run[s].pc # "confirming" => Asked[s] = None)
<1>1. run[s].pc = "confirming" => run[s].quote \in Sessions
  BY RunKinds DEF TypeOK, Confirming
<1> QED
  BY <1>1 DEF Asked

LEMMA NoneIsNoSession == None \notin Sessions
  BY PurchaseSheetAssumption DEF Sessions, Quantities

(* Only s may answer or be answered. *)
LEMMA AskedSame ==
  ASSUME NEW s \in Sheets, \A r \in Sheets \ {s} : run'[r] = run[r],
         run[s].pc # "confirming", run'[s].pc # "confirming"
  PROVE  Asked' = Asked
<1>1. \A r \in Sheets : (run'[r].pc = "confirming") = (run[r].pc = "confirming")
  OBVIOUS
<1>2. \A r \in Sheets : run[r].pc = "confirming" => run'[r].quote = run[r].quote
  OBVIOUS
<1> QED
  BY <1>1, <1>2 DEF Asked

LEMMA AskedAt ==
  ASSUME NEW s \in Sheets, \A r \in Sheets \ {s} : run'[r] = run[r]
  PROVE  Asked' = [Asked EXCEPT ![s] = IF run'[s].pc = "confirming" THEN run'[s].quote
                                                                    ELSE None]
  BY DEF Asked

LEMMA CarriedSame ==
  ASSUME NEW s \in Sheets, \A r \in Sheets \ {s} : run'[r] = run[r],
         Holds(s)' = Holds(s),
         Holds(s) => run'[s].uid = run[s].uid /\ run'[s].quote = run[s].quote
  PROVE  Carried' = Carried
<1>1. \A r \in Sheets : Holds(r)' = Holds(r)
  BY DEF Holds
<1>2. \A r \in Sheets : Holds(r) => run'[r].uid = run[r].uid /\ run'[r].quote = run[r].quote
  OBVIOUS
<1>3. \A g : g \in Carried' <=> \E r \in Sheets : Holds(r)' /\ g = GrantHeld(r)'
  BY DEF Carried, Holds
<1>4. \A g : g \in Carried <=> \E r \in Sheets : Holds(r) /\ g = GrantHeld(r)
  BY DEF Carried, Holds
<1>5. \A r \in Sheets : Holds(r) => GrantHeld(r)' = GrantHeld(r)
  BY <1>2 DEF GrantHeld
<1> QED
  BY <1>1, <1>3, <1>4, <1>5

LEMMA CarriedTakenUp ==
  ASSUME NEW s \in Sheets, \A r \in Sheets \ {s} : run'[r] = run[r], ~Holds(s), Holds(s)'
  PROVE  Carried' = Carried \union {GrantHeld(s)'}
<1>1. \A r \in Sheets \ {s} : Holds(r)' = Holds(r) /\ GrantHeld(r)' = GrantHeld(r)
  BY DEF Holds, GrantHeld
<1>2. \A g : g \in Carried' <=> \E r \in Sheets : Holds(r)' /\ g = GrantHeld(r)'
  BY DEF Carried, Holds
<1>3. \A g : g \in Carried <=> \E r \in Sheets : Holds(r) /\ g = GrantHeld(r)
  BY DEF Carried, Holds
<1> QED
  BY <1>1, <1>2, <1>3

LEMMA CarriedLaidDown ==
  ASSUME NEW s \in Sheets, \A r \in Sheets \ {s} : run'[r] = run[r], Holds(s), ~Holds(s)'
  PROVE  Carried' = Carried \ {GrantHeld(s)} /\ GrantHeld(s) \in Carried
<1>1. \A r \in Sheets \ {s} : Holds(r)' = Holds(r) /\ GrantHeld(r)' = GrantHeld(r)
  BY DEF Holds, GrantHeld
<1>2. \A g : g \in Carried' <=> \E r \in Sheets : Holds(r)' /\ g = GrantHeld(r)'
  BY DEF Carried, Holds
<1>3. \A g : g \in Carried <=> \E r \in Sheets : Holds(r) /\ g = GrantHeld(r)
  BY DEF Carried, Holds
<1>4. \A r \in Sheets \ {s} : GrantHeld(r) # GrantHeld(s)
  BY DEF GrantHeld
<1> QED
  BY <1>1, <1>2, <1>3, <1>4

LEMMA MoneySame == payments' = payments => Pending' = Pending /\ Spent' = Spent
  BY DEF Pending, Spent, Settled, GrantOf

(* A grant is carried by a purchase or by a payment, by one of them only. *)
LEMMA HeldOnce ==
  ASSUME UidInv
  PROVE  /\ \A s \in Sheets : Holds(s) => GrantHeld(s) \notin Pending
         /\ \A p \in payments : GrantOf(p) \notin Carried
<1>1. \A s \in Sheets, p \in payments : Holds(s) => GrantHeld(s) # GrantOf(p)
  BY DEF UidInv, UidsApart, GrantHeld, GrantOf
<1> QED
  BY <1>1 DEF Pending, Carried, Holds

LEMMA PendingLaidDown ==
  ASSUME UidInv, NEW p \in payments, p.fate = "sent",
         \A q : q.fate = "sent" => (q \in payments' <=> q \in payments \ {p})
  PROVE  Pending' = Pending \ {GrantOf(p)} /\ GrantOf(p) \in Pending
<1>1. \A q \in payments \ {p} : GrantOf(q) # GrantOf(p)
  BY DEF UidInv, UidsApart, GrantOf
<1>2. \A g : g \in Pending <=> \E q \in payments : q.fate = "sent" /\ g = GrantOf(q)
  BY DEF Pending
<1>3. \A g : g \in Pending' <=> \E q \in payments' : q.fate = "sent" /\ g = GrantOf(q)
  BY DEF Pending, GrantOf
<1> QED
  BY <1>1, <1>2, <1>3

-----------------------------------------------------------------------------
(* One step per action. *)

Simulated == Consent!Next \/ UNCHANGED Consent!consentVars

LEMMA Stutters ==
  ASSUME uids' = uids, Asked' = Asked, Carried' = Carried, Pending' = Pending, Spent' = Spent
  PROVE  Simulated
  BY DEF Simulated, Consent!consentVars

LEMMA QuoteArrivesSimulated ==
  ASSUME UidInv, NEW s \in Sheets, QuoteArrives(s)
  PROVE  Simulated
<1>0. TypeOK
  BY DEF UidInv
<1>1. PICK t \in Terms :
        run' = [run EXCEPT ![s] = [pc |-> "confirming", payer |-> @.payer, query |-> @.query,
                                   quote |-> <<run[s].query.quantity, t>>]]
  BY DEF QuoteArrives
<1>2. run[s] \in Quoting
  BY <1>0, RunKinds DEF QuoteArrives, TypeOK
<1>3. <<run[s].query.quantity, t>> \in Sessions
  BY <1>2 DEF Quoting, Queries, Sessions
<1>4. /\ run'[s].pc = "confirming"
      /\ run'[s].quote = <<run[s].query.quantity, t>>
      /\ \A r \in Sheets \ {s} : run'[r] = run[r]
  BY <1>0, <1>1 DEF TypeOK
<1>5. Asked[s] = None
  BY <1>0, AskedIsConfirmed DEF QuoteArrives
<1>6. Asked' = [Asked EXCEPT ![s] = <<run[s].query.quantity, t>>]
  BY <1>4, AskedAt
<1>7. Carried' = Carried
  BY <1>4, CarriedSame DEF Holds, QuoteArrives
<1>8. uids' = uids /\ Pending' = Pending /\ Spent' = Spent
  BY MoneySame DEF QuoteArrives
<1>9. Consent!Ask(s)
  BY <1>3, <1>5, <1>6, <1>7, <1>8 DEF Consent!Ask
<1> QED
  BY <1>9 DEF Simulated, Consent!Next

LEMMA DeclineSimulated ==
  ASSUME UidInv, NEW s \in Sheets, Decline(s)
  PROVE  Simulated
<1>0. TypeOK
  BY DEF UidInv
<1>1. run'[s].pc = "none" /\ \A r \in Sheets \ {s} : run'[r] = run[r]
  BY <1>0 DEF Decline, TypeOK, NoRun
<1>2. Asked[s] # None
  BY <1>0, AskedIsConfirmed, NoneIsNoSession DEF Decline
<1>3. Asked' = [Asked EXCEPT ![s] = None]
  BY <1>1, AskedAt
<1>4. Carried' = Carried
  BY <1>1, CarriedSame DEF Holds, Decline
<1>5. uids' = uids /\ Pending' = Pending /\ Spent' = Spent
  BY MoneySame DEF Decline
<1>6. Consent!Decline(s)
  BY <1>2, <1>3, <1>4, <1>5 DEF Consent!Decline
<1> QED
  BY <1>6 DEF Simulated, Consent!Next

LEMMA ConfirmSimulated ==
  ASSUME UidInv, NEW s \in Sheets, Confirm(s)
  PROVE  Simulated
<1>0. TypeOK
  BY DEF UidInv
<1>1. /\ run'[s].pc = "building"
      /\ run'[s].uid = uids + 1
      /\ run'[s].quote = run[s].quote
      /\ \A r \in Sheets \ {s} : run'[r] = run[r]
  BY <1>0 DEF Confirm, TypeOK
<1>2. Asked[s] = run[s].quote /\ Asked[s] # None
  BY <1>0, AskedIsConfirmed, NoneIsNoSession DEF Confirm
<1>3. Asked' = [Asked EXCEPT ![s] = None]
  BY <1>1, AskedAt
<1>4. Carried' = Carried \union {GrantHeld(s)'}
  BY <1>1, CarriedTakenUp DEF Holds, Confirm
<1>5. GrantHeld(s)' = [sheet |-> s, number |-> uids + 1, amount |-> Asked[s]]
  BY <1>1, <1>2 DEF GrantHeld
<1>6. uids' = uids + 1 /\ Pending' = Pending /\ Spent' = Spent
  BY MoneySame DEF Confirm
<1>7. (Carried \union Pending)'
        = (Carried \union Pending) \union {[sheet |-> s, number |-> uids + 1,
                                            amount |-> Asked[s]]}
  BY <1>4, <1>5, <1>6
<1>8. Consent!Grant(s)
  BY <1>2, <1>3, <1>6, <1>7 DEF Consent!Grant
<1> QED
  BY <1>8 DEF Simulated, Consent!Next

(* The purchase ends before it has sent a payment. *)
LEMMA HeldLapses ==
  ASSUME UidInv, NEW s \in Sheets, BuildFails(s) \/ SigningFails(s)
  PROVE  Simulated
<1>0. TypeOK
  BY DEF UidInv
<1>1. run'[s].pc = "none" /\ \A r \in Sheets \ {s} : run'[r] = run[r]
  BY <1>0 DEF BuildFails, SigningFails, Fail, TypeOK, NoRun
<1>2. run[s].pc \in {"building", "signing"}
  BY DEF BuildFails, SigningFails
<1>3. Asked' = Asked
  BY <1>1, <1>2, AskedSame
<1>4. Carried' = Carried \ {GrantHeld(s)} /\ GrantHeld(s) \in Carried
  BY <1>1, <1>2, CarriedLaidDown DEF Holds
<1>5. uids' = uids /\ Pending' = Pending /\ Spent' = Spent
  BY MoneySame DEF BuildFails, SigningFails, Fail
<1>6. GrantHeld(s) \notin Pending
  BY <1>2, HeldOnce DEF Holds
<1>7. (Carried \union Pending)' = (Carried \union Pending) \ {GrantHeld(s)}
  BY <1>4, <1>5, <1>6
<1>8. Consent!Lapse(GrantHeld(s))
  BY <1>3, <1>5, <1>7 DEF Consent!Lapse
<1> QED
  BY <1>4, <1>8 DEF Simulated, Consent!Next

(* The grant goes from the purchase to the payment. *)
LEMMA SignSimulated ==
  ASSUME UidInv, NEW s \in Sheets, Sign(s)
  PROVE  Simulated
<1>0. TypeOK
  BY DEF UidInv
<1> DEFINE new == [sheet |-> s, uid |-> run[s].uid, payer |-> run[s].payer,
                   signer |-> wallet, query |-> run[s].query, paid |-> run[s].quote,
                   sla |-> run[s].sla, asked |-> run[s].asked, fate |-> "sent"]
<1>1. uids' = uids /\ payments' = payments \union {new}
  BY DEF Sign
<1>2. new.fate = "sent" /\ GrantOf(new) = GrantHeld(s)
  BY DEF GrantOf, GrantHeld
<1>3. run'[s].pc = "paying" /\ \A r \in Sheets \ {s} : run'[r] = run[r]
  BY <1>0 DEF Sign, TypeOK
<1> HIDE DEF new
<1>4. Asked' = Asked
  BY <1>3, AskedSame DEF Sign
<1>5. Carried' = Carried \ {GrantHeld(s)} /\ GrantHeld(s) \in Carried
  BY <1>3, CarriedLaidDown DEF Holds, Sign
<1>6. Pending' = Pending \union {GrantHeld(s)}
  <2>1. \A g : g \in Pending <=> \E q \in payments : q.fate = "sent" /\ g = GrantOf(q)
    BY DEF Pending
  <2>2. \A g : g \in Pending' <=> \E q \in payments' : q.fate = "sent" /\ g = GrantOf(q)
    BY DEF Pending, GrantOf
  <2> QED
    BY <1>1, <1>2, <2>1, <2>2
<1>7. Spent' = Spent
  <2>1. Settled' = Settled
    BY <1>1, <1>2 DEF Settled
  <2> QED
    BY <2>1 DEF Spent, GrantOf
<1>8. (Carried \union Pending)' = Carried \union Pending
  BY <1>5, <1>6
<1> QED
  BY <1>1, <1>4, <1>7, <1>8 DEF Simulated, Consent!consentVars

(* The seller takes the money, or refuses it. *)
LEMMA SellerSimulated ==
  ASSUME UidInv, NEW p \in payments, SellerSettles(p) \/ SellerRefuses(p)
  PROVE  Simulated
<1>0. TypeOK
  BY DEF UidInv
<1>1. uids' = uids /\ run' = run /\ p.fate = "sent"
  BY DEF SellerSettles, SellerRefuses
<1>2. Asked' = Asked /\ Carried' = Carried
  BY <1>1 DEF Asked, Carried, GrantHeld
<1>3. GrantOf(p) \notin Carried
  BY HeldOnce
<1>4. CASE SellerRefuses(p)
  <2>1. payments' = payments \ {p}
    BY <1>4 DEF SellerRefuses
  <2>2. Pending' = Pending \ {GrantOf(p)} /\ GrantOf(p) \in Pending
    <3>1. \A q : q.fate = "sent" => (q \in payments' <=> q \in payments \ {p})
      BY <2>1
    <3> QED
      BY <1>1, <3>1, PendingLaidDown
  <2>3. Spent' = Spent
    <3>1. Settled' = Settled
      BY <1>1, <2>1 DEF Settled
    <3> QED
      BY <3>1 DEF Spent, GrantOf
  <2>4. (Carried \union Pending)' = (Carried \union Pending) \ {GrantOf(p)}
    BY <1>2, <1>3, <2>2
  <2>5. Consent!Lapse(GrantOf(p))
    BY <1>1, <1>2, <2>3, <2>4 DEF Consent!Lapse
  <2> QED
    BY <2>2, <2>5 DEF Simulated, Consent!Next
<1>5. CASE SellerSettles(p)
  <2>1. PICK fate \in Fates \ {"sent"} :
          payments' = (payments \ {p}) \union {[p EXCEPT !.fate = fate]}
    BY <1>5 DEF SellerSettles
  <2> DEFINE new == [p EXCEPT !.fate = fate]
  <2>2. new.fate = fate /\ GrantOf(new) = GrantOf(p)
    BY <1>0, UidTypes DEF Payments, GrantOf
  <2>3. new.fate \in {"undelivered", "delivered"}
    BY <2>2 DEF Fates
  <2>4. payments' = (payments \ {p}) \union {new}
    BY <2>1
  <2> HIDE DEF new
  <2>5. Pending' = Pending \ {GrantOf(p)} /\ GrantOf(p) \in Pending
    <3>1. \A q : q.fate = "sent" => (q \in payments' <=> q \in payments \ {p})
      BY <2>3, <2>4
    <3> QED
      BY <1>1, <3>1, PendingLaidDown
  <2>6. Spent' = Spent \union {GrantOf(p)}
    <3>1. Settled' = Settled \union {new}
      BY <1>1, <2>3, <2>4 DEF Settled
    <3>2. \A g : g \in Spent <=> \E q \in Settled : g = GrantOf(q)
      BY DEF Spent
    <3>3. \A g : g \in Spent' <=> \E q \in Settled' : g = GrantOf(q)
      BY DEF Spent, GrantOf
    <3> QED
      BY <2>2, <3>1, <3>2, <3>3
  <2>7. (Carried \union Pending)' = (Carried \union Pending) \ {GrantOf(p)}
    BY <1>2, <1>3, <2>5
  <2>8. Consent!Spend(GrantOf(p))
    BY <1>1, <1>2, <2>6, <2>7 DEF Consent!Spend
  <2> QED
    BY <2>5, <2>8 DEF Simulated, Consent!Next
<1> QED
  BY <1>4, <1>5

(* Steps no dialog and no payment takes part in. *)
LEMMA OthersSimulated ==
  ASSUME UidInv, Buttons, NEW s \in Sheets,
         \/ Click(s) \/ QuoteFails(s) \/ TransactionBuilt(s)
         \/ Delivered(s) \/ PaymentRefused(s) \/ AnswerLost(s)
  PROVE  Simulated
<1>0. TypeOK
  BY DEF UidInv
<1>1. uids' = uids /\ payments' = payments
  BY DEF Click, QuoteFails, TransactionBuilt, Delivered, PaymentRefused, AnswerLost, Fail
<1>2. \A r \in Sheets \ {s} : run'[r] = run[r]
  BY <1>0 DEF Click, QuoteFails, TransactionBuilt, Delivered, PaymentRefused, AnswerLost,
              Fail, TypeOK
<1>3. CASE TransactionBuilt(s)
  <2>1. run[s] \in Signing
    BY <1>0, <1>3, RunKinds DEF TransactionBuilt, TypeOK
  <2>2. run[s].pc = "building" /\ run'[s].pc = "signing"
    BY <1>0, <1>3, <2>1 DEF TransactionBuilt, TypeOK, Signing
  <2>3. run'[s].uid = run[s].uid /\ run'[s].quote = run[s].quote
    BY <1>0, <1>3, <2>1 DEF TransactionBuilt, TypeOK, Signing
  <2>4. Asked' = Asked /\ Carried' = Carried
    BY <1>2, <2>2, <2>3, AskedSame, CarriedSame DEF Holds
  <2> QED
    BY <1>1, <2>4, MoneySame, Stutters
<1>4. CASE ~TransactionBuilt(s)
  <2>1. run'[s].pc \in {"none", "quoting"}
    BY <1>0, <1>4 DEF Click, QuoteFails, Delivered, PaymentRefused, AnswerLost, Fail,
                      NoRun, TypeOK
  <2>2. run[s].pc \notin {"confirming", "building", "signing"}
    <3>1. CASE Click(s)
      BY <3>1 DEF Click, Clickable, Buttons, Button
    <3>2. CASE ~Click(s)
      BY <1>4, <3>2 DEF QuoteFails, Delivered, PaymentRefused, AnswerLost
    <3> QED
      BY <3>1, <3>2
  <2>3. Asked' = Asked /\ Carried' = Carried
    BY <1>2, <2>1, <2>2, AskedSame, CarriedSame DEF Holds
  <2> QED
    BY <1>1, <2>3, MoneySame, Stutters
<1> QED
  BY <1>3, <1>4

LEMMA StepSimulated ==
  ASSUME UidInv, Buttons, [Next]_vars
  PROVE  Simulated
<1>1. CASE \E s \in Sheets : Buyer(s) \/ Answer(s)
  <2> PICK s \in Sheets : Buyer(s) \/ Answer(s)
    BY <1>1
  <2>1. CASE QuoteArrives(s)
    BY <2>1, QuoteArrivesSimulated
  <2>2. CASE Decline(s)
    BY <2>2, DeclineSimulated
  <2>3. CASE Confirm(s)
    BY <2>3, ConfirmSimulated
  <2>4. CASE BuildFails(s) \/ SigningFails(s)
    BY <2>4, HeldLapses
  <2>5. CASE Sign(s)
    BY <2>5, SignSimulated
  <2>6. CASE \/ Click(s) \/ QuoteFails(s) \/ TransactionBuilt(s)
             \/ Delivered(s) \/ PaymentRefused(s) \/ AnswerLost(s)
    BY <2>6, OthersSimulated
  <2>7. CASE Open(s) \/ Close(s) \/ TypeQuantity(s) \/ StepQuantity(s) \/ ClickUnconnected(s)
    <3>1. uids' = uids /\ payments' = payments /\ run' = run
      BY <2>7 DEF Open, Close, TypeQuantity, StepQuantity, ClickUnconnected
    <3>2. Asked' = Asked /\ Carried' = Carried
      BY <3>1 DEF Asked, Carried, GrantHeld
    <3> QED
      BY <3>1, <3>2, MoneySame, Stutters
  <2> QED
    BY <2>1, <2>2, <2>3, <2>4, <2>5, <2>6, <2>7 DEF Buyer, Answer
<1>2. CASE \E p \in payments : SellerSettles(p) \/ SellerRefuses(p)
  BY <1>2, SellerSimulated
<1>3. CASE WalletChanges \/ UNCHANGED vars
  <2>1. uids' = uids /\ payments' = payments /\ run' = run
    BY <1>3 DEF WalletChanges, vars
  <2>2. Asked' = Asked /\ Carried' = Carried
    BY <2>1 DEF Asked, Carried, GrantHeld
  <2> QED
    BY <2>1, <2>2, MoneySame, Stutters
<1> QED
  BY <1>1, <1>2, <1>3 DEF Next

(* Every behaviour of the sheets is one in which each payment taken was granted
   by a yes to the amount it takes, and by no other (slaEscrow.ts 78-187,
   PurchaseSheet.ts 120-141). *)
THEOREM SheetsImplementConsent == Spec => ImplementsConsent
<1>1. Init => Consent!Init
  <2> SUFFICES ASSUME Init PROVE Consent!Init
    OBVIOUS
  <2>1. payments = {} /\ uids = 0 /\ \A s \in Sheets : run[s].pc = "none"
    BY DEF Init, NoRun
  <2>2. Asked = [s \in Sheets |-> None] /\ Carried = {} /\ Pending = {} /\ Spent = {}
    BY <2>1 DEF Asked, Carried, Pending, Spent, Settled
  <2> QED
    BY <2>1, <2>2 DEF Consent!Init
<1>2. UidInv /\ Buttons /\ [Next]_vars => [Consent!Next]_(Consent!consentVars)
  BY StepSimulated DEF Simulated
<1>3. Spec => [](UidInv /\ Buttons)
  BY UidInvariant, ButtonsInvariant, PTL
<1> QED
  BY <1>1, <1>2, <1>3, PTL DEF Spec, ImplementsConsent, Consent!Spec

-----------------------------------------------------------------------------
(* What a sheet shows when it reports success. *)

(* The sheet, if it was not edited since, shows what p paid for. *)
Agrees(s, p) ==
  sheet[s].nonce = p.query.nonce =>
    sheet[s].quantity = p.query.quantity /\ sheet[s].total = p.paid

(* The same of a purchase under way, of the payment it waits for, and of the
   one whose delivery is reported. *)
Shown(s) ==
  /\ run[s].pc \in {"confirming", "building", "signing"} =>
       /\ run[s].query.nonce <= nonces
       /\ sheet[s].nonce = run[s].query.nonce =>
            sheet[s].quantity = run[s].query.quantity /\ sheet[s].total = run[s].quote
  /\ run[s].pc = "paying" => \A p \in Sent(s) : Agrees(s, p)
  /\ sheet[s].step = "done" =>
       \E p \in payments :
         p.sheet = s /\ p.uid = sheet[s].result /\ p.fate = "delivered" /\ Agrees(s, p)

SheetsShown ==
  /\ \A p \in payments : p.query.nonce <= nonces
  /\ \A s \in Sheets : Shown(s)

ShownBase == SheetInv /\ UidInv /\ Buttons /\ SheetsShown

LEMMA PaymentNonces ==
  ASSUME TypeOK
  PROVE  /\ nonces \in Nat
         /\ \A p \in payments : p \in Payments /\ p.query.nonce \in Nat
         /\ \A s \in Sheets : run[s].pc \in {"quoting", "confirming", "building", "signing"} =>
              run[s].query.nonce \in Nat
  BY RunKinds DEF TypeOK, Payments, Queries, Quoting, Confirming, Signing

LEMMA OthersShown ==
  ASSUME TypeOK, NEW r \in Sheets, Shown(r), sheet'[r] = sheet[r], run'[r] = run[r],
         nonces' \in {nonces, nonces + 1},
         \A p \in payments : p.sheet = r => p \in payments',
         \A p \in payments' : p.sheet = r => p \in payments
  PROVE  Shown(r)'
<1>1. nonces <= nonces' /\ nonces' \in Nat
  BY DEF TypeOK
<1>2. \A p \in payments : Agrees(r, p)' <=> Agrees(r, p)
  BY DEF Agrees
<1> QED
  BY <1>1, <1>2, PaymentNonces DEF Shown, Sent

(* An edit: no payment and no purchase has the new nonce. *)
LEMMA EditShown ==
  ASSUME ShownBase, NEW s \in Sheets, NEW sh, sh.nonce = nonces + 1,
         sh.step = sheet[s].step, sh.result = sheet[s].result,
         sheet' = [sheet EXCEPT ![s] = sh], run' = run, payments' = payments, Draw
  PROVE  SheetsShown'
<1>0. TypeOK /\ nonces' = nonces + 1 /\ sheet'[s] = sh
  BY DEF ShownBase, SheetInv, TypeOK, Draw
<1>1. \A p \in payments : p.query.nonce <= nonces /\ p.query.nonce <= nonces' /\ Agrees(s, p)'
  BY <1>0, PaymentNonces DEF ShownBase, SheetsShown, Agrees
<1>2. Shown(s)'
  BY <1>0, <1>1, PaymentNonces DEF ShownBase, SheetsShown, Shown, Sent
<1>3. ASSUME NEW r \in Sheets \ {s} PROVE Shown(r)'
  BY <1>0, OthersShown DEF ShownBase, SheetsShown, TypeOK
<1> QED BY <1>1, <1>2, <1>3 DEF SheetsShown

(* A step of s that leaves the nonces and the payments alone. *)
LEMMA OneShown ==
  ASSUME ShownBase, NEW s \in Sheets, Shown(s)', UNCHANGED <<nonces, payments>>,
         \A r \in Sheets \ {s} : sheet'[r] = sheet[r] /\ run'[r] = run[r]
  PROVE  SheetsShown'
<1>1. ASSUME NEW r \in Sheets \ {s} PROVE Shown(r)'
  BY OthersShown DEF ShownBase, SheetInv, SheetsShown
<1> QED BY <1>1 DEF ShownBase, SheetsShown

(* No purchase has got as far as a quote, and none has ended well. *)
LEMMA NothingShown ==
  ASSUME NEW s, run'[s].pc \in {"none", "quoting"}, sheet'[s].step # "done"
  PROVE  Shown(s)'
  BY DEF Shown

LEMMA FailShown ==
  ASSUME ShownBase, NEW s \in Sheets, Fail(s)
  PROVE  SheetsShown'
<1>1. /\ run'[s].pc = "none" /\ sheet'[s].step = "idle"
      /\ \A r \in Sheets \ {s} : sheet'[r] = sheet[r] /\ run'[r] = run[r]
  BY DEF ShownBase, SheetInv, TypeOK, Fail, Failed, Rendered, SheetStates, NoRun
<1> QED BY <1>1, NothingShown, OneShown DEF Fail

LEMMA BuyerShown ==
  ASSUME ShownBase, NEW s \in Sheets, Buyer(s)
  PROVE  SheetsShown'
<1>0. TypeOK /\ sheet[s] \in SheetStates /\ Shown(s)
  BY DEF ShownBase, SheetInv, SheetsShown, TypeOK
<1>1. CASE Open(s)
  <2> DEFINE sh == Rendered([sheet[s] EXCEPT !.shown = "open", !.nonce = nonces + 1])
  <2>1. sh.nonce = nonces + 1 /\ sh.step = sheet[s].step /\ sh.result = sheet[s].result
    BY <1>0 DEF Rendered, SheetStates
  <2>2. sheet' = [sheet EXCEPT ![s] = sh] /\ run' = run /\ Draw /\ payments' = payments
    BY <1>1 DEF Open
  <2> HIDE DEF sh
  <2> QED BY <2>1, <2>2, EditShown
<1>2. CASE TypeQuantity(s)
  <2>1. PICK typed \in 0 .. MaxQuantity + 1 :
          sheet' = [sheet EXCEPT ![s] = Edited(@, Clamped(typed))]
    BY <1>2 DEF TypeQuantity
  <2> DEFINE sh == Edited(sheet[s], Clamped(typed))
  <2>2. sh.nonce = nonces + 1 /\ sh.step = sheet[s].step /\ sh.result = sheet[s].result
    BY <1>0 DEF Edited, SheetStates
  <2>3. sheet' = [sheet EXCEPT ![s] = sh] /\ run' = run /\ Draw /\ payments' = payments
    BY <1>2, <2>1 DEF TypeQuantity
  <2> HIDE DEF sh
  <2> QED BY <2>2, <2>3, EditShown
<1>3. CASE StepQuantity(s)
  <2>1. PICK d \in {-1, 1} :
          sheet' = [sheet EXCEPT ![s] = Rendered(Edited(@, Clamped(@.quantity + d)))]
    BY <1>3 DEF StepQuantity
  <2> DEFINE sh == Rendered(Edited(sheet[s], Clamped(sheet[s].quantity + d)))
  <2>2. sh.nonce = nonces + 1 /\ sh.step = sheet[s].step /\ sh.result = sheet[s].result
    BY <1>0 DEF Rendered, Edited, SheetStates
  <2>3. sheet' = [sheet EXCEPT ![s] = sh] /\ run' = run /\ Draw /\ payments' = payments
    BY <1>3, <2>1 DEF StepQuantity
  <2> HIDE DEF sh
  <2> QED BY <2>2, <2>3, EditShown
<1>4. CASE Close(s)
  <2>1. /\ sheet'[s].nonce = sheet[s].nonce
        /\ sheet'[s].quantity = sheet[s].quantity
        /\ sheet'[s].total = sheet[s].total
        /\ sheet'[s].step = sheet[s].step
        /\ sheet'[s].result = sheet[s].result
        /\ \A r \in Sheets \ {s} : sheet'[r] = sheet[r] /\ run'[r] = run[r]
        /\ UNCHANGED <<run, nonces, payments>>
    BY <1>0, <1>4 DEF Close, TypeOK, SheetStates
  <2>2. Shown(s)'
    BY <1>0, <2>1 DEF Shown, Sent, Agrees
  <2> QED BY <2>1, <2>2, OneShown
<1>5. CASE ClickUnconnected(s) \/ Click(s) \/ Decline(s)
  <2>1. /\ run'[s].pc \in {"none", "quoting"} /\ sheet'[s].step # "done"
        /\ \A r \in Sheets \ {s} : sheet'[r] = sheet[r] /\ run'[r] = run[r]
        /\ UNCHANGED <<nonces, payments>>
    <3>1. CASE ClickUnconnected(s)
      <4>1. run[s].pc = "none"
        BY <1>0, <3>1 DEF ClickUnconnected, Clickable, ShownBase, Buttons, Button
      <4> QED BY <1>0, <3>1, <4>1 DEF ClickUnconnected, Clickable, Rendered, TypeOK, SheetStates
    <3>2. CASE Click(s)
      BY <1>0, <3>2 DEF Click, Rendered, TypeOK, SheetStates
    <3>3. CASE Decline(s)
      BY <1>0, <3>3 DEF Decline, Rendered, TypeOK, SheetStates, NoRun
    <3> QED BY <1>5, <3>1, <3>2, <3>3
  <2> QED BY <2>1, NothingShown, OneShown
<1>6. CASE Confirm(s)
  <2>1. /\ sheet'[s].nonce = sheet[s].nonce
        /\ sheet'[s].quantity = sheet[s].quantity
        /\ sheet'[s].total = sheet[s].total
        /\ sheet'[s].step = "sign"
        /\ \A r \in Sheets \ {s} : sheet'[r] = sheet[r] /\ run'[r] = run[r]
        /\ UNCHANGED <<nonces, payments>>
    BY <1>0, <1>6 DEF Confirm, Rendered, TypeOK, SheetStates
  <2>2. run[s].pc = "confirming" /\ run'[s].pc = "building"
        /\ run'[s].query = run[s].query /\ run'[s].quote = run[s].quote
    BY <1>0, <1>6 DEF Confirm, TypeOK
  <2>3. Shown(s)'
    BY <1>0, <2>1, <2>2 DEF Shown
  <2> QED BY <2>1, <2>3, OneShown
<1> QED
  BY <1>1, <1>2, <1>3, <1>4, <1>5, <1>6 DEF Buyer

LEMMA AnswerShown ==
  ASSUME ShownBase, NEW s \in Sheets, Answer(s)
  PROVE  SheetsShown'
<1>0. /\ TypeOK /\ sheet[s] \in SheetStates /\ run[s] \in RunStates
      /\ Shown(s) /\ Button(s) /\ QuotingHonest(s)
  BY DEF ShownBase, SheetInv, SheetsShown, TypeOK, Buttons, RunsHonest
<1>1. CASE QuoteFails(s) \/ BuildFails(s) \/ SigningFails(s) \/ PaymentRefused(s) \/ AnswerLost(s)
  BY <1>1, FailShown DEF QuoteFails, BuildFails, SigningFails, PaymentRefused, AnswerLost
<1>2. CASE QuoteArrives(s)
  <2>1. PICK session :
          /\ sheet' = [sheet EXCEPT ![s].total = session]
          /\ run' = [run EXCEPT
               ![s] = [pc |-> "confirming", payer |-> @.payer, query |-> @.query, quote |-> session]]
    BY <1>2 DEF QuoteArrives
  <2>2. /\ sheet'[s].nonce = sheet[s].nonce
        /\ sheet'[s].quantity = sheet[s].quantity
        /\ sheet'[s].step = sheet[s].step
        /\ sheet'[s].total = session
        /\ run'[s].pc = "confirming" /\ run'[s].query = run[s].query /\ run'[s].quote = session
        /\ \A r \in Sheets \ {s} : sheet'[r] = sheet[r] /\ run'[r] = run[r]
    BY <1>0, <2>1 DEF TypeOK, SheetStates
  <2>3. run[s].pc = "quoting" /\ UNCHANGED <<nonces, payments>>
    BY <1>2 DEF QuoteArrives
  <2>4. sheet[s].step # "done"
    BY <1>0, <2>3 DEF Button
  <2>5. Shown(s)'
    BY <1>0, <2>2, <2>3, <2>4 DEF Shown, QuotingHonest
  <2> QED BY <2>2, <2>3, <2>5, OneShown
<1>3. CASE TransactionBuilt(s)
  <2>1. run[s] \in Signing
    BY <1>0, <1>3, RunKinds DEF TransactionBuilt
  <2>2. /\ run[s].pc = "building" /\ run'[s].pc = "signing"
        /\ run'[s].query = run[s].query /\ run'[s].quote = run[s].quote
        /\ UNCHANGED <<sheet, nonces, payments>>
        /\ \A r \in Sheets \ {s} : run'[r] = run[r]
    BY <1>0, <1>3, <2>1 DEF TransactionBuilt, TypeOK, Signing
  <2>3. sheet[s].step # "done"
    BY <1>0, <2>2 DEF Button
  <2>4. Shown(s)'
    BY <1>0, <2>2, <2>3 DEF Shown
  <2> QED BY <2>2, <2>4, OneShown
<1>4. CASE Sign(s)
  <2>1. /\ run[s].pc = "signing" /\ UNCHANGED <<sheet, nonces>>
        /\ run'[s].pc = "paying" /\ run'[s].uid = run[s].uid
        /\ \A r \in Sheets \ {s} : run'[r] = run[r]
    BY <1>0, <1>4 DEF Sign, TypeOK
  <2>2. PICK new :
          /\ payments' = payments \union {new}
          /\ new.sheet = s /\ new.query = run[s].query /\ new.paid = run[s].quote
    <3> DEFINE paid ==
          [sheet |-> s, uid |-> run[s].uid, payer |-> run[s].payer, signer |-> wallet,
           query |-> run[s].query, paid |-> run[s].quote, sla |-> run[s].sla,
           asked |-> run[s].asked, fate |-> "sent"]
    <3>1. payments' = payments \union {paid}
      BY <1>4 DEF Sign
    <3>2. paid.sheet = s /\ paid.query = run[s].query /\ paid.paid = run[s].quote
      OBVIOUS
    <3> HIDE DEF paid
    <3> QED BY <3>1, <3>2
  <2>3. \A p \in payments : p.uid # run[s].uid
    BY <2>1 DEF ShownBase, UidInv, UidsApart, Holds
  <2>4. sheet[s].step # "done"
    BY <1>0, <2>1 DEF Button
  <2>5. new.query.nonce <= nonces /\ Agrees(s, new)'
    BY <1>0, <2>1, <2>2 DEF Shown, Agrees
  <2>6. Shown(s)'
    BY <2>1, <2>2, <2>3, <2>4, <2>5 DEF Shown, Sent
  <2>7. ASSUME NEW r \in Sheets \ {s} PROVE Shown(r)'
    BY <1>0, <2>1, <2>2, OthersShown DEF ShownBase, SheetsShown
  <2> QED BY <2>1, <2>2, <2>5, <2>6, <2>7 DEF ShownBase, SheetsShown
<1>5. CASE Delivered(s)
  <2>1. PICK p \in Sent(s) : run[s].pc = "paying" /\ p.fate = "delivered"
    BY <1>5 DEF Delivered
  <2>2. /\ sheet'[s].nonce = sheet[s].nonce
        /\ sheet'[s].quantity = sheet[s].quantity
        /\ sheet'[s].total = sheet[s].total
        /\ sheet'[s].result = run[s].uid
        /\ run'[s].pc = "none"
        /\ UNCHANGED <<nonces, payments>>
        /\ \A r \in Sheets \ {s} : sheet'[r] = sheet[r] /\ run'[r] = run[r]
    BY <1>0, <1>5 DEF Delivered, Rendered, TypeOK, SheetStates, NoRun
  <2>3. Agrees(s, p)'
    BY <1>0, <2>1, <2>2 DEF Shown, Agrees
  <2>4. Shown(s)'
    BY <2>1, <2>2, <2>3 DEF Shown, Sent
  <2> QED BY <2>2, <2>4, OneShown
<1> QED
  BY <1>1, <1>2, <1>3, <1>4, <1>5 DEF Answer

LEMMA SellerShown ==
  ASSUME ShownBase, NEW p \in payments, SellerSettles(p) \/ SellerRefuses(p)
  PROVE  SheetsShown'
<1>0. TypeOK /\ p \in Payments /\ p.fate = "sent" /\ UNCHANGED <<sheet, run, nonces>>
  BY DEF ShownBase, SheetInv, TypeOK, SellerSettles, SellerRefuses
<1>1. PICK new :
        /\ new.sheet = p.sheet /\ new.uid = p.uid /\ new.query = p.query /\ new.paid = p.paid
        /\ payments' \subseteq (payments \ {p}) \union {new}
        /\ payments \ {p} \subseteq payments'
  <2>1. CASE SellerRefuses(p)
    BY <2>1 DEF SellerRefuses
  <2>2. CASE SellerSettles(p)
    <3>1. PICK fate \in Fates \ {"sent"} :
            payments' = (payments \ {p}) \union {[p EXCEPT !.fate = fate]}
      BY <2>2 DEF SellerSettles
    <3>2. /\ [p EXCEPT !.fate = fate].sheet = p.sheet
          /\ [p EXCEPT !.fate = fate].uid = p.uid
          /\ [p EXCEPT !.fate = fate].query = p.query
          /\ [p EXCEPT !.fate = fate].paid = p.paid
      BY <1>0 DEF Payments
    <3> QED BY <3>1, <3>2
  <2> QED BY <2>1, <2>2
<1>2. \A r \in Sheets : Agrees(r, p) => Agrees(r, new)'
  BY <1>0, <1>1 DEF Agrees
<1>3. \A r \in Sheets, q \in payments : Agrees(r, q)' <=> Agrees(r, q)
  BY <1>0 DEF Agrees
<1>4. ASSUME NEW r \in Sheets PROVE Shown(r)'
  <2>1. Shown(r)
    BY DEF ShownBase, SheetsShown
  <2>2. \A q \in payments : q.fate = "delivered" => q \in payments'
    BY <1>0, <1>1
  <2> QED BY <1>0, <1>1, <1>2, <1>3, <2>1, <2>2 DEF Shown, Sent
<1> QED BY <1>0, <1>1, <1>4 DEF ShownBase, SheetsShown

LEMMA ShownInvariant == Spec => []ShownBase
<1>1. Init => SheetsShown
  BY DEF Init, SheetsShown, Shown, Unopened, NoRun
<1>2. ShownBase /\ [Next]_vars => SheetsShown'
  <2> SUFFICES ASSUME ShownBase, [Next]_vars PROVE SheetsShown'
    OBVIOUS
  <2>1. CASE \E s \in Sheets : Buyer(s) \/ Answer(s)
    BY <2>1, BuyerShown, AnswerShown
  <2>2. CASE \E p \in payments : SellerSettles(p) \/ SellerRefuses(p)
    BY <2>2, SellerShown
  <2>3. CASE WalletChanges \/ UNCHANGED vars
    BY <2>3 DEF WalletChanges, vars, ShownBase, SheetsShown, Shown, Sent, Agrees
  <2> QED BY <2>1, <2>2, <2>3 DEF Next
<1> QED
  BY <1>1, <1>2, SheetInvariant, UidInvariant, ButtonsInvariant, PTL DEF Spec, ShownBase

(* A sheet reports success only for a payment the seller delivered; and if its
   quantity was not edited since, what it shows is that payment's quantity and
   price, although it could be edited while the quote was fetched, confirmed,
   signed and paid (PurchaseSheet.ts 45-51, 134-136, 171). *)
THEOREM SuccessIsDelivery == Spec => []SuccessShowsDelivery
<1>1. ShownBase => SuccessShowsDelivery
  <2> SUFFICES ASSUME ShownBase, NEW s \in Sheets, Ticked(sheet[s].step) \intersect 2 .. 4 # {}
               PROVE  \E p \in payments :
                        /\ p.sheet = s /\ p.uid = sheet[s].result /\ p.fate = "delivered"
                        /\ sheet[s].nonce = p.query.nonce =>
                             sheet[s].quantity = p.query.quantity /\ sheet[s].total = p.paid
    BY DEF SuccessShowsDelivery
  <2>1. sheet[s].step \in {"idle", "quote", "sign", "done"}
    BY DEF ShownBase, SheetInv, TypeOK, SheetStates
  <2>2. \A step \in {"idle", "quote", "sign"} : Ticked(step) \subseteq {1}
    BY DEF Ticked
  <2>3. sheet[s].step = "done"
    BY <2>1, <2>2
  <2> QED BY <2>3 DEF ShownBase, SheetsShown, Shown, Agrees
<1> QED
  BY <1>1, ShownInvariant, PTL

(* Once a sheet has reported a delivery it reports nothing else and sends no
   further payment: its button is gone, and no callback of an earlier purchase
   is left to bring it back (PurchaseSheet.ts 54-60). *)
THEOREM DeliveredForGood == Spec => DoneIsFinal
<1> DEFINE Final ==
      \A s \in Sheets :
        sheet[s].step = "done" =>
          /\ sheet'[s].step = "done"
          /\ \A p \in payments' \ payments : p.fate = "sent" => p.sheet # s
<1>1. ASSUME TypeOK, Buttons, [Next]_vars PROVE Final
  <2>a. \A s \in Sheets : sheet[s].step = "done" => run[s].pc = "none" /\ ~Clickable(s)
    BY <1>1 DEF Buttons, Button, Clickable
  <2>1. ASSUME NEW r \in Sheets, Buyer(r) PROVE Final
    <3>1. payments' = payments /\ \A s \in Sheets \ {r} : sheet'[s] = sheet[s]
      BY <1>1, <2>1 DEF Buyer, Open, Close, TypeQuantity, StepQuantity, ClickUnconnected, Click,
                        Decline, Confirm, TypeOK
    <3>2. ASSUME sheet[r].step = "done" PROVE sheet'[r].step = "done"
      <4>1. Open(r) \/ Close(r) \/ TypeQuantity(r) \/ StepQuantity(r)
        BY <2>1, <2>a, <3>2 DEF Buyer, ClickUnconnected, Click, Decline, Confirm
      <4> QED
        BY <1>1, <3>2, <4>1
        DEF Open, Close, TypeQuantity, StepQuantity, Edited, Rendered, TypeOK, SheetStates
    <3> QED BY <3>1, <3>2
  <2>2. ASSUME NEW r \in Sheets, Answer(r) PROVE Final
    <3>1. run[r].pc # "none"
      BY <2>2 DEF Answer, QuoteArrives, QuoteFails, TransactionBuilt, BuildFails, Sign, SigningFails,
                  Delivered, PaymentRefused, AnswerLost
    <3>2. \A s \in Sheets \ {r} : sheet'[s] = sheet[s]
      BY <1>1, <2>2 DEF Answer, QuoteArrives, QuoteFails, TransactionBuilt, BuildFails, Sign,
                        SigningFails, Delivered, PaymentRefused, AnswerLost, Fail, TypeOK
    <3>3. \A p \in payments' \ payments : p.sheet = r
      BY <2>2 DEF Answer, QuoteArrives, QuoteFails, TransactionBuilt, BuildFails, Sign, SigningFails,
                  Delivered, PaymentRefused, AnswerLost, Fail
    <3> QED BY <2>a, <3>1, <3>2, <3>3
  <2>3. ASSUME NEW q \in payments, SellerSettles(q) \/ SellerRefuses(q) PROVE Final
    <3>1. sheet' = sheet
      BY <2>3 DEF SellerSettles, SellerRefuses
    <3>2. \A p \in payments' \ payments : p.fate # "sent"
      BY <1>1, <2>3 DEF SellerSettles, SellerRefuses, TypeOK, Payments
    <3> QED BY <3>1, <3>2
  <2>4. CASE WalletChanges \/ UNCHANGED vars
    BY <2>4 DEF WalletChanges, vars
  <2> QED BY <1>1, <2>1, <2>2, <2>3, <2>4 DEF Next
<1>2. TypeOK /\ Buttons /\ [Next]_vars => [Final]_vars
  BY <1>1
<1> QED
  BY <1>2, TypeCorrect, ButtonsInvariant, PTL DEF Spec, DoneIsFinal
=============================================================================
