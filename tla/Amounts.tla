------------------------------ MODULE Amounts ------------------------------
(***************************************************************************)
(* From a price or an amount as the operator writes it in the catalog to   *)
(* the raw total of a session.  The text is read twice, by code that knows *)
(* nothing of each other: when the catalog is accepted, and for every      *)
(* quote.  It is a sequence of digits and of the three characters below.   *)
(* A reader gives the set of its results, empty when it refuses; limit is  *)
(* the largest number of a machine word.                                   *)
(***************************************************************************)
EXTENDS ShopText

Dot   == 10
Minus == 11
Other == 12    \* a plus, a blank, a letter

MaxQuantity == 10000

(* str::parse *)
ValueOf(s) == FoldLeft(LAMBDA n, c : 10 * n + c, 0, s)

(* parse_decimal_shape: the value's sign and its number of decimals. *)
DecimalShape(s) ==
  LET negative == s # <<>> /\ s[1] = Minus
      body     == IF negative THEN Tail(s) ELSE s
      dots     == {i \in DOMAIN body : body[i] = Dot}
      digits   == {i \in DOMAIN body : body[i] \in 0 .. 9}
  IN IF digits = {} \/ Cardinality(dots) > 1 \/ dots \union digits # DOMAIN body
     THEN {}
     ELSE {[positive   |-> ~negative /\ \E i \in digits : body[i] # 0,
            fractional |-> Cardinality({i \in digits : \E j \in dots : j < i})]}

(* The catalog with this text is accepted. *)
Listed(s, decimals) ==
  \E shape \in DecimalShape(s) : shape.positive /\ shape.fractional <= decimals

(* ui_to_raw_units *)
UiToRaw(s, decimals, limit) ==
  LET dots   == {i \in DOMAIN s : s[i] = Dot}
      point  == Min(dots \union {Len(s) + 1})
      frac   == SubSeq(s, point + 1, Len(s))
      digits == SubSeq(s, 1, point - 1) \o frac
  IN IF \/ Cardinality(dots) > 1
        \/ digits = <<>>
        \/ \E i \in DOMAIN digits : digits[i] \notin 0 .. 9
        \/ Len(frac) > decimals
     THEN {}
     ELSE {r \in {ValueOf(digits) * 10 ^ (decimals - Len(frac))} : r # 0 /\ r <= limit}

(* A faulty product, of a release build without checked_mul. *)
SessionWrapping(s, decimals, quantity, limit) ==
  IF quantity \in 1 .. MaxQuantity
  THEN {(unit * quantity) % (limit + 1) : unit \in UiToRaw(s, decimals, limit)}
  ELSE {}

(* session_quote, for the payment and for the delivery alike. *)
SessionTotal(s, decimals, quantity, limit) ==
  IF quantity \in 1 .. MaxQuantity
  THEN {unit * quantity : unit \in UiToRaw(s, decimals, limit)} \intersect 0 .. limit
  ELSE {}

(* raw_to_ui_units *)
RawToUi(raw, decimals) ==
  LET scale == 10 ^ decimals
  IN [whole |-> Digits(raw \div scale),
      frac  |-> IF raw % scale = 0 THEN <<>>
                ELSE Stripped(Padded(Digits(raw % scale), decimals))]
=============================================================================
