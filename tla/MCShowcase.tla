----------------------------- MODULE MCShowcase -----------------------------
EXTENDS Showcase, Amounts

(* The first item sells out after one sale, the second after two. *)
TwoItems == <<1, 2>>

-----------------------------------------------------------------------------
(* The conversions depend on no state: they are evaluated where the page
   starts to load. *)
Starting == boot = "catalog" /\ now = 0

(* What the text of an amount says, in raw units. *)
Reads(text, decimals) ==
  ValueOf(text.whole) * 10 ^ decimals
    + ValueOf(text.frac) * 10 ^ (decimals - Len(text.frac))

(* Zero, powers of ten and their neighbours, and zeros inside. *)
RawAmounts == 0 .. 120 \union {999, 1000, 1001, 1010, 100100}

MicroUsdc ==
  {0, 1, 10, 500000, 999999, 1000000, 1000001, 1100000, 10000000, 20050030}

(* The amounts on the cards, in the dialog and on the sheet are what is
   stocked and charged, without needless zeros, and both formatters write the
   same text (inventory.ts 39-45, slaEscrow.ts 29-35). *)
AmountsReadBack ==
  Starting =>
    /\ \A raw \in RawAmounts, d \in 0 .. 4 :
         LET text == FormatUiAmount(raw, d) IN
         /\ Reads(text, d) = raw
         /\ text.whole = Digits(ValueOf(text.whole))
         /\ text.frac # <<>> => Last(text.frac) # 0
    /\ \A raw \in MicroUsdc : FormatUsdcRaw(raw) = FormatUiAmount(raw, 6)

-----------------------------------------------------------------------------
(* Texts of a catalog, of up to four characters, and a word of nine bits. *)
PriceTexts == UNION {[1 .. n -> {0, 1, 5, Dot, Minus, Other}] : n \in 0 .. 4}
Word       == 511

(* The number a text stands for, as a fraction of two integers. *)
Numerator(s)   == ValueOf(SelectSeq(s, LAMBDA c : c \in 0 .. 9))
Denominator(s) == 10 ^ Cardinality({i \in DOMAIN s : \E j \in 1 .. i - 1 : s[j] = Dot})

Typed(text) == text.whole \o (IF text.frac = <<>> THEN <<>> ELSE <<Dot>> \o text.frac)

(* What the cold start accepts as a price or an amount is quoted at exactly
   its value times the quantity, or refused because that fits no word, and
   nothing else is ever quoted; the text sent with the total is the one the
   page would write, and says the total (amounts.rs 47-114, quote.rs 76-131,
   catalog.rs 431-542). *)
ListedIsQuoted ==
  Starting =>
    \A s \in PriceTexts, d \in 0 .. 2, q \in {0, 1, 3, 10} :
      LET totals == SessionTotal(s, d, q, Word) IN
      /\ totals = IF Listed(s, d) /\ q > 0
                  THEN {t \in {q * ((Numerator(s) * 10 ^ d) \div Denominator(s))} : t <= Word}
                  ELSE {}
      /\ \A t \in totals :
           /\ RawToUi(t, d) = FormatUiAmount(t, d)
           /\ UiToRaw(Typed(RawToUi(t, d)), d, Word) = {t}

-----------------------------------------------------------------------------
Prefixed(s) == <<Len(s), 0, 0, 0>> \o s

Account(strings) ==
  <<4>> \o [i \in 1 .. 64 |-> 7] \o FlattenSeq([i \in 1 .. 3 |-> Prefixed(strings[i])])

(* A string as the program stores it: padded with NULs to a fixed width. *)
Stored(s) == s \o <<NUL, NUL>>

Texts == {<<>>, <<65>>, <<65, Space, 66>>}

(* A metadata account gives back the strings it was written with, and none
   at all if it is cut short or the account of something else (metadata.ts
   25-62). *)
MetadataReadsBack ==
  Starting =>
    \A strings \in [1 .. 3 -> Texts] :
      LET data == Account([i \in 1 .. 3 |-> Stored(strings[i])]) IN
      /\ ParseMetadataAccount(data) = [value |-> strings]
      /\ \A n \in 60 .. Len(data) - 1 :
           ParseMetadataAccount(SubSeq(data, 1, n)) = Unreadable
      /\ \A key \in {0, 3, 5, 6} :
           ParseMetadataAccount([data EXCEPT ![1] = key]) = Unreadable

-----------------------------------------------------------------------------
Leaf(v)     == [kind |-> "leaf", leaf |-> v]
Object(f, order) ==
  [kind |-> "object", fields |-> [i \in DOMAIN order |-> [key |-> order[i], value |-> f[order[i]]]]]

Orders == {o \in [1 .. 3 -> 1 .. 3] : {o[i] : i \in 1 .. 3} = 1 .. 3}

(* An SLA: two leaves and a list of transfers, with the keys in any order. *)
Document(nonce, amount, outer, inner) ==
  Object(<<Leaf(nonce),
           [kind |-> "array", items |-> <<Object(<<Leaf(amount), Leaf(0), Leaf(1)>>, inner)>>],
           Leaf(2)>>, outer)

Leaves == {5, 6}

(* Two SLAs have the same canonical form exactly if they say the same: the
   order the storefront writes the keys in never causes a hash mismatch, nor
   hides a difference (canonicalJson.ts 10-62). *)
CanonicalIsContent ==
  Starting =>
    \A n, m \in Leaves, a, b \in Leaves, outer, inner \in Orders :
      (SortKeys(Document(n, a, outer, inner)) =
         SortKeys(Document(m, b, <<1, 2, 3>>, <<1, 2, 3>>)))
        <=> (n = m /\ a = b)
=============================================================================
