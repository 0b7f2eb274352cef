------------------------------ MODULE ShopText ------------------------------
(***************************************************************************)
(* The conversions the storefront trusts: raw amounts to decimal text, the *)
(* bytes of a metadata account to strings, and a JSON value to the form    *)
(* that is hashed.  Text is a sequence of digits or of bytes; a character  *)
(* is one byte, and lengths stay below 2^31.                               *)
(***************************************************************************)
EXTENDS Integers, SequencesExt

(* BigInt.toString *)
Digits(n) ==
  LET width == CHOOSE k \in 1 .. 10 : n < 10 ^ k /\ (k = 1 \/ n >= 10 ^ (k - 1))
  IN [i \in 1 .. width |-> (n \div 10 ^ (width - i)) % 10]

(* padStart(width, "0") *)
Padded(s, width) == [i \in 1 .. Max({0, width - Len(s)}) |-> 0] \o s

(* replace(/0+$/, "") *)
Stripped(s) == SubSeq(s, 1, Max({0} \union {i \in DOMAIN s : s[i] # 0}))

(* The text of an amount: "whole" if frac is empty, else "whole.frac". *)
FormatUsdcRaw(raw) ==
  [whole |-> Digits(raw \div 10 ^ 6), frac |-> Stripped(Padded(Digits(raw % 10 ^ 6), 6))]

(* A faulty formatUiAmount, which loses the zeros after the point. *)
FormatUiUnpadded(raw, decimals) ==
  LET s == Digits(raw)
      k == IF Len(s) > decimals THEN Len(s) - decimals ELSE 0
  IN [whole |-> IF k = 0 THEN <<0>> ELSE SubSeq(s, 1, k),
      frac  |-> Stripped(SubSeq(s, k + 1, Len(s)))]

FormatUiAmount(raw, decimals) ==
  LET s == Padded(Digits(raw), decimals + 1)
      k == Len(s) - decimals
  IN [whole |-> SubSeq(s, 1, k), frac |-> Stripped(SubSeq(s, k + 1, Len(s)))]

-----------------------------------------------------------------------------
(* Metadata accounts: data is a sequence of bytes, offsets count from zero. *)

NUL        == 0
Space      == 32
Unreadable == [value |-> "unreadable"]

(* No NUL anywhere, then trimmed. *)
Cleaned(s) ==
  LET t    == SelectSeq(s, LAMBDA c : c # NUL)
      kept == {i \in DOMAIN t : t[i] # Space}
  IN IF kept = {} THEN <<>> ELSE SubSeq(t, Min(kept), Max(kept))

Uint32(data, offset) ==
  FoldLeft(LAMBDA n, c : 256 * n + c, 0, Reverse(SubSeq(data, offset + 1, offset + 4)))

(* A faulty reader, which takes what there is of a string cut short. *)
ReadCutShort(data, offset) ==
  IF offset + 4 > Len(data) THEN Unreadable
  ELSE LET end == Min({Len(data), offset + 4 + Uint32(data, offset)})
       IN [value |-> Cleaned(SubSeq(data, offset + 5, end)), next |-> end]

ReadBorshString(data, offset) ==
  IF offset + 4 > Len(data) \/ offset + 4 + Uint32(data, offset) > Len(data)
  THEN Unreadable
  ELSE LET end == offset + 4 + Uint32(data, offset)
       IN [value |-> Cleaned(SubSeq(data, offset + 5, end)), next |-> end]

(* Key 4, update authority, mint; then name, symbol and uri. *)
ParseMetadataAccount(data) ==
  LET name   == ReadBorshString(data, 65)
      symbol == ReadBorshString(data, name.next)
      uri    == ReadBorshString(data, symbol.next)
  IN IF Len(data) < 65 \/ data[1] # 4 \/ name = Unreadable \/ symbol = Unreadable
          \/ uri = Unreadable
     THEN Unreadable
     ELSE [value |-> <<name.value, symbol.value, uri.value>>]

-----------------------------------------------------------------------------
(* JSON: a leaf, an array of values, or an object, whose fields are in the
   order they were inserted in. *)

ByKey(f, g) == f.key < g.key

(* A faulty sortKeys, which does not look into arrays. *)
RECURSIVE SortObjectsOnly(_)
SortObjectsOnly(v) ==
  IF v.kind = "object"
  THEN [v EXCEPT !.fields =
         SortSeq([i \in DOMAIN @ |-> [@[i] EXCEPT !.value = SortObjectsOnly(@)]], ByKey)]
  ELSE v

RECURSIVE SortKeys(_)
SortKeys(v) ==
  CASE v.kind = "leaf"   -> v
    [] v.kind = "array"  -> [v EXCEPT !.items = [i \in DOMAIN @ |-> SortKeys(@[i])]]
    [] v.kind = "object" ->
         [v EXCEPT !.fields =
           SortSeq([i \in DOMAIN @ |-> [@[i] EXCEPT !.value = SortKeys(@)]], ByKey)]
=============================================================================
