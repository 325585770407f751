-------------------------------- MODULE Asn1 --------------------------------
(***************************************************************************)
(* What the codecs of the ASN.1 runtime (src/asn1) share: type             *)
(* descriptors, values, and the structure a decoder fills, which carries   *)
(* the decoder's context from one call to the next so that a decoder that  *)
(* ran out of input (RC_WMORE) goes on where it stopped.                   *)
(*                                                                         *)
(* A descriptor is a record:                                               *)
(*   kind      the type's operations (asn_TYPE_operation_t)                *)
(*   tags      the type's own tags, outermost first                        *)
(*   elements  members, with type, tag (-1: an untagged CHOICE), tag_mode  *)
(*             (-1 IMPLICIT, 1 EXPLICIT, 0), opt (OPTIONAL or DEFAULT),    *)
(*             dflt (<<>> or <<the default>>), name                        *)
(*   ext       index of the first extension, -1 when not extensible        *)
(*   value     the range of an integer, size the range of a length: <<>>   *)
(*             when unbounded, <<lb>>, or <<lb, ub>>                       *)
(*   extc      that range is extensible                                    *)
(*   enums     the names of an enumeration with their values               *)
(* An octet is a number below 256; a decoder's input is a sequence.        *)
(* Memory exhaustion and the guard on recursion depth are left out.        *)
(***************************************************************************)
EXTENDS Integers, SequencesExt

RC_OK == "RC_OK"
RC_WMORE == "RC_WMORE"
RC_FAIL == "RC_FAIL"

\* What a decoder returns, with the structure as it left it.
Rval(code, st, n) == [code |-> code, st |-> st, consumed |-> n]

Rest(buf, n) == SubSeq(buf, n + 1, Len(buf))
Lesser(a, b) == IF a < b THEN a ELSE b

\* The structure before its decoder first runs: zeroed, or a NULL pointer.
Fresh == [used |-> FALSE, phase |-> 0, step |-> 0, left |-> 0]

\* A structure is allocated, and its context zeroed, on first use.
Opened(td, st) ==
  IF st.used THEN st
  ELSE CASE td.kind = "SEQUENCE" ->
              [used |-> TRUE, phase |-> 0, step |-> 0, left |-> 0, ptr |-> <<>>,
               mem |-> [i \in 1..Len(td.elements) |-> Fresh]]
         [] td.kind = "CHOICE" ->
              [used |-> TRUE, phase |-> 0, step |-> 0, left |-> 0,
               present |-> 0, mem |-> Fresh]
         [] td.kind \in {"SET_OF", "SEQUENCE_OF"} ->
              [used |-> TRUE, phase |-> 0, step |-> 0, left |-> 0,
               list |-> <<>>, ptr |-> Fresh]
         [] td.kind \in {"OCTET_STRING", "PrintableString", "VisibleString", "BIT_STRING"} ->
              [used |-> TRUE, phase |-> 0, step |-> 0, left |-> 0,
               context |-> 0, stack |-> <<>>, buf |-> <<>>, bits_unused |-> 0]
         [] OTHER -> [used |-> TRUE, phase |-> 0, step |-> 0, left |-> 0, val |-> 0]

\* The number of optional members from member i (from 0) on, as the compiler
\* of the type descriptors counts them.
Optional(td, i) ==
  LET after == {j \in i + 1..Len(td.elements) : ~td.elements[j].opt}
  IN (IF after = {} THEN Len(td.elements)
      ELSE (CHOOSE j \in after : \A k \in after : j <= k) - 1) - i

InExtensionGroup(td, i) == td.ext >= 0 /\ td.ext <= i

\* edx counts from 0.
InRoot(td, edx) == edx < Len(td.elements) /\ ~InExtensionGroup(td, edx)
Roms(td) == {i \in DOMAIN td.elements : InRoot(td, i - 1) /\ td.elements[i].opt}

\* An absent member takes its DEFAULT, when it has one.
Defaulted(e, m) == IF e.dflt = <<>> THEN m ELSE [Opened(e.type, Fresh) EXCEPT !.val = e.dflt[1]]

\* A member is encoded when it is present and not its DEFAULT.
Encoded(td, v, i) == v[i] # <<>> /\ v[i] # td.elements[i].dflt
Bit(b) == IF b THEN 1 ELSE 0

RECURSIVE TagsOf(_)
\* The tags a member can start with: the rows of tag2el for it.
TagsOf(e) == IF e.tag # -1 THEN {e.tag}
             ELSE UNION {TagsOf(e.type.elements[i]) : i \in DOMAIN e.type.elements}

RECURSIVE ValueOf(_, _)
\* The value a decoded structure holds: a SEQUENCE is a sequence of <<>> for
\* an absent member and <<its value>> for a present one.
ValueOf(td, st) ==
  CASE td.kind = "SEQUENCE" ->
         [i \in 1..Len(td.elements) |->
            IF st.mem[i].used THEN <<ValueOf(td.elements[i].type, st.mem[i])>> ELSE <<>>]
    [] td.kind = "CHOICE" ->
         IF st.present = 0 THEN <<0>>
         ELSE <<st.present, ValueOf(td.elements[st.present].type, st.mem)>>
    [] td.kind \in {"SET_OF", "SEQUENCE_OF"} ->
         [i \in 1..Len(st.list) |-> ValueOf(td.elements[1].type, st.list[i])]
    [] td.kind \in {"OCTET_STRING", "PrintableString", "VisibleString"} -> st.buf
    [] td.kind = "BIT_STRING" -> <<st.bits_unused, st.buf>>
    [] OTHER -> st.val

\* The digits of a number, most significant first, and back.
RECURSIVE Octets256(_), Groups128(_)
Octets256(n) == IF n < 256 THEN <<n>> ELSE Append(Octets256(n \div 256), n % 256)
Groups128(n) == IF n < 128 THEN <<n>> ELSE Append(Groups128(n \div 128), n % 128)
Number(o) == FoldLeft(LAMBDA d, e : 256 * d + e, 0, o)

\* The bits of octets, most significant first.
BitsOf(o) == [i \in 1..8 * Len(o) |-> (o[(i + 7) \div 8] \div 2^(7 - ((i - 1) % 8))) % 2]

\* A sequence of bits in octets, the last one padded with zeros.
Packed(bits) ==
  [i \in 1..(Len(bits) + 7) \div 8 |->
     FoldLeft(LAMBDA a, j : 2 * a + (IF 8 * (i - 1) + j <= Len(bits)
                                     THEN bits[8 * (i - 1) + j] ELSE 0),
              0, <<1, 2, 3, 4, 5, 6, 7, 8>>)]

Octets == 3     \* sizeof(long): the width of an integer

RECURSIVE Trimmed(_)
\* An integer's octets without a superfluous sign octet (asn_imax2INTEGER,
\* INTEGER_encode_der).
Trimmed(o) ==
  IF Len(o) > 1 /\ ((o[1] = 0 /\ o[2] < 128) \/ (o[1] = 255 /\ o[2] >= 128))
  THEN Trimmed(Tail(o)) ELSE o

\* The octets of a native integer, most significant first.
asn_imax2INTEGER(v) ==
  Trimmed([i \in 1..Octets |-> ((v + 256^Octets) \div 256^(Octets - i)) % 256])

\* The native integer of a string of octets: <<>> when it does not fit.
asn_INTEGER2long(o) ==
  LET t == IF Len(o) > Octets THEN Trimmed(o) ELSE o
      u == Number(t)
  IN IF Len(t) > Octets THEN <<>>
     ELSE IF t # <<>> /\ t[1] >= 128 THEN <<u - 256^Len(t)>> ELSE <<u>>

\* _el_buf_cmp: octet by octet, a prefix first.
ElBefore(a, b) ==
  LET n == Lesser(Len(a), Len(b))
      d == {i \in 1..n : a[i] # b[i]}
  IN IF d = {} THEN Len(a) <= Len(b)
     ELSE LET i == CHOOSE i \in d : \A j \in d : i <= j IN a[i] < b[i]

\* The bits of a BIT STRING <<bits_unused, buf>>, and without its trailing zeros
\* (BIT_STRING__compactify).
StringBits(v) == SubSeq(BitsOf(v[2]), 1, 8 * Len(v[2]) - v[1])
Compact(bits) ==
  LET ones == {i \in DOMAIN bits : bits[i] = 1}
  IN IF ones = {} THEN <<>>
     ELSE SubSeq(bits, 1, CHOOSE i \in ones : \A j \in ones : i >= j)

---------------------------------------------------------------------------
(* compare_struct: -1, 0 or 1.                                             *)

Cmp(a, b) == IF a < b THEN -1 ELSE IF a > b THEN 1 ELSE 0

\* The first difference decides, then the lengths.
FirstDifference(ds, otherwise) ==
  FoldLeft(LAMBDA d, e : IF d # 0 THEN d ELSE e, 0, Append(ds, otherwise))
Lexicographic(Op(_, _), a, b) ==
  FirstDifference([i \in 1..Lesser(Len(a), Len(b)) |-> Op(a[i], b[i])], Cmp(Len(a), Len(b)))

RECURSIVE compare_struct(_, _, _)
\* An absent member equals a present one with the DEFAULT value.
SEQUENCE_compare(td, a, b) ==
  FirstDifference([i \in DOMAIN td.elements |->
    CASE a[i] = <<>> /\ b[i] \in {<<>>, td.elements[i].dflt} -> 0
      [] a[i] = <<>> /\ b[i] \notin {<<>>, td.elements[i].dflt} -> -1
      [] a[i] # <<>> /\ b[i] = <<>> -> IF a[i] = td.elements[i].dflt THEN 0 ELSE 1
      [] OTHER -> compare_struct(td.elements[i].type, a[i][1], b[i][1])], 0)

CHOICE_compare(td, a, b) ==
  IF a[1] = 0 THEN -1 ELSE IF b[1] = 0 THEN 1
  ELSE IF a[1] = b[1] THEN compare_struct(td.elements[a[1]].type, a[2], b[2])
  ELSE Cmp(a[1], b[1])

SEQUENCE_OF_compare(td, a, b) ==
  Lexicographic(LAMBDA x, y : compare_struct(td.elements[1].type, x, y), a, b)

\* The order the items came in does not count.
SET_OF_compare(td, a, b) ==
  LET Before(x, y) == compare_struct(td.elements[1].type, x, y) < 0
  IN SEQUENCE_OF_compare(td, SortSeq(a, Before), SortSeq(b, Before))

OCTET_STRING_compare(a, b) == Lexicographic(Cmp, a, b)
BIT_STRING_compare(a, b) ==
  Lexicographic(Cmp, Packed(Compact(StringBits(a))), Packed(Compact(StringBits(b))))
BOOLEAN_compare(a, b) == Cmp(Bit(a # 0), Bit(b # 0))
NativeInteger_compare(a, b) == Cmp(a, b)

compare_struct(td, a, b) ==
  CASE td.kind = "SEQUENCE" -> SEQUENCE_compare(td, a, b)
    [] td.kind = "CHOICE" -> CHOICE_compare(td, a, b)
    [] td.kind = "SEQUENCE_OF" -> SEQUENCE_OF_compare(td, a, b)
    [] td.kind = "SET_OF" -> SET_OF_compare(td, a, b)
    [] td.kind = "BIT_STRING" -> BIT_STRING_compare(a, b)
    [] td.kind \in {"OCTET_STRING", "PrintableString", "VisibleString"} ->
         OCTET_STRING_compare(a, b)
    [] td.kind = "BOOLEAN" -> BOOLEAN_compare(a, b)
    [] td.kind = "NULL" -> 0
    [] OTHER -> NativeInteger_compare(a, b)
=============================================================================
