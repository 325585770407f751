------------------------------ MODULE PerCodec ------------------------------
(***************************************************************************)
(* The Packed Encoding Rules of the ASN.1 runtime, unaligned (UPER) and    *)
(* aligned (APER).  `al' says which; where the two differ each has its     *)
(* operator.  The input is a record of bits and the offset of the next     *)
(* one; what is got from it is a value, -1 when the bits have run out, and *)
(* the input behind it.  A PER decoder keeps no context: it cannot be      *)
(* restarted.  An encoder returns <<its bits>>, <<>> when it fails; `pos'  *)
(* is the number of bits written before them.                              *)
(*                                                                         *)
(* Lengths from 16384 on, which come in fragments, unsigned integers, 16   *)
(* and 32 bit characters and a canonical order of alternatives that is not *)
(* the order of the type are left out.                                     *)
(***************************************************************************)
EXTENDS Asn1, FiniteSets

PerRval(code, st, pd) == [code |-> code, st |-> st, pd |-> pd]
Got(v, pd) == [v |-> v, pd |-> pd]
Value(bits) == FoldLeft(LAMBDA a, b : 2 * a + b, 0, bits)

per_get_few_bits(pd, n) ==
  IF pd.off + n > Len(pd.bits) THEN Got(-1, pd)
  ELSE Got(Value(SubSeq(pd.bits, pd.off + 1, pd.off + n)), [pd EXCEPT !.off = @ + n])

\* <<the bits>>, or <<>> when there are not as many.
per_get_many_bits(pd, n) ==
  IF pd.off + n > Len(pd.bits) THEN Got(<<>>, pd)
  ELSE Got(<<SubSeq(pd.bits, pd.off + 1, pd.off + n)>>, [pd EXCEPT !.off = @ + n])

per_put_few_bits(v, n) == [i \in 1..n |-> (v \div 2^(n - i)) % 2]

\* A range <<>>, <<lb>> or <<lb, ub>>: its bounds, and the bits of a value in it.
Lower(r) == IF r = <<>> THEN 0 ELSE r[1]
Upper(r) == IF Len(r) = 2 THEN r[2] ELSE 0
Range1(r) == Upper(r) - Lower(r) + 1
LeastBits(from, n) == CHOOSE i \in from..40 : 2^i >= n /\ \A j \in from..i - 1 : 2^j < n
RangeBits(r) == IF Len(r) = 2 THEN LeastBits(0, Range1(r)) ELSE -1

---------------------------------------------------------------------------
(* per_support.c: lengths and small numbers.                               *)

\* One octet below 128, two below 16384.
LongLength(pd) ==
  LET a == per_get_few_bits(pd, 8)
      b == per_get_few_bits(a.pd, 8)
  IN IF a.v < 128 THEN a
     ELSE IF a.v < 192 /\ b.v >= 0 THEN Got(256 * (a.v % 64) + b.v, b.pd)
     ELSE Got(-1, b.pd)

uper_get_length(pd, ebits, lb) ==
  LET g == per_get_few_bits(pd, ebits)
  IN IF ebits \in 0..16 THEN Got(IF g.v < 0 THEN -1 ELSE g.v + lb, g.pd) ELSE LongLength(pd)

\* Mutant: the length is not counted from one.
NsLengthFromZero(pd) ==
  LET b == per_get_few_bits(pd, 1)
  IN IF b.v = 0 THEN per_get_few_bits(b.pd, 6) ELSE uper_get_length(b.pd, -1, 0)

uper_get_nslength(pd) ==
  LET b == per_get_few_bits(pd, 1)
      l == per_get_few_bits(b.pd, 6)
  IN IF b.v = 0 THEN Got(IF l.v < 0 THEN -1 ELSE l.v + 1, l.pd)
     ELSE uper_get_length(b.pd, -1, 0)

\* A number from 64 on takes one or two octets behind their count.
uper_get_nsnnwn(pd) ==
  LET a == per_get_few_bits(pd, 7)
      b == per_get_few_bits(a.pd, 2)
      n == 4 * (a.v % 64) + b.v
  IN IF a.v \in 0..63 THEN a
     ELSE IF a.v < 0 \/ b.v < 0 \/ n >= 3 THEN Got(-1, b.pd)
     ELSE per_get_few_bits(b.pd, 8 * n)

\* The decoder above does not read what this writes for 64 and more: the count
\* has 8 bits here, 9 there.
uper_put_nsnnwn(n) ==
  IF n <= 63 THEN per_put_few_bits(n, 7)
  ELSE LET o == Octets256(n) IN per_put_few_bits(Len(o), 8) \o BitsOf(o)

\* In pieces of 31 bits, the higher first.
RECURSIVE uper_get_constrained_whole_number(_, _), uper_put_constrained_whole_number_u(_, _)
uper_get_constrained_whole_number(pd, nbits) ==
  LET half == per_get_few_bits(pd, 31)
      l == uper_get_constrained_whole_number(half.pd, nbits - 31)
  IN IF nbits <= 31 THEN per_get_few_bits(pd, nbits)
     ELSE IF nbits > 8 * Octets \/ half.v < 0 \/ l.v < 0 THEN Got(-1, pd)
     ELSE Got(half.v * 2^(nbits - 31) + l.v, l.pd)
uper_put_constrained_whole_number_u(v, nbits) ==
  IF nbits <= 31 THEN per_put_few_bits(v, nbits)
  ELSE uper_put_constrained_whole_number_u(v \div 2^31, nbits - 31) \o
       per_put_few_bits(v % 2^31, 31)

uper_put_length(n) ==
  IF n <= 127 THEN per_put_few_bits(n, 8) ELSE per_put_few_bits(32768 + n, 16)

uper_put_nslength(n) == IF n <= 64 THEN per_put_few_bits(n - 1, 7) ELSE uper_put_length(n)

per_long_range_rebase(v, r) == IF v < r[1] \/ v > r[2] THEN <<>> ELSE <<v - r[1]>>
per_long_range_unrebase(u, r) == IF u > r[2] - r[1] THEN <<>> ELSE <<u + r[1]>>

aper_get_align(pd) == per_get_few_bits(pd, (8 - (pd.off % 8)) % 8)

aper_get_nsnnwn(pd, range) ==
  LET a == aper_get_align(pd)
  IN IF range \in 0..255 THEN per_get_few_bits(pd, LeastBits(1, range))
     ELSE IF range < 0 \/ range > 65536 \/ a.v < 0 THEN Got(-1, pd)
     ELSE per_get_few_bits(a.pd, IF range = 256 THEN 8 ELSE 16)

aper_get_length(pd, range, ebits) ==
  LET a == aper_get_align(pd)
  IN IF range \in 0..65536 THEN aper_get_nsnnwn(pd, range)
     ELSE IF a.v < 0 THEN a
     ELSE IF ebits >= 0 THEN per_get_few_bits(a.pd, ebits) ELSE LongLength(a.pd)

aper_get_nslength(pd) ==
  LET b == per_get_few_bits(pd, 1)
      l == per_get_few_bits(b.pd, 6)
  IN IF b.v = 0 THEN Got(IF l.v < 0 THEN -1 ELSE l.v + 1, l.pd)
     ELSE aper_get_length(b.pd, -1, -1)

aper_put_align(pos) == per_put_few_bits(0, (8 - (pos % 8)) % 8)

aper_put_nsnnwn(pos, range, n) ==
  IF range <= 255 THEN per_put_few_bits(n, LeastBits(1, range))
  ELSE aper_put_align(pos) \o
       per_put_few_bits(n, IF range = 256 THEN 8 ELSE IF range <= 65536 THEN 16
                           ELSE 8 * Len(Octets256(range - 1)))

aper_put_length(pos, range, n) ==
  IF range \in 0..65536 THEN aper_put_nsnnwn(pos, range, n)
  ELSE aper_put_align(pos) \o uper_put_length(n)

aper_put_nslength(pos, n) ==
  IF n <= 64 THEN per_put_few_bits(n - 1, 7) ELSE aper_put_length(pos, -1, n)

GetLength(al, pd) == IF al THEN aper_get_length(pd, -1, -1) ELSE uper_get_length(pd, -1, 0)
PutLength(al, pos, n) == IF al THEN aper_put_length(pos, -1, n) ELSE uper_put_length(n)

RECURSIVE per_decoder(_, _, _, _), per_encoder(_, _, _, _)

---------------------------------------------------------------------------
(* Open types: whole octets behind their number.                           *)

\* Fewer than eight bits may be left over; all eight only of a single zero octet
\* no bit of which was used.
Padded(r) ==
  LET left == Len(r.pd.bits) - r.pd.off
  IN left < 8 \/ (r.pd.off = 0 /\ r.pd.bits = [i \in 1..8 |-> 0])

OpenTypeGet(al, td, st, length) ==
  LET body == per_get_many_bits(length.pd, 8 * length.v)
      r == per_decoder(al, td, st, [bits |-> body.v[1], off |-> 0])
  IN IF length.v < 0 \/ body.v = <<>> THEN PerRval(RC_WMORE, st, length.pd)
     ELSE IF r.code = RC_OK /\ Padded(r) THEN PerRval(RC_OK, r.st, body.pd)
     ELSE PerRval(RC_FAIL, r.st, body.pd)
uper_open_type_get(td, st, pd) == OpenTypeGet(FALSE, td, st, uper_get_length(pd, -1, 0))
aper_open_type_get(td, st, pd) == OpenTypeGet(TRUE, td, st, aper_get_length(pd, -1, -1))

\* Decoded as a type that takes every bit.
OpenTypeSkip(length) ==
  LET body == per_get_many_bits(length.pd, 8 * length.v)
  IN IF length.v < 0 \/ body.v = <<>> THEN Got(-1, length.pd) ELSE Got(0, body.pd)
uper_open_type_skip(pd) == OpenTypeSkip(uper_get_length(pd, -1, 0))
aper_open_type_skip(pd) == OpenTypeSkip(aper_get_length(pd, -1, -1))

---------------------------------------------------------------------------
(* Decoding.                                                               *)

RECURSIVE PerRoot(_, _, _, _, _, _), PerKnown(_, _, _, _, _, _), PerItems(_, _, _, _, _),
          UperOverflow(_, _)

\* `map' holds the presence bits of the optional members from i on.
PerRoot(al, td, st, pd, map, i) ==
  LET e == td.elements[i]
      r == per_decoder(al, e.type, st.mem[i], pd)
      got == [st EXCEPT !.mem[i] = r.st]
  IN IF ~InRoot(td, i - 1) THEN PerRval(RC_OK, st, pd)
     ELSE IF e.opt /\ Head(map) = 0
     THEN PerRoot(al, td, [st EXCEPT !.mem[i] = Defaulted(e, @)], pd, Tail(map), i + 1)
     ELSE IF r.code # RC_OK THEN PerRval(r.code, got, r.pd)
     ELSE PerRoot(al, td, got, r.pd, IF e.opt THEN Tail(map) ELSE map, i + 1)

\* The extension members the type knows, as far as the map of the encoder reaches.
PerKnown(al, td, st, pd, map, i) ==
  LET e == td.elements[i]
      r == IF al THEN aper_open_type_get(e.type, st.mem[i], pd)
           ELSE uper_open_type_get(e.type, st.mem[i], pd)
      got == [st EXCEPT !.mem[i] = r.st]
  IN IF map = <<>> \/ i > Len(td.elements) THEN PerRval(RC_OK, st, pd)
     ELSE IF Head(map) = 0 THEN PerKnown(al, td, st, pd, Tail(map), i + 1)
     ELSE IF r.code # RC_OK THEN PerRval(r.code, got, r.pd)
     ELSE PerKnown(al, td, got, r.pd, Tail(map), i + 1)

\* The extensions it does not know.  The aligned decoder stops behind the first
\* one that is there.
UperOverflow(pd, map) ==
  LET s == uper_open_type_skip(pd)
  IN IF map = <<>> THEN Got(0, pd)
     ELSE IF Head(map) = 0 THEN UperOverflow(pd, Tail(map))
     ELSE IF s.v < 0 THEN s ELSE UperOverflow(s.pd, Tail(map))
AperOverflow(pd, map) ==
  IF \A i \in DOMAIN map : map[i] = 0 THEN Got(0, pd) ELSE aper_open_type_skip(pd)

PerExtensions(al, td, st, pd) ==
  LET n == IF al THEN aper_get_nslength(pd) ELSE uper_get_nslength(pd)
      map == per_get_many_bits(n.pd, n.v)
      k == PerKnown(al, td, st, map.pd, map.v[1], td.ext + 1)
      beyond == Rest(map.v[1], Lesser(n.v, Len(td.elements) - td.ext))
      o == IF al THEN AperOverflow(k.pd, beyond) ELSE UperOverflow(k.pd, beyond)
  IN IF n.v < 0 \/ map.v = <<>> THEN PerRval(RC_WMORE, st, n.pd)
     ELSE IF k.code # RC_OK THEN k
     ELSE PerRval(IF o.v < 0 THEN RC_WMORE ELSE RC_OK, k.st, o.pd)

\* DEFAULT values of the absent extension members; the aligned decoder takes the
\* places in the map of optional members for places in the type.
OptionalCount(td) == Cardinality({i \in DOMAIN td.elements : td.elements[i].opt})
UperFilled(td, i) == ~InRoot(td, i - 1) /\ td.elements[i].opt
AperFilled(td, i) ==
  i \in Cardinality(Roms(td)) + 1..OptionalCount(td) /\ td.elements[i].opt
FillExtensions(al, td, st) ==
  [st EXCEPT !.mem = [i \in DOMAIN @ |->
    IF (IF al THEN AperFilled(td, i) ELSE UperFilled(td, i)) /\ ~@[i].used
    THEN Defaulted(td.elements[i], @[i]) ELSE @[i]]]

SequenceDecode(al, td, st, pd) ==
  LET x == IF td.ext >= 0 THEN per_get_few_bits(pd, 1) ELSE Got(0, pd)
      map == per_get_many_bits(x.pd, Cardinality(Roms(td)))
      root == PerRoot(al, td, st, map.pd, map.v[1], 1)
      all == IF x.v = 1 THEN PerExtensions(al, td, root.st, root.pd) ELSE root
  IN IF x.v < 0 \/ map.v = <<>> THEN PerRval(RC_WMORE, st, pd)
     ELSE IF root.code # RC_OK THEN root
     ELSE IF all.code # RC_OK THEN all
     ELSE PerRval(RC_OK, FillExtensions(al, td, all.st), all.pd)
SEQUENCE_decode_uper(td, st, pd) == SequenceDecode(FALSE, td, st, pd)
SEQUENCE_decode_aper(td, st, pd) == SequenceDecode(TRUE, td, st, pd)

Extensible(td) == td.ext >= 0
RootCount(td, all) == IF Extensible(td) THEN td.ext ELSE all

\* Which alternative (from 0), -2 when there is none with that number.  An
\* extension's number and open type are unaligned in both rules.
ChoiceIndex(td, pd) ==
  LET x == IF Extensible(td) THEN per_get_few_bits(pd, 1) ELSE Got(0, pd)
      root == RootCount(td, Len(td.elements))
      i == IF x.v = 0 THEN per_get_few_bits(x.pd, RangeBits(<<0, root - 1>>))
           ELSE uper_get_nsnnwn(x.pd)
      v == IF x.v = 0 THEN i.v ELSE i.v + root
  IN IF x.v < 0 \/ i.v < 0 THEN Got(-1, pd)
     ELSE Got(IF v >= (IF x.v = 0 THEN root ELSE Len(td.elements)) THEN -2 ELSE v, i.pd)

ChoiceDecode(al, td, st, pd) ==
  LET c == ChoiceIndex(td, pd)
      t == td.elements[c.v + 1].type
      r == IF c.v < RootCount(td, Len(td.elements)) THEN per_decoder(al, t, st.mem, c.pd)
           ELSE uper_open_type_get(t, st.mem, c.pd)
  IN IF c.v = -1 THEN PerRval(RC_WMORE, st, pd)
     ELSE IF c.v = -2 THEN PerRval(RC_FAIL, st, c.pd)
     ELSE PerRval(r.code, [st EXCEPT !.present = c.v + 1, !.mem = r.st], r.pd)
CHOICE_decode_uper(td, st, pd) == ChoiceDecode(FALSE, td, st, pd)
CHOICE_decode_aper(td, st, pd) == ChoiceDecode(TRUE, td, st, pd)

\* The extension bit of an extensible range: the range that applies behind it.
ExtBit(td, pd) == IF td.extc THEN per_get_few_bits(pd, 1) ELSE Got(0, pd)
Applies(x, r) == IF x.v = 1 THEN <<>> ELSE r

PerItems(al, td, st, pd, n) ==
  LET r == per_decoder(al, td.elements[1].type, Fresh, pd)
  IN IF n = 0 THEN PerRval(RC_OK, st, pd)
     ELSE IF r.code # RC_OK THEN PerRval(r.code, st, r.pd)
     ELSE PerItems(al, td, [st EXCEPT !.list = Append(@, r.st)], r.pd, n - 1)

\* x: the extension bit; n: the number of items, -1 when the bits ran out.
PerList(al, td, st, x, n) ==
  IF x.v < 0 \/ n.v < 0 THEN PerRval(RC_WMORE, st, n.pd) ELSE PerItems(al, td, st, n.pd, n.v)

SET_OF_decode_uper(td, st, pd) ==
  LET x == ExtBit(td, pd)
      size == Applies(x, td.size)
  IN PerList(FALSE, td, st, x, uper_get_length(x.pd, RangeBits(size), Lower(size)))

SET_OF_decode_aper(td, st, pd) ==
  LET x == ExtBit(td, pd)
      size == Applies(x, td.size)
      n == aper_get_nsnnwn(x.pd, Range1(size))
  IN PerList(TRUE, td, st, x,
       IF Len(size) = 2 THEN Got(IF n.v < 0 THEN -1 ELSE n.v + size[1], n.pd)
       ELSE aper_get_length(x.pd, IF size = <<>> THEN -1 ELSE Range1(size), -1))

\* The bits of a character: 7 of a VisibleString in the range, else 8.
Unit(al, td, x) == IF td.kind = "VisibleString" /\ ~al /\ x.v = 0 THEN 7 ELSE 8

\* n characters, of `unit' bits each; code 127 is no VisibleString's.
per_get_characters(st, pd, n, unit) ==
  LET body == per_get_many_bits(pd, unit * n)
      c == [i \in 1..n |-> Value(SubSeq(body.v[1], unit * (i - 1) + 1, unit * i))]
  IN IF body.v = <<>> THEN PerRval(RC_WMORE, st, pd)
     ELSE IF unit = 7 /\ \E i \in 1..n : c[i] = 127 THEN PerRval(RC_FAIL, st, body.pd)
     ELSE PerRval(RC_OK, [st EXCEPT !.buf = @ \o c], body.pd)

OCTET_STRING_decode_uper(td, st, pd) ==
  LET x == ExtBit(td, pd)
      size == Applies(x, td.size)
      n == IF RangeBits(size) = 0 THEN Got(size[2], x.pd)
           ELSE uper_get_length(x.pd, RangeBits(size), Lower(size))
  IN IF x.v < 0 \/ n.v < 0 THEN PerRval(RC_WMORE, st, pd)
     ELSE per_get_characters(st, n.pd, n.v, Unit(FALSE, td, x))

\* The bits of a BIT STRING, and how many of its last octet they leave unused.
per_get_bits(st, pd, n) ==
  LET body == per_get_many_bits(pd, n)
  IN IF body.v = <<>> THEN PerRval(RC_WMORE, st, pd)
     ELSE PerRval(RC_OK, [st EXCEPT !.buf = Packed(body.v[1]),
                                    !.bits_unused = (8 - (n % 8)) % 8], body.pd)

BIT_STRING_decode_uper(td, st, pd) ==
  LET x == ExtBit(td, pd)
      size == Applies(x, td.size)
      n == IF RangeBits(size) = 0 THEN Got(size[2], x.pd)
           ELSE uper_get_length(x.pd, RangeBits(size), Lower(size))
  IN IF x.v < 0 \/ n.v < 0 THEN PerRval(RC_WMORE, st, pd) ELSE per_get_bits(st, n.pd, n.v)

\* Octets and bits alike.  A string of a fixed size is aligned from three octets
\* on; one of a length, which is in bits for a BIT STRING, from three on.
OCTET_STRING_decode_aper(td, st, pd) ==
  LET x == ExtBit(td, pd)
      size == Applies(x, td.size)
      fixed == RangeBits(size) = 0
      octets == IF td.kind = "BIT_STRING" THEN (size[2] + 7) \div 8 ELSE size[2]
      l == aper_get_length(x.pd, IF Upper(size) = Lower(size) THEN -1 ELSE Range1(size),
                           RangeBits(size))
      n == IF fixed THEN Got(size[2], x.pd)
           ELSE Got(IF l.v < 0 THEN -1 ELSE l.v + Lower(size), l.pd)
      a == IF (IF fixed THEN octets ELSE n.v) > 2 THEN aper_get_align(n.pd) ELSE Got(0, n.pd)
  IN IF x.v < 0 \/ n.v < 0 THEN PerRval(RC_WMORE, st, pd)
     ELSE IF a.v < 0 THEN PerRval(RC_FAIL, st, pd)
     ELSE IF td.kind = "BIT_STRING" THEN per_get_bits(st, a.pd, n.v)
     ELSE per_get_characters(st, a.pd, n.v, 8)

\* An INTEGER is its octets.
Whole(v, pd) == PerRval(RC_OK, asn_imax2INTEGER(v), pd)
PerOctets(al, pd) ==
  LET n == GetLength(al, pd)
      body == per_get_many_bits(n.pd, 8 * n.v)
  IN IF n.v < 0 \/ body.v = <<>> THEN PerRval(RC_WMORE, <<>>, pd)
     ELSE PerRval(RC_OK, Packed(body.v[1]), body.pd)

INTEGER_decode_uper(td, pd) ==
  LET x == ExtBit(td, pd)
      r == Applies(x, td.value)
      u == uper_get_constrained_whole_number(x.pd, RangeBits(r))
      v == per_long_range_unrebase(u.v, r)
      Above(o) == LET w == asn_INTEGER2long(<<0>> \o o)
                  IN IF r[1] = 0 \/ w = <<>> THEN <<0>> \o o ELSE asn_imax2INTEGER(w[1] + r[1])
      free == PerOctets(FALSE, x.pd)
  IN IF x.v < 0 THEN PerRval(RC_WMORE, <<>>, pd)
     ELSE IF Len(r) = 2
     THEN IF u.v < 0 THEN PerRval(RC_WMORE, <<>>, pd)
          ELSE IF v = <<>> THEN PerRval(RC_FAIL, <<>>, u.pd) ELSE Whole(v[1], u.pd)
     ELSE IF Len(r) = 1 /\ free.code = RC_OK THEN [free EXCEPT !.st = Above(@)] ELSE free

\* More than 16 bits: the number of octets, then the octets.
AperLong(pd, r) ==
  LET n == per_get_few_bits(pd, LeastBits(1, (RangeBits(r) + 7) \div 8))
      a == aper_get_align(n.pd)
      body == per_get_many_bits(a.pd, 8 * (n.v + 1))
  IN IF n.v < 0 \/ a.v # 0 \/ body.v = <<>> THEN PerRval(RC_FAIL, <<>>, pd)
     ELSE Whole(Value(body.v[1]) + r[1], body.pd)

AperShort(pd, r) ==
  LET bits == RangeBits(r)
      a == IF bits < 8 THEN Got(0, pd) ELSE aper_get_align(pd)
      u == per_get_few_bits(a.pd, IF bits <= 8 THEN bits ELSE 16)
  IN IF a.v < 0 THEN PerRval(RC_FAIL, <<>>, pd)
     ELSE IF u.v < 0 THEN PerRval(RC_WMORE, <<>>, pd) ELSE Whole(u.v + r[1], u.pd)

INTEGER_decode_aper(td, pd) ==
  LET x == ExtBit(td, pd)
      r == Applies(x, td.value)
  IN IF x.v < 0 THEN PerRval(RC_WMORE, <<>>, pd)
     ELSE IF Len(r) = 1 THEN PerRval(RC_FAIL, <<>>, pd)
     ELSE IF r = <<>> THEN PerOctets(TRUE, x.pd)
     ELSE IF RangeBits(r) > 16 THEN AperLong(x.pd, r) ELSE AperShort(x.pd, r)

\* The octets must fit a long.
PerNative(st, r) ==
  LET v == asn_INTEGER2long(r.st)
  IN IF r.code # RC_OK THEN PerRval(r.code, st, r.pd)
     ELSE IF v = <<>> THEN PerRval(RC_FAIL, st, r.pd)
     ELSE PerRval(RC_OK, [st EXCEPT !.val = v[1]], r.pd)
NativeInteger_decode_uper(td, st, pd) == PerNative(st, INTEGER_decode_uper(td, pd))
NativeInteger_decode_aper(td, st, pd) == PerNative(st, INTEGER_decode_aper(td, pd))

\* The place of an enumerated value among all of them, in the order of the values.
EnumGet(td, st, pd, x) ==
  LET root == RootCount(td, Len(td.enums))
      i == IF x.v = 0 THEN per_get_few_bits(pd, RangeBits(<<0, root - 1>>))
           ELSE uper_get_nsnnwn(pd)
      v == IF x.v = 0 THEN i.v ELSE i.v + root
  IN IF x.v < 0 \/ i.v < 0 THEN PerRval(RC_WMORE, st, pd)
     ELSE IF v >= (IF x.v = 0 THEN root ELSE Len(td.enums)) THEN PerRval(RC_FAIL, st, i.pd)
     ELSE PerRval(RC_OK, [st EXCEPT !.val = td.enums[v + 1].value], i.pd)
EnumExt(td, pd) == IF Extensible(td) THEN per_get_few_bits(pd, 1) ELSE Got(0, pd)
NativeEnumerated_decode_uper(td, st, pd) ==
  LET x == EnumExt(td, pd) IN EnumGet(td, st, x.pd, x)
\* From 256 values on the decoder, though not the encoder, aligns.
NativeEnumerated_decode_aper(td, st, pd) ==
  LET x == EnumExt(td, pd)
      wide == x.v = 0 /\ RootCount(td, Len(td.enums)) > 255
  IN EnumGet(td, st, IF wide THEN aper_get_align(x.pd).pd ELSE x.pd, x)

BooleanGet(st, pd) ==
  LET b == per_get_few_bits(pd, 1)
  IN IF b.v < 0 THEN PerRval(RC_WMORE, st, pd) ELSE PerRval(RC_OK, [st EXCEPT !.val = b.v], b.pd)
BOOLEAN_decode_uper(st, pd) == BooleanGet(st, pd)
BOOLEAN_decode_aper(st, pd) == BooleanGet(st, pd)
NULL_decode_uper(st, pd) == PerRval(RC_OK, st, pd)
NULL_decode_aper(st, pd) == PerRval(RC_OK, st, pd)

uper_decoder(td, st, pd) ==
  CASE td.kind = "SEQUENCE" -> SEQUENCE_decode_uper(td, st, pd)
    [] td.kind = "CHOICE" -> CHOICE_decode_uper(td, st, pd)
    [] td.kind \in {"SET_OF", "SEQUENCE_OF"} -> SET_OF_decode_uper(td, st, pd)
    [] td.kind \in {"OCTET_STRING", "VisibleString"} -> OCTET_STRING_decode_uper(td, st, pd)
    [] td.kind = "BIT_STRING" -> BIT_STRING_decode_uper(td, st, pd)
    [] td.kind = "ENUMERATED" -> NativeEnumerated_decode_uper(td, st, pd)
    [] td.kind = "BOOLEAN" -> BOOLEAN_decode_uper(st, pd)
    [] td.kind = "NULL" -> NULL_decode_uper(st, pd)
    [] OTHER -> NativeInteger_decode_uper(td, st, pd)
aper_decoder(td, st, pd) ==
  CASE td.kind = "SEQUENCE" -> SEQUENCE_decode_aper(td, st, pd)
    [] td.kind = "CHOICE" -> CHOICE_decode_aper(td, st, pd)
    [] td.kind \in {"SET_OF", "SEQUENCE_OF"} -> SET_OF_decode_aper(td, st, pd)
    [] td.kind \in {"OCTET_STRING", "VisibleString", "BIT_STRING"} ->
         OCTET_STRING_decode_aper(td, st, pd)
    [] td.kind = "ENUMERATED" -> NativeEnumerated_decode_aper(td, st, pd)
    [] td.kind = "BOOLEAN" -> BOOLEAN_decode_aper(st, pd)
    [] td.kind = "NULL" -> NULL_decode_aper(st, pd)
    [] OTHER -> NativeInteger_decode_aper(td, st, pd)
per_decoder(al, td, st, pd) ==
  IF al THEN aper_decoder(td, Opened(td, st), pd) ELSE uper_decoder(td, Opened(td, st), pd)

\* Nothing is consumed unless all is decoded.
PerDecode(al, td, st, buf) ==
  LET r == per_decoder(al, td, st, [bits |-> BitsOf(buf), off |-> 0])
  IN Rval(r.code, r.st, IF r.code = RC_OK THEN r.pd.off ELSE 0)
uper_decode(td, st, buf) == PerDecode(FALSE, td, st, buf)
aper_decode(td, st, buf) == PerDecode(TRUE, td, st, buf)

\* Whole octets; a value of no bits is one zero octet.
Complete(r, buf) ==
  IF r.consumed > 0 \/ r.code # RC_OK THEN Rval(r.code, r.st, (r.consumed + 7) \div 8)
  ELSE IF buf = <<>> THEN Rval(RC_WMORE, r.st, 0)
  ELSE IF buf[1] = 0 THEN Rval(RC_OK, r.st, 1) ELSE Rval(RC_FAIL, r.st, 0)
uper_decode_complete(td, st, buf) == Complete(uper_decode(td, st, buf), buf)
aper_decode_complete(td, st, buf) == Complete(aper_decode(td, st, buf), buf)

---------------------------------------------------------------------------
(* Encoding.                                                               *)

\* The encodings Enc gives each of `is', behind `start'; one that fails fails all.
PutEach(Enc(_, _), is, pos, start) ==
  FoldLeft(LAMBDA acc, i :
             LET b == Enc(i, pos + Len(acc[1]))
             IN IF acc = <<>> \/ b = <<>> THEN <<>> ELSE <<acc[1] \o b[1]>>,
           start, is)

\* In whole octets, at least one.
EncodeToNewBuffer(al, td, v) ==
  LET b == per_encoder(al, td, v, 0)
  IN IF b = <<>> THEN <<>> ELSE IF b[1] = <<>> THEN << <<0>> >> ELSE <<Packed(b[1])>>
uper_encode_to_new_buffer(td, v) == EncodeToNewBuffer(FALSE, td, v)
aper_encode_to_new_buffer(td, v) == EncodeToNewBuffer(TRUE, td, v)

uper_open_type_put(td, v) ==
  LET o == uper_encode_to_new_buffer(td, v)
  IN IF o = <<>> THEN <<>> ELSE <<uper_put_length(Len(o[1])) \o BitsOf(o[1])>>
aper_open_type_put(td, v, pos) ==
  LET o == aper_encode_to_new_buffer(td, v)
  IN IF o = <<>> THEN <<>> ELSE <<aper_put_length(pos, -1, Len(o[1])) \o BitsOf(o[1])>>

\* Those of the n members that are in s, in their order.
Indices(n, s) == SelectSeq([i \in 1..n |-> i], LAMBDA i : i \in s)

\* The presence bits and open types of the extension members, DEFAULT or not.
HandleExtensions(al, td, v, pos, start) ==
  LET exts == {i \in DOMAIN td.elements : InExtensionGroup(td, i - 1)}
      n == Cardinality(exts)
      map == [k \in 1..n |-> Bit(v[td.ext + k] # <<>>)]
      Put(i, at) == IF al THEN aper_open_type_put(td.elements[i].type, v[i][1], at)
                    ELSE uper_open_type_put(td.elements[i].type, v[i][1])
  IN PutEach(Put, Indices(Len(v), {i \in exts : v[i] # <<>>}), pos,
       <<start \o (IF al THEN aper_put_nslength(pos + Len(start), n) ELSE uper_put_nslength(n))
               \o map>>)

\* present: the optional root members that are encoded.
SequenceEncode(al, td, v, pos, present) ==
  LET extended == \E i \in DOMAIN td.elements : InExtensionGroup(td, i - 1) /\ v[i] # <<>>
      roms == Indices(Len(td.elements), Roms(td))
      root == {i \in DOMAIN td.elements : InRoot(td, i - 1)}
      pre == (IF Extensible(td) THEN <<Bit(extended)>> ELSE <<>>) \o
             [k \in DOMAIN roms |-> Bit(roms[k] \in present)]
      Put(i, at) == per_encoder(al, td.elements[i].type, v[i][1], at)
      body == PutEach(Put, Indices(Len(v), {i \in root : i \in Roms(td) => i \in present}), pos, <<pre>>)
  IN IF \E i \in root \ Roms(td) : v[i] = <<>> THEN <<>>
     ELSE IF body = <<>> \/ ~extended THEN body
     ELSE HandleExtensions(al, td, v, pos, body[1])
SEQUENCE_encode_uper(td, v) ==
  SequenceEncode(FALSE, td, v, 0, {i \in Roms(td) : Encoded(td, v, i)})
\* The aligned encoder compares the DEFAULT with a pointer, and never leaves it out.
SEQUENCE_encode_aper(td, v, pos) ==
  SequenceEncode(TRUE, td, v, pos, {i \in Roms(td) : v[i] # <<>>})

\* In the root: the extension bit, the number, the alternative.
ChoiceRoot(al, td, v, pos) ==
  LET pre == (IF Extensible(td) THEN <<0>> ELSE <<>>) \o
             per_put_few_bits(v[1] - 1, RangeBits(<<0, RootCount(td, Len(td.elements)) - 1>>))
  IN PutEach(LAMBDA i, at : per_encoder(al, td.elements[i].type, v[2], at), <<v[1]>>, pos, <<pre>>)
CHOICE_encode_uper(td, v) ==
  IF v[1] = 0 THEN <<>>
  ELSE IF v[1] <= RootCount(td, Len(td.elements)) THEN ChoiceRoot(FALSE, td, v, 0)
  ELSE PutEach(LAMBDA i, at : uper_open_type_put(td.elements[i].type, v[2]), <<v[1]>>, 0,
               << <<1>> \o uper_put_nsnnwn(v[1] - 1 - td.ext)>>)
\* The code reads the range through a NULL pointer for an extension.
CHOICE_encode_aper(td, v, pos) ==
  IF v[1] \in 1..RootCount(td, Len(td.elements)) THEN ChoiceRoot(TRUE, td, v, pos) ELSE <<>>

\* How many items or units, n, in the range or not: <<the bits>>, <<>> when a range
\* that is not extensible leaves n out.  short: the bits of n in the range.
InRange(n, size) == Len(size) # 2 \/ n \in size[1]..size[2]
Counted(al, td, n, pos, short) ==
  LET x == IF td.extc THEN <<Bit(~InRange(n, td.size))>> ELSE <<>>
  IN IF ~InRange(n, td.size) /\ ~td.extc THEN <<>>
     ELSE IF InRange(n, td.size) /\ Len(td.size) = 2 THEN <<x \o short>>
     ELSE <<x \o PutLength(al, pos + Len(x), n)>>
UperShort(td, n) == per_put_few_bits(n - td.size[1], RangeBits(td.size))

SEQUENCE_OF_encode_uper(td, v) ==
  PutEach(LAMBDA i, at : per_encoder(FALSE, td.elements[1].type, v[i], at), Indices(Len(v), DOMAIN v), 0,
          Counted(FALSE, td, Len(v), 0, UperShort(td, Len(v))))

SEQUENCE_OF_encode_aper(td, v, pos) ==
  LET at0 == pos + Bit(td.extc)
  IN PutEach(LAMBDA i, at : per_encoder(TRUE, td.elements[1].type, v[i], at), Indices(Len(v), DOMAIN v), pos,
       Counted(TRUE, td, Len(v), pos,
               aper_put_length(at0, Range1(td.size), Len(v) - td.size[1])))

\* In the order of the items' encodings.
SET_OF_encode_uper(td, v) ==
  LET encs == [i \in DOMAIN v |-> per_encoder(FALSE, td.elements[1].type, v[i], 0)]
      sorted == SortSeq(encs, LAMBDA a, b : ElBefore(Packed(a[1]), Packed(b[1])))
  IN IF \E i \in DOMAIN v : encs[i] = <<>> THEN <<>>
     ELSE PutEach(LAMBDA i, at : sorted[i], Indices(Len(v), DOMAIN v), 0,
                  Counted(FALSE, td, Len(v), 0, UperShort(td, Len(v))))

per_put_characters(v, unit) ==
  IF unit = 7 /\ \E i \in DOMAIN v : v[i] > 126 THEN <<>>
  ELSE <<FoldLeft(LAMBDA acc, c : acc \o per_put_few_bits(c, unit), <<>>, v)>>

OCTET_STRING_encode_uper(td, v) ==
  PutEach(LAMBDA i, at : per_put_characters(v,
            IF td.kind = "VisibleString" /\ InRange(Len(v), td.size) THEN 7 ELSE 8),
          <<1>>, 0, Counted(FALSE, td, Len(v), 0, UperShort(td, Len(v))))

\* Without its trailing zeros, but filled up to the least size.
BIT_STRING_encode_uper(td, v) ==
  LET bits == Compact(StringBits(v))
      short == Len(td.size) = 2 /\ Len(bits) < td.size[1]
      filled == IF short THEN bits \o [i \in 1..td.size[1] - Len(bits) |-> 0] ELSE bits
  IN PutEach(LAMBDA i, at : <<filled>>, <<1>>, 0,
             Counted(FALSE, td, Len(filled), 0, UperShort(td, Len(filled))))

\* Aligned from three octets on, in a range; a fixed size has no length.
OCTET_STRING_encode_aper(td, v, pos) ==
  LET bits == IF td.kind = "BIT_STRING" THEN StringBits(v) ELSE BitsOf(v)
      n == IF td.kind = "BIT_STRING" THEN Len(bits) ELSE Len(v)
      at0 == pos + Bit(td.extc)
      short == IF RangeBits(td.size) = 0 THEN <<>>
               ELSE aper_put_length(at0, Range1(td.size), n - td.size[1])
      ranged == InRange(n, td.size) /\ Len(td.size) = 2
  IN PutEach(LAMBDA i, at : <<(IF ranged /\ Len(Packed(bits)) > 2 THEN aper_put_align(at) ELSE <<>>)
                              \o bits>>,
             <<1>>, pos, Counted(TRUE, td, n, pos, short))

\* An INTEGER out of an extensible range is unconstrained; the lower bound of a
\* range without an upper one must be 0.  short: the bits of v in the range.
OutOfRange(r, v) == (Len(r) = 1 /\ v < r[1]) \/ (Len(r) = 2 /\ v \notin r[1]..r[2])
IntegerEncode(al, td, v, pos, short) ==
  LET out == OutOfRange(td.value, v)
      x == IF td.extc THEN <<Bit(out)>> ELSE <<>>
      o == asn_imax2INTEGER(v)
  IN IF out /\ ~td.extc THEN <<>>
     ELSE IF ~out /\ Len(td.value) = 2 THEN <<x \o short>>
     ELSE IF ~out /\ Lower(td.value) # 0 THEN <<>>
     ELSE <<x \o PutLength(al, pos + Len(x), Len(o)) \o BitsOf(o)>>
INTEGER_encode_uper(td, v) ==
  IntegerEncode(FALSE, td, v, 0,
                uper_put_constrained_whole_number_u(per_long_range_rebase(v, td.value)[1],
                                                    RangeBits(td.value)))
AperWhole(u, bits, pos) ==
  LET o == Octets256(u)
      l == per_put_few_bits(Len(o) - 1, LeastBits(1, (bits + 7) \div 8))
  IN CASE bits < 8 -> per_put_few_bits(u, bits)
       [] bits = 8 -> aper_put_align(pos) \o per_put_few_bits(u, 8)
       [] bits \in 9..16 -> aper_put_align(pos) \o per_put_few_bits(u, 16)
       [] OTHER -> l \o aper_put_align(pos + Len(l)) \o BitsOf(o)
INTEGER_encode_aper(td, v, pos) ==
  IntegerEncode(TRUE, td, v, pos,
                AperWhole(per_long_range_rebase(v, td.value)[1], RangeBits(td.value),
                          pos + Bit(td.extc)))
NativeInteger_encode_uper(td, v) == INTEGER_encode_uper(td, v)
NativeInteger_encode_aper(td, v, pos) == INTEGER_encode_aper(td, v, pos)

EnumPut(td, v) ==
  LET at == {i \in DOMAIN td.enums : td.enums[i].value = v}
      k == (CHOOSE i \in at : TRUE) - 1
      root == RootCount(td, Len(td.enums))
  IN IF at = {} THEN <<>>
     ELSE IF k >= root THEN << <<1>> \o uper_put_nsnnwn(k - root)>>
     ELSE <<(IF Extensible(td) THEN <<0>> ELSE <<>>) \o
            per_put_few_bits(k, RangeBits(<<0, root - 1>>))>>
NativeEnumerated_encode_uper(td, v) == EnumPut(td, v)
NativeEnumerated_encode_aper(td, v) == IF v < 0 THEN <<>> ELSE EnumPut(td, v)

BOOLEAN_encode_uper(v) == << <<Bit(v # 0)>> >>
BOOLEAN_encode_aper(v) == << <<Bit(v # 0)>> >>
NULL_encode_uper(v) == << <<>> >>
NULL_encode_aper(v) == << <<>> >>

uper_encoder(td, v) ==
  CASE td.kind = "SEQUENCE" -> SEQUENCE_encode_uper(td, v)
    [] td.kind = "CHOICE" -> CHOICE_encode_uper(td, v)
    [] td.kind = "SEQUENCE_OF" -> SEQUENCE_OF_encode_uper(td, v)
    [] td.kind = "SET_OF" -> SET_OF_encode_uper(td, v)
    [] td.kind \in {"OCTET_STRING", "VisibleString"} -> OCTET_STRING_encode_uper(td, v)
    [] td.kind = "BIT_STRING" -> BIT_STRING_encode_uper(td, v)
    [] td.kind = "ENUMERATED" -> NativeEnumerated_encode_uper(td, v)
    [] td.kind = "BOOLEAN" -> BOOLEAN_encode_uper(v)
    [] td.kind = "NULL" -> NULL_encode_uper(v)
    [] OTHER -> NativeInteger_encode_uper(td, v)
\* There is no aligned encoder of a SET OF.
aper_encoder(td, v, pos) ==
  CASE td.kind = "SEQUENCE" -> SEQUENCE_encode_aper(td, v, pos)
    [] td.kind = "CHOICE" -> CHOICE_encode_aper(td, v, pos)
    [] td.kind = "SEQUENCE_OF" -> SEQUENCE_OF_encode_aper(td, v, pos)
    [] td.kind = "SET_OF" -> <<>>
    [] td.kind \in {"OCTET_STRING", "VisibleString", "BIT_STRING"} ->
         OCTET_STRING_encode_aper(td, v, pos)
    [] td.kind = "ENUMERATED" -> NativeEnumerated_encode_aper(td, v)
    [] td.kind = "BOOLEAN" -> BOOLEAN_encode_aper(v)
    [] td.kind = "NULL" -> NULL_encode_aper(v)
    [] OTHER -> NativeInteger_encode_aper(td, v, pos)
per_encoder(al, td, v, pos) ==
  IF al THEN aper_encoder(td, v, pos) ELSE uper_encoder(td, v)
=============================================================================
