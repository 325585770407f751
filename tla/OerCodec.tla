------------------------------ MODULE OerCodec ------------------------------
(***************************************************************************)
(* Octet Encoding Rules: the decoders and canonical encoders of            *)
(* src/asn1/*_oer.c.  A decoder takes a structure and octets and returns   *)
(* Rval; an encoder returns <<octets>>, or <<>> when it fails.             *)
(***************************************************************************)
EXTENDS Asn1, FiniteSets

\* The constraints the ASN.1 compiler derives from a type's value and size
\* ranges: a fixed width in octets (0: none), unsignedness, a fixed size (-1).
OerPositive(td) == td.value # <<>> /\ td.value[1] >= 0
OerWidth(td) ==
  IF Len(td.value) < 2 THEN 0
  ELSE IF OerPositive(td) THEN (IF td.value[2] < 256 THEN 1 ELSE 2)
  ELSE IF td.value[1] >= -128 /\ td.value[2] < 128 THEN 1 ELSE 2
OerSize(td) == IF Len(td.size) = 2 /\ td.size[1] = td.size[2] THEN td.size[1] ELSE -1

RECURSIVE Significant(_)
Significant(o) == IF o # <<>> /\ o[1] = 0 THEN Significant(Tail(o)) ELSE o

\* A length determinant: n octets used (0: more wanted, -1: too large).
oer_fetch_length(buf) ==
  IF buf = <<>> THEN [n |-> 0, len |-> 0]
  ELSE IF buf[1] < 128 THEN [n |-> 1, len |-> buf[1]]
  ELSE LET ll == buf[1] - 128
           o == Significant(SubSeq(buf, 2, 1 + ll))
       IN IF 1 + ll > Len(buf) THEN [n |-> 0, len |-> 0]
          ELSE IF Len(o) > Octets THEN [n |-> -1, len |-> 0]
          ELSE [n |-> 1 + ll, len |-> Number(o)]

\* On a big-endian host the loop of the long form runs one octet past the
\* length; this is the little-endian branch.
oer_serialize_length(len) ==
  IF len <= 127 THEN <<len>> ELSE <<128 + Len(Octets256(len))>> \o Octets256(len)

RECURSIVE oer_decoder(_, _, _)

\* An open type is a length and as many octets; the value must fit in them.
oer_open_type_get(td, st, buf) ==
  LET l == oer_fetch_length(buf)
      r == oer_decoder(td, st, SubSeq(buf, l.n + 1, l.n + l.len))
  IN IF l.n <= 0 THEN [n |-> l.n, st |-> st]
     ELSE IF Len(buf) - l.n < l.len THEN [n |-> 0, st |-> st]
     ELSE IF r.code = RC_OK THEN [n |-> l.n + l.len, st |-> r.st]
     ELSE [n |-> -1, st |-> Fresh]

\* Skipping an open type steps over its length alone.
oer_open_type_skip(buf) == oer_fetch_length(buf).n

---------------------------------------------------------------------------
(* SEQUENCE: a preamble of bits, the root members, then a map of the       *)
(* extensions present and each of them as an open type.                    *)

RECURSIVE OerRoot(_, _, _, _), OerKnown(_, _, _, _), OerUnknown(_, _, _, _)

BitData(o, nbits, off) == [bits |-> SubSeq(BitsOf(o), 1, nbits), off |-> off, cleared |-> FALSE]
OneBit(pd) == IF pd.off < Len(pd.bits) THEN pd.bits[pd.off + 1] ELSE -1

\* Phase 4: the open types of extensions this version does not know.
OerUnknown(td, st, buf, used) ==
  LET skipped == oer_open_type_skip(buf)
      next == [st EXCEPT !.ptr.off = @ + 1]
  IN
  CASE OneBit(st.ptr) = -1 -> Rval(RC_OK, st, used)
    [] OneBit(st.ptr) = 0 -> OerUnknown(td, next, buf, used)
    [] OneBit(st.ptr) = 1 ->
         IF skipped < 0 THEN Rval(RC_FAIL, next, used)
         ELSE IF skipped = 0 THEN Rval(RC_WMORE, st, used)
         ELSE OerUnknown(td, next, Rest(buf, skipped), used + skipped)

\* Phase 3: the known extensions.  A bit is put back when its open type is
\* not whole yet.
OerKnown(td, st, buf, used) ==
  LET e == td.elements[st.step + 1]
      bit == OneBit(st.ptr)
      got == oer_open_type_get(e.type, st.mem[st.step + 1], buf)
      next == [st EXCEPT !.step = @ + 1, !.ptr.off = IF bit = -1 THEN @ ELSE @ + 1]
  IN
  IF st.step >= Len(td.elements) THEN OerUnknown(td, [st EXCEPT !.phase = 4], buf, used)
  ELSE IF bit \in {-1, 0}
    THEN OerKnown(td, [next EXCEPT !.mem[st.step + 1] = Defaulted(e, @)], buf, used)
  ELSE IF got.n = 0 THEN Rval(RC_WMORE, st, used)
  ELSE IF got.n < 0 THEN Rval(RC_FAIL, [st EXCEPT !.mem[st.step + 1] = got.st], used)
  ELSE OerKnown(td, [next EXCEPT !.mem[st.step + 1] = got.st], Rest(buf, got.n), used + got.n)

\* Phase 2: the map of the extensions present.
OerExtensions(td, st, buf, used) ==
  LET l == oer_fetch_length(buf)
      st1 == [st EXCEPT !.ptr.cleared = TRUE]
      in == Rest(buf, l.n)
      unused == in[1] % 8
  IN
  IF td.ext < 0 \/ ~(st.ptr.cleared \/ st.ptr.bits[1] = 1)
    THEN Rval(RC_OK, [st1 EXCEPT !.phase = 10], used)
  ELSE IF l.n <= 0 THEN Rval(IF l.n = 0 THEN RC_WMORE ELSE RC_FAIL, st1, used)
  ELSE IF l.len = 0 THEN Rval(RC_FAIL, st1, used + l.n)
  ELSE IF l.len > Len(in) THEN Rval(RC_WMORE, st1, used + l.n)
  ELSE IF unused # 0 /\ l.len = 1 THEN Rval(RC_FAIL, st1, used + l.n + 1)
  ELSE OerKnown(td, [st EXCEPT !.phase = 3, !.step = td.ext,
                               !.ptr = BitData(SubSeq(in, 2, l.len), 8 * (l.len - 1) - unused, 0)],
                Rest(in, l.len), used + l.n + l.len)

\* Mutant: a member that was interrupted has its presence bit read again.
EnteredNever(st) == FALSE

\* The second half of a step: the member's presence bit has been read.
Entered(st) == st.step % 2 = 1

\* Phase 1: the members of the root.
OerRoot(td, st, buf, used) ==
  LET edx == st.step \div 2
      e == td.elements[edx + 1]
      entered == Entered(st)
      taken == [st EXCEPT !.step = 2 * edx + 1, !.ptr.off = IF entered \/ ~e.opt THEN @ ELSE @ + 1]
      r == oer_decoder(e.type, st.mem[edx + 1], buf)
      after == [taken EXCEPT !.mem[edx + 1] = r.st]
  IN
  IF ~InRoot(td, edx) THEN OerExtensions(td, [st EXCEPT !.phase = 2], buf, used)
  ELSE IF ~entered /\ e.opt /\ OneBit(st.ptr) = -1 THEN Rval(RC_FAIL, st, used)
  ELSE IF ~entered /\ e.opt /\ OneBit(st.ptr) = 0
    THEN OerRoot(td, [taken EXCEPT !.step = 2 * (edx + 1), !.mem[edx + 1] = Defaulted(e, @)],
                 buf, used)
  ELSE IF r.code = RC_OK
    THEN OerRoot(td, [after EXCEPT !.step = 2 * (edx + 1)], Rest(buf, r.consumed),
                 used + r.consumed)
  ELSE Rval(r.code, after, IF r.code = RC_WMORE THEN used + r.consumed ELSE used)

\* The optional members of the root.
SEQUENCE_decode_oer(td, st, buf) ==
  LET has == IF td.ext >= 0 THEN 1 ELSE 0
      nbits == has + Cardinality(Roms(td))
      nbytes == (nbits + 7) \div 8
  IN
  CASE st.phase = 0 /\ nbytes > Len(buf) -> Rval(RC_WMORE, st, 0)
    [] st.phase = 0 /\ nbytes <= Len(buf) ->
         OerRoot(td, [st EXCEPT !.phase = 1, !.ptr = BitData(SubSeq(buf, 1, nbytes), nbits, has)],
                 Rest(buf, nbytes), nbytes)
    [] st.phase = 1 -> OerRoot(td, st, buf, 0)
    [] st.phase = 2 -> OerExtensions(td, st, buf, 0)
    [] st.phase = 3 -> OerKnown(td, st, buf, 0)
    [] st.phase = 4 -> OerUnknown(td, st, buf, 0)
    [] OTHER -> Rval(RC_OK, st, 0)

---------------------------------------------------------------------------
(* CHOICE: the tag, then the alternative; an extension as an open type.    *)

RECURSIVE OerLongTag(_, _, _)
OerLongTag(buf, i, val) ==
  IF i > Len(buf) THEN [n |-> 0, val |-> 0]
  ELSE LET v == 128 * val + (buf[i] % 128) IN
       IF buf[i] < 128 THEN [n |-> i, val |-> v]
       ELSE IF v >= 2^23 THEN [n |-> -1, val |-> 0] ELSE OerLongTag(buf, i + 1, v)

oer_fetch_tag(buf) ==
  IF buf = <<>> THEN [n |-> 0, tag |-> 0]
  ELSE IF buf[1] % 64 # 63 THEN [n |-> 1, tag |-> 4 * (buf[1] % 64) + buf[1] \div 64]
  ELSE LET l == OerLongTag(buf, 2, 0) IN [n |-> l.n, tag |-> 4 * l.val + buf[1] \div 64]

\* The alternative's own decoder.  An extension that is not whole reports
\* nothing consumed, though its tag was, by this call or the one before.
OerAlternative(td, st, buf, used) ==
  LET e == td.elements[st.step + 1]
      st0 == [st EXCEPT !.present = st.step + 1]
      got == oer_open_type_get(e.type, st.mem, buf)
      r == oer_decoder(e.type, st.mem, buf)
  IN
  IF InExtensionGroup(td, st.step)
  THEN IF got.n <= 0 THEN Rval(IF got.n = 0 THEN RC_WMORE ELSE RC_FAIL,
                               [st0 EXCEPT !.mem = got.st], 0)
       ELSE Rval(RC_OK, [st0 EXCEPT !.mem = got.st, !.phase = 2], used + got.n)
  ELSE Rval(r.code, [st0 EXCEPT !.mem = r.st, !.phase = CASE r.code = RC_OK -> 2
                                                          [] r.code = RC_WMORE -> @
                                                          [] r.code = RC_FAIL -> 3],
            used + r.consumed)

CHOICE_decode_oer(td, st, buf) ==
  LET t == oer_fetch_tag(buf)
      el == {i \in DOMAIN td.elements : t.tag \in TagsOf(td.elements[i])}
  IN
  CASE st.phase = 0 /\ t.n = 0 -> Rval(RC_WMORE, st, 0)
    [] st.phase = 0 /\ (t.n = -1 \/ (t.n > 0 /\ el = {})) -> Rval(RC_FAIL, st, 0)
    [] st.phase = 0 /\ t.n > 0 /\ el # {} ->
         OerAlternative(td, [st EXCEPT !.phase = 1, !.step = (CHOOSE i \in el : TRUE) - 1],
                        Rest(buf, t.n), t.n)
    [] st.phase = 1 -> OerAlternative(td, st, buf, 0)
    [] st.phase = 2 -> Rval(RC_OK, st, 0)
    [] OTHER -> Rval(RC_FAIL, st, 0)

---------------------------------------------------------------------------
(* SET OF and SEQUENCE OF: a quantity, then the items.                     *)

oer_fetch_quantity(buf) ==
  LET l == oer_fetch_length(buf)
      o == Significant(SubSeq(buf, l.n + 1, l.n + l.len))
  IN IF l.n <= 0 THEN [n |-> l.n, qty |-> 0]
     ELSE IF l.n + l.len > Len(buf) THEN [n |-> 0, qty |-> 0]
     ELSE IF Len(o) > Octets THEN [n |-> -1, qty |-> 0]
     ELSE [n |-> l.n + l.len, qty |-> Number(o)]

RECURSIVE OerItems(_, _, _, _)
\* The limit of 200 on items that take no octets is left out.
OerItems(td, st, buf, used) ==
  LET r == oer_decoder(td.elements[1].type, st.ptr, buf) IN
  IF st.left = 0 THEN Rval(RC_OK, [st EXCEPT !.phase = 2], used)
  ELSE IF r.code = RC_WMORE THEN Rval(RC_WMORE, [st EXCEPT !.ptr = r.st], used + r.consumed)
  ELSE IF r.code = RC_FAIL
    THEN Rval(RC_FAIL, [st EXCEPT !.ptr = Fresh, !.phase = 3], used + r.consumed)
  ELSE OerItems(td, [st EXCEPT !.list = Append(@, r.st), !.ptr = Fresh, !.left = @ - 1],
                Rest(buf, r.consumed), used + r.consumed)

SET_OF_decode_oer(td, st, buf) ==
  LET q == oer_fetch_quantity(buf) IN
  CASE st.phase = 0 /\ q.n <= 0 -> Rval(IF q.n = 0 THEN RC_WMORE ELSE RC_FAIL, st, 0)
    [] st.phase = 0 /\ q.n > 0 ->
         OerItems(td, [st EXCEPT !.phase = 1, !.left = q.qty], Rest(buf, q.n), q.n)
    [] st.phase = 1 -> OerItems(td, st, buf, 0)
    [] st.phase = 2 -> Rval(RC_OK, st, 0)
    [] OTHER -> Rval(RC_FAIL, st, 0)

---------------------------------------------------------------------------
(* Primitive types start over until the whole value is at hand.            *)

\* size octets, or as many as the length in front of them says (size = -1).
OerOctets(buf, size) ==
  LET l == IF size >= 0 THEN [n |-> 0, len |-> size] ELSE oer_fetch_length(buf)
      wanting == (size < 0 /\ l.n = 0) \/ Len(buf) - l.n < l.len
  IN [code |-> IF l.n = -1 THEN RC_FAIL ELSE IF wanting THEN RC_WMORE ELSE RC_OK,
      n |-> l.n + l.len, o |-> SubSeq(buf, l.n + 1, Lesser(Len(buf), l.n + l.len))]

\* A positive value is kept from reading as a negative one.
INTEGER_decode_oer(td, buf) ==
  LET g == OerOctets(buf, IF OerWidth(td) = 0 THEN -1 ELSE OerWidth(td))
  IN IF g.code = RC_OK /\ OerPositive(td) /\ g.o # <<>> /\ g.o[1] >= 128
     THEN [g EXCEPT !.o = <<0>> \o @] ELSE g

NativeInteger_decode_oer(td, st, buf) ==
  LET g == INTEGER_decode_oer(td, buf)
      v == asn_INTEGER2long(g.o)
  IN IF g.code # RC_OK THEN Rval(g.code, st, 0)
     ELSE IF v = <<>> THEN Rval(RC_FAIL, st, g.n)
     ELSE Rval(RC_OK, [st EXCEPT !.val = v[1]], g.n)

NativeEnumerated_decode_oer(td, st, buf) ==
  LET n == buf[1] - 128 IN
  IF buf = <<>> THEN Rval(RC_WMORE, st, 0)
  ELSE IF buf[1] < 128 THEN Rval(RC_OK, [st EXCEPT !.val = buf[1]], 1)
  ELSE IF n < 1 \/ n > Octets THEN Rval(RC_FAIL, st, 0)
  ELSE IF 1 + n > Len(buf) THEN Rval(RC_WMORE, st, 0)
  ELSE Rval(RC_OK, [st EXCEPT !.val = asn_INTEGER2long(SubSeq(buf, 2, 1 + n))[1]], 1 + n)

OCTET_STRING_decode_oer(td, st, buf) ==
  LET g == OerOctets(buf, OerSize(td))
  IN IF g.code # RC_OK THEN Rval(g.code, st, 0) ELSE Rval(RC_OK, [st EXCEPT !.buf = g.o], g.n)

Masked(o, unused) ==
  IF o = <<>> THEN o ELSE [o EXCEPT ![Len(o)] = @ - (@ % 2^unused)]

BIT_STRING_decode_oer(td, st, buf) ==
  LET size == OerSize(td)
      g == OerOctets(buf, IF size >= 0 THEN (size + 7) \div 8 ELSE -1)
      unused == IF size >= 0 THEN (8 - (size % 8)) % 8 ELSE g.o[1]
      o == IF size >= 0 THEN g.o ELSE Tail(g.o)
  IN IF g.code # RC_OK THEN Rval(g.code, st, 0)
     ELSE IF size < 0 /\ (g.o = <<>> \/ g.o[1] > 7) THEN Rval(RC_FAIL, st, 0)
     ELSE Rval(RC_OK, [st EXCEPT !.bits_unused = unused, !.buf = Masked(o, unused)], g.n)

BOOLEAN_decode_oer(td, st, buf) ==
  IF buf = <<>> THEN Rval(RC_WMORE, st, 0) ELSE Rval(RC_OK, [st EXCEPT !.val = buf[1]], 1)

NULL_decode_oer(td, st, buf) == Rval(RC_OK, st, 0)

oer_decoder(td, st0, buf) ==
  LET st == Opened(td, st0) IN
  CASE td.kind = "SEQUENCE" -> SEQUENCE_decode_oer(td, st, buf)
    [] td.kind = "CHOICE" -> CHOICE_decode_oer(td, st, buf)
    [] td.kind \in {"SET_OF", "SEQUENCE_OF"} -> SET_OF_decode_oer(td, st, buf)
    [] td.kind = "OCTET_STRING" -> OCTET_STRING_decode_oer(td, st, buf)
    [] td.kind = "BIT_STRING" -> BIT_STRING_decode_oer(td, st, buf)
    [] td.kind = "INTEGER" -> NativeInteger_decode_oer(td, st, buf)
    [] td.kind = "ENUMERATED" -> NativeEnumerated_decode_oer(td, st, buf)
    [] td.kind = "BOOLEAN" -> BOOLEAN_decode_oer(td, st, buf)
    [] td.kind = "NULL" -> NULL_decode_oer(td, st, buf)

oer_decode(td, st, buf) == oer_decoder(td, st, buf)
---------------------------------------------------------------------------
(* Canonical OER encoders.                                                 *)

RECURSIVE oer_encoder(_, _)

oer_open_type_put(td, v) ==
  LET o == oer_encoder(td, v)
  IN IF o = <<>> THEN <<>> ELSE <<oer_serialize_length(Len(o[1])) \o o[1]>>

SEQUENCE_encode_oer(td, v) ==
  LET all == [i \in DOMAIN td.elements |-> i]
      root == SelectSeq(all, LAMBDA i : InRoot(td, i - 1))
      exts == Rest(all, Len(root))
      roms == SelectSeq(root, LAMBDA i : td.elements[i].opt)
      extended == \E i \in ToSet(exts) : Encoded(td, v, i)
      preamble == (IF td.ext >= 0 THEN <<Bit(extended)>> ELSE <<>>) \o
                  [k \in DOMAIN roms |-> Bit(Encoded(td, v, roms[k]))]
      part == [i \in DOMAIN td.elements |->
                 CASE ~Encoded(td, v, i) /\ (td.elements[i].opt \/ v[i] # <<>>) -> << <<>> >>
                   [] ~Encoded(td, v, i) /\ ~td.elements[i].opt /\ v[i] = <<>> -> <<>>
                   [] Encoded(td, v, i) /\ i \in ToSet(root) ->
                        oer_encoder(td.elements[i].type, v[i][1])
                   [] Encoded(td, v, i) /\ i \in ToSet(exts) ->
                        oer_open_type_put(td.elements[i].type, v[i][1])]
      Parts(is) == FlattenSeq([k \in DOMAIN is |-> part[is[k]][1]])
      map == Packed([k \in DOMAIN exts |-> Bit(Encoded(td, v, exts[k]))])
      put == root \o (IF extended THEN exts ELSE <<>>)
  IN IF \E i \in ToSet(put) : part[i] = <<>> THEN <<>>
     ELSE <<Packed(preamble) \o Parts(root) \o
            (IF extended
             THEN <<1 + Len(map), (8 - (Len(exts) % 8)) % 8>> \o map \o Parts(exts)
             ELSE <<>>)>>

\* Every octet of a long tag but the first written, the most significant,
\* carries the continuation bit: the loop runs from the least significant up.
oer_put_tag(tag) ==
  LET val == tag \div 4
      g == Groups128(val)
  IN IF val < 63 THEN <<64 * (tag % 4) + val>>
     ELSE <<64 * (tag % 4) + 63>> \o
          [i \in DOMAIN g |-> IF i = 1 THEN g[i] ELSE 128 + g[i]]

CHOICE_encode_oer(td, v) ==
  IF v[1] = 0 \/ v[1] > Len(td.elements) THEN <<>>
  ELSE LET e == td.elements[v[1]]
           part == IF InExtensionGroup(td, v[1] - 1) THEN oer_open_type_put(e.type, v[2])
                   ELSE oer_encoder(e.type, v[2])
       IN IF part = <<>> THEN <<>> ELSE <<oer_put_tag(e.tag) \o part[1]>>

oer_put_quantity(qty) == <<Len(Octets256(qty))>> \o Octets256(qty)

SET_OF_encode_oer(td, v) ==
  LET part == [i \in DOMAIN v |-> oer_encoder(td.elements[1].type, v[i])]
  IN IF \E i \in DOMAIN v : part[i] = <<>> THEN <<>>
     ELSE <<oer_put_quantity(Len(v)) \o FlattenSeq([i \in DOMAIN v |-> part[i][1]])>>

INTEGER_encode_oer(td, v) ==
  LET o == asn_imax2INTEGER(v)
      useful == IF ~OerPositive(td) THEN o
                ELSE IF Significant(o) = <<>> THEN <<0>> ELSE Significant(o)
      pad == [i \in 1..OerWidth(td) - Len(useful) |-> IF o[1] >= 128 THEN 255 ELSE 0]
  IN IF OerPositive(td) /\ o[1] >= 128 THEN <<>>
     ELSE IF OerWidth(td) = 0 THEN <<oer_serialize_length(Len(useful)) \o useful>>
     ELSE IF OerWidth(td) < Len(useful) THEN <<>>
     ELSE <<pad \o useful>>

NativeEnumerated_encode_oer(td, v) ==
  LET o == asn_imax2INTEGER(v)
  IN IF v \in 0..127 THEN << <<v>> >> ELSE << <<128 + Len(o)>> \o o >>

OCTET_STRING_encode_oer(td, v) ==
  IF OerSize(td) < 0 THEN <<oer_serialize_length(Len(v)) \o v>>
  ELSE IF Len(v) = OerSize(td) THEN <<v>> ELSE <<>>

\* A string shorter than its fixed size never ends: the loop that appends the
\* missing zeros does not count them.
BIT_STRING_encode_oer(td, v) ==
  LET size == OerSize(td)
      o == IF v[1] = 0 THEN v[2] ELSE Masked(v[2], v[1])
  IN IF v[1] > 7 \/ (v[1] # 0 /\ v[2] = <<>>) THEN <<>>
     ELSE IF size < 0 THEN <<oer_serialize_length(1 + Len(o)) \o <<v[1]>> \o o>>
     ELSE IF Len(o) > (size + 7) \div 8 THEN <<>>
     ELSE IF Len(o) < (size + 7) \div 8 THEN <<"never returns">>
     ELSE <<o>>

oer_encoder(td, v) ==
  CASE td.kind = "SEQUENCE" -> SEQUENCE_encode_oer(td, v)
    [] td.kind = "CHOICE" -> CHOICE_encode_oer(td, v)
    [] td.kind \in {"SET_OF", "SEQUENCE_OF"} -> SET_OF_encode_oer(td, v)
    [] td.kind = "OCTET_STRING" -> OCTET_STRING_encode_oer(td, v)
    [] td.kind = "BIT_STRING" -> BIT_STRING_encode_oer(td, v)
    [] td.kind = "INTEGER" -> INTEGER_encode_oer(td, v)
    [] td.kind = "ENUMERATED" -> NativeEnumerated_encode_oer(td, v)
    [] td.kind = "BOOLEAN" -> << <<IF v # 0 THEN 255 ELSE 0>> >>
    [] td.kind = "NULL" -> << <<>> >>

oer_encode(td, v) == oer_encoder(td, v)
=============================================================================
