------------------------------ MODULE BerCodec ------------------------------
(***************************************************************************)
(* The BER decoders and DER encoders of the ASN.1 runtime.  A decoder is   *)
(* an operator from the structure as the last call left it and the octets  *)
(* at hand to a result code, the octets consumed, and the structure.  The  *)
(* switch on the context's phase, the loops within a phase and the early   *)
(* returns are kept; each phase that loops is an operator of its own.      *)
(***************************************************************************)
EXTENDS Asn1

---------------------------------------------------------------------------
(* Tags and lengths (ber_tlv_tag.c, ber_tlv_length.c).  A result n of 0    *)
(* asks for more octets, -1 is an error.                                   *)

RECURSIVE LongTag(_, _, _)
LongTag(buf, i, val) ==
  IF i > Len(buf) THEN [n |-> 0, tag |-> 0]
  ELSE IF buf[i] < 128 THEN [n |-> i, tag |-> val * 128 + buf[i]]
  ELSE LET v == val * 128 + (buf[i] - 128)
       IN IF v >= 2^23 THEN [n |-> -1, tag |-> 0] ELSE LongTag(buf, i + 1, v)

ber_fetch_tag(buf) ==
  IF buf = <<>> THEN [n |-> 0, tag |-> 0]
  ELSE LET class == buf[1] \div 64
           t == IF buf[1] % 32 # 31 THEN [n |-> 1, tag |-> buf[1] % 32]
                ELSE LongTag(buf, 2, 0)
       IN [t EXCEPT !.tag = 4 * @ + class]

Constructed(buf) == (buf[1] \div 32) % 2 = 1

\* A length of -1 is the indefinite form.
ber_fetch_length(constructed, buf) ==
  IF buf = <<>> THEN [n |-> 0, len |-> 0]
  ELSE IF buf[1] < 128 THEN [n |-> 1, len |-> buf[1]]
  ELSE IF constructed /\ buf[1] = 128 THEN [n |-> 1, len |-> -1]
  ELSE IF buf[1] = 255 THEN [n |-> -1, len |-> 0]
  ELSE LET k == buf[1] - 128
           len == FoldLeft(LAMBDA a, b : IF a < 0 \/ a >= 2^22 THEN -1 ELSE 256 * a + b,
                           0, SubSeq(buf, 2, Lesser(k + 1, Len(buf))))
       IN IF len < 0 THEN [n |-> -1, len |-> 0]
          ELSE IF Len(buf) <= k THEN [n |-> 0, len |-> 0]
          ELSE [n |-> k + 1, len |-> len]

RECURSIVE ber_skip_length(_, _), SkipToNulls(_, _)
SkipToNulls(buf, skip) ==
  LET t == ber_fetch_tag(buf) IN
  IF t.n <= 0 THEN t.n
  ELSE LET l == ber_skip_length(Constructed(buf), Rest(buf, t.n)) IN
       IF l <= 0 THEN l
       ELSE IF buf[1] = 0 /\ buf[2] = 0 THEN skip + t.n + l
       ELSE SkipToNulls(Rest(buf, t.n + l), skip + t.n + l)

\* The octets of a length and the contents it announces.
ber_skip_length(constructed, buf) ==
  LET l == ber_fetch_length(constructed, buf) IN
  IF l.n <= 0 THEN l.n
  ELSE IF l.len < 0 THEN SkipToNulls(Rest(buf, l.n), l.n)
  ELSE IF l.n + l.len > Len(buf) THEN 0 ELSE l.n + l.len

---------------------------------------------------------------------------
(* ber_check_tags: the chain of tags a type is wrapped in.                 *)

RECURSIVE CheckTags(_, _, _, _, _)
\* c: step and tagno, limit (limit_len), nulls (expect_00_terminators), used,
\* and the length and form of the last tag read.
CheckTags(td, mode, form, buf, c) ==
  LET End(code) == [code |-> code, consumed |-> c.used, step |-> c.step,
                    len |-> IF c.nulls > 0 THEN -c.nulls ELSE c.len, constr |-> c.constr]
      t == ber_fetch_tag(buf)
  IN
  IF c.tagno >= Len(td.tags) THEN End(RC_OK)
  ELSE IF t.n = -1 THEN End(RC_FAIL) ELSE IF t.n = 0 THEN End(RC_WMORE)
  ELSE LET constr == Constructed(buf)
           l == ber_fetch_length(constr, Rest(buf, t.n))
           tl == t.n + l.n
           next == [c EXCEPT !.step = @ + 1, !.tagno = @ + 1, !.used = @ + tl,
                             !.len = l.len, !.constr = constr]
       IN
       IF ~(mode # 0 /\ c.step = 0) /\ t.tag # td.tags[c.tagno + 1] THEN End(RC_FAIL)
       ELSE IF c.tagno < Len(td.tags) - 1 /\ ~constr THEN End(RC_FAIL)
       ELSE IF c.tagno = Len(td.tags) - 1 /\ form # -1 /\ (form = 1) # constr
         THEN End(RC_FAIL)
       ELSE IF l.n = -1 THEN End(RC_FAIL) ELSE IF l.n = 0 THEN End(RC_WMORE)
       ELSE IF l.len = -1
         THEN IF c.limit # -1 THEN End(RC_FAIL)
              ELSE CheckTags(td, mode, form, Rest(buf, tl), [next EXCEPT !.nulls = @ + 1])
       ELSE IF c.nulls > 0 \/ (c.limit # -1 /\ c.limit # l.len + tl) THEN End(RC_FAIL)
       ELSE CheckTags(td, mode, form,
                      SubSeq(buf, tl + 1, Lesser(Len(buf), tl + l.len)),
                      [next EXCEPT !.limit = l.len])

ber_check_tags(td, step, buf, mode, form) ==
  CheckTags(td, mode, form, buf,
            [step |-> step, tagno |-> step - (IF mode = 1 THEN 1 ELSE 0), limit |-> -1,
             nulls |-> 0, used |-> 0, len |-> 0, constr |-> FALSE])

---------------------------------------------------------------------------
(* Constructed types.  left is what the structure's length leaves to read, *)
(* negative when as many end-of-contents marks are awaited.                *)

LEFT(st, buf) == IF st.left >= 0 /\ st.left < Len(buf) THEN SubSeq(buf, 1, st.left) ELSE buf
SIZE_VIOLATION(st, buf) == st.left >= 0 /\ st.left <= Len(buf)

\* A part that wants more octets than the structure's length holds is wrong.
Starved(st, buf, used) ==
  Rval(IF SIZE_VIOLATION(st, buf) THEN RC_FAIL ELSE RC_WMORE, st, used)

\* Mutant: octets of the contents are taken and not counted.
AdvanceUncounted(st, n) == st

\* Octets consumed count against the octets left of a definite length.
Advance(st, n) == IF st.left >= 0 THEN [st EXCEPT !.left = @ - n] ELSE st

RECURSIVE ber_decoder(_, _, _, _), SeqMembers(_, _, _, _, _), SeqTail(_, _, _, _),
          SetOfItems(_, _, _, _), SetOfNulls(_, _, _, _), ChoiceNulls(_, _, _, _),
          OsFill(_, _, _, _, _), OsContents(_, _, _, _, _)

\* Phase 3 and 4 of a SEQUENCE: unknown extensions, then the end marks.
SeqTail(td, st, buf, used) ==
  LET in == LEFT(st, buf)
      t == ber_fetch_tag(in)
      l == ber_skip_length(Constructed(in), Rest(in, t.n))
  IN
  IF st.left = 0 THEN Rval(RC_OK, [st EXCEPT !.phase = 10], used)
  ELSE IF t.n = 0 THEN Starved(st, buf, used)
  ELSE IF t.n = -1 THEN Rval(RC_FAIL, st, used)
  ELSE IF st.left < 0 /\ in[1] = 0 /\ Len(in) < 2 THEN Starved(st, buf, used)
  ELSE IF st.left < 0 /\ in[1] = 0 /\ in[2] = 0
    THEN SeqTail(td, [st EXCEPT !.left = @ + 1, !.phase = 4], Rest(buf, 2), used + 2)
  ELSE IF ~InExtensionGroup(td, Len(td.elements)) \/ st.phase = 4
    THEN Rval(RC_FAIL, st, used)
  ELSE IF l = 0 THEN Starved(st, buf, used)
  ELSE IF l = -1 THEN Rval(RC_FAIL, st, used)
  ELSE SeqTail(td, Advance(st, t.n + l), Rest(buf, t.n + l), used + t.n + l)

\* The member a tag belongs to, from member edx on: a linear search over the
\* optional members, at most eight, then the table of tags.  -1: none.
FindMember(td, edx, tag) ==
  LET all == edx + Optional(td, edx)
      end == IF all + 1 > Len(td.elements) THEN Len(td.elements)
             ELSE IF all + 1 - edx > 8 THEN edx + 8 ELSE all + 1
      untagged == {n \in edx..end - 1 : td.elements[n + 1].tag = -1}
      linear == {n \in edx..end - 1 : /\ td.elements[n + 1].tag = tag
                                      /\ \A m \in untagged : m > n}
      best == {n \in edx..Lesser(all, Len(td.elements) - 1) :
                 tag \in TagsOf(td.elements[n + 1])}
  IN IF linear # {} THEN CHOOSE n \in linear : \A m \in linear : n <= m
     ELSE IF (untagged # {} \/ end < Lesser(all + 1, Len(td.elements))) /\ best # {}
       THEN CHOOSE n \in best : \A m \in best : m <= n
     ELSE -1

\* Microphase 2 of a SEQUENCE member: its own decoder.
SeqMember(td, st, edx, buf, used) ==
  LET e == td.elements[edx + 1]
      r == ber_decoder(e.type, st.mem[edx + 1], LEFT(st, buf), e.tag_mode)
      st1 == [st EXCEPT !.mem[edx + 1] = r.st]
      st2 == Advance(st1, r.consumed)
  IN
  IF r.code = RC_WMORE /\ ~SIZE_VIOLATION(st, buf)
    THEN Rval(RC_WMORE, st2, used + r.consumed)
  ELSE IF r.code # RC_OK THEN Rval(RC_FAIL, st1, used)
  ELSE SeqMembers(td, [st2 EXCEPT !.step = 2 * (edx + 1)], edx + 1,
                  Rest(buf, r.consumed), used + r.consumed)

\* Phase 1 of a SEQUENCE: member by member.
SeqMembers(td, st, edx, buf, used) ==
  LET in == LEFT(st, buf)
      t == ber_fetch_tag(in)
      all == edx + Optional(td, edx)
      mayEnd == all = Len(td.elements) \/ InExtensionGroup(td, edx)
      n == FindMember(td, edx, t.tag)
      l == ber_skip_length(Constructed(in), Rest(in, t.n))
  IN
  IF edx >= Len(td.elements) THEN SeqTail(td, [st EXCEPT !.phase = 3], buf, used)
  ELSE IF st.step % 2 = 1 THEN SeqMember(td, st, edx, buf, used)
  ELSE IF st.left = 0 /\ mayEnd THEN Rval(RC_OK, [st EXCEPT !.phase = 10], used)
  ELSE IF t.n = 0 THEN Starved(st, buf, used)
  ELSE IF t.n = -1 THEN Rval(RC_FAIL, st, used)
  ELSE IF st.left < 0 /\ in[1] = 0 /\ Len(in) < 2 THEN Starved(st, buf, used)
  ELSE IF st.left < 0 /\ in[1] = 0 /\ in[2] = 0 /\ mayEnd
    THEN SeqTail(td, [st EXCEPT !.phase = 3], buf, used)
  ELSE IF n # -1 THEN SeqMember(td, [st EXCEPT !.step = 1 + 2 * n], n, buf, used)
  ELSE IF ~InExtensionGroup(td, all) THEN Rval(RC_FAIL, st, used)
  ELSE IF l = 0 THEN Starved(st, buf, used)
  ELSE IF l = -1 THEN Rval(RC_FAIL, st, used)
  ELSE SeqMembers(td, Advance(st, t.n + l), all, Rest(buf, t.n + l), used + t.n + l)

SEQUENCE_decode_ber(td, st, buf, mode) ==
  LET c == ber_check_tags(td, st.step, buf, mode, 1) IN
  CASE st.phase = 0 /\ c.code # RC_OK -> Rval(c.code, [st EXCEPT !.step = c.step], c.consumed)
    [] st.phase = 0 /\ c.code = RC_OK ->
         SeqMembers(td, [st EXCEPT !.phase = 1, !.step = 0, !.left = c.len], 0,
                    Rest(buf, c.consumed), c.consumed)
    [] st.phase = 1 -> SeqMembers(td, st, st.step \div 2, buf, 0)
    [] st.phase \in {3, 4} -> SeqTail(td, st, buf, 0)
    [] OTHER -> Rval(RC_OK, st, 0)

---------------------------------------------------------------------------
(* CHOICE.                                                                 *)

\* Phase 3 of a CHOICE: the end marks of its own tags.  A mark whose second
\* octet is not zero is looked at again and again: the decoder never returns.
ChoiceNulls(td, st, buf, used) ==
  LET t == ber_fetch_tag(LEFT(st, buf)) IN
  IF st.left = 0 THEN Rval(RC_OK, [st EXCEPT !.phase = 4], used)
  ELSE IF t.n = 0 THEN Starved(st, buf, used)
  ELSE IF t.n = -1 \/ buf[1] # 0 THEN Rval(RC_FAIL, st, used)
  ELSE IF Len(buf) < 2 THEN Starved(st, buf, used)
  ELSE IF buf[2] # 0 THEN Rval("never returns", st, used)
  ELSE ChoiceNulls(td, [st EXCEPT !.left = @ + 1], Rest(buf, 2), used + 2)

ChoiceEnd(td, st, buf, mode, used) ==
  IF st.left > 0 THEN Rval(RC_FAIL, st, used)
  ELSE IF st.left = -1 /\ mode = 0 /\ td.tags = <<>>
    THEN Rval(RC_OK, [st EXCEPT !.phase = 4], used)
  ELSE ChoiceNulls(td, st, buf, used)

\* Phase 2 of a CHOICE: the alternative's own decoder.
ChoiceMember(td, st, buf, mode, used) ==
  LET e == td.elements[st.step + 1]
      st0 == [st EXCEPT !.present = st.step + 1]
      r == ber_decoder(e.type, st.mem, LEFT(st, buf), e.tag_mode)
      st1 == Advance([st0 EXCEPT !.mem = r.st], r.consumed)
  IN
  IF r.code = RC_WMORE /\ ~SIZE_VIOLATION(st, buf)
    THEN Rval(RC_WMORE, st1, used + r.consumed)
  ELSE IF r.code # RC_OK THEN Rval(RC_FAIL, st0, used)
  ELSE ChoiceEnd(td, [st1 EXCEPT !.phase = 3, !.step = 0], Rest(buf, r.consumed), mode,
                 used + r.consumed)

\* Phase 1 of a CHOICE: the tag selects the alternative.
ChoiceTag(td, st, buf, mode, used) ==
  LET in == LEFT(st, buf)
      t == ber_fetch_tag(in)
      el == {i \in DOMAIN td.elements : t.tag \in TagsOf(td.elements[i])}
      l == ber_skip_length(Constructed(in), Rest(in, t.n))
  IN
  IF t.n = 0 THEN Starved(st, buf, used)
  ELSE IF t.n = -1 THEN Rval(RC_FAIL, st, used)
  ELSE IF el # {}
    THEN ChoiceMember(td, [st EXCEPT !.phase = 2, !.step = (CHOOSE i \in el : TRUE) - 1],
                      buf, mode, used)
  ELSE IF td.ext = -1 THEN Rval(RC_FAIL, st, used)
  ELSE IF l = 0 THEN Starved(st, buf, used)
  ELSE IF l = -1 THEN Rval(RC_FAIL, st, used)
  ELSE Rval(RC_OK, Advance(st, t.n + l), used + t.n + l)

CHOICE_decode_ber(td, st, buf, mode) ==
  LET tagged == mode # 0 \/ td.tags # <<>>
      c == ber_check_tags(td, st.step, buf, mode, -1)
  IN
  CASE st.phase = 0 /\ ~tagged ->
         ChoiceTag(td, [st EXCEPT !.phase = 1, !.step = 0, !.left = -1], buf, mode, 0)
    [] st.phase = 0 /\ tagged /\ c.code # RC_OK ->
         Rval(c.code, [st EXCEPT !.step = c.step], c.consumed)
    [] st.phase = 0 /\ tagged /\ c.code = RC_OK ->
         ChoiceTag(td, [st EXCEPT !.phase = 1, !.step = 0, !.left = c.len],
                   Rest(buf, c.consumed), mode, c.consumed)
    [] st.phase = 1 -> ChoiceTag(td, st, buf, mode, 0)
    [] st.phase = 2 -> ChoiceMember(td, st, buf, mode, 0)
    [] st.phase = 3 -> ChoiceEnd(td, st, buf, mode, 0)
    [] OTHER -> Rval(RC_OK, st, 0)

---------------------------------------------------------------------------
(* SET OF and SEQUENCE OF share one decoder.                               *)

\* Phase 2 of a SET OF: all the end marks.
SetOfNulls(td, st, buf, used) ==
  LET in == LEFT(st, buf) IN
  IF st.left >= 0 THEN Rval(RC_OK, [st EXCEPT !.phase = 10], used)
  ELSE IF Len(in) < 2
    THEN Rval(IF in # <<>> /\ in[1] # 0 THEN RC_FAIL ELSE RC_WMORE, st, used)
  ELSE IF in[1] # 0 \/ in[2] # 0 THEN Rval(RC_FAIL, st, used)
  ELSE SetOfNulls(td, [st EXCEPT !.left = @ + 1], Rest(buf, 2), used + 2)

\* Microphase 2 of a SET OF item: decoded apart, and added when complete.
SetOfItem(td, st, buf, used) ==
  LET e == td.elements[1]
      r == ber_decoder(e.type, st.ptr, LEFT(st, buf), 0)
      st1 == Advance([st EXCEPT !.ptr = r.st], r.consumed)
  IN
  IF r.code = RC_WMORE /\ ~SIZE_VIOLATION(st, buf)
    THEN Rval(RC_WMORE, st1, used + r.consumed)
  ELSE IF r.code # RC_OK THEN Rval(RC_FAIL, [st EXCEPT !.ptr = Fresh], used)
  ELSE SetOfItems(td, [st1 EXCEPT !.list = Append(@, r.st), !.ptr = Fresh, !.step = 0],
                  Rest(buf, r.consumed), used + r.consumed)

\* Phase 1 of a SET OF: item by item.
SetOfItems(td, st, buf, used) ==
  LET in == LEFT(st, buf)
      t == ber_fetch_tag(in)
      e == td.elements[1]
  IN
  IF st.step % 2 = 1 THEN SetOfItem(td, st, buf, used)
  ELSE IF st.left = 0 THEN Rval(RC_OK, [st EXCEPT !.phase = 10], used)
  ELSE IF t.n = 0 THEN Starved(st, buf, used)
  ELSE IF t.n = -1 THEN Rval(RC_FAIL, st, used)
  ELSE IF st.left < 0 /\ in[1] = 0 /\ Len(in) < 2 THEN Starved(st, buf, used)
  ELSE IF st.left < 0 /\ in[1] = 0 /\ in[2] = 0
    THEN SetOfNulls(td, [st EXCEPT !.phase = 2, !.step = 0], buf, used)
  ELSE IF e.tag # -1 /\ t.tag # e.tag THEN Rval(RC_FAIL, st, used)
  ELSE SetOfItem(td, [st EXCEPT !.step = 1], buf, used)

SET_OF_decode_ber(td, st, buf, mode) ==
  LET c == ber_check_tags(td, st.step, buf, mode, 1) IN
  CASE st.phase = 0 /\ c.code # RC_OK -> Rval(c.code, [st EXCEPT !.step = c.step], c.consumed)
    [] st.phase = 0 /\ c.code = RC_OK ->
         SetOfItems(td, [st EXCEPT !.phase = 1, !.step = 0, !.left = c.len],
                    Rest(buf, c.consumed), c.consumed)
    [] st.phase = 1 -> SetOfItems(td, st, buf, 0)
    [] st.phase = 2 -> SetOfNulls(td, st, buf, 0)
    [] OTHER -> Rval(RC_OK, st, 0)

---------------------------------------------------------------------------
(* OCTET STRING and BIT STRING.  A constructed string is a tree of         *)
(* strings; the stack holds the path to the one being read, each frame     *)
(* with what is left to read, what was read, and whether it ends with an   *)
(* end mark.                                                               *)

\* Contents octets, less the one that counts a BIT STRING's unused bits.
Appended(td, st, o, chopped) ==
  IF td.kind = "BIT_STRING" /\ ~chopped /\ o # <<>>
  THEN [st EXCEPT !.bits_unused = o[1], !.buf = @ \o Tail(o), !.context = 1]
  ELSE [st EXCEPT !.buf = @ \o o, !.context = 1]

\* A finished string: a BIT STRING's unused bits are cleared.
OsFinal(td, st, used) ==
  IF td.kind # "BIT_STRING" THEN Rval(RC_OK, st, used)
  ELSE IF st.buf = <<>>
    THEN Rval(IF st.bits_unused # 0 THEN RC_FAIL ELSE RC_OK, st, used)
  ELSE IF st.bits_unused > 7 THEN Rval(RC_FAIL, st, used)
  ELSE Rval(RC_OK, [st EXCEPT !.buf[Len(st.buf)] = @ - (@ % 2^st.bits_unused)], used)

\* Phase 3: a primitive string.
OsPrimitive(td, st, buf, used) ==
  LET o == SubSeq(buf, 1, Lesser(Len(buf), st.left))
      st1 == [Appended(td, st, o, st.context # 0) EXCEPT !.left = @ - Len(o)]
  IN
  IF Len(buf) < st.left
  THEN Rval(RC_WMORE, IF buf = <<>> THEN st ELSE st1, used + Len(o))
  ELSE OsFinal(td, [st1 EXCEPT !.phase = 4], used + Len(o))

\* Phase 2: the contents of the innermost string.
OsContents(td, st, buf, mode, used) ==
  LET d == Len(st.stack)
      f == st.stack[d]
      o == SubSeq(buf, 1, Lesser(Len(buf), f.left))
      f1 == [f EXCEPT !.left = @ - Len(o), !.got = @ + Len(o), !.chopped = @ \/ o # <<>>]
      st1 == [(IF o = <<>> THEN st ELSE Appended(td, st, o, f.chopped))
                EXCEPT !.stack[d] = f1]
  IN
  IF f1.left > 0 THEN Rval(RC_WMORE, st1, used + Len(o))
  ELSE OsFill(td, [st1 EXCEPT !.phase = 1], Rest(buf, Len(o)), mode, used + Len(o))

\* The tag expected of a string inside a string at depth d.
Expected(td, d, tag) ==
  IF d = 0 \/ td.all_tags = <<>> THEN tag ELSE td.all_tags[Lesser(d, Len(td.all_tags))]

\* A frame that is read whole is counted in the frame around it.
OsPopped(st) ==
  LET d == Len(st.stack)
      got == st.stack[d].got
  IN [st EXCEPT !.stack = [i \in 1..d - 1 |->
        IF i < d - 1 THEN @[i]
        ELSE [@[i] EXCEPT !.left = IF @ = -1 THEN -1 ELSE @ - got, !.got = @ + got]]]

\* Phase 1: headers are stacked down to a primitive string; frames read whole
\* are taken off again.
OsFill(td, st, buf, mode, used) ==
  LET d == Len(st.stack)
      f == st.stack[d]
      in == IF d > 0 /\ f.left >= 0 /\ f.left < Len(buf) THEN SubSeq(buf, 1, f.left) ELSE buf
      t == ber_fetch_tag(in)
      constr == Constructed(in)
      l == ber_fetch_length(constr, Rest(in, t.n))
      tl == t.n + l.n
      inner == [left |-> IF d > 0 /\ f.left # -1 /\ l.len = -1 THEN f.left - tl ELSE l.len,
                got |-> tl, nulls |-> l.len = -1, chopped |-> FALSE]
      pushed == [st EXCEPT !.stack = Append(@, inner)]
  IN
  IF d > 0 /\ f.left <= 0 /\ ~f.nulls
  THEN IF d = 1 THEN OsFinal(td, [st EXCEPT !.stack = <<>>, !.phase = 4], used)
       ELSE IF st.stack[d - 1].left # -1 /\ st.stack[d - 1].left < f.got
         THEN Rval(RC_FAIL, st, used)
       ELSE OsFill(td, OsPopped(st), buf, mode, used)
  ELSE IF t.n <= 0 THEN Rval(IF t.n = 0 THEN RC_WMORE ELSE RC_FAIL, st, used)
  ELSE IF l.n <= 0 THEN Rval(IF l.n = 0 THEN RC_WMORE ELSE RC_FAIL, st, used)
  ELSE IF d > 0 /\ f.nulls /\ in[1] = 0 /\ in[2] = 0
    THEN OsFill(td, [st EXCEPT !.stack[d] = [@ EXCEPT !.got = @ + 2, !.nulls = FALSE,
                                                      !.left = 0]],
                Rest(buf, 2), mode, used + 2)
  ELSE IF t.tag # Expected(td, d, t.tag) THEN Rval(RC_FAIL, st, used)
  ELSE IF d > 0 /\ f.left # -1 /\ f.left < tl + (IF l.len = -1 THEN 0 ELSE l.len)
    THEN Rval(RC_FAIL, pushed, used)
  ELSE IF constr THEN OsFill(td, pushed, Rest(buf, tl), mode, used + tl)
  ELSE OsContents(td, [pushed EXCEPT !.phase = 2], Rest(buf, tl), mode, used + tl)

OCTET_STRING_decode_ber(td, st, buf, mode) ==
  LET c == ber_check_tags(td, st.step, buf, mode, -1) IN
  CASE st.phase = 0 /\ c.code # RC_OK -> Rval(c.code, [st EXCEPT !.step = c.step], c.consumed)
    [] st.phase = 0 /\ c.code = RC_OK /\ c.constr ->
         OsFill(td, [st EXCEPT !.phase = 1, !.step = c.step, !.left = c.len], buf, mode, 0)
    [] st.phase = 0 /\ c.code = RC_OK /\ ~c.constr ->
         OsPrimitive(td, [st EXCEPT !.phase = 3, !.step = c.step, !.left = c.len],
                     Rest(buf, c.consumed), c.consumed)
    [] st.phase = 1 -> OsFill(td, st, buf, mode, 0)
    [] st.phase = 2 -> OsContents(td, st, buf, mode, 0)
    [] st.phase = 3 -> OsPrimitive(td, st, buf, 0)
    [] OTHER -> OsFinal(td, st, 0)

---------------------------------------------------------------------------
(* Primitive types keep no context: they start over until the whole value  *)
(* is at hand.                                                             *)

\* The first octet that is not zero.
BooleanOf(o) == <<FoldLeft(LAMBDA a, b : IF a = 0 THEN b ELSE a, 0, o)>>

\* The octets of a primitive value, and what its type makes of them.
ber_decode_primitive(td, st, buf, mode) ==
  LET c == ber_check_tags(td, 0, buf, mode, 0)
      octets == SubSeq(buf, c.consumed + 1, c.consumed + c.len)
      o == IF td.kind \in {"BOOLEAN", "NULL"} THEN BooleanOf(octets)
           ELSE asn_INTEGER2long(octets)
  IN IF c.code # RC_OK THEN Rval(c.code, st, 0)
     ELSE IF c.consumed + c.len > Len(buf) THEN Rval(RC_WMORE, st, 0)
     ELSE IF o = <<>> THEN Rval(RC_FAIL, st, 0)
     ELSE Rval(RC_OK, [st EXCEPT !.val = o[1]], c.consumed + c.len)

NativeInteger_decode_ber(td, st, buf, mode) == ber_decode_primitive(td, st, buf, mode)

BOOLEAN_decode_ber(td, st, buf, mode) == ber_decode_primitive(td, st, buf, mode)

\* The decoder in a type's table of operations; it allocates the structure.
ber_decoder(td, st0, buf, mode) ==
  LET st == Opened(td, st0) IN
  CASE td.kind = "SEQUENCE" -> SEQUENCE_decode_ber(td, st, buf, mode)
    [] td.kind = "CHOICE" -> CHOICE_decode_ber(td, st, buf, mode)
    [] td.kind \in {"SET_OF", "SEQUENCE_OF"} -> SET_OF_decode_ber(td, st, buf, mode)
    [] td.kind \in {"OCTET_STRING", "BIT_STRING"} -> OCTET_STRING_decode_ber(td, st, buf, mode)
    [] td.kind \in {"INTEGER", "ENUMERATED"} -> NativeInteger_decode_ber(td, st, buf, mode)
    [] td.kind \in {"BOOLEAN", "NULL"} -> BOOLEAN_decode_ber(td, st, buf, mode)

ber_decode(td, st, buf) == ber_decoder(td, st, buf, 0)

---------------------------------------------------------------------------
(* DER encoders: <<the octets>>, or <<>> when the value cannot be encoded. *)
(* The sizes the code computes in a first pass are the lengths here.       *)

\* Groups of seven bits, the continuation bit set in all but the last.
Base128(n) ==
  LET g == Groups128(n) IN [i \in DOMAIN g |-> IF i < Len(g) THEN 128 + g[i] ELSE g[i]]

ber_tlv_tag_serialize(tag) ==
  IF tag \div 4 <= 30 THEN <<64 * (tag % 4) + tag \div 4>>
  ELSE <<64 * (tag % 4) + 31>> \o Base128(tag \div 4)

der_tlv_length_serialize(len) ==
  IF len <= 127 THEN <<len>> ELSE <<128 + Len(Octets256(len))>> \o Octets256(len)

der_write_TL(tag, len, constructed) ==
  LET t == ber_tlv_tag_serialize(tag)
  IN [t EXCEPT ![1] = IF constructed THEN @ + 32 ELSE @] \o der_tlv_length_serialize(len)

\* The chain of tags around contents, built from the innermost outwards.
der_write_tags(td, contents, mode, constructed, tag) ==
  LET tags == CASE mode = 0 -> td.tags
                [] mode = 1 \/ td.tags = <<>> -> <<tag>> \o td.tags
                [] OTHER -> <<tag>> \o Tail(td.tags)
      inner == Len(tags)
  IN FoldRight(LAMBDA i, o : der_write_TL(tags[i], Len(o), constructed \/ i < inner) \o o,
               [i \in 1..inner |-> i], contents)

RECURSIVE der_encoder(_, _, _, _)

SEQUENCE_encode_der(td, v, mode, tag) ==
  LET put == {i \in DOMAIN td.elements : v[i] # <<>> /\ v[i] # td.elements[i].dflt}
      part == [i \in DOMAIN td.elements |->
                 IF i \in put THEN der_encoder(td.elements[i].type, v[i][1],
                                               td.elements[i].tag_mode, td.elements[i].tag)
                 ELSE << <<>> >>]
  IN IF \E i \in DOMAIN td.elements : \/ v[i] = <<>> /\ ~td.elements[i].opt
                                      \/ part[i] = <<>>
     THEN <<>>
     ELSE <<der_write_tags(td, FlattenSeq([i \in DOMAIN part |-> part[i][1]]), mode, TRUE, tag)>>

CHOICE_encode_der(td, v, mode, tag) ==
  IF v[1] = 0 \/ v[1] > Len(td.elements) THEN <<>>
  ELSE LET e == td.elements[v[1]]
           part == der_encoder(e.type, v[2], e.tag_mode, e.tag)
       IN IF part = <<>> THEN <<>>
          ELSE IF mode = 1 \/ td.tags # <<>>
            THEN <<der_write_tags(td, part[1], mode, TRUE, tag)>>
          ELSE part

SEQUENCE_OF_encode_der(td, v, mode, tag) ==
  LET e == td.elements[1]
      part == [i \in DOMAIN v |-> der_encoder(e.type, v[i], 0, e.tag)]
  IN IF \E i \in DOMAIN v : part[i] = <<>> THEN <<>>
     ELSE <<der_write_tags(td, FlattenSeq([i \in DOMAIN v |-> part[i][1]]), mode, TRUE, tag)>>

\* The items of a SET OF are sorted by their encodings.
SET_OF_encode_der(td, v, mode, tag) ==
  LET e == td.elements[1]
      part == [i \in DOMAIN v |-> der_encoder(e.type, v[i], 0, e.tag)]
  IN IF \E i \in DOMAIN v : part[i] = <<>> THEN <<>>
     ELSE <<der_write_tags(td, FlattenSeq(SortSeq([i \in DOMAIN v |-> part[i][1]], ElBefore)),
                           mode, TRUE, tag)>>

OCTET_STRING_encode_der(td, v, mode, tag) ==
  IF td.kind = "OCTET_STRING" THEN <<der_write_tags(td, v, mode, FALSE, tag)>>
  ELSE LET u == v[1] % 8
           o == IF u = 0 \/ v[2] = <<>> THEN v[2]
                ELSE [v[2] EXCEPT ![Len(v[2])] = @ - (@ % 2^u)]
       IN <<der_write_tags(td, <<u>> \o o, mode, FALSE, tag)>>

\* A native integer is handed to the INTEGER encoder, which trims it.
INTEGER_encode_der(td, v, mode, tag) ==
  <<der_write_tags(td, asn_imax2INTEGER(v), mode, FALSE, tag)>>

BOOLEAN_encode_der(td, v, mode, tag) ==
  <<der_write_tags(td, <<IF v # 0 THEN 255 ELSE 0>>, mode, FALSE, tag)>>

NULL_encode_der(td, v, mode, tag) == <<der_write_tags(td, <<>>, mode, FALSE, tag)>>

der_encoder(td, v, mode, tag) ==
  CASE td.kind = "SEQUENCE" -> SEQUENCE_encode_der(td, v, mode, tag)
    [] td.kind = "CHOICE" -> CHOICE_encode_der(td, v, mode, tag)
    [] td.kind = "SEQUENCE_OF" -> SEQUENCE_OF_encode_der(td, v, mode, tag)
    [] td.kind = "SET_OF" -> SET_OF_encode_der(td, v, mode, tag)
    [] td.kind \in {"OCTET_STRING", "BIT_STRING"} -> OCTET_STRING_encode_der(td, v, mode, tag)
    [] td.kind \in {"INTEGER", "ENUMERATED"} -> INTEGER_encode_der(td, v, mode, tag)
    [] td.kind = "BOOLEAN" -> BOOLEAN_encode_der(td, v, mode, tag)
    [] td.kind = "NULL" -> NULL_encode_der(td, v, mode, tag)

der_encode(td, v) == der_encoder(td, v, 0, 0)
=============================================================================
