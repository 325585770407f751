----------------------------- MODULE GserCodec -----------------------------
(***************************************************************************)
(* The text form in which the L1 configuration and the generator's stimuli *)
(* are read: gser_parse cuts the text into tokens, the decoders build the  *)
(* structure.  Text is a sequence of character codes; names are such       *)
(* sequences too.  A decoder returns [code, st, n], n characters consumed. *)
(*                                                                         *)
(* gser_parse leaves the caller's token as it was when the text ends       *)
(* inside a token, and the callers' variables are not initialised: junk is *)
(* the value found there.                                                  *)
(***************************************************************************)
EXTENDS Asn1

RC_EMPTY == "RC_EMPTY"      \* a closing bracket where a value was expected

GserTokens == {"OPEN_BRACKET", "CLOSE_BRACKET", "SPACE", "TEXT", "COLON", "COMMA",
               "BSTRING", "HSTRING", "PRINTABLE_STRING"}
Bodies == {"TEXT", "BSTRING", "HSTRING", "PRINTABLE_STRING"}

Whitespace(c) == c \in {9, 10, 12, 13, 32}
Alnum(c) == c \in (48..57) \cup (65..90) \cup (97..122) \cup {46}
Dash == 45

\* The comment mark "--" at p.
CommentAt(buf, p) == buf[p] = Dash /\ p < Len(buf) /\ buf[p + 1] = Dash

\* A character that is a token of its own.
Punctuation(c) == CASE c = 123 -> "OPEN_BRACKET" [] c = 125 -> "CLOSE_BRACKET"
                    [] c = 58 -> "COLON" [] c = 44 -> "COMMA" [] OTHER -> "none"

RECURSIVE Scan(_, _, _)
\* The loop of gser_parse.  s: state, quote, token, and whether the last
\* character looked at belongs to the token.
Scan(buf, p, s) ==
  LET c == buf[p]
      Found(token, last) == [n |-> IF last THEN p ELSE p - 1, token |-> token, state |-> "INITIAL"]
      On(state) == Scan(buf, p + 1, [s EXCEPT !.state = state])
      space == CASE Whitespace(c) ->
                      Scan(buf, p + 1, [s EXCEPT !.last = TRUE])
                 [] ~Whitespace(c) /\ CommentAt(buf, p) -> On("COMMENT")
                 [] OTHER -> Found("SPACE", FALSE)
  IN
  IF p > Len(buf) THEN [n |-> IF s.last THEN p - 1 ELSE p - 2, token |-> s.token, state |-> s.state]
  ELSE CASE s.state = "INITIAL" /\ Whitespace(c) ->
              Scan(buf, p + 1, [s EXCEPT !.state = "WHITESPACE", !.token = "SPACE", !.last = TRUE])
         [] s.state = "INITIAL" /\ CommentAt(buf, p) -> On("COMMENT")
         [] s.state = "INITIAL" /\ ~CommentAt(buf, p) /\ (Alnum(c) \/ c = Dash) -> On("TEXT")
         [] s.state = "INITIAL" /\ c \in {39, 34} ->
              Scan(buf, p + 1, [s EXCEPT !.state = "STRING", !.quote = c])
         [] s.state = "INITIAL" /\ Punctuation(c) # "none" -> Found(Punctuation(c), TRUE)
         [] s.state = "WHITESPACE" -> space
         [] s.state = "TEXT" -> IF Alnum(c) \/ c = Dash THEN On("TEXT") ELSE Found("TEXT", FALSE)
         [] s.state = "STRING" -> On(IF c = s.quote THEN "STRING_END" ELSE "STRING")
         [] s.state = "STRING_END" ->
              IF c = 66 THEN Found("BSTRING", TRUE)
              ELSE IF c = 72 THEN Found("HSTRING", TRUE) ELSE Found("PRINTABLE_STRING", FALSE)
         [] s.state = "COMMENT" -> IF c \in {10, 13} THEN Found("SPACE", TRUE) ELSE On("COMMENT")
         [] OTHER -> space

\* The next token: its length, which token, and the state for the next call.
gser_parse(state, buf, token) ==
  IF buf = <<>> \/ buf[1] = 0 THEN [n |-> 0, token |-> token, state |-> state]
  ELSE Scan(buf, 1, [state |-> state, quote |-> 0, token |-> token, last |-> FALSE])

RECURSIVE NextToken(_, _, _, _)
\* The loop every decoder starts with: spaces are stepped over.
NextToken(state, buf, token, used) ==
  LET t == gser_parse(state, buf, token) IN
  IF t.n > 0 /\ t.token = "SPACE" THEN NextToken(t.state, Rest(buf, t.n), "SPACE", used + t.n)
  ELSE [n |-> t.n, token |-> t.token, state |-> t.state, skipped |-> used, buf |-> buf]

---------------------------------------------------------------------------
(* Primitive values.                                                       *)

Digit(c) == c \in 48..57
HexDigit(c) == IF Digit(c) THEN c - 48 ELSE IF c \in 65..70 THEN c - 55
               ELSE IF c \in 97..102 THEN c - 87 ELSE -1
Decimal(s) == FoldLeft(LAMBDA a, c : 10 * a + (c - 48), 0, s)
LONG_MAX == 2^(8 * Octets - 1) - 1

\* INTEGER: a name of an enumeration, a decimal number, or two hexadecimal
\* digits read as one signed octet.  <<>> when it is none of these.
INTEGER__gser_body_decode(td, chunk) ==
  LET named == {i \in DOMAIN td.enums : td.enums[i].name = chunk}
      sign == chunk # <<>> /\ chunk[1] = Dash
      digits == IF sign THEN Tail(chunk) ELSE chunk
      v == IF sign THEN -Decimal(digits) ELSE Decimal(digits)
  IN IF named # {} THEN <<td.enums[CHOOSE i \in named : TRUE].value>>
     ELSE IF td.enums # <<>> THEN <<>>
     ELSE IF digits # <<>> /\ \A i \in DOMAIN digits : Digit(digits[i])
       THEN (IF v < -LONG_MAX - 1 \/ v > LONG_MAX THEN <<>> ELSE <<v>>)
     ELSE IF Len(chunk) = 2 /\ \A i \in 1..2 : HexDigit(chunk[i]) >= 0
       THEN asn_INTEGER2long(<<16 * HexDigit(chunk[1]) + HexDigit(chunk[2])>>)
     ELSE <<>>

UpperCase(s) == [i \in DOMAIN s |-> IF s[i] \in 97..122 THEN s[i] - 32 ELSE s[i]]
TRUE_lexem == <<84, 82, 85, 69>>
FALSE_lexem == <<70, 65, 76, 83, 69>>
NULL_lexem == <<78, 85, 76, 76>>

BOOLEAN__gser_body_decode(chunk) ==
  IF UpperCase(chunk) = TRUE_lexem THEN <<1>>
  ELSE IF UpperCase(chunk) = FALSE_lexem THEN <<0>> ELSE <<>>

NULL__gser_body_decode(chunk) == IF chunk = NULL_lexem THEN <<0>> ELSE <<>>

\* 'AB CD'H: pairs of digits.  A last digit alone is the high half of an octet,
\* or left for later when the text ends behind it.
convert_hexadecimal(st, chunk, more) ==
  LET At(i) == HexDigit(chunk[i])
      at == SelectSeq([i \in DOMAIN chunk |-> i],
                      LAMBDA i : ~Whitespace(chunk[i]) /\ chunk[i] \notin {39, 72})
      pairs == Len(at) \div 2
      half == IF Len(at) % 2 = 1 /\ more THEN <<16 * At(at[Len(at)])>> ELSE <<>>
  IN IF \E i \in DOMAIN at : At(at[i]) < 0 THEN <<>>
     ELSE <<[st EXCEPT !.buf = @ \o [i \in 1..pairs |-> 16 * At(at[2 * i - 1]) + At(at[2 * i])] \o half],
            IF Len(at) % 2 = 0 \/ more THEN Len(chunk) ELSE IF pairs = 0 THEN 0 ELSE at[2 * pairs]>>

\* '0101'B: bits, first to last.
gser_convert_binary(st, chunk) ==
  LET b == SelectSeq(chunk, LAMBDA c : ~Whitespace(c) /\ c \notin {39, 66})
  IN IF Len(chunk) < 3 \/ \E i \in DOMAIN b : b[i] \notin {48, 49} THEN <<>>
     ELSE <<[st EXCEPT !.buf = Packed([i \in DOMAIN b |-> b[i] - 48]),
                       !.bits_unused = (8 - (Len(b) % 8)) % 8], Len(chunk)>>

\* The last B or H decides, the character behind the token included.
OCTET_STRING__gser_convert(st, chunk, next) ==
  LET marks == SelectSeq(Rest(chunk \o next, 1), LAMBDA c : c \in {66, 98, 72, 104})
  IN IF marks # <<>> /\ marks[Len(marks)] \in {72, 104}
     THEN convert_hexadecimal(st, chunk, next # <<>>)
     ELSE gser_convert_binary(st, chunk)

\* Quoted text, up to the quote it began with.  Entity references are left out.
convert_entrefs(st, chunk) ==
  LET ends == {i \in 2..Len(chunk) : chunk[i] = chunk[1]}
      end == IF ends = {} THEN Len(chunk) + 1 ELSE CHOOSE i \in ends : \A j \in ends : i <= j
  IN <<[st EXCEPT !.buf = @ \o SubSeq(chunk, 2, end - 1)], Len(chunk)>>

\* What a type's body receiver makes of a chunk, given the character behind it:
\* <<>>, or the structure and the number of characters converted.
Received(td, st, chunk, next) ==
  LET Kept(v) == IF v = <<>> THEN <<>> ELSE <<[st EXCEPT !.val = v[1]], Len(chunk)>> IN
  CASE td.kind \in {"INTEGER", "ENUMERATED"} -> Kept(INTEGER__gser_body_decode(td, chunk))
    [] td.kind = "BOOLEAN" -> Kept(BOOLEAN__gser_body_decode(chunk))
    [] td.kind = "NULL" -> Kept(NULL__gser_body_decode(chunk))
    [] td.kind \in {"OCTET_STRING", "BIT_STRING"} -> OCTET_STRING__gser_convert(st, chunk, next)
    [] td.kind = "PrintableString" -> convert_entrefs(st, chunk)

gser_decode_general(td, st, buf, junk) ==
  LET t == NextToken("INITIAL", buf, junk, 0)
      r == Received(td, Opened(td, st), SubSeq(t.buf, 1, t.n),
                    SubSeq(t.buf, t.n + 1, Lesser(Len(t.buf), t.n + 1)))
  IN IF t.token \in Bodies
       THEN (IF r = <<>> THEN Rval(RC_FAIL, st, 0)
             ELSE IF r[2] = 0 /\ t.n = Len(t.buf) THEN Rval(RC_WMORE, st, 0)
             ELSE Rval(RC_OK, r[1], t.skipped + r[2]))
     ELSE IF t.token = "CLOSE_BRACKET" THEN Rval(RC_EMPTY, Opened(td, st), t.skipped + t.n)
     ELSE Rval(RC_FAIL, st, 0)

---------------------------------------------------------------------------
(* Constructed values.  p is where a decoder has got to: the text left,    *)
(* the number of characters consumed, the parser's state and last token.   *)

RECURSIVE gser_decoder(_, _, _, _)

\* The next token from p on: its length, and where the decoder then is.
Token(p) ==
  LET t == NextToken(p.state, p.buf, p.token, 0)
  IN [n |-> t.n, p |-> [buf |-> t.buf, used |-> p.used + t.skipped, state |-> t.state,
                        token |-> t.token]]
Step(p, n) == [p EXCEPT !.buf = Rest(@, n), !.used = @ + n]
Start(buf, junk) == [buf |-> buf, used |-> 0, state |-> "INITIAL", token |-> junk]

\* Mutant: a member that is not there stays away, DEFAULT or not.
GserDefaultLeftOut(e) == Fresh

\* A member that is not there: its DEFAULT.
GserDefault(e) == IF e.dflt = <<>> THEN Fresh ELSE [Opened(e.type, Fresh) EXCEPT !.val = e.dflt[1]]

RECURSIVE GserMembers(_, _, _, _, _, _)
\* Members in order from i (from 0) on, inside so many brackets.  A comma or
\* bracket at the end of the text, behind the last member, is looked at forever.
GserMembers(td, st, i, braces, p0, junk) ==
  LET t == Token(p0)
      p == t.p
      e == td.elements[i + 1]
      last == i = Len(td.elements)
      absent == ~last /\ (t.n <= 0 \/ p.token = "CLOSE_BRACKET")
      named == t.n > 0 /\ p.token = "TEXT" /\ SubSeq(p.buf, 1, t.n) = e.name
      q == Step(p, t.n)
      m == gser_decoder(e.type, st.mem[i + 1], q.buf, junk)
      More(s, r) == IF braces = 0 /\ i + 1 = Len(td.elements) THEN Rval(RC_OK, s, r.used)
                    ELSE GserMembers(td, s, i + 1, braces, r, junk)
      skipped == More([st EXCEPT !.mem[i + 1] = GserDefault(e)], [p EXCEPT !.token = "TEXT"])
  IN CASE absent /\ e.opt -> skipped
       [] absent /\ ~e.opt -> Rval(RC_FAIL, st, p.used)
       [] ~absent /\ p.token = "OPEN_BRACKET" ->
            IF t.n = 0 THEN Rval("never returns", st, p.used)
            ELSE GserMembers(td, st, i, braces + 1, q, junk)
       [] ~absent /\ p.token = "COMMA" ->
            IF t.n = 0 THEN Rval("never returns", st, p.used)
            ELSE GserMembers(td, st, i, braces, q, junk)
       [] ~absent /\ p.token = "CLOSE_BRACKET" ->
            IF braces = 1 THEN Rval(RC_OK, st, q.used)
            ELSE IF t.n = 0 /\ braces < 1 THEN Rval("never returns", st, p.used)
            ELSE GserMembers(td, st, i, braces - 1, q, junk)
       [] ~absent /\ p.token = "TEXT" ->
            IF last THEN Rval(RC_FAIL, st, p.used)
            ELSE IF named
            THEN (IF m.code \in {RC_OK, RC_EMPTY}
                  THEN More([st EXCEPT !.mem[i + 1] = m.st], Step(q, m.consumed))
                  ELSE Rval(m.code, st, q.used))
            ELSE IF e.opt THEN skipped ELSE Rval(RC_FAIL, st, p.used)
       [] OTHER -> Rval(RC_FAIL, st, p.used)

SEQUENCE_decode_gser(td, st, buf, junk) ==
  GserMembers(td, Opened(td, st), 0, 0, Start(buf, junk), junk)

\* name : value
CHOICE_decode_gser(td, st0, buf, junk) ==
  LET st == Opened(td, st0)
      a == Token(Start(buf, junk))
      name == SubSeq(a.p.buf, 1, a.n)
      b == Token(Step(a.p, a.n))
      named == {i \in DOMAIN td.elements : td.elements[i].name = name}
      i == CHOOSE k \in named : \A l \in named : k <= l
      q == Step(b.p, b.n)
      m == gser_decoder(td.elements[i].type, Fresh, q.buf, junk)
  IN IF a.n <= 0 \/ a.p.token # "TEXT" \/ b.n <= 0 \/ b.p.token # "COLON" \/ named = {}
     THEN Rval(RC_FAIL, st, b.p.used)
     ELSE Rval(m.code, [st EXCEPT !.present = i, !.mem = m.st], q.used + m.consumed)

RECURSIVE GserItems(_, _, _, _, _)
\* Items; brackets and commas are stepped over before an item.
GserItems(td, st, braces, p0, junk) ==
  LET t == Token(p0)
      between == t.p.token \in {"OPEN_BRACKET", "COMMA"}
      q == IF between THEN Step(t.p, t.n) ELSE t.p
      m == gser_decoder(td.elements[1].type, Fresh, q.buf, junk)
      inner == IF t.p.token = "OPEN_BRACKET" THEN braces + 1 ELSE braces
  IN IF t.n <= 0 THEN Rval(RC_FAIL, st, t.p.used)
     ELSE IF t.p.token = "CLOSE_BRACKET"
     THEN (IF braces = 1 THEN Rval(RC_OK, st, t.p.used + t.n)
           ELSE GserItems(td, st, braces - 1, Step(t.p, t.n), junk))
     ELSE IF m.code = RC_OK
     THEN GserItems(td, [st EXCEPT !.list = Append(@, m.st)], inner, Step(q, m.consumed), junk)
     ELSE Rval(m.code, st, q.used + m.consumed)

SET_OF_decode_gser(td, st, buf, junk) ==
  GserItems(td, Opened(td, st), 0, Start(buf, junk), junk)

gser_decoder(td, st, buf, junk) ==
  CASE td.kind = "SEQUENCE" -> SEQUENCE_decode_gser(td, st, buf, junk)
    [] td.kind = "CHOICE" -> CHOICE_decode_gser(td, st, buf, junk)
    [] td.kind \in {"SET_OF", "SEQUENCE_OF"} -> SET_OF_decode_gser(td, st, buf, junk)
    [] OTHER -> gser_decode_general(td, st, buf, junk)

RECURSIVE gser_whitespace_span(_)
gser_whitespace_span(buf) ==
  IF buf # <<>> /\ buf[1] \in {9, 10, 13, 32} THEN 1 + gser_whitespace_span(Tail(buf)) ELSE 0

\* Whatever goes wrong is a failure to the caller.
gser_decode(td, st, buf, junk) ==
  LET n == gser_whitespace_span(buf)
      r == gser_decoder(td, st, Rest(buf, n), junk)
  IN IF r.code = RC_OK THEN Rval(RC_OK, r.st, r.consumed + n)
     ELSE IF r.code = "never returns" THEN r
     ELSE Rval(RC_FAIL, r.st, n)

---------------------------------------------------------------------------
(* The encoders.  Each returns <<text>>, or <<>> when the value cannot be  *)
(* encoded.  An indentation of any depth is one space.                     *)

RECURSIVE gser_encoder(_, _)
RECURSIVE Digits(_)
Digits(n) == IF n < 10 THEN <<48 + n>> ELSE Append(Digits(n \div 10), 48 + (n % 10))

NativeInteger_encode_gser(v) == << IF v < 0 THEN <<Dash>> \o Digits(-v) ELSE Digits(v) >>

NativeEnumerated_encode_gser(td, v) ==
  LET named == {i \in DOMAIN td.enums : td.enums[i].value = v}
  IN IF named = {} THEN <<>> ELSE <<td.enums[CHOOSE i \in named : TRUE].name>>

BOOLEAN_encode_gser(v) == <<IF v # 0 THEN TRUE_lexem ELSE FALSE_lexem>>
NULL_encode_gser == <<NULL_lexem>>

HexChar(d) == IF d < 10 THEN 48 + d ELSE 55 + d

\* 'A1 B2'H
OCTET_STRING_encode_gser(v) ==
  <<FoldLeft(LAMBDA a, i : a \o (IF i = 1 THEN <<>> ELSE <<32>>)
                             \o <<HexChar(v[i] \div 16), HexChar(v[i] % 16)>>,
             <<39>>, [i \in DOMAIN v |-> i]) \o <<39, 72>> >>

\* '0101'B
BIT_STRING_encode_gser(v) ==
  LET bits == BitsOf(v[2])
  IN << <<39>> \o [i \in 1..Len(bits) - v[1] |-> 48 + bits[i]] \o <<39, 66>> >>

Brackets(text) == <<123, 10>> \o text \o <<10, 125>>
Comma == <<44, 10>>

\* The members in order; an absent one with a DEFAULT is written as that.
SEQUENCE_encode_gser(td, v) ==
  LET Present(i) == IF v[i] = <<>> THEN td.elements[i].dflt ELSE v[i]
      written == SelectSeq([i \in DOMAIN v |-> i], LAMBDA i : Present(i) # <<>>)
      text == [k \in DOMAIN written |->
                 gser_encoder(td.elements[written[k]].type, Present(written[k])[1])]
      Item(k) == <<32>> \o td.elements[written[k]].name \o <<32>> \o text[k][1]
  IN IF \/ \E i \in DOMAIN v : Present(i) = <<>> /\ ~td.elements[i].opt
        \/ \E k \in DOMAIN text : text[k] = <<>>
     THEN <<>>
     ELSE <<Brackets(FoldLeft(LAMBDA a, k : a \o (IF k = 1 THEN <<>> ELSE Comma) \o Item(k),
                              <<>>, [k \in DOMAIN written |-> k]))>>

CHOICE_encode_gser(td, v) ==
  IF v[1] \notin DOMAIN td.elements THEN <<>>
  ELSE LET m == gser_encoder(td.elements[v[1]].type, v[2])
       IN IF m = <<>> THEN <<>> ELSE <<td.elements[v[1]].name \o <<32, 58, 32>> \o m[1]>>

SEQUENCE_OF_encode_gser(td, v) ==
  LET text == [k \in DOMAIN v |-> gser_encoder(td.elements[1].type, v[k])]
  IN IF \E k \in DOMAIN text : text[k] = <<>> THEN <<>>
     ELSE <<Brackets(FoldLeft(LAMBDA a, k : a \o (IF k = 1 THEN <<>> ELSE Comma) \o <<32>> \o text[k][1],
                              <<>>, [k \in DOMAIN v |-> k]))>>

gser_encoder(td, v) ==
  CASE td.kind = "SEQUENCE" -> SEQUENCE_encode_gser(td, v)
    [] td.kind = "CHOICE" -> CHOICE_encode_gser(td, v)
    [] td.kind = "SEQUENCE_OF" -> SEQUENCE_OF_encode_gser(td, v)
    [] td.kind = "INTEGER" -> NativeInteger_encode_gser(v)
    [] td.kind = "ENUMERATED" -> NativeEnumerated_encode_gser(td, v)
    [] td.kind = "BOOLEAN" -> BOOLEAN_encode_gser(v)
    [] td.kind = "NULL" -> NULL_encode_gser
    [] td.kind \in {"OCTET_STRING", "PrintableString"} -> OCTET_STRING_encode_gser(v)
    [] td.kind = "BIT_STRING" -> BIT_STRING_encode_gser(v)

\* The text ends in a NUL.
gser_encode(td, v) ==
  LET t == gser_encoder(td, v) IN IF t = <<>> THEN <<>> ELSE <<Append(t[1], 0)>>
=============================================================================
