------------------------------- MODULE MCAsn1 -------------------------------
(***************************************************************************)
(* Type descriptors as the ASN.1 compiler would lay them out, values of    *)
(* them, and their encodings: by the encoders of the runtime and, for BER, *)
(* in the other forms the standard allows.                                 *)
(***************************************************************************)
EXTENDS Asn1Session

Type(kind, tag, elements, ext) ==
  [kind |-> kind, tags |-> <<tag>>, all_tags |-> <<tag>>, elements |-> elements, ext |-> ext,
   value |-> <<>>, size |-> <<>>, extc |-> FALSE, enums |-> <<>>]
Member(type, tag, mode, opt, dflt) ==
  [type |-> type, tag |-> tag, tag_mode |-> mode, opt |-> opt, dflt |-> dflt, name |-> <<>>]
Must(type, tag, mode) == Member(type, tag, mode, FALSE, <<>>)
May(type, tag, mode) == Member(type, tag, mode, TRUE, <<>>)

TBool == Type("BOOLEAN", 4, <<>>, -1)
TInt == Type("INTEGER", 8, <<>>, -1)
TBits == Type("BIT_STRING", 12, <<>>, -1)
TStr == Type("OCTET_STRING", 16, <<>>, -1)
TNull == Type("NULL", 20, <<>>, -1)
TEnum == Type("ENUMERATED", 40, <<>>, -1)
Ranged(td, value) == [td EXCEPT !.value = value]
Sized(td, size) == [td EXCEPT !.size = size]
TInts == Type("SEQUENCE_OF", 64, <<Must(TInt, 8, 0)>>, -1)
TStrs == Type("SET_OF", 68, <<Must(TStr, 16, 0)>>, -1)
\* SEQUENCE { [0] IMPLICIT INTEGER, OCTET STRING OPTIONAL, NULL OPTIONAL, ... }
TInner == Type("SEQUENCE", 64, <<Must(TInt, 2, -1), May(TStr, 16, 0), May(TNull, 20, 0)>>, 3)
\* The same in a later version, with extensions [7] EXPLICIT and [40] IMPLICIT.
TLater == Type("SEQUENCE", 64,
               TInner.elements \o <<May(TInts, 30, 1), May(TBool, 162, -1)>>, 3)
\* CHOICE { BOOLEAN, [1] IMPLICIT SEQUENCE OF INTEGER, BIT STRING }
TChoice == [Type("CHOICE", 0, <<Must(TBool, 4, 0), Must(TInts, 6, -1), Must(TBits, 12, 0)>>, -1)
              EXCEPT !.tags = <<>>, !.all_tags = <<>>]
\* SEQUENCE { CHOICE, [2] EXPLICIT INTEGER DEFAULT 5, SEQUENCE OPTIONAL, SET OF }
TOuter == Type("SEQUENCE", 64,
               <<Must(TChoice, -1, 0), Member(TInt, 10, 1, TRUE, <<5>>),
                 May(TInner, 64, 0), Must(TStrs, 68, 0)>>, -1)
\* SEQUENCE { [3] EXPLICIT CHOICE, [4] EXPLICIT SEQUENCE OF OPTIONAL }
TTagged == Type("SEQUENCE", 64, <<Must(TChoice, 14, 1), May(TInts, 18, 1)>>, -1)
\* SEQUENCE { [0] INTEGER (0..300), [1] INTEGER (-5..5), [2] INTEGER (1..MAX) OPTIONAL,
\*            [3] OCTET STRING (SIZE (2)), [4] BIT STRING (SIZE (11)), ENUMERATED }
TRanges == Type("SEQUENCE", 64,
                <<Must(Ranged(TInt, <<0, 300>>), 2, -1), Must(Ranged(TInt, <<-5, 5>>), 6, -1),
                  May(Ranged(TInt, <<1>>), 10, -1), Must(Sized(TStr, <<2, 2>>), 14, -1),
                  Must(Sized(TBits, <<11, 11>>), 18, -1), Must(TEnum, 40, 0)>>, -1)

\* <<type encoded, type decoded, value encoded, value decoded>>
Samples ==
  LET Same(td, v) == <<td, td, v, v>>
      later1 == << <<1>>, <<>>, <<0>>, << <<1, 2>> >>, <<255>> >>
      later2 == << <<1>>, << <<>> >>, <<>>, <<>>, <<0>> >>
      choice1 == <<1, 255>>
      choice2 == <<2, <<-129, 0>> >>
      choice3 == <<3, <<3, <<160, 248>> >> >>
      inner1 == << <<300>>, <<>>, <<>> >>
      inner2 == << <<-1>>, << <<7, 0, 9>> >>, <<0>> >>
      outer(c, d, i, s) == << <<c>>, d, i, <<s>> >>
  IN {Same(TInner, inner1), Same(TInner, inner2), Same(TLater, later1), Same(TLater, later2),
      <<TLater, TInner, later1, SubSeq(later1, 1, 3)>>,
      <<TLater, TInner, later2, SubSeq(later2, 1, 3)>>,
      <<TOuter, TOuter, outer(choice1, <<5>>, <<>>, << <<3>>, <<1, 2>> >>),
                        outer(choice1, <<>>, <<>>, << <<3>>, <<1, 2>> >>)>>,
      Same(TOuter, outer(choice2, <<6>>, <<inner1>>, <<>>)),
      Same(TOuter, outer(choice3, <<>>, <<inner2>>, << <<>> >>)),
      Same(TRanges, << <<300>>, <<-5>>, <<200>>, << <<1, 2>> >>, << <<5, <<255, 224>> >> >>, <<3>> >>),
      Same(TRanges, << <<0>>, <<4>>, <<>>, << <<0, 9>> >>, << <<5, <<0, 32>> >> >>, <<129>> >>),
      Same(TTagged, << <<choice1>>, <<>> >>), Same(TTagged, << <<choice2>>, << <<5>> >> >>)}

RECURSIVE Restyled(_, _, _)
\* The same value with every length in the other form, strings in two pieces.
\* ber_check_tags takes no indefinite length around a definite one ("No mixing
\* is allowed"): the tag around the integer, 10, keeps its form.  So do 18 and 30,
\* the tags around a SEQUENCE OF, in the jobs whose decoding may be interrupted.
Restyled(o, style, keep) ==
  IF o = <<>> THEN <<>>
  ELSE LET t == ber_fetch_tag(o)
           l == ber_fetch_length(Constructed(o), Rest(o, t.n))
           head == SubSeq(o, 1, t.n)
           v == SubSeq(o, t.n + l.n + 1, t.n + l.n + l.len)
           half == Len(v) \div 2
           string == ~Constructed(o) /\ t.tag = 16
           contents == IF string
                       THEN head \o <<half>> \o SubSeq(v, 1, half) \o
                            head \o <<Len(v) - half>> \o Rest(v, half)
                       ELSE Restyled(v, style, keep)
           more == Restyled(Rest(o, t.n + l.n + l.len), style, keep)
       IN IF (~Constructed(o) /\ ~string) \/ t.tag \in keep THEN SubSeq(o, 1, t.n + l.n + l.len) \o more
          ELSE [head EXCEPT ![1] = IF string THEN @ + 32 ELSE @] \o
               (IF style = "indefinite" THEN <<128>> \o contents \o <<0, 0>>
                ELSE <<129, Len(contents)>> \o contents) \o more

BerForms(o) == {o, Restyled(o, "long", {10}), Restyled(o, "indefinite", {10, 18, 30})}

Trailers == {<<>>, <<0, 0>>}

RECURSIVE Filled(_, _)
\* A value with the DEFAULTs of absent members filled in.
Filled(td, v) ==
  CASE td.kind = "SEQUENCE" ->
         [i \in DOMAIN v |-> IF v[i] = <<>> THEN td.elements[i].dflt
                             ELSE <<Filled(td.elements[i].type, v[i][1])>>]
    [] td.kind = "CHOICE" -> <<v[1], Filled(td.elements[v[1]].type, v[2])>>
    [] td.kind \in {"SET_OF", "SEQUENCE_OF"} ->
         [i \in DOMAIN v |-> Filled(td.elements[1].type, v[i])]
    [] OTHER -> v

BerJobs ==
  {[codec |-> "ber", td |-> j[1][2], wanted |-> j[1][4], octets |-> j[2], trailer |-> j[3],
    whole |-> FALSE, junk |-> "SPACE"] :
     j \in UNION {{s} \X BerForms(der_encode(s[1], s[3])[1]) \X Trailers : s \in Samples}}

\* Extensions arrive in one piece: SEQUENCE_decode_oer forgets the length of
\* the map of extensions when the input ends behind it.
OerJobs ==
  {[codec |-> "oer", td |-> j[1][2], wanted |-> Filled(j[1][2], j[1][4]),
    octets |-> oer_encode(j[1][1], j[1][3])[1], trailer |-> j[2], whole |-> j[1][1].ext >= 0 /\
      \E i \in DOMAIN j[1][3] : i > j[1][1].ext /\ j[1][3][i] # <<>>, junk |-> "SPACE"] :
     j \in {s \in Samples : s[1].kind = "SEQUENCE" /\ s[1] = s[2]} \X Trailers}

\* Types the PER encodings of which depend on ranges, sizes and extensions.
Open(td) == [td EXCEPT !.extc = TRUE]
Anon(types) == [i \in DOMAIN types |-> Must(types[i], 0, 0)]
Opt(types) == [i \in DOMAIN types |-> May(types[i], 0, 0)]
TColour == [Type("ENUMERATED", 40, <<>>, 2) EXCEPT !.enums =
             [i \in 1..4 |-> [name |-> <<i>>, value |-> 3 * i]]]
TVisible == Type("VisibleString", 104, <<>>, -1)
TFlags == Open(Sized(Type("SEQUENCE_OF", 64, <<Must(TBool, 4, 0)>>, -1), <<0, 3>>))
TSizes == Type("SEQUENCE", 64,
  Anon(<<Ranged(TInt, <<0, 300>>), Open(Ranged(TInt, <<-5, 5>>)), Sized(TStr, <<2, 2>>)>>) \o
  Opt(<<Ranged(TInt, <<0, 70000>>), Sized(TStr, <<1, 5>>), Open(Sized(TStr, <<3, 3>>))>>) \o
  Anon(<<Sized(TBits, <<11, 11>>), TVisible, TColour, TFlags, Ranged(TInt, <<7, 7>>)>>), -1)
TGrown(n) == Type("SEQUENCE", 64,
  Anon(<<TBool>>) \o <<Member(TInt, 0, 0, TRUE, <<5>>)>> \o
  Opt(SubSeq(<<Ranged(TInt, <<0, 255>>), TNull, TFlags, TStr>>, 1, n)), 2)
TPick(n) == Type("CHOICE", 0, Anon(SubSeq(<<TBool, TNull, TInt, TStr, TGrown(3)>>, 1, n)), 3)
TLoose == Type("SEQUENCE", 64,
  Anon(<<Ranged(TInt, <<0>>), TBits, Open(Sized(TBits, <<1, 4>>)), TPick(5)>>), -1)

PerBoth ==
  LET Same(td, v) == <<td, td, v, v>>
      V(members) == [i \in DOMAIN members |-> <<members[i]>>]
      Bools(n) == [i \in 1..n |-> i % 2]
      tail(c, n, s) == V(<< <<5, <<255, 224>> >>, s, c, Bools(n), 7>>)
      grown(a, d, x, y, z, w) == << <<a>>, d, x, y, z, w>>
      g1 == grown(1, <<6>>, <<200>>, <<0>>, << <<1, 0>> >>, << <<9>> >>)
      g2 == grown(0, <<5>>, <<>>, <<>>, << <<1, 1, 0, 1>> >>, <<>>)
      cut(v, n) == SubSeq(v, 1, n + 2)
  IN {Same(TSizes, V(<<300, -5, <<1, 2>> >>) \o << <<70000>>, << <<1, 2, 3>> >>, << <<4, 5, 6>> >> >>
                   \o tail(3, 3, <<65, 126>>)),
      Same(TSizes, V(<<0, 6, <<0, 255>> >>) \o << <<255>>, <<>>, << <<4>> >> >> \o tail(12, 4, <<>>)),
      Same(TSizes, V(<<256, 3, <<0, 255>> >>) \o << <<>>, << <<8>> >>, <<>> >> \o tail(9, 0, <<65>>)),
      Same(TGrown(4), g1), Same(TGrown(4), g2), <<TGrown(4), TGrown(3), g2, cut(g2, 3)>>,
      <<TGrown(3), TGrown(2), cut(g1, 3), cut(g1, 2)>>, <<TGrown(1), TGrown(0), cut(g1, 1), cut(g1, 0)>>,
      <<TGrown(2), TGrown(4), cut(g1, 2), cut(g1, 2) \o << <<>>, <<>> >> >>,
      Same(TPick(5), <<1, 1>>), Same(TPick(5), <<2, 0>>), Same(TPick(3), <<3, -300>>), Same(TNull, 0)}
PerUper ==
  LET Same(td, v) == <<td, td, v, v>>
      g == << <<1>>, <<>>, <<1>>, <<0>>, <<>> >>
      m == << <<1>>, <<6>>, <<200>>, <<0>>, <<>>, << <<9, 9>> >> >>
      loose(a, b, c, d) == << <<a>>, <<b>>, <<c>>, <<d>> >>
  IN {s \in Samples : s[1].kind = "SEQUENCE" /\ s[1] # TRanges}
     \cup {Same(TLoose, loose(200, <<4, <<160>> >>, <<4, <<0>> >>, <<5, g>>)),
           Same(TLoose, loose(0, <<0, <<>> >>, <<3, <<168>> >>, <<4, <<1, 2>> >>)),
           <<TGrown(4), TGrown(0), m, SubSeq(m, 1, 2)>>, <<TGrown(4), TGrown(1), m, SubSeq(m, 1, 3)>>}
PerJobs ==
  LET Job(codec, s, octets, t) ==
        [codec |-> codec, td |-> s[2], wanted |-> s[4], octets |-> octets, trailer |-> t,
         whole |-> TRUE, junk |-> "SPACE"]
  IN {Job("uper", s, uper_encode_to_new_buffer(s[1], s[3])[1], t) : s \in PerBoth \cup PerUper, t \in Trailers}
     \cup {Job("aper", s, aper_encode_to_new_buffer(s[1], s[3])[1], t) : s \in PerBoth, t \in Trailers}

\* FAPI-B4860-CONFIG, with fewer members of a kind.
Named(name, type) == [Must(type, 0, 0) EXCEPT !.name = name]
NamedMay(name, type, dflt) == [Member(type, 0, 0, TRUE, dflt) EXCEPT !.name = name]
Enum(names) == [TEnum EXCEPT !.enums = [i \in DOMAIN names |-> [name |-> names[i], value |-> i - 1]]]
TPrintable == Type("PrintableString", 76, <<>>, -1)
Ip1 == <<49, 46, 50>>
Ip2 == <<120>>
Quoted(q) == [TEnum EXCEPT !.enums = <<[name |-> <<q>> \o Ip1 \o <<q>>, value |-> 1],
                                       [name |-> <<q>> \o Ip2 \o <<q>>, value |-> 2]>>]
TRru(ip) == Type("SEQUENCE", 64,
  <<Named(<<112>>, TInt), Named(<<115>>, Enum(<< <<115, 49>>, <<115, 50>> >>)),
    Named(<<99, 45, 105>>, TInt), Named(<<105>>, ip)>>, -1)
TP8 == Type("SEQUENCE", 64, <<Named(<<101>>, TBool), NamedMay(<<108>>, TInt, <<0>>),
  Named(<<109>>, Type("CHOICE", 0, <<Named(<<97>>, TBits), Named(<<98>>, TNull)>>, -1))>>, -1)
TConfig(ip, loglevel) == Type("SEQUENCE", 64,
  <<NamedMay(<<76>>, TStr, <<>>), NamedMay(<<108, 118>>, Enum(<< <<100>>, <<110>> >>), loglevel),
    Named(<<114>>, Type("SEQUENCE_OF", 64, <<Must(TRru(ip), 64, 0)>>, -1)),
    NamedMay(<<112, 56>>, TP8, <<>>)>>, -1)

\* <<value written, value read>>; the ip is written as one of two quoted texts.
Configs ==
  LET Rru(p, s, c, i) == << <<p>>, <<s>>, <<c>>, <<i>> >>
      p8(l, m) == << << <<1>>, l, <<m>> >> >>
      Both(lic, lv, w, r, q, q2) ==
        << <<lic, lv, <<w>>, q>>, <<lic, IF lv = <<>> THEN <<1>> ELSE lv, <<r>>, q2>> >>
  IN {Both(<< <<171, 0>> >>, <<0>>, <<Rru(0, 0, 7, 1), Rru(-2, 1, 12, 1)>>,
           <<Rru(0, 0, 7, Ip1), Rru(-2, 1, 12, Ip1)>>,
           p8(<<>>, <<1, <<3, <<160>> >> >>), p8(<<0>>, <<1, <<3, <<160>> >> >>)),
      Both(<<>>, <<>>, <<Rru(1, 1, 300, 1)>>, <<Rru(1, 1, 300, Ip1)>>,
           p8(<<9>>, <<2, 0>>), p8(<<9>>, <<2, 0>>)),
      Both(<<>>, <<0>>, <<Rru(1, 0, 8388607, 1)>>, <<Rru(1, 0, 8388607, Ip1)>>, <<>>, <<>>)}

\* Texts that are no configuration: an address inet_aton refuses, a member that
\* is missing, a name that is not in an enumeration, a number out of range.
Wrong ==
  LET t == TConfig(Quoted(39), <<>>)
      rru == t.elements[3].type.elements[1].type
      With(r) == [t EXCEPT !.elements[3].type.elements[1].type = r]
      V(r) == << <<>>, <<1>>, << <<r>> >>, <<>> >>
  IN {<<t, V(<< <<1>>, <<0>>, <<2>>, <<2>> >>)>>,
      <<With([rru EXCEPT !.elements = Tail(@)]), V(<< <<0>>, <<2>>, <<1>> >>)>>,
      <<With([rru EXCEPT !.elements[2].type = Enum(<< <<115, 51>> >>)]),
        V(<< <<1>>, <<0>>, <<2>>, <<1>> >>)>>,
      <<t, V(<< <<1>>, <<0>>, <<8388608>>, <<1>> >>)>>}

GserJobs ==
  LET Comment == <<10, 45, 45, 32, 123, 10, 45, 45, 10>>
      Text(td, v) == gser_encode(td, v)[1]
      Job(text, v, junk, trailer) ==
        [codec |-> "gser", td |-> TConfig(TPrintable, <<1>>), wanted |-> v, octets |-> Front(text),
         trailer |-> trailer, whole |-> TRUE, junk |-> junk]
  IN {Job(Text(TConfig(Quoted(39), <<>>), c[1]), <<c[2]>>, junk, <<0>>) : c \in Configs, junk \in GserTokens}
     \cup {Job(Comment \o Text(TConfig(Quoted(34), <<>>), c[1]), <<c[2]>>, "TEXT", <<10>>) : c \in Configs}
     \cup {Job(Text(w[1], w[2]), <<>>, "TEXT", <<0>>) : w \in Wrong}

MCJobs ==
  LET Restartable == BerJobs \cup OerJobs
      InOneCall == PerJobs \cup GserJobs
  IN Restartable \cup InOneCall
MCAddresses == {Ip1}

\* TLC takes every value for a member of Any.
MCAnswer ==
  LET Answered(c) == Decoder(c)
  IN [c \in Any |-> Answered(c)]
=============================================================================
