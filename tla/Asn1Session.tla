---------------------------- MODULE Asn1Session ----------------------------
(***************************************************************************)
(* A decoder fed piece by piece.  The caller of a decoder passes what it   *)
(* has; when the answer is RC_WMORE ("More data expected, call again") it  *)
(* drops the octets consumed, adds the octets that arrived since, and      *)
(* calls again with the same structure.  The stream is a job's encoding    *)
(* followed by octets that belong to the next message.                     *)
(*                                                                         *)
(* A PER decoder is called once, and a configuration file is decoded in    *)
(* one call from what was read of it.                                      *)
(***************************************************************************)
EXTENDS BerCodec, OerCodec, PerCodec, GserCodec

CONSTANTS Jobs,     \* [codec, td, wanted, octets, trailer, whole, junk]
          Pieces,   \* sizes of the pieces the stream arrives in
          Answer,   \* Answer[call]: Decoder(call), the runtime as a function
          Addresses \* texts inet_aton takes for an address

VARIABLES job, st, fed, kept, code

SessionInit ==
  /\ job \in Jobs
  /\ st = Fresh /\ fed = 0 /\ kept = <<>> /\ code = RC_WMORE

Stream == job.octets \o job.trailer

\* What gser_decode makes of the text; a configuration it takes is refused when
\* the address of an RRU is none.
fapi_b4860_parse_config(td, text, junk) ==
  LET r == gser_decode(td, Fresh, text, junk)
      rrus == r.st.mem[3].list
  IN IF text = <<>> THEN Rval(RC_FAIL, Fresh, 0)
     ELSE IF r.code = RC_OK /\ \E i \in DOMAIN rrus : rrus[i].mem[4].buf \notin Addresses
     THEN Rval(RC_FAIL, r.st, r.consumed)
     ELSE r

\* A call passes what is left of a message and the structure so far.
Call(buf) == [codec |-> job.codec, td |-> job.td, st |-> st, buf |-> buf, junk |-> job.junk]
Decoder(c) ==
  CASE c.codec = "ber" -> ber_decode(c.td, c.st, c.buf)
    [] c.codec = "oer" -> oer_decode(c.td, c.st, c.buf)
    [] c.codec = "uper" -> uper_decode_complete(c.td, c.st, c.buf)
    [] c.codec = "aper" -> aper_decode_complete(c.td, c.st, c.buf)
    [] c.codec = "gser" -> fapi_b4860_parse_config(c.td, c.buf, c.junk)

\* More of the stream arrives, as much as there is of a piece, and the decoder
\* is called again.  A job may have to come in one piece.
Feed(piece) ==
  LET n == Lesser(piece, Len(Stream) - fed)
      buf == kept \o SubSeq(Stream, fed + 1, fed + n)
      r == Answer[Call(buf)]
  IN /\ code = RC_WMORE /\ job.codec \in {"ber", "oer"}
     /\ fed < Len(Stream)
     /\ job.whole => n >= Len(job.octets)
     /\ st' = r.st
     /\ code' = r.code
     /\ kept' = Rest(buf, r.consumed)
     /\ fed' = fed + n
     /\ UNCHANGED job

\* A PER decoder is called with the first n octets of the stream.
DecodeOnce(n) ==
  LET buf == SubSeq(Stream, 1, n)
      r == Answer[Call(buf)]
  IN /\ fed = 0 /\ job.codec \in {"uper", "aper"}
     /\ st' = r.st
     /\ code' = r.code
     /\ kept' = Rest(buf, r.consumed)
     /\ fed' = n
     /\ UNCHANGED job

\* The first n characters of a configuration file have been read.
LoadConfig(n) ==
  LET r == Answer[Call(SubSeq(Stream, 1, n))]
  IN /\ code = RC_WMORE /\ job.codec = "gser"
     /\ code' = r.code /\ st' = r.st
     /\ fed' = n
     /\ UNCHANGED <<job, kept>>

SessionNext == \/ \E piece \in Pieces : Feed(piece)
               \/ \E n \in 1..Len(Stream) : DecodeOnce(n)
               \/ \E n \in 0..Len(Stream) : LoadConfig(n)

\* A decoder that has not been given the whole encoding asks for more; given
\* it, it has the value and has left the next message alone.
Resumes(codec) ==
  job.codec = codec =>
    IF fed < Len(job.octets) THEN code = RC_WMORE
    ELSE /\ code = RC_OK
         /\ ValueOf(job.td, st) = job.wanted
         /\ Len(kept) = fed - Len(job.octets)

\* A BER decoder interrupted anywhere (ber_decode and the phases of the
\* SEQUENCE, CHOICE, SET OF and OCTET STRING decoders) ends with the value.
BerResumes == Resumes("ber")

\* The same of the OER decoders (oer_decode).
OerResumes == Resumes("oer")

\* What the PER encoders made of a value the decoders (uper_decode_complete,
\* aper_decode_complete) make the same value of, as compare_struct tells; an older
\* version of the type skips the extensions it does not know; a cut encoding is
\* never taken for a value, and nothing of the next message is consumed.
PerRoundTrip ==
  job.codec \in {"uper", "aper"} /\ fed > 0 =>
    IF fed < Len(job.octets) THEN code # RC_OK /\ Len(kept) = fed
    ELSE /\ code = RC_OK
         /\ compare_struct(job.td, ValueOf(job.td, st), job.wanted) = 0
         /\ Len(kept) = fed - Len(job.octets)

\* A configuration is taken as it was written, and one that is cut short
\* anywhere, or is not of the type, is refused, whatever gser_decode's
\* uninitialised token held.
ConfigReadWhole ==
  job.codec = "gser" /\ code # RC_WMORE =>
    IF fed < Len(job.octets) \/ job.wanted = <<>> THEN code = RC_FAIL
    ELSE code = RC_OK /\ ValueOf(job.td, st) = job.wanted[1]
=============================================================================
