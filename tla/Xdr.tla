-------------------------------- MODULE Xdr --------------------------------
(***************************************************************************)
(* XdrEncoder and XdrDecoder of src/src/xdr.rs. XDR is read and written in *)
(* words of four bytes: every length below is rounded up to words, and a   *)
(* message whose last word is incomplete decodes like one without it.      *)
(*                                                                         *)
(* A decoder is the record of its buffer, its position, what the last read *)
(* returned and its first error. An error stops every later read, as the   *)
(* question mark operator does. The error "panic" is a read past the end   *)
(* of the buffer that no check has refused.                                *)
(***************************************************************************)
EXTENDS Integers, Sequences

\* xdr_padding, xdr_fixed_opaque_len and xdr_opaque_len, in bytes.
XdrPadding(len) == (4 - (len % 4)) % 4
XdrFixedOpaqueLen(len) == len + XdrPadding(len)
XdrOpaqueLen(len) == 4 + XdrFixedOpaqueLen(len)
Words(len) == XdrFixedOpaqueLen(len) \div 4
-----------------------------------------------------------------------------
NewDecoder(buf) == [buf |-> buf, pos |-> 0, val |-> <<>>, err |-> "none"]
Remaining(d) == Len(d.buf) - d.pos
Ok(d) == d.err = "none"

\* F of a value that is evaluated once.
With(v, F(_)) == CHOOSE y \in {F(x) : x \in {v}} : TRUE
\* A left fold that evaluates every step once; by halves, so that long messages do not
\* nest deeply.
Fold(F(_, _), base, s) ==
  LET RECURSIVE fold(_, _, _, _)
      fold(t, acc, lo, hi) ==
        IF lo > hi THEN acc ELSE IF lo = hi THEN F(acc, t[lo])
        ELSE With((lo + hi) \div 2, LAMBDA mid :
               With(fold(t, acc, lo, mid), LAMBDA r : fold(t, r, mid + 1, hi)))
  IN With(s, LAMBDA t : fold(t, base, 1, Len(t)))
\* The next step F of a decoder that has not failed.
Then(d, F(_)) == With(d, LAMBDA e : IF Ok(e) THEN F(e) ELSE e)

Fail(d, err) == Then(d, LAMBDA e : [e EXCEPT !.err = err, !.val = <<>>])
Returns(d, val) == Then(d, LAMBDA e : [e EXCEPT !.val = val])
Require(d, words) == Then(d, LAMBDA e : IF Remaining(e) < words THEN Fail(e, "xdr") ELSE e)

\* The reads named after_require, and the buffer's own: they panic.
AfterRequire(d, words) ==
  Then(d, LAMBDA e :
    IF Remaining(e) < words THEN Fail(e, "panic")
    ELSE [e EXCEPT !.pos = @ + words, !.val = SubSeq(e.buf, e.pos + 1, e.pos + words)])

\* read_u32, read_u64, read_u32_pair, read_bytes, ...: one check for all words.
Read(d, words) == AfterRequire(Require(d, words), words)
SkipBytes(d, len) == Read(d, Words(len))

DecodeBoolWord(d) ==
  Then(d, LAMBDA e : IF e.val[1] \in {0, 1} THEN e ELSE Fail(e, "xdr"))
ReadBool(d) == DecodeBoolWord(Read(d, 1))
ReadBoolAndSkip(d, len) ==
  Then(DecodeBoolWord(AfterRequire(Require(d, 1 + Words(len)), 1)),
       LAMBDA e : Returns(AfterRequire(e, Words(len)), e.val))

UncheckedOpaque(d, len) == AfterRequire(d, Words(len))
\* read_opaque_bytes and skip_opaque: an empty value takes no further word.
ReadOpaqueBytes(d, len) == IF len = 0 THEN Returns(d, <<>>) ELSE Read(d, Words(len))
ReadOpaque(d) == Then(Read(d, 1), LAMBDA e : ReadOpaqueBytes(e, e.val[1]))
ReadBoolAndOpaque(d) ==
  Then(DecodeBoolWord(Read(d, 2)), LAMBDA e :
    Then(ReadOpaqueBytes(e, e.val[2]), LAMBDA f : Returns(f, <<e.val[1], f.val>>)))

\* The status and the count around the tag of a compound reply.
ReadU32SkipOpaqueAndReadU32(d) ==
  Then(Read(d, 2), LAMBDA e :
    LET skip == Words(e.val[2])
        last == AfterRequire(AfterRequire(Require(e, skip + 1), skip), 1)
    IN Then(last, LAMBDA f : Returns(f, <<e.val[1], f.val[1]>>)))

\* read_opaque_extent_len checks the whole value, padding included; its parts are
\* then read without a check, and finish_opaque_after_require skips the rest.
ReadOpaqueExtentLen(d) == Then(Read(d, 1), LAMBDA e : Require(e, Words(e.val[1])))
FinishOpaque(d, len, consumed) ==
  IF consumed > len THEN Fail(d, "xdr")
  ELSE Then(d, LAMBDA e : Returns(AfterRequire(e, Words(len) - consumed \div 4), e.val))

\* read_string_unless: names are one word here; a name that is not skipped must be
\* UTF-8.
ReadStringUnless(d, skipped, utf8) ==
  Then(Read(d, 1), LAMBDA e :
    Then(Read(e, Words(e.val[1])), LAMBDA f :
      IF f.val \in skipped THEN Returns(f, <<>>)
      ELSE IF f.val \in utf8 THEN f ELSE Fail(f, "xdr")))
=============================================================================
