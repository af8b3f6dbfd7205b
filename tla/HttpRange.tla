----------------------------- MODULE HttpRange -----------------------------
(***************************************************************************)
(* The two calculations an HTTP request's numbers go through: reading the  *)
(* digits of a length (length_incr in http_parser.rl, an off_t of Width    *)
(* bits here) and choosing the bytes a Range header asks for               *)
(* (http_get_resp_hdr in http_get.c), with the set of bytes it names.      *)
(***************************************************************************)
EXTENDS Integers, Sequences, SequencesExt

CONSTANT Width      \* bits of an off_t

ASSUME RangeAssumption == Width \in Nat /\ Width > 4

\* The value an off_t has after arithmetic with the exact result n.
Wrap(n) == ((n + 2^(Width - 1)) % 2^Width) - 2^(Width - 1)

\* length_incr() refused: errno is ERANGE and the length is -1.
Refused == -1

\* length_incr().  Only a result below the previous value is taken for an
\* overflow.  (Signed overflow is undefined in C; wrapping is what the
\* comparison counts on, and no number that fits depends on it.)
LengthIncr(len, digit) ==
    LET next == Wrap(Wrap(len * 10) + digit)
    IN  IF next >= len THEN next ELSE Refused

\* digit+ of a header: length_incr() for each digit, fbreak after a refusal.
ParseLength(digits) ==
    FoldLeft(LAMBDA len, d : IF len = Refused THEN Refused ELSE LengthIncr(len, d),
             0, digits)

\* The parser gives up on a bound of "bytes=M-N".
BoundRefused(digits) == digits # << >> /\ ParseLength(digits) = Refused

\* A bound of "bytes=M-N": -1 where there are no digits.
RangeBound(digits) == IF digits = << >> THEN -1 ELSE ParseLength(digits)

\* MUTANT: off by one at the end of the file.
LastByteCut(end, size) == IF end >= size THEN size ELSE end

\* The last byte of "bytes=M-N": "truncate responses to current file size".
LastByte(end, size) == IF end >= size THEN size - 1 ELSE end

\* "validate ranges" of http_get_resp_hdr() for a file of the given size.
RangeResp(beg, end, size) ==
    LET partial(offset, count) == [status |-> 206, offset |-> offset, count |-> count]
        whole == [status |-> 200, offset |-> 0, count |-> size]
        bad == [status |-> 416, offset |-> 0, count |-> 0]
    IN  CASE end < 0 /\ beg < 0 -> bad
          [] beg >= size -> bad
          [] beg >= 0 /\ end >= 0 /\ beg > end -> bad
          [] end < 0 /\ 0 <= beg /\ beg < size -> partial(beg, size - beg)
          [] beg < 0 /\ end >= 0 ->
                IF size - end < 0 THEN whole ELSE partial(size - end, end)
          [] 0 <= beg /\ beg < size /\ beg <= end ->
                partial(beg, LastByte(end, size) + 1 - beg)

-----------------------------------------------------------------------------
(* Reference definitions *)

Value(digits) == FoldLeft(LAMBDA v, d : 10 * v + d, 0, digits)

Fits(digits) == Value(digits) < 2^(Width - 1)

\* The positions of a file of the given size that "bytes=first-last" names.
Wanted(first, last, size) ==
    { i \in 0 .. size - 1 :
        IF first = << >>
        THEN last # << >> /\ i >= size - Value(last)
        ELSE Value(first) <= i /\ (last # << >> => i <= Value(last)) }

Served(r) == r.offset .. r.offset + r.count - 1

\* "bytes=-0", the last no bytes of a file.
ZeroSuffix(first, last) == first = << >> /\ last # << >> /\ Value(last) = 0

\* "bytes=first-last" is answered right for a file of the given size: if the
\* numbers fit an off_t, with the bytes it names, and so with 416 only if it
\* names none; and a 206 always has a body and stays inside the file.
Right(first, last, size) ==
    LET r == RangeResp(RangeBound(first), RangeBound(last), size)
    IN  /\ Fits(first) /\ Fits(last) => Served(r) = Wanted(first, last, size)
        /\ r.status = 206 => r.count > 0 /\ r.offset >= 0 /\ r.offset + r.count <= size
=============================================================================
