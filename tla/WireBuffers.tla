---------------------------- MODULE WireBuffers ----------------------------
(***************************************************************************)
(* The two views of a byte array the TLS code works through (embedded-tls  *)
(* buffer.rs, parse_buffer.rs): the CryptoBuffer a message is written into *)
(* and the ParseBuffer one is read from.                                   *)
(*                                                                         *)
(* A CryptoBuffer is the array from its start to the last byte written,    *)
(* the offset its owner counts from, and the capacity of the array; once   *)
(* an operation has failed, ok is FALSE and the ? of the code skips the    *)
(* rest.  A parser returns [err, val, p]: the first error, or the value    *)
(* and the buffer behind it.                                               *)
(***************************************************************************)
EXTENDS Integers, SequencesExt

Byte == 0 .. 255

\* The n low bytes of v, highest first (to_be_bytes), and back.
BE(v, n) == [i \in 1 .. n |-> (v \div 256 ^ (n - i)) % 256]
FromBE(s) == FoldLeft(LAMBDA acc, x : acc * 256 + x, 0, s)

------------------------------------------------------------------------------
(* CryptoBuffer *)

wrap(capacity) == [all |-> <<>>, offset |-> 0, cap |-> capacity, ok |-> TRUE]

as_slice(b) == SubSeq(b.all, b.offset + 1, Len(b.all))
len(b) == Len(b.all) - b.offset
space(b) == b.cap - (b.offset + len(b))

extend_from_slice(b, other) ==
    IF b.ok /\ Len(other) <= space(b)
    THEN [b EXCEPT !.all = @ \o other]
    ELSE [b EXCEPT !.ok = FALSE]
push(b, x) == extend_from_slice(b, <<x>>)
push_u16(b, num) == extend_from_slice(b, BE(num, 2))
push_u32(b, num) == extend_from_slice(b, BE(num, 4))

\* Variant: the bytes counted in the array, not from the offset.
set_in_array(b, idx, bytes) ==
    IF b.ok /\ idx + Len(bytes) <= Len(b.all)
    THEN [b EXCEPT !.all =
             [i \in 1 .. Len(b.all) |-> IF i \in idx + 1 .. idx + Len(bytes) THEN bytes[i - idx] ELSE b.all[i]]]
    ELSE [b EXCEPT !.ok = FALSE]

\* set, set_u16, set_u24: overwrite bytes that were written, counted from the offset.
set(b, idx, bytes) ==
    IF b.ok /\ idx + Len(bytes) <= len(b)
    THEN [b EXCEPT !.all =
             [i \in 1 .. Len(b.all) |->
                 IF i - b.offset \in idx + 1 .. idx + Len(bytes)
                 THEN bytes[i - b.offset - idx] ELSE b.all[i]]]
    ELSE [b EXCEPT !.ok = FALSE]

offset(b, n) == [b EXCEPT !.offset = n]
forward(b) == offset(b, len(b))
rewind(b) == offset(b, 0)

\* with_u8_length, with_u16_length, with_u24_length: room for the length,
\* what op writes, then the length, in the width it has.
with_length(b, width, op(_)) ==
    LET start == extend_from_slice(b, BE(0, width))
        done  == op(start)
    IN IF done.ok THEN set(done, len(b), BE(len(done) - len(start), width)) ELSE done

\* for x in xs { op(x) }
EachOf(b, xs, op(_, _)) == FoldLeft(op, b, xs)

------------------------------------------------------------------------------
(* ParseBuffer *)

None == "none"
ParseBuffer(bytes) == [buffer |-> bytes, pos |-> 0]
remaining(p) == Len(p.buffer) - p.pos
is_empty(p) == remaining(p) = 0

Ok(val, p) == [err |-> None, val |-> val, p |-> p]
Err(e, p) == [err |-> e, val |-> <<>>, p |-> p]
\* The ? operator, and map_err in front of it.
Then(r, op(_, _)) == IF r.err = None THEN op(r.val, r.p) ELSE r
MapErr(r, e) == IF r.err = None THEN r ELSE [r EXCEPT !.err = e]

\* The next n bytes, copied (fill).
fill(p, n) ==
    IF n <= remaining(p)
    THEN Ok(SubSeq(p.buffer, p.pos + 1, p.pos + n), [p EXCEPT !.pos = @ + n])
    ELSE Err("InsufficientBytes", p)
\* The next n bytes as a buffer of their own.
slice(p, n) == Then(fill(p, n), LAMBDA s, q : Ok(ParseBuffer(s), q))
\* read_u8, read_u16, read_u24, read_u32
read(p, n) == Then(fill(p, n), LAMBDA s, q : Ok(FromBE(s), q))

\* Elements until the slice is used up; there is room for max of them.
AllOf(d, max, elem(_), full) ==
    LET all[pos \in 0 .. Len(d.buffer), n \in 0 .. max] ==
            LET q == [d EXCEPT !.pos = pos]
            IN IF is_empty(q) THEN Ok(<<>>, q)
               ELSE Then(elem(q), LAMBDA v, next :
                        IF n = max THEN Err(full, q)
                        ELSE Then(all[next.pos, n + 1], LAMBDA vs, end : Ok(<<v>> \o vs, end)))
    IN all[d.pos, 0]

read_list(p, data_length, max, elem(_)) ==
    Then(slice(p, data_length), LAMBDA data, q :
        Then(AllOf(data, max, elem, "InsufficientSpace"), LAMBDA vs, end : Ok(vs, q)))
=============================================================================
