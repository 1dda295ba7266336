-------------------------------- MODULE Wire --------------------------------
(***************************************************************************)
(* The wire as the codec sees it: a sequence of items, each of which one   *)
(* primitive of native/io.rs writes and one reads.                         *)
(*                                                                         *)
(*   <<w, v>>        a little-endian value of w bytes                      *)
(*   <<VarUInt, v>>  a varuint                                             *)
(*   <<String, s>>   a varuint length and that many bytes                  *)
(*                                                                         *)
(* The payload of a string is a sequence of words, so that a type name is  *)
(* its tokens and a JSON document its structure.                           *)
(*                                                                         *)
(* A read returns a result: the status, the value and the position after   *)
(* it.  "eof" is the end of the stream inside a value, "err" an error the   *)
(* code raises, and "lost" a read that finds another kind of item than it   *)
(* expects: in the program it would take its bytes out of that item and    *)
(* everything after it would be misread.                                   *)
(***************************************************************************)
EXTENDS Integers, Sequences, FiniteSets
LOCAL INSTANCE SequencesExt

VarUInt == 0
String  == -1

Ok(v, p)  == [st |-> "ok", v |-> v, p |-> p]
Fail(why) == [st |-> why, v |-> <<>>, p |-> 0]
IsOk(r)   == r.st = "ok"

\* unwrap_or.
ValueOr(r, v) == IF IsOk(r) THEN r.v ELSE v

\* The ? operator: go on with the value and the position, or return the error.
Then(r, F(_, _)) == IF IsOk(r) THEN F(r.v, r.p) ELSE r

\* A read of one item of width w (read_u8 ... read_u64_le, read_var_uint,
\* read_string): the reader's read_exact either has the bytes or ends in an error.
Read(s, p, w) ==
    IF p > Len(s) THEN Fail("eof")
    ELSE IF s[p][1] # w THEN Fail("lost") ELSE Ok(s[p][2], p + 1)

\* One read after another, F(x, p) reading the part for x at p, collecting the values.
Each(xs, p, F(_, _)) ==
    LET upto[i \in 0..Len(xs)] ==
            IF i = 0 THEN Ok(<<>>, p)
            ELSE Then(upto[i - 1], LAMBDA vs, q :
                     Then(F(xs[i], q), LAMBDA v, after : Ok(Append(vs, v), after)))
    IN  upto[Len(xs)]

\* n reads in a row.
Repeat(n, p, F(_)) == Each([i \in 1..n |-> i], p, LAMBDA i, q : F(q))

\* Defect: a short read is taken for a whole one.
ReadAvailable(s, p, n, w) ==
    Repeat(IF p + n > Len(s) THEN Len(s) + 1 - p ELSE n, p, LAMBDA q : Read(s, q, w))

\* read_exact_grown / read_le_column: n values of one width.  More than the stream has
\* fail as one too many does.
ReadColumn(s, p, n, w) ==
    Repeat(IF n > Len(s) THEN Len(s) + 1 ELSE n, p, LAMBDA q : Read(s, q, w))

\* read_capped_count: a count above the cap is refused before it sizes anything.
ReadCapped(s, p, cap) ==
    Then(Read(s, p, VarUInt), LAMBDA n, q : IF n > cap THEN Fail("err") ELSE Ok(n, q))

\* A read whose value must be one of a set.
Expect(s, p, w, allowed) ==
    Then(Read(s, p, w), LAMBDA v, q : IF v \in allowed THEN Ok(v, q) ELSE Fail("err"))

\* An error that a condition on what was read raises.
Check(ok, r) == IF ok THEN r ELSE Fail("err")

SumOf(ns)     == FoldLeft(LAMBDA a, b : a + b, 0, ns)
Items(w, vs)  == [i \in DOMAIN vs |-> <<w, vs[i]>>]
=============================================================================
