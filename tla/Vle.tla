-------------------------------- MODULE Vle --------------------------------
(***************************************************************************)
(* The variable length numbers of MQTT: seven bits of the number in each   *)
(* byte, the least significant first, and the high bit on every byte but   *)
(* the last (encode_vle in proto/mod.rs, decode_vle in proto/parsers.rs).  *)
(* A byte is a number below 256, and bytes are sequences of them.          *)
(***************************************************************************)
EXTENDS Integers, Sequences

MaxLength == 268435455

\* The place values of the four bytes.
Place == <<1, 128, 16384, 2097152>>

\* Mutant: the loop goes on while val >= 0 at a boundary.
vle_size_short(n) ==
  IF n < 128 THEN 1 ELSE IF n <= 16384 THEN 2 ELSE IF n < 2097152 THEN 3 ELSE 4

\* The loop stops when nothing of the number is left.
vle_size(n) ==
  IF n < 128 THEN 1 ELSE IF n < 16384 THEN 2 ELSE IF n < 2097152 THEN 3 ELSE 4

\* No bytes stand for None, a number that does not fit.
encode_vle(n) ==
  IF n > MaxLength THEN <<>>
  ELSE [i \in 1..vle_size(n) |->
          ((n \div Place[i]) % 128) + (IF i < vle_size(n) THEN 128 ELSE 0)]

Done(v, rest) == [is |-> "Done", value |-> v, rest |-> rest]
Incomplete == [is |-> "Incomplete"]
Error == [is |-> "Error"]

EndsAt(s, i) == i <= Len(s) /\ s[i] < 128 /\ \A j \in 1..i-1 : s[j] >= 128

Share(s, j, i) == IF j <= i THEN (s[j] % 128) * Place[j] ELSE 0

\* The four bytes that count are looked at one by one: the first without the
\* high bit is the last.
decode_vle(s) ==
  IF \E i \in 1..4 : EndsAt(s, i)
    THEN LET last == CHOOSE i \in 1..4 : EndsAt(s, i)
         IN Done(Share(s, 1, last) + Share(s, 2, last)
                   + Share(s, 3, last) + Share(s, 4, last),
                 SubSeq(s, last + 1, Len(s)))
    ELSE IF Len(s) > 3 THEN Error ELSE Incomplete

-----------------------------------------------------------------------------
\* A number is read as it was written, whatever follows it, and what was cut
\* off before its end is known to be incomplete (parsers.rs:6-15).
ReadsBack(n, tail) ==
  /\ decode_vle(encode_vle(n) \o tail) = Done(n, tail)
  /\ \A k \in 0..Len(encode_vle(n)) - 1 :
       decode_vle(SubSeq(encode_vle(n), 1, k)) = Incomplete
=============================================================================
