----------------------------- MODULE VleProofs -----------------------------
(***************************************************************************)
(* What is written as a variable length number is read again, for every    *)
(* number that fits.                                                       *)
(***************************************************************************)
EXTENDS Vle, SequenceTheorems, TLAPS

Digit(n, i) == (n \div Place[i]) % 128

-----------------------------------------------------------------------------
\* The place values of decode_vle, as numerals the solver can use.
LEMMA PlaceValues ==
  /\ Place[1] = 1 /\ Place[2] = 128 /\ Place[3] = 16384 /\ Place[4] = 2097152
  /\ \A i \in 1..4 : Place[i] \in Nat \ {0}
<1>1. Place[1] = 1 /\ Place[2] = 128 /\ Place[3] = 16384 /\ Place[4] = 2097152
  BY SMT DEF Place
<1> QED
  BY SMT, <1>1

\* The digits of a number, each at its place, are the number.
LEMMA DigitsAddUp ==
  ASSUME NEW n \in Nat, n <= MaxLength
  PROVE  n = Digit(n, 1) * Place[1] + Digit(n, 2) * Place[2]
               + Digit(n, 3) * Place[3] + Digit(n, 4) * Place[4]
<1>1. /\ Place[1] = 1 /\ Place[2] = 128 /\ Place[3] = 16384 /\ Place[4] = 2097152
  BY SMT, PlaceValues
<1>2. n = (n % 128) + ((n \div 128) % 128) * 128 + ((n \div 16384) % 128) * 16384
            + ((n \div 2097152) % 128) * 2097152
  BY SMT DEF MaxLength
<1>3. n \div 1 = n
  OBVIOUS
<1> QED
  BY SMT, <1>1, <1>2, <1>3 DEF Digit

\* A digit is below 128, and those that are not written are zero.
LEMMA DigitsFit ==
  ASSUME NEW n \in Nat, n <= MaxLength, NEW i \in 1..4
  PROVE  /\ Digit(n, i) \in 0..127
         /\ i > vle_size(n) => Digit(n, i) = 0
         /\ vle_size(n) \in 1..4
<1>1. /\ Place[1] = 1 /\ Place[2] = 128 /\ Place[3] = 16384 /\ Place[4] = 2097152
  BY SMT, PlaceValues
<1>2. CASE i = 1
  BY SMT, <1>1, <1>2 DEF Digit, vle_size, MaxLength
<1>3. CASE i = 2
  BY SMT, <1>1, <1>3 DEF Digit, vle_size, MaxLength
<1>4. CASE i = 3
  BY SMT, <1>1, <1>4 DEF Digit, vle_size, MaxLength
<1>5. CASE i = 4
  BY SMT, <1>1, <1>5 DEF Digit, vle_size, MaxLength
<1> QED
  BY <1>2, <1>3, <1>4, <1>5

\* What encode_vle writes: as many bytes as the number needs, each with its
\* digit, and with the high bit if it is not the last.
LEMMA Encoded ==
  ASSUME NEW n \in Nat, n <= MaxLength
  PROVE  /\ encode_vle(n) \in Seq(Nat)
         /\ Len(encode_vle(n)) = vle_size(n)
         /\ \A i \in 1..vle_size(n) :
              /\ encode_vle(n)[i] \in Nat
              /\ encode_vle(n)[i] % 128 = Digit(n, i)
              /\ i < vle_size(n) => encode_vle(n)[i] >= 128
              /\ i = vle_size(n) => encode_vle(n)[i] < 128
<1> DEFINE k == vle_size(n)
           b(i) == Digit(n, i) + (IF i < k THEN 128 ELSE 0)
<1>1. k \in 1..4
  BY DigitsFit
<1>2. encode_vle(n) = [i \in 1..k |-> b(i)]
  BY SMT DEF encode_vle, MaxLength, Digit
<1>3. ASSUME NEW i \in 1..k
      PROVE  /\ b(i) \in Nat
             /\ b(i) % 128 = Digit(n, i)
             /\ i < k => b(i) >= 128
             /\ i = k => b(i) < 128
  <2>1. i \in 1..4 /\ Digit(n, i) \in 0..127
    BY <1>1, DigitsFit
  <2>2. CASE i < k
    BY <2>1, <2>2
  <2>3. CASE ~(i < k)
    BY <2>1, <2>3, <1>1
  <2> QED
    BY <2>2, <2>3
<1> HIDE DEF k, b
<1>4. /\ encode_vle(n) \in Seq(Nat) /\ Len(encode_vle(n)) = k
      /\ \A i \in 1..k : encode_vle(n)[i] = b(i)
  BY <1>1, <1>2, <1>3
<1> QED
  BY SMT, <1>3, <1>4 DEF k

-----------------------------------------------------------------------------
\* Every number that fits is read as it was written, whatever follows it, and
\* what was cut off before its end is incomplete (parsers.rs:6-15).
THEOREM NumbersReadBack ==
  ASSUME NEW n \in Nat, n <= MaxLength, NEW tail \in Seq(Nat)
  PROVE  ReadsBack(n, tail)
<1> DEFINE e == encode_vle(n)
           k == vle_size(n)
           s == e \o tail
<1>1. /\ k \in 1..4 /\ e \in Seq(Nat) /\ Len(e) = k
      /\ \A i \in 1..k : /\ e[i] \in Nat
                         /\ e[i] % 128 = Digit(n, i)
                         /\ i < k => e[i] >= 128
                         /\ i = k => e[i] < 128
  BY DigitsFit, Encoded
<1> HIDE DEF e, k
<1>2. decode_vle(s) = Done(n, tail)
  <2>1. /\ s \in Seq(Nat) /\ Len(s) = k + Len(tail) /\ Len(s) >= k
        /\ \A i \in 1..k : s[i] = e[i]
    BY <1>1
  <2> HIDE DEF s
  <2>2. EndsAt(s, k)
    BY <1>1, <2>1 DEF EndsAt
  <2>3. ASSUME NEW i \in 1..4, EndsAt(s, i) PROVE i = k
    <3>1. ASSUME i < k PROVE FALSE
      <4>1. i \in 1..k /\ s[i] >= 128 /\ s[i] \in Nat
        BY <1>1, <2>1, <3>1
      <4>2. s[i] < 128
        BY <2>3 DEF EndsAt
      <4> QED
        BY <4>1, <4>2
    <3>2. ASSUME k < i PROVE FALSE
      <4>1. k \in 1..i - 1 /\ s[k] < 128 /\ s[k] \in Nat
        BY <1>1, <2>1, <3>2
      <4>2. s[k] >= 128
        BY <2>3, <4>1 DEF EndsAt
      <4> QED
        BY <4>1, <4>2
    <3> QED
      BY <1>1, <3>1, <3>2
  <2>4. (CHOOSE i \in 1..4 : EndsAt(s, i)) = k
    BY <1>1, <2>2, <2>3
  <2>5. ASSUME NEW j \in 1..4
        PROVE  Share(s, j, k) = Digit(n, j) * Place[j]
    <3>1. Place[j] \in Nat /\ Digit(n, j) \in 0..127
      <4>1. Place[j] \in Nat
        BY SMT, PlaceValues
      <4>2. Digit(n, j) \in 0..127
        BY DigitsFit
      <4> QED
        BY <4>1, <4>2
    <3>2. CASE j <= k
      BY <1>1, <2>1, <3>2 DEF Share
    <3>3. CASE ~(j <= k)
      <4>1. Digit(n, j) = 0
        BY SMT, <1>1, <3>3, DigitsFit DEF k
      <4> QED
        BY <3>1, <3>3, <4>1 DEF Share
    <3> QED
      BY <3>2, <3>3
  <2>6. Share(s, 1, k) + Share(s, 2, k) + Share(s, 3, k) + Share(s, 4, k) = n
    BY SMT, <2>5, DigitsAddUp
  <2>7. SubSeq(s, k + 1, Len(s)) = tail
    <3>1. tail \in Seq(Nat) /\ Len(tail) = Len(s) - k /\ Len(s) \in Nat /\ k \in Nat
      BY <1>1, <2>1
    <3>2. \A i \in 1..Len(tail) : s[k + i] = tail[i]
      BY <1>1 DEF s
    <3> DEFINE r == SubSeq(s, k + 1, Len(s))
    <3>3. r \in Seq(Nat) /\ Len(r) = Len(tail)
      BY <1>1, <2>1, <3>1
    <3>4. \A i \in 1..Len(tail) : r[i] = s[k + i]
      BY <1>1, <2>1, <3>1
    <3> HIDE DEF r
    <3>5. \A i \in 1..Len(tail) : tail[i] = r[i]
      BY <3>2, <3>4
    <3>6. tail = r
      BY <3>1, <3>3, <3>5, SeqEqual
    <3> QED
      BY <3>6 DEF r
  <2>8. \E i \in 1..4 : EndsAt(s, i)
    BY <1>1, <2>2
  <2>9. decode_vle(s) = Done(Share(s, 1, k) + Share(s, 2, k) + Share(s, 3, k)
                               + Share(s, 4, k), SubSeq(s, k + 1, Len(s)))
    BY Zenon, <2>4, <2>8 DEF decode_vle
  <2> QED
    BY <2>6, <2>7, <2>9
<1>3. ASSUME NEW m \in 0..k - 1
      PROVE  decode_vle(SubSeq(e, 1, m)) = Incomplete
  <2> DEFINE p == SubSeq(e, 1, m)
  <2>1. /\ Len(p) = m /\ m <= 3
        /\ \A i \in 1..m : p[i] >= 128 /\ p[i] \in Nat
    BY <1>1
  <2> HIDE DEF p
  <2>2. ASSUME NEW i \in 1..4 PROVE ~EndsAt(p, i)
    <3>1. CASE i <= m
      <4>1. p[i] >= 128 /\ p[i] \in Nat
        BY <2>1, <3>1
      <4>2. ~(p[i] < 128)
        BY <4>1
      <4> QED
        BY <4>2 DEF EndsAt
    <3>2. CASE ~(i <= m)
      BY <1>1, <2>1, <3>2 DEF EndsAt
    <3> QED
      BY <3>1, <3>2
  <2>3. decode_vle(p) = Incomplete
    BY SMT, <2>1, <2>2 DEF decode_vle
  <2> QED
    BY <2>3 DEF p
<1> QED
  BY SMT, <1>1, <1>2, <1>3 DEF ReadsBack, e, k
=============================================================================
