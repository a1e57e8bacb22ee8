--------------------------- MODULE FramingProofs ---------------------------
(***************************************************************************)
(* The stream of packets a server sends is decoded as it was sent.         *)
(*                                                                         *)
(* The bytes of a packet are a head, its type and flags and its length,    *)
(* and a body, its headers and its payload.  The lemmas say what each      *)
(* parser makes of a buffer that agrees with them as far as it goes: they  *)
(* are about any bytes and any cut.  PacketIsRead puts them together, and  *)
(* the invariant is that the buffer and the wire hold the rest of the      *)
(* script (OnStream).                                                      *)
(***************************************************************************)
EXTENDS Framing, VleProofs, SequenceTheorems, WellFoundedInduction

-----------------------------------------------------------------------------
(* Sequences of sequences.                                                 *)

\* Counting reaches every natural number.
LEMMA Counting ==
  ASSUME NEW T, 0 \in T, \A n \in Nat : n \in T => n + 1 \in T
  PROVE  Nat \subseteq T
<1> DEFINE Rest == Nat \ T
           Less == {p \in Nat \X Nat : p[1] < p[2]}
<1> SUFFICES ASSUME Rest # {} PROVE FALSE
  OBVIOUS
<1>1. IsWellFoundedOn(Less, Nat)
  BY NatLessThanWellFounded DEF OpToRel
<1>2. PICK x \in Rest : \A y \in Rest : ~(<<y, x>> \in Less)
  <2>1. Rest \subseteq Nat
    OBVIOUS
  <2> HIDE DEF Rest, Less
  <2> QED
    BY <1>1, <2>1, WFMin
<1>3. x \in Nat \ {0} /\ x - 1 \in Nat /\ (x - 1) + 1 = x
  OBVIOUS
<1>4. <<x - 1, x>> \in Less
  BY <1>3
<1>5. x - 1 \in T
  <2> HIDE DEF Less
  <2> QED
    BY <1>2, <1>3, <1>4
<1>6. (x - 1) + 1 \in T
  BY <1>3, <1>5
<1> QED
  BY <1>3, <1>6

\* FlattenSeq joins the sequences from the left.
LEMMA Flattened ==
  ASSUME NEW S, NEW s \in Seq(Seq(S)), s # <<>>
  PROVE  \E f \in [1..Len(s) -> Seq(S)] :
           /\ f[1] = s[1]
           /\ \A i \in 1..Len(s) - 1 : f[i + 1] = f[i] \o s[i + 1]
           /\ FlattenSeq(s) = f[Len(s)]
<1> DEFINE Joins(f, n) == f = [i \in 1..n |-> IF i = 1 THEN s[i] ELSE f[i - 1] \o s[i]]
           P(n) == \E f : Joins(f, n)
<1>0. Len(s) \in Nat \ {0} /\ \A i \in 1..Len(s) : s[i] \in Seq(S)
  OBVIOUS
<1>1. P(0)
  <2>1. Joins(<<>>, 0)
    OBVIOUS
  <2> QED
    BY <2>1
<1>2. ASSUME NEW n \in Nat, P(n) PROVE P(n + 1)
  <2>1. PICK f : Joins(f, n)
    BY <1>2
  <2> DEFINE g == [i \in 1..n + 1 |-> IF i <= n THEN f[i]
                     ELSE IF i = 1 THEN s[i] ELSE f[i - 1] \o s[i]]
  <2>2. \A i \in 1..n : f[i] = IF i = 1 THEN s[i] ELSE f[i - 1] \o s[i]
    <3> HIDE DEF P, g
    <3> QED
      BY <2>1
  <2>3. ASSUME NEW i \in 1..n + 1
        PROVE  g[i] = IF i = 1 THEN s[i] ELSE g[i - 1] \o s[i]
    <3>1. i # 1 => i - 1 \in 1..n
      OBVIOUS
    <3>2. i # 1 => g[i - 1] = f[i - 1]
      BY <3>1
    <3>3. CASE i <= n
      BY <2>2, <3>2, <3>3
    <3>4. CASE ~(i <= n)
      BY <3>2, <3>4
    <3> QED
      BY <3>3, <3>4
  <2>4. g = [i \in 1..n + 1 |-> g[i]]
    OBVIOUS
  <2>5. Joins(g, n + 1)
    <3> HIDE DEF g
    <3> QED
      BY <2>3, <2>4
  <2> QED
    BY <2>5
<1>3. \A n \in Nat : P(n)
  <2> DEFINE T == {n \in Nat : P(n)}
  <2> HIDE DEF P
  <2>1. 0 \in T /\ \A n \in Nat : n \in T => n + 1 \in T
    BY <1>1, <1>2
  <2>2. Nat \subseteq T
    <3> HIDE DEF T
    <3> QED
      BY <2>1, Counting
  <2> QED
    BY <2>2
<1> DEFINE f == CHOOSE f : Joins(f, Len(s))
<1>5. Joins(f, Len(s)) /\ FlattenSeq(s) = f[Len(s)]
  <2>1. \E g : Joins(g, Len(s))
    BY <1>0, <1>3
  <2>2. Joins(f, Len(s))
    BY <2>1
  <2>3. FlattenSeq(s) = f[Len(s)]
    BY Zenon, <1>0 DEF FlattenSeq
  <2> QED
    BY <2>2, <2>3
<1> HIDE DEF f
<1>6. \A i \in 1..Len(s) : f[i] = IF i = 1 THEN s[i] ELSE f[i - 1] \o s[i]
  BY <1>5
<1>7. f[1] = s[1]
  BY <1>0, <1>6
<1>8. ASSUME NEW i \in 1..Len(s) - 1 PROVE f[i + 1] = f[i] \o s[i + 1]
  <2>1. i + 1 \in 1..Len(s) /\ i + 1 # 1 /\ (i + 1) - 1 = i
    BY <1>0
  <2> QED
    BY <1>6, <2>1
<1> DEFINE Q(n) == n + 1 <= Len(s) => f[n + 1] \in Seq(S)
<1>9. Q(0)
  BY <1>0, <1>7
<1>10. ASSUME NEW n \in Nat, Q(n) PROVE Q(n + 1)
  <2> SUFFICES ASSUME (n + 1) + 1 <= Len(s) PROVE f[(n + 1) + 1] \in Seq(S)
    OBVIOUS
  <2>1. n + 1 \in 1..Len(s) - 1 /\ n + 1 <= Len(s) /\ (n + 1) + 1 \in 1..Len(s)
    BY <1>0
  <2>2. f[n + 1] \in Seq(S) /\ s[(n + 1) + 1] \in Seq(S)
    BY <1>0, <1>10, <2>1
  <2>3. f[(n + 1) + 1] = f[n + 1] \o s[(n + 1) + 1]
    BY <1>8, <2>1
  <2> QED
    BY <2>2, <2>3
<1>11. \A n \in Nat : Q(n)
  <2> DEFINE T == {n \in Nat : Q(n)}
  <2> HIDE DEF Q
  <2>1. 0 \in T /\ \A n \in Nat : n \in T => n + 1 \in T
    BY <1>9, <1>10
  <2>2. Nat \subseteq T
    <3> HIDE DEF T
    <3> QED
      BY <2>1, Counting
  <2> QED
    BY <2>2
<1>12. \A i \in 1..Len(s) : f[i] \in Seq(S)
  <2> TAKE i \in 1..Len(s)
  <2>1. i - 1 \in Nat /\ (i - 1) + 1 = i /\ i <= Len(s)
    BY <1>0
  <2> QED
    BY <1>11, <2>1
<1>13. f \in [1..Len(s) -> Seq(S)]
  BY <1>5, <1>12
<1> QED
  BY <1>5, <1>7, <1>8, <1>13

\* The first of the sequences comes first, and nothing if there is none.
LEMMA FlattenHead ==
  ASSUME NEW S, NEW s \in Seq(Seq(S)), s # <<>>
  PROVE  /\ FlattenSeq(s) \in Seq(S)
         /\ FlattenSeq(s) = Head(s) \o FlattenSeq(Tail(s))
<1>1. FlattenSeq(<<>>) = <<>>
  BY DEF FlattenSeq
<1> DEFINE m == Len(s)
<1>2. /\ m \in Nat \ {0} /\ Head(s) = s[1] /\ s[1] \in Seq(S)
      /\ Tail(s) \in Seq(Seq(S)) /\ Len(Tail(s)) = m - 1
      /\ \A i \in 1..m - 1 : Tail(s)[i] = s[i + 1]
      /\ \A i \in 1..m : s[i] \in Seq(S)
  BY HeadTailProperties
<1>3. PICK f \in [1..m -> Seq(S)] :
           /\ f[1] = s[1]
           /\ \A i \in 1..m - 1 : f[i + 1] = f[i] \o s[i + 1]
           /\ FlattenSeq(s) = f[m]
  BY Flattened
<1>4. CASE Tail(s) = <<>>
  <2>1. m = 1
    <3>1. Len(<<>>) = 0
      OBVIOUS
    <3> HIDE DEF m
    <3>2. m - 1 = 0
      BY <1>2, <1>4, <3>1
    <3> QED
      BY <1>2, <3>2
  <2>2. s[1] \o <<>> = s[1]
    BY <1>2
  <2> QED
    BY <1>1, <1>2, <1>3, <1>4, <2>1, <2>2
<1>5. CASE Tail(s) # <<>>
  <2> HIDE DEF m
  <2>1. m >= 2
    <3>1. Len(Tail(s)) # 0
      BY <1>2, <1>5, EmptySeq
    <3> QED
      BY <1>2, <3>1
  <2>2. PICK g \in [1..m - 1 -> Seq(S)] :
           /\ g[1] = s[2]
           /\ \A i \in 1..m - 2 : g[i + 1] = g[i] \o s[i + 2]
           /\ FlattenSeq(Tail(s)) = g[m - 1]
    <3>1. PICK g \in [1..Len(Tail(s)) -> Seq(S)] :
           /\ g[1] = Tail(s)[1]
           /\ \A i \in 1..Len(Tail(s)) - 1 : g[i + 1] = g[i] \o Tail(s)[i + 1]
           /\ FlattenSeq(Tail(s)) = g[Len(Tail(s))]
      BY <1>2, <1>5, Flattened
    <3>2. Tail(s)[1] = s[2]
      BY <1>2, <2>1
    <3>3. ASSUME NEW i \in 1..m - 2 PROVE g[i + 1] = g[i] \o s[i + 2]
      <4>1. i \in 1..Len(Tail(s)) - 1 /\ i + 1 \in 1..m - 1 /\ (i + 1) + 1 = i + 2
        BY <1>2
      <4> QED
        BY <1>2, <3>1, <4>1
    <3> QED
      BY <1>2, <3>1, <3>2, <3>3
  <2> DEFINE P(n) == n + 2 <= m => f[n + 2] = s[1] \o g[n + 1]
  <2>3. P(0)
    <3>1. 1 \in 1..m - 1 /\ 1 + 1 = 2 /\ 0 + 2 = 2 /\ 0 + 1 = 1
      BY <1>2, <2>1
    <3>2. f[1 + 1] = f[1] \o s[1 + 1]
      BY <1>3, <3>1
    <3> QED
      BY <1>3, <2>2, <3>1, <3>2
  <2>4. ASSUME NEW n \in Nat, P(n) PROVE P(n + 1)
    <3> SUFFICES ASSUME (n + 1) + 2 <= m PROVE f[(n + 1) + 2] = s[1] \o g[(n + 1) + 1]
      OBVIOUS
    <3>0. /\ n + 2 <= m /\ n + 2 \in 1..m - 1 /\ (n + 2) + 1 = n + 3 /\ (n + 1) + 2 = n + 3
          /\ n + 1 \in 1..m - 2 /\ (n + 1) + 1 = n + 2 /\ n + 3 \in 1..m /\ n + 1 \in 1..m - 1
      BY <1>2
    <3>1. f[n + 2] = s[1] \o g[n + 1]
      BY <2>4, <3>0
    <3>2. f[n + 3] = f[n + 2] \o s[n + 3]
      BY <1>3, <3>0
    <3>3. g[n + 2] = g[n + 1] \o s[n + 3]
      BY <2>2, <3>0
    <3>4. s[1] \in Seq(S) /\ g[n + 1] \in Seq(S) /\ s[n + 3] \in Seq(S)
      BY <1>2, <3>0
    <3>5. PICK a \in Seq(S), b \in Seq(S), c \in Seq(S) :
              a = s[1] /\ b = g[n + 1] /\ c = s[n + 3]
      BY <3>4
    <3>6. (a \o b) \o c = a \o (b \o c)
      BY ONLY a \in Seq(S), b \in Seq(S), c \in Seq(S), ConcatAssociative
    <3>7. f[n + 3] = (a \o b) \o c /\ g[n + 2] = b \o c
      BY <3>1, <3>2, <3>3, <3>5
    <3> QED
      BY <3>0, <3>5, <3>6, <3>7
  <2>5. \A n \in Nat : P(n)
    <3> DEFINE T == {n \in Nat : P(n)}
    <3> HIDE DEF P
    <3>1. 0 \in T /\ \A n \in Nat : n \in T => n + 1 \in T
      BY <2>3, <2>4
    <3>2. Nat \subseteq T
      <4> HIDE DEF T
      <4> QED
        BY <3>1, Counting
    <3> QED
      BY <3>2
  <2>6. f[m] = s[1] \o g[m - 1]
    <3>1. m - 2 \in Nat /\ (m - 2) + 2 = m /\ (m - 2) + 1 = m - 1 /\ (m - 2) + 2 <= m
      BY <1>2, <2>1
    <3>2. P(m - 2)
      BY <2>5, <3>1
    <3> QED
      BY <3>1, <3>2
  <2>7. m \in 1..m
    BY <1>2
  <2> QED
    BY <1>2, <1>3, <2>2, <2>6, <2>7
<1> QED
  BY <1>4, <1>5

\* What is between two places of a sequence.
LEMMA Slice ==
  ASSUME NEW S, NEW c \in Seq(S), NEW t \in Seq(S), NEW a \in Nat, NEW b \in Nat,
         b = a + Len(t), b <= Len(c),
         \A i \in 1..Len(t) : c[a + i] = t[i]
  PROVE  SubSeq(c, a + 1, b) = t
<1> DEFINE u == SubSeq(c, a + 1, b)
<1>1. \A i \in a + 1..b : c[i] \in S
  OBVIOUS
<1>2. u \in Seq(S) /\ Len(u) = Len(t) /\ \A i \in 1..Len(t) : u[i] = c[a + i]
  OBVIOUS
<1>3. \A i \in 1..Len(u) : u[i] = t[i]
  <2> HIDE DEF u
  <2> QED
    BY <1>2
<1> HIDE DEF u
<1>4. u = t
  BY <1>2, <1>3, SeqEqual
<1> QED
  BY <1>4 DEF u

\* What is left of a sequence from a place on.
LEMMA FromPlace ==
  ASSUME NEW S, NEW c \in Seq(S), NEW a \in Nat, a <= Len(c)
  PROVE  /\ From(c, a + 1) \in Seq(S)
         /\ Len(From(c, a + 1)) = Len(c) - a
         /\ \A i \in 1..Len(c) - a : From(c, a + 1)[i] = c[a + i]
<1>1. \A i \in a + 1..Len(c) : c[i] \in S
  OBVIOUS
<1> QED
  BY <1>1 DEF From

\* And from a place on in that.
LEMMA FromTwice ==
  ASSUME NEW S, NEW c \in Seq(S), NEW a \in Nat, NEW b \in Nat, NEW d \in Nat,
         d = a + b, d <= Len(c)
  PROVE  From(From(c, a + 1), b + 1) = From(c, d + 1)
<1>1. PICK u \in Seq(S) :
        /\ u = From(c, a + 1) /\ Len(u) = Len(c) - a
        /\ \A i \in 1..Len(c) - a : u[i] = c[a + i]
  <2>1. a <= Len(c)
    OBVIOUS
  <2> QED
    BY <2>1, FromPlace
<1>2. PICK w \in Seq(S) :
        /\ w = From(c, d + 1) /\ Len(w) = Len(c) - d
        /\ \A i \in 1..Len(c) - d : w[i] = c[d + i]
  BY FromPlace
<1>3. PICK v \in Seq(S) :
        /\ v = From(u, b + 1) /\ Len(v) = Len(u) - b
        /\ \A i \in 1..Len(u) - b : v[i] = u[b + i]
  <2>1. b <= Len(u)
    BY <1>1
  <2>2. /\ From(u, b + 1) \in Seq(S)
        /\ Len(From(u, b + 1)) = Len(u) - b
        /\ \A i \in 1..Len(u) - b : From(u, b + 1)[i] = u[b + i]
    BY <2>1, FromPlace
  <2> QED
    BY <2>2
<1>4. Len(v) = Len(w)
  BY <1>1, <1>2, <1>3
<1>5. ASSUME NEW i \in 1..Len(v) PROVE v[i] = w[i]
  <2>1. i \in 1..Len(u) - b /\ b + i \in 1..Len(c) - a /\ i \in 1..Len(c) - d
    BY <1>1, <1>3
  <2>2. v[i] = u[b + i] /\ u[b + i] = c[a + (b + i)] /\ w[i] = c[d + i]
    BY <1>1, <1>2, <1>3, <2>1
  <2>3. a + (b + i) = d + i
    OBVIOUS
  <2> QED
    BY <2>2, <2>3
<1>6. v = w
  BY <1>4, <1>5, SeqEqual
<1> QED
  BY <1>1, <1>2, <1>3, <1>6

\* Up to two headers, one after the other.
LEMMA FlattenFew ==
  ASSUME NEW S, NEW s \in Seq(Seq(S))
  PROVE  /\ Len(s) = 0 => FlattenSeq(s) = <<>>
         /\ Len(s) = 1 => FlattenSeq(s) = s[1]
         /\ Len(s) = 2 => FlattenSeq(s) = s[1] \o s[2]
<1>0. FlattenSeq(<<>>) = <<>>
  BY DEF FlattenSeq
<1>a. Len(<<>>) = 0 /\ \A T : \A t \in Seq(T) : Len(t) = 0 => t = <<>>
  OBVIOUS
<1>1. ASSUME Len(s) = 0 PROVE FlattenSeq(s) = <<>>
  <2>1. s = <<>>
    BY <1>1
  <2> QED
    BY <1>0, <2>1
<1>2. ASSUME NEW t \in Seq(Seq(S)), Len(t) = 1 PROVE FlattenSeq(t) = t[1]
  <2>1. t # <<>> /\ Tail(t) = <<>> /\ Head(t) = t[1] /\ t[1] \in Seq(S)
    <3>1. t # <<>>
      <4>1. Len(t) # 0
        BY <1>2
      <4> QED
        BY <1>a, <4>1
    <3>2. Tail(t) \in Seq(Seq(S)) /\ Len(Tail(t)) = 0
      BY <1>2, <3>1, HeadTailProperties
    <3>3. Tail(t) = <<>>
      BY <1>a, <3>2
    <3> QED
      BY <1>2, <3>1, <3>3
  <2>2. FlattenSeq(t) = Head(t) \o FlattenSeq(Tail(t))
    BY <2>1, FlattenHead
  <2>3. PICK a \in Seq(S) : a = t[1]
    BY <2>1
  <2>4. a \o <<>> = a
    OBVIOUS
  <2> QED
    BY <1>0, <2>1, <2>2, <2>3, <2>4
<1>3. ASSUME Len(s) = 2 PROVE FlattenSeq(s) = s[1] \o s[2]
  <2>1. s # <<>> /\ Tail(s) \in Seq(Seq(S)) /\ Len(Tail(s)) = 1 /\ Head(s) = s[1] /\ Tail(s)[1] = s[2]
    <3>1. s # <<>>
      BY <1>a, <1>3
    <3>2. /\ Tail(s) \in Seq(Seq(S)) /\ Len(Tail(s)) = Len(s) - 1
          /\ \A i \in 1..Len(Tail(s)) : Tail(s)[i] = s[i + 1]
      BY <3>1, HeadTailProperties
    <3>3. Len(Tail(s)) = 1
      BY <1>3, <3>2
    <3>a. 1 \in 1..1 /\ 1 + 1 = 2
      OBVIOUS
    <3>4. Tail(s)[1] = s[2]
      BY <3>2, <3>3, <3>a
    <3>5. Head(s) = s[1]
      BY <3>1
    <3> QED
      BY <3>1, <3>2, <3>3, <3>4, <3>5
  <2>2. FlattenSeq(Tail(s)) = s[2]
    BY <1>2, <2>1
  <2>3. FlattenSeq(s) = Head(s) \o FlattenSeq(Tail(s))
    BY <2>1, FlattenHead
  <2> QED
    BY <2>1, <2>2, <2>3
<1> QED
  BY <1>1, <1>2, <1>3

-----------------------------------------------------------------------------
(* One packet, and what the buffer holds of it.                            *)

\* One of the two is the beginning of the other.
Agree(c, t) == \A i \in 1..Len(t) : i <= Len(c) => c[i] = t[i]

\* What agrees with two in a row agrees with the first, and behind that with
\* the second.
LEMMA AgreeBehind ==
  ASSUME NEW S, NEW c \in Seq(S), NEW a \in Seq(S), NEW t \in Seq(S), Agree(c, a \o t)
  PROVE  /\ Agree(c, a)
         /\ Len(c) >= Len(a) => Agree(From(c, Len(a) + 1), t)
<1>1. /\ \A i \in 1..Len(a) : i \in 1..Len(a \o t) /\ (a \o t)[i] = a[i]
      /\ \A i \in 1..Len(t) : Len(a) + i \in 1..Len(a \o t) /\ (a \o t)[Len(a) + i] = t[i]
  OBVIOUS
<1>2. Agree(c, a)
  BY <1>1 DEF Agree
<1>3. ASSUME Len(c) >= Len(a) PROVE Agree(From(c, Len(a) + 1), t)
  <2>1. PICK k \in Nat : k = Len(a)
    OBVIOUS
  <2>2. PICK u : u = From(c, k + 1)
    OBVIOUS
  <2>3. /\ Len(u) = Len(c) - k
        /\ \A i \in 1..Len(c) - k : u[i] = c[k + i]
    BY <1>3, <2>1, <2>2, FromPlace
  <2>4. ASSUME NEW i \in 1..Len(t), i <= Len(u) PROVE u[i] = t[i]
    <3>1. k + i <= Len(c) /\ i \in 1..Len(c) - k
      BY <2>1, <2>3, <2>4
    <3>2. c[k + i] = t[i]
      BY <1>1, <2>1, <3>1 DEF Agree
    <3> QED
      BY <2>3, <3>1, <3>2
  <2>5. Agree(u, t)
    BY <2>4 DEF Agree
  <2> QED
    BY <2>1, <2>2, <2>5
<1> QED
  BY <1>2, <1>3

\* What agrees with a longer one is the beginning of it, and what agrees with
\* a shorter one has something behind it.
LEMMA AgreeEnds ==
  ASSUME NEW S, NEW c \in Seq(S), NEW t \in Seq(S), Agree(c, t)
  PROVE  /\ Len(c) <= Len(t) => c = SubSeq(t, 1, Len(c))
         /\ Len(c) >= Len(t) => SubSeq(c, 1, Len(t)) = t /\ c = t \o From(c, Len(t) + 1)
<1>1. ASSUME Len(c) <= Len(t) PROVE c = SubSeq(t, 1, Len(c))
  <2>1. \A i \in 1..Len(c) : t[0 + i] = c[i]
    BY <1>1 DEF Agree
  <2>2. Len(c) = 0 + Len(c) /\ Len(c) \in Nat /\ 0 + 1 = 1
    OBVIOUS
  <2>3. SubSeq(t, 0 + 1, Len(c)) = c
    BY <1>1, <2>1, <2>2, Slice
  <2> QED
    BY <2>2, <2>3
<1>2. ASSUME Len(c) >= Len(t) PROVE SubSeq(c, 1, Len(t)) = t /\ c = t \o From(c, Len(t) + 1)
  <2>1. \A i \in 1..Len(t) : c[0 + i] = t[i]
    BY <1>2 DEF Agree
  <2>2. Len(t) = 0 + Len(t) /\ Len(t) \in Nat /\ 0 + 1 = 1
    OBVIOUS
  <2>3. SubSeq(c, 0 + 1, Len(t)) = t
    BY <1>2, <2>1, <2>2, Slice
  <2>4. PICK k \in Nat : k = Len(t)
    OBVIOUS
  <2>5. PICK r \in Seq(S) : r = From(c, k + 1) /\ Len(r) = Len(c) - k
                        /\ \A i \in 1..Len(c) - k : r[i] = c[k + i]
    <3>1. /\ From(c, k + 1) \in Seq(S) /\ Len(From(c, k + 1)) = Len(c) - k
          /\ \A i \in 1..Len(c) - k : From(c, k + 1)[i] = c[k + i]
      BY <1>2, <2>4, FromPlace
    <3> QED
      BY <3>1
  <2> DEFINE l == t \o r
  <2>6. l \in Seq(S) /\ Len(l) = Len(c)
    BY <2>4, <2>5
  <2>7. ASSUME NEW i \in 1..Len(c) PROVE l[i] = c[i]
    <3>1. CASE i <= k
      <4>1. i \in 1..Len(t) /\ l[i] = t[i]
        BY <2>4, <3>1
      <4> QED
        BY <2>1, <4>1
    <3>2. CASE i > k
      <4>1. i - k \in 1..Len(c) - k /\ k + (i - k) = i
        BY <3>2
      <4>2. \A j \in 1..Len(r) : l[Len(t) + j] = r[j]
        OBVIOUS
      <4>3. PICK j \in 1..Len(r) : j = i - k /\ k + j = i
        BY <2>5, <4>1
      <4>4. l[i] = r[j]
        <5> HIDE DEF l
        <5> QED
          BY <2>4, <4>2, <4>3
      <4> QED
        BY <2>5, <4>1, <4>3, <4>4
    <3> HIDE DEF l
    <3> QED
      BY <3>1, <3>2
  <2>8. l = c
    <3> HIDE DEF l
    <3> QED
      BY <2>6, <2>7, SeqEqual
  <2> QED
    BY <2>2, <2>3, <2>4, <2>5, <2>8
<1> QED
  BY <1>1, <1>2

\* A sequence of elements of a set is one of elements of a larger set.
LEMMA SeqWider ==
  ASSUME NEW S, NEW T, S \subseteq T, NEW r \in Seq(S)
  PROVE  r \in Seq(T)
OBVIOUS

\* The bytes of the length of a packet, in the shortest form or in a wide one.
Size(n, wide) == IF wide THEN <<128 + n, 0>> ELSE encode_vle(n)

\* Of the length the parser makes nothing before it is there, and then what it
\* is, in either form.
LEMMA SizeIsRead ==
  ASSUME NEW n \in Nat, n <= MaxLength, NEW wide \in BOOLEAN, wide => n < 128
  PROVE  /\ Size(n, wide) \in Seq(Byte)
         /\ Len(Size(n, wide)) \in 1..4
         /\ \A u \in Seq(Byte) : Agree(u, Size(n, wide)) =>
              decode_vle(u) = IF Len(u) < Len(Size(n, wide)) THEN Incomplete
                              ELSE Done(n, From(u, Len(Size(n, wide)) + 1))
<1>1. CASE wide
  <2>1. Size(n, wide) = <<128 + n, 0>> /\ n < 128
    BY <1>1 DEF Size
  <2>2. <<128 + n, 0>> \in Seq(Byte) /\ Len(<<128 + n, 0>>) = 2
    BY <2>1 DEF Byte
  <2>3. ASSUME NEW u \in Seq(Byte), Agree(u, <<128 + n, 0>>)
        PROVE  decode_vle(u) = IF Len(u) < 2 THEN Incomplete ELSE Done(n, From(u, 2 + 1))
    <3>1. /\ Len(u) >= 1 => u[1] = 128 + n
          /\ Len(u) >= 2 => u[2] = 0
      <4>1. <<128 + n, 0>>[1] = 128 + n /\ <<128 + n, 0>>[2] = 0
        OBVIOUS
      <4>2. 1 \in 1..2 /\ 2 \in 1..2
        OBVIOUS
      <4> QED
        BY <2>2, <2>3, <4>1, <4>2 DEF Agree
    <3>2. CASE Len(u) < 2
      <4>1. \A i \in 1..4 : ~EndsAt(u, i)
        BY <3>1, <3>2 DEF EndsAt
      <4>2. ~(Len(u) > 3)
        BY <3>2
      <4> QED
        BY <3>2, <4>1, <4>2 DEF decode_vle
    <3>3. CASE ~(Len(u) < 2)
      <4>1. EndsAt(u, 2) /\ \A i \in 1..4 : EndsAt(u, i) => i = 2
        <5>1. EndsAt(u, 2)
          BY <3>1, <3>3 DEF EndsAt
        <5>2. ASSUME NEW i \in 1..4, EndsAt(u, i) PROVE i = 2
          <6>1. i # 1
            BY <3>1, <3>3, <5>2 DEF EndsAt
          <6>2. i > 2 => u[2] >= 128
            BY <5>2 DEF EndsAt
          <6> QED
            BY <3>1, <3>3, <6>1, <6>2
        <5> QED
          BY <5>1, <5>2
      <4>2. (CHOOSE i \in 1..4 : EndsAt(u, i)) = 2 /\ \E i \in 1..4 : EndsAt(u, i)
        BY <4>1
      <4>3. Share(u, 1, 2) = n /\ Share(u, 2, 2) = 0 /\ Share(u, 3, 2) = 0 /\ Share(u, 4, 2) = 0
        <5>1. Place[1] = 1 /\ Place[2] = 128
          BY SMT, PlaceValues
        <5>2. (128 + n) % 128 = n /\ 0 % 128 = 0
          BY SMT, <2>1
        <5>3. u[1] % 128 = n /\ u[2] % 128 = 0
          BY <3>1, <3>3, <5>2
        <5> QED
          BY SMT, <5>1, <5>3 DEF Share
      <4>4. n + 0 + 0 + 0 = n
        OBVIOUS
      <4>5. decode_vle(u) = Done(Share(u, 1, 2) + Share(u, 2, 2) + Share(u, 3, 2) + Share(u, 4, 2),
                                 SubSeq(u, 2 + 1, Len(u)))
        BY Zenon, <4>2 DEF decode_vle
      <4> QED
        BY <3>3, <4>3, <4>4, <4>5 DEF From
    <3> QED
      BY <3>2, <3>3
  <2>4. Len(<<128 + n, 0>>) \in 1..4
    BY <2>2
  <2> QED
    BY <2>1, <2>2, <2>3, <2>4
<1>2. CASE ~wide
  <2>1. PICK e : e = encode_vle(n)
    OBVIOUS
  <2>2. PICK k : k = vle_size(n)
    OBVIOUS
  <2>3. k \in 1..4 /\ Len(e) = k /\ e \in Seq(Nat) /\ Size(n, wide) = e
    BY SMT, <1>2, <2>1, <2>2, DigitsFit, Encoded DEF Size
  <2>4. e = [i \in 1..k |-> Digit(n, i) + (IF i < k THEN 128 ELSE 0)]
    BY SMT, <2>1, <2>2 DEF encode_vle, MaxLength, Digit
  <2>5. \A i \in 1..k : e[i] \in Byte
    <3> TAKE i \in 1..k
    <3>1. i \in 1..4
      BY <2>3
    <3>2. Digit(n, i) \in 0..127
      BY SMT, <3>1, DigitsFit
    <3>3. e[i] = Digit(n, i) + (IF i < k THEN 128 ELSE 0)
      BY <2>4
    <3> QED
      BY SMT, <3>2, <3>3 DEF Byte
  <2>6. e \in Seq(Byte)
    BY <2>3, <2>5
  <2>7. ASSUME NEW u \in Seq(Byte), Agree(u, e)
        PROVE  decode_vle(u) = IF Len(u) < k THEN Incomplete ELSE Done(n, From(u, k + 1))
    <3>1. CASE Len(u) < k
      <4>1. u = SubSeq(e, 1, Len(u))
        BY <2>3, <2>6, <2>7, <3>1, AgreeEnds
      <4>2. Len(u) \in 0..Len(e) - 1
        BY <2>3, <3>1
      <4>a. <<>> \in Seq(Nat)
        OBVIOUS
      <4>3. ReadsBack(n, <<>>)
        BY <4>a, NumbersReadBack
      <4>4. decode_vle(SubSeq(e, 1, Len(u))) = Incomplete
        BY <2>1, <4>2, <4>3 DEF ReadsBack
      <4> QED
        BY <3>1, <4>1, <4>4
    <3>2. CASE ~(Len(u) < k)
      <4>1. PICK r : r = From(u, k + 1)
        OBVIOUS
      <4>2. r \in Seq(Byte)
        <5>1. k \in Nat /\ k <= Len(u)
          BY <2>3, <3>2
        <5> QED
          BY <4>1, <5>1, FromPlace
      <4>3. u = e \o r
        <5>1. Len(u) >= Len(e)
          BY <2>3, <3>2
        <5>2. u = e \o From(u, Len(e) + 1)
          BY <2>6, <2>7, <5>1, AgreeEnds
        <5> QED
          BY <2>3, <4>1, <5>2
      <4>4. r \in Seq(Nat)
        <5>1. Byte \subseteq Nat
          BY DEF Byte
        <5> QED
          BY Zenon, <4>2, <5>1, SeqWider
      <4>5. ReadsBack(n, r)
        BY <4>4, NumbersReadBack
      <4>6. decode_vle(e \o r) = Done(n, r)
        BY <2>1, <4>5 DEF ReadsBack
      <4> QED
        BY <3>2, <4>1, <4>3, <4>6
    <3> QED
      BY <3>1, <3>2
  <2> QED
    BY <2>3, <2>6, <2>7
<1> QED
  BY <1>1, <1>2

-----------------------------------------------------------------------------
(* What the parser makes of the buffer, packet by packet.                  *)

\* What a server sends has a type the parser knows.
LEMMA KnownTypes ==
  /\ ServerTypes \subseteq PacketTypes
  /\ ServerTypes = {2, 3, 4, 5, 6, 7, 9, 11, 13}
  /\ AckTypes = {4, 5, 6, 7}
<1>1. ServerTypes = {2, 3, 4, 5, 6, 7, 9, 11, 13}
  BY DEF ServerTypes, AckTypes, PacketType
<1>2. ServerTypes \subseteq PacketTypes
  <2>1. /\ "ConnAck" \in DOMAIN PacketType /\ "Publish" \in DOMAIN PacketType
        /\ "PubAck" \in DOMAIN PacketType /\ "PubRec" \in DOMAIN PacketType
        /\ "PubRel" \in DOMAIN PacketType /\ "PubComp" \in DOMAIN PacketType
        /\ "SubAck" \in DOMAIN PacketType /\ "UnsubAck" \in DOMAIN PacketType
        /\ "PingResp" \in DOMAIN PacketType
    BY DEF PacketType
  <2> QED
    BY <2>1 DEF ServerTypes, AckTypes, PacketTypes
<1> QED
  BY <1>1, <1>2 DEF AckTypes, PacketType

\* The lengths of names.
Words == {n \in Nat : n < 65536}

\* They are below 65536.
LEMMA WordsBelow == \A n \in Nat : n < 65536 => n \in Words
BY SMT DEF Words

\* Two bytes make a number.
LEMMA U16IsRead ==
  ASSUME NEW n \in Words
  PROVE  U16(n) \in Seq(Byte) /\ Len(U16(n)) = 2 /\ U16(n)[1] * 256 + U16(n)[2] = n
<1>1. PICK x : x = n \div 256
  OBVIOUS
<1>2. PICK y : y = n % 256
  OBVIOUS
<1>3. x \in Int /\ y \in 0..255 /\ x * 256 + y = n
  BY SMT, <1>1, <1>2 DEF Words
<1>4. x \in Byte /\ y \in Byte
  <2>1. n <= 65535 /\ n >= 0
    BY SMT DEF Words
  <2>2. x <= 255 /\ x >= 0
    BY SMT, <1>3, <2>1
  <2> QED
    BY SMT, <1>3, <2>2 DEF Byte
<1>5. U16(n) = <<x, y>>
  BY <1>1, <1>2 DEF U16
<1> QED
  BY <1>3, <1>4, <1>5

\* An element in front of a sequence.
LEMMA InFront ==
  ASSUME NEW S, NEW x \in S, NEW s \in Seq(S)
  PROVE  /\ <<x>> \o s \in Seq(S) /\ Len(<<x>> \o s) = 1 + Len(s)
         /\ (<<x>> \o s)[1] = x
         /\ \A i \in 1..Len(s) : (<<x>> \o s)[1 + i] = s[i]
OBVIOUS

\* The bytes behind the length are bytes.
LEMMA BodyBytes ==
  ASSUME NEW p \in ServerPackets, Lawful(p)
  PROVE  /\ Body(p) \in Seq(Byte) /\ Len(Body(p)) <= MaxLength
         /\ p.headers \in Seq(Seq(Byte))
         /\ FlattenSeq(p.headers) \in Seq(Byte)
<1>1. p.headers \in Seq(Seq(Byte))
  BY DEF ServerPackets
<1>2. FlattenSeq(p.headers) \in Seq(Byte)
  <2>1. FlattenSeq(<<>>) = <<>> /\ <<>> \in Seq(Byte)
    BY DEF FlattenSeq
  <2> QED
    BY <1>1, <2>1, FlattenHead
<1>3. (IF p.ty = PacketType.Publish THEN U16(Len(p.headers[1])) ELSE <<>>) \in Seq(Byte)
  <2>1. CASE p.ty = PacketType.Publish
    <3>1. Len(p.headers[1]) \in Words
      <4>1. p.headers # <<>>
        BY <2>1 DEF Lawful
      <4>2. Len(p.headers) \in Nat \ {0}
        BY <1>1, <4>1, EmptySeq
      <4>3. p.headers[1] \in Seq(Byte)
        BY <1>1, <4>2
      <4>4. Len(p.headers[1]) \in Nat
        BY <4>3
      <4>5. Len(p.headers[1]) < 65536
        BY SMT, <2>1 DEF Lawful
      <4> QED
        BY SMT, <4>4, <4>5, WordsBelow
    <3> QED
      BY <2>1, <3>1, U16IsRead
  <2>2. CASE p.ty # PacketType.Publish
    BY <2>2
  <2> QED
    BY <2>1, <2>2
<1>4. /\ p.payload.is = "Application" => p.payload.bytes \in Seq(Byte)
      /\ p.payload.is = "SubAck" => p.payload.codes \in Seq(Byte)
  <2>1. SubAckReturnCodes \subseteq Byte
    BY DEF SubAckReturnCodes, Byte
  <2>2. p.payload.is = "SubAck" => p.payload.codes \in Seq(SubAckReturnCodes)
    BY DEF ServerPackets, NoPayload
  <2>3. p.payload.is = "Application" => p.payload.bytes \in Seq(Byte)
    BY DEF ServerPackets, NoPayload
  <2> QED
    BY <2>1, <2>2, <2>3, SeqWider
<1>5. (CASE p.payload.is = "Application" -> p.payload.bytes
         [] p.payload.is = "SubAck" -> p.payload.codes
         [] OTHER -> <<>>) \in Seq(Byte)
  BY <1>4
<1>6. ASSUME NEW a \in Seq(Byte), NEW b \in Seq(Byte), NEW c \in Seq(Byte)
      PROVE  (a \o b) \o c \in Seq(Byte)
  OBVIOUS
<1>7. Body(p) \in Seq(Byte)
  BY <1>2, <1>3, <1>5, <1>6 DEF Body
<1> QED
  BY <1>1, <1>2, <1>7 DEF Lawful

\* A byte is put together of two halves.
LEMMA Nibbles ==
  ASSUME NEW ty \in 0..15, NEW flags \in 0..15, NEW f, f = 16 * ty + flags
  PROVE  f \in Byte /\ f \div 16 = ty /\ f % 16 = flags
BY SMT DEF Byte

\* What is behind the length is behind the first byte and the length.
LEMMA FromBehind ==
  ASSUME NEW b \in Seq(Byte), NEW k \in 2..5, NEW l \in 1..4, k = 1 + l, k <= Len(b)
  PROVE  From(From(b, 1 + 1), l + 1) = From(b, k + 1)
<1>1. PICK o \in Nat : o = 1
  OBVIOUS
<1>2. PICK i \in Nat : i = l
  OBVIOUS
<1>3. PICK j \in Nat : j = k
  OBVIOUS
<1>4. j = o + i /\ j <= Len(b)
 BY <1>1, <1>2, <1>3
<1>5. From(From(b, o + 1), i + 1) = From(b, j + 1)
  BY <1>4, FromTwice
<1> QED
  BY <1>1, <1>2, <1>3, <1>5

\* As far as it goes, b is a packet with this first byte, length and body.
Holds(b, f, n, wide, body) == Agree(b, (<<f>> \o Size(n, wide)) \o body)

\* The two halves of the first byte.
IsFirst(f, ty, flags) == f \div 16 = ty /\ f % 16 = flags

\* What comes of reading b: z is behind the k bytes of the head.
HeadReads(b, ty, flags, n, wide, body, k, z) ==
  /\ k = 1 + Len(Size(n, wide))
  /\ b = <<>> => packet("kept", b) = Incomplete
  /\ b # <<>> /\ ty \notin PacketTypes => packet("kept", b) = Error
  /\ ty \in PacketTypes /\ Len(b) < k => packet("kept", b) = Incomplete
  /\ Len(b) >= k =>
       /\ z = From(b, k + 1) /\ Len(z) = Len(b) - k
       /\ Agree(z, body)
       /\ ty \in PacketTypes =>
            LET headers == packet_headers(ty, flags, z)
            IN packet("kept", b) =
                 IF headers.is # "Done" THEN headers
                 ELSE WithPayload(ty, flags, n, z, headers)

\* Of a type, flags and a length the parser reads what they are, as far as
\* they are there; the rest is up to the headers.
LEMMA HeadIsRead ==
  ASSUME NEW ty \in 0..15, NEW flags \in 0..15, NEW n \in Nat, n <= MaxLength,
         NEW wide \in BOOLEAN, wide => n < 128, NEW body \in Seq(Byte), NEW b \in Seq(Byte),
         NEW f \in Byte, IsFirst(f, ty, flags), Holds(b, f, n, wide, body)
  PROVE  \E k \in 2..5 : \E z \in Seq(Byte) : HeadReads(b, ty, flags, n, wide, body, k, z)
<1>3. f \div 16 = ty /\ f % 16 = flags
  BY DEF IsFirst
<1>1. PICK size \in Seq(Byte) : size = Size(n, wide)
  BY SizeIsRead
<1>2. PICK l \in 1..4 : l = Len(size)
  BY <1>1, SizeIsRead
<1>5. PICK k \in 2..5 : k = 1 + l /\ k = 1 + Len(size)
  <2>1. 1 + l \in 2..5
    BY SMT
  <2>2. PICK k : k = 1 + l
    OBVIOUS
  <2>3. k \in 2..5 /\ k = 1 + Len(size)
    BY <1>2, <2>1, <2>2
  <2> QED
    BY Zenon, <2>2, <2>3
<1>6. PICK a \in Seq(Byte) : /\ a = <<f>> \o size /\ Len(a) = k /\ a[1] = f
                             /\ \A i \in 1..Len(size) : a[1 + i] = size[i]
  <2>1. /\ <<f>> \o size \in Seq(Byte) /\ Len(<<f>> \o size) = 1 + Len(size)
        /\ (<<f>> \o size)[1] = f
        /\ \A i \in 1..Len(size) : (<<f>> \o size)[1 + i] = size[i]
    BY InFront
  <2> QED
    BY <1>5, <2>1
<1>7. Agree(b, a \o body)
  BY <1>1, <1>6 DEF Holds
<1>8. Agree(b, a) /\ (Len(b) >= Len(a) => Agree(From(b, Len(a) + 1), body))
  BY <1>7, AgreeBehind
<1>9. Len(b) >= k => /\ From(b, k + 1) \in Seq(Byte)
                     /\ Len(From(b, k + 1)) = Len(b) - k
  BY FromPlace
<1>10. b = <<>> => packet("kept", b) = Incomplete
  BY DEF packet, packet_type, Incomplete
<1>11. ASSUME b # <<>>
       PROVE  b[1] = f /\ Len(b) >= 1
  <2>1. Len(b) >= 1
    BY <1>11
  <2>2. 1 \in 1..Len(a)
    BY <1>6
  <2> QED
    BY <1>6, <1>8, <2>1, <2>2 DEF Agree
<1>12. ASSUME b # <<>>, ty \notin PacketTypes PROVE packet("kept", b) = Error
  <2>1. packet_type(b) = Error
    BY <1>3, <1>11, <1>12 DEF packet_type
  <2> QED
    BY <2>1 DEF packet, Error
<1>13. ASSUME b # <<>>, ty \in PacketTypes
       PROVE  \E u \in Seq(Byte) :
                /\ Len(u) = Len(b) - 1 /\ Agree(u, size)
                /\ u = From(b, 1 + 1)
                /\ packet("kept", b) =
                     LET re_len  == decode_vle(u)
                         headers == packet_headers(ty, flags, re_len.rest)
                     IN IF re_len.is # "Done" THEN re_len
                        ELSE IF headers.is # "Done" THEN headers
                        ELSE WithPayload(ty, flags, re_len.value, re_len.rest, headers)
  <2>1. PICK u \in Seq(Byte) : u = From(b, 1 + 1) /\ Len(u) = Len(b) - 1
                           /\ \A i \in 1..Len(b) - 1 : u[i] = b[1 + i]
    <3>1. /\ From(b, 1 + 1) \in Seq(Byte) /\ Len(From(b, 1 + 1)) = Len(b) - 1
          /\ \A i \in 1..Len(b) - 1 : From(b, 1 + 1)[i] = b[1 + i]
      BY <1>11, <1>13, FromPlace
    <3> QED
      BY <3>1
  <2>2. Agree(u, size)
    <3>1. ASSUME NEW i \in 1..l, i <= Len(u) PROVE u[i] = size[i]
      <4>1. i \in 1..Len(b) - 1 /\ 1 + i \in 1..Len(a) /\ 1 + i <= Len(b) /\ i \in 1..Len(size)
        BY <1>2, <1>5, <1>6, <2>1, <3>1
      <4>2. b[1 + i] = a[1 + i]
        BY <1>8, <4>1 DEF Agree
      <4> QED
        BY <1>6, <2>1, <4>1, <4>2
    <3> QED
      BY <1>2, <3>1 DEF Agree
  <2>3. packet_type(b) = Done(ty, u)
    BY <1>3, <1>11, <1>13, <2>1 DEF packet_type
  <2>4. packet_flags("kept", b[1], u) = Done(flags, u)
    BY <1>3, <1>11, <1>13 DEF packet_flags
  <2>5. packet("kept", b) =
                     LET re_len  == decode_vle(u)
                         headers == packet_headers(ty, flags, re_len.rest)
                     IN IF re_len.is # "Done" THEN re_len
                        ELSE IF headers.is # "Done" THEN headers
                        ELSE WithPayload(ty, flags, re_len.value, re_len.rest, headers)
    BY <2>3, <2>4 DEF packet, Done
  <2> QED
    BY <2>1, <2>2, <2>5
<1>14. ASSUME ty \in PacketTypes, Len(b) < k PROVE packet("kept", b) = Incomplete
  <2>1. CASE b = <<>>
    BY <1>10, <2>1
  <2>2. CASE b # <<>>
    <3>1. PICK u \in Seq(Byte) :
                /\ Len(u) = Len(b) - 1 /\ Agree(u, size)
                /\ u = From(b, 1 + 1)
                /\ packet("kept", b) =
                     LET re_len  == decode_vle(u)
                         headers == packet_headers(ty, flags, re_len.rest)
                     IN IF re_len.is # "Done" THEN re_len
                        ELSE IF headers.is # "Done" THEN headers
                        ELSE WithPayload(ty, flags, re_len.value, re_len.rest, headers)
      BY <1>13, <1>14, <2>2
    <3>2. Len(u) < l
      BY <1>5, <1>14, <3>1
    <3>3. decode_vle(u) = Incomplete
      BY <1>1, <1>2, <3>1, <3>2, SizeIsRead
    <3> QED
      BY <3>1, <3>3 DEF Incomplete
  <2> QED
    BY <2>1, <2>2
<1>15. ASSUME ty \in PacketTypes, Len(b) >= k
       PROVE  LET z == From(b, k + 1)
                  headers == packet_headers(ty, flags, z)
              IN packet("kept", b) = IF headers.is # "Done" THEN headers
                                     ELSE WithPayload(ty, flags, n, z, headers)
  <2>1. b # <<>>
    BY <1>15
  <2>2. PICK u \in Seq(Byte) :
                /\ Len(u) = Len(b) - 1 /\ Agree(u, size)
                /\ u = From(b, 1 + 1)
                /\ packet("kept", b) =
                     LET re_len  == decode_vle(u)
                         headers == packet_headers(ty, flags, re_len.rest)
                     IN IF re_len.is # "Done" THEN re_len
                        ELSE IF headers.is # "Done" THEN headers
                        ELSE WithPayload(ty, flags, re_len.value, re_len.rest, headers)
    BY <1>13, <1>15, <2>1
  <2>3. ~(Len(u) < l)
    BY <1>5, <1>15, <2>2
  <2>4. decode_vle(u) = Done(n, From(u, l + 1))
    BY <1>1, <1>2, <2>2, <2>3, SizeIsRead
  <2>5. From(u, l + 1) = From(b, k + 1)
    <3>1. k = 1 + l /\ k <= Len(b)
      BY <1>5, <1>15
    <3> QED
      BY <2>2, <3>1, FromBehind
  <2>6. PICK d : d = decode_vle(u)
    OBVIOUS
  <2>7. d = Done(n, From(b, k + 1))
    BY Zenon, <2>4, <2>5, <2>6
  <2>8. d.is = "Done" /\ d.value = n /\ d.rest = From(b, k + 1)
    BY ONLY <2>7 DEF Done
  <2> QED
    BY Zenon, <2>2, <2>6, <2>8
<1>16. k = 1 + Len(Size(n, wide)) /\ <<>> \in Seq(Byte)
  BY <1>1, <1>5
<1>17. CASE Len(b) >= k
  <2>1. PICK z \in Seq(Byte) : z = From(b, k + 1) /\ Len(z) = Len(b) - k
    BY <1>9, <1>17
  <2>2. b # <<>> /\ ~(Len(b) < k)
    BY <1>17
  <2>3. Agree(z, body)
    BY <1>6, <1>8, <1>17, <2>1
  <2> QED
    BY <1>12, <1>15, <1>16, <1>17, <2>1, <2>2, <2>3 DEF HeadReads
<1>18. CASE ~(Len(b) >= k)
  <2>1. Len(b) < k
    BY <1>18
  <2> QED
    BY <1>10, <1>12, <1>14, <1>16, <1>18, <2>1 DEF HeadReads
<1> QED
  BY <1>17, <1>18

\* Two in a row.
LEMMA InARow ==
  ASSUME NEW x, NEW y
  PROVE  <<x>> \o <<y>> = <<x, y>>
<1> DEFINE S == {x, y}
<1>2. x \in S /\ y \in S
  OBVIOUS
<1> HIDE DEF S
<1>3. PICK r : r = <<y>>
  OBVIOUS
<1>4. r \in Seq(S) /\ Len(r) = 1 /\ r[1] = y
  BY <1>2, <1>3
<1>5. PICK s : s = <<x>> \o r
  OBVIOUS
<1>6. s \in Seq(S) /\ Len(s) = 1 + Len(r) /\ s[1] = x /\ \A i \in 1..Len(r) : s[1 + i] = r[i]
  BY <1>2, <1>4, <1>5, InFront
<1>7. Len(s) = 2 /\ s[2] = y
  <2>1. 1 \in 1..Len(r) /\ 1 + 1 = 2
    BY <1>4
  <2> QED
    BY <1>4, <1>6, <2>1
<1>8. PICK t : t = <<x, y>>
  OBVIOUS
<1>9. t \in Seq(S) /\ Len(t) = 2 /\ t[1] = x /\ t[2] = y
  BY <1>2, <1>8
<1>10. ASSUME NEW i \in 1..Len(s) PROVE s[i] = t[i]
  <2>1. i = 1 \/ i = 2
    BY <1>7
  <2> QED
    BY <1>6, <1>7, <1>9, <2>1
<1>11. s = t
  BY <1>6, <1>7, <1>9, <1>10, SeqEqual
<1> QED
  BY <1>3, <1>5, <1>8, <1>11

AreHeaders(h, z) == h = publish_hdrs(TRUE, z)

\* The headers of a publish are taken to have an identifier.
LEMMA PublishHeaders ==
  ASSUME NEW z, NEW h, AreHeaders(h, z)
  PROVE  /\ Len(z) < 2 => h = Incomplete
         /\ Len(z) < 2 + ReadU16(z) + 2 => h = Incomplete
         /\ ~(Len(z) < 2) /\ ~(Len(z) < 2 + ReadU16(z) + 2) =>
              h = Done(<<SubSeq(z, 3, ReadU16(z) + 2)>>
                         \o <<SubSeq(z, ReadU16(z) + 3, 2 + ReadU16(z) + 2)>>,
                       From(z, 2 + ReadU16(z) + 2 + 1))
BY Zenon DEF publish_hdrs, AreHeaders

\* A body that begins with a name.
Named(body, name, t) ==
  /\ Len(body) = Len(name) + 2 + Len(t)
  /\ \A i \in 1..2 : body[i] = U16(Len(name))[i]
  /\ \A i \in 1..Len(name) : body[2 + i] = name[i]
  /\ \A i \in 1..Len(t) : body[Len(name) + 2 + i] = t[i]

\* The headers of a publish that has the name and t behind it: the parser takes
\* two bytes of t for the identifier, whatever t is.
LEMMA PublishIsRead ==
  ASSUME NEW name \in Seq(Byte), NEW m \in Nat, m = Len(name), m \in Words,
         NEW t \in Seq(Byte), NEW body \in Seq(Byte), Named(body, name, t),
         NEW z \in Seq(Byte), Agree(z, body),
         NEW h, AreHeaders(h, z), NEW k \in Nat, k = m + 4
  PROVE  /\ Len(z) < k => h = Incomplete
         /\ Len(z) >= k => h.is = "Done" /\ h.rest = From(z, k + 1)
         /\ Len(z) >= k /\ Len(t) >= 2 => h.value = <<name, SubSeq(t, 1, 2)>>
         /\ Len(t) >= 2 => From(body, k + 1) = From(t, 2 + 1)
<1>0. /\ \A i \in 1..Len(body) : i <= Len(z) => z[i] = body[i]
      /\ Len(body) \in Nat /\ Len(z) \in Nat /\ Len(t) \in Nat
  BY DEF Agree
<1>a. /\ Len(body) = m + 2 + Len(t)
      /\ \A i \in 1..2 : body[i] = U16(m)[i]
      /\ \A i \in 1..m : body[2 + i] = name[i]
      /\ \A i \in 1..Len(t) : body[m + 2 + i] = t[i]
  BY DEF Named
<1>1. ASSUME Len(z) >= 2 PROVE ReadU16(z) = m
  <2>1. z[1] = U16(m)[1] /\ z[2] = U16(m)[2]
    BY <1>0, <1>1, <1>a
  <2>2. U16(m)[1] * 256 + U16(m)[2] = m
    BY U16IsRead
  <2> QED
    BY <2>1, <2>2 DEF ReadU16
<1>2. ASSUME Len(z) < k PROVE h = Incomplete
  <2>1. Len(z) < 2 => h = Incomplete
    BY Zenon, PublishHeaders
  <2>2. Len(z) < 2 + ReadU16(z) + 2 => h = Incomplete
    BY Zenon, PublishHeaders
  <2>3. ~(Len(z) < 2) => Len(z) < 2 + ReadU16(z) + 2
    BY <1>0, <1>1, <1>2
  <2> QED
    BY Zenon, <2>1, <2>2, <2>3
<1>3. PICK first : first = SubSeq(z, 3, m + 2)
  OBVIOUS
<1>4. PICK second : second = SubSeq(z, m + 3, k)
  OBVIOUS
<1>5. PICK rest : rest = From(z, k + 1)
  OBVIOUS
<1>6. ASSUME Len(z) >= k
      PROVE  h = Done(<<first, second>>, rest)
  <2>1. Len(z) >= 2
    BY <1>0, <1>6
  <2>2. ReadU16(z) = m
    BY <1>1, <2>1
  <2>3. 2 + m + 2 = k /\ ~(Len(z) < 2) /\ ~(Len(z) < k)
    BY <1>0, <1>6
  <2>4. h = Done(<<SubSeq(z, 3, m + 2)>> \o <<SubSeq(z, m + 3, k)>>, From(z, k + 1))
    BY Zenon, <2>2, <2>3, PublishHeaders
  <2>5. <<first>> \o <<second>> = <<first, second>>
    BY InARow
  <2> QED
    BY Zenon, <1>3, <1>4, <1>5, <2>4, <2>5
<1>7. ASSUME Len(z) >= k, Len(t) >= 2 PROVE first = name
  <2>1. PICK o \in Nat : o = 2
    OBVIOUS
  <2>2. PICK e \in Nat : e = m + 2
    OBVIOUS
  <2>3. ASSUME NEW i \in 1..Len(name) PROVE z[o + i] = name[i]
    <3>1. 2 + i \in 1..Len(body) /\ 2 + i <= Len(z) /\ i \in 1..m
      BY <1>0, <1>7, <1>a
    <3> QED
      BY <1>0, <1>a, <2>1, <3>1
  <2>4. e = o + Len(name) /\ e <= Len(z)
    BY <1>0, <1>7, <1>a, <2>1, <2>2
  <2>5. SubSeq(z, o + 1, e) = name
    BY <2>3, <2>4, Slice
  <2>6. o + 1 = 3
    BY <2>1
  <2> QED
    BY Zenon, <1>3, <2>2, <2>5, <2>6
<1>8. ASSUME Len(z) >= k, Len(t) >= 2 PROVE second = SubSeq(t, 1, 2)
  <2>1. PICK x : x = SubSeq(t, 1, 2)
    OBVIOUS
  <2>2. x \in Seq(Byte) /\ Len(x) = 2 /\ x[1] = t[1] /\ x[2] = t[2]
    <3>1. SubSeq(t, 1, 2) \in Seq(Byte) /\ Len(SubSeq(t, 1, 2)) = 2
      BY <1>0, <1>8
    <3>2. SubSeq(t, 1, 2)[1] = t[1] /\ SubSeq(t, 1, 2)[2] = t[2]
      BY <1>0, <1>8
    <3> QED
      BY Zenon, <2>1, <3>1, <3>2
  <2>3. PICK o \in Nat : o = m + 2
    OBVIOUS
  <2>4. ASSUME NEW i \in 1..Len(x) PROVE z[o + i] = x[i]
    <3>1. m + 2 + i \in 1..Len(body) /\ m + 2 + i <= Len(z) /\ i \in 1..Len(t)
      BY <1>0, <1>8, <1>a, <2>2
    <3>2. z[m + 2 + i] = t[i]
      BY <1>0, <1>a, <3>1
    <3>3. i = 1 \/ i = 2
      BY <2>2
    <3> QED
      BY <2>2, <2>3, <3>2, <3>3
  <2>5. k = o + Len(x) /\ k <= Len(z)
    BY <1>0, <1>8, <1>a, <2>2, <2>3
  <2>6. SubSeq(z, o + 1, k) = x
    BY <2>2, <2>4, <2>5, Slice
  <2>7. o + 1 = m + 3
    BY <2>3
  <2> QED
    BY Zenon, <1>4, <2>1, <2>6, <2>7
<1>9. ASSUME Len(t) >= 2 PROVE From(body, k + 1) = From(t, 2 + 1)
  <2>1. PICK x : x = From(t, 2 + 1)
    OBVIOUS
  <2>2. /\ x \in Seq(Byte) /\ Len(x) = Len(t) - 2
        /\ \A i \in 1..Len(t) - 2 : x[i] = t[2 + i]
    <3>1. PICK o \in Nat : o = 2
      OBVIOUS
    <3>2. o <= Len(t)
      BY <1>9, <3>1
    <3>3. /\ From(t, o + 1) \in Seq(Byte) /\ Len(From(t, o + 1)) = Len(t) - o
          /\ \A i \in 1..Len(t) - o : From(t, o + 1)[i] = t[o + i]
      BY <3>2, FromPlace
    <3> QED
      BY <2>1, <3>1, <3>3
  <2>3. PICK e \in Nat : e = Len(body)
    BY <1>0
  <2>4. ASSUME NEW i \in 1..Len(x) PROVE body[k + i] = x[i]
    <3>1. PICK j \in 1..Len(t) : j = 2 + i /\ i \in 1..Len(t) - 2
      <4>1. PICK l \in Nat : l = Len(t)
        BY Zenon, LenProperties
      <4>2. i \in 1..l - 2
        BY Zenon, <2>2, <4>1
      <4>3. 2 + i \in 1..l
        BY ONLY <4>2, l \in Nat
      <4> QED
        BY Zenon, <4>1, <4>2, <4>3
    <3>2. m + 2 + j = k + i
      BY <3>1
    <3>3. body[m + 2 + j] = t[j]
      BY <1>a
    <3>4. x[i] = t[j]
      BY <2>2, <3>1
    <3> QED
      BY <3>2, <3>3, <3>4
  <2>5. e = k + Len(x) /\ e <= Len(body)
    BY <1>0, <1>9, <1>a, <2>2, <2>3
  <2>6. SubSeq(body, k + 1, e) = x
    BY <2>2, <2>4, <2>5, Slice
  <2> QED
    BY Zenon, <2>1, <2>3, <2>6 DEF From
<1>10. ASSUME Len(z) >= k PROVE h.is = "Done" /\ h.rest = rest /\ h.value = <<first, second>>
  BY <1>6, <1>10 DEF Done
<1> QED
  BY Zenon, <1>2, <1>5, <1>7, <1>8, <1>9, <1>10

\* The codes of a subscription are read to the last.
LEMMA CodesAreRead ==
  ASSUME NEW codes \in Seq(SubAckReturnCodes), codes # <<>>
  PROVE  sub_ack_return_codes(codes) = Done(codes, <<>>)
<1>1. PICK n \in Nat : n = Len(codes) /\ n >= 1
  <2>1. Len(codes) \in Nat \ {0}
    BY EmptySeq
  <2> QED
    BY <2>1
<1>2. {k \in 1..n : \A i \in 1..k : codes[i] \in SubAckReturnCodes} = 1..n
  <2>1. \A i \in 1..n : codes[i] \in SubAckReturnCodes
    BY <1>1
  <2>2. \A k \in 1..n : \A i \in 1..k : i \in 1..n
    OBVIOUS
  <2> QED
    BY <2>1, <2>2
<1>3. Max(1..n) = n
  <2>1. n \in 1..n /\ \A k \in 1..n : n >= k
    BY <1>1
  <2>2. \A x \in 1..n : (\A k \in 1..n : x >= k) => x = n
    BY <1>1
  <2> QED
    BY <2>1, <2>2 DEF Max
<1>4. SubSeq(codes, 1, n) = codes
  <2>1. PICK o \in Nat : o = 0
    OBVIOUS
  <2>2. n = o + Len(codes) /\ n <= Len(codes) /\ \A i \in 1..Len(codes) : codes[o + i] = codes[i]
    BY <1>1, <2>1
  <2>3. SubSeq(codes, o + 1, n) = codes
    BY <2>2, Slice
  <2>4. o + 1 = 1
    BY <2>1
  <2> QED
    BY <2>3, <2>4
<1>5. 1..n # {}
  BY <1>1
<1> QED
  BY <1>1, <1>2, <1>3, <1>4, <1>5 DEF sub_ack_return_codes

\* What is behind the first of two.
LEMMA BehindFirst ==
  ASSUME NEW S, NEW x \in Seq(S), NEW c \in Seq(S), NEW k \in Nat, k = Len(x)
  PROVE  From(x \o c, k + 1) = c /\ Len(x \o c) = k + Len(c) /\ x \o c \in Seq(S)
<1>1. PICK s : s = x \o c
  OBVIOUS
<1>2. s \in Seq(S) /\ Len(s) = k + Len(c)
  BY <1>1
<1>3. \A i \in 1..Len(c) : s[k + i] = c[i]
  BY <1>1
<1>4. PICK b \in Nat : b = Len(s)
  BY <1>2
<1>5. b = k + Len(c) /\ b <= Len(s)
  BY <1>2, <1>4
<1>6. SubSeq(s, k + 1, b) = c
  BY <1>2, <1>3, <1>5, Slice
<1> QED
  BY <1>1, <1>2, <1>4, <1>6 DEF From

\* Two bytes at the beginning.
LEMMA TwoBytes ==
  ASSUME NEW x \in Seq(Byte), Len(x) = 2, NEW c \in Seq(Byte),
         NEW z \in Seq(Byte), Agree(z, x \o c), Len(z) >= 2
  PROVE  SubSeq(z, 1, 2) = x /\ z[1] = x[1] /\ z[2] = x[2]
<1>1. Agree(z, x)
  BY AgreeBehind
<1>2. SubSeq(z, 1, 2) = x
  <2>1. Len(z) >= Len(x)
    OBVIOUS
  <2>2. SubSeq(z, 1, Len(x)) = x
    BY <1>1, <2>1, AgreeEnds
  <2> QED
    BY <2>2
<1>3. z[1] = x[1] /\ z[2] = x[2]
  BY <1>1 DEF Agree
<1> QED
  BY <1>2, <1>3

\* The headers and the payload of a packet, by its type.
LEMMA Parts ==
  ASSUME NEW p \in ServerPackets, Lawful(p), ~Foreign(p)
  PROVE  /\ p = Packet(p.ty, p.flags, p.headers, p.payload)
         /\ Len(p.headers) = Len(Sizes(p))
         /\ \A i \in 1..Len(p.headers) :
              p.headers[i] \in Seq(Byte) /\ Len(p.headers[i]) = Sizes(p)[i]
         /\ p.ty \notin {PacketType.Publish, PacketType.SubAck} =>
              p.payload = NoPayload /\ Body(p) = FlattenSeq(p.headers)
         /\ p.ty = PacketType.SubAck =>
              /\ p.payload.codes \in Seq(SubAckReturnCodes)
              /\ p.payload.codes \in Seq(Byte)
              /\ p.payload.codes # <<>>
              /\ p.payload = SubAck(p.payload.codes)
              /\ Body(p) = FlattenSeq(p.headers) \o p.payload.codes
         /\ p.ty = PacketType.Publish =>
              /\ p.payload.bytes \in Seq(Byte)
              /\ p.payload = Application(p.payload.bytes)
              /\ Len(p.headers[1]) \in Words
              /\ Body(p) = (U16(Len(p.headers[1])) \o FlattenSeq(p.headers)) \o p.payload.bytes
<1>1. p = Packet(p.ty, p.flags, p.headers, p.payload)
  BY DEF ServerPackets, Packet
<1>2. p.headers \in Seq(Seq(Byte)) /\ FlattenSeq(p.headers) \in Seq(Byte)
  BY BodyBytes
<1>3. /\ Len(p.headers) = Len(Sizes(p))
      /\ \A i \in DOMAIN p.headers : Len(p.headers[i]) = Sizes(p)[i]
      /\ p.payload.is = PayloadKind(p.ty)
      /\ p.payload.is = "SubAck" => p.payload.codes # <<>>
  BY SMT DEF Lawful
<1>4. DOMAIN p.headers = 1..Len(p.headers) /\ \A i \in 1..Len(p.headers) : p.headers[i] \in Seq(Byte)
  BY <1>2
<1>5. \/ p.payload = NoPayload
      \/ p.payload \in [is : {"Application"}, bytes : Seq(Byte)]
      \/ p.payload \in [is : {"SubAck"}, codes : Seq(SubAckReturnCodes)]
  BY DEF ServerPackets
<1>6. /\ p.payload = NoPayload => p.payload.is = "None"
      /\ p.payload \in [is : {"Application"}, bytes : Seq(Byte)] =>
           /\ p.payload.is = "Application" /\ p.payload.bytes \in Seq(Byte)
           /\ p.payload = Application(p.payload.bytes)
      /\ p.payload \in [is : {"SubAck"}, codes : Seq(SubAckReturnCodes)] =>
           /\ p.payload.is = "SubAck" /\ p.payload.codes \in Seq(SubAckReturnCodes)
           /\ p.payload = SubAck(p.payload.codes)
  BY DEF NoPayload, Application, SubAck
<1>7. PacketType.Publish = 3 /\ PacketType.SubAck = 9
  BY DEF PacketType
<1>8. \A s \in Seq(Byte) : <<>> \o s = s /\ s \o <<>> = s
  OBVIOUS
<1>9. ASSUME p.ty \notin {PacketType.Publish, PacketType.SubAck}
      PROVE  p.payload = NoPayload /\ Body(p) = FlattenSeq(p.headers)
  <2>1. p.payload.is = "None"
    <3>1. p.ty \in ServerTypes
      BY Zenon DEF Foreign
    <3>2. PayloadKind(p.ty) = "None"
      BY <1>9, <3>1 DEF PayloadKind, ServerTypes, AckTypes, PacketType
    <3> QED
      BY Zenon, <1>3, <3>2
  <2>2. p.payload = NoPayload
    BY <1>5, <1>6, <2>1
  <2>3. Body(p) = (<<>> \o FlattenSeq(p.headers)) \o <<>>
    BY <1>9, <2>1 DEF Body
  <2> QED
    BY Zenon, <1>2, <1>8, <2>2, <2>3
<1>10. ASSUME p.ty = PacketType.SubAck
       PROVE  /\ p.payload.codes \in Seq(SubAckReturnCodes)
              /\ p.payload.codes \in Seq(Byte)
              /\ p.payload.codes # <<>>
              /\ p.payload = SubAck(p.payload.codes)
              /\ Body(p) = FlattenSeq(p.headers) \o p.payload.codes
  <2>1. p.payload.is = "SubAck"
    BY <1>3, <1>7, <1>10 DEF PayloadKind, PacketType
  <2>2. p.payload.codes \in Seq(SubAckReturnCodes) /\ p.payload = SubAck(p.payload.codes)
    BY <1>5, <1>6, <2>1
  <2>3. SubAckReturnCodes \subseteq Byte
    BY DEF SubAckReturnCodes, Byte
  <2>4. p.payload.codes \in Seq(Byte)
    BY Zenon, <2>2, <2>3, SeqWider
  <2>5. p.ty # PacketType.Publish
    BY <1>7, <1>10
  <2>6. Body(p) = (<<>> \o FlattenSeq(p.headers)) \o p.payload.codes
    BY <2>1, <2>5 DEF Body
  <2> QED
    BY Zenon, <1>2, <1>3, <1>8, <2>1, <2>2, <2>4, <2>6
<1>11. ASSUME p.ty = PacketType.Publish
       PROVE  /\ p.payload.bytes \in Seq(Byte)
              /\ p.payload = Application(p.payload.bytes)
              /\ Len(p.headers[1]) \in Words
              /\ Body(p) = (U16(Len(p.headers[1])) \o FlattenSeq(p.headers)) \o p.payload.bytes
  <2>1. p.payload.is = "Application"
    BY <1>3, <1>7, <1>11 DEF PayloadKind, PacketType
  <2>2. p.payload.bytes \in Seq(Byte) /\ p.payload = Application(p.payload.bytes)
    BY <1>5, <1>6, <2>1
  <2>3. p.headers # <<>> /\ Len(p.headers[1]) < 65536
    BY SMT, <1>11 DEF Lawful
  <2>4. Len(p.headers) \in Nat \ {0}
    BY SMT, <1>2, <2>3, EmptySeq
  <2>5. p.headers[1] \in Seq(Byte)
    BY SMT, <1>4, <2>4
  <2>6. Len(p.headers[1]) \in Nat
    BY SMT, <2>5
  <2>7. Len(p.headers[1]) \in Words
    BY SMT, <2>3, <2>6, WordsBelow
  <2>8. Body(p) = (U16(Len(p.headers[1])) \o FlattenSeq(p.headers)) \o p.payload.bytes
    BY <1>11, <2>1 DEF Body
  <2> QED
    BY Zenon, <2>2, <2>7, <2>8
<1> QED
  BY <1>1, <1>3, <1>4, <1>9, <1>10, <1>11

\* The parts of a result.
LEMMA DoneParts ==
  ASSUME NEW d, NEW v, NEW r, d = Done(v, r)
  PROVE  d.is = "Done" /\ d.value = v /\ d.rest = r
BY DEF Done

\* The k bytes of the headers are waited for and read, and what is behind them
\* in the body is the payload, but in a short message, which ends before them.
HeadersAreRead(p, z, k, h) ==
  /\ h = packet_headers(p.ty, p.flags, z)
  /\ Len(z) < k => h = Incomplete
  /\ Len(z) >= k => h.is = "Done" /\ h.rest = From(z, k + 1)
  /\ Short(p) => Len(Body(p)) < k
  /\ ~Short(p) =>
       /\ k <= Len(Body(p))
       /\ Len(z) >= k => h.value = Told(p).headers
       /\ \E rest : packet_payload(p.ty, From(Body(p), k + 1)) = Done(Told(p).payload, rest)

\* A CONNACK.
LEMMA ConnAckIsRead ==
  ASSUME NEW p \in ServerPackets, Lawful(p), p.ty = PacketType.ConnAck,
         NEW z \in Seq(Byte), Agree(z, Body(p)),
         NEW h, h = packet_headers(p.ty, p.flags, z)
  PROVE  HeadersAreRead(p, z, 2, h)
<1>0. ~Foreign(p) /\ ~Short(p) /\ Told(p) = p
      /\ p.ty \notin {PacketType.Publish, PacketType.SubAck}
  BY DEF Foreign, ServerTypes, Short, IsQoS0, Told, PacketType
<1>1. Sizes(p) = <<1, 1>>
  BY DEF Sizes, PacketType
<1>2. Len(p.headers) = 2 /\ p.headers \in Seq(Seq(Byte))
  BY <1>0, <1>1, Parts, BodyBytes
<1>3. PICK x \in Seq(Byte), y \in Seq(Byte) :
        x = p.headers[1] /\ y = p.headers[2] /\ Len(x) = 1 /\ Len(y) = 1
  <2>1. /\ 1 \in 1..Len(p.headers) /\ 2 \in 1..Len(p.headers)
        /\ Sizes(p)[1] = 1 /\ Sizes(p)[2] = 1
    BY <1>1, <1>2
  <2>2. \A i \in 1..Len(p.headers) : p.headers[i] \in Seq(Byte) /\ Len(p.headers[i]) = Sizes(p)[i]
    BY Zenon, <1>0, Parts
  <2> QED
    BY Zenon, <2>1, <2>2
<1>4. p.headers = <<x, y>>
  BY <1>2, <1>3
<1>5. Body(p) = x \o y
  BY <1>0, <1>2, <1>3, Parts, FlattenFew
<1>6. PICK b \in Seq(Byte) : b = x \o y /\ Len(b) = 2 /\ b[1] = x[1] /\ b[2] = y[1]
  <2>1. PICK b : b = x \o y
    OBVIOUS
  <2>2. b \in Seq(Byte) /\ Len(b) = Len(x) + Len(y)
    BY <2>1
  <2>3. \A i \in 1..Len(x) : b[i] = x[i]
    BY <2>1
  <2>4. \A i \in 1..Len(y) : b[Len(x) + i] = y[i]
    BY <2>1
  <2>5. Len(b) = 2 /\ b[1] = x[1]
    BY <1>3, <2>2, <2>3
  <2>6. b[2] = y[1]
    <3>1. 1 \in 1..1 /\ 1 + 1 = 2
      OBVIOUS
    <3> QED
      BY <1>3, <2>4, <3>1
  <2> QED
    BY Zenon, <2>1, <2>2, <2>5, <2>6
<1>7. ASSUME Len(z) >= 2 PROVE <<<<z[1]>>, <<z[2]>>>> = p.headers
  <2>1. z[1] = x[1] /\ z[2] = y[1]
    BY <1>5, <1>6, <1>7 DEF Agree
  <2>2. x = <<x[1]>> /\ y = <<y[1]>>
    BY <1>3
  <2> QED
    BY Zenon, <1>4, <2>1, <2>2
<1>8. /\ Len(z) < 2 => h = Incomplete
      /\ Len(z) >= 2 => h = Done(<<<<z[1]>>, <<z[2]>>>>, From(z, 2 + 1))
  <2>1. Len(z) \in Nat /\ 2 + 1 = 3
    OBVIOUS
  <2>2. h = IF Len(z) < 2 THEN Incomplete ELSE Done(<<<<z[1]>>, <<z[2]>>>>, From(z, 3))
    BY DEF packet_headers, PacketType, AckTypes
  <2>3. Len(z) >= 2 => ~(Len(z) < 2)
    BY <2>1
  <2> QED
    BY Zenon, <2>1, <2>2, <2>3
<1>9. packet_payload(p.ty, From(Body(p), 2 + 1)) = Done(Told(p).payload, From(Body(p), 2 + 1))
  <2>1. p.payload = NoPayload
    BY <1>0, Parts
  <2> QED
    BY <1>0, <2>1 DEF packet_payload
<1>10. Len(Body(p)) = 2
  BY <1>5, <1>6
<1>11. ASSUME Len(z) >= 2
       PROVE  h.is = "Done" /\ h.rest = From(z, 2 + 1) /\ h.value = p.headers
  <2>1. h = Done(p.headers, From(z, 2 + 1))
    BY Zenon, <1>7, <1>8, <1>11
  <2> QED
    BY ONLY <2>1, DoneParts
<1>12. 2 <= Len(Body(p))
  BY <1>10
<1> QED
  BY Zenon, <1>0, <1>8, <1>9, <1>11, <1>12 DEF HeadersAreRead

\* A packet with no header but an identifier.
LEMMA AckIsRead ==
  ASSUME NEW p \in ServerPackets, Lawful(p),
         p.ty \in AckTypes \cup {PacketType.SubAck, PacketType.UnsubAck},
         NEW z \in Seq(Byte), Agree(z, Body(p)),
         NEW h, h = packet_headers(p.ty, p.flags, z)
  PROVE  HeadersAreRead(p, z, 2, h)
<1>a. p.ty # PacketType.Publish /\ p.ty # PacketType.ConnAck /\ p.ty # PacketType.PingResp
  BY DEF PacketType, AckTypes
<1>b. ~Foreign(p)
  BY DEF Foreign, ServerTypes
<1>c. ~Short(p) /\ Told(p) = p
  BY <1>a DEF Short, IsQoS0, Told
<1>0. /\ ~Foreign(p) /\ ~Short(p) /\ Told(p) = p
      /\ p.ty # PacketType.Publish /\ p.ty # PacketType.ConnAck /\ p.ty # PacketType.PingResp
  BY <1>a, <1>b, <1>c
<1>1. Sizes(p) = <<2>>
  BY <1>0 DEF Sizes
<1>2. Len(p.headers) = 1 /\ p.headers \in Seq(Seq(Byte))
  BY <1>0, <1>1, Parts, BodyBytes
<1>3. PICK x \in Seq(Byte) : x = p.headers[1] /\ Len(x) = 2
  <2>1. 1 \in 1..Len(p.headers) /\ Sizes(p)[1] = 2
    BY <1>1, <1>2
  <2>2. \A i \in 1..Len(p.headers) : p.headers[i] \in Seq(Byte) /\ Len(p.headers[i]) = Sizes(p)[i]
    BY Zenon, <1>0, Parts
  <2> QED
    BY Zenon, <2>1, <2>2
<1>4. p.headers = <<x>> /\ FlattenSeq(p.headers) = x
  <2>1. p.headers = <<x>>
    BY <1>2, <1>3
  <2>2. FlattenSeq(p.headers) = p.headers[1]
    BY <1>2, FlattenFew
  <2> QED
    BY <1>3, <2>1, <2>2
<1>5. PICK c \in Seq(Byte) :
        /\ Body(p) = x \o c
        /\ \E rest : packet_payload(p.ty, c) = Done(Told(p).payload, rest)
  <2>1. CASE p.ty = PacketType.SubAck
    <3>1. PICK codes : codes = p.payload.codes
      OBVIOUS
    <3>2. /\ codes \in Seq(SubAckReturnCodes) /\ codes \in Seq(Byte) /\ codes # <<>>
          /\ p.payload = SubAck(codes) /\ Body(p) = x \o codes
      BY <1>0, <1>4, <2>1, <3>1, Parts
    <3>3. sub_ack_return_codes(codes) = Done(codes, <<>>)
      BY <3>2, CodesAreRead
    <3>4. packet_payload(p.ty, codes) = Done(Told(p).payload, <<>>)
      BY <1>0, <2>1, <3>2, <3>3 DEF packet_payload, Done, Error
    <3> QED
      BY Zenon, <3>2, <3>4
  <2>2. CASE p.ty # PacketType.SubAck
    <3>1. p.payload = NoPayload /\ Body(p) = x
      BY <1>0, <1>4, <2>2, Parts
    <3>2. packet_payload(p.ty, <<>>) = Done(Told(p).payload, <<>>)
      BY <1>0, <2>2, <3>1 DEF packet_payload
    <3>3. x = x \o <<>> /\ <<>> \in Seq(Byte)
      OBVIOUS
    <3> QED
      BY Zenon, <3>1, <3>2, <3>3
  <2> QED
    BY <2>1, <2>2
<1>6. From(Body(p), 2 + 1) = c /\ Len(Body(p)) = 2 + Len(c)
  <2>1. PICK k \in Nat : k = 2
    OBVIOUS
  <2>a. k = Len(x)
    BY <1>3, <2>1
  <2>2. From(x \o c, k + 1) = c /\ Len(x \o c) = k + Len(c)
    BY <2>a, BehindFirst
  <2> QED
    BY Zenon, <1>5, <2>1, <2>2
<1>7. ASSUME Len(z) >= 2 PROVE <<SubSeq(z, 1, 2)>> = p.headers
  <2>1. SubSeq(z, 1, 2) = x
    BY <1>3, <1>5, <1>7, TwoBytes
  <2> QED
    BY Zenon, <1>4, <2>1
<1>8. /\ Len(z) < 2 => h = Incomplete
      /\ Len(z) >= 2 => h = Done(<<SubSeq(z, 1, 2)>>, From(z, 2 + 1))
  <2>1. Len(z) \in Nat /\ 2 + 1 = 3
    OBVIOUS
  <2>2. h = IF Len(z) < 2 THEN Incomplete ELSE Done(<<SubSeq(z, 1, 2)>>, From(z, 3))
    BY <1>0 DEF packet_headers
  <2>3. Len(z) >= 2 => ~(Len(z) < 2)
    BY <2>1
  <2> QED
    BY Zenon, <2>1, <2>2, <2>3
<1>9. ASSUME Len(z) >= 2
      PROVE  h.is = "Done" /\ h.rest = From(z, 2 + 1) /\ h.value = p.headers
  <2>1. h = Done(p.headers, From(z, 2 + 1))
    BY Zenon, <1>7, <1>8, <1>9
  <2> QED
    BY ONLY <2>1, DoneParts
<1>10. 2 <= Len(Body(p))
  BY <1>6
<1> QED
  BY Zenon, <1>0, <1>5, <1>6, <1>8, <1>9, <1>10 DEF HeadersAreRead

\* The answer to a ping.
LEMMA PingRespIsRead ==
  ASSUME NEW p \in ServerPackets, Lawful(p), p.ty = PacketType.PingResp,
         NEW z \in Seq(Byte), NEW h, h = packet_headers(p.ty, p.flags, z)
  PROVE  HeadersAreRead(p, z, 0, h)
<1>0. /\ ~Foreign(p) /\ ~Short(p) /\ Told(p) = p
      /\ p.ty \notin {PacketType.Publish, PacketType.SubAck}
      /\ p.ty # PacketType.ConnAck /\ p.ty \notin AckTypes /\ p.ty # PacketType.UnsubAck
  BY DEF Foreign, ServerTypes, Short, IsQoS0, Told, PacketType, AckTypes
<1>1. Sizes(p) = <<>>
  BY <1>0 DEF Sizes
<1>2. p.headers = <<>> /\ Body(p) = <<>> /\ p.payload = NoPayload
  <2>1. Len(p.headers) = 0 /\ p.headers \in Seq(Seq(Byte))
    BY <1>0, <1>1, Parts, BodyBytes
  <2>2. FlattenSeq(p.headers) = <<>>
    BY <2>1, FlattenFew
  <2>3. p.headers = <<>>
    BY <2>1
  <2> QED
    BY <1>0, <2>2, <2>3, Parts
<1>3. h = Done(<<>>, z)
  BY <1>0 DEF packet_headers
<1>4. From(z, 0 + 1) = z
  <2>1. PICK o \in Nat : o = 0
    OBVIOUS
  <2>2. \A i \in 1..Len(z) : z[o + i] = z[i]
    BY <2>1
  <2>3. PICK n \in Nat : n = Len(z)
    OBVIOUS
  <2>4. n = o + Len(z) /\ n <= Len(z)
    BY <2>1, <2>3
  <2>5. SubSeq(z, o + 1, n) = z
    BY <2>2, <2>4, Slice
  <2> QED
    BY Zenon, <2>1, <2>3, <2>5 DEF From
<1>5. packet_payload(p.ty, From(Body(p), 0 + 1)) = Done(Told(p).payload, From(Body(p), 0 + 1))
  BY <1>0, <1>2 DEF packet_payload
<1>6. h.is = "Done" /\ h.rest = z /\ h.value = p.headers
  <2>1. h = Done(p.headers, z)
    BY Zenon, <1>2, <1>3
  <2> QED
    BY ONLY <2>1, DoneParts
<1>7. ~(Len(z) < 0) /\ 0 <= Len(Body(p))
  BY <1>2
<1> QED
  BY Zenon, <1>0, <1>4, <1>5, <1>6, <1>7 DEF HeadersAreRead

\* One more after the first.
LEMMA AppendTwo ==
  ASSUME NEW x, NEW y
  PROVE  Append(<<x>>, y) = <<x, y>>
<1> DEFINE S == {x, y}
<1>1. x \in S /\ y \in S
  OBVIOUS
<1> HIDE DEF S
<1>2. PICK r : r = <<x>>
  OBVIOUS
<1>3. r \in Seq(S) /\ Len(r) = 1 /\ r[1] = x
  BY <1>1, <1>2
<1>4. PICK s : s = Append(r, y)
  OBVIOUS
<1>5. s \in Seq(S) /\ Len(s) = 2 /\ s[1] = x /\ s[2] = y
  <2>1. s \in Seq(S) /\ Len(s) = Len(r) + 1 /\ s[Len(r) + 1] = y /\ \A i \in 1..Len(r) : s[i] = r[i]
    <3>1. /\ Append(r, y) \in Seq(S) /\ Len(Append(r, y)) = Len(r) + 1
          /\ Append(r, y)[Len(r) + 1] = y /\ \A i \in 1..Len(r) : Append(r, y)[i] = r[i]
      <4>1. r \in Seq(S)
        BY <1>3
      <4> QED
        BY <1>1, <4>1, AppendProperties
    <3> QED
      BY Zenon, <1>4, <3>1
  <2>2. 1 + 1 = 2 /\ 1 \in 1..1
    OBVIOUS
  <2> QED
    BY <1>3, <2>1, <2>2
<1>6. PICK t : t = <<x, y>>
  OBVIOUS
<1>7. t \in Seq(S) /\ Len(t) = 2 /\ t[1] = x /\ t[2] = y
  BY <1>1, <1>6
<1>8. ASSUME NEW i \in 1..Len(s) PROVE s[i] = t[i]
  <2>1. i = 1 \/ i = 2
    BY <1>5
  <2> QED
    BY <1>5, <1>7, <2>1
<1>9. s = t
  BY <1>5, <1>7, <1>8, SeqEqual
<1> QED
  BY <1>2, <1>4, <1>6, <1>9

\* The body of a publish begins with its name, whose identifier is part of what
\* is behind it.
LEMMA BodyIsNamed ==
  ASSUME NEW name \in Seq(Byte), Len(name) \in Words, NEW id \in Seq(Byte), NEW c \in Seq(Byte)
  PROVE  Named((U16(Len(name)) \o (name \o id)) \o c, name, id \o c)
<1>1. PICK u \in Seq(Byte) : u = U16(Len(name)) /\ Len(u) = 2
  <2>1. U16(Len(name)) \in Seq(Byte) /\ Len(U16(Len(name))) = 2
    BY U16IsRead
  <2> QED
    BY Zenon, <2>1
<1>2. PICK v \in Seq(Byte) : /\ v = name \o id /\ Len(v) = Len(name) + Len(id)
                             /\ \A i \in 1..Len(name) : v[i] = name[i]
                             /\ \A i \in 1..Len(id) : v[Len(name) + i] = id[i]
  <2>1. PICK v : v = name \o id
    OBVIOUS
  <2>2. v \in Seq(Byte) /\ Len(v) = Len(name) + Len(id)
    BY <2>1
  <2>3. \A i \in 1..Len(name) : v[i] = name[i]
    BY <2>1
  <2>4. \A i \in 1..Len(id) : v[Len(name) + i] = id[i]
    BY <2>1
  <2> QED
    BY Zenon, <2>1, <2>2, <2>3, <2>4
<1>3. PICK w \in Seq(Byte) : /\ w = u \o v /\ Len(w) = 2 + Len(v)
                             /\ \A i \in 1..2 : w[i] = u[i]
                             /\ \A i \in 1..Len(v) : w[Len(u) + i] = v[i]
  <2>1. PICK w : w = u \o v
    OBVIOUS
  <2>2. w \in Seq(Byte) /\ Len(w) = Len(u) + Len(v)
    BY <2>1
  <2>3. \A i \in 1..Len(u) : w[i] = u[i]
    BY <2>1
  <2>4. \A i \in 1..Len(v) : w[Len(u) + i] = v[i]
    BY <2>1
  <2>5. Len(w) = 2 + Len(v) /\ (\A i \in 1..2 : w[i] = u[i])
    BY <1>1, <2>2, <2>3
  <2> QED
    BY Zenon, <2>1, <2>2, <2>4, <2>5
<1>4. PICK b \in Seq(Byte) : /\ b = w \o c /\ Len(b) = Len(w) + Len(c)
                             /\ \A i \in 1..Len(w) : b[i] = w[i]
                             /\ \A i \in 1..Len(c) : b[Len(w) + i] = c[i]
  <2>1. PICK b : b = w \o c
    OBVIOUS
  <2>2. b \in Seq(Byte) /\ Len(b) = Len(w) + Len(c)
    BY <2>1
  <2>3. \A i \in 1..Len(w) : b[i] = w[i]
    BY <2>1
  <2>4. \A i \in 1..Len(c) : b[Len(w) + i] = c[i]
    BY <2>1
  <2> QED
    BY Zenon, <2>1, <2>2, <2>3, <2>4
<1>5. PICK t \in Seq(Byte) : /\ t = id \o c /\ Len(t) = Len(id) + Len(c)
                             /\ \A i \in 1..Len(id) : t[i] = id[i]
                             /\ \A i \in 1..Len(c) : t[Len(id) + i] = c[i]
  <2>1. PICK t : t = id \o c
    OBVIOUS
  <2>2. t \in Seq(Byte) /\ Len(t) = Len(id) + Len(c)
    BY <2>1
  <2>3. \A i \in 1..Len(id) : t[i] = id[i]
    BY <2>1
  <2>4. \A i \in 1..Len(c) : t[Len(id) + i] = c[i]
    BY <2>1
  <2> QED
    BY Zenon, <2>1, <2>2, <2>3, <2>4
<1>6. PICK m \in Nat, k \in Nat, n \in Nat : m = Len(name) /\ k = Len(id) /\ n = Len(c)
  OBVIOUS
<1>7. Len(b) = m + 2 + Len(t)
  BY <1>2, <1>3, <1>4, <1>5, <1>6
<1>8. ASSUME NEW i \in 1..2 PROVE b[i] = u[i]
  <2>1. i \in 1..Len(w)
    BY <1>3
  <2> QED
    BY <1>3, <1>4, <2>1
<1>9. ASSUME NEW i \in 1..m PROVE b[2 + i] = name[i]
  <2>1. PICK l : l = 2 + i
    OBVIOUS
  <2>2. l \in 1..Len(w) /\ i \in 1..Len(v) /\ i \in 1..Len(name)
    BY <1>2, <1>3, <1>6, <2>1
  <2>3. b[l] = w[l]
    BY <1>4, <2>2
  <2>4. w[2 + i] = v[i]
    <3>1. w[Len(u) + i] = v[i]
      BY <1>3, <2>2
    <3> QED
      BY Zenon, <1>1, <3>1
  <2>5. v[i] = name[i]
    BY <1>2, <2>2
  <2> QED
    BY Zenon, <2>1, <2>3, <2>4, <2>5
<1>10. ASSUME NEW i \in 1..Len(t) PROVE b[m + 2 + i] = t[i]
  <2>1. CASE i <= k
    <3>1. PICK j \in Nat : j = m + i
      OBVIOUS
    <3>2. PICK l \in Nat : l = 2 + j
      OBVIOUS
    <3>a. i \in 1..k
      BY <2>1
    <3>b. j \in 1..m + k
      BY <3>1, <3>a
    <3>c. l \in 1..2 + (m + k)
      BY <3>2, <3>b
    <3>d. m + 2 + i = l
      BY <3>1, <3>2
    <3>3. i \in 1..k /\ j \in 1..m + k /\ l \in 1..2 + (m + k) /\ m + 2 + i = l
      BY Zenon, <3>a, <3>b, <3>c, <3>d
    <3>4. i \in 1..Len(id) /\ j \in 1..Len(v) /\ l \in 1..Len(w)
      BY <1>2, <1>3, <1>6, <3>3
    <3>e. t[i] = id[i]
      BY <1>5, <3>4
    <3>f. v[Len(name) + i] = id[i]
      BY <1>2, <3>4
    <3>g. w[2 + j] = v[j]
      <4>1. w[Len(u) + j] = v[j]
        BY <1>3, <3>4
      <4> QED
        BY Zenon, <1>1, <4>1
    <3>h. b[l] = w[l]
      BY <1>4, <3>4
    <3>5. t[i] = id[i] /\ v[Len(name) + i] = id[i] /\ w[2 + j] = v[j] /\ b[l] = w[l]
      BY Zenon, <3>e, <3>f, <3>g, <3>h
    <3> QED
      BY Zenon, <1>6, <3>1, <3>2, <3>3, <3>5
  <2>2. CASE ~(i <= k)
    <3>1. PICK j : j = i - k
      OBVIOUS
    <3>2. /\ j \in 1..Len(c) /\ i = Len(id) + j
          /\ m + 2 + i = Len(w) + j
      BY <1>2, <1>3, <1>5, <1>6, <2>2, <3>1
    <3>3. t[Len(id) + j] = c[j] /\ b[Len(w) + j] = c[j]
      BY <1>4, <1>5, <3>2
    <3> QED
      BY <3>2, <3>3
  <2> QED
    BY Zenon, <2>1, <2>2
<1>11. Named(b, name, t)
  BY <1>1, <1>6, <1>7, <1>8, <1>9, <1>10 DEF Named
<1> QED
  BY Zenon, <1>1, <1>2, <1>3, <1>4, <1>5, <1>11

\* A publish: of QoS 0 it is told with the first bytes of its message for an
\* identifier, and a message too short for that is never told.
LEMMA MessageIsRead ==
  ASSUME NEW p \in ServerPackets, Lawful(p), p.ty = PacketType.Publish,
         NEW z \in Seq(Byte), Agree(z, Body(p)),
         NEW h, h = packet_headers(p.ty, p.flags, z)
  PROVE  \E k \in Nat : HeadersAreRead(p, z, k, h)
<1>0. ~Foreign(p)
  BY DEF Foreign, ServerTypes
<1>1. PICK c \in Seq(Byte) :
        /\ c = p.payload.bytes
        /\ p.payload = Application(c)
        /\ Len(p.headers[1]) \in Words
        /\ Body(p) = (U16(Len(p.headers[1])) \o FlattenSeq(p.headers)) \o c
  BY <1>0, Parts
<1>2. /\ Len(p.headers) = Len(Sizes(p)) /\ p.headers \in Seq(Seq(Byte))
      /\ p = Packet(p.ty, p.flags, p.headers, p.payload)
      /\ \A i \in 1..Len(p.headers) :
           p.headers[i] \in Seq(Byte) /\ Len(p.headers[i]) = Sizes(p)[i]
  BY Zenon, <1>0, Parts, BodyBytes
<1>3. PICK name : name = p.headers[1]
  OBVIOUS
<1>4. \E id \in Seq(Byte) :
        /\ name \in Seq(Byte)
        /\ FlattenSeq(p.headers) = name \o id
        /\ ~IsQoS0(p) => Len(id) = 2 /\ p.headers = <<name, id>>
        /\ IsQoS0(p) => id = <<>> /\ p.headers = <<name>>
  <2>1. CASE IsQoS0(p)
    <3>1. Sizes(p) = <<Len(p.headers[1])>>
      BY <2>1 DEF Sizes, PacketType
    <3>2. Len(p.headers) = 1
      BY <1>2, <3>1
    <3>a. FlattenSeq(p.headers) = name
      BY <1>2, <1>3, <3>2, FlattenFew
    <3>b. name \in Seq(Byte)
      BY <1>2, <1>3, <3>2
    <3>c. p.headers = <<name>>
      BY <1>2, <1>3, <3>2
    <3>3. name \in Seq(Byte) /\ FlattenSeq(p.headers) = name /\ p.headers = <<name>>
      BY Zenon, <3>a, <3>b, <3>c
    <3>4. name = name \o <<>> /\ <<>> \in Seq(Byte)
      BY <3>3
    <3> QED
      BY Zenon, <2>1, <3>3, <3>4
  <2>2. CASE ~IsQoS0(p)
    <3>1. Sizes(p) = <<Len(p.headers[1]), 2>>
      BY <2>2 DEF Sizes, PacketType
    <3>2. Len(p.headers) = 2 /\ Sizes(p)[2] = 2
      BY <1>2, <3>1
    <3>3. 1 \in 1..Len(p.headers) /\ 2 \in 1..Len(p.headers)
      BY <3>2
    <3>4. PICK id : id = p.headers[2]
      OBVIOUS
    <3>5. name \in Seq(Byte) /\ id \in Seq(Byte) /\ Len(id) = 2
      BY <1>2, <1>3, <3>2, <3>3, <3>4
    <3>6. p.headers = <<name, id>>
      BY <1>2, <1>3, <3>2, <3>4
    <3>7. FlattenSeq(p.headers) = name \o id
      BY <1>2, <1>3, <3>2, <3>4, FlattenFew
    <3> QED
      BY Zenon, <2>2, <3>5, <3>6, <3>7
  <2> QED
    BY Zenon, <2>1, <2>2
<1>5. PICK id \in Seq(Byte) :
        /\ name \in Seq(Byte)
        /\ FlattenSeq(p.headers) = name \o id
        /\ ~IsQoS0(p) => Len(id) = 2 /\ p.headers = <<name, id>>
        /\ IsQoS0(p) => id = <<>> /\ p.headers = <<name>>
  BY Zenon, <1>4
<1>6. PICK t : t = id \o c
  OBVIOUS
<1>7. t \in Seq(Byte) /\ Len(t) = Len(id) + Len(c)
  BY <1>6
<1>8. Body(p) \in Seq(Byte) /\ Named(Body(p), name, t)
  <2>1. Named((U16(Len(name)) \o (name \o id)) \o c, name, id \o c)
    BY <1>1, <1>3, <1>5, BodyIsNamed
  <2> QED
    BY Zenon, <1>1, <1>3, <1>5, <1>6, <2>1, BodyBytes
<1>9. AreHeaders(h, z)
  BY DEF AreHeaders, packet_headers, qos12, PacketType, AckTypes
<1>10. PICK m \in Nat : m = Len(name)
  BY <1>5
<1>11. PICK k \in Nat : k = m + 4
  OBVIOUS
<1>12. /\ Len(z) < k => h = Incomplete
       /\ Len(z) >= k => h.is = "Done" /\ h.rest = From(z, k + 1)
       /\ Len(z) >= k /\ Len(t) >= 2 => h.value = <<name, SubSeq(t, 1, 2)>>
       /\ Len(t) >= 2 => From(Body(p), k + 1) = From(t, 2 + 1)
  <2>1. m \in Words
    BY <1>1, <1>3, <1>10
  <2> QED
    BY <1>5, <1>7, <1>8, <1>9, <1>10, <1>11, <2>1, PublishIsRead
<1>13. Len(Body(p)) = m + 2 + Len(t)
  BY <1>8, <1>10 DEF Named
<1>14. Short(p) <=> Len(t) < 2
  <2>1. CASE IsQoS0(p)
    <3>1. t = c
      BY <1>5, <1>6, <2>1
    <3> QED
      BY <1>1, <2>1, <3>1 DEF Short
  <2>2. CASE ~IsQoS0(p)
    <3>1. Len(id) = 2 /\ Len(c) \in Nat
      BY <1>5, <2>2
    <3>2. ~(Len(t) < 2)
      BY <1>7, <3>1
    <3> QED
      BY <2>2, <3>2 DEF Short
  <2> QED
    BY Zenon, <2>1, <2>2
<1>15. ASSUME ~Short(p)
       PROVE  Told(p).headers = <<name, SubSeq(t, 1, 2)>>
              /\ Told(p).payload = Application(From(t, 2 + 1))
  <2>1. CASE IsQoS0(p)
    <3>1. t = c
      BY <1>5, <1>6, <2>1
    <3>2. PICK x : x = SubSeq(c, 1, 2)
      OBVIOUS
    <3>3. Append(<<name>>, x) = <<name, x>>
      BY AppendTwo
    <3>4. Append(p.headers, SubSeq(c, 1, 2)) = <<name, SubSeq(t, 1, 2)>>
      BY Zenon, <1>5, <2>1, <3>1, <3>2, <3>3
    <3>5. 2 + 1 = 3
      OBVIOUS
    <3>6. Told(p) = Packet(p.ty, p.flags, Append(p.headers, SubSeq(c, 1, 2)),
                           Application(From(c, 3)))
      BY Zenon, <1>1, <2>1 DEF Told
    <3> QED
      BY <3>1, <3>4, <3>5, <3>6 DEF Packet
  <2>2. CASE ~IsQoS0(p)
    <3>1. Len(id) = 2 /\ p.headers = <<name, id>>
      BY <1>5, <2>2
    <3>2. SubSeq(t, 1, 2) = id
      <4>1. Agree(t, t) /\ Len(t) >= 2
        BY <1>7, <3>1 DEF Agree
      <4> QED
        BY <1>6, <1>7, <3>1, <4>1, TwoBytes
    <3>3. From(t, 2 + 1) = c
      <4>1. PICK o \in Nat : o = 2
        OBVIOUS
      <4>2. o = Len(id)
        BY <3>1, <4>1
      <4>3. From(id \o c, o + 1) = c
        BY <4>2, BehindFirst
      <4> QED
        BY Zenon, <1>6, <4>1, <4>3
    <3> QED
      BY Zenon, <1>1, <2>2, <3>1, <3>2, <3>3 DEF Told
  <2> QED
    BY Zenon, <2>1, <2>2
<1>16. packet_payload(p.ty, From(Body(p), k + 1)) = Done(Application(From(Body(p), k + 1)), <<>>)
  BY DEF packet_payload, PacketType
<1>17. Short(p) => Len(Body(p)) < k
  BY <1>7, <1>11, <1>13, <1>14
<1>18. ~Short(p) => k <= Len(Body(p)) /\ Len(t) >= 2
  BY <1>7, <1>11, <1>13, <1>14
<1> QED
  BY Zenon, <1>12, <1>15, <1>16, <1>17, <1>18 DEF HeadersAreRead

\* A packet whose headers end at k and whose payload has the length l is there.
Reaches(k, l, z, t) == Len(t) = k + l /\ Len(t) <= Len(z)

\* What is behind the headers, up to the end of the packet.
LEMMA RestOfBody ==
  ASSUME NEW z \in Seq(Byte), NEW t \in Seq(Byte), Agree(z, t),
         NEW k \in Nat, NEW l \in Nat, Reaches(k, l, z, t)
  PROVE  SubSeq(From(z, k + 1), 1, l) = From(t, k + 1)
<1>1. PICK c : c = From(z, k + 1)
  OBVIOUS
<1>2. PICK d : d = From(t, k + 1)
  OBVIOUS
<1>3. /\ k <= Len(z) /\ k <= Len(t) /\ Len(z) \in Nat /\ Len(t) - k = l
      /\ Len(t) = k + l /\ Len(t) <= Len(z)
  BY DEF Reaches
<1>4. c \in Seq(Byte) /\ Len(c) = Len(z) - k /\ \A i \in 1..Len(z) - k : c[i] = z[k + i]
  <2>1. k <= Len(z)
    BY <1>3
  <2> QED
    BY <1>1, <2>1, FromPlace
<1>5. d \in Seq(Byte) /\ Len(d) = l /\ \A i \in 1..l : d[i] = t[k + i]
  <2>1. d \in Seq(Byte) /\ Len(d) = Len(t) - k /\ \A i \in 1..Len(t) - k : d[i] = t[k + i]
    BY Zenon, <1>2, <1>3, FromPlace
  <2> QED
    BY Zenon, <1>3, <2>1
<1>6. ASSUME NEW i \in 1..Len(d) PROVE c[0 + i] = d[i]
  <2>1. PICK j : j = k + i
    OBVIOUS
  <2>6. i \in 1..l /\ 0 + i = i
    BY <1>5
  <2>2. i \in 1..Len(z) - k /\ i \in 1..l /\ j \in 1..Len(t) /\ j <= Len(z) /\ 0 + i = i
    BY <1>3, <2>6, <2>1
  <2>3. c[i] = z[k + i]
    BY <1>4, <2>2
  <2>4. d[i] = t[k + i]
    BY <1>5, <2>2
  <2>5. z[j] = t[j]
    BY Zenon, <2>2 DEF Agree
  <2> QED
    BY Zenon, <2>1, <2>2, <2>3, <2>4, <2>5
<1>7. l = 0 + Len(d) /\ l <= Len(c)
  BY <1>3, <1>4, <1>5
<1>8. PICK o \in Nat : o = 0
  OBVIOUS
<1>9. SubSeq(c, o + 1, l) = d
  <2>1. \A i \in 1..Len(d) : c[o + i] = d[i]
    BY Zenon, <1>6, <1>8
  <2>2. l = o + Len(d)
    BY Zenon, <1>7, <1>8
  <2> QED
    BY <1>4, <1>5, <1>7, <2>1, <2>2, Slice
<1> QED
  BY <1>1, <1>2, <1>8, <1>9

\* The headers of every packet a server sends are read, by the type.
LEMMA HeadersRead ==
  ASSUME NEW p \in ServerPackets, Lawful(p), ~Foreign(p),
         NEW z \in Seq(Byte), Agree(z, Body(p)),
         NEW h, h = packet_headers(p.ty, p.flags, z)
  PROVE  \E k \in Nat : HeadersAreRead(p, z, k, h)
<1>1. p.ty \in {PacketType.ConnAck, PacketType.Publish, PacketType.SubAck,
                PacketType.UnsubAck, PacketType.PingResp} \cup AckTypes
  BY DEF Foreign, ServerTypes
<1>2. CASE p.ty = PacketType.ConnAck
  <2>1. HeadersAreRead(p, z, 2, h)
    BY Zenon, <1>2, ConnAckIsRead
  <2> QED
    BY <2>1
<1>3. CASE p.ty = PacketType.Publish
  BY Zenon, <1>3, MessageIsRead
<1>4. CASE p.ty \in AckTypes \cup {PacketType.SubAck, PacketType.UnsubAck}
  <2>1. HeadersAreRead(p, z, 2, h)
    BY Zenon, <1>4, AckIsRead
  <2> QED
    BY <2>1
<1>5. CASE p.ty = PacketType.PingResp
  <2>1. HeadersAreRead(p, z, 0, h)
    BY Zenon, <1>5, PingRespIsRead
  <2> QED
    BY <2>1
<1> QED
  BY Zenon, <1>1, <1>2, <1>3, <1>4, <1>5

\* A packet is told by its parts.
LEMMA ToldParts ==
  ASSUME NEW p \in ServerPackets, Lawful(p), ~Foreign(p)
  PROVE  Told(p) = Packet(p.ty, p.flags, Told(p).headers, Told(p).payload)
<1>1. CASE IsQoS0(p)
  <2>1. PICK x, y : Told(p) = Packet(p.ty, p.flags, x, y)
    BY <1>1 DEF Told
  <2>2. Told(p).headers = x /\ Told(p).payload = y
    BY <2>1 DEF Packet
  <2> QED
    BY Zenon, <2>1, <2>2
<1>2. CASE ~IsQoS0(p)
  <2>1. Told(p) = p
    BY <1>2 DEF Told
  <2>2. p = Packet(p.ty, p.flags, p.headers, p.payload)
    BY Zenon, Parts
  <2> QED
    BY Zenon, <2>1, <2>2
<1> QED
  BY Zenon, <1>1, <1>2

\* r is what comes of the headers h, behind a length n that is right.
IsRest(p, n, z, h, r) ==
  /\ n = Len(Body(p))
  /\ h = packet_headers(p.ty, p.flags, z)
  /\ r = IF h.is # "Done" THEN h ELSE WithPayload(p.ty, p.flags, n, z, h)

\* Behind the length: what is there of a packet is incomplete, a message too
\* short for an identifier is never complete, and all else is told to its end.
LEMMA RestIsRead ==
  ASSUME NEW p \in ServerPackets, Lawful(p), ~Foreign(p),
         NEW z \in Seq(Byte), Agree(z, Body(p)), NEW n \in Nat, NEW h, NEW r,
         IsRest(p, n, z, h, r)
  PROVE  /\ Short(p) => r.is \in {"Incomplete", "Underflow"}
         /\ ~Short(p) /\ Len(z) < n => r = Incomplete
         /\ ~Short(p) /\ Len(z) >= n => r = Done(Told(p), From(z, n + 1))
<1>6. n = Len(Body(p)) /\ h = packet_headers(p.ty, p.flags, z)
  BY DEF IsRest
<1>7. r = IF h.is # "Done" THEN h ELSE WithPayload(p.ty, p.flags, n, z, h)
  BY DEF IsRest
<1>1. PICK k \in Nat : HeadersAreRead(p, z, k, h)
  BY Zenon, <1>6, HeadersRead
<1>2. Body(p) \in Seq(Byte)
  BY BodyBytes
<1>3. CASE Len(z) < k
  <2>1. h = Incomplete
    BY <1>1, <1>3 DEF HeadersAreRead
  <2>2. r = Incomplete /\ r.is = "Incomplete"
    BY <1>7, <2>1 DEF Incomplete
  <2>3. ~Short(p) => Len(z) < n
    BY <1>1, <1>3, <1>6 DEF HeadersAreRead
  <2> QED
    BY <2>2, <2>3
<1>4. CASE Len(z) >= k
  <2>1. h.is = "Done" /\ h.rest = From(z, k + 1)
    BY <1>1, <1>4 DEF HeadersAreRead
  <2>2. r = WithPayload(p.ty, p.flags, n, z, h)
    BY <1>7, <2>1
  <2>3. PICK rest : rest = From(z, k + 1)
    OBVIOUS
  <2>4. rest \in Seq(Byte) /\ Len(rest) = Len(z) - k
    BY <1>4, <2>3, FromPlace
  <2>5. h.rest = rest
    BY <2>1, <2>3
  <2>6. n - (Len(z) - Len(h.rest)) = n - k
    BY <2>4, <2>5
  <2>7. CASE Short(p)
    <3>1. n < k
      BY <1>1, <1>6, <2>7 DEF HeadersAreRead
    <3>2. n - (Len(z) - Len(h.rest)) < 0
      BY <2>6, <3>1
    <3>3. r = Underflow
      BY <2>2, <3>2 DEF WithPayload
    <3> QED
      BY <2>7, <3>3 DEF Underflow
  <2>8. CASE ~Short(p)
    <3>1. k <= n
      BY <1>1, <1>6, <2>8 DEF HeadersAreRead
    <3>2. PICK l \in Nat : l = n - k
      <4>1. n - k \in Nat
        BY <3>1
      <4> QED
        BY Zenon, <4>1
    <3>3. n = k + l /\ ~(l < 0)
      BY <3>1, <3>2
    <3>4. r = IF Len(rest) < l THEN Incomplete
              ELSE LET payload == packet_payload(p.ty, SubSeq(rest, 1, l))
                   IN IF payload = Error THEN Error
                      ELSE Done(Packet(p.ty, p.flags, h.value, payload.value), From(rest, l + 1))
      BY Zenon, <2>2, <2>5, <2>6, <3>2, <3>3 DEF WithPayload
    <3>5. CASE Len(z) < n
      <4>1. Len(rest) < l
        BY <2>4, <3>2, <3>5
      <4> QED
        BY <2>8, <3>4, <3>5, <4>1
    <3>6. CASE Len(z) >= n
      <4>1. ~(Len(rest) < l)
        BY <2>4, <3>2, <3>6
      <4>2. SubSeq(rest, 1, l) = From(Body(p), k + 1)
        <5>1. n <= Len(z)
          BY <3>6
        <5>2. Reaches(k, l, z, Body(p))
          BY <1>6, <3>3, <5>1 DEF Reaches
        <5>3. SubSeq(From(z, k + 1), 1, l) = From(Body(p), k + 1)
          BY ONLY <1>2, <5>2, z \in Seq(Byte), k \in Nat, l \in Nat, Agree(z, Body(p)), RestOfBody
        <5> QED
          BY Zenon, <2>3, <5>3
      <4>3. PICK x : packet_payload(p.ty, SubSeq(rest, 1, l)) = Done(Told(p).payload, x)
        BY Zenon, <1>1, <2>8, <4>2 DEF HeadersAreRead
      <4>4. PICK payload : payload = packet_payload(p.ty, SubSeq(rest, 1, l))
        OBVIOUS
      <4>5. payload.is = "Done" /\ payload.value = Told(p).payload
        <5>1. payload = Done(Told(p).payload, x)
          BY Zenon, <4>3, <4>4
        <5> QED
          BY ONLY <5>1, DoneParts
      <4>6. payload # Error
        BY <4>5 DEF Error
      <4>7. r = Done(Packet(p.ty, p.flags, h.value, payload.value), From(rest, l + 1))
        BY Zenon, <3>4, <4>1, <4>4, <4>6
      <4>8. h.value = Told(p).headers
        BY Zenon, <1>1, <1>4, <2>8 DEF HeadersAreRead
      <4>9. From(rest, l + 1) = From(z, n + 1)
        BY <2>3, <3>3, <3>6, FromTwice
      <4>10. r = Done(Told(p), From(z, n + 1))
        BY Zenon, <4>5, <4>7, <4>8, <4>9, ToldParts
      <4> QED
        BY <2>8, <3>6, <4>10
    <3>7. Len(z) < n \/ Len(z) >= n
      OBVIOUS
    <3> QED
      BY Zenon, <3>5, <3>6, <3>7
  <2> QED
    BY Zenon, <2>7, <2>8
<1>5. Len(z) < k \/ Len(z) >= k
  OBVIOUS
<1> QED
  BY Zenon, <1>3, <1>4, <1>5

\* What a server sends at once: a packet that keeps to MQTT.
Sent(s) ==
  /\ s \in [packet : ServerPackets, wide : BOOLEAN]
  /\ Lawful(s.packet)
  /\ s.wide => Len(Body(s.packet)) < 128

\* The bytes on the wire are those of the head and those of the body.
LEMMA WireParts ==
  ASSUME NEW s, Sent(s), NEW f \in Byte, f = 16 * s.packet.ty + s.packet.flags
  PROVE  /\ OnWire(s) = (<<f>> \o Size(Len(Body(s.packet)), s.wide)) \o Body(s.packet)
         /\ OnWire(s) \in Seq(Byte)
         /\ Len(OnWire(s)) = 1 + Len(Size(Len(Body(s.packet)), s.wide)) + Len(Body(s.packet))
<1>1. OnWire(s) = (<<f>> \o Size(Len(Body(s.packet)), s.wide)) \o Body(s.packet)
  BY DEF OnWire, Size
<1>2. Body(s.packet) \in Seq(Byte) /\ Len(Body(s.packet)) <= MaxLength
  <2>1. s.packet \in ServerPackets /\ Lawful(s.packet)
    BY DEF Sent
  <2> QED
    BY Zenon, <2>1, BodyBytes
<1>3. Size(Len(Body(s.packet)), s.wide) \in Seq(Byte)
  <2>1. s.wide \in BOOLEAN /\ (s.wide => Len(Body(s.packet)) < 128)
    BY DEF Sent
  <2>2. Len(Body(s.packet)) \in Nat
    BY <1>2
  <2> QED
    BY Zenon, <1>2, <2>1, <2>2, SizeIsRead
<1>4. PICK x, y : x = Size(Len(Body(s.packet)), s.wide) /\ y = Body(s.packet)
  OBVIOUS
<1>5. x \in Seq(Byte) /\ y \in Seq(Byte) /\ OnWire(s) = (<<f>> \o x) \o y
  BY Zenon, <1>1, <1>2, <1>3, <1>4
<1>6. <<f>> \o x \in Seq(Byte) /\ Len(<<f>> \o x) = 1 + Len(x)
  BY <1>5, InFront
<1>7. OnWire(s) \in Seq(Byte) /\ Len(OnWire(s)) = Len(<<f>> \o x) + Len(y)
  <2>1. PICK w : w = <<f>> \o x
    OBVIOUS
  <2>2. w \in Seq(Byte) /\ OnWire(s) = w \o y
    BY Zenon, <1>5, <1>6, <2>1
  <2>3. OnWire(s) \in Seq(Byte) /\ Len(OnWire(s)) = Len(w) + Len(y)
    BY <1>5, <2>2
  <2> QED
    BY Zenon, <2>1, <2>3
<1> QED
  BY Zenon, <1>1, <1>4, <1>6, <1>7

\* What comes of reading b, when a packet p of the length m begins there.
Reads(b, p, m, r) ==
  /\ Foreign(p) => /\ r.is \in {"Incomplete", "Error"}
                   /\ Len(b) >= m => r.is = "Error"
  /\ Short(p) => r.is \in {"Incomplete", "Underflow"}
  /\ ~Foreign(p) /\ ~Short(p) =>
       /\ Len(b) < m => r = Incomplete
       /\ Len(b) >= m => r = Done(Told(p), From(b, m + 1))

\* No packet of a foreign type has headers.
LEMMA ForeignIsError ==
  ASSUME NEW p, Foreign(p), NEW z
  PROVE  packet_headers(p.ty, p.flags, z) = Error
BY DEF Foreign, ServerTypes, packet_headers

\* The parser at the beginning of a packet: it says what the packet is when all
\* of it is there, and that it is incomplete before.
LEMMA PacketIsRead ==
  ASSUME NEW s, Sent(s), NEW b \in Seq(Byte), Agree(b, OnWire(s))
  PROVE  /\ OnWire(s) \in Seq(Byte)
         /\ Len(OnWire(s)) >= 2
         /\ Reads(b, s.packet, Len(OnWire(s)), packet("kept", b))
<1>1. PICK p \in ServerPackets, wide \in BOOLEAN :
        p = s.packet /\ wide = s.wide
  BY DEF Sent
<1>2. Lawful(p) /\ (wide => Len(Body(p)) < 128)
  BY Zenon, <1>1 DEF Sent
<1>3. Body(p) \in Seq(Byte) /\ Len(Body(p)) <= MaxLength
  BY Zenon, <1>2, BodyBytes
<1>4. PICK ty \in 0..15, flags \in 0..15 : ty = p.ty /\ flags = p.flags
  BY DEF ServerPackets
<1>5. PICK f : f = 16 * ty + flags
  OBVIOUS
<1>6. f \in Byte /\ f \div 16 = ty /\ f % 16 = flags
  BY <1>5, Nibbles
<1>7. PICK n \in Nat : n = Len(Body(p))
  BY <1>3
<1>8. /\ OnWire(s) = (<<f>> \o Size(n, wide)) \o Body(p)
      /\ OnWire(s) \in Seq(Byte)
      /\ Len(OnWire(s)) = 1 + Len(Size(n, wide)) + n
  BY Zenon, <1>1, <1>4, <1>5, <1>6, <1>7, WireParts
<1>9. Holds(b, f, n, wide, Body(p))
  BY Zenon, <1>8 DEF Holds
<1>10. n <= MaxLength /\ (wide => n < 128)
  BY Zenon, <1>2, <1>3, <1>7
<1>11. PICK k \in 2..5, z \in Seq(Byte) :
         /\ k = 1 + Len(Size(n, wide))
         /\ b = <<>> => packet("kept", b) = Incomplete
         /\ b # <<>> /\ ty \notin PacketTypes => packet("kept", b) = Error
         /\ ty \in PacketTypes /\ Len(b) < k => packet("kept", b) = Incomplete
         /\ Len(b) >= k =>
              /\ z = From(b, k + 1) /\ Len(z) = Len(b) - k
              /\ Agree(z, Body(p))
              /\ ty \in PacketTypes =>
                   LET headers == packet_headers(ty, flags, z)
                   IN packet("kept", b) =
                        IF headers.is # "Done" THEN headers
                        ELSE WithPayload(ty, flags, n, z, headers)
  <2>1. IsFirst(f, ty, flags)
    BY Zenon, <1>6 DEF IsFirst
  <2>2. PICK k \in 2..5, z \in Seq(Byte) : HeadReads(b, ty, flags, n, wide, Body(p), k, z)
    BY Zenon, <1>3, <1>6, <1>9, <1>10, <2>1, HeadIsRead
  <2> QED
    BY Zenon, <2>2 DEF HeadReads
<1>12. PICK m \in Nat : m = Len(OnWire(s))
  BY <1>8
<1>13. m = k + n
  BY Zenon, <1>8, <1>11, <1>12
<1>14. PICK r : r = packet("kept", b)
  OBVIOUS
<1>15. ASSUME Foreign(p) PROVE r.is \in {"Incomplete", "Error"} /\ (Len(b) >= m => r.is = "Error")
  <2>1. CASE p.ty \notin PacketTypes
    <3>1. CASE b = <<>>
      <4>1. r = Incomplete
        BY Zenon, <1>4, <1>11, <1>14, <3>1
      <4>2. ~(Len(b) >= m)
        BY <1>13, <3>1
      <4> QED
        BY <4>1, <4>2 DEF Incomplete
    <3>2. CASE b # <<>>
      <4>1. r = Error
        BY Zenon, <1>4, <1>11, <1>14, <2>1, <3>2
      <4> QED
        BY <4>1 DEF Error
    <3> QED
      BY Zenon, <3>1, <3>2
  <2>2. CASE p.ty \in PacketTypes
    <3>1. CASE Len(b) < k
      <4>1. r = Incomplete
        BY Zenon, <1>4, <1>11, <1>14, <2>2, <3>1
      <4>2. ~(Len(b) >= m)
        BY <1>13, <3>1
      <4> QED
        BY <4>1, <4>2 DEF Incomplete
    <3>2. CASE Len(b) >= k
      <4>1. PICK h : h = packet_headers(p.ty, p.flags, z)
        OBVIOUS
      <4>2. h.is # "Done" /\ h.is = "Error"
        <5>1. h = Error
          BY Zenon, <1>15, <4>1, ForeignIsError
        <5> QED
          BY <5>1 DEF Error
      <4>3. r = h
        BY Zenon, <1>4, <1>11, <1>14, <2>2, <3>2, <4>1, <4>2
      <4> QED
        BY Zenon, <4>2, <4>3
    <3>3. Len(b) < k \/ Len(b) >= k
      OBVIOUS
    <3> QED
      BY Zenon, <3>1, <3>2, <3>3
  <2> QED
    BY Zenon, <2>1, <2>2
<1>16. ASSUME ~Foreign(p)
       PROVE  /\ Short(p) => r.is \in {"Incomplete", "Underflow"}
              /\ ~Short(p) /\ Len(b) < m => r = Incomplete
              /\ ~Short(p) /\ Len(b) >= m => r = Done(Told(p), From(b, m + 1))
  <2>1. p.ty \in PacketTypes
    <3>1. p.ty \in ServerTypes
      BY Zenon, <1>16 DEF Foreign
    <3> QED
      BY Zenon, <3>1, KnownTypes
  <2>2. CASE Len(b) < k
    <3>1. r = Incomplete /\ r.is = "Incomplete"
      <4>1. r = Incomplete
        BY Zenon, <1>4, <1>11, <1>14, <2>1, <2>2
      <4> QED
        BY <4>1 DEF Incomplete
    <3>2. Len(b) < m /\ ~(Len(b) >= m)
      BY <1>13, <2>2
    <3> QED
      BY <3>1, <3>2
  <2>3. CASE Len(b) >= k
    <3>1. z = From(b, k + 1) /\ Len(z) = Len(b) - k /\ Agree(z, Body(p))
      BY Zenon, <1>4, <1>11, <2>3
    <3>2. PICK h : h = packet_headers(p.ty, p.flags, z)
      OBVIOUS
    <3>3. r = IF h.is # "Done" THEN h ELSE WithPayload(p.ty, p.flags, n, z, h)
      BY Zenon, <1>4, <1>11, <1>14, <2>1, <2>3, <3>2
    <3>4. /\ Short(p) => r.is \in {"Incomplete", "Underflow"}
          /\ ~Short(p) /\ Len(z) < n => r = Incomplete
          /\ ~Short(p) /\ Len(z) >= n => r = Done(Told(p), From(z, n + 1))
      <4>1. IsRest(p, n, z, h, r)
        BY Zenon, <1>7, <3>2, <3>3 DEF IsRest
      <4>2. Agree(z, Body(p))
        BY Zenon, <3>1
      <4> QED
        BY Zenon, <1>2, <1>16, <4>1, <4>2, RestIsRead
    <3>5. (Len(z) < n <=> Len(b) < m) /\ (Len(z) >= n <=> Len(b) >= m)
      BY <1>13, <2>3, <3>1
    <3>6. Len(b) >= m => From(z, n + 1) = From(b, m + 1)
      <4>1. SUFFICES ASSUME Len(b) >= m PROVE From(z, n + 1) = From(b, m + 1)
        OBVIOUS
      <4>2. m <= Len(b) /\ k \in Nat
        BY <4>1
      <4>3. From(From(b, k + 1), n + 1) = From(b, m + 1)
        BY <1>13, <4>2, FromTwice
      <4> QED
        BY Zenon, <3>1, <4>3
    <3> QED
      BY Zenon, <3>4, <3>5, <3>6
  <2>4. Len(b) < k \/ Len(b) >= k
    OBVIOUS
  <2> QED
    BY Zenon, <2>2, <2>3, <2>4
<1>17. Short(p) => ~Foreign(p)
  BY DEF Short, IsQoS0, Foreign, ServerTypes
<1>18. Reads(b, p, m, r)
  BY Zenon, <1>15, <1>16, <1>17 DEF Reads
<1>19. m >= 2
  BY <1>13
<1> QED
  BY Zenon, <1>1, <1>8, <1>12, <1>14, <1>18, <1>19

-----------------------------------------------------------------------------
(* The stream.                                                             *)

\* The stream of a script is its first packet and the stream of the others.
LEMMA StreamParts ==
  /\ Stream(<<>>) = <<>>
  /\ \A ss : ss # <<>> /\ ss \in Seq([packet : ServerPackets, wide : BOOLEAN])
                /\ (\A i \in DOMAIN ss : Sent(ss[i])) =>
       /\ Stream(ss) \in Seq(Byte)
       /\ Stream(ss) = OnWire(ss[1]) \o Stream(Tail(ss))
<1>1. Stream(<<>>) = <<>>
  <2>1. PICK e : e = [i \in DOMAIN <<>> |-> OnWire(<<>>[i])]
    OBVIOUS
  <2>2. e \in Seq(Seq(Byte)) /\ Len(e) = 0
    BY <2>1
  <2>3. FlattenSeq(e) = <<>>
    BY <2>2, FlattenFew
  <2> QED
    BY <2>1, <2>3 DEF Stream
<1>2. ASSUME NEW ss \in Seq([packet : ServerPackets, wide : BOOLEAN]), ss # <<>>,
             \A i \in DOMAIN ss : Sent(ss[i])
      PROVE  Stream(ss) \in Seq(Byte) /\ Stream(ss) = OnWire(ss[1]) \o Stream(Tail(ss))
  <2>1. ASSUME NEW i \in 1..Len(ss) PROVE OnWire(ss[i]) \in Seq(Byte)
    <3>1. PICK s : s = ss[i]
      OBVIOUS
    <3>2. Sent(s)
      BY <1>2, <3>1
    <3>3. Agree(<<>>, OnWire(s)) /\ <<>> \in Seq(Byte)
      BY DEF Agree
    <3>4. OnWire(s) \in Seq(Byte)
      BY Zenon, <3>2, <3>3, PacketIsRead
    <3> QED
      BY Zenon, <3>1, <3>4
  <2>2. PICK e : e = [i \in DOMAIN ss |-> OnWire(ss[i])]
    OBVIOUS
  <2>3. e \in Seq(Seq(Byte)) /\ Len(e) = Len(ss) /\ e # <<>> /\ e[1] = OnWire(ss[1])
    BY <1>2, <2>1, <2>2
  <2>4. Tail(e) = [i \in DOMAIN Tail(ss) |-> OnWire(Tail(ss)[i])]
    <3>1. PICK t : t = Tail(ss)
      OBVIOUS
    <3>2. DOMAIN t = 1..Len(ss) - 1 /\ \A i \in 1..Len(ss) - 1 : t[i] = ss[i + 1]
      BY <1>2, <3>1
    <3>3. PICK u \in Seq(Seq(Byte)) : /\ u = Tail(e) /\ Len(u) = Len(e) - 1
                                      /\ \A i \in 1..Len(u) : u[i] = e[i + 1]
      <4>1. /\ Tail(e) \in Seq(Seq(Byte)) /\ Len(Tail(e)) = Len(e) - 1
            /\ \A i \in 1..Len(Tail(e)) : Tail(e)[i] = e[i + 1]
        BY ONLY <2>3, HeadTailProperties
      <4> QED
        BY Zenon, <4>1
    <3>5. ASSUME NEW i \in 1..Len(ss) - 1 PROVE e[i + 1] = OnWire(t[i])
      <4>1. i + 1 \in DOMAIN ss
        BY <1>2
      <4> QED
        BY <2>2, <3>2, <4>1
    <3>6. u = [i \in 1..Len(ss) - 1 |-> OnWire(t[i])]
      <4>1. Len(u) = Len(ss) - 1 /\ DOMAIN u = 1..Len(u)
        BY <2>3, <3>3
      <4>2. u = [i \in 1..Len(u) |-> u[i]]
        OBVIOUS
      <4>3. \A i \in 1..Len(ss) - 1 : u[i] = OnWire(t[i])
        BY Zenon, <3>3, <3>5, <4>1
      <4> QED
        BY Zenon, <4>1, <4>2, <4>3
    <3> QED
      BY <3>1, <3>2, <3>3, <3>6
  <2>5. FlattenSeq(e) \in Seq(Byte) /\ FlattenSeq(e) = Head(e) \o FlattenSeq(Tail(e))
    BY <2>3, FlattenHead
  <2>6. Head(e) = OnWire(ss[1])
    BY <2>3
  <2> QED
    BY Zenon, <2>2, <2>4, <2>5, <2>6 DEF Stream
<1> QED
  BY <1>1, <1>2

\* Two sequences joined, by their elements.
IsJoined(c, a, t) ==
  /\ Len(c) = Len(a) + Len(t)
  /\ \A i \in 1..Len(a) : c[i] = a[i]
  /\ \A i \in 1..Len(t) : c[Len(a) + i] = t[i]

\* The elements of the second come behind those of the first.
LEMMA Joined ==
  ASSUME NEW S, NEW a \in Seq(S), NEW t \in Seq(S)
  PROVE  a \o t \in Seq(S) /\ IsJoined(a \o t, a, t)
<1>1. a \o t \in Seq(S) /\ Len(a \o t) = Len(a) + Len(t)
  OBVIOUS
<1>2. \A i \in 1..Len(a) : (a \o t)[i] = a[i]
  OBVIOUS
<1>3. \A i \in 1..Len(t) : (a \o t)[Len(a) + i] = t[i]
  OBVIOUS
<1> QED
  BY Zenon, <1>1, <1>2, <1>3 DEF IsJoined

\* What is read and what is under way, cut at the end of the first part.
LEMMA CutBehind ==
  ASSUME NEW b \in Seq(Byte), NEW w \in Seq(Byte), NEW x \in Seq(Byte), NEW y \in Seq(Byte),
         b \o w = x \o y
  PROVE  /\ Agree(b, x)
         /\ Len(b) >= Len(x) => From(b, Len(x) + 1) \o w = y
<1>1. PICK m \in Nat, l \in Nat : m = Len(x) /\ l = Len(b)
  OBVIOUS
<1>2. PICK c : c = b \o w
  OBVIOUS
<1>3. /\ c \in Seq(Byte) /\ Len(c) = Len(b) + Len(w)
      /\ \A i \in 1..Len(b) : c[i] = b[i]
      /\ \A i \in 1..Len(w) : c[Len(b) + i] = w[i]
  <2>1. c \in Seq(Byte) /\ IsJoined(c, b, w)
    BY Zenon, <1>2, Joined
  <2> QED
    BY Zenon, <2>1 DEF IsJoined
<1>4. c = x \o y
  BY Zenon, <1>2
<1>5. /\ Len(c) = Len(x) + Len(y)
      /\ \A i \in 1..Len(x) : c[i] = x[i]
      /\ \A i \in 1..Len(y) : c[Len(x) + i] = y[i]
  <2>1. IsJoined(c, x, y)
    BY Zenon, <1>4, Joined
  <2> QED
    BY Zenon, <2>1 DEF IsJoined
<1>6. \A i \in 1..Len(b) : c[i] = b[i]
  BY Zenon, <1>3
<1>7. \A i \in 1..Len(x) : c[i] = x[i]
  BY Zenon, <1>5
<1>9. Agree(b, x)
  <2>1. ASSUME NEW i \in 1..Len(x), i <= Len(b) PROVE b[i] = x[i]
    <3>1. i \in 1..Len(b)
      BY <2>1
    <3> QED
      BY ONLY <1>6, <1>7, <2>1, <3>1
  <2> QED
    BY <2>1 DEF Agree
<1>10. ASSUME Len(b) >= Len(x) PROVE From(b, Len(x) + 1) \o w = y
  <2>1. PICK d : d = From(b, m + 1)
    OBVIOUS
  <2>2. d \in Seq(Byte) /\ Len(d) = Len(b) - m /\ \A i \in 1..Len(b) - m : d[i] = b[m + i]
    <3>1. m <= Len(b)
      BY <1>1, <1>10
    <3> QED
      BY <2>1, <3>1, FromPlace
  <2>3. PICK e : e = d \o w
    OBVIOUS
  <2>4. /\ e \in Seq(Byte) /\ Len(e) = Len(d) + Len(w)
        /\ \A i \in 1..Len(d) : e[i] = d[i]
        /\ \A i \in 1..Len(w) : e[Len(d) + i] = w[i]
    <3>1. e \in Seq(Byte) /\ IsJoined(e, d, w)
      BY Zenon, <2>2, <2>3, Joined
    <3> QED
      BY Zenon, <3>1 DEF IsJoined
  <2>7. Len(e) = Len(y)
    BY <1>1, <1>3, <1>5, <2>2, <2>4
  <2>8. ASSUME NEW i \in 1..Len(e) PROVE e[i] = y[i]
    <3>1. PICK j \in Nat : j = m + i
      OBVIOUS
    <3>2. i \in 1..Len(y)
      BY <2>7
    <3>3. c[Len(x) + i] = y[i]
      BY Zenon, <1>5, <3>2
    <3>4. c[j] = y[i]
      BY Zenon, <1>1, <3>1, <3>3
    <3>5. CASE i <= Len(d)
      <4>1. i \in 1..Len(d) /\ i \in 1..Len(b) - m /\ j \in 1..Len(b)
        BY <1>1, <2>2, <3>1, <3>5
      <4>2. e[i] = d[i]
        BY Zenon, <2>4, <4>1
      <4>3. d[i] = b[m + i]
        BY Zenon, <2>2, <4>1
      <4>4. c[j] = b[j]
        BY Zenon, <1>3, <4>1
      <4> QED
        BY Zenon, <3>1, <3>4, <4>2, <4>3, <4>4
    <3>6. CASE ~(i <= Len(d))
      <4>1. PICK k : k = i - Len(d)
        OBVIOUS
      <4>2. k \in 1..Len(w) /\ i = Len(d) + k /\ j = Len(b) + k
        BY <1>1, <2>2, <2>4, <3>1, <3>6, <4>1
      <4>3. e[Len(d) + k] = w[k]
        BY Zenon, <2>4, <4>2
      <4>4. c[Len(b) + k] = w[k]
        BY Zenon, <1>3, <4>2
      <4> QED
        BY Zenon, <3>4, <4>2, <4>3, <4>4
    <3> QED
      BY Zenon, <3>5, <3>6
  <2>9. e = y
    BY <2>4, <2>7, <2>8, SeqEqual
  <2> QED
    BY Zenon, <1>1, <2>1, <2>3, <2>9
<1> QED
  BY Zenon, <1>9, <1>10

\* The bytes read and those under way are the stream of the packets left.
OnStream(b, w, ss) == b \o w = Stream(ss)

\* The parser on a stream.
LEMMA StreamIsRead ==
  ASSUME NEW ss \in Seq([packet : ServerPackets, wide : BOOLEAN]),
         \A i \in DOMAIN ss : Sent(ss[i]),
         NEW b \in Seq(Byte), NEW w \in Seq(Byte), OnStream(b, w, ss)
  PROVE  /\ ss = <<>> => b = <<>> /\ packet("kept", b) = Incomplete
         /\ ss # <<>> =>
              \E m \in Nat :
                /\ m = Len(OnWire(ss[1])) /\ m >= 2
                /\ Agree(b, OnWire(ss[1]))
                /\ Reads(b, ss[1].packet, m, packet("kept", b))
                /\ Len(b) >= m => /\ From(b, m + 1) \in Seq(Byte)
                                  /\ Len(From(b, m + 1)) = Len(b) - m
                                  /\ OnStream(From(b, m + 1), w, Tail(ss))
<1>1. CASE ss = <<>>
  <2>1. b \o w = <<>>
    BY Zenon, <1>1, StreamParts DEF OnStream
  <2>2. b = <<>>
    BY <2>1
  <2> QED
    BY <1>1, <2>2 DEF packet, packet_type, Incomplete
<1>2. CASE ss # <<>>
  <2>1. PICK s : s = ss[1]
    OBVIOUS
  <2>2. Sent(s)
    BY <1>2, <2>1
  <2>3. Agree(<<>>, OnWire(s)) /\ <<>> \in Seq(Byte)
    BY DEF Agree
  <2>4. PICK x \in Seq(Byte) : x = OnWire(s)
    <3>1. OnWire(s) \in Seq(Byte)
      BY Zenon, <2>2, <2>3, PacketIsRead
    <3> QED
      BY Zenon, <3>1
  <2>5. Tail(ss) \in Seq([packet : ServerPackets, wide : BOOLEAN])
        /\ (\A i \in DOMAIN Tail(ss) : Sent(Tail(ss)[i]))
    <3>1. PICK t : t = Tail(ss)
      OBVIOUS
    <3>2. /\ t \in Seq([packet : ServerPackets, wide : BOOLEAN])
          /\ Len(t) = Len(ss) - 1 /\ \A i \in 1..Len(t) : t[i] = ss[i + 1] /\ i + 1 \in DOMAIN ss
      BY <1>2, <3>1
    <3>3. ASSUME NEW i \in DOMAIN t PROVE Sent(t[i])
      <4>1. i \in 1..Len(t)
        BY <3>2
      <4> QED
        BY Zenon, <3>2, <4>1
    <3> QED
      BY Zenon, <3>1, <3>2, <3>3
  <2>6. Stream(Tail(ss)) \in Seq(Byte)
    <3>1. CASE Tail(ss) = <<>>
      BY <2>3, <3>1, StreamParts
    <3>2. CASE Tail(ss) # <<>>
      BY Zenon, <2>5, <3>2, StreamParts
    <3> QED
      BY Zenon, <3>1, <3>2
  <2>7. PICK y \in Seq(Byte) : y = Stream(Tail(ss))
    BY Zenon, <2>6
  <2>8. b \o w = x \o y
    BY Zenon, <1>2, <2>1, <2>4, <2>7, StreamParts DEF OnStream
  <2>9. Agree(b, x) /\ (Len(b) >= Len(x) => From(b, Len(x) + 1) \o w = y)
    BY Zenon, <2>8, CutBehind
  <2>10. PICK m \in Nat : m = Len(x)
    OBVIOUS
  <2>11. m >= 2 /\ Reads(b, s.packet, m, packet("kept", b))
    BY Zenon, <2>2, <2>4, <2>9, <2>10, PacketIsRead
  <2>12. ASSUME Len(b) >= m
         PROVE  /\ From(b, m + 1) \in Seq(Byte)
                /\ Len(From(b, m + 1)) = Len(b) - m
                /\ OnStream(From(b, m + 1), w, Tail(ss))
    <3>1. m <= Len(b)
      BY <2>12
    <3>2. From(b, m + 1) \in Seq(Byte) /\ Len(From(b, m + 1)) = Len(b) - m
      BY <3>1, FromPlace
    <3>3. OnStream(From(b, m + 1), w, Tail(ss))
      BY Zenon, <2>7, <2>9, <2>10, <2>12 DEF OnStream
    <3> QED
      BY Zenon, <3>2, <3>3
  <2> QED
    BY Zenon, <1>2, <2>1, <2>4, <2>9, <2>10, <2>11, <2>12
<1> QED
  BY Zenon, <1>1, <1>2

\* What moves from the wire to the buffer is still the same stream.
LEMMA ReadOn ==
  ASSUME NEW b \in Seq(Byte), NEW w \in Seq(Byte), NEW n \in Nat, n <= Len(w)
  PROVE  /\ b \o SubSeq(w, 1, n) \in Seq(Byte)
         /\ Len(b \o SubSeq(w, 1, n)) = Len(b) + n
         /\ From(w, n + 1) \in Seq(Byte)
         /\ Len(From(w, n + 1)) = Len(w) - n
         /\ (b \o SubSeq(w, 1, n)) \o From(w, n + 1) = b \o w
<1>1. PICK u : u = SubSeq(w, 1, n)
  OBVIOUS
<1>2. u \in Seq(Byte) /\ Len(u) = n /\ \A i \in 1..n : u[i] = w[i]
  BY <1>1
<1>3. PICK v : v = From(w, n + 1)
  OBVIOUS
<1>4. v \in Seq(Byte) /\ Len(v) = Len(w) - n /\ \A i \in 1..Len(w) - n : v[i] = w[n + i]
  BY <1>3, FromPlace
<1>5. u \o v = w
  <2>1. PICK c : c = u \o v
    OBVIOUS
  <2>3. /\ c \in Seq(Byte) /\ Len(c) = Len(u) + Len(v)
        /\ \A i \in 1..Len(u) : c[i] = u[i]
        /\ \A i \in 1..Len(v) : c[Len(u) + i] = v[i]
    <3>1. c \in Seq(Byte) /\ IsJoined(c, u, v)
      BY Zenon, <1>2, <1>4, <2>1, Joined
    <3> QED
      BY Zenon, <3>1 DEF IsJoined
  <2>2. c \in Seq(Byte) /\ Len(c) = Len(w)
    BY <1>2, <1>4, <2>3
  <2>5. ASSUME NEW i \in 1..Len(c) PROVE c[i] = w[i]
    <3>1. CASE i <= n
      <4>1. i \in 1..Len(u) /\ i \in 1..n
        BY <1>2, <3>1
      <4> QED
        BY Zenon, <1>2, <2>3, <4>1
    <3>2. CASE ~(i <= n)
      <4>1. PICK j : j = i - n
        OBVIOUS
      <4>2. j \in 1..Len(v) /\ j \in 1..Len(w) - n /\ i = n + j /\ i = Len(u) + j
        BY <1>2, <1>4, <2>2, <3>2, <4>1
      <4>3. c[Len(u) + j] = v[j]
        BY Zenon, <2>3, <4>2
      <4>4. v[j] = w[n + j]
        BY Zenon, <1>4, <4>2
      <4> QED
        BY Zenon, <4>2, <4>3, <4>4
    <3> QED
      BY Zenon, <3>1, <3>2
  <2>6. c = w
    BY <2>2, <2>5, SeqEqual
  <2> QED
    BY Zenon, <2>1, <2>6
<1>6. (b \o u) \o v = b \o (u \o v)
  BY <1>2, <1>4, ConcatAssociative
<1>7. b \o u \in Seq(Byte) /\ Len(b \o u) = Len(b) + n
  <2>1. b \o u \in Seq(Byte) /\ IsJoined(b \o u, b, u)
    BY Zenon, <1>2, Joined
  <2> QED
    BY Zenon, <1>2, <2>1 DEF IsJoined
<1> QED
  BY Zenon, <1>1, <1>3, <1>4, <1>5, <1>6, <1>7

\* Min of two numbers is not above either.
LEMMA MinOfTwo ==
  ASSUME NEW x \in Nat, NEW y \in Nat
  PROVE  Min({x, y}) \in {x, y} /\ Min({x, y}) <= x /\ Min({x, y}) <= y
<1>1. \E l \in {x, y} : \A k \in {x, y} : l <= k
  BY x <= y \/ y <= x
<1> QED
  BY <1>1 DEF Min

-----------------------------------------------------------------------------
(* The parser that drops half a byte.                                      *)

\* A length below 128 is one byte.
LEMMA SmallSize ==
  ASSUME NEW n \in Nat, n < 128
  PROVE  encode_vle(n) = <<n>>
<1>1. vle_size(n) = 1
  BY DEF vle_size
<1>2. ~(n > MaxLength)
  BY SMT DEF MaxLength
<1>3. n \div 1 = n /\ n % 128 = n
  BY SMT
<1>4. Place[1] = 1
  BY DEF Place
<1>5. encode_vle(n) = [i \in 1..1 |-> ((n \div Place[i]) % 128) + (IF i < 1 THEN 128 ELSE 0)]
  BY Zenon, <1>1, <1>2 DEF encode_vle
<1>6. ASSUME NEW i \in 1..1
      PROVE  ((n \div Place[i]) % 128) + (IF i < 1 THEN 128 ELSE 0) = n
  <2>1. i = 1
    OBVIOUS
  <2> QED
    BY <1>3, <1>4, <2>1
<1>7. encode_vle(n) = [i \in 1..1 |-> n]
  BY Zenon, <1>5, <1>6
<1>8. [i \in 1..1 |-> n] = <<n>>
  OBVIOUS
<1> QED
  BY Zenon, <1>7, <1>8

\* It is read from the one byte.
LEMMA SmallIsRead ==
  ASSUME NEW n \in Nat, n < 128, NEW u \in Seq(Byte), Len(u) >= 1 => u[1] = n
  PROVE  /\ Len(u) = 0 => decode_vle(u) = Incomplete
         /\ Len(u) >= 1 => decode_vle(u) = Done(n, From(u, 2))
<1>1. PICK wide \in BOOLEAN : ~wide
  OBVIOUS
<1>2. PICK size : size = Size(n, wide)
  OBVIOUS
<1>3. size = <<n>>
  <2>1. encode_vle(n) = <<n>>
    BY SmallSize
  <2> QED
    BY Zenon, <1>1, <1>2, <2>1 DEF Size
<1>4. Agree(u, size) /\ Len(size) = 1
  BY <1>3 DEF Agree
<1>5. n <= MaxLength
  BY SMT DEF MaxLength
<1>6. decode_vle(u) = IF Len(u) < Len(size) THEN Incomplete ELSE Done(n, From(u, Len(size) + 1))
  BY Zenon, <1>1, <1>2, <1>4, <1>5, SizeIsRead
<1>7. Len(size) + 1 = 2 /\ (Len(u) = 0 => Len(u) < Len(size)) /\ (Len(u) >= 1 => ~(Len(u) < Len(size)))
  BY <1>4
<1> QED
  BY Zenon, <1>6, <1>7

\* The first three bytes of a CONNACK: the type, and in the third place the
\* flag of the session or a zero of the length.
LEMMA GreetingBytes ==
  ASSUME NEW s, Sent(s), Greeting(s.packet)
  PROVE  /\ OnWire(s) \in Seq(Byte) /\ Len(OnWire(s)) >= 3
         /\ OnWire(s)[1] \div 16 = 2
         /\ OnWire(s)[3] \in {0, 1}
<1>1. PICK p \in ServerPackets, wide \in BOOLEAN : p = s.packet /\ wide = s.wide
  BY DEF Sent
<1>2. Lawful(p) /\ Greeting(p)
  BY Zenon, <1>1 DEF Sent
<1>3. p.ty = 2 /\ p.ty = PacketType.ConnAck /\ p.headers[1][1] \in {0, 1}
  BY <1>2 DEF Greeting, PacketType
<1>4. PICK flags \in 0..15 : flags = p.flags
  BY DEF ServerPackets
<1>5. PICK f : f = 16 * 2 + flags
  OBVIOUS
<1>6. f \in Byte /\ f \div 16 = 2 /\ f = 16 * p.ty + p.flags
  <2>1. PICK ty \in 0..15 : ty = 2
    OBVIOUS
  <2>2. f = 16 * ty + flags
    BY <1>5, <2>1
  <2> QED
    BY <1>3, <1>4, <2>1, <2>2, Nibbles
<1>7. PICK n \in Nat : n = Len(Body(p))
  BY <1>2, BodyBytes
<1>8. PICK y \in Seq(Byte) : y = Body(p)
  BY Zenon, <1>2, BodyBytes
<1>9. n = 2 /\ y[1] \in {0, 1}
  <2>1. ~Foreign(p) /\ p.ty \notin {PacketType.Publish, PacketType.SubAck}
    BY <1>3 DEF Foreign, ServerTypes, PacketType
  <2>2. y = FlattenSeq(p.headers) /\ Len(p.headers) = Len(Sizes(p)) /\ p.headers \in Seq(Seq(Byte))
    BY Zenon, <1>2, <1>8, <2>1, Parts, BodyBytes
  <2>3. Sizes(p) = <<1, 1>>
    BY <1>3 DEF Sizes, PacketType
  <2>4. Len(p.headers) = 2
    BY <2>2, <2>3
  <2>5. PICK x1 \in Seq(Byte), x2 \in Seq(Byte) : x1 = p.headers[1] /\ x2 = p.headers[2]
    BY <2>2, <2>4
  <2>6. Len(x1) = 1 /\ Len(x2) = 1
    <3>1. 1 \in 1..Len(p.headers) /\ 2 \in 1..Len(p.headers)
      BY <2>4
    <3>2. Len(x1) = Sizes(p)[1] /\ Len(x2) = Sizes(p)[2]
      BY Zenon, <1>2, <2>1, <2>5, <3>1, Parts
    <3> QED
      BY <2>3, <3>2
  <2>7. y = x1 \o x2
    BY <2>2, <2>4, <2>5, FlattenFew
  <2>8. Len(y) = Len(x1) + Len(x2) /\ \A i \in 1..Len(x1) : y[i] = x1[i]
    <3>1. IsJoined(y, x1, x2)
      BY Zenon, <2>7, Joined
    <3> QED
      BY Zenon, <3>1 DEF IsJoined
  <2>9. Len(y) = 2 /\ y[1] = x1[1]
    BY <2>6, <2>8
  <2> QED
    BY Zenon, <1>3, <1>7, <1>8, <2>5, <2>9
<1>10. /\ OnWire(s) = (<<f>> \o Size(n, wide)) \o y
       /\ OnWire(s) \in Seq(Byte)
  BY Zenon, <1>1, <1>6, <1>7, <1>8, WireParts
<1>11. PICK size \in Seq(Byte) : size = Size(n, wide)
  <2>1. CASE wide
    <3>1. Size(n, wide) = <<128 + n, 0>>
      BY Zenon, <2>1 DEF Size
    <3>2. <<128 + n, 0>> \in Seq(Byte)
      BY <1>9 DEF Byte
    <3> QED
      BY Zenon, <3>1, <3>2
  <2>2. CASE ~wide
    <3>1. Size(n, wide) = <<n>>
      <4>1. encode_vle(n) = <<n>>
        BY <1>9, SmallSize
      <4> QED
        BY Zenon, <2>2, <4>1 DEF Size
    <3>2. <<n>> \in Seq(Byte)
      BY <1>9 DEF Byte
    <3> QED
      BY Zenon, <3>1, <3>2
  <2> QED
    BY Zenon, <2>1, <2>2
<1>12. PICK a \in Seq(Byte) : /\ a = <<f>> \o size
                              /\ Len(a) = 1 + Len(size) /\ a[1] = f
                              /\ \A i \in 1..Len(size) : a[1 + i] = size[i]
  <2>1. /\ <<f>> \o size \in Seq(Byte) /\ Len(<<f>> \o size) = 1 + Len(size)
        /\ (<<f>> \o size)[1] = f
        /\ \A i \in 1..Len(size) : (<<f>> \o size)[1 + i] = size[i]
    BY <1>6, InFront
  <2> QED
    BY Zenon, <2>1
<1>13. PICK w \in Seq(Byte) : w = OnWire(s)
  BY Zenon, <1>10
<1>14. /\ Len(w) = Len(a) + Len(y)
       /\ \A i \in 1..Len(a) : w[i] = a[i]
       /\ \A i \in 1..Len(y) : w[Len(a) + i] = y[i]
  <2>1. IsJoined(w, a, y)
    BY Zenon, <1>10, <1>11, <1>12, <1>13, Joined
  <2> QED
    BY Zenon, <2>1 DEF IsJoined
<1>15. w[1] = f
  BY <1>12, <1>14
<1>16. Len(y) = 2
  BY Zenon, <1>7, <1>8, <1>9
<1>17. CASE wide
  <2>1. size = <<128 + n, 0>>
    BY <1>11, <1>17 DEF Size
  <2>2. Len(size) = 2 /\ size[2] = 0
    BY <2>1
  <2>3. Len(a) = 3 /\ a[3] = 0
    <3>1. a[1 + 2] = size[2]
      BY <1>12, <2>2
    <3> QED
      BY <1>12, <2>2, <3>1
  <2>4. w[3] = 0 /\ Len(w) >= 3
    BY <1>14, <1>16, <2>3
  <2> QED
    BY <1>6, <1>10, <1>13, <1>15, <2>4
<1>18. CASE ~wide
  <2>1. size = <<n>>
    <3>1. encode_vle(n) = <<n>>
      BY <1>9, SmallSize
    <3> QED
      BY Zenon, <1>11, <1>18, <3>1 DEF Size
  <2>2. Len(a) = 2
    BY <1>12, <2>1
  <2>3. Len(w) >= 3
    BY <1>14, <1>16, <2>2
  <2>4. w[3] = y[1]
    <3>1. w[Len(a) + 1] = y[1]
      BY <1>14, <1>16
    <3> QED
      BY <2>2, <3>1
  <2> QED
    BY Zenon, <1>6, <1>9, <1>10, <1>13, <1>15, <2>3, <2>4
<1> QED
  BY Zenon, <1>17, <1>18

\* Of those bytes nothing ever comes: the length begins too late, and is too
\* short for the headers.
LEMMA NothingIsRead ==
  ASSUME NEW b \in Seq(Byte), Len(b) >= 1 => b[1] \div 16 = 2,
         Len(b) >= 3 => b[3] \in {0, 1}
  PROVE  packet("dropped", b).is \in {"Incomplete", "Underflow"}
<1>1. CASE b = <<>>
  BY <1>1 DEF packet, packet_type, Incomplete
<1>2. CASE b # <<>>
  <2>1. Len(b) >= 1 /\ 2 \in PacketTypes
    BY <1>2, KnownTypes
  <2>2. PICK o \in Nat : o = 1
    OBVIOUS
  <2>3. PICK u \in Seq(Byte) : u = From(b, 2) /\ Len(u) = Len(b) - 1
                           /\ \A i \in 1..Len(b) - 1 : u[i] = b[1 + i]
    <3>1. /\ From(b, o + 1) \in Seq(Byte) /\ Len(From(b, o + 1)) = Len(b) - o
          /\ \A i \in 1..Len(b) - o : From(b, o + 1)[i] = b[o + i]
      BY <2>1, <2>2, FromPlace
    <3>2. o + 1 = 2
      BY <2>2
    <3> QED
      BY Zenon, <2>2, <3>1, <3>2
  <2>4. packet_type(b) = Done(2, u)
    BY <1>2, <2>1, <2>3 DEF packet_type
  <2>5. PICK ty : ty = packet_type(b)
    OBVIOUS
  <2>6. ty.is = "Done" /\ ty.value = 2 /\ ty.rest = u
    BY <2>4, <2>5, DoneParts
  <2>7. CASE u = <<>>
    <3>1. packet_flags("dropped", b[1], u) = Incomplete
      BY <2>7 DEF packet_flags
    <3>2. packet("dropped", b) = Incomplete
      BY <2>5, <2>6, <3>1 DEF packet, Incomplete
    <3> QED
      BY <3>2 DEF Incomplete
  <2>8. CASE u # <<>>
    <3>1. Len(u) >= 1
      BY <2>8
    <3>2. PICK v \in Seq(Byte) : v = From(u, 2) /\ Len(v) = Len(b) - 2
                             /\ (Len(v) >= 1 => v[1] = b[3])
      <4>1. /\ From(u, o + 1) \in Seq(Byte) /\ Len(From(u, o + 1)) = Len(u) - o
            /\ \A i \in 1..Len(u) - o : From(u, o + 1)[i] = u[o + i]
        BY <2>2, <3>1, FromPlace
      <4>2. o + 1 = 2 /\ o = 1
        BY <2>2
      <4>3. PICK v : v = From(u, 2)
        OBVIOUS
      <4>4. v \in Seq(Byte) /\ Len(v) = Len(u) - 1 /\ \A i \in 1..Len(u) - 1 : v[i] = u[1 + i]
        BY Zenon, <4>1, <4>2, <4>3
      <4>5. ASSUME Len(v) >= 1 PROVE v[1] = b[3]
        <5>1. 1 \in 1..Len(u) - 1 /\ 2 \in 1..Len(b) - 1 /\ 1 + 1 = 2 /\ 1 + 2 = 3
          BY <2>3, <4>4, <4>5
        <5>2. v[1] = u[2]
          BY <4>4, <5>1
        <5>3. u[2] = b[3]
          BY <2>3, <5>1
        <5> QED
          BY Zenon, <5>2, <5>3
      <4>6. Len(v) = Len(b) - 2
        BY <2>3, <4>4
      <4> QED
        BY Zenon, <4>3, <4>4, <4>5, <4>6
    <3>3. PICK flags : flags = packet_flags("dropped", b[1], u)
      OBVIOUS
    <3>4. PICK fl : fl = u[1] \div 16
      OBVIOUS
    <3>5. flags = Done(fl, v)
      BY <2>8, <3>2, <3>3, <3>4 DEF packet_flags
    <3>6. flags.is = "Done" /\ flags.rest = v /\ flags.value = fl
      BY <3>5, DoneParts
    <3>7. PICK re_len : re_len = decode_vle(v)
      OBVIOUS
    <3>8. PICK headers : headers = packet_headers(2, fl, re_len.rest)
      OBVIOUS
    <3>9. packet("dropped", b) = IF re_len.is # "Done" THEN re_len
                                 ELSE IF headers.is # "Done" THEN headers
                                 ELSE WithPayload(2, fl, re_len.value, re_len.rest, headers)
      BY Zenon, <2>5, <2>6, <3>3, <3>6, <3>7, <3>8 DEF packet
    <3>10. CASE v = <<>>
      <4>1. PICK n \in Nat : n = 0
        OBVIOUS
      <4>2. re_len = Incomplete
        <5>1. n < 128 /\ Len(v) = 0 /\ ~(Len(v) >= 1)
          BY <3>10, <4>1
        <5> QED
          BY Zenon, <3>7, <5>1, SmallIsRead
      <4> QED
        BY <3>9, <4>2 DEF Incomplete
    <3>11. CASE v # <<>>
      <4>1. Len(v) >= 1 /\ Len(b) >= 3
        BY <3>2, <3>11
      <4>2. PICK n \in {0, 1} : n = v[1]
        BY <3>2, <4>1
      <4>3. n \in Nat /\ n < 128
        BY <4>2
      <4>6. re_len = Done(n, From(v, 2))
        BY Zenon, <3>7, <4>1, <4>2, <4>3, SmallIsRead
      <4>7. PICK z \in Seq(Byte) : z = From(v, 2)
        <5>1. From(v, o + 1) \in Seq(Byte)
          BY <2>2, <4>1, FromPlace
        <5>2. o + 1 = 2
          BY <2>2
        <5> QED
          BY Zenon, <5>1, <5>2
      <4>8. re_len.is = "Done" /\ re_len.value = n /\ re_len.rest = z
        BY <4>6, <4>7, DoneParts
      <4>9. headers = IF Len(z) < 2 THEN Incomplete ELSE Done(<<<<z[1]>>, <<z[2]>>>>, From(z, 3))
        <5>1. PacketType.ConnAck = 2
          BY DEF PacketType
        <5> QED
          BY <3>8, <4>8, <5>1 DEF packet_headers, PacketType, AckTypes
      <4>10. CASE Len(z) < 2
        <5>1. headers = Incomplete
          BY <4>9, <4>10
        <5>2. packet("dropped", b) = Incomplete
          BY <3>9, <4>8, <5>1 DEF Incomplete
        <5> QED
          BY <5>2 DEF Incomplete
      <4>11. CASE ~(Len(z) < 2)
        <5>1. PICK hs, rest : /\ rest = From(z, 3) /\ headers = Done(hs, rest)
          BY Zenon, <4>9, <4>11
        <5>2. headers.is = "Done" /\ headers.rest = rest
          BY ONLY <5>1, DoneParts
        <5>3. Len(rest) = Len(z) - 2
          <6>1. PICK q \in Nat : q = 2
            OBVIOUS
          <6>2. Len(From(z, q + 1)) = Len(z) - q
            BY <4>11, <6>1, FromPlace
          <6>3. q + 1 = 3
            BY <6>1
          <6> QED
            BY Zenon, <5>1, <6>1, <6>2, <6>3
        <5>4. packet("dropped", b) = WithPayload(2, fl, n, z, headers)
          BY Zenon, <3>9, <4>8, <5>2
        <5>5. n - (Len(z) - Len(rest)) < 0
          BY <4>2, <5>3
        <5>6. packet("dropped", b) = Underflow
          BY Zenon, <5>2, <5>4, <5>5 DEF WithPayload
        <5> QED
          BY <5>6 DEF Underflow
      <4> QED
        BY Zenon, <4>10, <4>11
    <3> QED
      BY Zenon, <3>10, <3>11
  <2> QED
    BY Zenon, <2>7, <2>8
<1> QED
  BY Zenon, <1>1, <1>2

\* So much of a stream as has been read.
LEMMA DroppedIsNothing ==
  ASSUME NEW ss \in Seq([packet : ServerPackets, wide : BOOLEAN]),
         \A i \in DOMAIN ss : Sent(ss[i]), ss # <<>> => Greeting(ss[1].packet),
         NEW b \in Seq(Byte), NEW w \in Seq(Byte), OnStream(b, w, ss)
  PROVE  packet("dropped", b).is \in {"Incomplete", "Underflow"}
<1>1. CASE ss = <<>>
  <2>1. b = <<>>
    BY Zenon, <1>1, StreamIsRead
  <2> QED
    BY <2>1 DEF packet, packet_type, Incomplete
<1>2. CASE ss # <<>>
  <2>1. PICK s : s = ss[1]
    OBVIOUS
  <2>2. Sent(s) /\ Greeting(s.packet)
    BY <1>2, <2>1
  <2>3. /\ OnWire(s) \in Seq(Byte) /\ Len(OnWire(s)) >= 3
        /\ OnWire(s)[1] \div 16 = 2
        /\ OnWire(s)[3] \in {0, 1}
    BY Zenon, <2>2, GreetingBytes
  <2>4. Agree(b, OnWire(s))
    BY Zenon, <1>2, <2>1, StreamIsRead
  <2>5. Len(b) >= 1 => b[1] = OnWire(s)[1]
    BY <2>3, <2>4 DEF Agree
  <2>6. Len(b) >= 3 => b[3] = OnWire(s)[3]
    BY <2>3, <2>4 DEF Agree
  <2> QED
    BY Zenon, <2>3, <2>5, <2>6, NothingIsRead
<1> QED
  BY Zenon, <1>1, <1>2

-----------------------------------------------------------------------------
(* What is decoded is what was sent.                                       *)

\* A script is what a server sends, and it greets first.
SentScript(ss) ==
  /\ ss \in Seq([packet : ServerPackets, wide : BOOLEAN])
  /\ \A i \in DOMAIN ss : Sent(ss[i])
  /\ ss # <<>> => Greeting(ss[1].packet)

Tellings == {Told(p) : p \in ServerPackets}

\* The buffer is never longer than the room it has.
Shape ==
  /\ halves \in Halves
  /\ SentScript(script)
  /\ buf \in Seq(Byte)
  /\ wire \in Seq(Byte)
  /\ window \in Nat /\ window <= Capacity
  /\ state = "Open" => Len(buf) <= window
  /\ readable \in BOOLEAN
  /\ state \in {"Open", "Failed", "Crashed"}

\* Between two calls what is in the buffer and on the wire is the rest of the
\* script, and nothing foreign was told.
KeptInStep ==
  halves = "kept" =>
    /\ out \in Seq(Tellings)
    /\ Len(out) <= Len(script)
    /\ \A i \in 1..Len(out) : out[i] = Told(script[i].packet) /\ ~Foreign(script[i].packet)
    /\ state = "Open" => OnStream(buf, wire, Left)
    /\ state = "Failed" => Left # <<>> /\ Foreign(Left[1].packet)

\* With half a byte dropped it stays the whole script.
DroppedInStep ==
  halves = "dropped" => out = <<>> /\ (state = "Open" => OnStream(buf, wire, script))

DecodeInv == Shape /\ KeptInStep /\ DroppedInStep

\* The scripts of the instance are such scripts, and so is none.
LEMMA ScriptsAreSent ==
  /\ \A ss \in Scripts : SentScript(ss)
  /\ SentScript(<<>>)
<1>1. ASSUME NEW ss \in Scripts PROVE SentScript(ss)
  <2>1. ServerScript(ss)
    BY <1>1, FramingAssumption
  <2>2. /\ ss \in Seq([packet : ServerPackets, wide : BOOLEAN])
        /\ \A i \in DOMAIN ss : /\ Lawful(ss[i].packet)
                                /\ ss[i].wide => Len(Body(ss[i].packet)) < 128
        /\ ss # <<>> => Greeting(ss[1].packet)
    BY Zenon, <2>1 DEF ServerScript
  <2>3. ASSUME NEW i \in DOMAIN ss PROVE Sent(ss[i])
    <3>1. ss[i] \in [packet : ServerPackets, wide : BOOLEAN]
      <4>1. PICK S : S = [packet : ServerPackets, wide : BOOLEAN]
        OBVIOUS
      <4>2. ss \in Seq(S)
        BY Zenon, <2>2, <4>1
      <4>3. ss[i] \in S
        BY ONLY <2>3, <4>2
      <4> QED
        BY Zenon, <4>1, <4>3
    <3> QED
      BY Zenon, <2>2, <2>3, <3>1 DEF Sent
  <2> QED
    BY Zenon, <2>2, <2>3 DEF SentScript
<1>2. SentScript(<<>>)
  BY DEF SentScript
<1> QED
  BY <1>1, <1>2

\* The rest of a script: its first packet is the next one.
LEMMA RestOfScript ==
  ASSUME NEW ss, SentScript(ss), NEW k \in Nat, k <= Len(ss)
  PROVE  /\ From(ss, k + 1) \in Seq([packet : ServerPackets, wide : BOOLEAN])
         /\ \A i \in DOMAIN From(ss, k + 1) : Sent(From(ss, k + 1)[i])
         /\ From(ss, k + 1) # <<>> =>
              /\ k + 1 <= Len(ss)
              /\ From(ss, k + 1)[1] = ss[k + 1]
              /\ Tail(From(ss, k + 1)) = From(ss, (k + 1) + 1)
<1>1. ss \in Seq([packet : ServerPackets, wide : BOOLEAN]) /\ \A i \in DOMAIN ss : Sent(ss[i])
  BY DEF SentScript
<1>2. PICK u : u = From(ss, k + 1)
  OBVIOUS
<1>3. /\ u \in Seq([packet : ServerPackets, wide : BOOLEAN])
      /\ Len(u) = Len(ss) - k
      /\ \A i \in 1..Len(ss) - k : u[i] = ss[k + i]
  BY <1>1, <1>2, FromPlace
<1>4. ASSUME NEW i \in DOMAIN u PROVE Sent(u[i])
  <2>1. i \in 1..Len(ss) - k
    BY <1>3
  <2>2. PICK j : j = k + i
    OBVIOUS
  <2>3. j \in DOMAIN ss
    BY <1>1, <2>1, <2>2
  <2>4. u[i] = ss[k + i]
    BY <1>3, <2>1
  <2> QED
    BY Zenon, <1>1, <2>2, <2>3, <2>4
<1>5. ASSUME u # <<>>
      PROVE  k + 1 <= Len(ss) /\ u[1] = ss[k + 1] /\ Tail(u) = From(ss, (k + 1) + 1)
  <2>1. Len(u) >= 1
    BY <1>3, <1>5
  <2>2. k + 1 <= Len(ss) /\ 1 \in 1..Len(ss) - k
    BY <1>1, <1>3, <2>1
  <2>3. u[1] = ss[k + 1]
    BY <1>3, <2>2
  <2>4. Tail(u) = From(ss, (k + 1) + 1)
    <3>1. PICK o \in Nat : o = 1
      OBVIOUS
    <3>2. PICK d \in Nat : d = k + o /\ d = k + 1
      BY <3>1
    <3>3. From(From(ss, k + 1), o + 1) = From(ss, d + 1)
      BY <1>1, <2>2, <3>1, <3>2, FromTwice
    <3>4. Tail(u) = From(u, 2)
      BY <1>3, <1>5, TailIsSubSeq DEF From
    <3>5. o + 1 = 2
      BY <3>1
    <3> QED
      BY Zenon, <1>2, <3>2, <3>3, <3>4, <3>5
  <2> QED
    BY Zenon, <2>2, <2>3, <2>4
<1> QED
  BY Zenon, <1>2, <1>3, <1>4, <1>5

\* A packet that is told is the first, all of it was there, and the rest of the
\* buffer is the beginning of the next one.
LEMMA DoneIsFirst ==
  ASSUME NEW ss \in Seq([packet : ServerPackets, wide : BOOLEAN]),
         \A i \in DOMAIN ss : Sent(ss[i]),
         NEW b \in Seq(Byte), NEW w \in Seq(Byte), OnStream(b, w, ss),
         NEW r, r = packet("kept", b)
  PROVE  /\ r.is = "Done" =>
              /\ ss # <<>> /\ ~Foreign(ss[1].packet) /\ ~Short(ss[1].packet)
              /\ r.value = Told(ss[1].packet)
              /\ r.rest \in Seq(Byte)
              /\ Len(OnWire(ss[1])) \in Nat
              /\ Len(b) = Len(OnWire(ss[1])) + Len(r.rest)
              /\ OnStream(r.rest, w, Tail(ss))
         /\ r.is = "Error" => ss # <<>> /\ Foreign(ss[1].packet)
         /\ r.is = "Underflow" => ss # <<>> /\ Short(ss[1].packet)
         /\ r.is = "Incomplete" =>
              ss = <<>> \/ Short(ss[1].packet) \/ Len(b) < Len(OnWire(ss[1]))
<1>1. CASE ss = <<>>
  <2>1. r = Incomplete
    BY Zenon, <1>1, StreamIsRead
  <2> QED
    BY <1>1, <2>1 DEF Incomplete
<1>2. CASE ss # <<>>
  <2>1. PICK p : p = ss[1].packet
    OBVIOUS
  <2>2. PICK m \in Nat :
          /\ m = Len(OnWire(ss[1])) /\ m >= 2
          /\ Reads(b, p, m, r)
          /\ Len(b) >= m => /\ From(b, m + 1) \in Seq(Byte)
                            /\ Len(From(b, m + 1)) = Len(b) - m
                            /\ OnStream(From(b, m + 1), w, Tail(ss))
    BY Zenon, <1>2, <2>1, StreamIsRead
  <2>3. /\ Foreign(p) => /\ r.is \in {"Incomplete", "Error"}
                         /\ Len(b) >= m => r.is = "Error"
        /\ Short(p) => r.is \in {"Incomplete", "Underflow"}
        /\ ~Foreign(p) /\ ~Short(p) =>
             /\ Len(b) < m => r = Incomplete
             /\ Len(b) >= m => r = Done(Told(p), From(b, m + 1))
    BY Zenon, <2>2 DEF Reads
  <2>4. Len(b) < m \/ Len(b) >= m
    OBVIOUS
  <2>5. Incomplete.is = "Incomplete"
    BY DEF Incomplete
  <2>6. CASE Foreign(p)
    <3>1. r.is \in {"Incomplete", "Error"} /\ (r.is = "Incomplete" => Len(b) < m)
      BY <2>3, <2>4, <2>6
    <3> QED
      BY <1>2, <2>1, <2>2, <2>6, <3>1
  <2>7. CASE Short(p)
    <3>1. r.is \in {"Incomplete", "Underflow"}
      BY Zenon, <2>3, <2>7
    <3> QED
      BY <1>2, <2>1, <2>7, <3>1
  <2>8. CASE ~Foreign(p) /\ ~Short(p)
    <3>1. CASE Len(b) < m
      <4>1. r = Incomplete
        BY Zenon, <2>3, <2>8, <3>1
      <4>2. r.is = "Incomplete"
        BY Zenon, <4>1, <2>5
      <4> QED
        BY <2>2, <3>1, <4>2
    <3>2. CASE Len(b) >= m
      <4>1. PICK rest : rest = From(b, m + 1)
        OBVIOUS
      <4>2. r = Done(Told(p), rest)
        BY Zenon, <2>3, <2>8, <3>2, <4>1
      <4>3. r.is = "Done" /\ r.value = Told(p) /\ r.rest = rest
        BY ONLY <4>2, DoneParts
      <4>4. rest \in Seq(Byte) /\ Len(rest) = Len(b) - m /\ OnStream(rest, w, Tail(ss))
        BY Zenon, <2>2, <3>2, <4>1
      <4>5. Len(b) = m + Len(rest)
        BY <4>4
      <4>6. r.is # "Error" /\ r.is # "Underflow" /\ r.is # "Incomplete"
        BY <4>3
      <4> QED
        BY Zenon, <1>2, <2>1, <2>2, <2>8, <4>3, <4>4, <4>5, <4>6
    <3> QED
      BY Zenon, <2>4, <3>1, <3>2
  <2> QED
    BY Zenon, <2>6, <2>7, <2>8
<1> QED
  BY Zenon, <1>1, <1>2

\* The left of the script is a part of it.
LEMMA LeftIsSent ==
  ASSUME Shape, Len(out) \in Nat, Len(out) <= Len(script)
  PROVE  /\ Left \in Seq([packet : ServerPackets, wide : BOOLEAN])
         /\ \A i \in DOMAIN Left : Sent(Left[i])
         /\ Left # <<>> =>
              /\ Len(out) + 1 <= Len(script)
              /\ Left[1] = script[Len(out) + 1]
              /\ Tail(Left) = From(script, (Len(out) + 1) + 1)
<1>1. SentScript(script)
  BY DEF Shape
<1>2. Left = From(script, Len(out) + 1)
  BY DEF Left, From
<1> QED
  BY Zenon, <1>1, <1>2, RestOfScript

\* At first everything is under way.
LEMMA InitDecodes ==
  ASSUME Init
  PROVE  DecodeInv
<1>1. SentScript(script)
  <2>1. script \in Scripts \/ script = <<>>
    BY DEF Init
  <2> QED
    BY Zenon, <2>1, ScriptsAreSent
<1>2. wire = Stream(script) /\ buf = <<>> /\ window = Capacity /\ readable = FALSE
      /\ out = <<>> /\ state = "Open" /\ halves \in Halves
  BY DEF Init
<1>3. script \in Seq([packet : ServerPackets, wide : BOOLEAN])
      /\ (\A i \in DOMAIN script : Sent(script[i]))
  BY Zenon, <1>1 DEF SentScript
<1>4. wire \in Seq(Byte)
  <2>1. CASE script = <<>>
    <3>1. wire = <<>>
      BY Zenon, <1>2, <2>1, StreamParts
    <3> QED
      BY <3>1
  <2>2. CASE script # <<>>
    BY Zenon, <1>2, <1>3, <2>2, StreamParts
  <2> QED
    BY Zenon, <2>1, <2>2
<1>5. OnStream(buf, wire, script)
  <2>1. buf \o wire = wire
    BY <1>2, <1>4
  <2> QED
    BY Zenon, <1>2, <2>1 DEF OnStream
<1>6. Left = script
  <2>1. Len(out) + 1 = 1
    BY <1>2
  <2>2. SubSeq(script, 1, Len(script)) = script
    BY <1>3
  <2> QED
    BY Zenon, <2>1, <2>2 DEF Left
<1>7. Shape
  <2>1. window \in Nat /\ window <= Capacity /\ buf \in Seq(Byte) /\ Len(buf) <= window
    BY <1>2, FramingAssumption
  <2>2. readable \in BOOLEAN /\ state \in {"Open", "Failed", "Crashed"}
    BY <1>2
  <2> QED
    BY Zenon, <1>1, <1>2, <1>4, <2>1, <2>2 DEF Shape
<1>8. KeptInStep
  <2>1. out \in Seq(Tellings) /\ Len(out) = 0
    BY <1>2
  <2>2. Len(out) <= Len(script) /\ ~(\E i : i \in 1..Len(out))
    BY <1>3, <2>1
  <2>3. state # "Failed"
    BY <1>2
  <2> QED
    BY Zenon, <1>5, <1>6, <2>1, <2>2, <2>3 DEF KeptInStep
<1>9. DroppedInStep
  BY Zenon, <1>2, <1>5 DEF DroppedInStep
<1> QED
  BY Zenon, <1>7, <1>8, <1>9 DEF DecodeInv

\* Reading moves bytes from the wire to the buffer, as many as fit.
LEMMA ReadMoves ==
  ASSUME Shape, Read
  PROVE  \E n \in Nat :
           /\ n >= 1 /\ n <= Len(wire)
           /\ buf' \in Seq(Byte) /\ Len(buf') = Len(buf) + n
           /\ wire' \in Seq(Byte) /\ Len(wire') = Len(wire) - n
           /\ buf' \o wire' = buf \o wire
           /\ window' \in Nat /\ window' <= Capacity /\ Len(buf') <= window'
           /\ window' = IF Len(buf) = window THEN Capacity ELSE window
<1>1. state = "Open"
  BY DEF Read
<1>2. /\ buf \in Seq(Byte) /\ wire \in Seq(Byte) /\ window \in Nat /\ window <= Capacity
      /\ Len(buf) <= window
  BY Zenon, <1>1 DEF Shape
<1>3. Capacity \in Nat
  BY FramingAssumption
<1>4. PICK room : room = IF Len(buf) = window THEN Capacity ELSE window
  OBVIOUS
<1>5. room \in Nat /\ room <= Capacity /\ Len(buf) <= room
  BY <1>2, <1>3, <1>4
<1>6. PICK n \in 1..Min({Len(wire), room - Len(buf)}) :
        buf' = buf \o SubSeq(wire, 1, n) /\ wire' = From(wire, n + 1) /\ window' = room
  BY Zenon, <1>4 DEF Read
<1>7. PICK x \in Nat, y \in Nat : x = Len(wire) /\ y = room - Len(buf)
  <2>1. Len(wire) \in Nat /\ room - Len(buf) \in Nat
    BY <1>2, <1>5
  <2> QED
    BY Zenon, <2>1
<1>8. Min({x, y}) \in Nat /\ Min({x, y}) <= x /\ Min({x, y}) <= y
  BY MinOfTwo
<1>9. n \in Nat /\ n >= 1 /\ n <= x /\ n <= y
  <2>1. n \in 1..Min({x, y})
    BY Zenon, <1>6, <1>7
  <2> QED
    BY <1>8, <2>1
<1>10. n <= Len(wire)
  BY <1>7, <1>9
<1>11. /\ buf' \in Seq(Byte) /\ Len(buf') = Len(buf) + n
       /\ wire' \in Seq(Byte) /\ Len(wire') = Len(wire) - n
       /\ buf' \o wire' = buf \o wire
  BY Zenon, <1>2, <1>6, <1>9, <1>10, ReadOn
<1>12. Len(buf') <= window'
  BY <1>2, <1>5, <1>6, <1>7, <1>9, <1>11
<1> QED
  BY Zenon, <1>4, <1>5, <1>6, <1>9, <1>10, <1>11, <1>12

\* It leaves everything else alone.
LEMMA ReadDecodes ==
  ASSUME DecodeInv, Read
  PROVE  DecodeInv'
<1>1. Shape /\ KeptInStep /\ DroppedInStep
  BY DEF DecodeInv
<1>2. PICK n \in Nat :
           /\ buf' \in Seq(Byte)
           /\ wire' \in Seq(Byte)
           /\ buf' \o wire' = buf \o wire
           /\ window' \in Nat /\ window' <= Capacity /\ Len(buf') <= window'
  BY Zenon, <1>1, ReadMoves
<1>3. /\ halves' = halves /\ script' = script /\ out' = out /\ state' = state
      /\ readable' = TRUE /\ state = "Open"
  BY DEF Read
<1>4. Left' = Left
  BY Zenon, <1>3 DEF Left
<1>5. \A ss : OnStream(buf, wire, ss) => OnStream(buf', wire', ss)
  BY Zenon, <1>2 DEF OnStream
<1>6. Shape'
  BY Zenon, <1>1, <1>2, <1>3 DEF Shape
<1>7. KeptInStep'
  BY Zenon, <1>1, <1>3, <1>4, <1>5 DEF KeptInStep
<1>8. DroppedInStep'
  BY Zenon, <1>1, <1>3, <1>5 DEF DroppedInStep
<1> QED
  BY Zenon, <1>6, <1>7, <1>8 DEF DecodeInv

\* What is put back is in the buffer, unless there was no room.
LEMMA PutBackKeeps ==
  ASSUME Shape, state = "Open", NEW s \in Seq(Byte), PutBack(s)
  PROVE  /\ window' = window - Len(buf) /\ window' \in Nat /\ window' <= Capacity
         /\ buf' \in Seq(Byte)
         /\ Len(s) <= window' => buf' = s /\ state' = "Open"
         /\ ~(Len(s) <= window') => buf' = <<>> /\ state' = "Crashed"
<1>1. window \in Nat /\ window <= Capacity /\ Len(buf) <= window /\ buf \in Seq(Byte)
  BY Zenon DEF Shape
<1>2. window' = window - Len(buf)
  BY DEF PutBack
<1>3. window' \in Nat /\ window' <= Capacity
  BY <1>1, <1>2, FramingAssumption
<1>4. CASE Len(s) <= window - Len(buf)
  <2>1. buf' = s /\ state' = state
    BY Zenon, <1>4 DEF PutBack
  <2> QED
    BY Zenon, <1>2, <1>3, <1>4, <2>1
<1>5. CASE ~(Len(s) <= window - Len(buf))
  <2>1. buf' = <<>> /\ state' = "Crashed"
    BY Zenon, <1>5 DEF PutBack
  <2>2. <<>> \in Seq(Byte)
    OBVIOUS
  <2> QED
    BY Zenon, <1>2, <1>3, <1>5, <2>1, <2>2
<1> QED
  BY Zenon, <1>4, <1>5

\* What a decoder leaves behind: s in the buffer, or the end of the stream.
Leaves(s) ==
  /\ window' = window - Len(buf) /\ window' \in Nat /\ window' <= Capacity
  /\ \/ state' = "Open" /\ buf' = s /\ s \in Seq(Byte) /\ Len(s) <= window'
     \/ state' \in {"Failed", "Crashed"} /\ buf' = <<>>

\* So the shape is kept.
LEMMA LeavesShape ==
  ASSUME Shape, NEW s, Leaves(s), halves' = halves, script' = script, wire' = wire,
         readable' \in BOOLEAN
  PROVE  Shape'
<1>1. <<>> \in Seq(Byte)
  OBVIOUS
<1>2. buf' \in Seq(Byte) /\ (state' = "Open" => Len(buf') <= window')
      /\ state' \in {"Open", "Failed", "Crashed"}
  <2>1. CASE state' = "Open" /\ buf' = s /\ s \in Seq(Byte) /\ Len(s) <= window'
    BY <2>1
  <2>2. CASE state' \in {"Failed", "Crashed"} /\ buf' = <<>>
    BY <1>1, <2>2
  <2> QED
    BY Zenon, <2>1, <2>2 DEF Leaves
<1> QED
  BY Zenon, <1>2 DEF Shape, Leaves

\* The decoder, by what the parser says.
LEMMA DecodeLeaves ==
  ASSUME Shape, Decode, NEW r, r = packet(halves, buf),
         r.is = "Done" => r.rest \in Seq(Byte)
  PROVE  /\ state = "Open" /\ readable
         /\ halves' = halves /\ script' = script /\ wire' = wire /\ readable' \in BOOLEAN
         /\ \/ /\ r.is = "Done" /\ out' = Append(out, r.value) /\ Leaves(r.rest)
               /\ state' # "Failed" /\ readable' = readable
               /\ state' = "Crashed" => Len(r.rest) > window - Len(buf)
            \/ /\ r.is \in {"Incomplete", "Underflow"} /\ out' = out /\ Leaves(buf)
               /\ state' # "Failed" /\ ~readable'
               /\ state' = "Crashed" => Len(buf) > window - Len(buf)
            \/ /\ r.is = "Underflow" /\ out' = out /\ Leaves(buf) /\ state' = "Crashed"
            \/ /\ r.is = "Error" /\ out' = out /\ Leaves(buf) /\ state' = "Failed"
<1>1. /\ state = "Open" /\ readable
      /\ halves' = halves /\ script' = script /\ wire' = wire
  BY DEF Decode
<1>2. readable \in BOOLEAN
  BY Zenon DEF Shape
<1>3. window \in Nat /\ window <= Capacity /\ Len(buf) <= window /\ buf \in Seq(Byte)
  BY Zenon, <1>1 DEF Shape
<1>4. window - Len(buf) \in Nat /\ window - Len(buf) <= Capacity
  BY <1>3, FramingAssumption
<1>5. DecodePacket(r) \/ DecodeNothing(r) \/ DecodeUnderflow(r) \/ DecodeError(r)
  BY Zenon DEF Decode
<1>6. ASSUME NEW s \in Seq(Byte), PutBack(s)
      PROVE  /\ Leaves(s) /\ state' # "Failed"
             /\ state' = "Crashed" => Len(s) > window - Len(buf)
  <2>1. /\ window' = window - Len(buf) /\ window' \in Nat /\ window' <= Capacity
        /\ Len(s) <= window' => buf' = s /\ state' = "Open"
        /\ ~(Len(s) <= window') => buf' = <<>> /\ state' = "Crashed"
    BY Zenon, <1>1, <1>6, PutBackKeeps
  <2>2. CASE Len(s) <= window'
    <3>1. buf' = s /\ state' = "Open"
      BY Zenon, <2>1, <2>2
    <3>2. state' # "Failed" /\ state' # "Crashed"
      BY <3>1
    <3> QED
      BY Zenon, <1>6, <2>1, <2>2, <3>1, <3>2 DEF Leaves
  <2>3. CASE ~(Len(s) <= window')
    <3>1. buf' = <<>> /\ state' = "Crashed"
      BY Zenon, <2>1, <2>3
    <3>2. state' # "Failed" /\ state' \in {"Failed", "Crashed"}
      BY <3>1
    <3>3. Len(s) > window - Len(buf)
      BY <1>4, <1>6, <2>1, <2>3
    <3> QED
      BY Zenon, <2>1, <3>1, <3>2, <3>3 DEF Leaves
  <2> QED
    BY Zenon, <2>2, <2>3
<1>7. CASE DecodePacket(r)
  <2>1. r.is = "Done" /\ out' = Append(out, r.value) /\ PutBack(r.rest) /\ readable' = readable
    BY Zenon, <1>7 DEF DecodePacket
  <2> QED
    BY Zenon, <1>1, <1>2, <1>6, <2>1
<1>8. CASE DecodeNothing(r)
  <2>1. r.is \in {"Incomplete", "Underflow"} /\ out' = out /\ PutBack(buf) /\ readable' = FALSE
    BY Zenon, <1>8 DEF DecodeNothing
  <2>2. readable' \in BOOLEAN /\ ~readable'
    BY <2>1
  <2> QED
    BY Zenon, <1>1, <1>3, <1>6, <2>1, <2>2
<1>9. CASE DecodeUnderflow(r)
  <2>1. /\ r.is = "Underflow" /\ out' = out /\ state' = "Crashed" /\ buf' = <<>>
        /\ window' = window - Len(buf) /\ readable' = readable
    BY Zenon, <1>9 DEF DecodeUnderflow
  <2>2. Leaves(buf)
    BY <1>4, <2>1 DEF Leaves
  <2> QED
    BY Zenon, <1>1, <1>2, <2>1, <2>2
<1>10. CASE DecodeError(r)
  <2>1. /\ r.is = "Error" /\ out' = out /\ state' = "Failed" /\ buf' = <<>>
        /\ window' = window - Len(buf) /\ readable' = readable
    BY Zenon, <1>10 DEF DecodeError
  <2>2. Leaves(buf)
    BY <1>4, <2>1 DEF Leaves
  <2> QED
    BY Zenon, <1>1, <1>2, <2>1, <2>2
<1> QED
  BY Zenon, <1>5, <1>7, <1>8, <1>9, <1>10

\* A packet is taken off the script, and one is told.
LEMMA ToldNext ==
  ASSUME Shape, out \in Seq(Tellings), Len(out) <= Len(script),
         \A i \in 1..Len(out) : out[i] = Told(script[i].packet) /\ ~Foreign(script[i].packet),
         Left # <<>>, ~Foreign(Left[1].packet), script' = script,
         NEW v, v = Told(Left[1].packet), out' = Append(out, v)
  PROVE  /\ out' \in Seq(Tellings)
         /\ Len(out') = Len(out) + 1
         /\ Len(out') <= Len(script)
         /\ \A i \in 1..Len(out') : out'[i] = Told(script[i].packet) /\ ~Foreign(script[i].packet)
         /\ Left' = Tail(Left)
<1>1. PICK k \in Nat : k = Len(out)
  OBVIOUS
<1>2. k + 1 <= Len(script) /\ Left[1] = script[k + 1] /\ Tail(Left) = From(script, (k + 1) + 1)
  BY Zenon, <1>1, LeftIsSent
<1>3. v \in Tellings
  <2>1. script \in Seq([packet : ServerPackets, wide : BOOLEAN])
    BY Zenon DEF Shape, SentScript
  <2>2. PICK S : S = [packet : ServerPackets, wide : BOOLEAN]
    OBVIOUS
  <2>3. script \in Seq(S)
    BY Zenon, <2>1, <2>2
  <2>4. script[k + 1] \in S
    BY ONLY <1>2, <2>3, k \in Nat
  <2>5. \A s \in [packet : ServerPackets, wide : BOOLEAN] : s.packet \in ServerPackets
    OBVIOUS
  <2>6. Left[1].packet \in ServerPackets
    BY Zenon, <1>2, <2>2, <2>4, <2>5
  <2> QED
    BY Zenon, <2>6 DEF Tellings
<1>4. /\ out' \in Seq(Tellings) /\ Len(out') = k + 1
      /\ \A i \in 1..k : out'[i] = out[i]
      /\ out'[k + 1] = v
  <2>1. /\ Append(out, v) \in Seq(Tellings) /\ Len(Append(out, v)) = Len(out) + 1
        /\ \A i \in 1..Len(out) : Append(out, v)[i] = out[i]
        /\ Append(out, v)[Len(out) + 1] = v
    BY ONLY <1>3, out \in Seq(Tellings), AppendProperties
  <2> QED
    BY Zenon, <1>1, <2>1
<1>5. ASSUME NEW i \in 1..Len(out')
      PROVE  out'[i] = Told(script[i].packet) /\ ~Foreign(script[i].packet)
  <2>1. i \in 1..k \/ i = k + 1
    BY <1>4
  <2>2. CASE i \in 1..k
    BY Zenon, <1>1, <1>4, <2>2
  <2>3. CASE i = k + 1
    BY Zenon, <1>2, <1>4, <2>3
  <2> QED
    BY Zenon, <2>1, <2>2, <2>3
<1>6. Left' = Tail(Left)
  <2>1. Left' = SubSeq(script, Len(out') + 1, Len(script))
    BY Zenon DEF Left
  <2> QED
    BY Zenon, <1>2, <1>4, <2>1 DEF From
<1> QED
  BY Zenon, <1>1, <1>2, <1>4, <1>5, <1>6

\* What the parser says of the buffer as it is written: the first packet of the
\* left, or what keeps it from being told.
LEMMA KeptSays ==
  ASSUME DecodeInv, halves = "kept", state = "Open", NEW r, r = packet(halves, buf)
  PROVE  /\ r.is = "Done" =>
              /\ Left # <<>> /\ ~Foreign(Left[1].packet) /\ ~Short(Left[1].packet)
              /\ r.value = Told(Left[1].packet)
              /\ r.rest \in Seq(Byte)
              /\ Len(OnWire(Left[1])) \in Nat
              /\ Len(buf) = Len(OnWire(Left[1])) + Len(r.rest)
              /\ OnStream(r.rest, wire, Tail(Left))
         /\ r.is = "Error" => Left # <<>> /\ Foreign(Left[1].packet)
         /\ r.is = "Underflow" => Left # <<>> /\ Short(Left[1].packet)
         /\ r.is = "Incomplete" =>
              Left = <<>> \/ Short(Left[1].packet) \/ Len(buf) < Len(OnWire(Left[1]))
<1>1. Shape /\ KeptInStep
  BY DEF DecodeInv
<1>2. /\ out \in Seq(Tellings) /\ Len(out) <= Len(script)
      /\ OnStream(buf, wire, Left)
  BY Zenon, <1>1 DEF KeptInStep
<1>3. Len(out) \in Nat
  BY <1>2
<1>4. /\ Left \in Seq([packet : ServerPackets, wide : BOOLEAN])
      /\ \A i \in DOMAIN Left : Sent(Left[i])
  BY Zenon, <1>1, <1>2, <1>3, LeftIsSent
<1>5. buf \in Seq(Byte) /\ wire \in Seq(Byte)
  BY Zenon, <1>1 DEF Shape
<1>6. r = packet("kept", buf)
  BY Zenon
<1> QED
  BY ONLY Zenon, <1>2, <1>4, <1>5, <1>6, DoneIsFirst

\* Of a stream whose parser drops half a byte nothing is told.
LEMMA DroppedSays ==
  ASSUME DecodeInv, halves = "dropped", state = "Open", NEW r, r = packet(halves, buf)
  PROVE  r.is \in {"Incomplete", "Underflow"}
<1>1. Shape /\ DroppedInStep
  BY DEF DecodeInv
<1>2. SentScript(script) /\ buf \in Seq(Byte) /\ wire \in Seq(Byte)
  BY Zenon, <1>1 DEF Shape
<1>3. OnStream(buf, wire, script)
  BY Zenon, <1>1 DEF DroppedInStep
<1>4. /\ script \in Seq([packet : ServerPackets, wide : BOOLEAN])
      /\ \A i \in DOMAIN script : Sent(script[i])
      /\ script # <<>> => Greeting(script[1].packet)
  BY Zenon, <1>2 DEF SentScript
<1>5. packet("dropped", buf).is \in {"Incomplete", "Underflow"}
  BY Zenon, <1>2, <1>3, <1>4, DroppedIsNothing
<1> QED
  BY Zenon, <1>5

\* Decoding keeps in step, whatever comes of it.
LEMMA DecodeDecodes ==
  ASSUME DecodeInv, Decode
  PROVE  DecodeInv'
<1>1. Shape /\ KeptInStep /\ DroppedInStep
  BY DEF DecodeInv
<1>2. PICK r : r = packet(halves, buf)
  OBVIOUS
<1>3. state = "Open" /\ halves \in {"kept", "dropped"}
  BY <1>1 DEF Decode, Shape, Halves
<1>4. r.is = "Done" => halves = "kept" /\ r.rest \in Seq(Byte)
  <2>1. CASE halves = "kept"
    BY Zenon, <1>2, <1>3, <2>1, KeptSays
  <2>2. CASE halves = "dropped"
    <3>1. r.is \in {"Incomplete", "Underflow"}
      BY Zenon, <1>2, <1>3, <2>2, DroppedSays
    <3>2. r.is # "Done"
      BY <3>1
    <3> QED
      BY Zenon, <3>2
  <2> QED
    BY Zenon, <1>3, <2>1, <2>2
<1>5. /\ halves' = halves /\ script' = script /\ wire' = wire /\ readable' \in BOOLEAN
      /\ \/ r.is = "Done" /\ out' = Append(out, r.value) /\ Leaves(r.rest) /\ state' # "Failed"
         \/ /\ r.is \in {"Incomplete", "Underflow"} /\ out' = out /\ Leaves(buf)
            /\ state' # "Failed"
         \/ r.is = "Underflow" /\ out' = out /\ Leaves(buf) /\ state' = "Crashed"
         \/ r.is = "Error" /\ out' = out /\ Leaves(buf) /\ state' = "Failed"
  BY Zenon, <1>1, <1>2, <1>4, DecodeLeaves
<1>6. \A s : Leaves(s) => (state' = "Open" => buf' = s)
  BY DEF Leaves
<1>7. Shape'
  BY Zenon, <1>1, <1>5, LeavesShape
<1>8. "Failed" # "Crashed" /\ "Open" # "Failed" /\ "Open" # "Crashed"
  OBVIOUS
<1>9. KeptInStep'
  <2>1. CASE halves # "kept"
    BY Zenon, <1>5, <2>1 DEF KeptInStep
  <2>2. CASE halves = "kept"
    <3>1. /\ out \in Seq(Tellings)
          /\ Len(out) <= Len(script)
          /\ \A i \in 1..Len(out) :
               out[i] = Told(script[i].packet) /\ ~Foreign(script[i].packet)
          /\ OnStream(buf, wire, Left)
      BY Zenon, <1>1, <1>3, <2>2 DEF KeptInStep
    <3>2. CASE r.is = "Done" /\ out' = Append(out, r.value) /\ Leaves(r.rest) /\ state' # "Failed"
      <4>1. /\ Left # <<>> /\ ~Foreign(Left[1].packet)
            /\ r.value = Told(Left[1].packet)
            /\ OnStream(r.rest, wire, Tail(Left))
        BY Zenon, <1>2, <1>3, <2>2, <3>2, KeptSays
      <4>2. /\ out' \in Seq(Tellings)
            /\ Len(out') <= Len(script)
            /\ \A i \in 1..Len(out') :
                 out'[i] = Told(script[i].packet) /\ ~Foreign(script[i].packet)
            /\ Left' = Tail(Left)
        BY Zenon, <1>1, <1>5, <3>1, <3>2, <4>1, ToldNext
      <4>3. state' = "Open" => OnStream(buf', wire', Left')
        BY Zenon, <1>5, <1>6, <3>2, <4>1, <4>2
      <4> QED
        BY Zenon, <1>5, <3>2, <4>2, <4>3 DEF KeptInStep
    <3>3. CASE out' = out /\ Leaves(buf)
      <4>1. Left' = Left
        BY Zenon, <1>5, <3>3 DEF Left
      <4>2. state' = "Open" => OnStream(buf', wire', Left')
        BY Zenon, <1>5, <1>6, <3>1, <3>3, <4>1
      <4>3. state' = "Failed" => r.is = "Error" \/ r.is = "Done"
        BY Zenon, <1>5, <1>8
      <4>4. state' = "Failed" /\ r.is = "Done" => FALSE
        BY <1>5
      <4>5. state' = "Failed" => Left' # <<>> /\ Foreign(Left'[1].packet)
        <5>1. r.is = "Error" => Left # <<>> /\ Foreign(Left[1].packet)
          BY Zenon, <1>2, <1>3, <2>2, KeptSays
        <5> QED
          BY Zenon, <4>1, <4>3, <4>4, <5>1
      <4> QED
        BY Zenon, <1>5, <3>1, <3>3, <4>2, <4>5 DEF KeptInStep
    <3> QED
      BY Zenon, <1>5, <3>2, <3>3
  <2> QED
    BY Zenon, <2>1, <2>2
<1>10. DroppedInStep'
  <2>1. CASE halves # "dropped"
    BY Zenon, <1>5, <2>1 DEF DroppedInStep
  <2>2. CASE halves = "dropped"
    <3>1. out = <<>> /\ OnStream(buf, wire, script)
      BY Zenon, <1>1, <1>3, <2>2 DEF DroppedInStep
    <3>2. r.is # "Done"
      <4>1. "dropped" # "kept"
        OBVIOUS
      <4> QED
        BY Zenon, <1>4, <2>2, <4>1
    <3>3. out' = out /\ Leaves(buf)
      BY Zenon, <1>5, <3>2
    <3> QED
      BY Zenon, <1>5, <1>6, <3>1, <3>3 DEF DroppedInStep
  <2> QED
    BY Zenon, <2>1, <2>2
<1> QED
  BY Zenon, <1>7, <1>9, <1>10 DEF DecodeInv

\* The other direction has nothing to do with it.
LEMMA DecodeInvHolds == Spec => []DecodeInv
<1>1. Init => DecodeInv
  BY InitDecodes
<1>2. DecodeInv /\ [Next]_vars => DecodeInv'
  <2> SUFFICES ASSUME DecodeInv, [Next]_vars PROVE DecodeInv'
    OBVIOUS
  <2>1. CASE Read
    BY <2>1, ReadDecodes
  <2>2. CASE Decode
    BY <2>2, DecodeDecodes
  <2>3. CASE UNCHANGED reading
    <3>1. /\ halves' = halves /\ script' = script /\ wire' = wire /\ buf' = buf
          /\ window' = window /\ readable' = readable /\ out' = out /\ state' = state
      BY <2>3 DEF reading
    <3>2. Left' = Left
      BY Zenon, <3>1 DEF Left
    <3> QED
      BY Zenon, <3>1, <3>2 DEF DecodeInv, Shape, KeptInStep, DroppedInStep
  <2>4. Encode \/ UNCHANGED vars => UNCHANGED reading
    BY DEF Encode, vars
  <2> QED
    BY <2>1, <2>2, <2>3, <2>4 DEF Next
<1> QED
  BY <1>1, <1>2, PTL DEF Spec

\* For every script of a server, in every order of reading and decoding, and
\* for pieces of any size: what has been told is what was sent, packet by
\* packet, and what is in the buffer and on the wire is the rest (codec.rs:28-38).
THEOREM InStepHolds == Spec => []InStep
<1>1. DecodeInv => InStep
  <2> SUFFICES ASSUME DecodeInv, halves = "kept"
               PROVE  /\ Len(out) <= Len(script)
                      /\ \A i \in DOMAIN out : out[i] = Told(script[i].packet)
                      /\ state = "Open" => buf \o wire = Stream(Left)
    BY Zenon DEF InStep
  <2>1. KeptInStep
    BY DEF DecodeInv
  <2>2. /\ out \in Seq(Tellings) /\ Len(out) <= Len(script)
        /\ \A i \in 1..Len(out) : out[i] = Told(script[i].packet)
        /\ state = "Open" => OnStream(buf, wire, Left)
    BY Zenon, <2>1 DEF KeptInStep
  <2>3. DOMAIN out = 1..Len(out)
    BY <2>2
  <2> QED
    BY Zenon, <2>2, <2>3 DEF OnStream
<1> QED
  BY <1>1, DecodeInvHolds, PTL

\* The stream of packets never ends with an error about a packet that a server
\* may send: of a length cut anywhere the parser asks for more (mod.rs:93).
THEOREM OnlyForeignPacketsFail == Spec => []ErrorsAreForeign
<1>1. DecodeInv => ErrorsAreForeign
  BY Zenon DEF DecodeInv, KeptInStep, ErrorsAreForeign
<1> QED
  BY <1>1, DecodeInvHolds, PTL

\* As bits! is at this commit no packet ever comes out of the decoder, however
\* long the server goes on: the first, a CONNACK, stays incomplete or panics
\* (parsers.rs:95-98).
THEOREM NothingEverGetsThrough == Spec => []NothingGetsThrough
<1>1. DecodeInv => NothingGetsThrough
  BY Zenon DEF DecodeInv, DroppedInStep, NothingGetsThrough
<1> QED
  BY <1>1, DecodeInvHolds, PTL

-----------------------------------------------------------------------------
(* The room of the buffer.                                                 *)

\* Twice the sum of the numbers up to x.
Triangle(x) == x * (x + 1)

\* What the sums need: how they grow.
LEMMA TriangleGrows ==
  /\ Triangle(0) = 0
  /\ \A x \in Nat : /\ Triangle(x) \in Nat /\ Triangle(x) >= 2 * x
                    /\ Triangle(x) + 2 * x = x * (x + 3)
  /\ \A x \in Nat : x >= 1 => Triangle(x) = Triangle(x - 1) + 2 * x
  /\ \A x, y \in Nat : x <= y => Triangle(x) <= Triangle(y)
  /\ \A x, n \in Nat : n >= 1 => Triangle(x + n) >= Triangle(x) + 2 * x + Triangle(n)
<1>1. Triangle(0) = 0
  BY DEF Triangle
<1>2. ASSUME NEW x \in Nat
      PROVE  /\ Triangle(x) \in Nat /\ Triangle(x) >= 2 * x
             /\ Triangle(x) + 2 * x = x * (x + 3)
  <2>1. PICK y : y = x * x
    OBVIOUS
  <2>2. y \in Nat
    BY <2>1
  <2>3. y >= x
    <3>1. CASE x = 0
      BY <2>1, <3>1
    <3>2. CASE x >= 1
      <4>1. x * x >= x * 1
        BY <3>2
      <4> QED
        BY <2>1, <4>1
    <3> QED
      BY <3>1, <3>2
  <2>4. Triangle(x) = y + x
    BY <2>1 DEF Triangle
  <2>5. x * (x + 3) = y + 3 * x
    BY <2>1
  <2> QED
    BY <2>2, <2>3, <2>4, <2>5
<1>3. ASSUME NEW x \in Nat, x >= 1 PROVE Triangle(x) = Triangle(x - 1) + 2 * x
  <2>1. (x - 1) * ((x - 1) + 1) = x * x - x
    BY <1>3
  <2>2. x * (x + 1) = x * x + x
    OBVIOUS
  <2> QED
    BY <2>1, <2>2 DEF Triangle
<1>4. ASSUME NEW x \in Nat, NEW y \in Nat, x <= y PROVE Triangle(x) <= Triangle(y)
  <2>1. PICK k \in Nat : y = x + k
    <3>1. y - x \in Nat /\ y = x + (y - x)
      BY <1>4
    <3> QED
      BY Zenon, <3>1
  <2>2. PICK xx \in Nat, xk \in Nat, kk \in Nat : xx = x * x /\ xk = x * k /\ kk = k * k
    OBVIOUS
  <2>3. (x + k) * (x + k + 1) = xx + xk + xk + kk + x + k
    BY <2>2
  <2>4. x * (x + 1) = xx + x
    BY <2>2
  <2> QED
    BY <2>1, <2>2, <2>3, <2>4 DEF Triangle
<1>5. ASSUME NEW x \in Nat, NEW n \in Nat, n >= 1
      PROVE  Triangle(x + n) >= Triangle(x) + 2 * x + Triangle(n)
  <2>1. PICK xx \in Nat, xn \in Nat, nn \in Nat : xx = x * x /\ xn = x * n /\ nn = n * n
    OBVIOUS
  <2>2. (x + n) * (x + n + 1) = xx + xn + xn + nn + x + n
    BY <2>1
  <2>3. x * (x + 1) = xx + x /\ n * (n + 1) = nn + n
    BY <2>1
  <2>4. xn >= x
    <3>1. x * n >= x * 1
      BY <1>5
    <3> QED
      BY <2>1, <3>1
  <2> QED
    BY <2>1, <2>2, <2>3, <2>4 DEF Triangle
<1> QED
  BY Zenon, <1>1, <1>2, <1>3, <1>4, <1>5

\* What is behind the first l of b bytes, as a sum.
Behind(b, l) == IF b < l THEN 0 ELSE Triangle(b - l)

\* Reading n bytes to less than a packet: the sum grows by what is needed.
LEMMA ReadIsPaid ==
  ASSUME NEW d \in Nat, NEW n \in Nat, NEW b \in Nat, NEW u \in Nat, NEW l \in Nat,
         n >= 1, b < l, b <= d, 2 * u <= Triangle(d)
  PROVE  2 * (u + (b + n)) + Behind(b + n, l) <= Triangle(d + n)
<1>1. Triangle(d + n) >= Triangle(d) + 2 * d + Triangle(n)
  BY Zenon, TriangleGrows
<1>2. Triangle(n) \in Nat /\ Triangle(n) >= 2 * n /\ Triangle(d) \in Nat /\ Triangle(d + n) \in Nat
  <2>1. d + n \in Nat
    OBVIOUS
  <2> QED
    BY Zenon, <2>1, TriangleGrows
<1>3. CASE b + n < l
  BY <1>1, <1>2, <1>3 DEF Behind
<1>4. CASE ~(b + n < l)
  <2>1. PICK e \in Nat : e = (b + n) - l /\ e <= n - 1
    <3>1. (b + n) - l \in Nat /\ (b + n) - l <= n - 1
      BY <1>4
    <3> QED
      BY Zenon, <3>1
  <2>2. n - 1 \in Nat
    OBVIOUS
  <2>3. Triangle(e) <= Triangle(n - 1) /\ Triangle(n) = Triangle(n - 1) + 2 * n
    BY Zenon, <2>1, <2>2, TriangleGrows
  <2>4. Triangle(e) \in Nat /\ Triangle(n - 1) \in Nat
    BY Zenon, <2>1, <2>2, TriangleGrows
  <2>5. Behind(b + n, l) = Triangle(e)
    BY Zenon, <1>4, <2>1 DEF Behind
  <2> QED
    BY <1>1, <1>2, <2>3, <2>4, <2>5
<1> QED
  BY <1>3, <1>4

\* Telling a packet pays for what it leaves behind in the buffer.
LEMMA TellingIsPaid ==
  ASSUME NEW b \in Nat, NEW l \in Nat, l >= 1
  PROVE  2 * b + Behind(b, l) <= Triangle(b)
<1>1. Triangle(b) \in Nat /\ Triangle(b) >= 2 * b
  BY Zenon, TriangleGrows
<1>2. CASE b < l
  BY <1>1, <1>2 DEF Behind
<1>3. CASE ~(b < l)
  <2>1. PICK e \in Nat, c \in Nat : e = b - l /\ c = b - 1 /\ e <= c
    <3>1. b - l \in Nat /\ b - 1 \in Nat /\ b - l <= b - 1
      BY <1>3
    <3> QED
      BY Zenon, <3>1
  <2>2. b >= 1
    BY <1>3
  <2>3. Triangle(e) <= Triangle(c) /\ Triangle(e) \in Nat /\ Triangle(c) \in Nat
    BY Zenon, <2>1, TriangleGrows
  <2>4. Triangle(b) = Triangle(c) + 2 * b
    BY Zenon, <2>1, <2>2, TriangleGrows
  <2>5. Behind(b, l) = Triangle(e)
    BY Zenon, <1>3, <2>1 DEF Behind
  <2> QED
    BY <2>3, <2>4, <2>5
<1> QED
  BY <1>2, <1>3

\* The length of the first packet of a script.
FirstOf(ss) == IF ss = <<>> THEN 1 ELSE Len(OnWire(ss[1]))

\* It is at least one.
LEMMA FirstIsSome ==
  ASSUME NEW ss, SentScript(ss), NEW k \in Nat, k <= Len(ss), NEW u, u = From(ss, k + 1)
  PROVE  FirstOf(u) \in Nat /\ FirstOf(u) >= 1
<1>1. CASE u = <<>>
  BY <1>1 DEF FirstOf
<1>2. CASE u # <<>>
  <2>1. /\ u \in Seq([packet : ServerPackets, wide : BOOLEAN])
        /\ \A i \in DOMAIN u : Sent(u[i])
    BY Zenon, RestOfScript
  <2>2. PICK s : s = u[1]
    OBVIOUS
  <2>3. Sent(s)
    BY <1>2, <2>1, <2>2
  <2>4. Agree(<<>>, OnWire(s)) /\ <<>> \in Seq(Byte)
    BY DEF Agree
  <2>5. OnWire(s) \in Seq(Byte) /\ Len(OnWire(s)) >= 2
    BY Zenon, <2>3, <2>4, PacketIsRead
  <2>6. FirstOf(u) = Len(OnWire(s))
    BY Zenon, <1>2, <2>2 DEF FirstOf
  <2> QED
    BY <2>5, <2>6
<1> QED
  BY <1>1, <1>2

\* The stream of a script is a sequence of bytes.
LEMMA StreamIsBytes ==
  ASSUME NEW ss, SentScript(ss)
  PROVE  Stream(ss) \in Seq(Byte)
<1>1. CASE ss = <<>>
  <2>1. <<>> \in Seq(Byte)
    OBVIOUS
  <2> QED
    BY Zenon, <1>1, <2>1, StreamParts
<1>2. CASE ss # <<>>
  BY Zenon, <1>2, StreamParts DEF SentScript
<1> QED
  BY <1>1, <1>2

\* The room that is used up is paid for by the bytes that were delivered: at
\* every read at most all of them are put back behind one another.
Used == Capacity - window

Budget ==
  /\ Delivered \in Nat
  /\ state = "Open" => Len(buf) <= Delivered
  /\ halves = "kept" /\ ~ShortIsNext =>
       /\ state = "Open" /\ ~readable =>
            2 * Used <= Triangle(Delivered) /\ (Left = <<>> \/ Len(buf) < FirstOf(Left))
       /\ state = "Open" /\ readable =>
            2 * (Used + Len(buf)) + Behind(Len(buf), FirstOf(Left)) <= Triangle(Delivered)
       /\ state = "Crashed" => Delivered * (Delivered + 3) > 2 * Capacity

\* At first nothing was delivered, and nothing is used up.
LEMMA InitBudget ==
  ASSUME Init, DecodeInv
  PROVE  Budget
<1>1. wire = Stream(script) /\ buf = <<>> /\ window = Capacity /\ readable = FALSE /\ state = "Open"
      /\ out = <<>>
  BY DEF Init
<1>2. SentScript(script)
  BY Zenon DEF DecodeInv, Shape
<1>3. Delivered = 0 /\ Len(buf) = 0
  <2>1. Len(wire) \in Nat
    BY Zenon, <1>1, <1>2, StreamIsBytes, LenProperties
  <2>2. Delivered = Len(wire) - Len(wire)
    BY Zenon, <1>1 DEF Delivered
  <2> QED
    BY <1>1, <2>1, <2>2
<1>4. Used = 0
  BY <1>1, FramingAssumption DEF Used
<1>5. Triangle(Delivered) = 0
  BY Zenon, <1>3, TriangleGrows
<1>6. FirstOf(Left) \in Nat /\ FirstOf(Left) >= 1
  <2>1. PICK k \in Nat : k = 0
    OBVIOUS
  <2>2. k + 1 = 1 /\ k = Len(out) /\ k <= Len(script)
    <3>1. script \in Seq([packet : ServerPackets, wide : BOOLEAN])
      BY Zenon, <1>2 DEF SentScript
    <3>2. Len(script) \in Nat
      BY Zenon, <3>1, LenProperties
    <3> QED
      BY <1>1, <2>1, <3>2
  <2>3. Left = From(script, k + 1)
    BY Zenon, <2>2 DEF Left, From
  <2> QED
    BY Zenon, <1>2, <2>2, <2>3, FirstIsSome
<1>7. Delivered \in Nat /\ Len(buf) <= Delivered
  BY <1>3
<1>8. 2 * Used <= Triangle(Delivered) /\ Len(buf) < FirstOf(Left)
  BY <1>3, <1>4, <1>5, <1>6
<1>9. ~readable /\ state # "Crashed"
  BY <1>1
<1> QED
  BY Zenon, <1>7, <1>8, <1>9 DEF Budget

\* Reading: more bytes pay for what is in the buffer now.
LEMMA ReadBudget ==
  ASSUME DecodeInv, Budget, Read
  PROVE  Budget'
<1>1. Shape /\ KeptInStep
  BY DEF DecodeInv
<1>2. PICK n \in Nat :
           /\ n >= 1 /\ n <= Len(wire)
           /\ buf' \in Seq(Byte) /\ Len(buf') = Len(buf) + n
           /\ wire' \in Seq(Byte) /\ Len(wire') = Len(wire) - n
           /\ window' \in Nat /\ window' <= Capacity
           /\ window' = IF Len(buf) = window THEN Capacity ELSE window
  BY Zenon, <1>1, ReadMoves
<1>3. /\ halves' = halves /\ script' = script /\ out' = out /\ state' = state
      /\ readable' = TRUE /\ state = "Open" /\ ~readable
  BY DEF Read
<1>4. Left' = Left /\ FirstOf(Left)' = FirstOf(Left)
  BY Zenon, <1>3 DEF Left, FirstOf
<1>5. ShortIsNext' <=> ShortIsNext
  BY Zenon, <1>4 DEF ShortIsNext
<1>6. PICK b \in Nat, d \in Nat : b = Len(buf) /\ d = Delivered /\ b <= d
  <2>1. buf \in Seq(Byte) /\ Delivered \in Nat /\ Len(buf) <= Delivered
    BY Zenon, <1>1, <1>3 DEF Shape, Budget
  <2>2. Len(buf) \in Nat
    BY Zenon, <2>1, LenProperties
  <2> QED
    BY Zenon, <2>1, <2>2
<1>7. Delivered' = d + n
  <2>1. Delivered' = Len(Stream(script)) - Len(wire')
    BY Zenon, <1>3 DEF Delivered
  <2>2. d = Len(Stream(script)) - Len(wire)
    BY Zenon, <1>6 DEF Delivered
  <2>3. Len(Stream(script)) \in Nat /\ Len(wire) \in Nat
    <3>1. Stream(script) \in Seq(Byte) /\ wire \in Seq(Byte)
      BY Zenon, <1>1, StreamIsBytes DEF Shape
    <3> QED
      BY Zenon, <3>1, LenProperties
  <2> QED
    BY <1>2, <2>1, <2>2, <2>3
<1>8. Delivered' \in Nat /\ Len(buf') <= Delivered'
  BY <1>2, <1>6, <1>7
<1>9. PICK u \in Nat, v \in Nat : u = Used /\ v = Used' /\ v <= u
  <2>1. window \in Nat /\ window <= Capacity /\ Capacity \in Nat
    BY <1>1, FramingAssumption DEF Shape
  <2>2. Used' = Capacity - window'
    BY DEF Used
  <2>3. Capacity - window \in Nat /\ Capacity - window' \in Nat
        /\ Capacity - window' <= Capacity - window
    BY <1>2, <2>1
  <2> QED
    BY Zenon, <2>2, <2>3 DEF Used
<1>10. ASSUME halves = "kept", ~ShortIsNext
       PROVE  2 * (Used' + Len(buf')) + Behind(Len(buf'), FirstOf(Left)) <= Triangle(Delivered')
  <2>1. 2 * u <= Triangle(d) /\ (Left = <<>> \/ b < FirstOf(Left))
    BY Zenon, <1>3, <1>6, <1>9, <1>10 DEF Budget
  <2>2. OnStream(buf, wire, Left) /\ out \in Seq(Tellings) /\ Len(out) <= Len(script)
    BY Zenon, <1>1, <1>3, <1>10 DEF KeptInStep
  <2>3. Left # <<>>
    <3>1. SUFFICES ASSUME Left = <<>> PROVE FALSE
      OBVIOUS
    <3>2. buf \o wire = <<>>
      BY Zenon, <2>2, <3>1, StreamParts DEF OnStream
    <3>3. buf \in Seq(Byte) /\ wire \in Seq(Byte)
      BY Zenon, <1>1 DEF Shape
    <3>4. Len(wire) = 0
      BY <3>2, <3>3
    <3> QED
      BY <1>2, <3>4
  <2>4. FirstOf(Left) \in Nat
    <3>1. Len(out) \in Nat
      BY Zenon, <2>2, LenProperties
    <3>2. Left = From(script, Len(out) + 1)
      BY Zenon DEF Left, From
    <3>3. SentScript(script)
      BY Zenon, <1>1 DEF Shape
    <3> QED
      BY Zenon, <2>2, <3>1, <3>2, <3>3, FirstIsSome
  <2>5. PICK l \in Nat : l = FirstOf(Left) /\ b < l
    BY Zenon, <2>1, <2>3, <2>4
  <2>6. 2 * v <= Triangle(d)
    <3>1. Triangle(d) \in Nat
      BY Zenon, TriangleGrows
    <3> QED
      BY <1>9, <2>1, <3>1
  <2>7. 2 * (v + (b + n)) + Behind(b + n, l) <= Triangle(d + n)
    BY Zenon, <1>2, <1>6, <2>5, <2>6, ReadIsPaid
  <2>8. Len(buf') = b + n
    BY Zenon, <1>2, <1>6
  <2> QED
    BY Zenon, <1>7, <1>9, <2>5, <2>7, <2>8
<1>11. state' # "Crashed" /\ readable'
  BY <1>3
<1> QED
  BY Zenon, <1>3, <1>4, <1>5, <1>8, <1>10, <1>11 DEF Budget

\* Decoding: a packet that is told pays for the room of all the buffer, and one
\* that is not complete was paid for.  Without room that was not enough.
LEMMA DecodeBudget ==
  ASSUME DecodeInv, Budget, Decode
  PROVE  Budget'
<1>1. Shape /\ KeptInStep /\ DecodeInv'
  BY DecodeDecodes DEF DecodeInv
<1>2. PICK r : r = packet(halves, buf)
  OBVIOUS
<1>3. state = "Open" /\ readable /\ halves \in {"kept", "dropped"}
  BY <1>1 DEF Decode, Shape, Halves
<1>4. r.is = "Done" => halves = "kept" /\ r.rest \in Seq(Byte)
  <2>1. CASE halves = "kept"
    BY Zenon, <1>2, <1>3, <2>1, KeptSays
  <2>2. CASE halves = "dropped"
    <3>1. r.is \in {"Incomplete", "Underflow"}
      BY Zenon, <1>2, <1>3, <2>2, DroppedSays
    <3>2. r.is # "Done"
      BY <3>1
    <3> QED
      BY Zenon, <3>2
  <2> QED
    BY Zenon, <1>3, <2>1, <2>2
<1>5. /\ halves' = halves /\ script' = script /\ wire' = wire
      /\ \/ /\ r.is = "Done" /\ out' = Append(out, r.value) /\ Leaves(r.rest)
            /\ state' # "Failed" /\ readable' = readable
            /\ state' = "Crashed" => Len(r.rest) > window - Len(buf)
         \/ /\ r.is \in {"Incomplete", "Underflow"} /\ out' = out /\ Leaves(buf)
            /\ state' # "Failed" /\ ~readable'
            /\ state' = "Crashed" => Len(buf) > window - Len(buf)
         \/ /\ r.is = "Underflow" /\ out' = out /\ Leaves(buf) /\ state' = "Crashed"
         \/ /\ r.is = "Error" /\ out' = out /\ Leaves(buf) /\ state' = "Failed"
  BY Zenon, <1>1, <1>2, <1>4, DecodeLeaves
<1>6. PICK b \in Nat, d \in Nat : b = Len(buf) /\ d = Delivered /\ b <= d
  <2>1. buf \in Seq(Byte) /\ Delivered \in Nat /\ Len(buf) <= Delivered
    BY Zenon, <1>1, <1>3 DEF Shape, Budget
  <2>2. Len(buf) \in Nat
    BY Zenon, <2>1, LenProperties
  <2> QED
    BY Zenon, <2>1, <2>2
<1>7. Delivered' = d
  BY Zenon, <1>5, <1>6 DEF Delivered
<1>8. PICK u \in Nat, w \in Nat, c \in Nat :
        u = Used /\ w = window /\ c = Capacity /\ w = c - u /\ b <= w
  <2>1. window \in Nat /\ window <= Capacity /\ Capacity \in Nat /\ Len(buf) <= window
    BY <1>1, <1>3, FramingAssumption DEF Shape
  <2>2. Capacity - window \in Nat /\ window = Capacity - (Capacity - window)
    BY <2>1
  <2> QED
    BY Zenon, <1>6, <2>1, <2>2 DEF Used
<1>9. Used' = u + b
  <2>1. window' = w - b
    BY Zenon, <1>5, <1>6, <1>8 DEF Leaves
  <2>2. Used' = c - window'
    BY Zenon, <1>8 DEF Used
  <2> QED
    BY <1>8, <2>1, <2>2
<1>10. /\ \A s : Leaves(s) => (state' = "Open" => buf' = s)
       /\ \A s : Leaves(s) => (state' = "Open" => Len(s) <= w - b)
  BY Zenon, <1>6, <1>8 DEF Leaves
<1>11. state' = "Open" => Len(buf') <= d
  <2>1. r.is = "Done" => Len(r.rest) <= b
    <3>1. SUFFICES ASSUME r.is = "Done" PROVE Len(r.rest) <= b
      OBVIOUS
    <3>2. /\ r.rest \in Seq(Byte)
          /\ Len(OnWire(Left[1])) \in Nat
          /\ Len(buf) = Len(OnWire(Left[1])) + Len(r.rest)
      BY Zenon, <1>2, <1>3, <1>4, <3>1, KeptSays
    <3>3. PICK e \in Nat, m \in Nat : e = Len(r.rest) /\ b = m + e
      <4>1. Len(r.rest) \in Nat
        BY Zenon, <3>2, LenProperties
      <4> QED
        BY Zenon, <1>6, <3>2, <4>1
    <3>4. e <= b
      BY <3>3
    <3> QED
      BY Zenon, <3>3, <3>4
  <2>2. SUFFICES ASSUME state' = "Open" PROVE Len(buf') <= d
    OBVIOUS
  <2>3. CASE r.is = "Done" /\ Leaves(r.rest)
    <3>1. buf' = r.rest
      BY Zenon, <1>10, <2>2, <2>3
    <3>2. Len(buf') <= b /\ Len(buf') \in Nat
      BY Zenon, <1>4, <2>1, <2>3, <3>1, LenProperties
    <3> QED
      BY <1>6, <3>2
  <2>4. CASE Leaves(buf)
    <3>1. buf' = buf
      BY Zenon, <1>10, <2>2, <2>4
    <3> QED
      BY Zenon, <1>6, <3>1
  <2> QED
    BY Zenon, <1>5, <2>3, <2>4
<1>12. ASSUME halves = "kept", ~ShortIsNext'
       PROVE  /\ state' = "Open" /\ ~readable' =>
                   2 * Used' <= Triangle(d) /\ (Left' = <<>> \/ Len(buf') < FirstOf(Left'))
              /\ state' = "Open" /\ readable' =>
                   2 * (Used' + Len(buf')) + Behind(Len(buf'), FirstOf(Left')) <= Triangle(d)
              /\ state' = "Crashed" => d * (d + 3) > 2 * c
  <2>1. /\ OnStream(buf, wire, Left) /\ out \in Seq(Tellings) /\ Len(out) <= Len(script)
        /\ \A i \in 1..Len(out) : out[i] = Told(script[i].packet) /\ ~Foreign(script[i].packet)
    BY Zenon, <1>1, <1>3, <1>12 DEF KeptInStep
  <2>2. PICK l \in Nat : l = FirstOf(Left) /\ l >= 1
    <3>1. Len(out) \in Nat
      BY Zenon, <2>1, LenProperties
    <3>2. Left = From(script, Len(out) + 1)
      BY Zenon DEF Left, From
    <3>3. SentScript(script)
      BY Zenon, <1>1 DEF Shape
    <3> QED
      BY Zenon, <2>1, <3>1, <3>2, <3>3, FirstIsSome
  <2>3. Triangle(d) \in Nat /\ Triangle(d) + 2 * d = d * (d + 3)
    BY Zenon, TriangleGrows
  <2>4. CASE /\ r.is = "Done" /\ out' = Append(out, r.value) /\ Leaves(r.rest)
             /\ state' # "Failed" /\ readable' = readable
             /\ state' = "Crashed" => Len(r.rest) > window - Len(buf)
    <3>1. /\ Left # <<>> /\ ~Foreign(Left[1].packet) /\ ~Short(Left[1].packet)
          /\ r.value = Told(Left[1].packet)
          /\ r.rest \in Seq(Byte)
          /\ Len(buf) = Len(OnWire(Left[1])) + Len(r.rest)
      BY Zenon, <1>2, <1>3, <1>12, <2>4, KeptSays
    <3>2. PICK e \in Nat : e = Len(r.rest) /\ b = l + e
      <4>1. Len(r.rest) \in Nat
        BY Zenon, <3>1, LenProperties
      <4>2. l = Len(OnWire(Left[1]))
        BY Zenon, <2>2, <3>1 DEF FirstOf
      <4> QED
        BY Zenon, <1>6, <3>1, <4>1, <4>2
    <3>3. 2 * (u + b) + Triangle(e) <= Triangle(d)
      <4>1. ~ShortIsNext
        BY Zenon, <3>1 DEF ShortIsNext
      <4>2. 2 * (u + b) + Behind(b, l) <= Triangle(d)
        BY Zenon, <1>3, <1>6, <1>8, <1>12, <2>2, <4>1 DEF Budget
      <4>3. ~(b < l) /\ b - l = e
        BY <3>2
      <4>4. Behind(b, l) = Triangle(e)
        BY Zenon, <4>3 DEF Behind
      <4> QED
        BY Zenon, <4>2, <4>4
    <3>4. Triangle(e) \in Nat /\ Triangle(e) >= 2 * e
      BY Zenon, TriangleGrows
    <3>5. CASE state' = "Crashed"
      <4>1. e > w - b
        BY Zenon, <1>6, <1>8, <2>4, <3>2, <3>5
      <4>2. d * (d + 3) > 2 * c
        BY <1>8, <2>3, <3>3, <3>4, <4>1
      <4>3. state' # "Open"
        BY <3>5
      <4> QED
        BY Zenon, <4>2, <4>3
    <3>6. CASE state' = "Open"
      <4>1. Len(buf') = e
        BY Zenon, <1>10, <2>4, <3>2, <3>6
      <4>2. /\ out' \in Seq(Tellings)
            /\ Len(out') <= Len(script)
        BY Zenon, <1>1, <1>5, <2>1, <2>4, <3>1, ToldNext
      <4>3. PICK f \in Nat : f = FirstOf(Left') /\ f >= 1
        <5>1. Len(out') \in Nat
          BY Zenon, <4>2, LenProperties
        <5>2. Left' = From(script, Len(out') + 1)
          BY Zenon, <1>5 DEF Left, From
        <5>3. SentScript(script)
          BY Zenon, <1>1 DEF Shape
        <5> QED
          BY Zenon, <4>2, <5>1, <5>2, <5>3, FirstIsSome
      <4>4. 2 * e + Behind(e, f) <= Triangle(e)
        BY Zenon, <4>3, TellingIsPaid
      <4>5. Behind(e, f) \in Nat
        <5>1. CASE e < f
          BY <5>1 DEF Behind
        <5>2. CASE ~(e < f)
          <6>1. e - f \in Nat
            BY <5>2
          <6> QED
            BY Zenon, <5>2, <6>1, TriangleGrows DEF Behind
        <5> QED
          BY <5>1, <5>2
      <4>6. 2 * ((u + b) + e) + Behind(e, f) <= Triangle(d)
        BY <2>3, <3>3, <3>4, <4>4, <4>5
      <4>7. 2 * (Used' + Len(buf')) + Behind(Len(buf'), FirstOf(Left')) <= Triangle(d)
        BY Zenon, <1>9, <4>1, <4>3, <4>6
      <4>8. state' # "Crashed" /\ readable'
        BY Zenon, <1>3, <2>4, <3>6, "Open" # "Crashed"
      <4> QED
        BY Zenon, <4>7, <4>8
    <3>7. state' = "Open" \/ state' = "Crashed"
      BY <2>4 DEF Leaves
    <3> QED
      BY Zenon, <3>5, <3>6, <3>7
  <2>5. CASE /\ r.is \in {"Incomplete", "Underflow"} /\ out' = out /\ Leaves(buf)
             /\ state' # "Failed" /\ ~readable'
             /\ state' = "Crashed" => Len(buf) > window - Len(buf)
    <3>1. Left' = Left
      BY Zenon, <1>5, <2>5 DEF Left
    <3>2. ~ShortIsNext
      BY Zenon, <1>12, <3>1 DEF ShortIsNext
    <3>3. r.is = "Incomplete"
      <4>1. r.is = "Underflow" => Left # <<>> /\ Short(Left[1].packet)
        BY Zenon, <1>2, <1>3, <1>12, KeptSays
      <4>2. r.is # "Underflow"
        BY Zenon, <3>2, <4>1 DEF ShortIsNext
      <4> QED
        BY <2>5, <4>2
    <3>4. b < l
      <4>1. Left = <<>> \/ Short(Left[1].packet) \/ Len(buf) < Len(OnWire(Left[1]))
        BY Zenon, <1>2, <1>3, <1>12, <3>3, KeptSays
      <4>2. CASE Left = <<>>
        <5>1. buf \o wire = <<>>
          BY Zenon, <2>1, <4>2, StreamParts DEF OnStream
        <5>2. buf \in Seq(Byte) /\ wire \in Seq(Byte)
          BY Zenon, <1>1 DEF Shape
        <5>3. Len(buf) = 0
          BY <5>1, <5>2
        <5> QED
          BY <1>6, <2>2, <5>3
      <4>3. CASE Left # <<>>
        <5>1. Len(buf) < Len(OnWire(Left[1]))
          BY Zenon, <3>2, <4>1, <4>3 DEF ShortIsNext
        <5> QED
          BY Zenon, <1>6, <2>2, <4>3, <5>1 DEF FirstOf
      <4> QED
        BY Zenon, <4>2, <4>3
    <3>5. 2 * (u + b) <= Triangle(d)
      <4>1. 2 * (u + b) + Behind(b, l) <= Triangle(d)
        BY Zenon, <1>3, <1>6, <1>8, <1>12, <2>2, <3>2 DEF Budget
      <4>2. Behind(b, l) = 0
        BY Zenon, <3>4 DEF Behind
      <4> QED
        BY <2>3, <4>1, <4>2
    <3>6. CASE state' = "Crashed"
      <4>1. b > w - b
        BY Zenon, <1>6, <1>8, <2>5, <3>6
      <4>2. d * (d + 3) > 2 * c
        <5>1. PICK t \in Nat, x \in Nat : t = Triangle(d) /\ x = d * (d + 3)
          <6>1. d * (d + 3) \in Nat
            OBVIOUS
          <6> QED
            BY Zenon, <2>3, <6>1
        <5>2. t + 2 * d = x /\ 2 * (u + b) <= t
          BY Zenon, <2>3, <3>5, <5>1
        <5>3. x > 2 * c
          BY ONLY <1>6, <1>8, <4>1, <5>2, b \in Nat, d \in Nat, u \in Nat, w \in Nat,
             c \in Nat, t \in Nat, x \in Nat
        <5> QED
          BY Zenon, <5>1, <5>3
      <4>3. state' # "Open"
        BY <3>6
      <4> QED
        BY Zenon, <4>2, <4>3
    <3>7. CASE state' = "Open"
      <4>1. buf' = buf
        BY Zenon, <1>10, <2>5, <3>7
      <4>2. state' # "Crashed"
        BY <3>7
      <4> QED
        BY Zenon, <1>6, <1>9, <2>2, <2>5, <3>1, <3>4, <3>5, <4>1, <4>2
    <3>8. state' = "Open" \/ state' = "Crashed"
      BY <2>5 DEF Leaves
    <3> QED
      BY Zenon, <3>6, <3>7, <3>8
  <2>6. CASE r.is = "Underflow" /\ out' = out
    <3>1. Left' = Left
      BY Zenon, <1>5, <2>6 DEF Left
    <3>2. Left # <<>> /\ Short(Left[1].packet)
      BY Zenon, <1>2, <1>3, <1>12, <2>6, KeptSays
    <3> QED
      BY Zenon, <1>12, <3>1, <3>2 DEF ShortIsNext
  <2>7. CASE state' = "Failed"
    BY <2>7
  <2> QED
    BY Zenon, <1>5, <2>4, <2>5, <2>6, <2>7
<1>13. Delivered' \in Nat
  BY Zenon, <1>6, <1>7
<1> QED
  BY Zenon, <1>5, <1>7, <1>8, <1>11, <1>12, <1>13 DEF Budget

\* The budget holds with the rest of the invariant.
LEMMA BudgetHolds == Spec => []Budget
<1>1. Init => DecodeInv /\ Budget
  BY InitDecodes, InitBudget
<1>2. DecodeInv /\ Budget /\ [Next]_vars => Budget'
  <2> SUFFICES ASSUME DecodeInv, Budget, [Next]_vars PROVE Budget'
    OBVIOUS
  <2>1. CASE Read
    BY <2>1, ReadBudget
  <2>2. CASE Decode
    BY <2>2, DecodeBudget
  <2>3. CASE UNCHANGED reading
    <3>1. /\ halves' = halves /\ script' = script /\ wire' = wire /\ buf' = buf
          /\ window' = window /\ readable' = readable /\ out' = out /\ state' = state
      BY <2>3 DEF reading
    <3>2. Left' = Left /\ Delivered' = Delivered /\ Used' = Used
      BY Zenon, <3>1 DEF Left, Delivered, Used
    <3>3. ShortIsNext' <=> ShortIsNext
      BY Zenon, <3>2 DEF ShortIsNext
    <3>4. FirstOf(Left)' = FirstOf(Left)
      BY Zenon, <3>2 DEF FirstOf
    <3> QED
      BY Zenon, <3>1, <3>2, <3>3, <3>4 DEF Budget
  <2>4. Encode \/ UNCHANGED vars => UNCHANGED reading
    BY DEF Encode, vars
  <2> QED
    BY <2>1, <2>2, <2>3, <2>4 DEF Next
<1> QED
  BY <1>1, <1>2, DecodeInvHolds, PTL DEF Spec

\* For every capacity of the buffer: a decoder panics for want of room only
\* when as many bytes were delivered as it takes when they come one by one, or
\* when a message of QoS 0 without two bytes is next (codec.rs:31, 34).
THEOREM CrashTakesManyBytes == Spec => []CrashNeedsMany
<1>1. Budget => CrashNeedsMany
  BY Zenon DEF Budget, CrashNeedsMany
<1> QED
  BY <1>1, BudgetHolds, PTL

-----------------------------------------------------------------------------
(* The types.                                                              *)

\* The client writes one packet after the other, each as encode makes it.
WriteInv ==
  /\ ClientScript(requests)
  /\ written \in Seq({encode(p) : p \in ClientPackets})
  /\ Len(written) <= Len(requests)
  /\ \A i \in 1..Len(written) : written[i] = encode(requests[i])
  /\ length \in Lengths \cup {0}

\* The requests of the instance are such scripts, and so is none.
LEMMA InitWrites ==
  ASSUME Init
  PROVE  WriteInv
<1>1. ClientScript(<<>>)
  BY DEF ClientScript
<1>2. ClientScript(requests)
  <2>1. requests = <<>> \/ requests \in Requests
    BY DEF Init
  <2> QED
    BY Zenon, <1>1, <2>1, FramingAssumption
<1>3. written = <<>> /\ length \in Lengths \cup {0}
  BY DEF Init
<1>4. <<>> \in Seq({encode(p) : p \in ClientPackets}) /\ Len(<<>>) = 0
  OBVIOUS
<1>5. Len(requests) \in Nat
  <2>1. requests \in Seq(ClientPackets)
    BY Zenon, <1>2 DEF ClientScript
  <2> QED
    BY Zenon, <2>1, LenProperties
<1>6. /\ written \in Seq({encode(p) : p \in ClientPackets})
      /\ Len(written) = 0
  BY Zenon, <1>3, <1>4
<1>7. /\ Len(written) <= Len(requests)
      /\ \A i \in 1..Len(written) : written[i] = encode(requests[i])
  BY <1>5, <1>6
<1> QED
  BY Zenon, <1>2, <1>3, <1>6, <1>7 DEF WriteInv

\* One more packet is written.
LEMMA EncodeWrites ==
  ASSUME WriteInv, Encode
  PROVE  WriteInv'
<1>1. PICK S : S = {encode(p) : p \in ClientPackets}
  OBVIOUS
<1>2. /\ ClientScript(requests) /\ requests \in Seq(ClientPackets)
      /\ written \in Seq(S)
      /\ Len(written) <= Len(requests)
      /\ \A i \in 1..Len(written) : written[i] = encode(requests[i])
      /\ length \in Lengths \cup {0}
  BY Zenon, <1>1 DEF WriteInv, ClientScript
<1>3. /\ Len(written) < Len(requests)
      /\ written' = Append(written, encode(requests[Len(written) + 1]))
      /\ requests' = requests /\ length' = length
  BY DEF Encode
<1>4. PICK n \in Nat, m \in Nat : n = Len(written) /\ m = Len(requests)
  BY Zenon, <1>2, LenProperties
<1>5. n + 1 \in 1..m /\ n + 1 <= m
  BY ONLY <1>3, <1>4, n \in Nat, m \in Nat
<1>6. PICK e : e = encode(requests[n + 1])
  OBVIOUS
<1>7. e \in S
  <2>1. requests[n + 1] \in ClientPackets
    BY ONLY <1>2, <1>4, <1>5
  <2> QED
    BY Zenon, <1>1, <1>6, <2>1
<1>8. PICK w : w = Append(written, e)
  OBVIOUS
<1>9. w \in Seq(S) /\ Len(w) = n + 1 /\ w[n + 1] = e /\ \A i \in 1..n : w[i] = written[i]
  BY ONLY <1>2, <1>4, <1>7, <1>8
<1>10. written' = w
  BY Zenon, <1>3, <1>4, <1>6, <1>8
<1>11. ASSUME NEW i \in 1..n + 1 PROVE w[i] = encode(requests[i])
  <2>1. i = n + 1 \/ i \in 1..n
    BY ONLY <1>11, n \in Nat
  <2> QED
    BY Zenon, <1>2, <1>4, <1>6, <1>9, <2>1
<1>12. Len(w) <= Len(requests) /\ \A i \in 1..Len(w) : w[i] = encode(requests[i])
  BY Zenon, <1>4, <1>5, <1>9, <1>11
<1> QED
  BY Zenon, <1>1, <1>2, <1>3, <1>9, <1>10, <1>12 DEF WriteInv

\* Nothing else writes.
LEMMA WriteInvHolds == Spec => []WriteInv
<1>1. WriteInv /\ [Next]_vars => WriteInv'
  <2> SUFFICES ASSUME WriteInv, [Next]_vars PROVE WriteInv'
    OBVIOUS
  <2>1. CASE Encode
    BY <2>1, EncodeWrites
  <2>2. CASE UNCHANGED writing
    <3>1. requests' = requests /\ written' = written /\ length' = length
      BY <2>2 DEF writing
    <3> QED
      BY Zenon, <3>1 DEF WriteInv
  <2>3. Read \/ Decode \/ UNCHANGED vars => UNCHANGED writing
    BY DEF Read, Decode, vars
  <2> QED
    BY <2>1, <2>2, <2>3 DEF Next
<1> QED
  BY <1>1, InitWrites, PTL DEF Spec

\* For all scripts, requests, lengths and rooms: the buffer never holds more
\* than it has room for, what was decoded has a type, and the client writes
\* nothing it was not asked for (codec.rs:16-40).
THEOREM Typing == Spec => []TypeOK
<1>1. DecodeInv /\ WriteInv => TypeOK
  <2> SUFFICES ASSUME DecodeInv, WriteInv PROVE TypeOK
    OBVIOUS
  <2>1. Shape /\ KeptInStep /\ DroppedInStep
    BY DEF DecodeInv
  <2>2. wire \in Seq(0..255) /\ buf \in Seq(0..255)
    BY Zenon, <2>1 DEF Shape, Byte
  <2>3. window \in 0..Capacity
    BY <2>1, FramingAssumption DEF Shape
  <2>4. ASSUME NEW i \in DOMAIN out PROVE out[i].ty \in PacketTypes
    <3>1. CASE halves = "kept"
      <4>1. /\ out \in Seq(Tellings) /\ Len(out) <= Len(script)
            /\ \A j \in 1..Len(out) : out[j] = Told(script[j].packet) /\ ~Foreign(script[j].packet)
        BY Zenon, <2>1, <3>1 DEF KeptInStep
      <4>2. i \in 1..Len(out)
        BY <4>1
      <4>3. PICK p : p = script[i].packet
        OBVIOUS
      <4>4. out[i] = Told(p) /\ ~Foreign(p)
        BY Zenon, <4>1, <4>2, <4>3
      <4>5. Told(p).ty = p.ty
        BY DEF Told, Packet
      <4>6. p.ty \in PacketTypes
        BY Zenon, <4>4, KnownTypes DEF Foreign
      <4> QED
        BY Zenon, <4>4, <4>5, <4>6
    <3>2. CASE halves = "dropped"
      <4>1. out = <<>>
        BY Zenon, <2>1, <3>2 DEF DroppedInStep
      <4> QED
        BY <4>1
    <3> QED
      BY <2>1, <3>1, <3>2 DEF Shape, Halves
  <2> QED
    BY Zenon, <2>1, <2>2, <2>3, <2>4 DEF TypeOK, Shape, WriteInv
<1> QED
  BY <1>1, DecodeInvHolds, WriteInvHolds, PTL

-----------------------------------------------------------------------------
(* Folds.                                                                  *)

\* The last of the first numbers.
LEMMA LastOfFirst ==
  ASSUME NEW n \in Nat
  PROVE  /\ 1..0 = {}
         /\ 1..n + 1 # {} /\ Max(1..n + 1) = n + 1 /\ (1..n + 1) \ {n + 1} = 1..n
         /\ \A x \in SUBSET (1..n + 1) : n + 1 \in x => Max(x) = n + 1 /\ x \ {n + 1} \in SUBSET (1..n)
<1>1. ASSUME NEW x \in SUBSET (1..n + 1), n + 1 \in x PROVE Max(x) = n + 1
  <2>1. \A y \in x : n + 1 >= y
    BY <1>1
  <2>2. \A z \in x : (\A y \in x : z >= y) => z = n + 1
    BY <1>1
  <2> QED
    BY <1>1, <2>1, <2>2 DEF Max
<1>2. n + 1 \in 1..n + 1
  OBVIOUS
<1>3. Max(1..n + 1) = n + 1
  BY <1>1, <1>2
<1> QED
  BY <1>1, <1>2, <1>3

\* A function that adds the last element of a set to what it has for the others.
IsFold(f, s, b, O) ==
  \A x \in SUBSET DOMAIN s :
    /\ x # {} => Max(x) \in x
    /\ f[x] = IF x = {} THEN b ELSE O[<<f[x \ {Max(x)}], s[Max(x)]>>]

\* There is one.
LEMMA FoldExists ==
  ASSUME NEW B, NEW E, NEW s \in Seq(E), NEW b \in B, NEW O \in [B \X E -> B]
  PROVE  \E f \in [SUBSET DOMAIN s -> B] : IsFold(f, s, b, O)
<1> DEFINE Folds(f, n) == \A x \in SUBSET (1..n) :
             /\ x # {} => Max(x) \in x
             /\ f[x] = IF x = {} THEN b ELSE O[<<f[x \ {Max(x)}], s[Max(x)]>>]
           P(n) == n <= Len(s) => \E f \in [SUBSET (1..n) -> B] : Folds(f, n)
<1>1. P(0)
  <2>1. SUBSET (1..0) = {{}}
    OBVIOUS
  <2>2. [x \in {{}} |-> b] \in [{{}} -> B]
    OBVIOUS
  <2>3. \E f \in [{{}} -> B] : \A x \in {{}} :
           /\ x # {} => Max(x) \in x
           /\ f[x] = IF x = {} THEN b ELSE O[<<f[x \ {Max(x)}], s[Max(x)]>>]
    BY <2>2
  <2> QED
    BY Zenon, <2>1, <2>3
<1>2. ASSUME NEW n \in Nat, P(n) PROVE P(n + 1)
  <2> SUFFICES ASSUME n + 1 <= Len(s) PROVE \E f \in [SUBSET (1..n + 1) -> B] : Folds(f, n + 1)
    OBVIOUS
  <2>0. n <= Len(s)
    OBVIOUS
  <2>1. PICK f \in [SUBSET (1..n) -> B] : Folds(f, n)
    BY Zenon, <1>2, <2>0
  <2>2. PICK e \in E : e = s[n + 1]
    OBVIOUS
  <2> DEFINE g == [x \in SUBSET (1..n + 1) |-> IF n + 1 \in x THEN O[<<f[x \ {n + 1}], e>>] ELSE f[x]]
  <2>3. ASSUME NEW x \in SUBSET (1..n + 1)
        PROVE  /\ n + 1 \in x => x \ {n + 1} \in SUBSET (1..n) /\ Max(x) = n + 1
               /\ n + 1 \notin x => x \in SUBSET (1..n)
    BY Zenon, LastOfFirst, <2>3, (1..n + 1) \ {n + 1} = 1..n
  <2>4. g \in [SUBSET (1..n + 1) -> B]
    <3>1. ASSUME NEW x \in SUBSET (1..n + 1)
          PROVE  (IF n + 1 \in x THEN O[<<f[x \ {n + 1}], e>>] ELSE f[x]) \in B
      BY <2>3
    <3> QED
      BY Zenon, <3>1
  <2>5. \A x \in SUBSET (1..n) : n + 1 \notin x /\ x \in SUBSET (1..n + 1) /\ g[x] = f[x]
    <3>1. ASSUME NEW x \in SUBSET (1..n) PROVE n + 1 \notin x /\ x \in SUBSET (1..n + 1)
      OBVIOUS
    <3> QED
      BY Zenon, <3>1
  <2>6. ASSUME NEW x \in SUBSET (1..n + 1)
        PROVE  /\ x # {} => Max(x) \in x
               /\ g[x] = IF x = {} THEN b ELSE O[<<g[x \ {Max(x)}], s[Max(x)]>>]
    <3>1. CASE n + 1 \in x
      <4>1. g[x] = O[<<f[x \ {n + 1}], e>>] /\ x # {}
        BY Zenon, <2>6, <3>1
      <4>2. g[x \ {n + 1}] = f[x \ {n + 1}]
        BY Zenon, <2>3, <2>5, <2>6, <3>1
      <4> QED
        BY Zenon, <2>2, <2>3, <2>6, <3>1, <4>1, <4>2
    <3>2. CASE n + 1 \notin x
      <4>1. x \in SUBSET (1..n)
        BY Zenon, <2>3, <2>6, <3>2
      <4>2. g[x] = f[x] /\ g[x \ {Max(x)}] = f[x \ {Max(x)}]
        <5>1. x \ {Max(x)} \in SUBSET (1..n)
          BY Zenon, <4>1
        <5> QED
          BY Zenon, <2>5, <4>1, <5>1
      <4> HIDE DEF g
      <4> QED
        BY Zenon, <2>1, <4>1, <4>2
    <3> QED
      BY Zenon, <3>1, <3>2
  <2> HIDE DEF g
  <2> QED
    BY Zenon, <2>4, <2>6
<1>3. \A n \in Nat : P(n)
  <2> DEFINE T == {n \in Nat : P(n)}
  <2> HIDE DEF P
  <2>1. 0 \in T /\ \A n \in Nat : n \in T => n + 1 \in T
    BY <1>1, <1>2
  <2>2. Nat \subseteq T
    <3> HIDE DEF T
    <3> QED
      BY <2>1, Counting
  <2> QED
    BY <2>2
<1>4. Len(s) \in Nat /\ DOMAIN s = 1..Len(s) /\ Len(s) <= Len(s)
  OBVIOUS
<1>5. \E f \in [SUBSET (1..Len(s)) -> B] : Folds(f, Len(s))
  BY Zenon, <1>3, <1>4
<1>6. PICK f \in [SUBSET (1..Len(s)) -> B] : Folds(f, Len(s))
  BY Zenon, <1>5
<1>7. f \in [SUBSET DOMAIN s -> B]
  BY Zenon, <1>4, <1>6
<1>8. ASSUME NEW x \in SUBSET DOMAIN s
      PROVE  /\ x # {} => Max(x) \in x
             /\ f[x] = IF x = {} THEN b ELSE O[<<f[x \ {Max(x)}], s[Max(x)]>>]
  <2>1. x \in SUBSET (1..Len(s))
    BY Zenon, <1>4, <1>8
  <2> QED
    BY Zenon, <1>6, <2>1
<1>9. IsFold(f, s, b, O)
  BY Zenon, <1>8 DEF IsFold
<1> QED
  BY Zenon, <1>7, <1>9

-----------------------------------------------------------------------------
(* Buffers that are written.                                               *)

Buffers == [held : Seq(Byte), room : Nat, panicked : BOOLEAN]

\* A string has two bytes before it.
LEMMA StringIsBytes ==
  ASSUME NEW s \in Seq(Byte)
  PROVE  String(s) \in Seq(Byte) /\ Len(String(s)) = Len(s) + 2
<1>1. PICK n : n = Len(s) % 65536
  OBVIOUS
<1>2. n \in Words
  <2>1. PICK m \in Nat : m = Len(s)
    BY LenProperties
  <2> QED
    BY SMT, <1>1, <2>1 DEF Words
<1>3. U16(n) \in Seq(Byte) /\ Len(U16(n)) = 2
  BY Zenon, <1>2, U16IsRead
<1>4. PICK u \in Seq(Byte) : u = U16(n) /\ Len(u) = 2
  BY <1>3
<1>5. u \o s \in Seq(Byte) /\ Len(u \o s) = Len(u) + Len(s)
  BY ONLY u \in Seq(Byte), s \in Seq(Byte)
<1>6. Len(u) + Len(s) = Len(s) + 2
  BY <1>4
<1>7. String(s) = u \o s
  BY ONLY <1>1, <1>4 DEF String
<1> QED
  BY Zenon, <1>5, <1>6, <1>7

\* The buffers hold their bytes when they are written.
LEMMA PutIsBuffer ==
  ASSUME NEW b \in Buffers, NEW s \in Seq(Byte)
  PROVE  put(b, s) \in Buffers
<1>1. PICK x \in Seq(Byte), r \in Nat, q \in BOOLEAN :
           b = [held |-> x, room |-> r, panicked |-> q]
  BY DEF Buffers
<1>2. PICK n \in Nat : n = Len(s)
  BY LenProperties
<1>3. CASE n > r
  <2>1. put(b, s) = [held |-> x, room |-> r, panicked |-> TRUE]
    BY <1>1, <1>2, <1>3 DEF put
  <2> QED
    BY <2>1 DEF Buffers
<1>4. CASE ~(n > r)
  <2>1. PICK y \in Seq(Byte), m \in Nat : y = x \o s /\ m = r - n
    <3>1. x \o s \in Seq(Byte)
      OBVIOUS
    <3>2. r - n \in Nat
      BY <1>4
    <3> QED
      BY Zenon, <3>1, <3>2
  <2>2. put(b, s) = [held |-> y, room |-> m, panicked |-> q]
    BY <1>1, <1>2, <1>4, <2>1 DEF put
  <2> QED
    BY <2>2 DEF Buffers
<1> QED
  BY Zenon, <1>3, <1>4

LEMMA ReserveIsBuffer ==
  ASSUME NEW b \in Buffers, NEW n \in Nat
  PROVE  /\ reserve(b, n) \in Buffers
         /\ reserve(b, n).held = b.held /\ reserve(b, n).panicked = b.panicked
         /\ reserve(b, n).room >= n /\ reserve(b, n).room >= b.room
BY DEF reserve, Buffers

LEMMA PutStringIsBuffer ==
  ASSUME NEW b \in Buffers, NEW s \in Seq(Byte)
  PROVE  put_string(b, s) \in Buffers
<1>1. Len(s) + 2 \in Nat
  OBVIOUS
<1>2. reserve(b, Len(s) + 2) \in Buffers
  BY Zenon, <1>1, ReserveIsBuffer
<1>3. String(s) \in Seq(Byte)
  BY Zenon, StringIsBytes
<1> QED
  BY Zenon, <1>2, <1>3, PutIsBuffer DEF put_string

Subscribings == [topic : Seq(Byte), qos : 0..2]

LEMMA SubscriptionIsBuffer ==
  ASSUME NEW b \in Buffers, NEW s \in Subscribings
  PROVE  encode_subscription(b, s) \in Buffers
<1>1. s.topic \in Seq(Byte) /\ <<s.qos>> \in Seq(Byte)
  BY DEF Subscribings, Byte
<1>2. Len(s.topic) + 1 \in Nat
  BY <1>1
<1>3. reserve(b, Len(s.topic) + 1) \in Buffers
  BY Zenon, <1>2, ReserveIsBuffer
<1>4. put_string(reserve(b, Len(s.topic) + 1), s.topic) \in Buffers
  BY Zenon, <1>1, <1>3, PutStringIsBuffer
<1> QED
  BY Zenon, <1>1, <1>4, PutIsBuffer DEF encode_subscription

\* Folding goes from one element to the next: put,
LEMMA FoldPut ==
  ASSUME NEW b \in Buffers, NEW s \in Seq(Seq(Byte))
  PROVE  \E f : /\ f[0] = b
                /\ \A i \in 0..Len(s) - 1 : f[i + 1] = put(f[i], s[i + 1])
                /\ FoldLeft(put, b, s) = f[Len(s)]
<1> DEFINE O == [z \in Buffers \X Seq(Byte) |-> put(z[1], z[2])]
           Folds(f) == f = [x \in SUBSET DOMAIN s |->
                              IF x = {} THEN b ELSE put(f[x \ {Max(x)}], s[Max(x)])]
<1>1. O \in [Buffers \X Seq(Byte) -> Buffers]
  <2>1. ASSUME NEW z \in Buffers \X Seq(Byte) PROVE put(z[1], z[2]) \in Buffers
    BY Zenon, <2>1, PutIsBuffer
  <2> QED
    BY Zenon, <2>1
<1>2. PICK g \in [SUBSET DOMAIN s -> Buffers] : IsFold(g, s, b, O)
  <2> HIDE DEF O
  <2> QED
    BY Zenon, <1>1, FoldExists
<1>3. Folds(g)
  <2>1. ASSUME NEW x \in SUBSET DOMAIN s
        PROVE  g[x] = IF x = {} THEN b ELSE put(g[x \ {Max(x)}], s[Max(x)])
    <3>0. /\ x # {} => Max(x) \in x
          /\ g[x] = IF x = {} THEN b ELSE O[<<g[x \ {Max(x)}], s[Max(x)]>>]
      <4> HIDE DEF O
      <4> QED
        BY Zenon, <1>2, <2>1 DEF IsFold
    <3>1. CASE x = {}
      BY Zenon, <3>0, <3>1
    <3>2. CASE x # {}
      <4>1. Max(x) \in DOMAIN s /\ x \ {Max(x)} \in SUBSET DOMAIN s
        BY Zenon, <2>1, <3>0, <3>2
      <4>2. s[Max(x)] \in Seq(Byte)
        BY <4>1
      <4>3. g[x \ {Max(x)}] \in Buffers
        BY Zenon, <1>2, <4>1
      <4>4. O[<<g[x \ {Max(x)}], s[Max(x)]>>] = put(g[x \ {Max(x)}], s[Max(x)])
        BY Zenon, <4>2, <4>3
      <4> QED
        BY Zenon, <3>0, <3>2, <4>4
    <3> QED
      BY Zenon, <3>1, <3>2
  <2> QED
    BY Zenon, <1>2, <2>1
<1>4. PICK h : h = CHOOSE f : Folds(f)
  OBVIOUS
<1>5. Folds(h)
  BY Zenon, <1>3, <1>4
<1>6. FoldLeft(put, b, s) = h[DOMAIN s]
  BY Zenon, <1>4 DEF FoldLeft, MapThenFoldSet
<1>7. /\ Len(s) \in Nat /\ DOMAIN s = 1..Len(s)
      /\ \A i \in 0..Len(s) - 1 : i \in Nat /\ i + 1 <= Len(s) /\ i <= Len(s)
  OBVIOUS
<1>8. \A x \in SUBSET DOMAIN s :
        h[x] = IF x = {} THEN b ELSE put(h[x \ {Max(x)}], s[Max(x)])
  BY Zenon, <1>5
<1> DEFINE f == [i \in 0..Len(s) |-> h[1..i]]
<1>9. f[0] = b
  <2>1. f[0] = h[1..0]
    BY <1>7
  <2>2. 1..0 = {} /\ {} \in SUBSET DOMAIN s
    OBVIOUS
  <2> QED
    BY Zenon, <1>8, <2>1, <2>2
<1>10. ASSUME NEW i \in 0..Len(s) - 1 PROVE f[i + 1] = put(f[i], s[i + 1])
  <2>1. i \in Nat /\ f[i + 1] = h[1..i + 1] /\ f[i] = h[1..i] /\ 1..i + 1 \in SUBSET DOMAIN s
    BY <1>7
  <2>2. 1..i + 1 # {} /\ Max(1..i + 1) = i + 1 /\ (1..i + 1) \ {i + 1} = 1..i
    BY Zenon, <2>1, LastOfFirst
  <2>3. h[1..i + 1] = put(h[(1..i + 1) \ {i + 1}], s[i + 1])
    BY Zenon, <1>8, <2>1, <2>2
  <2> QED
    BY Zenon, <2>1, <2>2, <2>3
<1>11. f[Len(s)] = h[DOMAIN s]
  BY <1>7
<1> HIDE DEF f
<1> QED
  BY Zenon, <1>6, <1>9, <1>10, <1>11

\* put_string,
LEMMA FoldPutString ==
  ASSUME NEW b \in Buffers, NEW s \in Seq(Seq(Byte))
  PROVE  \E f : /\ f[0] = b
                /\ \A i \in 0..Len(s) - 1 : f[i + 1] = put_string(f[i], s[i + 1])
                /\ FoldLeft(put_string, b, s) = f[Len(s)]
<1> DEFINE O == [z \in Buffers \X Seq(Byte) |-> put_string(z[1], z[2])]
           Folds(f) == f = [x \in SUBSET DOMAIN s |->
                              IF x = {} THEN b ELSE put_string(f[x \ {Max(x)}], s[Max(x)])]
<1>1. O \in [Buffers \X Seq(Byte) -> Buffers]
  <2>1. ASSUME NEW z \in Buffers \X Seq(Byte) PROVE put_string(z[1], z[2]) \in Buffers
    BY Zenon, <2>1, PutStringIsBuffer
  <2> QED
    BY Zenon, <2>1
<1>2. PICK g \in [SUBSET DOMAIN s -> Buffers] : IsFold(g, s, b, O)
  <2> HIDE DEF O
  <2> QED
    BY Zenon, <1>1, FoldExists
<1>3. Folds(g)
  <2>1. ASSUME NEW x \in SUBSET DOMAIN s
        PROVE  g[x] = IF x = {} THEN b ELSE put_string(g[x \ {Max(x)}], s[Max(x)])
    <3>0. /\ x # {} => Max(x) \in x
          /\ g[x] = IF x = {} THEN b ELSE O[<<g[x \ {Max(x)}], s[Max(x)]>>]
      <4> HIDE DEF O
      <4> QED
        BY Zenon, <1>2, <2>1 DEF IsFold
    <3>1. CASE x = {}
      BY Zenon, <3>0, <3>1
    <3>2. CASE x # {}
      <4>1. Max(x) \in DOMAIN s /\ x \ {Max(x)} \in SUBSET DOMAIN s
        BY Zenon, <2>1, <3>0, <3>2
      <4>2. s[Max(x)] \in Seq(Byte)
        BY <4>1
      <4>3. g[x \ {Max(x)}] \in Buffers
        BY Zenon, <1>2, <4>1
      <4>4. O[<<g[x \ {Max(x)}], s[Max(x)]>>] = put_string(g[x \ {Max(x)}], s[Max(x)])
        BY Zenon, <4>2, <4>3
      <4> QED
        BY Zenon, <3>0, <3>2, <4>4
    <3> QED
      BY Zenon, <3>1, <3>2
  <2> QED
    BY Zenon, <1>2, <2>1
<1>4. PICK h : h = CHOOSE f : Folds(f)
  OBVIOUS
<1>5. Folds(h)
  BY Zenon, <1>3, <1>4
<1>6. FoldLeft(put_string, b, s) = h[DOMAIN s]
  BY Zenon, <1>4 DEF FoldLeft, MapThenFoldSet
<1>7. /\ Len(s) \in Nat /\ DOMAIN s = 1..Len(s)
      /\ \A i \in 0..Len(s) - 1 : i \in Nat /\ i + 1 <= Len(s) /\ i <= Len(s)
  OBVIOUS
<1>8. \A x \in SUBSET DOMAIN s :
        h[x] = IF x = {} THEN b ELSE put_string(h[x \ {Max(x)}], s[Max(x)])
  BY Zenon, <1>5
<1> DEFINE f == [i \in 0..Len(s) |-> h[1..i]]
<1>9. f[0] = b
  <2>1. f[0] = h[1..0]
    BY <1>7
  <2>2. 1..0 = {} /\ {} \in SUBSET DOMAIN s
    OBVIOUS
  <2> QED
    BY Zenon, <1>8, <2>1, <2>2
<1>10. ASSUME NEW i \in 0..Len(s) - 1 PROVE f[i + 1] = put_string(f[i], s[i + 1])
  <2>1. i \in Nat /\ f[i + 1] = h[1..i + 1] /\ f[i] = h[1..i] /\ 1..i + 1 \in SUBSET DOMAIN s
    BY <1>7
  <2>2. 1..i + 1 # {} /\ Max(1..i + 1) = i + 1 /\ (1..i + 1) \ {i + 1} = 1..i
    BY Zenon, <2>1, LastOfFirst
  <2>3. h[1..i + 1] = put_string(h[(1..i + 1) \ {i + 1}], s[i + 1])
    BY Zenon, <1>8, <2>1, <2>2
  <2> QED
    BY Zenon, <2>1, <2>2, <2>3
<1>11. f[Len(s)] = h[DOMAIN s]
  BY <1>7
<1> HIDE DEF f
<1> QED
  BY Zenon, <1>6, <1>9, <1>10, <1>11

\* and encode_subscription.
LEMMA FoldSubscriptions ==
  ASSUME NEW b \in Buffers, NEW s \in Seq(Subscribings)
  PROVE  \E f : /\ f[0] = b
                /\ \A i \in 0..Len(s) - 1 : f[i + 1] = encode_subscription(f[i], s[i + 1])
                /\ FoldLeft(encode_subscription, b, s) = f[Len(s)]
<1> DEFINE O == [z \in Buffers \X Subscribings |-> encode_subscription(z[1], z[2])]
           Folds(f) == f = [x \in SUBSET DOMAIN s |->
                              IF x = {} THEN b ELSE encode_subscription(f[x \ {Max(x)}], s[Max(x)])]
<1>1. O \in [Buffers \X Subscribings -> Buffers]
  <2>1. ASSUME NEW z \in Buffers \X Subscribings PROVE encode_subscription(z[1], z[2]) \in Buffers
    BY Zenon, <2>1, SubscriptionIsBuffer
  <2> QED
    BY Zenon, <2>1
<1>2. PICK g \in [SUBSET DOMAIN s -> Buffers] : IsFold(g, s, b, O)
  <2> HIDE DEF O
  <2> QED
    BY Zenon, <1>1, FoldExists
<1>3. Folds(g)
  <2>1. ASSUME NEW x \in SUBSET DOMAIN s
        PROVE  g[x] = IF x = {} THEN b ELSE encode_subscription(g[x \ {Max(x)}], s[Max(x)])
    <3>0. /\ x # {} => Max(x) \in x
          /\ g[x] = IF x = {} THEN b ELSE O[<<g[x \ {Max(x)}], s[Max(x)]>>]
      <4> HIDE DEF O
      <4> QED
        BY Zenon, <1>2, <2>1 DEF IsFold
    <3>1. CASE x = {}
      BY Zenon, <3>0, <3>1
    <3>2. CASE x # {}
      <4>1. Max(x) \in DOMAIN s /\ x \ {Max(x)} \in SUBSET DOMAIN s
        BY Zenon, <2>1, <3>0, <3>2
      <4>2. s[Max(x)] \in Subscribings
        BY <4>1
      <4>3. g[x \ {Max(x)}] \in Buffers
        BY Zenon, <1>2, <4>1
      <4>4. O[<<g[x \ {Max(x)}], s[Max(x)]>>] = encode_subscription(g[x \ {Max(x)}], s[Max(x)])
        BY Zenon, <4>2, <4>3
      <4> QED
        BY Zenon, <3>0, <3>2, <4>4
    <3> QED
      BY Zenon, <3>1, <3>2
  <2> QED
    BY Zenon, <1>2, <2>1
<1>4. PICK h : h = CHOOSE f : Folds(f)
  OBVIOUS
<1>5. Folds(h)
  BY Zenon, <1>3, <1>4
<1>6. FoldLeft(encode_subscription, b, s) = h[DOMAIN s]
  BY Zenon, <1>4 DEF FoldLeft, MapThenFoldSet
<1>7. /\ Len(s) \in Nat /\ DOMAIN s = 1..Len(s)
      /\ \A i \in 0..Len(s) - 1 : i \in Nat /\ i + 1 <= Len(s) /\ i <= Len(s)
  OBVIOUS
<1>8. \A x \in SUBSET DOMAIN s :
        h[x] = IF x = {} THEN b ELSE encode_subscription(h[x \ {Max(x)}], s[Max(x)])
  BY Zenon, <1>5
<1> DEFINE f == [i \in 0..Len(s) |-> h[1..i]]
<1>9. f[0] = b
  <2>1. f[0] = h[1..0]
    BY <1>7
  <2>2. 1..0 = {} /\ {} \in SUBSET DOMAIN s
    OBVIOUS
  <2> QED
    BY Zenon, <1>8, <2>1, <2>2
<1>10. ASSUME NEW i \in 0..Len(s) - 1 PROVE f[i + 1] = encode_subscription(f[i], s[i + 1])
  <2>1. i \in Nat /\ f[i + 1] = h[1..i + 1] /\ f[i] = h[1..i] /\ 1..i + 1 \in SUBSET DOMAIN s
    BY <1>7
  <2>2. 1..i + 1 # {} /\ Max(1..i + 1) = i + 1 /\ (1..i + 1) \ {i + 1} = 1..i
    BY Zenon, <2>1, LastOfFirst
  <2>3. h[1..i + 1] = encode_subscription(h[(1..i + 1) \ {i + 1}], s[i + 1])
    BY Zenon, <1>8, <2>1, <2>2
  <2> QED
    BY Zenon, <2>1, <2>2, <2>3
<1>11. f[Len(s)] = h[DOMAIN s]
  BY <1>7
<1> HIDE DEF f
<1> QED
  BY Zenon, <1>6, <1>9, <1>10, <1>11

-----------------------------------------------------------------------------
(* What buffers hold.                                                      *)

\* A buffer that did not panic holds x, and with its room that is c at least.
Wrote(b, x, c) ==
  b \in Buffers /\ ~b.panicked /\ b.held = x /\ Len(x) + b.room >= c

\* What there is room for is put behind.
LEMMA PutFits ==
  ASSUME NEW b, NEW x \in Seq(Byte), NEW c \in Nat, Wrote(b, x, c),
         NEW s \in Seq(Byte), Len(s) <= b.room
  PROVE  Wrote(put(b, s), x \o s, c)
<1>1. b \in Buffers /\ ~b.panicked /\ b.held = x /\ Len(x) + b.room >= c
  BY Zenon DEF Wrote
<1>2. PICK r \in Nat, q \in BOOLEAN : b = [held |-> x, room |-> r, panicked |-> q]
  BY <1>1 DEF Buffers
<1>3. PICK n \in Nat, m \in Nat : n = Len(s) /\ m = Len(x)
  BY LenProperties
<1>4. PICK y \in Seq(Byte), k \in Nat : y = x \o s /\ k = r - n /\ Len(y) = m + n
  <2>1. x \o s \in Seq(Byte) /\ Len(x \o s) = Len(x) + Len(s)
    BY ONLY x \in Seq(Byte), s \in Seq(Byte)
  <2>2. b.room = r
    BY <1>2
  <2>3. r - n \in Nat
    BY <1>3, <2>2
  <2> QED
    BY Zenon, <1>3, <2>1, <2>3
<1>5. put(b, s) = [held |-> y, room |-> k, panicked |-> q]
  <2>1. b.room = r /\ b.held = x
    BY <1>2
  <2>2. ~(Len(s) > b.room)
    BY <1>2, <1>3
  <2>3. put(b, s) = [b EXCEPT !.held = @ \o s, !.room = @ - Len(s)]
    BY Zenon, <2>2 DEF put
  <2> QED
    BY <1>2, <1>3, <1>4, <2>3
<1>6. put(b, s) \in Buffers
  BY Zenon, <1>1, PutIsBuffer
<1>7. put(b, s).held = y /\ put(b, s).room = k /\ put(b, s).panicked = q
  BY <1>5
<1>8. ~q /\ m + n + k >= c
  <2>1. b.panicked = q /\ b.room = r
    BY <1>2
  <2>2. m + r >= c
    BY Zenon, <1>1, <1>3, <2>1
  <2>3. m + n + k >= c
    BY ONLY <1>4, <2>2, m \in Nat, n \in Nat, k \in Nat, r \in Nat, c \in Nat
  <2> QED
    BY Zenon, <1>1, <2>1, <2>3
<1> QED
  BY Zenon, <1>4, <1>6, <1>7, <1>8 DEF Wrote

\* What is within the bound has room.
LEMMA PutWrites ==
  ASSUME NEW b, NEW x \in Seq(Byte), NEW c \in Nat, Wrote(b, x, c),
         NEW s \in Seq(Byte), Len(x) + Len(s) <= c
  PROVE  Wrote(put(b, s), x \o s, c)
<1>1. b \in Buffers /\ Len(x) + b.room >= c
  BY Zenon DEF Wrote
<1>2. b.room \in Nat
  BY <1>1 DEF Buffers
<1>3. Len(s) \in Nat /\ Len(x) \in Nat
  BY LenProperties
<1>4. Len(s) <= b.room
  BY <1>1, <1>2, <1>3
<1> QED
  BY Zenon, <1>4, PutFits

\* A reserve makes room and changes nothing.
LEMMA ReserveWrites ==
  ASSUME NEW b, NEW x \in Seq(Byte), NEW c \in Nat, Wrote(b, x, c), NEW n \in Nat
  PROVE  Wrote(reserve(b, n), x, c) /\ reserve(b, n).room >= n
<1>1. b \in Buffers /\ ~b.panicked /\ b.held = x /\ Len(x) + b.room >= c
  BY Zenon DEF Wrote
<1>2. PICK d : d = reserve(b, n)
  OBVIOUS
<1>3. d \in Buffers /\ d.held = b.held /\ d.panicked = b.panicked /\ d.room >= n /\ d.room >= b.room
  BY Zenon, <1>1, <1>2, ReserveIsBuffer
<1>4. Len(x) \in Nat /\ b.room \in Nat /\ d.room \in Nat
  BY <1>1, <1>3, LenProperties DEF Buffers
<1>5. Len(x) + d.room >= c
  BY <1>1, <1>3, <1>4
<1> QED
  BY Zenon, <1>1, <1>2, <1>3, <1>5 DEF Wrote

\* A string makes its own room.
LEMMA StringWrites ==
  ASSUME NEW b, NEW x \in Seq(Byte), NEW c \in Nat, Wrote(b, x, c), NEW s \in Seq(Byte)
  PROVE  Wrote(put_string(b, s), x \o String(s), c)
<1>1. Len(s) + 2 \in Nat
  BY LenProperties
<1>2. PICK d : d = reserve(b, Len(s) + 2)
  OBVIOUS
<1>3. Wrote(d, x, c) /\ d.room >= Len(s) + 2
  BY Zenon, <1>1, <1>2, ReserveWrites
<1>4. String(s) \in Seq(Byte) /\ Len(String(s)) = Len(s) + 2
  BY Zenon, StringIsBytes
<1>5. Len(String(s)) <= d.room
  <2>1. d.room \in Nat
    <3>1. d \in Buffers
      BY Zenon, <1>3 DEF Wrote
    <3> QED
      BY <3>1 DEF Buffers
  <2>2. PICK n \in Nat : n = Len(s) + 2
    BY Zenon, <1>1
  <2>3. n <= d.room
    BY <1>3, <2>1, <2>2
  <2> QED
    BY Zenon, <1>4, <2>2, <2>3
<1> QED
  BY Zenon, <1>2, <1>3, <1>4, <1>5, PutFits DEF put_string

\* A subscription: its topic, and the byte of its QoS when that is in the bound.
LEMMA SubscriptionWrites ==
  ASSUME NEW b, NEW x \in Seq(Byte), NEW c \in Nat, Wrote(b, x, c), NEW s \in Subscribings,
         Len(x) + Len(String(s.topic) \o <<s.qos>>) <= c
  PROVE  /\ String(s.topic) \o <<s.qos>> \in Seq(Byte)
         /\ Wrote(encode_subscription(b, s), x \o (String(s.topic) \o <<s.qos>>), c)
<1>1. PICK q \in Seq(Byte), t \in Seq(Byte), u \in Seq(Byte) :
           q = <<s.qos>> /\ t = s.topic /\ u = String(t) /\ Len(q) = 1
  <2>1. <<s.qos>> \in Seq(Byte) /\ Len(<<s.qos>>) = 1 /\ s.topic \in Seq(Byte)
    BY DEF Subscribings, Byte
  <2>2. String(s.topic) \in Seq(Byte)
    BY Zenon, <2>1, StringIsBytes
  <2> QED
    BY Zenon, <2>1, <2>2
<1>2. PICK d : d = put_string(reserve(b, Len(t) + 1), t)
  OBVIOUS
<1>3. Wrote(d, x \o u, c)
  <2>1. Len(t) + 1 \in Nat
    BY LenProperties
  <2>2. Wrote(reserve(b, Len(t) + 1), x, c)
    BY Zenon, <2>1, ReserveWrites
  <2> QED
    BY Zenon, <1>1, <1>2, <2>2, StringWrites
<1>4. /\ x \o u \in Seq(Byte) /\ u \o q \in Seq(Byte)
      /\ Len(x \o u) = Len(x) + Len(u) /\ Len(u \o q) = Len(u) + Len(q)
  BY ONLY x \in Seq(Byte), u \in Seq(Byte), q \in Seq(Byte)
<1>5. (x \o u) \o q = x \o (u \o q)
  BY ONLY x \in Seq(Byte), u \in Seq(Byte), q \in Seq(Byte), ConcatAssociative
<1>6. Len(x \o u) + Len(q) <= c
  <2>1. PICK k \in Nat, l \in Nat, m \in Nat : k = Len(x) /\ l = Len(u) /\ m = Len(q)
    BY LenProperties
  <2>2. k + (l + m) <= c
    BY Zenon, <1>1, <1>4, <2>1
  <2>3. (k + l) + m <= c
    BY ONLY <2>2, k \in Nat, l \in Nat, m \in Nat
  <2> QED
    BY Zenon, <1>4, <2>1, <2>3
<1>7. Wrote(put(d, q), (x \o u) \o q, c)
  BY Zenon, <1>3, <1>4, <1>6, PutWrites
<1>8. encode_subscription(b, s) = put(d, q)
  BY Zenon, <1>1, <1>2 DEF encode_subscription
<1> QED
  BY Zenon, <1>1, <1>4, <1>5, <1>7, <1>8

\* Bytes in a row, from the left or from the right.
LEMMA Regrouped ==
  ASSUME NEW a \in Seq(Byte), NEW b \in Seq(Byte), NEW c \in Seq(Byte)
  PROVE  (a \o b) \o c = a \o (b \o c)
BY ConcatAssociative

\* A flattened sequence is joined from nothing, one element after the other.
LEMMA FlattenSteps ==
  ASSUME NEW S, NEW s \in Seq(Seq(S)), NEW n \in Nat, n = Len(s)
  PROVE  \E h \in [0..n -> Seq(S)] :
           /\ h[0] = <<>> /\ h[n] = FlattenSeq(s)
           /\ \A i \in 0..n - 1 : h[i + 1] = h[i] \o s[i + 1]
           /\ \A i \in 0..n : Len(h[i]) <= Len(h[n])
<1>1. \E h \in [0..n -> Seq(S)] :
           /\ h[0] = <<>> /\ h[n] = FlattenSeq(s)
           /\ \A i \in 0..n - 1 : h[i + 1] = h[i] \o s[i + 1]
  <2>0. <<>> \in Seq(S)
    OBVIOUS
  <2>1. CASE s = <<>>
    <3>1. FlattenSeq(s) = <<>>
      BY <2>1 DEF FlattenSeq
    <3>2. n = 0
      BY <2>1
    <3>3. [i \in 0..n |-> <<>>] \in [0..n -> Seq(S)]
      BY Zenon, <2>0
    <3> DEFINE h == [i \in 0..n |-> <<>>]
    <3>4. h \in [0..n -> Seq(S)] /\ h[0] = <<>> /\ h[n] = <<>>
      BY <3>2, <3>3
    <3>5. \A i \in 0..n - 1 : FALSE
      BY <3>2
    <3> HIDE DEF h
    <3> QED
      BY Zenon, <3>1, <3>4, <3>5
  <2>2. CASE s # <<>>
    <3>1. PICK f \in [1..n -> Seq(S)] :
            /\ f[1] = s[1]
            /\ \A i \in 1..n - 1 : f[i + 1] = f[i] \o s[i + 1]
            /\ FlattenSeq(s) = f[n]
      BY Zenon, <2>2, Flattened
    <3>2. n >= 1
      BY <2>2
    <3> DEFINE h == [i \in 0..n |-> IF i = 0 THEN <<>> ELSE f[i]]
    <3>3. h \in [0..n -> Seq(S)] /\ h[0] = <<>> /\ \A i \in 1..n : h[i] = f[i]
      BY <2>0
    <3>4. ASSUME NEW i \in 0..n - 1 PROVE h[i + 1] = h[i] \o s[i + 1]
      <4>1. i + 1 \in 1..n
        OBVIOUS
      <4>2. CASE i = 0
        <5>1. PICK a \in Seq(S) : a = s[1]
          BY <3>2
        <5>2. <<>> \o a = a
          OBVIOUS
        <5>3. h[i + 1] = s[1] /\ h[i] = <<>> /\ s[i + 1] = s[1]
          <6> HIDE DEF h
          <6>1. i + 1 = 1 /\ 1 \in 1..n
            BY <4>1, <4>2
          <6> QED
            BY Zenon, <3>1, <3>3, <4>2, <6>1
        <5> HIDE DEF h
        <5> QED
          BY Zenon, <5>1, <5>2, <5>3
      <4>3. CASE i # 0
        <5>1. i \in 1..n - 1 /\ i \in 1..n
          BY <4>3
        <5> HIDE DEF h
        <5> QED
          BY Zenon, <3>1, <3>3, <4>1, <5>1
      <4> HIDE DEF h
      <4> QED
        BY Zenon, <4>2, <4>3
    <3>5. h[n] = FlattenSeq(s)
      <4>1. n \in 1..n
        BY <3>2
      <4> HIDE DEF h
      <4> QED
        BY Zenon, <3>1, <3>3, <4>1
    <3> HIDE DEF h
    <3> QED
      BY Zenon, <3>3, <3>4, <3>5
  <2> QED
    BY Zenon, <2>1, <2>2
<1>2. PICK h \in [0..n -> Seq(S)] :
           /\ h[0] = <<>> /\ h[n] = FlattenSeq(s)
           /\ \A i \in 0..n - 1 : h[i + 1] = h[i] \o s[i + 1]
  BY Zenon, <1>1
<1>3. ASSUME NEW i \in 0..n - 1 PROVE Len(h[i]) <= Len(h[i + 1])
  <2>1. PICK a \in Seq(S), c \in Seq(S) : a = h[i] /\ c = s[i + 1] /\ h[i + 1] = a \o c
    <3>1. i \in 0..n /\ i + 1 \in 1..Len(s)
      BY <1>3
    <3>2. h[i] \in Seq(S) /\ s[i + 1] \in Seq(S)
      BY ONLY <3>1, h \in [0..n -> Seq(S)], s \in Seq(Seq(S))
    <3> QED
      BY Zenon, <1>2, <1>3, <3>2
  <2>2. Len(a) <= Len(a \o c)
    BY ONLY a \in Seq(S), c \in Seq(S)
  <2> QED
    BY Zenon, <2>1, <2>2
<1>4. \A i \in 0..n : Len(h[i]) \in Nat
  BY LenProperties
<1> DEFINE P(k) == k <= n => Len(h[n - k]) <= Len(h[n])
<1>5. P(0)
  <2>1. n - 0 = n /\ n \in 0..n
    OBVIOUS
  <2> QED
    BY <1>4, <2>1
<1>6. ASSUME NEW k \in Nat, P(k) PROVE P(k + 1)
  <2> SUFFICES ASSUME k + 1 <= n PROVE Len(h[n - (k + 1)]) <= Len(h[n])
    OBVIOUS
  <2>1. PICK i \in 0..n - 1 : i = n - (k + 1)
    <3>1. n - (k + 1) \in 0..n - 1
      BY ONLY n \in Nat, k \in Nat, k + 1 <= n
    <3> QED
      BY Zenon, <3>1
  <2>2. i + 1 = n - k /\ k <= n /\ i \in 0..n /\ i + 1 \in 0..n /\ n \in 0..n
    BY <2>1
  <2>3. Len(h[i]) <= Len(h[i + 1]) /\ Len(h[i + 1]) <= Len(h[n])
    BY Zenon, <1>3, <1>6, <2>2
  <2>4. Len(h[i]) \in Nat /\ Len(h[i + 1]) \in Nat /\ Len(h[n]) \in Nat
    BY Zenon, <1>4, <2>2
  <2>5. Len(h[i]) <= Len(h[n])
    BY ONLY <2>3, <2>4
  <2> QED
    BY Zenon, <2>1, <2>5
<1>7. \A k \in Nat : P(k)
  <2> DEFINE T == {k \in Nat : P(k)}
  <2> HIDE DEF P
  <2>1. 0 \in T /\ \A k \in Nat : k \in T => k + 1 \in T
    BY <1>5, <1>6
  <2>2. Nat \subseteq T
    <3> HIDE DEF T
    <3> QED
      BY <2>1, Counting
  <2> QED
    BY <2>2
<1>8. ASSUME NEW i \in 0..n PROVE Len(h[i]) <= Len(h[n])
  <2>1. PICK k \in Nat : k = n - i /\ k <= n /\ n - k = i
    <3>1. n - i \in Nat /\ n - i <= n /\ n - (n - i) = i
      BY ONLY n \in Nat, i \in 0..n
    <3> QED
      BY Zenon, <3>1
  <2> QED
    BY Zenon, <1>7, <2>1
<1> QED
  BY Zenon, <1>2, <1>8

\* It is a sequence.
LEMMA FlattenTyped ==
  ASSUME NEW S, NEW s \in Seq(Seq(S))
  PROVE  FlattenSeq(s) \in Seq(S)
<1>1. CASE s = <<>>
  <2>1. FlattenSeq(s) = <<>>
    BY <1>1 DEF FlattenSeq
  <2> QED
    BY <2>1
<1>2. CASE s # <<>>
  BY Zenon, <1>2, FlattenHead
<1> QED
  BY Zenon, <1>1, <1>2

\* A buffer that takes one element after the other takes all, when each fits
\* as long as all of them are within a bound.
LEMMA Accumulates ==
  ASSUME NEW x \in Seq(Byte), NEW c \in Nat, NEW lim \in Nat,
         NEW s \in Seq(Seq(Byte)), NEW n \in Nat, n = Len(s), NEW f, Wrote(f[0], x, c),
         \A i \in 0..n - 1 : \A y \in Seq(Byte) :
           Wrote(f[i], y, c) /\ Len(y) + Len(s[i + 1]) <= lim => Wrote(f[i + 1], y \o s[i + 1], c),
         Len(x) + Len(FlattenSeq(s)) <= lim
  PROVE  FlattenSeq(s) \in Seq(Byte) /\ Wrote(f[n], x \o FlattenSeq(s), c)
<1>1. PICK h \in [0..n -> Seq(Byte)] :
           /\ h[0] = <<>> /\ h[n] = FlattenSeq(s)
           /\ \A i \in 0..n - 1 : h[i + 1] = h[i] \o s[i + 1]
           /\ \A i \in 0..n : Len(h[i]) <= Len(h[n])
  BY Zenon, FlattenSteps
<1> DEFINE P(i) == i <= n => Wrote(f[i], x \o h[i], c)
<1>2. P(0)
  <2>1. x \o <<>> = x
    OBVIOUS
  <2> QED
    BY Zenon, <1>1, <2>1
<1>3. ASSUME NEW i \in Nat, P(i) PROVE P(i + 1)
  <2> SUFFICES ASSUME i + 1 <= n PROVE Wrote(f[i + 1], x \o h[i + 1], c)
    OBVIOUS
  <2>1. i <= n /\ i \in 0..n - 1 /\ i \in 0..n /\ i + 1 \in 0..n /\ n \in 0..n /\ i + 1 \in 1..Len(s)
    OBVIOUS
  <2>2. PICK a \in Seq(Byte), d \in Seq(Byte) :
             a = h[i] /\ d = s[i + 1] /\ h[i + 1] = a \o d
    <3>1. h[i] \in Seq(Byte) /\ s[i + 1] \in Seq(Byte)
      BY ONLY <2>1, h \in [0..n -> Seq(Byte)], s \in Seq(Seq(Byte))
    <3> QED
      BY Zenon, <1>1, <2>1, <3>1
  <2>3. /\ x \o a \in Seq(Byte) /\ Len(x \o a) = Len(x) + Len(a)
        /\ Len(a \o d) = Len(a) + Len(d)
    BY ONLY x \in Seq(Byte), a \in Seq(Byte), d \in Seq(Byte)
  <2>4. (x \o a) \o d = x \o (a \o d)
    BY Zenon, Regrouped
  <2>5. Len(x \o a) + Len(d) <= lim
    <3>1. PICK j \in Nat, k \in Nat, l \in Nat, m \in Nat :
               j = Len(x) /\ k = Len(a) /\ l = Len(d) /\ m = Len(FlattenSeq(s))
      <4>1. h[n] \in Seq(Byte)
        BY ONLY <2>1, h \in [0..n -> Seq(Byte)]
      <4>2. FlattenSeq(s) \in Seq(Byte)
        BY Zenon, <1>1, <4>1
      <4> QED
        BY Zenon, <4>2, LenProperties
    <3>2. k + l <= m /\ j + m <= lim
      BY Zenon, <1>1, <2>1, <2>2, <2>3, <3>1
    <3>3. (j + k) + l <= lim
      BY ONLY <3>2, j \in Nat, k \in Nat, l \in Nat, m \in Nat, lim \in Nat
    <3> QED
      BY Zenon, <2>3, <3>1, <3>3
  <2>6. Wrote(f[i], x \o a, c)
    BY Zenon, <1>3, <2>1, <2>2
  <2>7. Wrote(f[i + 1], (x \o a) \o d, c)
    BY Zenon, <2>1, <2>2, <2>3, <2>5, <2>6
  <2> QED
    BY Zenon, <2>2, <2>4, <2>7
<1>4. \A i \in Nat : P(i)
  <2> DEFINE T == {i \in Nat : P(i)}
  <2> HIDE DEF P
  <2>1. 0 \in T /\ \A i \in Nat : i \in T => i + 1 \in T
    BY <1>2, <1>3
  <2>2. Nat \subseteq T
    <3> HIDE DEF T
    <3> QED
      BY <2>1, Counting
  <2> QED
    BY <2>2
<1>5. n <= n /\ n \in 0..n
  OBVIOUS
<1>6. h[n] \in Seq(Byte)
  BY <1>5
<1> QED
  BY Zenon, <1>1, <1>4, <1>5, <1>6

\* The headers are put as they are,
LEMMA HeadersAreWritten ==
  ASSUME NEW b, NEW x \in Seq(Byte), NEW c \in Nat, Wrote(b, x, c),
         NEW s \in Seq(Seq(Byte)), Len(x) + Len(FlattenSeq(s)) <= c
  PROVE  /\ FlattenSeq(s) \in Seq(Byte)
         /\ Wrote(FoldLeft(put, b, s), x \o FlattenSeq(s), c)
<1>1. b \in Buffers
  BY Zenon DEF Wrote
<1>2. PICK n \in Nat : n = Len(s)
  BY LenProperties
<1>3. PICK f : /\ f[0] = b
               /\ \A i \in 0..n - 1 : f[i + 1] = put(f[i], s[i + 1])
               /\ FoldLeft(put, b, s) = f[n]
  <2>1. PICK f : /\ f[0] = b
                 /\ \A i \in 0..Len(s) - 1 : f[i + 1] = put(f[i], s[i + 1])
                 /\ FoldLeft(put, b, s) = f[Len(s)]
    BY Zenon, <1>1, FoldPut
  <2>2. 0..n - 1 = 0..Len(s) - 1
    BY Zenon, <1>2
  <2> QED
    BY Zenon, <1>2, <2>1, <2>2
<1>4. ASSUME NEW i \in 0..n - 1, NEW y \in Seq(Byte),
             Wrote(f[i], y, c), Len(y) + Len(s[i + 1]) <= c
      PROVE  Wrote(f[i + 1], y \o s[i + 1], c)
  <2>1. s[i + 1] \in Seq(Byte)
    <3>1. i + 1 \in 1..Len(s)
      BY <1>2
    <3> QED
      BY <3>1
  <2>2. Wrote(put(f[i], s[i + 1]), y \o s[i + 1], c)
    BY Zenon, <1>4, <2>1, PutWrites
  <2> QED
    BY Zenon, <1>3, <1>4, <2>2
<1> QED
  BY Zenon, <1>2, <1>3, <1>4, Accumulates

\* strings each with its length,
LEMMA StringsAreWritten ==
  ASSUME NEW b, NEW x \in Seq(Byte), NEW c \in Nat, Wrote(b, x, c),
         NEW ts \in Seq(Seq(Byte)), NEW s, s = [i \in DOMAIN ts |-> String(ts[i])]
  PROVE  /\ s \in Seq(Seq(Byte)) /\ FlattenSeq(s) \in Seq(Byte)
         /\ Wrote(FoldLeft(put_string, b, ts), x \o FlattenSeq(s), c)
<1>1. b \in Buffers
  BY Zenon DEF Wrote
<1>2. PICK n \in Nat : n = Len(ts)
  BY LenProperties
<1>3. PICK f : /\ f[0] = b
               /\ \A i \in 0..n - 1 : f[i + 1] = put_string(f[i], ts[i + 1])
               /\ FoldLeft(put_string, b, ts) = f[n]
  <2>1. PICK f : /\ f[0] = b
                 /\ \A i \in 0..Len(ts) - 1 : f[i + 1] = put_string(f[i], ts[i + 1])
                 /\ FoldLeft(put_string, b, ts) = f[Len(ts)]
    BY Zenon, <1>1, FoldPutString
  <2>2. 0..n - 1 = 0..Len(ts) - 1
    BY Zenon, <1>2
  <2> QED
    BY Zenon, <1>2, <2>1, <2>2
<1>4. /\ s \in Seq(Seq(Byte)) /\ Len(s) = n
      /\ \A i \in 1..n : ts[i] \in Seq(Byte) /\ s[i] = String(ts[i])
  <2>1. DOMAIN ts = 1..n /\ \A i \in 1..n : ts[i] \in Seq(Byte)
    BY <1>2
  <2>2. \A i \in 1..n : String(ts[i]) \in Seq(Byte)
    BY Zenon, <2>1, StringIsBytes
  <2>3. s = [i \in 1..n |-> String(ts[i])]
    BY Zenon, <2>1
  <2> QED
    BY <2>1, <2>2, <2>3
<1>5. ASSUME NEW i \in 0..n - 1, NEW y \in Seq(Byte), Wrote(f[i], y, c)
      PROVE  Wrote(f[i + 1], y \o s[i + 1], c)
  <2>1. i + 1 \in 1..n
    OBVIOUS
  <2>2. Wrote(put_string(f[i], ts[i + 1]), y \o String(ts[i + 1]), c)
    BY Zenon, <1>4, <1>5, <2>1, StringWrites
  <2> QED
    BY Zenon, <1>3, <1>4, <1>5, <2>1, <2>2
<1>6. FlattenSeq(s) \in Seq(Byte)
  BY Zenon, <1>4, FlattenTyped
<1>7. PICK lim \in Nat : Len(x) + Len(FlattenSeq(s)) <= lim
  <2>1. Len(x) \in Nat /\ Len(FlattenSeq(s)) \in Nat
    BY Zenon, <1>6, LenProperties
  <2>2. Len(x) + Len(FlattenSeq(s)) \in Nat
    BY ONLY <2>1
  <2>3. Len(x) + Len(FlattenSeq(s)) <= Len(x) + Len(FlattenSeq(s))
    BY ONLY <2>2
  <2> QED
    BY Zenon, <2>2, <2>3
<1>8. \A i \in 0..n - 1 : \A y \in Seq(Byte) :
        Wrote(f[i], y, c) /\ Len(y) + Len(s[i + 1]) <= lim => Wrote(f[i + 1], y \o s[i + 1], c)
  BY Zenon, <1>5
<1>9. Wrote(f[0], x, c) /\ n = Len(s)
  BY Zenon, <1>3, <1>4
<1>10. Wrote(f[n], x \o FlattenSeq(s), c)
  BY Zenon, <1>4, <1>7, <1>8, <1>9, Accumulates
<1> QED
  BY Zenon, <1>3, <1>4, <1>6, <1>10

\* A subscription has its topic and a byte.
LEMMA SubscriptionBytes ==
  ASSUME NEW ts \in Seq(Subscribings),
         NEW s, s = [i \in DOMAIN ts |-> String(ts[i].topic) \o <<ts[i].qos>>]
  PROVE  /\ s \in Seq(Seq(Byte)) /\ Len(s) = Len(ts)
         /\ \A i \in 1..Len(ts) :
              ts[i] \in Subscribings /\ s[i] = String(ts[i].topic) \o <<ts[i].qos>>
<1>1. PICK n \in Nat : n = Len(ts)
  BY LenProperties
<1>2. DOMAIN ts = 1..n /\ \A i \in 1..n : ts[i] \in Subscribings
  BY <1>1
<1>3. ASSUME NEW t \in Subscribings PROVE String(t.topic) \o <<t.qos>> \in Seq(Byte)
  <2>1. <<t.qos>> \in Seq(Byte) /\ t.topic \in Seq(Byte)
    BY DEF Subscribings, Byte
  <2>2. String(t.topic) \in Seq(Byte)
    BY Zenon, <2>1, StringIsBytes
  <2> QED
    BY <2>1, <2>2
<1>4. s = [i \in 1..n |-> String(ts[i].topic) \o <<ts[i].qos>>]
  BY Zenon, <1>2
<1>5. \A i \in 1..n : String(ts[i].topic) \o <<ts[i].qos>> \in Seq(Byte)
  BY Zenon, <1>2, <1>3
<1> QED
  BY <1>1, <1>2, <1>4, <1>5

\* and subscriptions as long as they are within the bound.
LEMMA SubscriptionsAreWritten ==
  ASSUME NEW b, NEW x \in Seq(Byte), NEW c \in Nat, Wrote(b, x, c),
         NEW ts \in Seq(Subscribings),
         NEW s, s = [i \in DOMAIN ts |-> String(ts[i].topic) \o <<ts[i].qos>>],
         Len(x) + Len(FlattenSeq(s)) <= c
  PROVE  /\ s \in Seq(Seq(Byte)) /\ FlattenSeq(s) \in Seq(Byte)
         /\ Wrote(FoldLeft(encode_subscription, b, ts), x \o FlattenSeq(s), c)
<1>1. b \in Buffers
  BY Zenon DEF Wrote
<1>2. PICK n \in Nat : n = Len(ts)
  BY LenProperties
<1>3. PICK f : /\ f[0] = b
               /\ \A i \in 0..n - 1 : f[i + 1] = encode_subscription(f[i], ts[i + 1])
               /\ FoldLeft(encode_subscription, b, ts) = f[n]
  <2>1. PICK f : /\ f[0] = b
                 /\ \A i \in 0..Len(ts) - 1 : f[i + 1] = encode_subscription(f[i], ts[i + 1])
                 /\ FoldLeft(encode_subscription, b, ts) = f[Len(ts)]
    BY Zenon, <1>1, FoldSubscriptions
  <2>2. 0..n - 1 = 0..Len(ts) - 1
    BY Zenon, <1>2
  <2> QED
    BY Zenon, <1>2, <2>1, <2>2
<1>4. /\ s \in Seq(Seq(Byte)) /\ Len(s) = n
      /\ \A i \in 1..n : ts[i] \in Subscribings /\ s[i] = String(ts[i].topic) \o <<ts[i].qos>>
  BY Zenon, <1>2, SubscriptionBytes
<1>5. ASSUME NEW i \in 0..n - 1, NEW y \in Seq(Byte), Wrote(f[i], y, c),
             Len(y) + Len(s[i + 1]) <= c
      PROVE  Wrote(f[i + 1], y \o s[i + 1], c)
  <2>1. i + 1 \in 1..n
    OBVIOUS
  <2>2. PICK t \in Subscribings : t = ts[i + 1] /\ s[i + 1] = String(t.topic) \o <<t.qos>>
    BY Zenon, <1>4, <2>1
  <2>3. Wrote(encode_subscription(f[i], t), y \o (String(t.topic) \o <<t.qos>>), c)
    BY Zenon, <1>5, <2>2, SubscriptionWrites
  <2> QED
    BY Zenon, <1>3, <1>5, <2>2, <2>3
<1>8. \A i \in 0..n - 1 : \A y \in Seq(Byte) :
        Wrote(f[i], y, c) /\ Len(y) + Len(s[i + 1]) <= c => Wrote(f[i + 1], y \o s[i + 1], c)
  BY Zenon, <1>5
<1>9. Wrote(f[0], x, c) /\ n = Len(s)
  BY Zenon, <1>3, <1>4
<1>10. FlattenSeq(s) \in Seq(Byte) /\ Wrote(f[n], x \o FlattenSeq(s), c)
  <2>1. PICK lim \in Nat : lim = c
    OBVIOUS
  <2>2. Len(x) + Len(FlattenSeq(s)) <= lim
    BY Zenon, <2>1
  <2>3. \A i \in 0..n - 1 : \A y \in Seq(Byte) :
          Wrote(f[i], y, c) /\ Len(y) + Len(s[i + 1]) <= lim => Wrote(f[i + 1], y \o s[i + 1], c)
    BY Zenon, <1>8, <2>1
  <2>4. s \in Seq(Seq(Byte)) /\ n \in Nat
    BY Zenon, <1>4
  <2> QED
    BY ONLY ZenonT(30), <1>9, <2>2, <2>3, <2>4, x \in Seq(Byte), c \in Nat, lim \in Nat, Accumulates
<1> QED
  BY Zenon, <1>3, <1>4, <1>10

\* The kind of a payload tells the type.
LEMMA KindTellsType ==
  ASSUME NEW ty
  PROVE  /\ PayloadKind(ty) = "Application" => ty = PacketType.Publish
         /\ PayloadKind(ty) = "Connect" => ty = PacketType.Connect
         /\ PayloadKind(ty) = "Subscribe" => ty = PacketType.Subscribe
BY DEF PayloadKind

\* A fold over nothing.
LEMMA NoWill ==
  ASSUME NEW b
  PROVE  FoldLeft(encode_will, b, <<>>) = b
<1> DEFINE Folds(f) == f = [x \in SUBSET DOMAIN <<>> |->
                 IF x = {} THEN b ELSE encode_will(f[x \ {Max(x)}], <<>>[Max(x)])]
<1>1. DOMAIN <<>> = {} /\ SUBSET DOMAIN <<>> = {{}}
  OBVIOUS
<1>2a. PICK D : D = SUBSET DOMAIN <<>>
  BY Zenon
<1>2b. PICK g : g = [x \in D |-> b]
  BY Zenon
<1>2. D = SUBSET DOMAIN <<>> /\ g = [x \in D |-> b]
  BY Zenon, <1>2a, <1>2b
<1>3. \A x \in D : x = {}
  BY Zenon, <1>1, <1>2
<1>4. g = [x \in D |-> IF x = {} THEN b ELSE encode_will(g[x \ {Max(x)}], <<>>[Max(x)])]
  BY Zenon, <1>2, <1>3
<1>5. Folds(g)
  BY Zenon, <1>2, <1>4
<1>6. PICK h : h = CHOOSE f : Folds(f)
  OBVIOUS
<1>7. Folds(h)
  BY Zenon, <1>5, <1>6
<1>8. FoldLeft(encode_will, b, <<>>) = h[DOMAIN <<>>]
  BY Zenon, <1>6 DEF FoldLeft, MapThenFoldSet
<1>9. h[{}] = b
  BY Zenon, <1>1, <1>7
<1> QED
  BY Zenon, <1>1, <1>8, <1>9

Strings(ts) == [i \in DOMAIN ts |-> String(ts[i])]
IdFirst(id, ts) == [i \in 1..Len(ts) + 1 |-> String((<<id>> \o ts)[i])]

\* The strings of a CONNECT: the identifier of the client, and then the others.
LEMMA ConnectStrings ==
  ASSUME NEW id \in Seq(Byte), NEW creds \in Seq(Seq(Byte)),
         NEW l, l = IdFirst(id, creds), NEW s, s = Strings(creds)
  PROVE  FlattenSeq(s) \in Seq(Byte) /\ FlattenSeq(l) = String(id) \o FlattenSeq(s)
<1>0. PICK n \in Nat : n = Len(creds)
  BY LenProperties
<1>1. PICK u : u = <<id>> \o creds
  OBVIOUS
<1>2. u \in Seq(Seq(Byte)) /\ Len(u) = n + 1 /\ u[1] = id /\ \A i \in 1..n : u[1 + i] = creds[i]
  BY ONLY <1>0, <1>1, InFront, id \in Seq(Byte), creds \in Seq(Seq(Byte)), n \in Nat
<1>3. \A i \in 1..n + 1 : String(u[i]) \in Seq(Byte)
  <2>1. \A i \in 1..n + 1 : u[i] \in Seq(Byte)
    BY ONLY <1>2, n \in Nat
  <2> QED
    BY Zenon, <2>1, StringIsBytes
<1>4. l = [i \in 1..n + 1 |-> String(u[i])]
  BY Zenon, <1>0, <1>1 DEF IdFirst
<1>5. l \in Seq(Seq(Byte)) /\ Len(l) = n + 1 /\ \A i \in 1..n + 1 : l[i] = String(u[i])
  BY ONLY <1>3, <1>4, n \in Nat
<1>7. s \in Seq(Seq(Byte)) /\ Len(s) = n /\ \A i \in 1..n : s[i] = String(creds[i])
  <2>1. DOMAIN creds = 1..n /\ \A i \in 1..n : creds[i] \in Seq(Byte)
    BY ONLY <1>0, creds \in Seq(Seq(Byte)), n \in Nat
  <2>2. \A i \in 1..n : String(creds[i]) \in Seq(Byte)
    BY Zenon, <2>1, StringIsBytes
  <2>3. s = [i \in 1..n |-> String(creds[i])]
    BY Zenon, <2>1 DEF Strings
  <2> QED
    BY ONLY <2>2, <2>3, n \in Nat
<1>8. l # <<>> /\ Head(l) = String(id) /\ Tail(l) = s
  <2>1. l # <<>>
    BY ONLY <1>5, n \in Nat
  <2>2. Head(l) = l[1] /\ 1 \in 1..n + 1
    BY ONLY <2>1, <1>5, n \in Nat
  <2>3. Head(l) = String(id)
    BY Zenon, <1>2, <1>5, <2>2
  <2>4. PICK t : t = Tail(l)
    OBVIOUS
  <2>5. t \in Seq(Seq(Byte)) /\ Len(t) = n /\ \A i \in 1..n : t[i] = l[i + 1]
    BY ONLY <2>1, <2>4, <1>5, n \in Nat
  <2>6. ASSUME NEW i \in 1..n PROVE t[i] = s[i]
    <3>1. i + 1 \in 1..n + 1 /\ 1 + i = i + 1
      BY ONLY n \in Nat, i \in 1..n
    <3>2. t[i] = l[i + 1] /\ l[i + 1] = String(u[i + 1]) /\ u[i + 1] = creds[i]
      BY Zenon, <1>2, <1>5, <2>5, <3>1
    <3> QED
      BY Zenon, <1>7, <3>2
  <2>7. Len(t) = Len(s) /\ \A i \in 1..Len(t) : t[i] = s[i]
    BY Zenon, <1>7, <2>5, <2>6
  <2>8. t = s
    BY ONLY <1>7, <2>5, <2>7, SeqEqual
  <2> QED
    BY Zenon, <2>1, <2>3, <2>4, <2>8
<1>9. FlattenSeq(l) = String(id) \o FlattenSeq(s)
  BY Zenon, <1>5, <1>8, FlattenHead
<1>10. FlattenSeq(s) \in Seq(Byte)
  BY Zenon, <1>7, FlattenTyped
<1> QED
  BY Zenon, <1>9, <1>10

\* Two folds and a string make the payload of a CONNECT.
LEMMA ConnectIsWritten ==
  ASSUME NEW b, NEW x \in Seq(Byte), NEW c \in Nat, Wrote(b, x, c),
         NEW id \in Seq(Byte), NEW creds \in Seq(Seq(Byte)),
         NEW l, l = IdFirst(id, creds)
  PROVE  /\ FlattenSeq(l) \in Seq(Byte)
         /\ Wrote(FoldLeft(put_string, FoldLeft(encode_will, put_string(b, id), <<>>), creds),
                  x \o FlattenSeq(l), c)
<1>1. PICK s : s = Strings(creds)
  OBVIOUS
<1>2. FlattenSeq(s) \in Seq(Byte) /\ FlattenSeq(l) = String(id) \o FlattenSeq(s)
  BY Zenon, <1>1, ConnectStrings
<1>3. PICK u \in Seq(Byte), v \in Seq(Byte) : u = String(id) /\ v = FlattenSeq(s)
  BY Zenon, <1>2, StringIsBytes
<1>4. PICK d : d = put_string(b, id)
  OBVIOUS
<1>5. Wrote(d, x \o u, c)
  BY Zenon, <1>3, <1>4, StringWrites
<1>6. x \o u \in Seq(Byte) /\ u \o v \in Seq(Byte)
  BY ONLY x \in Seq(Byte), u \in Seq(Byte), v \in Seq(Byte)
<1>7. Wrote(FoldLeft(put_string, d, creds), (x \o u) \o v, c)
  BY Zenon, <1>1, <1>3, <1>5, <1>6, StringsAreWritten DEF Strings
<1>8. (x \o u) \o v = x \o (u \o v)
  BY Zenon, Regrouped
<1>9. FoldLeft(encode_will, d, <<>>) = d
  BY Zenon, NoWill
<1> QED
  BY Zenon, <1>2, <1>3, <1>4, <1>6, <1>7, <1>8, <1>9

\* What the client sends has the parts of its kind.
LEMMA ClientParts ==
  ASSUME NEW p \in ClientPackets
  PROVE  /\ p.ty \in PacketTypes /\ p.flags \in 0..15 /\ p.headers \in Seq(Seq(Byte))
         /\ \/ p.payload.is = "None" /\ p.payload = NoPayload
            \/ p.payload.is = "Application" /\ p.payload.bytes \in Seq(Byte)
            \/ /\ p.payload.is = "Connect" /\ p.payload.id \in Seq(Byte)
               /\ p.payload.creds \in Seq(Seq(Byte))
            \/ p.payload.is = "Subscribe" /\ p.payload.topics \in Seq(Subscribings)
            \/ p.payload.is = "Unsubscribe" /\ p.payload.topics \in Seq(Seq(Byte))
BY DEF ClientPackets, NoPayload, Subscribings

\* The payload as MQTT lays it out is what Payload::encode writes behind the
\* headers, when nothing is left out.
PayloadLayout(p) ==
  CASE p.is = "Connect" -> FlattenSeq(IdFirst(p.id, p.creds))
    [] p.is = "Subscribe" ->
         FlattenSeq([i \in DOMAIN p.topics |-> String(p.topics[i].topic) \o <<p.topics[i].qos>>])
    [] p.is = "Unsubscribe" -> FlattenSeq(Strings(p.topics))
    [] p.is = "Application" -> p.bytes
    [] OTHER -> <<>>

LEMMA LayoutParts ==
  ASSUME NEW p
  PROVE  Layout(p) = FlattenSeq(p.headers) \o PayloadLayout(p.payload)
BY DEF Layout, PayloadLayout, IdFirst, Strings

LEMMA PayloadIsWritten ==
  ASSUME NEW p \in ClientPackets, p.payload.is = PayloadKind(p.ty), IsComplete(p),
         NEW b, NEW x \in Seq(Byte), NEW c \in Nat, Wrote(b, x, c),
         NEW y, y = PayloadLayout(p.payload),
         p.ty = PacketType.Subscribe => Len(x \o y) <= c
  PROVE  y \in Seq(Byte) /\ Wrote(encode_payload(b, p.payload), x \o y, c)
<1>0. /\ <<>> \in Seq(Byte) /\ x \o <<>> = x
  OBVIOUS
<1>1. PICK q : q = p.payload
  OBVIOUS
<1>2. CASE q.is = "None"
  <2>1. y = <<>>
    BY <1>1, <1>2 DEF PayloadLayout
  <2>2. encode_payload(b, q) = b
    BY <1>2 DEF encode_payload
  <2> QED
    BY Zenon, <1>0, <1>1, <2>1, <2>2
<1>3. CASE q.is = "Application"
  <2>1. q.bytes = <<>>
    BY Zenon, <1>1, <1>3, KindTellsType DEF IsComplete
  <2>2. y = <<>>
    BY <1>1, <1>3, <2>1 DEF PayloadLayout
  <2>3. encode_payload(b, q) = b
    BY <1>3 DEF encode_payload
  <2> QED
    BY Zenon, <1>0, <1>1, <2>2, <2>3
<1>4. CASE q.is = "Connect"
  <2>1. q.will = <<>>
    BY Zenon, <1>1, <1>4, KindTellsType DEF IsComplete
  <2>2. q.id \in Seq(Byte) /\ q.creds \in Seq(Seq(Byte))
    BY <1>1, <1>4, ClientParts
  <2>3. PICK id \in Seq(Byte) : id = q.id
    BY Zenon, <2>2
  <2>4. PICK creds \in Seq(Seq(Byte)) : creds = q.creds
    BY Zenon, <2>2
  <2>5. PICK l : l = IdFirst(id, creds)
    OBVIOUS
  <2>6. y = FlattenSeq(l)
    BY Zenon, <1>1, <1>4, <2>3, <2>4, <2>5 DEF PayloadLayout
  <2>7. encode_payload(b, q) =
          FoldLeft(put_string, FoldLeft(encode_will, put_string(b, id), q.will), creds)
    BY Zenon, <1>4, <2>3, <2>4 DEF encode_payload
  <2>8. encode_payload(b, q) =
          FoldLeft(put_string, FoldLeft(encode_will, put_string(b, id), <<>>), creds)
    BY Zenon, <2>1, <2>7
  <2>9. /\ FlattenSeq(l) \in Seq(Byte)
        /\ Wrote(FoldLeft(put_string, FoldLeft(encode_will, put_string(b, id), <<>>), creds),
                 x \o FlattenSeq(l), c)
    BY Zenon, <2>5, ConnectIsWritten
  <2> QED
    BY Zenon, <1>1, <2>6, <2>8, <2>9
<1>5. CASE q.is = "Subscribe"
  <2>1. q.topics \in Seq(Subscribings)
    BY <1>1, <1>5, ClientParts
  <2>2. PICK s : s = [i \in DOMAIN q.topics |-> String(q.topics[i].topic) \o <<q.topics[i].qos>>]
    OBVIOUS
  <2>3. y = FlattenSeq(s)
    BY <1>1, <1>5, <2>2 DEF PayloadLayout
  <2>4. encode_payload(b, q) = FoldLeft(encode_subscription, b, q.topics)
    BY Zenon, <1>5, "Subscribe" # "Connect" DEF encode_payload
  <2>5. Len(x \o y) <= c
    BY Zenon, <1>1, <1>5, KindTellsType
  <2>6. s \in Seq(Seq(Byte))
    BY Zenon, <2>1, <2>2, SubscriptionBytes
  <2>7. y \in Seq(Byte)
    BY Zenon, <2>3, <2>6, FlattenTyped
  <2>8. Len(x) + Len(FlattenSeq(s)) <= c
    <3>1. Len(x \o y) = Len(x) + Len(y)
      BY ONLY <2>7, x \in Seq(Byte)
    <3> QED
      BY Zenon, <2>3, <2>5, <3>1
  <2>9. Wrote(FoldLeft(encode_subscription, b, q.topics), x \o FlattenSeq(s), c)
    BY Zenon, <2>1, <2>2, <2>8, SubscriptionsAreWritten
  <2> QED
    BY Zenon, <1>1, <2>3, <2>4, <2>7, <2>9
<1>6. CASE q.is = "Unsubscribe"
  <2>1. q.topics \in Seq(Seq(Byte))
    BY <1>1, <1>6, ClientParts
  <2>2. PICK s : s = Strings(q.topics)
    OBVIOUS
  <2>3. y = FlattenSeq(s)
    BY <1>1, <1>6, <2>2 DEF PayloadLayout
  <2>4. encode_payload(b, q) = FoldLeft(put_string, b, q.topics)
    BY <1>6 DEF encode_payload
  <2>5. FlattenSeq(s) \in Seq(Byte) /\ Wrote(FoldLeft(put_string, b, q.topics), x \o FlattenSeq(s), c)
    BY Zenon, <2>1, <2>2, StringsAreWritten DEF Strings
  <2> QED
    BY Zenon, <1>1, <2>3, <2>4, <2>5
<1> QED
  BY Zenon, <1>1, <1>2, <1>3, <1>4, <1>5, <1>6, ClientParts

\* The type and the flags of a packet make a byte.
LEMMA ClientHead ==
  ASSUME NEW p \in ClientPackets
  PROVE  16 * p.ty + p.flags \in Byte
<1>1. p.ty \in 0..15 /\ p.flags \in 0..15
  BY ClientParts DEF PacketTypes, PacketType
<1>2. PICK ty \in 0..15, flags \in 0..15 : ty = p.ty /\ flags = p.flags
  BY Zenon, <1>1
<1>3. PICK f : f = 16 * ty + flags
  OBVIOUS
<1>4. f \in Byte
  BY Zenon, <1>3, Nibbles
<1> QED
  BY Zenon, <1>2, <1>3, <1>4

\* The headers and the payload are written as MQTT lays them out.
LEMMA LayoutIsWritten ==
  ASSUME NEW p \in ClientPackets, p.payload.is = PayloadKind(p.ty), IsComplete(p),
         NEW y, y = Layout(p),
         Len(FlattenSeq(p.headers)) <= PayloadRoom,
         p.ty = PacketType.Subscribe => Len(y) <= PayloadRoom
  PROVE  /\ y \in Seq(Byte)
         /\ Wrote(encode_payload(FoldLeft(put, BytesMut(PayloadRoom), p.headers), p.payload),
                  y, PayloadRoom)
<1>1. p.headers \in Seq(Seq(Byte))
  BY ClientParts
<1>2. PICK h \in Seq(Seq(Byte)) : h = p.headers
  BY Zenon, <1>1
<1>3. PICK c \in Nat : c = PayloadRoom
  BY FramingAssumption
<1>4. Wrote(BytesMut(c), <<>>, c) /\ <<>> \in Seq(Byte)
  BY DEF Wrote, BytesMut, Buffers
<1>5. PICK x : x = FlattenSeq(h)
  OBVIOUS
<1>6. x \in Seq(Byte)
  BY Zenon, <1>5, FlattenTyped
<1>7. <<>> \o x = x /\ Len(<<>>) + Len(x) = Len(x)
  BY ONLY <1>6
<1>8. Len(<<>>) + Len(FlattenSeq(h)) <= c
  BY Zenon, <1>2, <1>3, <1>5, <1>7
<1>9. Wrote(FoldLeft(put, BytesMut(c), h), x, c)
  BY Zenon, <1>4, <1>5, <1>7, <1>8, HeadersAreWritten
<1>10. PICK b : b = FoldLeft(put, BytesMut(c), h)
  OBVIOUS
<1>11. PICK z : z = PayloadLayout(p.payload)
  OBVIOUS
<1>12. y = x \o z
  BY Zenon, <1>2, <1>5, <1>11, LayoutParts
<1>13. Wrote(b, x, c) /\ (p.ty = PacketType.Subscribe => Len(x \o z) <= c)
  BY Zenon, <1>3, <1>9, <1>10, <1>12
<1>14. z \in Seq(Byte) /\ Wrote(encode_payload(b, p.payload), x \o z, c)
  BY Zenon, <1>6, <1>11, <1>13, PayloadIsWritten
<1>15. x \o z \in Seq(Byte)
  BY ONLY <1>6, <1>14
<1> QED
  BY Zenon, <1>2, <1>3, <1>10, <1>12, <1>14, <1>15

\* The three parts of a packet are put one behind the other.
LEMMA PartsAreWritten ==
  ASSUME NEW x \in Seq(Byte), NEW y \in Seq(Byte), NEW z \in Seq(Byte), NEW c \in Nat,
         Len(x) + Len(y) + Len(z) <= c,
         NEW t, t = <<x, y, z>>
  PROVE  Wrote(FoldLeft(put, BytesMut(c), t), (x \o y) \o z, c)
<1>1. t \in Seq(Seq(Byte)) /\ Len(t) = 3 /\ t[1] = x /\ t[2] = y /\ t[3] = z
  OBVIOUS
<1>2. Wrote(BytesMut(c), <<>>, c) /\ BytesMut(c) \in Buffers /\ <<>> \in Seq(Byte)
  BY DEF Wrote, BytesMut, Buffers
<1>3. PICK f : /\ f[0] = BytesMut(c)
               /\ \A i \in 0..Len(t) - 1 : f[i + 1] = put(f[i], t[i + 1])
               /\ FoldLeft(put, BytesMut(c), t) = f[Len(t)]
  BY Zenon, <1>1, <1>2, FoldPut
<1>4. /\ f[1] = put(f[0], x) /\ f[2] = put(f[1], y) /\ f[3] = put(f[2], z)
      /\ FoldLeft(put, BytesMut(c), t) = f[3]
  <2>1. 0 \in 0..2 /\ 1 \in 0..2 /\ 2 \in 0..2 /\ 3 - 1 = 2 /\ 0 + 1 = 1 /\ 1 + 1 = 2 /\ 2 + 1 = 3
    OBVIOUS
  <2>2. \A i \in 0..2 : f[i + 1] = put(f[i], t[i + 1])
    BY Zenon, <1>1, <1>3, <2>1
  <2>3. f[0 + 1] = put(f[0], t[0 + 1]) /\ f[1 + 1] = put(f[1], t[1 + 1]) /\ f[2 + 1] = put(f[2], t[2 + 1])
    BY Zenon, <2>1, <2>2
  <2> QED
    BY Zenon, <1>1, <1>3, <2>1, <2>3
<1>5. /\ Len(<<>>) + Len(x) <= c /\ <<>> \o x = x
      /\ Len(x) + Len(y) <= c /\ x \o y \in Seq(Byte)
      /\ Len(x \o y) + Len(z) <= c
  BY ONLY x \in Seq(Byte), y \in Seq(Byte), z \in Seq(Byte), c \in Nat,
          Len(x) + Len(y) + Len(z) <= c
<1>6. Wrote(f[1], x, c)
  BY Zenon, <1>2, <1>3, <1>4, <1>5, PutWrites
<1>7. Wrote(f[2], x \o y, c)
  BY Zenon, <1>4, <1>5, <1>6, PutWrites
<1>8. Wrote(f[3], (x \o y) \o z, c)
  BY Zenon, <1>4, <1>5, <1>7, PutWrites
<1> QED
  BY Zenon, <1>4, <1>8

\* A packet that fits is written whole: its type and flags, its length, and
\* what MQTT lays out.
LEMMA PacketIsWritten ==
  ASSUME NEW p \in ClientPackets, p.payload.is = PayloadKind(p.ty), IsComplete(p),
         NEW y, y = Layout(p), NEW size, size = encode_vle(Len(y)), Fits(p, y, size)
  PROVE  /\ y \in Seq(Byte) /\ Len(y) <= MaxLength
         /\ encode(p) = Bytes((<<16 * p.ty + p.flags>> \o size) \o y)
<1>1. /\ Len(FlattenSeq(p.headers)) <= PayloadRoom
      /\ p.ty = PacketType.Subscribe => Len(y) <= PayloadRoom
      /\ 1 + Len(size) + Len(y) <= PacketRoom
  BY Zenon DEF Fits
<1>2. PICK b : b = encode_payload(FoldLeft(put, BytesMut(PayloadRoom), p.headers), p.payload)
  OBVIOUS
<1>3. y \in Seq(Byte) /\ Wrote(b, y, PayloadRoom)
  BY Zenon, <1>1, <1>2, LayoutIsWritten
<1>4. b.held = y /\ ~b.panicked
  BY Zenon, <1>3 DEF Wrote
<1>5. PICK n \in Nat : n = Len(y)
  BY Zenon, <1>3, LenProperties
<1>6. PICK c \in Nat : c = PacketRoom
  BY FramingAssumption
<1>7. c <= MaxLength
  BY Zenon, <1>6, FramingAssumption
<1>8. MaxLength \in Nat
  BY SMT DEF MaxLength
<1>9. n <= MaxLength
  <2> SUFFICES ASSUME ~(n <= MaxLength) PROVE FALSE
    OBVIOUS
  <2>1. PICK m \in Nat : m = MaxLength
    BY Zenon, <1>8
  <2>2. n > m /\ c <= m
    <3>1. ~(n <= m) /\ c <= m
      BY Zenon, <1>7, <2>1
    <3> QED
      BY ONLY <3>1, n \in Nat, m \in Nat
  <2>3. size = <<>>
    <3>1. n > MaxLength
      BY Zenon, <2>1, <2>2
    <3> QED
      BY Zenon, <1>5, <3>1 DEF encode_vle
  <2>4. 1 + Len(size) + n <= c /\ Len(size) = 0
    <3>1. Len(<<>>) = 0
      OBVIOUS
    <3> QED
      BY Zenon, <1>1, <1>5, <1>6, <2>3, <3>1
  <2> QED
    BY ONLY <2>2, <2>4, n \in Nat, m \in Nat, c \in Nat
<1>10. /\ size \in Seq(Byte) /\ Len(size) \in 1..4
  <2>1. Size(n, FALSE) = size
    BY Zenon, <1>5 DEF Size
  <2>2. /\ Size(n, FALSE) \in Seq(Byte)
        /\ Len(Size(n, FALSE)) \in 1..4
    BY Zenon, <1>9, SizeIsRead
  <2> QED
    BY Zenon, <2>1, <2>2
<1>11. size # <<>>
  <2>1. Len(<<>>) = 0 /\ 0 \notin 1..4
    OBVIOUS
  <2> QED
    BY Zenon, <1>10, <2>1
<1>12. PICK f : f = 16 * p.ty + p.flags
  OBVIOUS
<1>13. f \in Byte
  BY Zenon, <1>12, ClientHead
<1>14. PICK x : x = <<f>>
  OBVIOUS
<1>15. x \in Seq(Byte) /\ Len(x) = 1
  BY <1>13, <1>14
<1>16. Len(x) + Len(size) + Len(y) <= c
  BY Zenon, <1>1, <1>6, <1>15
<1>17. PICK t : t = <<x, size, y>>
  OBVIOUS
<1>18. PICK a : a = FoldLeft(put, BytesMut(c), t)
  OBVIOUS
<1>19. Wrote(a, (x \o size) \o y, c)
  BY Zenon, <1>3, <1>10, <1>15, <1>16, <1>17, <1>18, PartsAreWritten
<1>20. a.held = (x \o size) \o y /\ ~a.panicked
  BY Zenon, <1>19 DEF Wrote
<1>21. encode(p) = Bytes(a.held)
  <2>1. encode(p) =
          IF b.panicked THEN Panic
          ELSE IF encode_vle(Len(b.held)) = <<>> THEN None
          ELSE IF FoldLeft(put, BytesMut(PacketRoom),
                           <<<<16 * p.ty + p.flags>>, encode_vle(Len(b.held)), b.held>>).panicked
               THEN Panic
               ELSE Bytes(FoldLeft(put, BytesMut(PacketRoom),
                           <<<<16 * p.ty + p.flags>>, encode_vle(Len(b.held)), b.held>>).held)
    BY Zenon, <1>2 DEF encode
  <2>2. /\ encode_vle(Len(b.held)) = size
        /\ FoldLeft(put, BytesMut(PacketRoom),
                    <<<<16 * p.ty + p.flags>>, encode_vle(Len(b.held)), b.held>>) = a
    BY Zenon, <1>4, <1>6, <1>12, <1>14, <1>17, <1>18
  <2> QED
    BY Zenon, <1>4, <1>11, <1>20, <2>1, <2>2
<1> QED
  BY Zenon, <1>3, <1>5, <1>9, <1>12, <1>14, <1>20, <1>21

\* An acknowledgement of the client is a packet that the parser would read.
LEMMA AckIsSent ==
  ASSUME NEW p \in ClientPackets, p.ty \in AckTypes, p.payload.is = PayloadKind(p.ty), Lawful(p)
  PROVE  /\ p \in ServerPackets /\ ~Foreign(p) /\ ~Short(p) /\ Told(p) = p
         /\ Layout(p) = Body(p)
         /\ Sent([packet |-> p, wide |-> FALSE])
<1>1. p.ty \in {PacketType.PubAck, PacketType.PubRec, PacketType.PubRel, PacketType.PubComp}
  BY DEF AckTypes
<1>2. p.payload.is = "None"
  BY <1>1 DEF PayloadKind, PacketType
<1>3. p.payload = NoPayload
  BY <1>2, ClientParts DEF NoPayload
<1>4. p \in ServerPackets
  BY <1>3 DEF ClientPackets, ServerPackets, PacketTypes, PacketType
<1>5. ~Foreign(p)
  BY Zenon DEF Foreign, ServerTypes
<1>6. p.ty \notin {PacketType.Publish, PacketType.SubAck}
  BY <1>1 DEF PacketType
<1>7. ~IsQoS0(p)
  BY Zenon, <1>6 DEF IsQoS0
<1>8. ~Short(p) /\ Told(p) = p
  BY Zenon, <1>7 DEF Short, Told
<1>9. Body(p) = FlattenSeq(p.headers)
  BY Zenon, <1>4, <1>5, <1>6, Parts
<1>10. Layout(p) = FlattenSeq(p.headers) \o <<>>
  <2>1. PayloadLayout(p.payload) = <<>>
    BY <1>2 DEF PayloadLayout
  <2> QED
    BY Zenon, <2>1, LayoutParts
<1>11. FlattenSeq(p.headers) \o <<>> = FlattenSeq(p.headers)
  <2>1. PICK x : x = FlattenSeq(p.headers)
    OBVIOUS
  <2>2. p.headers \in Seq(Seq(Byte))
    BY ClientParts
  <2>3. x \in Seq(Byte)
    BY Zenon, <2>1, <2>2, FlattenTyped
  <2>4. x \o <<>> = x
    BY ONLY <2>3
  <2> QED
    BY Zenon, <2>1, <2>4
<1>12. Sent([packet |-> p, wide |-> FALSE])
  BY <1>4 DEF Sent
<1> QED
  BY Zenon, <1>4, <1>5, <1>8, <1>9, <1>10, <1>11, <1>12

\* What encode makes of an acknowledgement is on the wire what a server that
\* acknowledges sends, and the parser reads it back.
LEMMA AckReadsBack ==
  ASSUME NEW p \in ClientPackets, p.ty \in AckTypes, p.payload.is = PayloadKind(p.ty), Lawful(p),
         NEW y, y = Layout(p), y \in Seq(Byte), NEW size, size = encode_vle(Len(y)),
         NEW b, b = (<<16 * p.ty + p.flags>> \o size) \o y
  PROVE  packet("kept", b) = Done(p, <<>>)
<1>1. PICK s : s = [packet |-> p, wide |-> FALSE]
  OBVIOUS
<1>2. s.packet = p /\ s.wide = FALSE
  BY <1>1
<1>3. /\ ~Foreign(p) /\ ~Short(p) /\ Told(p) = p
      /\ Layout(p) = Body(p)
      /\ Sent(s)
  BY Zenon, <1>1, AckIsSent
<1>4. b = OnWire(s)
  <2>1. PICK f : f = 16 * p.ty + p.flags
    OBVIOUS
  <2>2. f \in Byte
    BY Zenon, <2>1, ClientHead
  <2>3. OnWire(s) = (<<f>> \o Size(Len(Body(s.packet)), s.wide)) \o Body(s.packet)
    BY Zenon, <1>2, <1>3, <2>1, <2>2, WireParts
  <2>4. Size(Len(Body(s.packet)), s.wide) = size
    BY Zenon, <1>2, <1>3 DEF Size
  <2> QED
    BY Zenon, <1>2, <1>3, <2>1, <2>3, <2>4
<1>5. b \in Seq(Byte)
  <2>1. OnWire(s) \in Seq(Byte)
    <3>1. \A f \in Byte : f = 16 * p.ty + p.flags => OnWire(s) \in Seq(Byte)
      BY Zenon, <1>2, <1>3, WireParts
    <3>2. 16 * p.ty + p.flags \in Byte
      BY ClientHead
    <3> QED
      BY Zenon, <3>1, <3>2
  <2> QED
    BY Zenon, <1>4, <2>1
<1>6. Agree(b, OnWire(s))
  BY Zenon, <1>4 DEF Agree
<1>7. PICK m : m = Len(b)
  OBVIOUS
<1>8. Reads(b, p, m, packet("kept", b))
  BY Zenon, <1>2, <1>3, <1>4, <1>5, <1>6, <1>7, PacketIsRead
<1>9. Len(b) >= m
  BY ONLY <1>5, <1>7
<1>10. packet("kept", b) = Done(p, From(b, m + 1))
  <2>1. packet("kept", b) = Done(Told(p), From(b, m + 1))
    BY Zenon, <1>3, <1>8, <1>9 DEF Reads
  <2> QED
    BY Zenon, <1>3, <2>1
<1>11. From(b, m + 1) = <<>>
  BY ONLY <1>5, <1>7 DEF From
<1> QED
  BY Zenon, <1>10, <1>11

\* For all requests of a client and all rooms: what fits is laid out as MQTT
\* asks, and an acknowledgement reads back (mod.rs:295-309, types.rs:302-340).
THEOREM PacketsAreLaidOut == Spec => []EncodesAsMqtt
<1>1. WriteInv => EncodesAsMqtt
  <2> SUFFICES ASSUME WriteInv,
                      NEW i \in DOMAIN written,
                      Fits(requests[i], Layout(requests[i]), encode_vle(Len(Layout(requests[i])))),
                      IsComplete(requests[i])
               PROVE  LET p    == requests[i]
                          body == Layout(p)
                          size == encode_vle(Len(body))
                      IN /\ written[i] = Bytes(<<16 * p.ty + p.flags>> \o size \o body)
                         /\ p.ty \in AckTypes => packet("kept", written[i].bytes) = Done(p, <<>>)
    BY DEF EncodesAsMqtt
  <2>1. /\ ClientScript(requests)
        /\ Len(written) <= Len(requests)
        /\ \A j \in 1..Len(written) : written[j] = encode(requests[j])
    BY Zenon DEF WriteInv
  <2>2. requests \in Seq(ClientPackets) /\ i \in 1..Len(written) /\ i \in 1..Len(requests)
    <3>1. PICK S : S = {encode(p) : p \in ClientPackets}
      OBVIOUS
    <3>2. written \in Seq(S) /\ requests \in Seq(ClientPackets)
      BY Zenon, <3>1 DEF WriteInv, ClientScript
    <3>3. PICK n \in Nat, m \in Nat : n = Len(written) /\ m = Len(requests)
      BY Zenon, <3>2, LenProperties
    <3>4. i \in 1..n
      BY Zenon, <3>2, <3>3, LenProperties
    <3>5. n <= m
      BY Zenon, <2>1, <3>3
    <3>6. i \in 1..m
      BY ONLY <3>4, <3>5, n \in Nat, m \in Nat
    <3> QED
      BY Zenon, <3>2, <3>3, <3>4, <3>6
  <2>3. requests[i] \in ClientPackets
    BY ONLY <2>2
  <2>4. PICK p \in ClientPackets : p = requests[i]
    BY Zenon, <2>3
  <2>5. p.payload.is = PayloadKind(p.ty) /\ (p.ty \in AckTypes => Lawful(p))
    <3>1. i \in DOMAIN requests
      BY Zenon, <2>2, LenProperties
    <3> QED
      BY Zenon, <2>1, <2>4, <3>1 DEF ClientScript
  <2>6. PICK y : y = Layout(p)
    OBVIOUS
  <2>7. PICK size : size = encode_vle(Len(y))
    OBVIOUS
  <2>8. Fits(p, y, size) /\ IsComplete(p) /\ written[i] = encode(p)
    BY Zenon, <2>1, <2>2, <2>4, <2>6, <2>7
  <2>9. y \in Seq(Byte) /\ encode(p) = Bytes((<<16 * p.ty + p.flags>> \o size) \o y)
    BY Zenon, <2>5, <2>6, <2>7, <2>8, PacketIsWritten
  <2>10. PICK b : b = (<<16 * p.ty + p.flags>> \o size) \o y
    OBVIOUS
  <2>11. written[i] = Bytes(b) /\ written[i].bytes = b
    <3>1. written[i] = Bytes(b)
      BY Zenon, <2>8, <2>9, <2>10
    <3>2. Bytes(b).bytes = b
      BY DEF Bytes
    <3> QED
      BY Zenon, <3>1, <3>2
  <2>12. p.ty \in AckTypes => packet("kept", b) = Done(p, <<>>)
    BY Zenon, <2>5, <2>6, <2>7, <2>9, <2>10, AckReadsBack
  <2> QED
    BY Zenon, <2>4, <2>6, <2>7, <2>10, <2>11, <2>12
<1> QED
  BY <1>1, WriteInvHolds, PTL

-----------------------------------------------------------------------------
(* The lengths.                                                            *)

Fitting == length \in Nat /\ length <= MaxLength

\* No step changes the length, which Init takes from Lengths.
LEMMA FittingHolds == Spec => []Fitting
<1>1. Init => Fitting
  <2> SUFFICES ASSUME Init PROVE Fitting
    OBVIOUS
  <2>1. length = 0 \/ length \in Lengths
    BY DEF Init
  <2>2. CASE length = 0
    BY SMT, <2>2 DEF Fitting, MaxLength
  <2>3. CASE length \in Lengths
    BY <2>3, FramingAssumption DEF Fitting
  <2> QED
    BY <2>1, <2>2, <2>3
<1>2. Fitting /\ [Next]_vars => Fitting'
  <2> SUFFICES ASSUME Fitting, [Next]_vars PROVE Fitting'
    OBVIOUS
  <2>1. length' = length
    <3>1. CASE Read
      BY <3>1 DEF Read, writing
    <3>2. CASE Decode
      BY <3>2 DEF Decode, writing
    <3>3. CASE Encode
      BY <3>3 DEF Encode
    <3>4. CASE UNCHANGED vars
      BY <3>4 DEF vars, writing
    <3> QED
      BY <3>1, <3>2, <3>3, <3>4 DEF Next
  <2> QED
    BY <2>1 DEF Fitting
<1> QED
  BY <1>1, <1>2, PTL DEF Spec

\* The bytes of a length are read as that length, whatever follows them, and a
\* part of them as incomplete: for every length up to 268435455, the boundaries
\* of one, two, three and four bytes among them (parsers.rs:6-41, mod.rs:17-37).
THEOREM LengthsReadBack == Spec => []LengthReadsBack
<1>1. Fitting => LengthReadsBack
  <2> SUFFICES ASSUME Fitting PROVE LengthReadsBack
    OBVIOUS
  <2>1. <<>> \in Seq(Nat) /\ <<127, 255>> \in Seq(Nat)
    OBVIOUS
  <2>2. ReadsBack(length, <<>>)
    BY NumbersReadBack, <2>1 DEF Fitting
  <2>3. ReadsBack(length, <<127, 255>>)
    BY NumbersReadBack, <2>1 DEF Fitting
  <2> QED
    BY <2>2, <2>3 DEF LengthReadsBack
<1> QED
  BY <1>1, FittingHolds, PTL
=============================================================================
