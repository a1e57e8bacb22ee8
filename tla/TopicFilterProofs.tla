-------------------------- MODULE TopicFilterProofs --------------------------
(***************************************************************************)
(* How the expression of a filter compares with the rule of MQTT, for all  *)
(* filters and names.                                                      *)
(***************************************************************************)
EXTENDS TopicFilters, SequenceTheorems, TLAPS

\* A level the rule accepts is accepted by its expression, unless it is empty.
LEMMA LevelsAgree ==
  ASSUME NEW t, NEW level, t = Plus \/ t = level, level # <<>>
  PROVE  level_expr(t, level)
BY DEF level_expr

\* The whole of a level is one of its beginnings.
LEMMA WholeLevel ==
  ASSUME NEW Char, NEW level \in Seq(Char)
  PROVE  Len(level) \in 0..Len(level) /\ SubSeq(level, 1, Len(level)) = level
BY SubSeqProperties, LenProperties, SeqEqual

\* What the broker may send for a filter, match_topic matches, if no level of
\* the name is empty (topic_filter.rs:24-43): the stream does not miss it.
THEOREM NothingIsMissed ==
  ASSUME NEW Char, NEW f \in Seq(Seq(Char)), f # <<>>,
         NEW n \in Seq(Seq(Char)), Covers(f, n), ~HasEmptyLevel(n)
  PROVE  match_topic(f, n)
<1> DEFINE k == Fixed(f)
<1>1. Len(f) \in Nat \ {0} /\ Len(n) \in Nat
  BY EmptySeq, LenProperties
<1>2. k \in 0..Len(f) /\ k <= Len(n) /\ (k = Len(f) => Len(n) = k)
  BY <1>1 DEF Covers, Fixed
<1>3. ASSUME NEW i \in 1..k PROVE level_expr(f[i], n[i])
  <2>1. i \in DOMAIN n
    BY <1>1, <1>2, LenProperties
  <2>2. f[i] = Plus \/ f[i] = n[i]
    BY DEF Covers
  <2> QED
    BY <2>1, <2>2, LevelsAgree DEF HasEmptyLevel
<1>4. CASE k = Len(f)
  BY <1>2, <1>3, <1>4 DEF match_topic
<1>5. CASE k = 0
  BY <1>1, <1>5 DEF match_topic
<1>6. CASE k # Len(f) /\ k # 0
  <2>1. k \in 1..k /\ \A i \in 1..k - 1 : i \in 1..k
    BY <1>1, <1>2, <1>6
  <2>2. n[k] \in Seq(Char)
    BY <1>1, <1>2, <2>1, ElementOfSeq
  <2>3. \E j \in 0..Len(n[k]) : level_expr(f[k], SubSeq(n[k], 1, j))
    BY <1>3, <2>1, <2>2, WholeLevel
  <2> QED
    BY <1>2, <1>3, <1>6, <2>1, <2>3 DEF match_topic
<1> QED
  BY <1>4, <1>5, <1>6

\* Without a # the expression accepts no more than the rule: only a filter
\* that ends in a # overhears (topic_filter.rs:29).
THEOREM OnlyHashIsLoose ==
  ASSUME NEW Char, NEW f \in Seq(Seq(Char)), f # <<>>, f[Len(f)] # Hash,
         NEW n \in Seq(Seq(Char)), match_topic(f, n)
  PROVE  Covers(f, n)
<1>1. Fixed(f) = Len(f) /\ Len(f) \in Nat
  BY LenProperties DEF Fixed
<1>2. Len(n) = Len(f) /\ \A i \in 1..Len(f) : level_expr(f[i], n[i])
  BY <1>1 DEF match_topic
<1> QED
  BY <1>1, <1>2 DEF Covers, level_expr
=============================================================================
