---------------------------- MODULE TopicFilters ----------------------------
(***************************************************************************)
(* Which topic names a filter matches (proto/topic_filter.rs).             *)
(*                                                                         *)
(* A filter and a name are sequences of levels, the parts between their    *)
(* slashes, and a level is a sequence of characters.  from_string turns    *)
(* the levels of a filter into a regular expression, level by level, and   *)
(* match_topic asks whether the name is in it.                             *)
(***************************************************************************)
EXTENDS Naturals, Sequences

Plus == <<"+">>
Hash == <<"#">>

\* The expressions INVALID_SINGLELEVEL and INVALID_MULTILEVEL: a + or # that
\* shares its level with another character, and a # with anything after it.
legal(f) ==
  /\ f # <<<<>>>>
  /\ \A i \in DOMAIN f : \A j \in DOMAIN f[i] :
       /\ f[i][j] = "+" => f[i] = Plus
       /\ f[i][j] = "#" => f[i] = Hash /\ i = Len(f)

\* [^/]+ takes at least one character; another level is escaped.
level_expr(t, level) == IF t = Plus THEN level # <<>> ELSE level = t

Fixed(f) == IF f[Len(f)] = Hash THEN Len(f) - 1 ELSE Len(f)

\* Mutant: the expression is not tied to the end of the name.
match_topic_open(f, n) ==
  LET k == Fixed(f) IN
  IF k = Len(f)
    THEN Len(n) >= k /\ \A i \in 1..k : level_expr(f[i], n[i])
    ELSE \/ k = 0
         \/ /\ k <= Len(n)
            /\ \A i \in 1..k - 1 : level_expr(f[i], n[i])
            /\ \E j \in 0..Len(n[k]) : level_expr(f[k], SubSeq(n[k], 1, j))

\* Without a # the expression has as many levels as the name.  The last level
\* # becomes ?.*, and with it the slash before is optional: the levels before
\* have to match the beginning of the name, which may end inside of a level.
match_topic(f, n) ==
  LET k == Fixed(f) IN
  IF k = Len(f)
    THEN Len(n) = k /\ \A i \in 1..k : level_expr(f[i], n[i])
    ELSE \/ k = 0
         \/ /\ k <= Len(n)
            /\ \A i \in 1..k - 1 : level_expr(f[i], n[i])
            /\ \E j \in 0..Len(n[k]) : level_expr(f[k], SubSeq(n[k], 1, j))

-----------------------------------------------------------------------------
\* The rule of MQTT: + stands for one level and # for any number of them.
Covers(f, n) ==
  /\ Fixed(f) <= Len(n) /\ (Fixed(f) = Len(f) => Len(n) = Len(f))
  /\ \A i \in 1..Fixed(f) : f[i] = Plus \/ f[i] = n[i]

HasEmptyLevel(n) == \E i \in DOMAIN n : n[i] = <<>>
=============================================================================
