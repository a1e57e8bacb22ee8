--------------------------- MODULE MCSubscriptions ---------------------------
(***************************************************************************)
(* Instances of Subscriptions for TLC: filters and names that tell the     *)
(* expressions of TopicFilter and the rule of MQTT apart.                  *)
(***************************************************************************)
EXTENDS Subscriptions, TopicFilters

pair == <<Plus, Plus>>           \* +/+
below == <<<<"a">>, Hash>>       \* a/#
long == <<<<"l">>>>              \* stands for one of more than 65535 bytes

TwoFilters == {pair, below}
ThreeFilters == {pair, below, long}

\* a/b/c, ab/c and /c: the first is covered by a/# alone, the others by +/+.
ThreeNames == {<<<<"a">>, <<"b">>, <<"c">>>>, <<<<"a", "b">>, <<"c">>>>, <<<<>>, <<"c">>>>}

Matched == [f \in Filters |-> {n \in Names : match_topic(f, n)}]
Covered == [f \in Filters |-> {n \in Names : Covers(f, n)}]
Empty == {n \in Names : HasEmptyLevel(n)}
Open == {f \in Filters : f[Len(f)] = Hash}
Illegal == {f \in Filters : ~legal(f)}

\* An expression may also be too large to be compiled.
IllegalOrLarge == Illegal \cup {pair}
JustLong == {long}

\* Calls are interchangeable until they are made.
CallSymmetry == Permutations(Calls)
=============================================================================
