------------------------------- MODULE Ranking -------------------------------
(***************************************************************************)
(* The list handling that the diagnoser and the hypothesizer share: both   *)
(* keep lists of candidates with a confidence (percent), order them with   *)
(* Python's stable sort, cut them to a maximum and merge the static list   *)
(* with the LLM's (agents/diagnostician/diagnoser.py,                      *)
(* agents/tester/hypothesizer.py).                                         *)
(***************************************************************************)
EXTENDS Integers, Sequences, SequencesExt, FiniteSets, FiniteSetsExt

\* sum(s)
SumOf(s) == LET part[n \in 0 .. Len(s)] == IF n = 0 THEN 0 ELSE part[n - 1] + s[n]
            IN  part[Len(s)]

\* [c for c in cands if c in S]
Only(cands, S) ==
    FlattenSeq([i \in DOMAIN cands |-> IF cands[i] \in S THEN <<cands[i]>> ELSE <<>>])

\* list.sort(key=confidence, reverse=True): descending, and stable.  A
\* candidate moves behind the ones that go before it.
Before(cands, i) ==
    {j \in DOMAIN cands : \/ cands[j].confidence > cands[i].confidence
                          \/ cands[j].confidence = cands[i].confidence /\ j < i}
Ranked(cands) ==
    [p \in DOMAIN cands |->
       cands[CHOOSE i \in DOMAIN cands : Cardinality(Before(cands, i)) = p - 1]]

\* cands[:n]
Cut(cands, n) == SubSeq(cands, 1, IF Len(cands) < n THEN Len(cands) ELSE n)

Pairs(a, b) == ToSet(a \o b) \X ToSet(a \o b)

\* One turn of the merge loop: the first entry of the merged list that
\* duplicates the candidate decides; the candidate takes its place when
\* strictly more confident, and is appended when nothing duplicates it.
\* "duplicates" is a relation on the candidates of both lists.
Placed(merged, c, duplicates) ==
    LET same == {i \in DOMAIN merged : <<merged[i], c>> \in duplicates}
    IN  IF same = {} THEN Append(merged, c)
        ELSE IF c.confidence > merged[Min(same)].confidence
             THEN [merged EXCEPT ![Min(same)] = c] ELSE merged
Merged(a, b, duplicates) ==
    LET merged[n \in 0 .. Len(a \o b)] ==
            IF n = 0 THEN <<>> ELSE Placed(merged[n - 1], (a \o b)[n], duplicates)
    IN  merged[Len(a \o b)]
=============================================================================
