---------------------------- MODULE Triage_proofs ----------------------------
(***************************************************************************)
(* Proof that suppression mutes exactly what the operators muted, for all  *)
(* rule files, plans, hypotheses and interleavings of "chaos suppress add" *)
(* with the runs that read the file.                                       *)
(*                                                                         *)
(* The file is safe only as long as no two adds overlap.  FileInv says     *)
(* where the reported rules are meanwhile: in the file, or, between the    *)
(* truncation and the write, in the list the one operator is about to      *)
(* write.  A run that reads the file outside that window then has them all *)
(* among its rules, and the rest is what the matching does with them.      *)
(*                                                                         *)
(* Proof, too, that neither the diagnostician's report nor the tester's    *)
(* hypotheses lose what matters, whatever the model answers and however    *)
(* many candidates there are.  Both rest on what sorting, merging and      *)
(* cutting do to a list: Ranked permutes it, Merged keeps for every        *)
(* element one that is at least as good, Cut drops only what enough others *)
(* match or beat.  Ranked, Merged and FlattenSeq are folds and recursive   *)
(* functions, proved about by induction on positions.                      *)
(***************************************************************************)
EXTENDS Triage, FiniteSetTheorems, WellFoundedInduction, TLAPS

IsList(s) == s \in Seq(ToSet(s))

-----------------------------------------------------------------------------
(* Induction over the positions of a list, without a theorem that takes an *)
(* operator: a counterexample would have a least position.                 *)

\* Every inhabited set of naturals has a least element.
LEMMA Least ==
  ASSUME NEW T, T \subseteq Nat, T # {}
  PROVE  \E x \in T : \A y \in T : x <= y
<1>1. PICK x \in T : \A y \in T : ~(<<y, x>> \in OpToRel(<, Nat))
  BY Zenon, WFMin, NatLessThanWellFounded
<1>2. \A y \in T : ~(y < x)
  BY <1>1 DEF OpToRel
<1> QED
  BY <1>2

\* A set of naturals that has 0, and n + 1 with n, up to a bound, has them all.
LEMMA Climb ==
  ASSUME NEW N \in Nat, NEW G, 0 \in G, \A n \in 0 .. N - 1 : n \in G => n + 1 \in G
  PROVE  0 .. N \subseteq G
<1> DEFINE Bad == (0 .. N) \ G
<1>1. SUFFICES ASSUME Bad # {} PROVE FALSE
  OBVIOUS
<1>2. Bad \subseteq Nat
  OBVIOUS
<1>3. PICK m \in Bad : \A y \in Bad : m <= y
  BY <1>1, <1>2, Least
<1>4. m # 0
  BY <1>3
<1>5. m - 1 \in 0 .. N - 1 /\ m - 1 \in G
  BY <1>3, <1>4
<1> QED
  BY <1>3, <1>5

\* The functions that a recursion over the positions of a list defines, from
\* what it starts with and what it does at each position.
Recursions(N, V, first, step) ==
    {f \in [0 .. N -> V] : f[0] = first /\ \A n \in 1 .. N : f[n] = step[<<n, f[n - 1]>>]}

\* There is one.
LEMMA RecursionExists ==
  ASSUME NEW N \in Nat, NEW V, NEW first \in V, NEW step \in [(1 .. N) \X V -> V]
  PROVE  Recursions(N, V, first, step) # {}
<1> DEFINE Upto(n) == {f \in [0 .. N -> V] :
                          f[0] = first /\ \A k \in 1 .. n : f[k] = step[<<k, f[k - 1]>>]}
           G == {n \in 0 .. N : Upto(n) # {}}
<1>1. 0 \in G
  <2>1. [k \in 0 .. N |-> first] \in Upto(0)
    OBVIOUS
  <2>2. Upto(0) # {} /\ 0 \in 0 .. N
    BY <2>1
  <2> QED
    BY <2>2, Zenon
<1>2. ASSUME NEW n \in 0 .. N - 1, n \in G
      PROVE  n + 1 \in G
  <2>1. PICK f \in [0 .. N -> V] : f[0] = first /\ \A k \in 1 .. n : f[k] = step[<<k, f[k - 1]>>]
    BY <1>2
  <2>2. n + 1 \in 1 .. N /\ n \in 0 .. N
    OBVIOUS
  <2>3. f[n] \in V
    BY <2>2
  <2>4. PICK x \in V : x = step[<<n + 1, f[n]>>]
    BY <2>2, <2>3
  <2> DEFINE g == [k \in 0 .. N |-> IF k = n + 1 THEN x ELSE f[k]]
  <2>5. g \in [0 .. N -> V]
    OBVIOUS
  <2>6. g[n + 1] = x /\ \A k \in 0 .. n : g[k] = f[k]
    BY <2>2
  <2> HIDE DEF g
  <2>7. g[0] = first
    BY <2>1, <2>6
  <2>8. ASSUME NEW k \in 1 .. n + 1 PROVE g[k] = step[<<k, g[k - 1]>>]
    <3>1. CASE k = n + 1
      BY <2>4, <2>6, <3>1
    <3>2. CASE k # n + 1
      <4>1. k \in 1 .. n /\ k \in 0 .. n /\ k - 1 \in 0 .. n
        BY <3>2
      <4> QED
        BY <2>1, <2>6, <4>1
    <3> QED
      BY <3>1, <3>2
  <2>9. g \in Upto(n + 1)
    BY <2>5, <2>7, <2>8
  <2>10. n + 1 \in 0 .. N
    BY <2>2
  <2> HIDE DEF Upto
  <2> QED
    BY <2>9, <2>10
<1>3. N \in G
  <2> HIDE DEF G
  <2>1. 0 .. N \subseteq G
    BY <1>1, <1>2, Climb
  <2> QED
    BY <2>1
<1> QED
  BY <1>3 DEF Recursions

-----------------------------------------------------------------------------
(* Sums, concatenations and filters. *)

\* What the sum of a list is made of: the sums of its prefixes.
LEMMA SumParts ==
  ASSUME NEW s \in Seq(Int)
  PROVE  \E f \in [0 .. Len(s) -> Int] :
            /\ f[0] = 0 /\ \A n \in 1 .. Len(s) : f[n] = f[n - 1] + s[n]
            /\ SumOf(s) = f[Len(s)]
<1> DEFINE N == Len(s)
           p == CHOOSE g : g = [n \in 0 .. N |-> IF n = 0 THEN 0 ELSE g[n - 1] + s[n]]
           step == [q \in (1 .. N) \X Int |-> q[2] + s[q[1]]]
<1>1. N \in Nat /\ \A n \in 1 .. N : s[n] \in Int
  OBVIOUS
<1>2. step \in [(1 .. N) \X Int -> Int]
  BY <1>1
<1>3. PICK f \in [0 .. N -> Int] : f[0] = 0 /\ \A n \in 1 .. N : f[n] = step[<<n, f[n - 1]>>]
  <2>1. 0 \in Int
    OBVIOUS
  <2> HIDE DEF step, N, p
  <2>2. Recursions(N, Int, 0, step) # {}
    BY <1>1, <1>2, <2>1, RecursionExists, Zenon
  <2> QED
    BY <2>2 DEF Recursions
<1>4. \A n \in 1 .. N : f[n] = f[n - 1] + s[n]
  <2>1. \A n \in 1 .. N : f[n - 1] \in Int
    BY <1>1
  <2> QED
    BY <1>3, <2>1
<1>5. f = [n \in 0 .. N |-> IF n = 0 THEN 0 ELSE f[n - 1] + s[n]]
  BY <1>1, <1>3, <1>4
<1>6. p = [n \in 0 .. N |-> IF n = 0 THEN 0 ELSE p[n - 1] + s[n]]
  BY <1>5, Zenon
<1>7. SumOf(s) = p[N]
  BY DEF SumOf
<1> HIDE DEF p, step
<1>8. p[0] = 0 /\ \A n \in 1 .. N : p[n] = p[n - 1] + s[n]
  BY SMTT(60), <1>1, <1>6
<1>9. 0 .. N \subseteq {n \in 0 .. N : p[n] \in Int}
  <2> DEFINE G == {n \in 0 .. N : p[n] \in Int}
  <2>1. 0 \in G
    BY <1>1, <1>8
  <2>2. ASSUME NEW n \in 0 .. N - 1, n \in G PROVE n + 1 \in G
    <3>1. n + 1 \in 1 .. N /\ p[n] \in Int /\ (n + 1) - 1 = n
      BY <1>1, <2>2
    <3>2. p[n + 1] = p[n] + s[n + 1]
      BY <1>8, <3>1
    <3> QED
      BY <1>1, <3>1, <3>2
  <2> HIDE DEF G, N
  <2>3. 0 .. N \subseteq G
    BY <1>1, <2>1, <2>2, Climb
  <2> QED
    BY <2>3 DEF G
<1>10. p \in [0 .. N -> Int]
  BY <1>6, <1>9
<1> QED
  BY <1>7, <1>8, <1>10

\* A sum of naturals is one.
LEMMA SumOfNat ==
  ASSUME NEW s \in Seq(Nat)
  PROVE  SumOf(s) \in Nat
<1> DEFINE N == Len(s)
<1>1. s \in Seq(Int) /\ N \in Nat /\ \A n \in 1 .. N : s[n] \in Nat
  OBVIOUS
<1>2. PICK f \in [0 .. N -> Int] :
            /\ f[0] = 0 /\ \A n \in 1 .. N : f[n] = f[n - 1] + s[n]
            /\ SumOf(s) = f[N]
  BY <1>1, SumParts
<1> DEFINE G == {n \in 0 .. N : f[n] \in Nat}
<1>3. 0 \in G
  BY <1>1, <1>2
<1>4. ASSUME NEW n \in 0 .. N - 1, n \in G PROVE n + 1 \in G
  <2>1. n + 1 \in 1 .. N /\ f[n] \in Nat /\ (n + 1) - 1 = n
    BY <1>1, <1>4
  <2>2. f[n + 1] = f[n] + s[n + 1]
    BY <1>2, <2>1
  <2> QED
    BY <1>1, <2>1, <2>2
<1> HIDE DEF G, N
<1>5. 0 .. N \subseteq G
  BY <1>1, <1>3, <1>4, Climb
<1>6. N \in G
  BY <1>1, <1>5
<1> QED
  BY <1>2, <1>6 DEF G


\* What the concatenation of a list of lists is made of.
LEMMA FlattenParts ==
  ASSUME NEW S, NEW seqs \in Seq(Seq(S))
  PROVE  \E f \in [0 .. Len(seqs) -> Seq(S)] :
            /\ f[0] = <<>> /\ \A n \in 1 .. Len(seqs) : f[n] = f[n - 1] \o seqs[n]
            /\ FlattenSeq(seqs) = f[Len(seqs)]
<1> DEFINE N == Len(seqs)
           p == CHOOSE g : g = [i \in 1 .. N |-> IF i = 1 THEN seqs[i] ELSE g[i - 1] \o seqs[i]]
           step == [q \in (1 .. N) \X Seq(S) |-> q[2] \o seqs[q[1]]]
<1>1. N \in Nat /\ \A n \in 1 .. N : seqs[n] \in Seq(S)
  OBVIOUS
<1>2. step \in [(1 .. N) \X Seq(S) -> Seq(S)]
  BY <1>1
<1>3. CASE N = 0
  <2>1. FlattenSeq(seqs) = <<>>
    BY <1>3 DEF FlattenSeq
  <2> DEFINE f == [n \in 0 .. N |-> <<>>]
  <2>2. f \in [0 .. N -> Seq(S)] /\ f[0] = <<>> /\ f[N] = <<>>
    BY <1>1
  <2>3. \A n \in 1 .. N : FALSE
    BY <1>3
  <2> HIDE DEF f
  <2> QED
    BY <2>1, <2>2, <2>3
<1>4. CASE N # 0
  <2>1. PICK f \in [0 .. N -> Seq(S)] :
           f[0] = <<>> /\ \A n \in 1 .. N : f[n] = step[<<n, f[n - 1]>>]
    <3>1. <<>> \in Seq(S)
      OBVIOUS
    <3> HIDE DEF step, N, p
    <3>2. Recursions(N, Seq(S), <<>>, step) # {}
      BY <1>1, <1>2, <3>1, RecursionExists, Zenon
    <3> QED
      BY <3>2 DEF Recursions
  <2>2. \A n \in 1 .. N : f[n] = f[n - 1] \o seqs[n] /\ f[n - 1] \in Seq(S)
    <3>1. \A n \in 1 .. N : f[n - 1] \in Seq(S)
      <4>1. \A n \in 1 .. N : n - 1 \in 0 .. N
        BY <1>1
      <4> QED
        BY <4>1, Zenon
    <3> QED
      BY <2>1, <3>1
  <2> DEFINE g == [n \in 1 .. N |-> f[n]]
  <2>3. g = [n \in 1 .. N |-> IF n = 1 THEN seqs[n] ELSE g[n - 1] \o seqs[n]]
    <3>1. ASSUME NEW n \in 1 .. N
          PROVE  f[n] = IF n = 1 THEN seqs[n] ELSE g[n - 1] \o seqs[n]
      <4>1. CASE n = 1
        <5>1. <<>> \o seqs[n] = seqs[n]
          BY <1>1
        <5>2. n - 1 = 0
          BY <4>1
        <5> QED
          BY ZenonT(60), <2>1, <2>2, <4>1, <5>1, <5>2
      <4>2. CASE n # 1
        <5>1. n - 1 \in 1 .. N
          BY <1>1, <4>2
        <5> QED
          BY <2>2, <4>2, <5>1
      <4> QED
        BY <4>1, <4>2
    <3> QED
      BY <3>1
  <2>4. p = [n \in 1 .. N |-> IF n = 1 THEN seqs[n] ELSE p[n - 1] \o seqs[n]]
    BY <2>3, Zenon
  <2>5. FlattenSeq(seqs) = p[N]
    BY <1>4 DEF FlattenSeq
  <2> HIDE DEF p, step, g
  <2> DEFINE h == [n \in 0 .. N |-> IF n = 0 THEN <<>> ELSE p[n]]
  <2>6. h[0] = <<>> /\ h[N] = p[N]
    BY <1>1, <1>4
  <2>7. \A n \in 0 .. N : n # 0 => h[n] = p[n]
    OBVIOUS
  <2> DEFINE G == {n \in 0 .. N : h[n] \in Seq(S) /\ (n # 0 => h[n] = h[n - 1] \o seqs[n])}
  <2>8. 0 \in G
    BY <1>1, <2>6
  <2>9. ASSUME NEW n \in 0 .. N - 1, n \in G PROVE n + 1 \in G
    <3>1. n + 1 \in 1 .. N /\ h[n] \in Seq(S) /\ (n + 1) - 1 = n /\ h[n + 1] = p[n + 1]
      BY <1>1, <2>7, <2>9
    <3>2. h[n + 1] = h[n] \o seqs[n + 1]
      <4>1. CASE n = 0
        <5>1. p[1] = seqs[1] /\ <<>> \o seqs[1] = seqs[1]
          BY <1>1, <2>4, <3>1, <4>1
        <5>2. h[n] = <<>> /\ n + 1 = 1
          BY <2>6, <4>1
        <5> HIDE DEF h, G
        <5> QED
          BY <3>1, <5>1, <5>2
      <4>2. CASE n # 0
        <5>1. n + 1 # 1 /\ h[n] = p[n]
          BY <2>7, <4>2
        <5>2. p[n + 1] = p[n] \o seqs[n + 1]
          BY <2>4, <3>1, <5>1
        <5> QED
          BY <3>1, <5>1, <5>2
      <4> QED
        BY <4>1, <4>2
    <3>3. h[n] \o seqs[n + 1] \in Seq(S)
      BY <1>1, <3>1
    <3>4. n + 1 \in 0 .. N
      BY <3>1
    <3> HIDE DEF h
    <3> QED
      BY <3>1, <3>2, <3>3, <3>4
  <2>10. 0 .. N \subseteq G
    <3> HIDE DEF G, N, h
    <3> QED
      BY <1>1, <2>8, <2>9, Climb
  <2>11. h \in [0 .. N -> Seq(S)]
    BY <2>10
  <2>12. \A n \in 1 .. N : h[n] = h[n - 1] \o seqs[n]
    <3> HIDE DEF h
    <3>1. \A n \in 1 .. N : n \in 0 .. N /\ n # 0
      BY <1>1
    <3>2. \A n \in 1 .. N : n \in G
      BY <2>10, <3>1, Zenon
    <3> QED
      BY <3>1, <3>2, Zenon
  <2> HIDE DEF h
  <2> QED
    BY <2>5, <2>6, <2>11, <2>12
<1> QED
  BY <1>3, <1>4


\* What two lists in a row hold.
LEMMA ConcatRange ==
  ASSUME NEW S, NEW a \in Seq(S), NEW b \in Seq(S)
  PROVE  a \o b \in Seq(S) /\ ToSet(a \o b) = ToSet(a) \union ToSet(b)
<1>1. /\ a \o b \in Seq(S) /\ Len(a \o b) = Len(a) + Len(b)
      /\ DOMAIN (a \o b) = 1 .. Len(a) + Len(b)
      /\ DOMAIN a = 1 .. Len(a) /\ DOMAIN b = 1 .. Len(b) /\ Len(a) \in Nat /\ Len(b) \in Nat
  OBVIOUS
<1>2. \A i \in 1 .. Len(a) : i \in DOMAIN (a \o b) /\ (a \o b)[i] = a[i]
  OBVIOUS
<1>3. \A i \in 1 .. Len(b) : Len(a) + i \in DOMAIN (a \o b) /\ (a \o b)[Len(a) + i] = b[i]
  OBVIOUS
<1>4. ToSet(a) \subseteq ToSet(a \o b)
  BY <1>1, <1>2 DEF ToSet
<1>5. ToSet(b) \subseteq ToSet(a \o b)
  BY <1>1, <1>3 DEF ToSet
<1>6. ASSUME NEW i \in DOMAIN (a \o b) PROVE (a \o b)[i] \in ToSet(a) \union ToSet(b)
  <2>1. CASE i \in 1 .. Len(a)
    BY <1>1, <1>2, <2>1 DEF ToSet
  <2>2. CASE i \notin 1 .. Len(a)
    <3>1. i - Len(a) \in 1 .. Len(b) /\ i = Len(a) + (i - Len(a))
      BY <1>1, <2>2
    <3> QED
      BY <1>1, <1>3, <3>1 DEF ToSet
  <2> QED
    BY <2>1, <2>2
<1>7. ToSet(a \o b) \subseteq ToSet(a) \union ToSet(b)
  BY <1>6 DEF ToSet
<1> QED
  BY <1>1, <1>4, <1>5, <1>7

\* Flattening keeps what the lists hold, and adds nothing.
LEMMA FlattenRange ==
  ASSUME NEW S, NEW seqs \in Seq(Seq(S))
  PROVE  /\ FlattenSeq(seqs) \in Seq(S)
         /\ ToSet(FlattenSeq(seqs)) = UNION {ToSet(seqs[i]) : i \in DOMAIN seqs}
<1> DEFINE N == Len(seqs)
<1>1. PICK f \in [0 .. N -> Seq(S)] :
            /\ f[0] = <<>> /\ \A n \in 1 .. N : f[n] = f[n - 1] \o seqs[n]
            /\ FlattenSeq(seqs) = f[N]
  BY FlattenParts
<1>2. N \in Nat /\ DOMAIN seqs = 1 .. N /\ \A n \in 1 .. N : seqs[n] \in Seq(S)
  OBVIOUS
<1> DEFINE G == {n \in 0 .. N : ToSet(f[n]) = UNION {ToSet(seqs[i]) : i \in 1 .. n}}
<1>3. 0 \in G
  <2>1. ToSet(<<>>) = {}
    BY DEF ToSet
  <2>2. UNION {ToSet(seqs[i]) : i \in 1 .. 0} = {}
    OBVIOUS
  <2>3. 0 \in 0 .. N
    BY <1>2
  <2> QED
    BY <1>1, <2>1, <2>2, <2>3
<1>4. ASSUME NEW n \in 0 .. N - 1, n \in G PROVE n + 1 \in G
  <2>1. n + 1 \in 1 .. N /\ n + 1 \in 0 .. N /\ n \in 0 .. N /\ (n + 1) - 1 = n
    BY <1>2
  <2>2. f[n] \in Seq(S) /\ seqs[n + 1] \in Seq(S) /\ f[n + 1] = f[n] \o seqs[n + 1]
    BY <1>1, <1>2, <2>1
  <2>3. ToSet(f[n + 1]) = ToSet(f[n]) \union ToSet(seqs[n + 1])
    BY <2>2, ConcatRange
  <2>4. 1 .. n + 1 = (1 .. n) \union {n + 1}
    BY <2>1
  <2>5. UNION {ToSet(seqs[i]) : i \in 1 .. n + 1}
          = (UNION {ToSet(seqs[i]) : i \in 1 .. n}) \union ToSet(seqs[n + 1])
    BY <2>4
  <2>6. ToSet(f[n]) = UNION {ToSet(seqs[i]) : i \in 1 .. n}
    BY <1>4
  <2> QED
    BY <2>1, <2>3, <2>5, <2>6
<1>5. N \in G
  <2> HIDE DEF G, N
  <2>1. 0 .. N \subseteq G
    BY <1>2, <1>3, <1>4, Climb
  <2> QED
    BY <1>2, <2>1
<1>6. f[N] \in Seq(S)
  BY <1>2
<1> QED
  BY <1>1, <1>2, <1>5, <1>6

\* A filter keeps what it should, and nothing else.
LEMMA OnlyRange ==
  ASSUME NEW cands, IsList(cands), NEW S
  PROVE  Only(cands, S) \in Seq(ToSet(cands) \intersect S)
         /\ ToSet(Only(cands, S)) = ToSet(cands) \intersect S
<1> DEFINE T == ToSet(cands) \intersect S
           each == [i \in DOMAIN cands |-> IF cands[i] \in S THEN <<cands[i]>> ELSE <<>>]
<1>1. Len(cands) \in Nat /\ DOMAIN cands = 1 .. Len(cands)
  BY DEF IsList
<1>2. \A i \in DOMAIN cands : cands[i] \in ToSet(cands)
  BY DEF ToSet
<1>3. \A i \in DOMAIN cands : each[i] \in Seq(T) /\ ToSet(each[i]) = {cands[i]} \intersect S
  <2> SUFFICES ASSUME NEW i \in DOMAIN cands
               PROVE  each[i] \in Seq(T) /\ ToSet(each[i]) = {cands[i]} \intersect S
    OBVIOUS
  <2>1. CASE cands[i] \in S
    <3>1. each[i] = <<cands[i]>> /\ cands[i] \in T
      BY <1>2, <2>1
    <3>2. ToSet(<<cands[i]>>) = {cands[i]}
      BY DEF ToSet
    <3> QED
      BY <2>1, <3>1, <3>2
  <2>2. CASE cands[i] \notin S
    <3>1. each[i] = <<>> /\ ToSet(<<>>) = {}
      BY <2>2 DEF ToSet
    <3> QED
      BY <2>2, <3>1
  <2> QED
    BY <2>1, <2>2
<1>4. each \in Seq(Seq(T)) /\ DOMAIN each = DOMAIN cands
  BY <1>1, <1>3
<1>5. Only(cands, S) = FlattenSeq(each)
  BY DEF Only
<1>6. UNION {ToSet(each[i]) : i \in DOMAIN each} = T
  <2>1. ToSet(cands) = {cands[i] : i \in DOMAIN cands}
    BY DEF ToSet
  <2> HIDE DEF each
  <2>2. ASSUME NEW x \in T PROVE x \in UNION {ToSet(each[i]) : i \in DOMAIN each}
    <3>1. PICK i \in DOMAIN cands : x = cands[i]
      BY <2>1
    <3>2. i \in DOMAIN each /\ x \in ToSet(each[i])
      BY <1>3, <1>4, <3>1
    <3> QED
      BY <3>2
  <2>3. ASSUME NEW x \in UNION {ToSet(each[i]) : i \in DOMAIN each} PROVE x \in T
    <3>1. PICK i \in DOMAIN cands : x \in ToSet(each[i])
      BY <1>4
    <3>2. x = cands[i] /\ x \in S
      BY <1>3, <3>1
    <3> QED
      BY <2>1, <3>2
  <2> QED
    BY <2>2, <2>3
<1> HIDE DEF each, T
<1>7. FlattenSeq(each) \in Seq(T) /\ ToSet(FlattenSeq(each)) = T
  BY <1>4, <1>6, FlattenRange
<1> QED
  BY <1>5, <1>7 DEF T


-----------------------------------------------------------------------------
(* Lists made of the entries of another. *)

\* r is made of entries of l, each used at most once.
Picks(r, l) ==
    \E o \in [DOMAIN r -> DOMAIN l] :
        /\ \A i, j \in DOMAIN r : o[i] = o[j] => i = j
        /\ \A i \in DOMAIN r : r[i] = l[o[i]]

\* How many candidates of a list are as confident as that.
AtLeast(l, t) == {i \in DOMAIN l : l[i].confidence >= t}

LEMMA PicksTrans ==
  ASSUME NEW r, NEW l, NEW m, Picks(r, l), Picks(l, m)
  PROVE  Picks(r, m)
<1>1. PICK o \in [DOMAIN r -> DOMAIN l] : /\ \A i, j \in DOMAIN r : o[i] = o[j] => i = j
                                          /\ \A i \in DOMAIN r : r[i] = l[o[i]]
  BY DEF Picks
<1>2. PICK u \in [DOMAIN l -> DOMAIN m] : /\ \A i, j \in DOMAIN l : u[i] = u[j] => i = j
                                          /\ \A i \in DOMAIN l : l[i] = m[u[i]]
  BY DEF Picks
<1> DEFINE w == [i \in DOMAIN r |-> u[o[i]]]
<1>3. w \in [DOMAIN r -> DOMAIN m]
  OBVIOUS
<1>4. \A i, j \in DOMAIN r : w[i] = w[j] => i = j
  BY <1>1, <1>2
<1>5. \A i \in DOMAIN r : r[i] = m[w[i]]
  BY <1>1, <1>2
<1> HIDE DEF w
<1> QED
  BY <1>3, <1>4, <1>5 DEF Picks

\* It holds nothing else.
LEMMA PicksRange ==
  ASSUME NEW r, NEW l, Picks(r, l)
  PROVE  ToSet(r) \subseteq ToSet(l)
BY DEF Picks, ToSet

\* And no more of the confident ones.
LEMMA PicksCount ==
  ASSUME NEW S, NEW r \in Seq(S), NEW l \in Seq(S), Picks(r, l), NEW t
  PROVE  /\ Cardinality(AtLeast(r, t)) \in Nat /\ Cardinality(AtLeast(l, t)) \in Nat
         /\ Cardinality(AtLeast(r, t)) <= Cardinality(AtLeast(l, t))
<1>1. PICK o \in [DOMAIN r -> DOMAIN l] : /\ \A i, j \in DOMAIN r : o[i] = o[j] => i = j
                                          /\ \A i \in DOMAIN r : r[i] = l[o[i]]
  BY DEF Picks
<1> DEFINE A == AtLeast(r, t)
           B == AtLeast(l, t)
           f == [i \in A |-> o[i]]
<1>2. IsFiniteSet(B)
  <2>1. Len(l) \in Nat /\ DOMAIN l = 1 .. Len(l)
    OBVIOUS
  <2>2. IsFiniteSet(1 .. Len(l))
    BY <2>1, FS_Interval
  <2>3. B \in SUBSET (1 .. Len(l))
    BY <2>1 DEF AtLeast
  <2> QED
    BY <2>2, <2>3, FS_Subset
<1>3. A \subseteq DOMAIN r /\ \A i \in A : o[i] \in B
  BY <1>1 DEF AtLeast
<1> HIDE DEF A, B
<1>4. f \in Injection(A, B)
  <2>1. f \in [A -> B] /\ DOMAIN f = A
    BY <1>3
  <2>2. \A i, j \in A : f[i] = f[j] => i = j
    BY <1>1, <1>3
  <2> HIDE DEF f
  <2> QED
    BY <2>1, <2>2 DEF Injection, IsInjective
<1> HIDE DEF f
<1>5. IsFiniteSet(A) /\ Cardinality(A) <= Cardinality(B)
  BY <1>2, <1>4, FS_Injection
<1>6. Cardinality(A) \in Nat /\ Cardinality(B) \in Nat
  BY <1>2, <1>5, FS_CardinalityType
<1> QED
  BY <1>5, <1>6 DEF A, B

\* Followed by the same list, it is made of entries of the other so followed.
LEMMA PicksConcat ==
  ASSUME NEW S, NEW r \in Seq(S), NEW l \in Seq(S), NEW b \in Seq(S), Picks(r, l)
  PROVE  Picks(r \o b, l \o b)
<1>1. PICK o \in [DOMAIN r -> DOMAIN l] : /\ \A i, j \in DOMAIN r : o[i] = o[j] => i = j
                                          /\ \A i \in DOMAIN r : r[i] = l[o[i]]
  BY DEF Picks
<1>0. PICK rb, lb : rb = r \o b /\ lb = l \o b
  OBVIOUS
<1>2. PICK m \in Nat, n \in Nat, k \in Nat :
           /\ m = Len(r) /\ n = Len(l) /\ k = Len(b)
           /\ DOMAIN r = 1 .. m /\ DOMAIN l = 1 .. n
           /\ DOMAIN rb = 1 .. m + k /\ DOMAIN lb = 1 .. n + k
  BY <1>0
<1>3. /\ \A i \in 1 .. m : rb[i] = r[i]
      /\ \A i \in (m + 1) .. (m + k) : rb[i] = b[i - m]
      /\ \A i \in 1 .. n : lb[i] = l[i]
      /\ \A i \in (n + 1) .. (n + k) : lb[i] = b[i - n]
  BY <1>0, <1>2
<1> DEFINE w == [i \in 1 .. m + k |-> IF i \in 1 .. m THEN o[i] ELSE i - m + n]
<1>4. \A i \in 1 .. m : w[i] = o[i] /\ o[i] \in 1 .. n
  <2>1. o \in [1 .. m -> 1 .. n]
    BY <1>2
  <2> QED
    BY <2>1
<1>5. \A i \in (m + 1) .. (m + k) : w[i] = i - m + n
  BY <1>2
<1>6. DOMAIN w = 1 .. m + k /\ \A i \in 1 .. m + k : w[i] \in 1 .. n + k
  <2>1. \A i \in 1 .. m + k : i \in 1 .. m \/ i \in (m + 1) .. (m + k)
    OBVIOUS
  <2>2. \A i \in 1 .. m : w[i] \in 1 .. n + k
    <3>1. \A x \in 1 .. n : x \in 1 .. n + k
      OBVIOUS
    <3> HIDE DEF w
    <3> QED
      BY <1>4, <3>1
  <2>3. \A i \in (m + 1) .. (m + k) : w[i] \in 1 .. n + k
    <3> HIDE DEF w
    <3> QED
      BY <1>5
  <2>4. DOMAIN w = 1 .. m + k
    OBVIOUS
  <2> HIDE DEF w
  <2> QED
    BY <2>1, <2>2, <2>3, <2>4
<1>7. w \in [1 .. m + k -> 1 .. n + k]
  BY <1>6
<1> HIDE DEF w
<1>8. ASSUME NEW i \in 1 .. m + k, NEW j \in 1 .. m + k, w[i] = w[j]
      PROVE  i = j
  <2>1. CASE i \in 1 .. m /\ j \in 1 .. m
    BY <1>1, <1>2, <1>4, <1>8, <2>1
  <2>2. CASE i \in 1 .. m /\ j \notin 1 .. m
    BY <1>4, <1>5, <1>8, <2>2
  <2>3. CASE i \notin 1 .. m /\ j \in 1 .. m
    BY <1>4, <1>5, <1>8, <2>3
  <2>4. CASE i \notin 1 .. m /\ j \notin 1 .. m
    BY <1>5, <1>8, <2>4
  <2> QED
    BY <2>1, <2>2, <2>3, <2>4
<1>9. ASSUME NEW i \in 1 .. m + k
      PROVE  rb[i] = lb[w[i]]
  <2>1. CASE i \in 1 .. m
    BY <1>1, <1>2, <1>3, <1>4, <2>1
  <2>2. CASE i \notin 1 .. m
    <3>1. i \in (m + 1) .. (m + k) /\ w[i] = i - m + n
      BY <1>5, <2>2
    <3>2. w[i] \in (n + 1) .. (n + k) /\ w[i] - n = i - m
      BY <3>1
    <3> QED
      BY SMTT(60), <1>3, <3>1, <3>2
  <2> QED
    BY <2>1, <2>2
<1>10. w \in [DOMAIN rb -> DOMAIN lb]
  BY <1>2, <1>7
<1>11. \A i, j \in DOMAIN rb : w[i] = w[j] => i = j
  BY <1>2, <1>8
<1>12. \A i \in DOMAIN rb : rb[i] = lb[w[i]]
  BY <1>2, <1>9
<1>13. Picks(rb, lb)
  BY <1>10, <1>11, <1>12 DEF Picks
<1> QED
  BY <1>0, <1>13


-----------------------------------------------------------------------------
(* The sort and the cut. *)

\* Candidates that can be compared.
Rated(S) == \A c \in S : c.confidence \in Int

\* list.sort: a permutation, in descending order.
LEMMA RankedSorts ==
  ASSUME NEW S, Rated(S), NEW l \in Seq(S)
  PROVE  /\ Ranked(l) \in Seq(S) /\ Len(Ranked(l)) = Len(l)
         /\ Picks(Ranked(l), l)
         /\ \A k \in DOMAIN l : \E p \in DOMAIN l : Ranked(l)[p] = l[k]
         /\ \A p, q \in DOMAIN l : p < q => Ranked(l)[p].confidence >= Ranked(l)[q].confidence
<1> DEFINE D == DOMAIN l
           N == Len(l)
           rank == [i \in D |-> Cardinality(Before(l, i))]
<1>1. N \in Nat /\ D = 1 .. N /\ \A i \in D : l[i] \in S /\ l[i].confidence \in Int
  BY DEF Rated
<1>2. IsFiniteSet(D) /\ Cardinality(D) = N
  BY SMTT(60), <1>1, FS_Interval
<1>3. \A i \in D : Before(l, i) \in SUBSET D /\ i \notin Before(l, i)
  BY <1>1 DEF Before
<1>4. \A i \in D : IsFiniteSet(Before(l, i)) /\ Cardinality(Before(l, i)) \in Nat
  BY <1>2, <1>3, FS_Subset, FS_CardinalityType
<1>5. \A i, j \in D : i \in Before(l, j) => rank[i] < rank[j]
  <2> SUFFICES ASSUME NEW i \in D, NEW j \in D, i \in Before(l, j)
               PROVE  rank[i] < rank[j]
    OBVIOUS
  <2>1. Before(l, i) \union {i} \in SUBSET Before(l, j)
    <3>1. ASSUME NEW x \in Before(l, i) PROVE x \in Before(l, j)
      BY <1>1, <3>1 DEF Before
    <3> QED
      BY <3>1
  <2>2. Cardinality(Before(l, i) \union {i}) = Cardinality(Before(l, i)) + 1
    BY <1>3, <1>4, FS_AddElement
  <2>3. Cardinality(Before(l, i) \union {i}) <= Cardinality(Before(l, j))
    BY <1>4, <2>1, FS_Subset
  <2> QED
    BY <1>4, <2>2, <2>3
<1>6. \A i, j \in D : i # j => i \in Before(l, j) \/ j \in Before(l, i)
  BY <1>1 DEF Before
<1>7. \A i \in D : rank[i] \in 0 .. N - 1
  <2> SUFFICES ASSUME NEW i \in D PROVE rank[i] \in 0 .. N - 1
    OBVIOUS
  <2>1. Before(l, i) \union {i} \in SUBSET D
    BY <1>3
  <2>2. Cardinality(Before(l, i) \union {i}) = Cardinality(Before(l, i)) + 1
    BY <1>3, <1>4, FS_AddElement
  <2>3. Cardinality(Before(l, i) \union {i}) <= N
    BY <1>2, <2>1, FS_Subset
  <2> QED
    BY <1>1, <1>4, <2>2, <2>3
<1>8. rank \in Injection(D, 0 .. N - 1)
  <2>1. rank \in [D -> 0 .. N - 1]
    BY <1>7
  <2>2. \A i, j \in D : rank[i] = rank[j] => i = j
    <3> HIDE DEF rank
    <3> QED
      BY <1>1, <1>5, <1>6, <1>7
  <2> HIDE DEF rank, D
  <2> QED
    BY <2>1, <2>2 DEF Injection, IsInjective
<1>9. rank \in Surjection(D, 0 .. N - 1)
  <2>1. IsFiniteSet(0 .. N - 1) /\ Cardinality(0 .. N - 1) = N
    <3>1. 0 \in Int /\ N - 1 \in Int
      BY <1>1
    <3>2. IsFiniteSet(0 .. N - 1) /\ Cardinality(0 .. N - 1) = IF 0 > N - 1 THEN 0 ELSE (N - 1) - 0 + 1
      BY <3>1, FS_Interval
    <3> QED
      BY <1>1, <3>2
  <2> HIDE DEF rank, D, N
  <2> QED
    BY <1>2, <1>8, <2>1, FS_Injection
<1>10. \A p \in D : \E i \in D : rank[i] = p - 1
  <2>1. \A p \in D : p - 1 \in 0 .. N - 1
    BY <1>1
  <2> HIDE DEF rank, D, N
  <2> QED
    BY <1>9, <2>1 DEF Surjection
<1> DEFINE o == [p \in D |-> CHOOSE i \in D : Cardinality(Before(l, i)) = p - 1]
<1>11. \A p \in D : o[p] \in D /\ rank[o[p]] = p - 1
  <2> SUFFICES ASSUME NEW p \in D PROVE o[p] \in D /\ rank[o[p]] = p - 1
    OBVIOUS
  <2>1. \E i \in D : Cardinality(Before(l, i)) = p - 1
    BY <1>10
  <2>2. o[p] = CHOOSE i \in D : Cardinality(Before(l, i)) = p - 1
    OBVIOUS
  <2>3. o[p] \in D /\ Cardinality(Before(l, o[p])) = p - 1
    BY <2>1, <2>2, Zenon
  <2> QED
    BY <2>3
<1>12. DOMAIN Ranked(l) = D /\ \A p \in D : Ranked(l)[p] = l[o[p]]
  BY DEF Ranked
<1>13. o \in [D -> D]
  BY <1>11
<1>14. \A k \in D : \E p \in D : o[p] = k
  <2> SUFFICES ASSUME NEW k \in D PROVE \E p \in D : o[p] = k
    OBVIOUS
  <2>1. rank[k] + 1 \in D
    <3> HIDE DEF rank
    <3> QED
      BY <1>1, <1>7
  <2>2. rank[o[rank[k] + 1]] = rank[k]
    <3> HIDE DEF rank, o
    <3>1. rank[o[rank[k] + 1]] = (rank[k] + 1) - 1
      BY <1>11, <2>1
    <3> QED
      BY <1>7, <3>1
  <2> HIDE DEF rank, o, D
  <2>3. o[rank[k] + 1] = k
    BY <1>11, <1>8, <2>1, <2>2 DEF Injection, IsInjective
  <2> QED
    BY <2>1, <2>3
<1> HIDE DEF o, rank
<1>15. Ranked(l) = [p \in 1 .. N |-> Ranked(l)[p]]
  BY <1>1 DEF Ranked
<1>16. \A p \in D : Ranked(l)[p] \in S
  BY <1>1, <1>11, <1>12
<1>17. Ranked(l) \in Seq(S) /\ Len(Ranked(l)) = N
  BY <1>1, <1>15, <1>16
<1>18. \A p, q \in D : o[p] = o[q] => p = q
  BY <1>1, <1>11
<1>19. Picks(Ranked(l), l)
  BY <1>12, <1>13, <1>18 DEF Picks
<1>20. \A k \in D : \E p \in D : Ranked(l)[p] = l[k]
  BY <1>12, <1>14
<1>21. ASSUME NEW p \in D, NEW q \in D, p < q
       PROVE  Ranked(l)[p].confidence >= Ranked(l)[q].confidence
  <2>1. o[p] \in D /\ o[q] \in D /\ rank[o[p]] = p - 1 /\ rank[o[q]] = q - 1
    BY <1>11
  <2>2. o[p] # o[q] /\ ~(o[q] \in Before(l, o[p]))
    BY <1>1, <1>5, <1>21, <2>1
  <2>3. o[p] \in Before(l, o[q])
    BY <1>6, <2>1, <2>2
  <2>4. l[o[p]].confidence >= l[o[q]].confidence
    BY <1>1, <2>1, <2>3 DEF Before
  <2> QED
    BY <1>12, <2>4
<1> QED
  BY <1>17, <1>19, <1>20, <1>21


\* Sorted and cut to n: the best is first, and what was cut had n others
\* before it.
LEMMA CutKeepsBest ==
  ASSUME NEW S, Rated(S), NEW l \in Seq(S), NEW n \in Nat \ {0}
  PROVE  LET r == Cut(Ranked(l), n)
         IN  /\ r \in Seq(S) /\ Picks(r, l)
             /\ l # <<>> => /\ r # <<>>
                            /\ \A k \in DOMAIN l : r[1].confidence >= l[k].confidence
             /\ \A k \in DOMAIN l :
                   \/ \E i \in DOMAIN r : r[i] = l[k]
                   \/ Cardinality(AtLeast(l, l[k].confidence)) > n
<1>1. PICK s \in Seq(S) :
        /\ s = Ranked(l) /\ Len(s) = Len(l) /\ Picks(s, l)
        /\ \A k \in DOMAIN l : \E p \in DOMAIN l : s[p] = l[k]
        /\ \A p, q \in DOMAIN l : p < q => s[p].confidence >= s[q].confidence
  BY RankedSorts
<1>2. PICK N \in Nat : N = Len(l) /\ DOMAIN l = 1 .. N /\ DOMAIN s = 1 .. N
  BY <1>1
<1>3. PICK m \in Nat : m = (IF N < n THEN N ELSE n) /\ m <= N /\ m <= n
  BY <1>2
<1> DEFINE r == Cut(Ranked(l), n)
<1>4. r = SubSeq(s, 1, m)
  BY Zenon, <1>1, <1>2, <1>3 DEF Cut
<1> HIDE DEF r
<1>5. r \in Seq(S) /\ Len(r) = m /\ DOMAIN r = 1 .. m /\ \A i \in 1 .. m : r[i] = s[i]
  <2>1. m <= Len(s) /\ Len(s) \in Nat
    BY Zenon, <1>1, <1>2, <1>3
  <2>2. Len(SubSeq(s, 1, m)) = m /\ \A i \in 1 .. m : SubSeq(s, 1, m)[i] = s[i]
    BY <2>1
  <2>3. SubSeq(s, 1, m) \in Seq(S)
    BY <2>1
  <2>4. DOMAIN SubSeq(s, 1, m) = 1 .. m
    BY <2>2, <2>3
  <2> QED
    BY <1>4, <2>2, <2>3, <2>4
<1>6. \A p \in 1 .. N : s[p].confidence \in Int
  BY <1>1, <1>2 DEF Rated
<1>10. ASSUME NEW p \in 1 .. N, NEW q \in 1 .. N, p <= q
       PROVE  s[p].confidence >= s[q].confidence
  <2>1. CASE p = q
    BY <1>6, <2>1
  <2>2. CASE p # q
    BY SMTT(60), <1>1, <1>2, <1>10, <2>2
  <2> QED
    BY <2>1, <2>2
<1>7. Picks(r, l)
  <2>1. Picks(r, s)
    <3> DEFINE o == [i \in 1 .. m |-> i]
    <3>1. o \in [DOMAIN r -> DOMAIN s]
      BY <1>2, <1>3, <1>5
    <3>2. \A i \in DOMAIN r : o[i] = i
      BY <1>5
    <3> HIDE DEF o
    <3> QED
      BY ZenonT(60), <1>5, <3>1, <3>2 DEF Picks
  <2> QED
    BY <1>1, <2>1, PicksTrans
<1>8. ASSUME l # <<>>
      PROVE  r # <<>> /\ \A k \in DOMAIN l : r[1].confidence >= l[k].confidence
  <2>1. N # 0 /\ m # 0
    BY <1>2, <1>3, <1>8
  <2>2. r # <<>> /\ r[1] = s[1] /\ 1 \in DOMAIN l
    BY <1>2, <1>3, <1>5, <2>1
  <2>3. ASSUME NEW k \in DOMAIN l PROVE r[1].confidence >= l[k].confidence
    <3>1. PICK p \in DOMAIN l : s[p] = l[k]
      BY <1>1
    <3>2. p \in 1 .. N /\ 1 \in 1 .. N /\ 1 <= p
      BY <1>2
    <3>3. s[1].confidence >= s[p].confidence
      BY <1>10, <3>2
    <3> QED
      BY <2>2, <3>1, <3>3
  <2> QED
    BY <2>2, <2>3
<1>9. ASSUME NEW k \in DOMAIN l, ~\E i \in DOMAIN r : r[i] = l[k]
      PROVE  Cardinality(AtLeast(l, l[k].confidence)) > n
  <2>1. PICK p \in 1 .. N : s[p] = l[k]
    BY <1>1, <1>2
  <2>2. n < p
    BY <1>2, <1>3, <1>5, <1>9, <2>1
  <2> DEFINE t == l[k].confidence
  <2>3. 1 .. n + 1 \in SUBSET AtLeast(s, t)
    <3>1. ASSUME NEW q \in 1 .. n + 1 PROVE q \in DOMAIN s /\ s[q].confidence >= t
      <4>1. q \in 1 .. N /\ q <= p
        BY <2>2
      <4> QED
        BY <1>2, <1>10, <2>1, <4>1
    <3> QED
      BY <3>1 DEF AtLeast
  <2>4. IsFiniteSet(AtLeast(s, t))
    <3>1. IsFiniteSet(1 .. N)
      BY FS_Interval
    <3>2. AtLeast(s, t) \in SUBSET (1 .. N)
      BY <1>2 DEF AtLeast
    <3> QED
      BY <3>1, <3>2, FS_Subset
  <2>5. Cardinality(1 .. n + 1) = n + 1
    <3>1. 1 \in Int /\ n + 1 \in Int
      OBVIOUS
    <3>2. Cardinality(1 .. n + 1) = IF 1 > n + 1 THEN 0 ELSE (n + 1) - 1 + 1
      BY <3>1, FS_Interval
    <3> QED
      BY <3>2
  <2>6. n + 1 <= Cardinality(AtLeast(s, t))
    BY <2>3, <2>4, <2>5, FS_Subset
  <2>7. /\ Cardinality(AtLeast(s, t)) \in Nat /\ Cardinality(AtLeast(l, t)) \in Nat
        /\ Cardinality(AtLeast(s, t)) <= Cardinality(AtLeast(l, t))
    BY <1>1, PicksCount
  <2> QED
    BY <2>6, <2>7
<1> QED
  BY <1>5, <1>7, <1>8, <1>9 DEF r

-----------------------------------------------------------------------------
(* The merge. *)

\* Duplicates are of a kind.
OfAKind(S, kind, dup) == \A x, y \in S : <<x, y>> \in dup => kind[x] = kind[y]

\* One turn of the loop appends the candidate, or puts it in the place of a
\* less confident one of its kind, or finds one of its kind that is as
\* confident.
LEMMA PlacedCases ==
  ASSUME NEW S, Rated(S), NEW m \in Seq(S), NEW c \in S, NEW kind, NEW dup, OfAKind(S, kind, dup)
  PROVE  LET x == Placed(m, c, dup)
         IN  \/ x = Append(m, c)
             \/ \E i \in DOMAIN m : /\ x = [m EXCEPT ![i] = c] /\ kind[m[i]] = kind[c]
                                    /\ c.confidence > m[i].confidence
             \/ x = m /\ \E i \in DOMAIN m : /\ kind[m[i]] = kind[c]
                                             /\ m[i].confidence >= c.confidence
<1> DEFINE same == {i \in DOMAIN m : <<m[i], c>> \in dup}
<1>1. DOMAIN m \subseteq Nat /\ \A i \in DOMAIN m : m[i] \in S /\ m[i].confidence \in Int
  BY DEF Rated
<1>2. c.confidence \in Int
  BY DEF Rated
<1>3. CASE same = {}
  BY <1>3 DEF Placed
<1>4. CASE same # {}
  <2>1. same \subseteq Nat
    BY <1>1
  <2> HIDE DEF same
  <2>2. \E x \in same : \A y \in same : x <= y
    BY <1>4, <2>1, Least
  <2>3. Min(same) \in same
    BY <2>2, Zenon DEF Min
  <2>4. PICK i \in DOMAIN m : i = Min(same) /\ kind[m[i]] = kind[c]
    BY <1>1, <2>3 DEF same, OfAKind
  <2>5. Placed(m, c, dup) = IF c.confidence > m[i].confidence THEN [m EXCEPT ![i] = c] ELSE m
    BY <1>4, <2>4 DEF Placed, same
  <2> QED
    BY <1>1, <1>2, <2>4, <2>5
<1> QED
  BY <1>3, <1>4


\* A turn yields a list.
LEMMA PlacedType ==
  ASSUME NEW S, Rated(S), NEW m \in Seq(S), NEW c \in S, NEW dup
  PROVE  Placed(m, c, dup) \in Seq(S)
<1>1. Append(m, c) \in Seq(S) /\ \A i \in DOMAIN m : [m EXCEPT ![i] = c] \in Seq(S)
  OBVIOUS
<1>2. OfAKind(S, [x \in S |-> 0], dup)
  BY DEF OfAKind
<1> DEFINE x == Placed(m, c, dup)
<1>3. x = Append(m, c) \/ x = m \/ \E i \in DOMAIN m : x = [m EXCEPT ![i] = c]
  BY <1>2, PlacedCases
<1> QED
  BY <1>1, <1>3

\* The lists merged so far, after each turn of the loop.
Turns(S, l, dup) ==
    {f \in [0 .. Len(l) -> Seq(S)] :
        f[0] = <<>> /\ \A n \in 1 .. Len(l) : f[n] = Placed(f[n - 1], l[n], dup)}

LastTurns(S, l, dup) == {f[Len(l)] : f \in Turns(S, l, dup)}

\* What the merge is made of.
LEMMA MergeParts ==
  ASSUME NEW S, Rated(S), NEW a, NEW b, NEW l \in Seq(S), l = a \o b, NEW dup
  PROVE  Merged(a, b, dup) \in LastTurns(S, l, dup)
<1> DEFINE cands == a \o b
           N == Len(cands)
           p == CHOOSE g : g = [n \in 0 .. N |->
                                  IF n = 0 THEN <<>> ELSE Placed(g[n - 1], cands[n], dup)]
           step == [q \in (1 .. N) \X Seq(S) |-> Placed(q[2], cands[q[1]], dup)]
<1>1. N \in Nat /\ \A n \in 1 .. N : cands[n] \in S
  OBVIOUS
<1>2. Merged(a, b, dup) = p[N]
  BY DEF Merged
<1>0. cands = l
  OBVIOUS
<1> HIDE DEF cands
<1>3. \A n \in 1 .. N : \A m \in Seq(S) : Placed(m, cands[n], dup) \in Seq(S)
  BY <1>1, PlacedType
<1>4. step \in [(1 .. N) \X Seq(S) -> Seq(S)]
  BY <1>3
<1>5. PICK f \in [0 .. N -> Seq(S)] :
         f[0] = <<>> /\ \A n \in 1 .. N : f[n] = step[<<n, f[n - 1]>>]
  <2>1. <<>> \in Seq(S)
    OBVIOUS
  <2> HIDE DEF step, N, p
  <2>2. Recursions(N, Seq(S), <<>>, step) # {}
    BY <1>1, <1>4, <2>1, RecursionExists, Zenon
  <2> QED
    BY <2>2 DEF Recursions
<1>6. \A n \in 1 .. N : f[n] = Placed(f[n - 1], cands[n], dup)
  <2>1. \A n \in 1 .. N : n - 1 \in 0 .. N
    BY <1>1
  <2>2. \A n \in 1 .. N : f[n - 1] \in Seq(S)
    BY <2>1, Zenon
  <2> QED
    BY <1>5, <2>2
<1>7. f = [n \in 0 .. N |-> IF n = 0 THEN <<>> ELSE Placed(f[n - 1], cands[n], dup)]
  <2> HIDE DEF step, N, p
  <2>1. \A n \in 0 .. N : n # 0 => n \in 1 .. N
    BY <1>1
  <2>2. \A n \in 0 .. N : f[n] = IF n = 0 THEN <<>> ELSE Placed(f[n - 1], cands[n], dup)
    BY <1>5, <1>6, <2>1
  <2>3. f = [n \in 0 .. N |-> f[n]]
    OBVIOUS
  <2> QED
    BY <2>2, <2>3
<1>8. p = [n \in 0 .. N |-> IF n = 0 THEN <<>> ELSE Placed(p[n - 1], cands[n], dup)]
  BY <1>7, Zenon
<1> HIDE DEF p, step
<1>9. p[0] = <<>> /\ \A n \in 1 .. N : p[n] = Placed(p[n - 1], cands[n], dup)
  BY SMTT(60), <1>1, <1>8
<1>10. DOMAIN p = 0 .. N
  BY <1>8
<1> DEFINE G == {n \in 0 .. N : p[n] \in Seq(S)}
<1>11. 0 \in G
  <2>1. 0 \in 0 .. N /\ <<>> \in Seq(S)
    BY <1>1
  <2> QED
    BY <1>9, <2>1
<1>12. ASSUME NEW n \in 0 .. N - 1, n \in G PROVE n + 1 \in G
  <2>1. n + 1 \in 1 .. N /\ n + 1 \in 0 .. N /\ p[n] \in Seq(S) /\ (n + 1) - 1 = n
    BY <1>1, <1>12
  <2>2. p[n + 1] = Placed(p[n], cands[n + 1], dup)
    BY <1>9, <2>1
  <2> QED
    BY <1>3, <2>1, <2>2
<1>13. 0 .. N \subseteq G
  <2> HIDE DEF G, N
  <2> QED
    BY <1>1, <1>11, <1>12, Climb
<1>14. p = [n \in 0 .. N |-> p[n]]
  BY <1>8
<1>15. p \in [0 .. N -> Seq(S)]
  BY <1>13, <1>14
<1>16. p \in Turns(S, l, dup)
  BY <1>0, <1>9, <1>15 DEF Turns
<1> QED
  BY <1>0, <1>2, <1>16 DEF LastTurns

\* The list merged so far is made of the first n candidates, as o tells, and
\* has for each of them one of its kind that is as confident.
Traced(m, l, n, o) ==
    /\ o \in [DOMAIN m -> 1 .. n]
    /\ \A i, j \in DOMAIN m : o[i] = o[j] => i = j
    /\ \A i \in DOMAIN m : m[i] = l[o[i]]
Covers(kind, y, c) == kind[y] = kind[c] /\ y.confidence >= c.confidence
Covered(m, l, n, kind) == \A k \in 1 .. n : \E i \in DOMAIN m : Covers(kind, m[i], l[k])

\* The candidate is appended.
LEMMA AppendTraced ==
  ASSUME NEW S, NEW m \in Seq(S), NEW l, NEW n \in Nat, NEW o, Traced(m, l, n, o),
         l[n + 1] \in S
  PROVE  \E w : Traced(Append(m, l[n + 1]), l, n + 1, w)
<1>1. PICK M \in Nat : M = Len(m) /\ DOMAIN m = 1 .. M
  OBVIOUS
<1>2. PICK x : x = Append(m, l[n + 1])
  OBVIOUS
<1>3. DOMAIN x = 1 .. M + 1 /\ x[M + 1] = l[n + 1] /\ \A i \in 1 .. M : x[i] = m[i]
  BY <1>1, <1>2
<1>4. /\ o \in [1 .. M -> 1 .. n]
      /\ \A i, j \in 1 .. M : o[i] = o[j] => i = j
      /\ \A i \in 1 .. M : m[i] = l[o[i]]
  BY <1>1 DEF Traced
<1> DEFINE w == [i \in 1 .. M + 1 |-> IF i = M + 1 THEN n + 1 ELSE o[i]]
<1>5. w[M + 1] = n + 1 /\ \A i \in 1 .. M : w[i] = o[i]
  OBVIOUS
<1>6. DOMAIN w = 1 .. M + 1 /\ w = [i \in 1 .. M + 1 |-> w[i]]
  OBVIOUS
<1> HIDE DEF w
<1>7. \A i \in 1 .. M : o[i] \in 1 .. n
  BY <1>4
<1>8. \A i \in 1 .. M + 1 : i \in 1 .. M \/ i = M + 1
  OBVIOUS
<1>9. \A i \in 1 .. M + 1 : w[i] \in 1 .. n + 1
  BY <1>5, <1>7, <1>8
<1>10. w \in [DOMAIN x -> 1 .. n + 1]
  BY <1>3, <1>6, <1>9
<1>11. ASSUME NEW i \in 1 .. M + 1, NEW j \in 1 .. M + 1, w[i] = w[j] PROVE i = j
  <2>1. CASE i \in 1 .. M /\ j \in 1 .. M
    BY <1>4, <1>5, <1>11, <2>1
  <2>2. CASE i = M + 1 /\ j \in 1 .. M
    BY <1>5, <1>7, <1>11, <2>2
  <2>3. CASE i \in 1 .. M /\ j = M + 1
    BY <1>5, <1>7, <1>11, <2>3
  <2> QED
    BY <1>8, <2>1, <2>2, <2>3
<1>12. ASSUME NEW i \in 1 .. M + 1 PROVE x[i] = l[w[i]]
  BY <1>3, <1>4, <1>5, <1>8
<1>13. Traced(x, l, n + 1, w)
  BY <1>3, <1>10, <1>11, <1>12 DEF Traced
<1> QED
  BY <1>2, <1>13

\* The candidate takes another's place.
LEMMA ReplaceTraced ==
  ASSUME NEW S, NEW m \in Seq(S), NEW l, NEW n \in Nat, NEW o, Traced(m, l, n, o),
         l[n + 1] \in S, NEW e \in DOMAIN m
  PROVE  \E w : Traced([m EXCEPT ![e] = l[n + 1]], l, n + 1, w)
<1>1. PICK x : x = [m EXCEPT ![e] = l[n + 1]]
  OBVIOUS
<1>2. DOMAIN x = DOMAIN m /\ x[e] = l[n + 1] /\ \A i \in DOMAIN m : i # e => x[i] = m[i]
  BY <1>1
<1>3. /\ \A i \in DOMAIN m : o[i] \in 1 .. n
      /\ \A i, j \in DOMAIN m : o[i] = o[j] => i = j
      /\ \A i \in DOMAIN m : m[i] = l[o[i]]
  BY DEF Traced
<1> DEFINE w == [i \in DOMAIN m |-> IF i = e THEN n + 1 ELSE o[i]]
<1>4. w[e] = n + 1 /\ \A i \in DOMAIN m : i # e => w[i] = o[i]
  OBVIOUS
<1>5. w = [i \in DOMAIN m |-> w[i]]
  OBVIOUS
<1> HIDE DEF w
<1>6. \A i \in DOMAIN m : w[i] \in 1 .. n + 1
  BY <1>3, <1>4
<1>7. w \in [DOMAIN x -> 1 .. n + 1]
  BY <1>2, <1>5, <1>6
<1>8. n + 1 \notin 1 .. n
  OBVIOUS
<1>9. \A i, j \in DOMAIN m : w[i] = w[j] => i = j
  BY <1>3, <1>4, <1>8
<1>10. \A i \in DOMAIN m : x[i] = l[w[i]]
  BY <1>2, <1>3, <1>4
<1>11. Traced(x, l, n + 1, w)
  BY <1>2, <1>7, <1>9, <1>10 DEF Traced
<1> QED
  BY <1>1, <1>11

\* One turn of the loop goes on from n candidates to n + 1.
LEMMA PlacedKeeps ==
  ASSUME NEW S, Rated(S), NEW m \in Seq(S), NEW l, NEW n \in Nat,
         \A k \in 1 .. n + 1 : l[k] \in S,
         NEW kind, NEW dup, OfAKind(S, kind, dup),
         NEW o, Traced(m, l, n, o), Covered(m, l, n, kind)
  PROVE  LET x == Placed(m, l[n + 1], dup)
         IN  (\E w : Traced(x, l, n + 1, w)) /\ Covered(x, l, n + 1, kind)
<1>1. PICK c \in S : c = l[n + 1]
  OBVIOUS
<1>2. PICK x : x = Placed(m, c, dup)
  OBVIOUS
<1>3. \A k \in 1 .. n + 1 : k \in 1 .. n \/ k = n + 1
  OBVIOUS
<1>4. /\ c.confidence \in Int
      /\ \A i \in DOMAIN m : m[i].confidence \in Int
      /\ \A k \in 1 .. n : l[k].confidence \in Int
  BY DEF Rated
<1>5. \A k \in 1 .. n : \E i \in DOMAIN m : Covers(kind, m[i], l[k])
  BY DEF Covered
<1>6. Covers(kind, c, c)
  BY <1>4 DEF Covers
<1>7. CASE x = Append(m, c)
  <2>1. \E w : Traced(x, l, n + 1, w)
    BY <1>1, <1>7, AppendTraced
  <2>2. Len(m) + 1 \in DOMAIN x /\ x[Len(m) + 1] = c
        /\ \A i \in DOMAIN m : i \in DOMAIN x /\ x[i] = m[i]
    BY <1>7
  <2>3. Covered(x, l, n + 1, kind)
    BY <1>1, <1>3, <1>5, <1>6, <2>2 DEF Covered
  <2> QED
    BY <1>1, <1>2, <2>1, <2>3
<1>8. ASSUME NEW e \in DOMAIN m, x = [m EXCEPT ![e] = c], kind[m[e]] = kind[c],
             c.confidence > m[e].confidence
      PROVE  (\E w : Traced(x, l, n + 1, w)) /\ Covered(x, l, n + 1, kind)
  <2>1. \E w : Traced(x, l, n + 1, w)
    BY <1>1, <1>8, ReplaceTraced
  <2>2. DOMAIN x = DOMAIN m /\ x[e] = c /\ \A i \in DOMAIN m : i # e => x[i] = m[i]
    BY <1>8
  <2>3. \A k \in 1 .. n : Covers(kind, m[e], l[k]) => Covers(kind, c, l[k])
    BY <1>4, <1>8 DEF Covers
  <2>4. ASSUME NEW k \in 1 .. n + 1 PROVE \E i \in DOMAIN x : Covers(kind, x[i], l[k])
    <3>1. CASE k = n + 1
      BY <1>1, <1>6, <2>2, <3>1
    <3>2. CASE k \in 1 .. n
      BY <1>5, <2>2, <2>3, <3>2
    <3> QED
      BY <1>3, <3>1, <3>2
  <2> QED
    BY <2>1, <2>4 DEF Covered
<1>9. ASSUME x = m, NEW e \in DOMAIN m, kind[m[e]] = kind[c], m[e].confidence >= c.confidence
      PROVE  (\E w : Traced(x, l, n + 1, w)) /\ Covered(x, l, n + 1, kind)
  <2>1. o \in [DOMAIN m -> 1 .. n + 1]
    BY DEF Traced
  <2>2. Traced(x, l, n + 1, o)
    BY <1>9, <2>1 DEF Traced
  <2>3. Covers(kind, m[e], l[n + 1])
    BY <1>1, <1>9 DEF Covers
  <2>4. Covered(x, l, n + 1, kind)
    BY <1>3, <1>5, <1>9, <2>3 DEF Covered
  <2> QED
    BY <2>2, <2>4
<1>10. \/ x = Append(m, c)
       \/ \E i \in DOMAIN m : /\ x = [m EXCEPT ![i] = c] /\ kind[m[i]] = kind[c]
                              /\ c.confidence > m[i].confidence
       \/ x = m /\ \E i \in DOMAIN m : /\ kind[m[i]] = kind[c]
                                       /\ m[i].confidence >= c.confidence
  BY <1>2, PlacedCases
<1> QED
  BY <1>1, <1>2, <1>7, <1>8, <1>9, <1>10

\* The merge only picks, and for every candidate it keeps one of its kind that
\* is as confident.
LEMMA MergeKeeps ==
  ASSUME NEW S, Rated(S), NEW a, NEW b, a \o b \in Seq(S),
         NEW kind, NEW dup, OfAKind(S, kind, dup)
  PROVE  LET m == Merged(a, b, dup)
         IN  /\ m \in Seq(S) /\ Picks(m, a \o b)
             /\ \A k \in DOMAIN (a \o b) : \E i \in DOMAIN m : Covers(kind, m[i], (a \o b)[k])
<1>1. PICK l \in Seq(S) : l = a \o b
  OBVIOUS
<1>2. PICK N \in Nat : N = Len(l) /\ DOMAIN l = 1 .. N
  OBVIOUS
<1>3. PICK f \in [0 .. N -> Seq(S)] :
            /\ f[0] = <<>> /\ \A n \in 1 .. N : f[n] = Placed(f[n - 1], l[n], dup)
            /\ Merged(a, b, dup) = f[N]
  <2>1. Merged(a, b, dup) \in LastTurns(S, l, dup)
    BY <1>1, MergeParts
  <2> QED
    BY <1>2, <2>1 DEF LastTurns, Turns
<1>4. \A i \in 1 .. N : l[i] \in S
  BY <1>2
<1> DEFINE G == {n \in 0 .. N : (\E o : Traced(f[n], l, n, o)) /\ Covered(f[n], l, n, kind)}
<1>5. 0 \in G
  <2>1. DOMAIN <<>> = {} /\ 1 .. 0 = {}
    OBVIOUS
  <2>2. Traced(<<>>, l, 0, <<>>)
    BY <2>1 DEF Traced
  <2>3. Covered(<<>>, l, 0, kind)
    BY <2>1 DEF Covered
  <2>4. 0 \in 0 .. N
    OBVIOUS
  <2> QED
    BY <1>3, <2>2, <2>3, <2>4
<1>6. ASSUME NEW n \in 0 .. N - 1, n \in G PROVE n + 1 \in G
  <2>1. n + 1 \in 1 .. N /\ n + 1 \in 0 .. N /\ n \in 0 .. N /\ (n + 1) - 1 = n /\ n \in Nat
    OBVIOUS
  <2>2. PICK o : Traced(f[n], l, n, o)
    BY <1>6
  <2>3. Covered(f[n], l, n, kind)
    BY <1>6
  <2>4. f[n] \in Seq(S) /\ f[n + 1] = Placed(f[n], l[n + 1], dup)
    BY <1>3, <2>1
  <2>5. \A k \in 1 .. n + 1 : l[k] \in S
    BY <1>4, <2>1
  <2>6. PICK m \in Seq(S) : m = f[n] /\ Traced(m, l, n, o) /\ Covered(m, l, n, kind)
    BY <2>2, <2>3, <2>4
  <2>7. PICK x : x = Placed(m, l[n + 1], dup)
    OBVIOUS
  <2> HIDE DEF G
  <2>8. (\E w : Traced(x, l, n + 1, w)) /\ Covered(x, l, n + 1, kind)
    BY <2>1, <2>5, <2>6, <2>7, PlacedKeeps
  <2> USE DEF G
  <2> QED
    BY <2>1, <2>4, <2>6, <2>7, <2>8
<1>7. N \in G
  <2> HIDE DEF G
  <2>1. 0 .. N \subseteq G
    BY <1>5, <1>6, Climb
  <2> QED
    BY <2>1
<1>8. f[N] \in Seq(S)
  OBVIOUS
<1>9. Picks(f[N], l)
  BY <1>2, <1>7 DEF Picks, Traced
<1>10. \A k \in DOMAIN l : \E i \in DOMAIN f[N] : Covers(kind, f[N][i], l[k])
  BY <1>2, <1>7 DEF Covered
<1> QED
  BY <1>1, <1>3, <1>8, <1>9, <1>10

-----------------------------------------------------------------------------
(* Suppression. *)

Adding(o) == adding[o].step # "none"
Writing(o) == adding[o].step = "write"

-----------------------------------------------------------------------------
(* The inductive invariant. *)

RunInv ==
    /\ DOMAIN run = {"exp", "profile", "code", "events", "symptoms", "plan", "answer",
                     "why", "now", "known", "rules", "sure"}
    /\ IsList(run.plan)

ListInv ==
    /\ file.state = "listed" => IsList(file.rules)
    /\ file.state \in {"missing", "malformed", "listed"}

\* An add under way holds the rule it was asked for; nobody adds to a file
\* that cannot be read, and nothing was ever reported for one.
AddInv ==
    /\ DOMAIN adding = Operators
    /\ \A o \in Operators :
         /\ DOMAIN adding[o] = {"step", "rule", "rules"}
         /\ adding[o].step \in {"none", "open", "write"}
         /\ Adding(o) => /\ IsList(adding[o].rules)
                         /\ adding[o].rule \in ToSet(adding[o].rules)
                         /\ file.state # "malformed"
    /\ file.state # "listed" => committed = {}

\* Where the reported rules are, as long as the adds do not overlap.
FileInv ==
    ~disturbed =>
        /\ \A o, p \in Operators : Adding(o) /\ Adding(p) => o = p
        /\ \A o \in Operators : Adding(o) => committed \subseteq ToSet(adding[o].rules)
        /\ file.state # "malformed" /\ (\A o \in Operators : ~Writing(o)) =>
             committed \subseteq ToSet(Load(file))

\* Before it is tagged, and when tagging failed, a diagnosis mutes nothing.
TagInv == pc \in {"idle", "diagnose", "tag"} => suppressed = {}

MuteInv == RunInv /\ ListInv /\ AddInv /\ FileInv /\ TagInv /\ MutesExact

-----------------------------------------------------------------------------
(* Lists. *)

\* A rule appended to a list is in it, and so is everything before.
LEMMA AppendList ==
  ASSUME NEW s, IsList(s), NEW x
  PROVE  IsList(Append(s, x)) /\ ToSet(Append(s, x)) = ToSet(s) \union {x}
<1> DEFINE S == ToSet(s) \union {x}
           t == Append(s, x)
<1>1. s \in Seq(S)
  BY DEF IsList
<1>2. t \in Seq(S) /\ Len(t) = Len(s) + 1 /\ t[Len(t)] = x
      /\ \A i \in 1 .. Len(s) : t[i] = s[i]
  BY <1>1
<1>3. DOMAIN t = 1 .. Len(s) + 1 /\ DOMAIN s = 1 .. Len(s) /\ Len(s) \in Nat
  BY <1>1, <1>2
<1>4. ToSet(t) \subseteq S
  BY <1>2, <1>3 DEF ToSet
<1>5. ToSet(s) \subseteq ToSet(t)
  BY <1>2, <1>3 DEF ToSet
<1>6. x \in ToSet(t)
  BY <1>2, <1>3 DEF ToSet
<1>7. ToSet(t) = S
  BY <1>4, <1>5, <1>6
<1> QED
  BY <1>2, <1>7 DEF IsList

\* The rules of the file come first among the rules of a run.
LEMMA ConcatKeeps ==
  ASSUME NEW s, IsList(s), NEW t, IsList(t), NEW r \in ToSet(s)
  PROVE  \E k \in DOMAIN (s \o t) : (s \o t)[k] = r
<1> DEFINE S == ToSet(s) \union ToSet(t)
<1>1. s \in Seq(S) /\ t \in Seq(S)
  BY DEF IsList
<1>2. PICK k \in DOMAIN s : s[k] = r
  BY DEF ToSet
<1>3. k \in 1 .. Len(s) /\ Len(s) \in Nat /\ Len(t) \in Nat
  BY <1>1, <1>2
<1>4. (s \o t)[k] = s[k]
  BY <1>1, <1>3
<1>5. DOMAIN (s \o t) = 1 .. Len(s) + Len(t)
  BY <1>1
<1> QED
  BY <1>2, <1>3, <1>4, <1>5

\* The empty list.
LEMMA EmptyList == IsList(<<>>) /\ ToSet(<<>>) = {}
BY DEF IsList, ToSet

-----------------------------------------------------------------------------
(* Initial states and steps. *)

LEMMA MuteInit == Init => MuteInv
<1> SUFFICES ASSUME Init PROVE MuteInv
  OBVIOUS
<1>1. RunInv
  BY EmptyList DEF Init, RunInv, NewRun
<1>2. ListInv
  BY FilesAssumption DEF Init, ListInv, IsList
<1>3. AddInv
  BY DEF Init, AddInv, NoAdd, Adding
<1>4. FileInv
  <2>1. file.state # "malformed" => committed \subseteq ToSet(Load(file))
    BY FilesAssumption DEF Init, Load
  <2> QED
    BY <2>1 DEF Init, FileInv, NoAdd, Adding
<1>5. TagInv /\ MutesExact
  BY DEF Init, TagInv, MutesExact
<1> QED
  BY <1>1, <1>2, <1>3, <1>4, <1>5 DEF MuteInv

\* The parts about the file depend on the file only.
LEMMA FileUntouched ==
  ASSUME MuteInv, UNCHANGED fileVars
  PROVE  ListInv' /\ AddInv' /\ FileInv'
<1>1. UNCHANGED <<file, adding, adds, committed, disturbed>>
  BY DEF fileVars
<1> QED
  BY <1>1 DEF MuteInv, ListInv, AddInv, FileInv, Adding, Writing, Load

\* The parts about the run depend on the run only.
LEMMA RunUntouched ==
  ASSUME MuteInv, UNCHANGED runVars
  PROVE  RunInv' /\ TagInv' /\ MutesExact'
<1>1. UNCHANGED <<pc, run, hypotheses, suppressed, proposal, saved, artifacts>>
  BY DEF runVars
<1>2. RunInv' /\ TagInv'
  BY <1>1 DEF MuteInv, RunInv, TagInv
<1>3. MutesExact'
  BY <1>1 DEF MuteInv, MutesExact, InForce, Fingerprint, NewRule
<1> QED
  BY <1>2, <1>3

\* An exception keeps what the run has read.
LEMMA RaiseKeeps ==
  ASSUME MuteInv, NEW why, Raise(why), UNCHANGED <<hypotheses, suppressed>>
  PROVE  RunInv' /\ TagInv' /\ MutesExact'
<1>1. /\ DOMAIN run' = DOMAIN run
      /\ run'.plan = run.plan /\ run'.rules = run.rules /\ run'.now = run.now
      /\ pc' = "raised"
  BY DEF Raise, MuteInv, RunInv
<1>2. RunInv' /\ TagInv'
  BY <1>1 DEF MuteInv, RunInv, TagInv
<1>3. MutesExact'
  BY <1>1 DEF MuteInv, MutesExact, InForce
<1> QED
  BY <1>2, <1>3

\* A proposal keeps what was tagged.
LEMMA ProposeKeeps ==
  ASSUME MuteInv, pc = "fix", pc' = "proposed", UNCHANGED <<run, hypotheses, suppressed>>
  PROVE  RunInv' /\ TagInv' /\ MutesExact'
<1>1. RunInv' /\ TagInv'
  BY DEF MuteInv, RunInv, TagInv
<1>2. MutesExact'
  BY DEF MuteInv, MutesExact, InForce, Fingerprint, NewRule
<1> QED
  BY <1>1, <1>2

LEMMA RegressStep == MuteInv /\ Regress => MuteInv'
<1> SUFFICES ASSUME MuteInv, Regress PROVE MuteInv'
  OBVIOUS
<1>1. ListInv' /\ AddInv' /\ FileInv'
  BY FileUntouched DEF Regress
<1>2. PICK r \in Regressions :
        run' = [NewRun EXCEPT !.exp = run.exp + 1, !.profile = r.profile, !.code = r.code,
                              !.events = r.events, !.symptoms = r.symptoms, !.plan = r.plan]
  BY Zenon DEF Regress
<1>3. RunInv'
  BY <1>2, PlanAssumption DEF RunInv, NewRun, IsList
<1>4. TagInv' /\ MutesExact'
  BY DEF Regress, TagInv, MutesExact
<1> QED
  BY <1>1, <1>3, <1>4 DEF MuteInv

LEMMA DiagnoseStep == MuteInv /\ Diagnose => MuteInv'
<1> SUFFICES ASSUME MuteInv, Diagnose PROVE MuteInv'
  OBVIOUS
<1>1. ListInv' /\ AddInv' /\ FileInv'
  BY FileUntouched DEF Diagnose
<1>2. /\ pc = "diagnose" /\ UNCHANGED suppressed
      /\ \/ Raise("llm") /\ UNCHANGED hypotheses
         \/ pc' = "tag" /\ \E a : run' = [run EXCEPT !.answer = a]
  BY DEF Diagnose
<1>3. RunInv' /\ TagInv' /\ MutesExact'
  <2>1. CASE Raise("llm") /\ UNCHANGED hypotheses
    BY <1>2, <2>1, RaiseKeeps
  <2>2. CASE pc' = "tag" /\ \E a : run' = [run EXCEPT !.answer = a]
    <3>1. suppressed' = {} /\ DOMAIN run' = DOMAIN run /\ run'.plan = run.plan
      BY <1>2, <2>2 DEF MuteInv, RunInv, TagInv
    <3>2. RunInv'
      BY <3>1 DEF MuteInv, RunInv
    <3> QED
      BY <2>2, <3>1, <3>2 DEF TagInv, MutesExact
  <2> QED
    BY <1>2, <2>1, <2>2
<1> QED
  BY <1>1, <1>3 DEF MuteInv

\* A rule that matches is in force, and every condition of it is met.
LEMMA MatchMeans ==
  ASSUME NEW r, NEW h, NEW when, Matches(r, h, when)
  PROVE  /\ r.expires_at # Naive /\ (r.expires_at = None \/ when <= r.expires_at)
         /\ {r.hypothesis_id} \subseteq {None, Fingerprint(h)}
         /\ {r.fix_class} \subseteq {None, Fingerprint(h).fix_class}
         /\ r.path_glob # None => \E p \in Fingerprint(h).paths : p \in r.path_glob
         /\ r.summary_contains # None => Fingerprint(h).summary.text \in r.summary_contains
<1>1. /\ Fingerprint(h).fix_class = h.fix_class /\ Fingerprint(h).paths = h.paths
      /\ Fingerprint(h).summary = h.summary
  BY DEF Fingerprint
<1> QED
  BY <1>1 DEF Matches, RuleMatches

\* The rule that "suppress add" writes for a hypothesis matches it until it
\* expires.
LEMMA NewRuleMatches ==
  ASSUME NEW h, NEW x, NEW when, x # Naive, x = None \/ when <= x
  PROVE  Matches(NewRule(h, x), h, when)
BY DEF Matches, RuleMatches, NewRule

LEMMA TagStep == MuteInv /\ Tag => MuteInv'
<1> SUFFICES ASSUME MuteInv, Tag PROVE MuteInv'
  OBVIOUS
<1>1. ListInv' /\ AddInv' /\ FileInv'
  BY FileUntouched DEF Tag
<1>2. PICK rules : rules = Load(file) \o run.plan
  OBVIOUS
<1>3. /\ pc = "tag" /\ UNCHANGED <<hypotheses, committed>>
      /\ \/ Raise("rules") /\ UNCHANGED suppressed
         \/ /\ file.state # "malformed"
            /\ suppressed' = {Fingerprint(hypotheses[i]) :
                                i \in {j \in DOMAIN hypotheses : Muted(rules, hypotheses[j], now)}}
            /\ pc' \in {"declined", "fix"}
            /\ run' = [run EXCEPT !.now = now, !.known = committed, !.rules = rules,
                                  !.sure = ~disturbed /\ ~\E o \in Operators : Writing(o)]
  BY <1>2 DEF Tag, fileVars, Writing
<1>4. CASE Raise("rules") /\ UNCHANGED suppressed
  BY <1>1, <1>3, <1>4, RaiseKeeps DEF MuteInv
<1>5. CASE /\ file.state # "malformed"
           /\ suppressed' = {Fingerprint(hypotheses[i]) :
                               i \in {j \in DOMAIN hypotheses : Muted(rules, hypotheses[j], now)}}
           /\ pc' \in {"declined", "fix"}
           /\ run' = [run EXCEPT !.now = now, !.known = committed, !.rules = rules,
                                 !.sure = ~disturbed /\ ~\E o \in Operators : Writing(o)]
  <2>1. /\ DOMAIN run' = DOMAIN run /\ run'.plan = run.plan
        /\ run'.now = now /\ run'.known = committed /\ run'.rules = rules
        /\ run'.sure = (~disturbed /\ ~\E o \in Operators : Writing(o))
    BY <1>5 DEF MuteInv, RunInv
  <2>2. RunInv' /\ TagInv'
    BY <1>5, <2>1 DEF MuteInv, RunInv, TagInv
  <2>3. ASSUME NEW fp \in suppressed'
        PROVE  \E k \in DOMAIN rules :
                 /\ InForce(rules[k])'
                 /\ {rules[k].hypothesis_id} \subseteq {None, fp}
                 /\ {rules[k].fix_class} \subseteq {None, fp.fix_class}
                 /\ rules[k].path_glob # None => \E p \in fp.paths : p \in rules[k].path_glob
                 /\ rules[k].summary_contains # None => fp.summary.text \in rules[k].summary_contains
    <3>1. PICK i \in DOMAIN hypotheses : Muted(rules, hypotheses[i], now)
                                         /\ fp = Fingerprint(hypotheses[i])
      BY <1>5, <2>3
    <3>2. PICK k \in DOMAIN rules : Matches(rules[k], hypotheses[i], now)
      BY <3>1 DEF Muted
    <3> QED
      BY <2>1, <3>1, <3>2, MatchMeans DEF InForce
  <2>4. ASSUME run'.sure, NEW i \in DOMAIN hypotheses, NEW r \in run'.known,
               r = NewRule(hypotheses[i], r.expires_at), InForce(r)'
        PROVE  Fingerprint(hypotheses[i]) \in suppressed'
    <3>1. r \in ToSet(Load(file))
      BY <1>5, <2>1, <2>4 DEF MuteInv, FileInv
    <3>2. IsList(Load(file)) /\ IsList(run.plan)
      BY <1>5, EmptyList DEF MuteInv, ListInv, RunInv, Load
    <3>3. PICK k \in DOMAIN rules : rules[k] = r
      BY <1>2, <3>1, <3>2, ConcatKeeps
    <3>4. Matches(r, hypotheses[i], now)
      <4>1. r.expires_at # Naive /\ (r.expires_at = None \/ now <= r.expires_at)
        BY <2>1, <2>4 DEF InForce
      <4> QED
        BY <2>4, <4>1, NewRuleMatches
    <3>5. Muted(rules, hypotheses[i], now)
      BY <3>3, <3>4 DEF Muted
    <3> QED
      BY <1>5, <3>5
  <2>5. MutesExact'
    BY <1>3, <2>1, <2>3, <2>4 DEF MutesExact, NewRule, Fingerprint
  <2> QED
    BY <1>1, <2>2, <2>5 DEF MuteInv
<1> QED
  BY <1>3, <1>4, <1>5

LEMMA ProposeNoPatchStep == MuteInv /\ ProposeNoPatch => MuteInv'
<1> SUFFICES ASSUME MuteInv, ProposeNoPatch PROVE MuteInv'
  OBVIOUS
<1>1. ListInv' /\ AddInv' /\ FileInv'
  BY FileUntouched DEF ProposeNoPatch
<1>2. /\ pc = "fix" /\ UNCHANGED <<hypotheses, suppressed>>
      /\ (pc' = "proposed" /\ UNCHANGED run) \/ Raise("disk")
  BY DEF ProposeNoPatch, Propose
<1> QED
  BY <1>1, <1>2, RaiseKeeps, ProposeKeeps DEF MuteInv

LEMMA ProposePatchStep == MuteInv /\ ProposePatch => MuteInv'
<1> SUFFICES ASSUME MuteInv, ProposePatch PROVE MuteInv'
  OBVIOUS
<1>1. ListInv' /\ AddInv' /\ FileInv'
  BY FileUntouched DEF ProposePatch
<1>2. /\ pc = "fix" /\ UNCHANGED <<hypotheses, suppressed>>
      /\ (pc' = "proposed" /\ UNCHANGED run) \/ Raise("llm")
  BY Zenon DEF ProposePatch, Finish, Propose
<1> QED
  BY <1>1, <1>2, RaiseKeeps, ProposeKeeps DEF MuteInv

LEMMA TickStep == MuteInv /\ Tick => MuteInv'
BY RunUntouched, FileUntouched DEF Tick, MuteInv

-----------------------------------------------------------------------------
(* "chaos suppress add". *)

LEMMA AddReadStep ==
  ASSUME MuteInv, NEW o \in Operators, AddRead(o)
  PROVE  MuteInv'
<1>1. RunInv' /\ TagInv' /\ MutesExact'
  BY RunUntouched DEF AddRead
<1>2. PICK rule : adding' = [adding EXCEPT ![o] = [step |-> "open", rule |-> rule,
                                                   rules |-> Append(Load(file), rule)]]
  BY DEF AddRead
<1>3. /\ file.state # "malformed" /\ UNCHANGED <<file, committed>>
      /\ disturbed' = (disturbed \/ \E p \in Operators : Adding(p))
  BY DEF AddRead, Adding
<1>4. IsList(Load(file))
  BY <1>3, EmptyList DEF MuteInv, ListInv, Load
<1>5. PICK new : /\ new = Append(Load(file), rule)
                 /\ IsList(new) /\ ToSet(new) = ToSet(Load(file)) \union {rule}
  BY <1>4, AppendList
<1>6. ListInv'
  BY <1>3 DEF MuteInv, ListInv
<1>7. /\ DOMAIN adding' = Operators
      /\ adding'[o] = [step |-> "open", rule |-> rule, rules |-> new]
      /\ \A p \in Operators \ {o} : adding'[p] = adding[p]
  BY <1>2, <1>5 DEF MuteInv, AddInv
<1>8. AddInv'
  <2>1. /\ DOMAIN adding'[o] = {"step", "rule", "rules"} /\ adding'[o].step = "open"
        /\ adding'[o].rule = rule /\ adding'[o].rules = new
    BY <1>7
  <2>2. rule \in ToSet(new)
    BY <1>5
  <2>3. \A p \in Operators \ {o} : Adding(p)' = Adding(p)
    BY <1>7 DEF Adding
  <2> QED
    BY <1>3, <1>5, <1>7, <2>1, <2>2, <2>3 DEF MuteInv, AddInv
<1>9. FileInv'
  <2>1. SUFFICES ASSUME ~disturbed'
                 PROVE  FileInv'
    BY DEF FileInv
  <2>2. ~disturbed /\ \A p \in Operators : ~Adding(p)
    BY <1>3, <2>1
  <2>3. \A p \in Operators : ~Writing(p)
    BY <2>2 DEF Adding, Writing
  <2>4. committed \subseteq ToSet(Load(file))
    BY <1>3, <2>2, <2>3 DEF MuteInv, FileInv
  <2>5. \A p \in Operators : Adding(p)' => p = o
    BY <1>7, <2>2 DEF Adding
  <2>6. committed \subseteq ToSet(adding'[o].rules)
    BY <1>5, <1>7, <2>4
  <2> QED
    BY <1>3, <2>4, <2>5, <2>6 DEF FileInv, Load
<1> QED
  BY <1>1, <1>6, <1>8, <1>9 DEF MuteInv

LEMMA AddOpenStep ==
  ASSUME MuteInv, NEW o \in Operators, AddOpen(o)
  PROVE  MuteInv'
<1>1. RunInv' /\ TagInv' /\ MutesExact'
  BY RunUntouched DEF AddOpen
<1>2. /\ Adding(o) /\ UNCHANGED <<committed, disturbed>>
      /\ file' = [state |-> "listed", rules |-> <<>>]
      /\ adding' = [adding EXCEPT ![o].step = "write"]
  BY DEF AddOpen, Listed, Adding
<1>3. /\ DOMAIN adding' = Operators
      /\ DOMAIN adding'[o] = DOMAIN adding[o]
      /\ adding'[o].step = "write" /\ adding'[o].rule = adding[o].rule
      /\ adding'[o].rules = adding[o].rules
      /\ \A p \in Operators \ {o} : adding'[p] = adding[p]
  BY <1>2 DEF MuteInv, AddInv
<1>4. \A p \in Operators : Adding(p)' = Adding(p)
  BY <1>2, <1>3 DEF Adding
<1>5. ListInv'
  BY <1>2, EmptyList DEF ListInv
<1>6. AddInv'
  BY <1>2, <1>3, <1>4 DEF MuteInv, AddInv
<1>7. FileInv'
  <2>1. Writing(o)'
    BY <1>3 DEF Writing
  <2>2. \A p \in Operators : adding'[p].rules = adding[p].rules
    BY <1>3
  <2> QED
    BY <1>2, <1>4, <2>1, <2>2 DEF MuteInv, FileInv
<1> QED
  BY <1>1, <1>5, <1>6, <1>7 DEF MuteInv

LEMMA AddWriteStep ==
  ASSUME MuteInv, NEW o \in Operators, AddWrite(o)
  PROVE  MuteInv'
<1>1. RunInv' /\ TagInv' /\ MutesExact'
  BY RunUntouched DEF AddWrite
<1>2. /\ Adding(o) /\ UNCHANGED disturbed
      /\ file' = [state |-> "listed", rules |-> adding[o].rules]
      /\ committed' = committed \union {adding[o].rule}
      /\ adding' = [adding EXCEPT ![o] = NoAdd]
  BY DEF AddWrite, Listed, Adding
<1>3. /\ IsList(adding[o].rules) /\ adding[o].rule \in ToSet(adding[o].rules)
      /\ DOMAIN adding' = Operators /\ adding'[o] = NoAdd
      /\ \A p \in Operators \ {o} : adding'[p] = adding[p]
  BY <1>2 DEF MuteInv, AddInv
<1>4. ListInv'
  BY <1>2, <1>3 DEF ListInv
<1>5. AddInv'
  BY <1>2, <1>3 DEF MuteInv, AddInv, Adding, NoAdd
<1>6. FileInv'
  <2>1. SUFFICES ASSUME ~disturbed PROVE FileInv'
    BY <1>2 DEF FileInv
  <2>2. \A p \in Operators : ~Adding(p)'
    BY <1>2, <1>3, <2>1 DEF MuteInv, FileInv, Adding, NoAdd
  <2>3. committed' \subseteq ToSet(adding[o].rules)
    BY <1>2, <1>3, <2>1 DEF MuteInv, FileInv
  <2> QED
    BY <1>2, <2>2, <2>3 DEF FileInv, Load
<1> QED
  BY <1>1, <1>4, <1>5, <1>6 DEF MuteInv

LEMMA AddKilledStep ==
  ASSUME MuteInv, NEW o \in Operators, AddKilled(o)
  PROVE  MuteInv'
<1>1. RunInv' /\ TagInv' /\ MutesExact'
  BY RunUntouched DEF AddKilled
<1>2. ListInv' /\ FileInv'
  BY DEF AddKilled, MuteInv, ListInv, FileInv
<1>3. /\ UNCHANGED <<file, committed>> /\ adding' = [adding EXCEPT ![o] = NoAdd]
  BY DEF AddKilled
<1>4. AddInv'
  BY <1>3 DEF MuteInv, AddInv, Adding, NoAdd
<1> QED
  BY <1>1, <1>2, <1>4 DEF MuteInv

LEMMA MuteStep == MuteInv /\ [Next]_vars => MuteInv'
<1> SUFFICES ASSUME MuteInv, [Next]_vars PROVE MuteInv'
  OBVIOUS
<1>1. CASE UNCHANGED vars
  BY <1>1, RunUntouched, FileUntouched DEF vars, MuteInv
<1>2. CASE Hypothesize
  BY <1>2, RunUntouched, FileUntouched DEF Hypothesize, MuteInv
<1> QED
  BY <1>1, <1>2, RegressStep, DiagnoseStep, TagStep, ProposeNoPatchStep, ProposePatchStep, TickStep,
     AddReadStep, AddOpenStep, AddWriteStep, AddKilledStep DEF Next

-----------------------------------------------------------------------------

\* The rules an operator was told were added are where the next run will
\* read them, as long as adds do not overlap and none is killed half way.
THEOREM MuteInvariant == Spec => []MuteInv
BY MuteInit, MuteStep, PTL DEF Spec

\* Suppression mutes only by a rule in force that fits, and mutes every
\* hypothesis for which "suppress add" has reported one - for any number of
\* operators, runs and rules (suppression.py rule_matches, main.py
\* suppress_add_cmd).
THEOREM MutesAreExact == Spec => []MutesExact
BY MuteInvariant, PTL DEF MuteInv

-----------------------------------------------------------------------------
(* The confidence of a candidate is a number. *)

\* A table of pairs with a number each.
IsTable(s) == \E n \in Nat : DOMAIN s = 1 .. n /\ \A k \in 1 .. n : s[k][2] \in Nat

LEMMA Tables ==
  /\ IsTable(<<>>)
  /\ \A a : \A x \in Nat : IsTable(<< <<a, x>> >>)
  /\ \A a, b : \A x, y \in Nat : IsTable(<< <<a, x>>, <<b, y>> >>)
  /\ \A a, b, c : \A x, y, z \in Nat : IsTable(<< <<a, x>>, <<b, y>>, <<c, z>> >>)
  /\ \A a, b, c, d : \A x, y, z, u \in Nat :
        IsTable(<< <<a, x>>, <<b, y>>, <<c, z>>, <<d, u>> >>)
<1>1. ASSUME NEW s, NEW n \in 0 .. 4, DOMAIN s = 1 .. n,
             n >= 1 => s[1][2] \in Nat, n >= 2 => s[2][2] \in Nat,
             n >= 3 => s[3][2] \in Nat, n >= 4 => s[4][2] \in Nat
      PROVE  IsTable(s)
  <2>1. \A k \in 1 .. n : k = 1 \/ k = 2 \/ k = 3 \/ k = 4
    OBVIOUS
  <2>2. \A k \in 1 .. n : s[k][2] \in Nat
    BY <1>1, <2>1
  <2> QED
    BY <1>1, <2>2 DEF IsTable
<1>2. IsTable(<<>>)
  BY DEF IsTable
<1>3. ASSUME NEW a, NEW x \in Nat PROVE IsTable(<< <<a, x>> >>)
  <2> DEFINE s == << <<a, x>> >>
  <2>1. DOMAIN s = 1 .. 1 /\ s[1][2] = x
    OBVIOUS
  <2> HIDE DEF s
  <2>2. IsTable(s)
    BY <1>1, <2>1
  <2> QED
    BY <2>2 DEF s
<1>4. ASSUME NEW a, NEW b, NEW x \in Nat, NEW y \in Nat
      PROVE  IsTable(<< <<a, x>>, <<b, y>> >>)
  <2> DEFINE s == << <<a, x>>, <<b, y>> >>
  <2>1. DOMAIN s = 1 .. 2 /\ s[1][2] = x /\ s[2][2] = y
    OBVIOUS
  <2> HIDE DEF s
  <2>2. IsTable(s)
    BY <1>1, <2>1
  <2> QED
    BY <2>2 DEF s
<1>5. ASSUME NEW a, NEW b, NEW c, NEW x \in Nat, NEW y \in Nat, NEW z \in Nat
      PROVE  IsTable(<< <<a, x>>, <<b, y>>, <<c, z>> >>)
  <2> DEFINE s == << <<a, x>>, <<b, y>>, <<c, z>> >>
  <2>1. DOMAIN s = 1 .. 3 /\ s[1][2] = x /\ s[2][2] = y /\ s[3][2] = z
    OBVIOUS
  <2> HIDE DEF s
  <2>2. IsTable(s)
    BY <1>1, <2>1
  <2> QED
    BY <2>2 DEF s
<1>6. ASSUME NEW a, NEW b, NEW c, NEW d, NEW x \in Nat, NEW y \in Nat, NEW z \in Nat, NEW u \in Nat
      PROVE  IsTable(<< <<a, x>>, <<b, y>>, <<c, z>>, <<d, u>> >>)
  <2> DEFINE s == << <<a, x>>, <<b, y>>, <<c, z>>, <<d, u>> >>
  <2>1. DOMAIN s = 1 .. 4 /\ s[1][2] = x /\ s[2][2] = y /\ s[3][2] = z /\ s[4][2] = u
    OBVIOUS
  <2> HIDE DEF s
  <2>2. IsTable(s)
    BY <1>1, <2>1
  <2> QED
    BY <2>2 DEF s
<1> QED
  BY <1>2, <1>3, <1>4, <1>5, <1>6

\* The boosts of a class.
LEMMA BoostsAreTables ==
  ASSUME NEW class
  PROVE  IsTable(BoostsFor(class))
<1>1. CASE class = "missing-timeout"
  BY Zenon, <1>1, Tables DEF BoostsFor
<1>2. CASE class = "missing-retry"
  BY Zenon, <1>2, Tables DEF BoostsFor
<1>3. CASE class = "missing-fallback"
  BY Zenon, <1>3, Tables DEF BoostsFor
<1>4. CASE class = "auth-control-gap"
  BY Zenon, <1>4, Tables DEF BoostsFor
<1>5. CASE class = "secret-handling"
  BY Zenon, <1>5, Tables DEF BoostsFor
<1>6. CASE class = "image-policy"
  BY Zenon, <1>6, Tables DEF BoostsFor
<1>7. CASE class \notin {"missing-timeout", "missing-retry", "missing-fallback", "auth-control-gap", "secret-handling", "image-policy"}
  BY Zenon, <1>7, Tables DEF BoostsFor
<1> QED
  BY <1>1, <1>2, <1>3, <1>4, <1>5, <1>6, <1>7

\* The rules of a category.
LEMMA RulesAreTables ==
  ASSUME NEW cat
  PROVE  IsTable(RulesFor(cat))
<1>0. DOMAIN FixRules = {"network", "pod", "stress", "cert", "tls", "auth", "secret", "image", "iam", "netpol",
                         "dns", "io", "http", "time", "kernel", "egress", "runtime"}
  BY DEF FixRules
<1>1. IsTable(FixRules["network"])
  BY Tables DEF FixRules
<1>2. IsTable(FixRules["pod"])
  BY Tables DEF FixRules
<1>3. IsTable(FixRules["stress"])
  BY Tables DEF FixRules
<1>4. IsTable(FixRules["cert"])
  BY Tables DEF FixRules
<1>5. IsTable(FixRules["tls"])
  BY Tables DEF FixRules
<1>6. IsTable(FixRules["auth"])
  BY Tables DEF FixRules
<1>7. IsTable(FixRules["secret"])
  BY Tables DEF FixRules
<1>8. IsTable(FixRules["image"])
  BY Tables DEF FixRules
<1>9. IsTable(FixRules["iam"])
  BY Tables DEF FixRules
<1>10. IsTable(FixRules["netpol"])
  BY Tables DEF FixRules
<1>11. IsTable(FixRules["dns"])
  BY Tables DEF FixRules
<1>12. IsTable(FixRules["io"])
  BY Tables DEF FixRules
<1>13. IsTable(FixRules["http"])
  BY Tables DEF FixRules
<1>14. IsTable(FixRules["time"])
  BY Tables DEF FixRules
<1>15. IsTable(FixRules["kernel"])
  BY Tables DEF FixRules
<1>16. IsTable(FixRules["egress"])
  BY Tables DEF FixRules
<1>17. IsTable(FixRules["runtime"])
  BY Tables DEF FixRules
<1>18. CASE cat \in DOMAIN FixRules
  BY <1>0, <1>1, <1>2, <1>3, <1>4, <1>5, <1>6, <1>7, <1>8, <1>9, <1>10, <1>11, <1>12, <1>13, <1>14, <1>15, <1>16, <1>17, <1>18 DEF RulesFor
<1> QED
  BY <1>18, Tables DEF RulesFor

\* A boosted confidence is a number.
LEMMA AdjustedIsRated ==
  ASSUME NEW base \in Nat, NEW class, NEW symptoms
  PROVE  AdjustConfidence(base, class, symptoms) \in Nat
<1>0. PICK boosts : boosts = BoostsFor(class) /\ IsTable(boosts)
  BY BoostsAreTables
<1>1. PICK N \in Nat : DOMAIN boosts = 1 .. N /\ \A k \in 1 .. N : boosts[k][2] \in Nat
  BY <1>0 DEF IsTable
<1> DEFINE s == [k \in DOMAIN boosts |-> IF boosts[k][1] \in symptoms THEN boosts[k][2] ELSE 0]
<1>2. s \in Seq(Nat)
  BY <1>1
<1>3. AdjustConfidence(base, class, symptoms)
        = IF base + SumOf(s) > 100 THEN 100 ELSE base + SumOf(s)
  BY <1>0 DEF AdjustConfidence
<1> HIDE DEF s
<1>4. SumOf(s) \in Nat
  BY <1>2, SumOfNat
<1> QED
  BY <1>3, <1>4


\* A list of candidates that can be compared.
IsRatedList(l) == IsList(l) /\ Rated(ToSet(l))

LEMMA FaultCandidatesRated ==
  ASSUME NEW fault, NEW exp, NEW symptoms
  PROVE  IsRatedList(FaultCandidates(fault, exp, symptoms))
<1>1. PICK rules : rules = RulesFor(CategoryOf(fault)) /\ IsTable(rules)
  BY RulesAreTables
<1>2. PICK N \in Nat : DOMAIN rules = 1 .. N /\ \A k \in 1 .. N : rules[k][2] \in Nat
  BY <1>1 DEF IsTable
<1> DEFINE h(k) == Hypothesis(rules[k][1], AdjustConfidence(rules[k][2], rules[k][1], symptoms),
                              {}, Summary(CategoryOf(fault), fault, exp))
<1>3. \A k \in 1 .. N : h(k).confidence \in Nat
  BY <1>2, AdjustedIsRated DEF Hypothesis
<1>4. FaultCandidates(fault, exp, symptoms) = [k \in 1 .. N |-> h(k)]
  BY <1>1, <1>2 DEF FaultCandidates
<1> HIDE DEF h
<1> QED
  BY <1>3, <1>4 DEF IsRatedList, IsList, Rated, ToSet

\* A list of rated lists, flattened, is a rated list.
LEMMA FlattenRated ==
  ASSUME NEW n \in Nat, NEW parts, DOMAIN parts = 1 .. n, parts = [i \in 1 .. n |-> parts[i]],
         \A i \in 1 .. n : IsRatedList(parts[i])
  PROVE  /\ IsRatedList(FlattenSeq(parts))
         /\ ToSet(FlattenSeq(parts)) = UNION {ToSet(parts[i]) : i \in 1 .. n}
<1> DEFINE S == UNION {ToSet(parts[i]) : i \in 1 .. n}
<1>1. \A i \in 1 .. n : parts[i] \in Seq(S)
  <2> TAKE i \in 1 .. n
  <2>1. parts[i] \in Seq(ToSet(parts[i])) /\ ToSet(parts[i]) \subseteq S
    BY DEF IsRatedList, IsList
  <2> HIDE DEF S
  <2> QED
    BY <2>1
<1>2. Rated(S)
  BY DEF IsRatedList, Rated
<1> HIDE DEF S
<1>3. parts \in Seq(Seq(S))
  BY <1>1
<1>4. FlattenSeq(parts) \in Seq(S) /\ ToSet(FlattenSeq(parts)) = UNION {ToSet(parts[i]) : i \in DOMAIN parts}
  BY <1>3, FlattenRange
<1>5. ToSet(FlattenSeq(parts)) = S
  BY <1>4 DEF S
<1> QED
  BY <1>2, <1>4, <1>5 DEF IsRatedList, IsList, S

LEMMA StaticCandidatesRated ==
  ASSUME NEW exp, NEW events, IsList(events), NEW symptoms
  PROVE  LET l == StaticCandidates(exp, events, symptoms) IN IsRatedList(l) /\ l # <<>>
<1>1. PICK n \in Nat : DOMAIN events = 1 .. n
  BY DEF IsList
<1> DEFINE part(i) == IF FirstOfFault(events, i)
                      THEN FaultCandidates(events[i].fault,
                             IF HasDetail(events, events[i].fault) THEN exp ELSE 0, symptoms)
                      ELSE <<>>
           parts == [i \in DOMAIN events |-> part(i)]
           none == Hypothesis("working-as-intended", 10, {}, Summary("no rule", "", 0))
<1>2. IsRatedList(<<>>)
  BY DEF IsRatedList, IsList, Rated, ToSet
<1>3. \A i \in 1 .. n : IsRatedList(part(i))
  BY <1>2, FaultCandidatesRated
<1>4. IsRatedList(<<none>>) /\ <<none>> # <<>>
  <2>1. none.confidence \in Int
    BY DEF Hypothesis
  <2> HIDE DEF none
  <2>2. DOMAIN <<none>> = 1 .. 1 /\ <<none>> \in Seq({none}) /\ <<none>>[1] = none
    OBVIOUS
  <2>3. ToSet(<<none>>) = {none}
    BY <2>2 DEF ToSet
  <2> QED
    BY <2>1, <2>2, <2>3 DEF IsRatedList, IsList, Rated
<1>5. StaticCandidates(exp, events, symptoms)
        = IF FlattenSeq(parts) = <<>> THEN <<none>> ELSE FlattenSeq(parts)
  BY DEF StaticCandidates
<1>6. DOMAIN parts = 1 .. n /\ parts = [i \in 1 .. n |-> parts[i]] /\ \A i \in 1 .. n : parts[i] = part(i)
  BY <1>1
<1> HIDE DEF part, parts, none
<1>7. IsRatedList(FlattenSeq(parts))
  BY <1>3, <1>6, FlattenRated
<1> QED
  BY <1>4, <1>5, <1>7

LEMMA ParsedRated ==
  ASSUME NEW answer, answer.form = "prose" \/ IsList(answer.items)
  PROVE  IsRatedList(ParseHypotheses(answer))
<1>1. CASE answer.form = "prose"
  BY <1>1 DEF ParseHypotheses, IsRatedList, IsList, Rated, ToSet
<1>2. CASE answer.form # "prose"
  <2> DEFINE valid == {h \in ToSet(answer.items) : /\ h.fix_class \in FixClasses
                                                   /\ h.confidence \in 0 .. 100}
  <2>1. ParseHypotheses(answer) = Only(answer.items, valid)
    BY <1>2 DEF ParseHypotheses
  <2>2. Rated(valid) /\ ToSet(answer.items) \intersect valid = valid
    BY DEF Rated
  <2> HIDE DEF valid
  <2>3. Only(answer.items, valid) \in Seq(valid) /\ ToSet(Only(answer.items, valid)) = valid
    BY <1>2, <2>2, OnlyRange
  <2> QED
    BY <2>1, <2>2, <2>3 DEF IsRatedList, IsList
<1> QED
  BY <1>1, <1>2

-----------------------------------------------------------------------------
(* The diagnostician's report. *)

\* What ReportKeepsBest says of a report and the candidates it was made from.
KeepsBest(hyps, cands) ==
    \A n \in DOMAIN cands :
        /\ hyps[1].confidence >= cands[n].confidence
        /\ \/ \E i \in DOMAIN hyps : /\ hyps[i].fix_class = cands[n].fix_class
                                     /\ hyps[i].confidence >= cands[n].confidence
           \/ Cardinality(AtLeast(cands, cands[n].confidence)) > MaxHypotheses

\* Ranking a list once more keeps what it kept.
LEMMA RankedKeeps ==
  ASSUME NEW S, Rated(S), NEW l \in Seq(S), l # <<>>, NEW cands, KeepsBest(l, cands),
         \A n \in DOMAIN cands : cands[n].confidence \in Int
  PROVE  KeepsBest(Report(l), cands)
<1>1. PICK r : r = Ranked(l) /\ Report(l) = r
  BY DEF Report
<1>2. /\ r \in Seq(S) /\ Len(r) = Len(l) /\ 1 \in DOMAIN l /\ DOMAIN r = DOMAIN l
      /\ \A k \in DOMAIN l : \E p \in DOMAIN l : r[p] = l[k]
      /\ \A p, q \in DOMAIN l : p < q => r[p].confidence >= r[q].confidence
  BY SMTT(60), <1>1, RankedSorts
<1>3. \A k \in DOMAIN l : l[k].confidence \in Int /\ r[k].confidence \in Int
  BY <1>2 DEF Rated
<1>4. r[1].confidence >= l[1].confidence
  <2>1. PICK p \in DOMAIN l : r[p] = l[1]
    BY <1>2
  <2>2. p = 1 \/ 1 < p
    OBVIOUS
  <2> QED
    BY SMTT(60), <1>2, <1>3, <2>1, <2>2
<1>5. ASSUME NEW n \in DOMAIN cands
      PROVE  r[1].confidence >= cands[n].confidence
  BY <1>2, <1>3, <1>4, <1>5 DEF KeepsBest
<1>6. ASSUME NEW n \in DOMAIN cands, NEW i \in DOMAIN l, l[i].fix_class = cands[n].fix_class,
             l[i].confidence >= cands[n].confidence
      PROVE  \E p \in DOMAIN r : /\ r[p].fix_class = cands[n].fix_class
                                 /\ r[p].confidence >= cands[n].confidence
  BY ZenonT(60), <1>2, <1>6
<1> QED
  BY <1>1, <1>5, <1>6 DEF KeepsBest

\* A list that was only ranked and cut.
LEMMA CutReport ==
  ASSUME NEW l, IsRatedList(l), l # <<>>
  PROVE  LET r == Cut(Ranked(l), MaxHypotheses)
         IN  r \in Seq(ToSet(l)) /\ r # <<>> /\ Picks(r, l) /\ KeepsBest(r, l)
<1> DEFINE r == Cut(Ranked(l), MaxHypotheses)
<1>1. /\ r \in Seq(ToSet(l)) /\ r # <<>> /\ Picks(r, l)
      /\ \A k \in DOMAIN l : r[1].confidence >= l[k].confidence
      /\ \A k \in DOMAIN l : \/ \E i \in DOMAIN r : r[i] = l[k]
                             \/ Cardinality(AtLeast(l, l[k].confidence)) > MaxHypotheses
  BY CutKeepsBest, MaxHypothesesAssumption DEF IsRatedList, IsList
<1>2. \A k \in DOMAIN l : l[k].confidence \in Int
  BY DEF IsRatedList, Rated, ToSet
<1> HIDE DEF r
<1>3. KeepsBest(r, l)
  BY <1>1, <1>2 DEF KeepsBest
<1> QED
  BY <1>1, <1>3 DEF r

LEMMA EmptyConcat ==
  ASSUME NEW l, IsList(l)
  PROVE  <<>> \o l = l /\ l \o <<>> = l
BY DEF IsList

LEMMA StaticReport ==
  ASSUME NEW r, IsList(r.events)
  PROVE  LET l == StaticCandidates(r.exp, r.events, r.symptoms)
         IN  KeepsBest(Report(StaticDiagnosis(r)), l)
<1>1. PICK l : l = StaticCandidates(r.exp, r.events, r.symptoms) /\ IsRatedList(l) /\ l # <<>>
  BY StaticCandidatesRated
<1>2. PICK s : /\ s = StaticDiagnosis(r) /\ s \in Seq(ToSet(l)) /\ s # <<>> /\ KeepsBest(s, l)
  BY <1>1, CutReport DEF StaticDiagnosis
<1>3. \A n \in DOMAIN l : l[n].confidence \in Int
  BY <1>1 DEF IsRatedList, Rated, ToSet
<1> QED
  BY <1>1, <1>2, <1>3, RankedKeeps DEF IsRatedList

LEMMA LlmReport ==
  ASSUME NEW l, IsRatedList(l)
  PROVE  KeepsBest(Report(l), l)
<1>1. CASE l = <<>>
  BY <1>1 DEF KeepsBest
<1>2. CASE l # <<>>
  <2>1. PICK r : r = Ranked(l) /\ Report(l) = r
    BY <1>2 DEF Report
  <2>2. /\ 1 \in DOMAIN l /\ DOMAIN r = DOMAIN l
        /\ \A k \in DOMAIN l : \E p \in DOMAIN l : r[p] = l[k]
        /\ \A p, q \in DOMAIN l : p < q => r[p].confidence >= r[q].confidence
    BY SMTT(60), <1>2, <2>1, RankedSorts DEF IsRatedList, IsList
  <2>3. \A k \in DOMAIN l : l[k].confidence \in Int
    BY DEF IsRatedList, Rated, ToSet
  <2>4. ASSUME NEW n \in DOMAIN l
        PROVE  \E p \in DOMAIN l : r[p] = l[n] /\ r[1].confidence >= r[p].confidence
    <3>1. PICK p \in DOMAIN l : r[p] = l[n]
      BY <2>2
    <3>2. r[p].confidence \in Int
      BY <2>3, <3>1
    <3>3. p = 1 \/ 1 < p
      <4>1. PICK N \in Nat : DOMAIN l = 1 .. N
        BY DEF IsRatedList, IsList
      <4>2. p \in 1 .. N
        BY <4>1
      <4> QED
        BY <4>2
    <3> QED
      BY <2>2, <3>1, <3>2, <3>3
  <2>5. ASSUME NEW n \in DOMAIN l
        PROVE  /\ r[1].confidence >= l[n].confidence
               /\ \E i \in DOMAIN r : /\ r[i].fix_class = l[n].fix_class
                                      /\ r[i].confidence >= l[n].confidence
    <3>1. PICK p \in DOMAIN l : r[p] = l[n] /\ r[1].confidence >= r[p].confidence
      BY <2>4
    <3> QED
      BY <2>2, <2>3, <3>1
  <2> QED
    BY <2>1, <2>5 DEF KeepsBest
<1> QED
  BY <1>1, <1>2

\* Fewer candidates are as confident as more.
LEMMA AtLeastFewer ==
  ASSUME NEW S, Rated(S), NEW l \in Seq(S), NEW t \in Int, NEW u \in Int, t >= u
  PROVE  /\ Cardinality(AtLeast(l, t)) \in Nat /\ Cardinality(AtLeast(l, u)) \in Nat
         /\ Cardinality(AtLeast(l, t)) <= Cardinality(AtLeast(l, u))
<1>1. PICK n \in Nat : DOMAIN l = 1 .. n /\ \A i \in 1 .. n : l[i].confidence \in Int
  BY DEF Rated
<1>2. AtLeast(l, t) \subseteq AtLeast(l, u) /\ AtLeast(l, u) \subseteq 1 .. n
  BY <1>1 DEF AtLeast
<1>3. IsFiniteSet(1 .. n)
  BY FS_Interval
<1>4. IsFiniteSet(AtLeast(l, u)) /\ IsFiniteSet(AtLeast(l, t))
  BY <1>2, <1>3, FS_Subset
<1> QED
  BY <1>2, <1>4, FS_Subset, FS_CardinalityType

\* A list is made of the first entries of a longer one.
LEMMA PicksFirst ==
  ASSUME NEW S, NEW l \in Seq(S), NEW b \in Seq(S)
  PROVE  Picks(l, l \o b)
<1> DEFINE o == [i \in DOMAIN l |-> i]
<1>1. o \in [DOMAIN l -> DOMAIN (l \o b)] /\ \A i \in DOMAIN l : l[i] = (l \o b)[o[i]]
  OBVIOUS
<1>2. \A i, j \in DOMAIN l : o[i] = o[j] => i = j
  OBVIOUS
<1> QED
  BY <1>1, <1>2 DEF Picks

\* One of the merged list's entries speaks for a candidate, or max_hypotheses
\* others displaced it.
Heard(d, cands, c) ==
    /\ d[1].confidence >= c.confidence
    /\ \/ \E i \in DOMAIN d : d[i].fix_class = c.fix_class /\ d[i].confidence >= c.confidence
       \/ Cardinality(AtLeast(cands, c.confidence)) > MaxHypotheses

\* The entry that covers another is heard for it.
LEMMA HeardFor ==
  ASSUME NEW S, Rated(S), NEW cands \in Seq(S), NEW d \in Seq(S), d # <<>>, NEW y \in S, NEW c \in S,
         Heard(d, cands, y), y.fix_class = c.fix_class, y.confidence >= c.confidence
  PROVE  Heard(d, cands, c)
<1>1. y.confidence \in Int /\ c.confidence \in Int /\ d[1].confidence \in Int
      /\ \A i \in DOMAIN d : d[i].confidence \in Int
  BY DEF Rated
<1>2. /\ Cardinality(AtLeast(cands, y.confidence)) \in Nat
      /\ Cardinality(AtLeast(cands, c.confidence)) \in Nat
      /\ Cardinality(AtLeast(cands, y.confidence)) <= Cardinality(AtLeast(cands, c.confidence))
  BY <1>1, AtLeastFewer
<1>3. MaxHypotheses \in Nat
  BY MaxHypothesesAssumption
<1> QED
  BY <1>1, <1>2, <1>3 DEF Heard

\* The static list, cut, and the model's, merged, ranked and cut again.
LEMMA MergedReport ==
  ASSUME NEW l, IsRatedList(l), l # <<>>, NEW b, IsRatedList(b), NEW s, NEW d,
         s = Cut(Ranked(l), MaxHypotheses), d = Cut(MergeHypotheses(s, b), MaxHypotheses)
  PROVE  KeepsBest(Report(d), l \o b)
<1> DEFINE U == ToSet(l) \union ToSet(b)
           kind == [h \in U |-> h.fix_class]
           dup == Duplicates(s, b)
           m == Merged(s, b, dup)
           cands == l \o b
<1>1. Rated(U) /\ l \in Seq(U) /\ b \in Seq(U)
  <2>1. Rated(U)
    BY DEF IsRatedList, Rated
  <2>2. l \in Seq(ToSet(l)) /\ b \in Seq(ToSet(b)) /\ ToSet(l) \subseteq U /\ ToSet(b) \subseteq U
    BY DEF IsRatedList, IsList
  <2> HIDE DEF U
  <2> QED
    BY <2>1, <2>2
<1>2. s \in Seq(ToSet(l)) /\ s # <<>> /\ Picks(s, l) /\ KeepsBest(s, l)
  BY CutReport
<1>3. s \in Seq(U)
  <2>1. ToSet(l) \subseteq U
    OBVIOUS
  <2> HIDE DEF U
  <2> QED
    BY <1>2, <2>1
<1>4. OfAKind(U, kind, dup)
  <2>1. \A x, y \in U : <<x, y>> \in dup => x.fix_class = y.fix_class
    BY DEF Duplicates
  <2>2. \A x \in U : kind[x] = x.fix_class
    OBVIOUS
  <2> HIDE DEF U, kind, dup
  <2> QED
    BY <2>1, <2>2 DEF OfAKind
<1>5. \A x, y \in U : Covers(kind, x, y) => x.fix_class = y.fix_class /\ x.confidence >= y.confidence
  BY DEF Covers
<1>6. d = Cut(Ranked(m), MaxHypotheses)
  BY DEF MergeHypotheses
<1> HIDE DEF U, kind, dup
<1>7. s \o b \in Seq(U) /\ cands \in Seq(U)
  BY <1>1, <1>3
<1>8. /\ m \in Seq(U) /\ Picks(m, s \o b)
      /\ \A k \in DOMAIN (s \o b) : \E i \in DOMAIN m : Covers(kind, m[i], (s \o b)[k])
  BY <1>1, <1>4, <1>7, MergeKeeps
<1> HIDE DEF m
<1>9. Picks(m, cands)
  <2>1. Picks(s \o b, l \o b)
    BY <1>1, <1>2, <1>3, PicksConcat
  <2> QED
    BY <1>8, <2>1, PicksTrans
<1>10. /\ DOMAIN s \subseteq DOMAIN (s \o b) /\ 1 \in DOMAIN s
       /\ \A j \in DOMAIN s : (s \o b)[j] = s[j]
  BY <1>1, <1>2, <1>3
<1>11. m # <<>>
  BY <1>8, <1>10
<1>12. /\ d \in Seq(U) /\ d # <<>>
       /\ \A k \in DOMAIN m : d[1].confidence >= m[k].confidence
       /\ \A k \in DOMAIN m : \/ \E i \in DOMAIN d : d[i] = m[k]
                              \/ Cardinality(AtLeast(m, m[k].confidence)) > MaxHypotheses
  BY <1>1, <1>6, <1>8, <1>11, CutKeepsBest, MaxHypothesesAssumption
<1>13. \A k \in DOMAIN m : m[k] \in U /\ m[k].confidence \in Int
  BY <1>1, <1>8 DEF Rated
<1> HIDE DEF cands
<1>14. \A k \in DOMAIN m : Heard(d, cands, m[k])
  <2> TAKE k \in DOMAIN m
  <2>1. /\ Cardinality(AtLeast(m, m[k].confidence)) \in Nat
        /\ Cardinality(AtLeast(cands, m[k].confidence)) \in Nat
        /\ Cardinality(AtLeast(m, m[k].confidence)) <= Cardinality(AtLeast(cands, m[k].confidence))
    BY <1>7, <1>8, <1>9, PicksCount
  <2> QED
    BY <1>12, <1>13, <2>1, MaxHypothesesAssumption DEF Heard
<1>15. \A k \in DOMAIN (s \o b) : Heard(d, cands, (s \o b)[k])
  <2> TAKE k \in DOMAIN (s \o b)
  <2>1. PICK i \in DOMAIN m : Covers(kind, m[i], (s \o b)[k])
    BY <1>8
  <2>2. (s \o b)[k] \in U
    BY <1>7
  <2> QED
    BY <1>1, <1>5, <1>7, <1>12, <1>13, <1>14, <2>1, <2>2, HeardFor
<1>16. \A j \in DOMAIN s : Heard(d, cands, s[j]) /\ s[j] \in U
  BY <1>3, <1>10, <1>15
<1>17. \A n \in DOMAIN l : Heard(d, cands, l[n])
  <2> TAKE n \in DOMAIN l
  <2>1. l[n] \in U
    BY <1>1
  <2>2. CASE \E i \in DOMAIN s : s[i].fix_class = l[n].fix_class /\ s[i].confidence >= l[n].confidence
    BY <1>1, <1>7, <1>12, <1>16, <2>1, <2>2, HeardFor
  <2>3. CASE Cardinality(AtLeast(l, l[n].confidence)) > MaxHypotheses
    <3>1. /\ Cardinality(AtLeast(l, l[n].confidence)) \in Nat
          /\ Cardinality(AtLeast(cands, l[n].confidence)) \in Nat
          /\ Cardinality(AtLeast(l, l[n].confidence)) <= Cardinality(AtLeast(cands, l[n].confidence))
      BY <1>1, <1>7, PicksFirst, PicksCount DEF cands
    <3>2. d[1].confidence >= s[1].confidence /\ s[1].confidence >= l[n].confidence
      BY <1>2, <1>10, <1>16 DEF Heard, KeepsBest
    <3>3. d[1].confidence \in Int /\ s[1].confidence \in Int /\ l[n].confidence \in Int
      BY <1>1, <1>12, <1>10, <1>16, <2>1 DEF Rated
    <3> QED
      BY <2>3, <3>1, <3>2, <3>3, MaxHypothesesAssumption DEF Heard
  <2> QED
    BY <1>2, <2>2, <2>3 DEF KeepsBest
<1>18. \A n \in DOMAIN cands : Heard(d, cands, cands[n])
  <2> TAKE n \in DOMAIN cands
  <2>1. CASE n \in DOMAIN l
    <3>1. cands[n] = l[n]
      BY <1>1, <2>1 DEF cands
    <3> QED
      BY <1>17, <2>1, <3>1
  <2>2. CASE n \notin DOMAIN l
    <3>1. n - Len(l) \in DOMAIN b /\ cands[n] = b[n - Len(l)]
      BY <1>1, <2>2 DEF cands
    <3>2. /\ Len(s) + (n - Len(l)) \in DOMAIN (s \o b)
          /\ (s \o b)[Len(s) + (n - Len(l))] = b[n - Len(l)]
      BY <1>1, <1>3, <3>1
    <3> QED
      BY <1>15, <3>1, <3>2
  <2> QED
    BY <2>1, <2>2
<1>19. KeepsBest(d, cands)
  BY <1>18 DEF Heard, KeepsBest
<1>20. \A n \in DOMAIN cands : cands[n].confidence \in Int
  BY <1>1, <1>7 DEF Rated
<1> QED
  BY <1>1, <1>12, <1>19, <1>20, RankedKeeps DEF cands

\* Whatever the profile, the report keeps the best candidates.
LEMMA ReportBest ==
  ASSUME NEW r, IsList(r.events), r.profile \in {"static", "llm", "hybrid"},
         r.profile # "static" => r.answer \in LlmAnswers,
         r.profile = "llm" => ~Raises(r.answer)
  PROVE  KeepsBest(Report(Diagnosis(r)), Candidates(r))
<1>1. PICK l : l = StaticCandidates(r.exp, r.events, r.symptoms) /\ IsRatedList(l) /\ l # <<>>
  BY StaticCandidatesRated
<1>2. KeepsBest(Report(StaticDiagnosis(r)), l) /\ l \o <<>> = l
  BY <1>1, StaticReport, EmptyConcat DEF IsRatedList
<1>3. CASE r.profile = "static"
  <2>1. Diagnosis(r) = StaticDiagnosis(r)
    BY <1>3 DEF Diagnosis
  <2>2. Candidates(r) = l \o <<>>
    BY <1>1, <1>3 DEF Candidates
  <2> QED
    BY <1>2, <2>1, <2>2
<1>4. CASE r.profile = "hybrid" /\ Raises(r.answer)
  <2>1. Diagnosis(r) = StaticDiagnosis(r)
    BY <1>4 DEF Diagnosis
  <2>2. Candidates(r) = l \o <<>>
    BY <1>1, <1>4 DEF Candidates
  <2> QED
    BY <1>2, <2>1, <2>2
<1>5. ASSUME r.profile # "static", ~Raises(r.answer)
      PROVE  IsRatedList(ParseHypotheses(r.answer))
  <2>1. r.answer.form = "prose" \/ IsList(r.answer.items)
    BY <1>5, AnswersAssumption DEF Raises, IsList
  <2> QED
    BY <2>1, ParsedRated
<1>6. CASE r.profile = "hybrid" /\ ~Raises(r.answer)
  <2>1. PICK b : b = ParseHypotheses(r.answer) /\ IsRatedList(b)
    BY <1>5, <1>6
  <2>2. Diagnosis(r) = Cut(MergeHypotheses(StaticDiagnosis(r), b), MaxHypotheses)
    BY <1>6, <2>1 DEF Diagnosis
  <2>3. StaticDiagnosis(r) = Cut(Ranked(l), MaxHypotheses)
    BY <1>1 DEF StaticDiagnosis
  <2>4. Candidates(r) = l \o b
    BY <1>1, <1>6, <2>1 DEF Candidates
  <2> QED
    BY <1>1, <2>1, <2>2, <2>3, <2>4, MergedReport
<1>7. CASE r.profile = "llm"
  <2>1. PICK b : b = ParseHypotheses(r.answer) /\ IsRatedList(b)
    BY <1>5, <1>7
  <2>2. Diagnosis(r) = b
    BY <1>7, <2>1 DEF Diagnosis
  <2>3. Candidates(r) = <<>> \o b /\ <<>> \o b = b
    BY <1>7, <2>1, EmptyConcat DEF Candidates, IsRatedList
  <2> QED
    BY <2>1, <2>2, <2>3, LlmReport
<1> QED
  BY <1>3, <1>4, <1>6, <1>7

-----------------------------------------------------------------------------
(* The report stands until the next run. *)

BestInv ==
    /\ run.profile \in {"static", "llm", "hybrid"} /\ IsList(run.events)
    /\ run.why = "llm" => run.profile = "llm"
    /\ pc \in {"tag", "fix"} => KeepsBest(hypotheses, Candidates(run))

LEMMA BestMeans == BestInv => ReportKeepsBest
BY DEF BestInv, ReportKeepsBest, KeepsBest, AtLeast

LEMMA BestInit == Init => BestInv
<1> SUFFICES ASSUME Init PROVE BestInv
  OBVIOUS
<1>1. pc = "idle" /\ run.profile = "static" /\ run.events = <<>> /\ run.why = "nothing"
  BY DEF Init, NewRun
<1> QED
  BY <1>1, EmptyList DEF BestInv

\* What a step may change of the run without touching the report.
LEMMA BestUntouched ==
  ASSUME BestInv, UNCHANGED hypotheses, pc' \in {"tag", "fix"} => pc \in {"tag", "fix"},
         run'.exp = run.exp, run'.profile = run.profile, run'.events = run.events,
         run'.symptoms = run.symptoms, run'.answer = run.answer,
         run'.why = run.why \/ run.profile = "llm" \/ run'.why # "llm"
  PROVE  BestInv'
<1>1. Candidates(run)' = Candidates(run)
  BY DEF Candidates
<1> QED
  BY <1>1 DEF BestInv

LEMMA RunUntouchedBest == BestInv /\ UNCHANGED runVars => BestInv'
BY BestUntouched DEF runVars

LEMMA BestStep == MuteInv /\ BestInv /\ [Next]_vars => BestInv'
<1> SUFFICES ASSUME MuteInv, BestInv, [Next]_vars PROVE BestInv'
  OBVIOUS
<1>1. CASE UNCHANGED runVars
  BY <1>1, RunUntouchedBest
<1>2. CASE Regress
  <2>1. PICK g \in Regressions :
          run' = [NewRun EXCEPT !.exp = run.exp + 1, !.profile = g.profile, !.code = g.code,
                               !.events = g.events, !.symptoms = g.symptoms, !.plan = g.plan]
    BY Zenon, <1>2 DEF Regress
  <2>2. pc' = "diagnose" /\ run'.profile = g.profile /\ run'.events = g.events /\ run'.why = "nothing"
    BY <1>2, <2>1 DEF Regress, NewRun
  <2> QED
    BY <2>2, EventsAssumption DEF BestInv, IsList
<1>3. CASE Diagnose
  <2>1. PICK a : /\ a \in IF run.profile = "static" THEN {run.answer} ELSE LlmAnswers
                 /\ IF run.profile = "llm" /\ Raises(a)
                    THEN Raise("llm") /\ UNCHANGED hypotheses
                    ELSE /\ pc' = "tag" /\ run' = [run EXCEPT !.answer = a]
                         /\ hypotheses' = Report(Diagnosis(run'))
    BY <1>3 DEF Diagnose
  <2>2. CASE run.profile = "llm" /\ Raises(a)
    <3>1. pc' = "raised" /\ run'.profile = run.profile /\ run'.events = run.events
      BY <2>1, <2>2 DEF Raise, MuteInv, RunInv
    <3> QED
      BY <2>2, <3>1 DEF BestInv
  <2>3. CASE ~(run.profile = "llm" /\ Raises(a))
    <3>1. /\ run'.profile = run.profile /\ run'.events = run.events /\ run'.answer = a
          /\ run'.why = run.why
      BY <2>1, <2>3 DEF MuteInv, RunInv
    <3>2. KeepsBest(Report(Diagnosis(run')), Candidates(run'))
      BY <2>1, <2>3, <3>1, ReportBest DEF BestInv
    <3> QED
      BY <2>1, <2>3, <3>1, <3>2 DEF BestInv
  <2> QED
    BY <2>2, <2>3
<1>4. CASE Tag
  <2>1. \/ Raise("rules")
        \/ run' = [run EXCEPT !.now = now, !.known = committed, !.rules = Load(file) \o run.plan,
                              !.sure = ~disturbed /\ ~\E o \in Operators : Writing(o)]
    BY <1>4 DEF Tag, Writing
  <2>2. /\ run'.exp = run.exp /\ run'.profile = run.profile /\ run'.events = run.events
        /\ run'.symptoms = run.symptoms /\ run'.answer = run.answer
        /\ run'.why \in {run.why, "rules"}
    BY <2>1 DEF Raise, MuteInv, RunInv
  <2>3. pc = "tag" /\ UNCHANGED hypotheses
    BY <1>4 DEF Tag
  <2> QED
    BY <2>2, <2>3, BestUntouched
<1>5. CASE ProposeNoPatch
  <2>1. UNCHANGED hypotheses /\ ((pc' = "proposed" /\ UNCHANGED run) \/ Raise("disk"))
    BY <1>5 DEF ProposeNoPatch, Propose
  <2> QED
    BY <2>1, BestUntouched DEF Raise, MuteInv, RunInv
<1>6. CASE ProposePatch
  <2>1. /\ UNCHANGED hypotheses
        /\ (pc' = "proposed" /\ UNCHANGED run) \/ (run.profile = "llm" /\ Raise("llm"))
    BY <1>6, Zenon DEF ProposePatch, Finish, Propose
  <2> QED
    BY <2>1, BestUntouched DEF Raise, MuteInv, RunInv
<1>7. ASSUME NEW o \in Operators, AddRead(o) \/ AddOpen(o) \/ AddWrite(o) \/ AddKilled(o)
      PROVE  UNCHANGED runVars
  BY <1>7 DEF AddRead, AddOpen, AddWrite, AddKilled
<1> QED
  BY <1>1, <1>2, <1>3, <1>4, <1>5, <1>6, <1>7 DEF Next, vars, Hypothesize, Tick

\* The report's first hypothesis, which the fixer reads, is the most confident
\* candidate, and a candidate is left out only for one of its fix class or for
\* max_hypotheses others that are as confident - for every diagnosis of any
\* number of events, rules and answers, through the three sorts, the merge
\* and the two cuts (diagnoser.py StaticDiagnoser.diagnose,
\* HybridDiagnoser.diagnose, _merge_hypotheses).
THEOREM ReportIsBest == Spec => []ReportKeepsBest
BY BestInit, BestStep, BestMeans, MuteInvariant, PTL DEF Spec

-----------------------------------------------------------------------------
(* What "chaos hypothesize" proposes. *)

\* A fault of a group is in the catalogue.
LEMMA CatalogueOf ==
  ASSUME NEW g \in Groups, NEW cat \in DOMAIN g, NEW fault \in g[cat]
  PROVE  fault \in Catalogue
<1>1. cat \in FaultCategory
  BY DEF FaultCategory
<1>2. fault \in FaultsOf(cat)
  BY DEF FaultsOf
<1> QED
  BY <1>1, <1>2 DEF Catalogue

\* The detectors' faults are known.
LEMMA DetectorsKnown ==
  /\ DOMAIN DetectorConfig = 1 .. 8
  /\ \A d \in 1 .. 8 : DetectorConfig[d][2] \in Catalogue /\ DetectorConfig[d][3] \in Int
<1>1. ResilienceFaults \in Groups /\ SecurityFaults \in Groups
  BY DEF Groups
<1>2. /\ "network" \in DOMAIN ResilienceFaults /\ "pod" \in DOMAIN ResilienceFaults
      /\ "network.delay" \in ResilienceFaults["network"]
      /\ "network.loss" \in ResilienceFaults["network"]
      /\ "network.partition" \in ResilienceFaults["network"]
      /\ "pod.kill" \in ResilienceFaults["pod"]
  BY DEF ResilienceFaults
<1>3. "secret" \in DOMAIN SecurityFaults /\ "secret.rotate" \in SecurityFaults["secret"]
  BY DEF SecurityFaults
<1>4. {"network.delay", "network.loss", "network.partition", "pod.kill", "secret.rotate"}
        \subseteq Catalogue
  BY <1>1, <1>2, <1>3, CatalogueOf
<1>5. DOMAIN DetectorConfig = 1 .. 8
  BY DEF DetectorConfig
<1>6. /\ DetectorConfig[1][2] = "network.delay" /\ DetectorConfig[1][3] = 70
      /\ DetectorConfig[2][2] = "network.loss" /\ DetectorConfig[2][3] = 60
      /\ DetectorConfig[3][2] = "network.partition" /\ DetectorConfig[3][3] = 65
      /\ DetectorConfig[4][2] = "pod.kill" /\ DetectorConfig[4][3] = 55
      /\ DetectorConfig[5][2] = "network.delay" /\ DetectorConfig[5][3] = 70
      /\ DetectorConfig[6][2] = "pod.kill" /\ DetectorConfig[6][3] = 85
      /\ DetectorConfig[7][2] = "pod.kill" /\ DetectorConfig[7][3] = 50
      /\ DetectorConfig[8][2] = "secret.rotate" /\ DetectorConfig[8][3] = 40
  BY DEF DetectorConfig
<1>7. \A d \in 1 .. 8 : d \in {1, 2, 3, 4, 5, 6, 7, 8}
  OBVIOUS
<1> QED
  BY <1>4, <1>5, <1>6, <1>7

\* Where the detectors may have matched.
IsIssues(issues) == \A name \in DOMAIN issues : IsList(issues[name])

LEMMA DetectorRated ==
  ASSUME NEW d \in 1 .. 8, NEW issues, IsIssues(issues)
  PROVE  LET l == DetectorHypotheses(d, issues)
         IN  IsRatedList(l) /\ \A h \in ToSet(l) : h.fault \in Catalogue
<1>1. PICK at : /\ at = IF DetectorConfig[d][1] \in DOMAIN issues
                        THEN issues[DetectorConfig[d][1]] ELSE <<>>
                /\ IsList(at)
  BY EmptyList DEF IsIssues
<1>2. PICK n \in Nat : DOMAIN at = 1 .. n
  BY <1>1 DEF IsList
<1>3. PICK fault, conf : /\ fault = DetectorConfig[d][2] /\ conf = DetectorConfig[d][3]
                         /\ fault \in Catalogue /\ conf \in Int
  BY DetectorsKnown
<1> DEFINE h(i) == Proposal(fault, conf, {at[i]})
<1>4. DetectorHypotheses(d, issues) = [i \in 1 .. n |-> h(i)]
  BY <1>1, <1>2, <1>3 DEF DetectorHypotheses
<1>5. \A i \in 1 .. n : h(i).confidence \in Int /\ h(i).fault \in Catalogue
  BY <1>3 DEF Proposal
<1> HIDE DEF h
<1> QED
  BY <1>4, <1>5 DEF IsRatedList, IsList, Rated, ToSet

LEMMA StaticHypothesesRated ==
  ASSUME NEW code, NEW issues, IsIssues(issues)
  PROVE  LET l == StaticHypotheses(code, issues)
         IN  IsRatedList(l) /\ \A h \in ToSet(l) : h.fault \in Catalogue
<1> DEFINE parts == [d \in DOMAIN DetectorConfig |-> DetectorHypotheses(d, issues)]
<1>1. /\ DOMAIN parts = 1 .. 8 /\ parts = [d \in 1 .. 8 |-> parts[d]]
      /\ \A d \in 1 .. 8 : parts[d] = DetectorHypotheses(d, issues)
  BY DetectorsKnown
<1>2. StaticHypotheses(code, issues) = IF code THEN FlattenSeq(parts) ELSE <<>>
  BY DEF StaticHypotheses
<1> HIDE DEF parts
<1>3. \A d \in 1 .. 8 : IsRatedList(parts[d]) /\ \A h \in ToSet(parts[d]) : h.fault \in Catalogue
  BY <1>1, DetectorRated
<1>4. /\ IsRatedList(FlattenSeq(parts))
      /\ ToSet(FlattenSeq(parts)) = UNION {ToSet(parts[d]) : d \in 1 .. 8}
  BY ZenonT(60), <1>1, <1>3, FlattenRated
<1>5. IsRatedList(<<>>) /\ ToSet(<<>>) = {}
  BY DEF IsRatedList, IsList, Rated, ToSet
<1> QED
  BY <1>2, <1>3, <1>4, <1>5

\* What the report makes of a list: the known faults of it are accepted.
LEMMA ReportAccepts ==
  ASSUME NEW raw, IsList(raw), NEW g \in ToSet(raw), g.fault \in Catalogue
  PROVE  g \in ToSet(HypothesizeReport(Outcome(raw)).accepted)
<1> DEFINE known == {h \in ToSet(raw) : h.fault \in Catalogue}
<1>1. HypothesizeReport(Outcome(raw)).accepted = Only(raw, known)
  BY DEF HypothesizeReport, Outcome
<1>2. g \in ToSet(raw) \intersect known
  OBVIOUS
<1> HIDE DEF known
<1> QED
  BY <1>1, <1>2, OnlyRange

\* The merge speaks for every match of a detector.
LEMMA MergeHears ==
  ASSUME NEW static, IsRatedList(static), NEW answer, IsRatedList(answer), NEW h \in ToSet(static)
  PROVE  LET l == MergeFindings(static, answer)
         IN  IsList(l) /\ \E g \in ToSet(l) : g.fault = h.fault /\ g.confidence >= h.confidence
<1> DEFINE U == ToSet(static) \union ToSet(answer)
           kind == [x \in U |-> x.fault]
           dup == SameFinding(static, answer)
           m == Merged(static, answer, dup)
           l == Ranked(m)
<1>1. Rated(U) /\ static \in Seq(U) /\ answer \in Seq(U)
  <2>1. Rated(U)
    BY DEF IsRatedList, Rated
  <2>2. /\ static \in Seq(ToSet(static)) /\ answer \in Seq(ToSet(answer))
        /\ ToSet(static) \subseteq U /\ ToSet(answer) \subseteq U
    BY DEF IsRatedList, IsList
  <2> HIDE DEF U
  <2> QED
    BY <2>1, <2>2
<1>2. OfAKind(U, kind, dup)
  <2>1. \A x, y \in U : <<x, y>> \in dup => x.fault = y.fault
    BY DEF SameFinding
  <2>2. \A x \in U : kind[x] = x.fault
    OBVIOUS
  <2> HIDE DEF U, kind, dup
  <2> QED
    BY <2>1, <2>2 DEF OfAKind
<1>3. \A x, y \in U : Covers(kind, x, y) => x.fault = y.fault /\ x.confidence >= y.confidence
  BY DEF Covers
<1>4. MergeFindings(static, answer) = l
  BY DEF MergeFindings
<1> HIDE DEF U, kind, dup
<1>5. static \o answer \in Seq(U)
  BY <1>1
<1>6. /\ m \in Seq(U)
      /\ \A k \in DOMAIN (static \o answer) :
            \E i \in DOMAIN m : Covers(kind, m[i], (static \o answer)[k])
  BY <1>1, <1>2, <1>5, MergeKeeps
<1>7. PICK k \in DOMAIN (static \o answer) : (static \o answer)[k] = h
  BY ConcatKeeps DEF IsRatedList
<1>8. PICK i \in DOMAIN m : Covers(kind, m[i], h)
  BY <1>6, <1>7
<1> HIDE DEF m
<1>9. m[i] \in U /\ h \in U
  BY <1>5, <1>6, <1>7
<1>10. /\ l \in Seq(U) /\ Len(l) = Len(m)
       /\ \A j \in DOMAIN m : \E p \in DOMAIN m : l[p] = m[j]
  BY <1>1, <1>6, RankedSorts
<1> HIDE DEF l
<1>11. PICK p \in DOMAIN l : l[p] = m[i]
  <2>1. DOMAIN l = DOMAIN m
    BY <1>6, <1>10
  <2> QED
    BY <1>10, <2>1
<1>12. IsList(l) /\ m[i] \in ToSet(l)
  BY <1>10, <1>11 DEF IsList, ToSet
<1> QED
  BY <1>3, <1>4, <1>8, <1>9, <1>12

\* A report made for a scenario speaks for every match of its detectors.
LEMMA ReportHears ==
  ASSUME NEW s \in Scenarios, s.profile # "llm",
         NEW h \in ToSet(StaticHypotheses(s.code, s.issues))
  PROVE  \E g \in ToSet(HypothesizeReport(Generate(s.profile, s.code, s.issues, s.answer)).accepted) :
             g.fault = h.fault /\ g.confidence >= h.confidence
<1>1. PICK static : /\ static = StaticHypotheses(s.code, s.issues)
                    /\ IsRatedList(static) /\ \A x \in ToSet(static) : x.fault \in Catalogue
  BY StaticHypothesesRated, ScenariosAssumption DEF IsIssues, IsList
<1>2. h.confidence \in Int /\ h \in ToSet(static) /\ h.fault \in Catalogue
  BY <1>1 DEF IsRatedList, Rated
<1>3. CASE Generate(s.profile, s.code, s.issues, s.answer) = Outcome(static)
  BY <1>1, <1>2, <1>3, ReportAccepts DEF IsRatedList
<1>4. CASE /\ Generate(s.profile, s.code, s.issues, s.answer) = Outcome(MergeFindings(static, s.answer))
           /\ s.answer # None
  <2>1. IsRatedList(s.answer)
    <3>1. IsList(s.answer) /\ \A i \in DOMAIN s.answer : s.answer[i].confidence \in 0 .. 100
      BY <1>4, ScenariosAssumption DEF IsList
    <3>2. \A x \in ToSet(s.answer) : x.confidence \in Int
      BY <3>1 DEF ToSet
    <3> QED
      BY <3>1, <3>2 DEF IsRatedList, Rated
  <2>2. PICK l : /\ l = MergeFindings(static, s.answer) /\ IsList(l)
                 /\ \E g \in ToSet(l) : g.fault = h.fault /\ g.confidence >= h.confidence
    BY <1>1, <1>2, <2>1, MergeHears
  <2>3. PICK g \in ToSet(l) : g.fault = h.fault /\ g.confidence >= h.confidence
    BY <2>2
  <2> QED
    BY <1>2, <1>4, <2>2, <2>3, ReportAccepts
<1> QED
  BY <1>1, <1>3, <1>4, ScenariosAssumption DEF Generate

\* The last report was made for its scenario.
IdeasInv ==
    ideas # None => \E s \in Scenarios :
        ideas = [scenario |-> s,
                 report |-> HypothesizeReport(Generate(s.profile, s.code, s.issues, s.answer))]

LEMMA IdeasMean == IdeasInv => DetectorHeard
<1> SUFFICES ASSUME IdeasInv, ideas # None, ideas.scenario.profile # "llm",
                    NEW h \in ToSet(StaticHypotheses(ideas.scenario.code, ideas.scenario.issues))
             PROVE  \E g \in ToSet(ideas.report.accepted) :
                       g.fault = h.fault /\ g.confidence >= h.confidence
  BY DEF DetectorHeard
<1>1. PICK s \in Scenarios :
        ideas = [scenario |-> s,
                 report |-> HypothesizeReport(Generate(s.profile, s.code, s.issues, s.answer))]
  BY DEF IdeasInv
<1>2. ideas.scenario = s
      /\ ideas.report = HypothesizeReport(Generate(s.profile, s.code, s.issues, s.answer))
  BY <1>1
<1> QED
  BY <1>2, ReportHears

LEMMA IdeasStep == IdeasInv /\ [Next]_vars => IdeasInv'
<1> SUFFICES ASSUME IdeasInv, [Next]_vars PROVE IdeasInv'
  OBVIOUS
<1>1. CASE Hypothesize
  BY <1>1 DEF Hypothesize, IdeasInv
<1>2. CASE Regress
  BY <1>2 DEF Regress, IdeasInv
<1>3. CASE UNCHANGED ideas
  BY <1>3 DEF IdeasInv
<1>4. Diagnose \/ Tag \/ ProposeNoPatch \/ ProposePatch \/ Tick => UNCHANGED ideas
  BY DEF Diagnose, Tag, ProposeNoPatch, ProposePatch, Tick
<1>5. ASSUME NEW o \in Operators, AddRead(o) \/ AddOpen(o) \/ AddWrite(o) \/ AddKilled(o)
      PROVE  UNCHANGED ideas
  BY <1>5 DEF AddRead, AddOpen, AddWrite, AddKilled
<1> QED
  BY <1>1, <1>2, <1>3, <1>4, <1>5 DEF Next, vars

\* What a detector found in the code is proposed, or something as confident
\* about the same fault is, whatever the model answers and however many
\* matches, candidates and duplicates there are (hypothesizer.py
\* HybridHypothesizer.generate, _merge_hypotheses).
THEOREM DetectorsAreHeard == Spec => []DetectorHeard
<1>1. Init => IdeasInv
  BY DEF Init, IdeasInv
<1> QED
  BY <1>1, IdeasStep, IdeasMean, PTL DEF Spec
=============================================================================
