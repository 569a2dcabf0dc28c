------------------------- MODULE SubsequencesProofs -------------------------
(***************************************************************************)
(* Lemmas the proofs of several modules rest on: least numbers, definitions *)
(* by recursion over a sequence, and what the filter Only keeps.  Induction *)
(* is over sets of numbers: the least number that is not in the set would   *)
(* have a predecessor that is.                                              *)
(***************************************************************************)
EXTENDS Subsequences, WellFoundedInduction, TLAPS

(* Every set of numbers that is not empty has a smallest. *)
LEMMA LeastNumber ==
  ASSUME NEW T \in SUBSET Nat, T # {}
  PROVE  \E x \in T : \A y \in T : x <= y
<1>1. PICK x \in T : \A y \in T : ~ (<<y, x>> \in OpToRel(<, Nat))
  BY NatLessThanWellFounded, WFMin
<1> DEFINE less == {ss \in Nat \X Nat : ss[1] < ss[2]}
<1>2. OpToRel(<, Nat) = less
  BY Zenon DEF OpToRel
<1>3. \A y \in T : ~ (<<y, x>> \in less)
  BY <1>1, <1>2, Zenon
<1>4. \A y \in T : x <= y
  <2> SUFFICES ASSUME NEW y \in T PROVE x <= y
    OBVIOUS
  <2>1. <<y, x>> \in Nat \X Nat => ~(y < x)
    BY <1>3
  <2>2. QED
    BY <2>1
<1>5. QED
  BY <1>4

(* Induction over an initial segment of the numbers: a set that holds 0 and  *)
(* with every number the next one holds them all.                            *)
LEMMA SegmentInduction ==
  ASSUME NEW N \in Nat, NEW P, 0 \in P, \A n \in 1..N : n - 1 \in P => n \in P
  PROVE  0..N \subseteq P
<1> DEFINE bad == (0..N) \ P
<1> SUFFICES ASSUME bad # {} PROVE FALSE
  OBVIOUS
<1>1. bad \in SUBSET Nat
  OBVIOUS
<1>2. PICK x \in bad : \A y \in bad : x <= y
  BY <1>1, LeastNumber
<1>3. x # 0 /\ x \in 1..N
  BY <1>2
<1>4. x - 1 \in 0..N /\ ~(x <= x - 1)
  BY <1>3
<1>5. x - 1 \in P
  BY <1>2, <1>4
<1>6. QED
  BY <1>2, <1>3, <1>5

(* A function is defined on 0..N by its value at 0 and a step. *)
Iterates(f, N, A, base, step) ==
  f \in [0..N -> A] /\ f[0] = base /\ \A n \in 1..N : f[n] = step[n][f[n - 1]]

LEMMA Iteration ==
  ASSUME NEW N \in Nat, NEW A, NEW base \in A, NEW step \in [1..N -> [A -> A]]
  PROVE  \E f : Iterates(f, N, A, base, step)
<1> DEFINE Upto(m, f) == f[0] = base /\ \A n \in 1..m : f[n] = step[n][f[n - 1]]
           P == {m \in 0..N : \E f \in [0..m -> A] : Upto(m, f)}
<1>1. 0 \in P
  <2>1. [i \in 0..0 |-> base] \in [0..0 -> A] /\ Upto(0, [i \in 0..0 |-> base])
    OBVIOUS
  <2>2. \E f \in [0..0 -> A] : Upto(0, f)
    BY <2>1, Zenon
  <2>3. QED
    BY <2>2
<1>2. ASSUME NEW m \in 1..N, m - 1 \in P PROVE m \in P
  <2>1. PICK f \in [0..m - 1 -> A] : Upto(m - 1, f)
    BY <1>2
  <2> DEFINE g == [i \in 0..m |-> IF i = m THEN step[m][f[m - 1]] ELSE f[i]]
  <2>2. m - 1 \in 0..m - 1 /\ f[m - 1] \in A
    OBVIOUS
  <2>3. step[m][f[m - 1]] \in A
    BY <2>2
  <2>4. g \in [0..m -> A]
    BY <2>3
  <2>5. g[m] = step[m][g[m - 1]] /\ g[0] = base
    BY <2>1, <2>2
  <2>6. ASSUME NEW n \in 1..m PROVE g[n] = step[n][g[n - 1]]
    <3>1. CASE n = m
      BY <2>5, <3>1
    <3>2. CASE n # m
      <4>1. n \in 1..m - 1 /\ n - 1 \in 0..m - 1 /\ n - 1 # m
        BY <3>2
      <4>2. g[n] = f[n] /\ g[n - 1] = f[n - 1]
        BY <3>2, <4>1
      <4>3. QED
        BY <2>1, <4>1, <4>2
    <3>3. QED
      BY <3>1, <3>2
  <2> HIDE DEF g
  <2>7. QED
    BY <2>4, <2>5, <2>6
<1>3. 0..N \subseteq P
  <2> HIDE DEF P
  <2>1. QED
    BY <1>1, <1>2, SegmentInduction
<1>4. \E f \in [0..N -> A] : Upto(N, f)
  BY <1>3
<1>5. QED
  BY <1>4 DEF Iterates

-----------------------------------------------------------------------------
Sub(s, kept, sub) ==
  sub = [n \in 0..Len(s) |->
           IF n = 0 THEN <<>>
           ELSE IF s[n] \in kept THEN Append(sub[n - 1], s[n]) ELSE sub[n - 1]]

LEMMA SubExists ==
  ASSUME NEW R, NEW s \in Seq(R), NEW kept
  PROVE  \E sub : Sub(s, kept, sub)
<1> DEFINE N == Len(s)
           A == Seq(R)
           step == [n \in 1..N |-> [t \in A |-> IF s[n] \in kept THEN Append(t, s[n]) ELSE t]]
<1>1. N \in Nat /\ <<>> \in A
  OBVIOUS
<1>2. step \in [1..N -> [A -> A]]
  <2>1. \A n \in 1..N : \A t \in A : Append(t, s[n]) \in A
    OBVIOUS
  <2>2. QED
    BY <2>1
<1>3. PICK f \in [0..N -> A] : f[0] = <<>> /\ \A n \in 1..N : f[n] = step[n][f[n - 1]]
  <2> HIDE DEF step, N, A
  <2>1. \E f : Iterates(f, N, A, <<>>, step)
    BY <1>1, <1>2, Iteration
  <2>2. QED
    BY <2>1 DEF Iterates
<1>4. \A n \in 1..N : f[n] = IF s[n] \in kept THEN Append(f[n - 1], s[n]) ELSE f[n - 1]
  <2> SUFFICES ASSUME NEW n \in 1..N
               PROVE  f[n] = IF s[n] \in kept THEN Append(f[n - 1], s[n]) ELSE f[n - 1]
    OBVIOUS
  <2>1. f[n - 1] \in A
    <3>1. n - 1 \in 0..N
      BY <1>1
    <3> HIDE DEF A
    <3>2. QED
      BY <3>1
  <2> HIDE DEF A, N
  <2>2. QED
    BY <1>3, <2>1
<1>5. \A n \in 0..N : f[n] = IF n = 0 THEN <<>>
                             ELSE IF s[n] \in kept THEN Append(f[n - 1], s[n]) ELSE f[n - 1]
  <2> SUFFICES ASSUME NEW n \in 0..N
               PROVE  f[n] = IF n = 0 THEN <<>>
                             ELSE IF s[n] \in kept THEN Append(f[n - 1], s[n]) ELSE f[n - 1]
    OBVIOUS
  <2>1. n = 0 \/ n \in 1..N
    BY <1>1
  <2> HIDE DEF step, N
  <2>2. QED
    BY <1>3, <1>4, <2>1
<1>6. Sub(s, kept, f)
  BY <1>3, <1>5 DEF Sub
<1>7. QED
  BY <1>6

LEMMA OnlyIsSub ==
  ASSUME NEW R, NEW s \in Seq(R), NEW kept
  PROVE  \E sub : Sub(s, kept, sub) /\ Only(s, kept) = sub[Len(s)]
<1> DEFINE F == CHOOSE sub : Sub(s, kept, sub)
<1>1. Sub(s, kept, F)
  <2>1. PICK sub : Sub(s, kept, sub)
    BY SubExists
  <2>2. QED
    BY <2>1, Zenon
<1>2. Only(s, kept) = F[Len(s)]
  BY Zenon DEF Only, Sub
<1>3. QED
  BY <1>1, <1>2

(* The places where the elements kept stand, in their order. *)
Embeds(s, kept, t, at) ==
  /\ at \in [1..Len(t) -> 1..Len(s)]
  /\ \A j, k \in 1..Len(t) : j < k => at[j] < at[k]
  /\ \A k \in 1..Len(t) : t[k] = s[at[k]] /\ t[k] \in kept
  /\ \A i \in 1..Len(s) : s[i] \in kept => \E k \in 1..Len(t) : at[k] = i

LEMMA OnlyEmbeds ==
  ASSUME NEW R, NEW s \in Seq(R), NEW kept
  PROVE  /\ Only(s, kept) \in Seq(R)
         /\ \E at : Embeds(s, kept, Only(s, kept), at)
<1>1. PICK sub : Sub(s, kept, sub) /\ Only(s, kept) = sub[Len(s)]
  BY OnlyIsSub
<1> DEFINE N == Len(s)
           Emb(n, t, at) ==
             /\ at \in [1..Len(t) -> 1..n]
             /\ \A j, k \in 1..Len(t) : j < k => at[j] < at[k]
             /\ \A k \in 1..Len(t) : t[k] = s[at[k]] /\ t[k] \in kept
             /\ \A i \in 1..n : s[i] \in kept => \E k \in 1..Len(t) : at[k] = i
           P == {n \in 0..N : sub[n] \in Seq(R) /\ \E at : Emb(n, sub[n], at)}
<1>2. N \in Nat
  OBVIOUS
<1>3. 0 \in P
  <2>1. sub[0] = <<>>
    BY <1>1, <1>2 DEF Sub
  <2>2. Emb(0, <<>>, <<>>)
    OBVIOUS
  <2>3. <<>> \in Seq(R) /\ 0 \in 0..N
    BY <1>2
  <2> HIDE DEF Emb
  <2>4. QED
    BY <2>1, <2>2, <2>3
<1>4. ASSUME NEW n \in 1..N, n - 1 \in P PROVE n \in P
  <2>1. sub[n] = IF s[n] \in kept THEN Append(sub[n - 1], s[n]) ELSE sub[n - 1]
    <3>1. n \in 0..Len(s) /\ n # 0
      BY <1>2
    <3> HIDE DEF N, P
    <3>2. QED
      BY <1>1, <3>1, Zenon DEF Sub
  <2> DEFINE t == sub[n - 1]
  <2>2. t \in Seq(R) /\ \E at : Emb(n - 1, t, at)
    BY <1>4
  <2>3. PICK at : Emb(n - 1, t, at)
    BY <2>2
  <2> HIDE DEF t
  <2>4. s[n] \in R /\ n \in Nat /\ Len(t) \in Nat
    BY <2>2
  <2>5. CASE s[n] \notin kept
    <3>1. Emb(n, t, at)
      <4>1. at \in [1..Len(t) -> 1..n]
        BY <2>3, <2>4
      <4>2. \A i \in 1..n : s[i] \in kept => i \in 1..n - 1
        BY <2>4, <2>5
      <4>3. QED
        BY <2>3, <4>1, <4>2
    <3>2. sub[n] = t
      BY <2>1, <2>5 DEF t
    <3> HIDE DEF Emb
    <3>3. QED
      BY <2>2, <3>1, <3>2
  <2>6. CASE s[n] \in kept
    <3> DEFINE u == Append(t, s[n])
               to == [k \in 1..Len(t) + 1 |-> IF k = Len(t) + 1 THEN n ELSE at[k]]
    <3>1. u \in Seq(R) /\ Len(u) = Len(t) + 1 /\ u[Len(t) + 1] = s[n]
          /\ \A k \in 1..Len(t) : u[k] = t[k]
      BY <2>2, <2>4
    <3>2. \A k \in 1..Len(t) : at[k] \in 1..n - 1
      BY <2>3
    <3>3. to \in [1..Len(u) -> 1..n]
      BY <2>4, <3>1, <3>2
    <3>4. ASSUME NEW j \in 1..Len(u), NEW k \in 1..Len(u), j < k PROVE to[j] < to[k]
      BY <2>3, <2>4, <3>1, <3>2, <3>4
    <3>5. ASSUME NEW k \in 1..Len(u) PROVE u[k] = s[to[k]] /\ u[k] \in kept
      BY <2>3, <2>4, <2>6, <3>1
    <3>6. ASSUME NEW i \in 1..n, s[i] \in kept PROVE \E k \in 1..Len(u) : to[k] = i
      <4>1. CASE i = n
        <5>1. Len(t) + 1 \in 1..Len(u) /\ to[Len(t) + 1] = n
          BY <2>4, <3>1
        <5>2. QED
          BY <4>1, <5>1
      <4>2. CASE i # n
        <5>1. i \in 1..n - 1
          BY <2>4, <4>2
        <5>2. PICK k \in 1..Len(t) : at[k] = i
          BY <2>3, <3>6, <5>1
        <5>3. k \in 1..Len(u) /\ to[k] = i
          BY <2>4, <3>1, <5>2
        <5>4. QED
          BY <5>3
      <4>3. QED
        BY <4>1, <4>2
    <3> HIDE DEF to, u
    <3>7. Emb(n, u, to)
      BY <3>3, <3>4, <3>5, <3>6
    <3>8. sub[n] = u
      BY <2>1, <2>6 DEF t, u
    <3> HIDE DEF Emb
    <3>9. QED
      BY <3>1, <3>7, <3>8
  <2>7. QED
    BY <2>5, <2>6
<1>5. P \subseteq 0..N
  OBVIOUS
<1>6. 0..N \subseteq P
  <2> HIDE DEF P
  <2>1. QED
    BY <1>2, <1>3, <1>4, <1>5, SegmentInduction
<1>7. N \in P
  <2> HIDE DEF P
  <2>1. QED
    BY <1>2, <1>6
<1>8. QED
  BY <1>1, <1>7 DEF Embeds

-----------------------------------------------------------------------------
LEMMA ElementOf ==
  ASSUME NEW R, NEW s \in Seq(R), NEW x
  PROVE  x \in ToSet(s) <=> \E i \in 1..Len(s) : s[i] = x
BY DEF ToSet

LEMMA ElementsTyped ==
  ASSUME NEW R, NEW s \in Seq(R)
  PROVE  ToSet(s) \subseteq R
BY DEF ToSet

LEMMA AppendElements ==
  ASSUME NEW R, NEW s \in Seq(R), NEW x \in R
  PROVE  ToSet(Append(s, x)) = ToSet(s) \cup {x}
<1>1. /\ Append(s, x) \in Seq(R) /\ Len(Append(s, x)) = Len(s) + 1 /\ Len(s) \in Nat
      /\ \A i \in 1..Len(s) : Append(s, x)[i] = s[i]
      /\ Append(s, x)[Len(s) + 1] = x
  OBVIOUS
<1>2. ASSUME NEW y \in ToSet(Append(s, x)) PROVE y \in ToSet(s) \cup {x}
  <2>1. PICK i \in 1..Len(Append(s, x)) : Append(s, x)[i] = y
    BY <1>1, <1>2, ElementOf
  <2>2. QED
    BY <1>1, <2>1, ElementOf
<1>3. ASSUME NEW y \in ToSet(s) \cup {x} PROVE y \in ToSet(Append(s, x))
  <2>1. CASE y = x
    <3>1. Len(s) + 1 \in 1..Len(Append(s, x)) /\ Append(s, x)[Len(s) + 1] = y
      BY <1>1, <2>1
    <3>2. QED
      BY <1>1, <3>1, ElementOf
  <2>2. CASE y # x
    <3>1. PICK i \in 1..Len(s) : s[i] = y
      BY <1>3, <2>2, ElementOf
    <3>2. i \in 1..Len(Append(s, x)) /\ Append(s, x)[i] = y
      BY <1>1, <3>1
    <3>3. QED
      BY <1>1, <3>2, ElementOf
  <2>3. QED
    BY <2>1, <2>2
<1>4. QED
  BY <1>2, <1>3

(* The filter keeps the elements asked for and no others. *)
LEMMA OnlyElements ==
  ASSUME NEW R, NEW s \in Seq(R), NEW kept
  PROVE  Only(s, kept) \in Seq(R) /\ ToSet(Only(s, kept)) = ToSet(s) \cap kept
<1> DEFINE t == Only(s, kept)
<1>1. t \in Seq(R)
  BY OnlyEmbeds
<1>2. PICK at : Embeds(s, kept, t, at)
  BY OnlyEmbeds
<1> HIDE DEF t
<1>3. ASSUME NEW x \in ToSet(t) PROVE x \in ToSet(s) \cap kept
  <2>1. PICK k \in 1..Len(t) : t[k] = x
    BY <1>1, <1>3, ElementOf
  <2>2. at[k] \in 1..Len(s) /\ s[at[k]] = x /\ x \in kept
    BY <1>2, <2>1 DEF Embeds
  <2>3. QED
    BY <2>2, ElementOf
<1>4. ASSUME NEW x \in ToSet(s) \cap kept PROVE x \in ToSet(t)
  <2>1. PICK i \in 1..Len(s) : s[i] = x
    BY <1>4, ElementOf
  <2>2. PICK k \in 1..Len(t) : at[k] = i
    BY <1>2, <1>4, <2>1 DEF Embeds
  <2>3. t[k] = x
    BY <1>2, <2>1, <2>2 DEF Embeds
  <2>4. QED
    BY <1>1, <2>3, ElementOf
<1>5. ToSet(t) = ToSet(s) \cap kept
  BY <1>3, <1>4
<1>6. QED
  BY <1>1, <1>5 DEF t

LEMMA OnlyOfOne ==
  ASSUME NEW R, NEW x \in R, NEW kept, x \in kept
  PROVE  Only(<<x>>, kept) = <<x>>
<1> DEFINE s == <<x>>
           t == Only(s, kept)
<1>1. s \in Seq(R) /\ Len(s) = 1 /\ s[1] = x
  OBVIOUS
<1>2. t \in Seq(R) /\ \E at : Embeds(s, kept, t, at)
  <2> HIDE DEF s
  <2>1. QED
    BY <1>1, OnlyEmbeds
<1>3. PICK at : Embeds(s, kept, t, at)
  BY <1>2
<1> HIDE DEF s, t
<1>4. Len(t) \in Nat /\ \A j \in 1..Len(t) : at[j] = 1
  BY <1>1, <1>2, <1>3 DEF Embeds
<1>5. \A j, k \in 1..Len(t) : ~(j < k)
  BY <1>3, <1>4 DEF Embeds
<1>6. \E k \in 1..Len(t) : at[k] = 1
  BY <1>1, <1>3 DEF Embeds
<1>7. Len(t) = 1
  <2>1. PICK n \in Nat : n = Len(t)
    BY <1>4
  <2>2. n # 0
    BY <1>6, <2>1
  <2>3. n > 1 => 1 \in 1..n /\ 2 \in 1..n /\ 1 < 2
    OBVIOUS
  <2>4. ~(n > 1)
    BY <1>5, <2>1, <2>3
  <2>5. QED
    BY <2>1, <2>2, <2>4
<1>8. t[1] = x
  BY <1>1, <1>3, <1>7 DEF Embeds
<1>9. t = <<x>>
  BY <1>2, <1>7, <1>8
<1>10. QED
  BY <1>9 DEF s, t

(* What is filtered from a rising sequence rises. *)
Rises(s) == \A j, k \in 1..Len(s) : j < k => s[j] < s[k]

LEMMA OnlyRises ==
  ASSUME NEW R, NEW s \in Seq(R), NEW kept, Rises(s)
  PROVE  Rises(Only(s, kept))
<1> DEFINE t == Only(s, kept)
<1>1. PICK at : Embeds(s, kept, t, at)
  BY OnlyEmbeds
<1> HIDE DEF t
<1>2. ASSUME NEW j \in 1..Len(t), NEW k \in 1..Len(t), j < k PROVE t[j] < t[k]
  <2>1. at[j] < at[k] /\ at[j] \in 1..Len(s) /\ at[k] \in 1..Len(s)
    BY <1>1, <1>2 DEF Embeds
  <2>2. t[j] = s[at[j]] /\ t[k] = s[at[k]]
    BY <1>1 DEF Embeds
  <2>3. QED
    BY <2>1, <2>2 DEF Rises
<1>3. Rises(t)
  BY <1>2 DEF Rises
<1>4. QED
  BY <1>3 DEF t

LEMMA AppendRises ==
  ASSUME NEW R, NEW s \in Seq(R), NEW x \in R, Rises(s), \A y \in ToSet(s) : y < x
  PROVE  Rises(Append(s, x))
<1>1. \A k \in 1..Len(s) : s[k] < x
  BY ElementOf
<1>2. /\ Len(Append(s, x)) = Len(s) + 1 /\ Len(s) \in Nat
      /\ \A k \in 1..Len(s) : Append(s, x)[k] = s[k]
      /\ Append(s, x)[Len(s) + 1] = x
  OBVIOUS
<1>3. ASSUME NEW j \in 1..Len(s) + 1, NEW k \in 1..Len(s) + 1, j < k
      PROVE  Append(s, x)[j] < Append(s, x)[k]
  <2>1. j \in 1..Len(s)
    BY <1>2, <1>3
  <2>2. CASE k = Len(s) + 1
    BY <1>1, <1>2, <2>1, <2>2
  <2>3. CASE k # Len(s) + 1
    <3>1. k \in 1..Len(s)
      BY <1>2, <2>3
    <3>2. QED
      BY <1>2, <1>3, <2>1, <3>1 DEF Rises
  <2>4. QED
    BY <2>2, <2>3
<1>4. QED
  BY <1>2, <1>3 DEF Rises

(* The first index a sequence has for a set of indices. *)
LEMMA SmallestIndex ==
  ASSUME NEW T \in SUBSET Nat, T # {}
  PROVE  Min(T) \in T
BY LeastNumber DEF Min

-----------------------------------------------------------------------------
(* What the operators on sequences give, an element at a time. *)

LEMMA TailOf ==
  ASSUME NEW S, NEW s \in Seq(S), s # <<>>
  PROVE  /\ Len(s) \in Nat \ {0} /\ Head(s) = s[1] /\ s[1] \in S
         /\ Tail(s) \in Seq(S) /\ Len(Tail(s)) = Len(s) - 1
         /\ \A k \in 1..Len(Tail(s)) : Tail(s)[k] = s[k + 1] /\ k + 1 \in 2..Len(s)
  OBVIOUS

LEMMA AppendOf ==
  ASSUME NEW S, NEW s \in Seq(S), NEW x \in S
  PROVE  /\ Append(s, x) \in Seq(S) /\ Len(s) \in Nat /\ Len(Append(s, x)) = Len(s) + 1
         /\ \A k \in 1..Len(s) : Append(s, x)[k] = s[k]
         /\ Append(s, x)[Len(s) + 1] = x
  OBVIOUS

LEMMA SeqWidens ==
  ASSUME NEW S, NEW T, S \subseteq T, NEW s \in Seq(S)
  PROVE  s \in Seq(T)
<1>1. Len(s) \in Nat /\ s \in [1..Len(s) -> S]
  OBVIOUS
<1>2. s \in [1..Len(s) -> T]
  BY <1>1
<1>3. QED
  BY <1>1, <1>2

LEMMA ReplaceOf ==
  ASSUME NEW S, NEW s \in Seq(S), NEW i \in 1..Len(s), NEW x \in S
  PROVE  /\ [s EXCEPT ![i] = x] \in Seq(S) /\ Len([s EXCEPT ![i] = x]) = Len(s)
         /\ [s EXCEPT ![i] = x][i] = x
         /\ \A j \in 1..Len(s) : j # i => [s EXCEPT ![i] = x][j] = s[j]
  OBVIOUS

LEMMA ConcatOf ==
  ASSUME NEW S, NEW a \in Seq(S), NEW b \in Seq(S)
  PROVE  /\ a \o b \in Seq(S) /\ Len(a \o b) = Len(a) + Len(b)
         /\ \A j \in 1..Len(a) + Len(b) :
              (a \o b)[j] = (IF j <= Len(a) THEN a[j] ELSE b[j - Len(a)])
  OBVIOUS

LEMMA RemoveAtOf ==
  ASSUME NEW S, NEW s \in Seq(S), NEW i \in 1..Len(s)
  PROVE  /\ RemoveAt(s, i) \in Seq(S) /\ Len(RemoveAt(s, i)) = Len(s) - 1
         /\ \A j \in 1..Len(s) - 1 :
              RemoveAt(s, i)[j] = (IF j < i THEN s[j] ELSE s[j + 1])
<1> DEFINE a == SubSeq(s, 1, i - 1)
           b == SubSeq(s, i + 1, Len(s))
<1>1. Len(s) \in Nat /\ i \in Int /\ 1 <= i /\ i <= Len(s)
  OBVIOUS
<1>2. a \in Seq(S) /\ Len(a) = i - 1 /\ \A j \in 1..i - 1 : a[j] = s[j]
  BY <1>1
<1>3. b \in Seq(S) /\ Len(b) = Len(s) - i /\ \A j \in 1..Len(s) - i : b[j] = s[i + j]
  BY <1>1
<1>4. RemoveAt(s, i) = a \o b
  BY DEF RemoveAt
<1> HIDE DEF a, b
<1>5. /\ a \o b \in Seq(S) /\ Len(a \o b) = Len(a) + Len(b)
      /\ \A j \in 1..Len(a) + Len(b) :
           (a \o b)[j] = (IF j <= Len(a) THEN a[j] ELSE b[j - Len(a)])
  BY <1>2, <1>3, ConcatOf
<1>6. ASSUME NEW j \in 1..Len(s) - 1 PROVE (a \o b)[j] = (IF j < i THEN s[j] ELSE s[j + 1])
  <2>1. CASE j < i
    <3>1. j <= Len(a) /\ j \in 1..i - 1 /\ j \in 1..Len(a) + Len(b)
      BY <1>1, <1>2, <1>3, <2>1
    <3>2. QED
      BY <1>2, <1>5, <2>1, <3>1
  <2>2. CASE ~(j < i)
    <3>1. /\ ~(j <= Len(a)) /\ j - Len(a) \in 1..Len(s) - i /\ i + (j - Len(a)) = j + 1
          /\ j \in 1..Len(a) + Len(b)
      BY <1>1, <1>2, <1>3, <2>2
    <3>2. QED
      BY <1>3, <1>5, <2>2, <3>1
  <2>3. QED
    BY <2>1, <2>2
<1>7. QED
  BY <1>1, <1>2, <1>3, <1>4, <1>5, <1>6

LEMMA PrefixOf ==
  ASSUME NEW S, NEW s \in Seq(S), NEW n \in 0..Len(s)
  PROVE  /\ SubSeq(s, 1, n) \in Seq(S) /\ Len(SubSeq(s, 1, n)) = n
         /\ \A j \in 1..n : SubSeq(s, 1, n)[j] = s[j]
  OBVIOUS

LEMMA FrontOf ==
  ASSUME NEW S, NEW s \in Seq(S), s # <<>>
  PROVE  /\ Front(s) \in Seq(S) /\ Len(Front(s)) = Len(s) - 1
         /\ \A j \in 1..Len(s) - 1 : Front(s)[j] = s[j]
         /\ Last(s) = s[Len(s)] /\ Len(s) \in 1..Len(s)
<1>1. Len(s) \in Nat \ {0} /\ Len(s) - 1 \in 0..Len(s)
  BY TailOf
<1>2. /\ SubSeq(s, 1, Len(s) - 1) \in Seq(S) /\ Len(SubSeq(s, 1, Len(s) - 1)) = Len(s) - 1
      /\ \A j \in 1..Len(s) - 1 : SubSeq(s, 1, Len(s) - 1)[j] = s[j]
  BY <1>1, PrefixOf
<1>3. QED
  BY <1>1, <1>2 DEF Front, Last

LEMMA SeqNarrows ==
  ASSUME NEW S, NEW s \in Seq(S), NEW T, ToSet(s) \subseteq T
  PROVE  s \in Seq(T)
<1>1. Len(s) \in Nat /\ s \in [1..Len(s) -> S]
  OBVIOUS
<1>2. \A k \in 1..Len(s) : s[k] \in T
  BY ElementOf
<1>3. s \in [1..Len(s) -> T]
  BY <1>1, <1>2
<1>4. QED
  BY <1>1, <1>3

=============================================================================
