-------------------------- MODULE SelectionProofs --------------------------
(***************************************************************************)
(* The selection keeps its promises for any number of URLs, domains and    *)
(* crawl threads and for any quotas: the two loops take the oldest jobs of *)
(* a domain and stay within its quotas, the numbers reported add up, and   *)
(* no step doubles a URL or loses one in a way that is not named.          *)
(*                                                                         *)
(* Lists are compared by counting: how often a job occurs in a list, in a  *)
(* list put together of others, or at some positions of one.  Sums over    *)
(* domains are cardinalities of unions of numbered jobs.  Neither needs an *)
(* induction over the lists.                                               *)
(***************************************************************************)
EXTENDS Selection, FiniteSetTheorems, SequenceTheorems, TLAPS

-----------------------------------------------------------------------------
(* Numbers in order, and the elements of a sequence at some positions *)

LEMMA UpTo ==
    ASSUME NEW n \in Nat
    PROVE  IsFiniteSet(1 .. n) /\ Cardinality(1 .. n) = n
BY FS_Interval

LEMMA Least ==
    ASSUME NEW S \in SUBSET Nat, S # {}
    PROVE  \E x \in S : \A y \in S : x <= y
<1> DEFINE R == {ss \in Nat \X Nat : ss[1] < ss[2]}
<1>1. IsWellFoundedOn(R, Nat)
  BY NatLessThanWellFounded DEF OpToRel
<1>2. PICK x \in S : \A y \in S : <<y, x>> \notin R
  <2> HIDE DEF R
  <2> QED  BY <1>1, WFMin
<1>3. ASSUME NEW y \in S PROVE x <= y
  <2>1. x \in Nat /\ y \in Nat
    OBVIOUS
  <2>2. ~(y < x)
    BY <1>2, <2>1
  <2> QED  BY <2>1, <2>2
<1> QED  BY <1>3

(* The rank of a number among those of a finite set: every number up to the *)
(* size of the set is the rank of one, and ranks are in their order.        *)
Rank(S, x) == Cardinality({y \in S : y <= x})

LEMMA Ranks ==
    ASSUME NEW S \in SUBSET Nat, IsFiniteSet(S)
    PROVE  /\ Cardinality(S) \in Nat
           /\ \A x \in S : Rank(S, x) \in 1 .. Cardinality(S)
           /\ \A x, z \in S : x < z => Rank(S, x) < Rank(S, z)
           /\ \A k \in 1 .. Cardinality(S) : \E x \in S : Rank(S, x) = k
<1>0. Cardinality(S) \in Nat
  BY FS_CardinalityType
<1>1. ASSUME NEW x \in S PROVE Rank(S, x) \in 1 .. Cardinality(S)
  <2> DEFINE Below == {y \in S : y <= x}
  <2>1. Below \in SUBSET S /\ x \in Below
    OBVIOUS
  <2> HIDE DEF Below
  <2>2. IsFiniteSet(Below) /\ Cardinality(Below) <= Cardinality(S)
    BY <2>1, FS_Subset
  <2>3. Cardinality(Below) \in Nat /\ Cardinality(Below) # 0
    BY <2>1, <2>2, FS_CardinalityType, FS_EmptySet
  <2>4. Rank(S, x) = Cardinality(Below)
    BY DEF Rank, Below
  <2> QED  BY <1>0, <2>2, <2>3, <2>4
<1>2. ASSUME NEW x \in S, NEW z \in S, x < z PROVE Rank(S, x) < Rank(S, z)
  <2> DEFINE B == {y \in S : y <= x}
             C == {y \in S : y <= z}
  <2>0. x \in Nat /\ z \in Nat /\ \A y \in S : y \in Nat
    OBVIOUS
  <2>1. C \in SUBSET S /\ B \in SUBSET C /\ z \in C /\ z \notin B
    <3>1. \A y \in S : y <= x => y <= z
      BY <1>2, <2>0
    <3>2. z <= z /\ ~(z <= x)
      BY <1>2, <2>0
    <3> QED  BY <3>1, <3>2
  <2>4. Rank(S, x) = Cardinality(B) /\ Rank(S, z) = Cardinality(C)
    BY DEF Rank
  <2> HIDE DEF B, C
  <2>2. IsFiniteSet(C)
    BY <2>1, FS_Subset
  <2>3. Cardinality(B) <= Cardinality(C) /\ (Cardinality(C) = Cardinality(B) => C = B)
    BY <2>1, <2>2, FS_Subset
  <2>5. Cardinality(B) \in Nat /\ Cardinality(C) \in Nat
    BY <2>1, <2>2, FS_Subset, FS_CardinalityType
  <2> QED  BY <2>1, <2>3, <2>4, <2>5
<1>3. ASSUME NEW k \in 1 .. Cardinality(S) PROVE \E x \in S : Rank(S, x) = k
  <2> DEFINE f == [x \in S |-> Rank(S, x)]
             N == 1 .. Cardinality(S)
  <2>1. f \in [S -> N]
    BY <1>1
  <2>2. \A x, z \in S : f[x] = f[z] => x = z
    <3> SUFFICES ASSUME NEW x \in S, NEW z \in S, f[x] = f[z], x # z PROVE FALSE
      OBVIOUS
    <3>1. x \in Nat /\ z \in Nat /\ (x < z \/ z < x)
      OBVIOUS
    <3>2. f[x] \in Nat /\ f[z] \in Nat /\ (f[x] < f[z] \/ f[z] < f[x])
      BY <1>0, <1>1, <1>2, <3>1
    <3> QED  BY <3>2
  <2>6. IsFiniteSet(N) /\ Cardinality(N) = Cardinality(S)
    BY <1>0, FS_Interval
  <2>7. \A x \in S : f[x] = Rank(S, x)
    OBVIOUS
  <2> HIDE DEF f, N
  <2>3. f \in Injection(S, N)
    BY <2>1, <2>2 DEF Injection, IsInjective
  <2>4. f \in Surjection(S, N)
    BY <2>3, <2>6, FS_Injection
  <2>5. \A y \in N : \E x \in S : f[x] = y
    BY <2>4 DEF Surjection
  <2> QED  BY <2>5, <2>7 DEF N
<1> QED  BY <1>0, <1>1, <1>2, <1>3

(* Ascending lists the numbers of a finite set, each once, in their order. *)
LEMMA AscendingLists ==
    ASSUME NEW S \in SUBSET Nat, IsFiniteSet(S)
    PROVE  LET a == Ascending(S) IN
           /\ a \in Seq(S) /\ Len(a) = Cardinality(S) /\ DOMAIN a = 1 .. Cardinality(S)
           /\ \A k \in DOMAIN a : a[k] \in S /\ Rank(S, a[k]) = k
           /\ \A x \in S : Rank(S, x) \in DOMAIN a /\ a[Rank(S, x)] = x
           /\ \A k, l \in DOMAIN a : a[k] = a[l] => k = l
<1> DEFINE a == Ascending(S)
           N == 1 .. Cardinality(S)
<1>0. Cardinality(S) \in Nat
  BY Ranks
<1>1. DOMAIN a = N /\ \A k \in N : a[k] = CHOOSE x \in S : Rank(S, x) = k
  BY DEF Ascending, Rank
<1>2. \A k \in N : a[k] \in S /\ Rank(S, a[k]) = k
  <2>1. \A k \in N : \E x \in S : Rank(S, x) = k
    BY Ranks
  <2> QED  BY <1>1, <2>1
<1>3. a \in Seq(S) /\ Len(a) = Cardinality(S)
  <2>1. a = [k \in N |-> a[k]]
    BY DEF Ascending
  <2> HIDE DEF a
  <2>2. a \in [1 .. Cardinality(S) -> S]
    BY <1>1, <1>2, <2>1
  <2> QED  BY <1>0, <2>2
<1>4. \A x \in S : Rank(S, x) \in N /\ a[Rank(S, x)] = x
  <2> SUFFICES ASSUME NEW x \in S PROVE Rank(S, x) \in N /\ a[Rank(S, x)] = x
    OBVIOUS
  <2>1. Rank(S, x) \in N
    BY Ranks
  <2> DEFINE z == a[Rank(S, x)]
  <2>2. z \in S /\ Rank(S, z) = Rank(S, x)
    BY <1>2, <2>1
  <2> HIDE DEF z, a
  <2>3. Rank(S, x) \in Nat /\ Rank(S, z) \in Nat
    BY <1>0, <2>1, <2>2
  <2>4. x \in Nat /\ z \in Nat /\ ~(x < z) /\ ~(z < x)
    BY <2>2, <2>3, Ranks
  <2>5. x = z
    BY <2>4
  <2> QED  BY <2>1, <2>5 DEF z
<1>5. \A k, l \in N : a[k] = a[l] => k = l
  BY <1>2
<1> QED  BY <1>1, <1>2, <1>3, <1>4, <1>5

(* The elements of v at the positions P. *)
LEMMA AtLists ==
    ASSUME NEW J, NEW v \in Seq(J), NEW P \in SUBSET DOMAIN v
    PROVE  /\ IsFiniteSet(P) /\ Cardinality(P) \in Nat
           /\ At(v, P) \in Seq(J) /\ Len(At(v, P)) = Cardinality(P)
           /\ DOMAIN At(v, P) = DOMAIN Ascending(P)
           /\ \A k \in DOMAIN At(v, P) :
                 Ascending(P)[k] \in P /\ At(v, P)[k] = v[Ascending(P)[k]]
<1>1. DOMAIN v = 1 .. Len(v) /\ Len(v) \in Nat
  OBVIOUS
<1>2. P \in SUBSET Nat /\ IsFiniteSet(P)
  <2>1. IsFiniteSet(1 .. Len(v)) /\ 1 .. Len(v) \in SUBSET Nat
    BY <1>1, FS_Interval
  <2> QED  BY <1>1, <2>1, FS_Subset
<1> DEFINE a == Ascending(P)
<1>3. /\ DOMAIN a = 1 .. Cardinality(P) /\ Cardinality(P) \in Nat
      /\ \A k \in DOMAIN a : a[k] \in P
  BY <1>2, AscendingLists, FS_CardinalityType
<1>4. At(v, P) = [k \in 1 .. Cardinality(P) |-> v[a[k]]]
  BY <1>3 DEF At
<1>5. \A k \in 1 .. Cardinality(P) : v[a[k]] \in J
  BY <1>3
<1>6. At(v, P) \in [1 .. Cardinality(P) -> J]
  BY <1>4, <1>5
<1>7. At(v, P) \in Seq(J) /\ Len(At(v, P)) = Cardinality(P)
  BY <1>3, <1>6
<1> QED  BY <1>2, <1>3, <1>4, <1>7

-----------------------------------------------------------------------------
(* How often something occurs in a sequence *)

LEMMA OccurrencesType ==
    ASSUME NEW J, NEW s \in Seq(J), NEW x
    PROVE  /\ IsFiniteSet({i \in DOMAIN s : s[i] = x}) /\ Occurrences(s, x) \in Nat
           /\ Occurrences(s, x) > 0 <=> \E i \in DOMAIN s : s[i] = x
<1> DEFINE O == {i \in DOMAIN s : s[i] = x}
<1>1. IsFiniteSet(DOMAIN s)
  <2>1. DOMAIN s = 1 .. Len(s) /\ Len(s) \in Nat
    OBVIOUS
  <2> QED  BY <2>1, FS_Interval
<1>2. O \in SUBSET DOMAIN s
  OBVIOUS
<1>5. Occurrences(s, x) = Cardinality(O) /\ (O # {} <=> \E i \in DOMAIN s : s[i] = x)
  BY DEF Occurrences
<1> HIDE DEF O
<1>3. IsFiniteSet(O)
  BY <1>1, <1>2, FS_Subset
<1>4. Cardinality(O) \in Nat /\ (Cardinality(O) = 0 <=> O = {})
  BY <1>3, FS_CardinalityType, FS_EmptySet
<1> QED  BY <1>3, <1>4, <1>5 DEF O

LEMMA OccurrencesEmpty ==
    ASSUME NEW x
    PROVE  Occurrences(<<>>, x) = 0
<1>1. {i \in DOMAIN <<>> : <<>>[i] = x} = {}
  OBVIOUS
<1> QED  BY <1>1, FS_EmptySet DEF Occurrences

LEMMA OccurrencesCat ==
    ASSUME NEW J, NEW s \in Seq(J), NEW t \in Seq(J), NEW x
    PROVE  Occurrences(s \o t, x) = Occurrences(s, x) + Occurrences(t, x)
<1> DEFINE A == {i \in DOMAIN s : s[i] = x}
           B == {i \in DOMAIN t : t[i] = x}
           C == {i \in DOMAIN (s \o t) : (s \o t)[i] = x}
           D == {i \in Len(s) + 1 .. Len(s) + Len(t) : t[i - Len(s)] = x}
           f == [i \in B |-> i + Len(s)]
<1>1. /\ Len(s) \in Nat /\ Len(t) \in Nat /\ DOMAIN s = 1 .. Len(s) /\ DOMAIN t = 1 .. Len(t)
      /\ DOMAIN (s \o t) = 1 .. Len(s) + Len(t)
      /\ \A i \in 1 .. Len(s) + Len(t) :
            (s \o t)[i] = IF i <= Len(s) THEN s[i] ELSE t[i - Len(s)]
  OBVIOUS
<1>2. C = A \cup D
  BY <1>1
<1>3. A \cap D = {}
  BY <1>1
<1>4. IsFiniteSet(A) /\ IsFiniteSet(B) /\ Cardinality(A) \in Nat /\ Cardinality(B) \in Nat
  BY OccurrencesType, FS_CardinalityType
<1>5. IsFiniteSet(D) /\ Cardinality(D) = Cardinality(B)
  <2>1. f \in [B -> D]
    BY <1>1
  <2>2. \A i, k \in B : f[i] = f[k] => i = k
    BY <1>1
  <2>3. \A y \in D : \E i \in B : f[i] = y
    <3> SUFFICES ASSUME NEW y \in D PROVE y - Len(s) \in B /\ f[y - Len(s)] = y
      OBVIOUS
    <3> QED  BY <1>1
  <2> HIDE DEF f, B, D
  <2>4. f \in Bijection(B, D)
    BY <2>1, <2>2, <2>3 DEF Bijection, Injection, Surjection, IsInjective
  <2> QED  BY <1>4, <2>4, FS_Bijection DEF ExistsBijection
<1>6. /\ Occurrences(s, x) = Cardinality(A) /\ Occurrences(t, x) = Cardinality(B)
      /\ Occurrences(s \o t, x) = Cardinality(C)
  BY DEF Occurrences
<1> HIDE DEF A, B, C, D, f
<1>7. Cardinality(C) = Cardinality(A) + Cardinality(D) - Cardinality(A \cap D)
  BY <1>2, <1>4, <1>5, FS_Union
<1>8. Cardinality(A \cap D) = 0
  BY <1>3, FS_EmptySet
<1> QED  BY <1>4, <1>5, <1>6, <1>7, <1>8

LEMMA OccurrencesAt ==
    ASSUME NEW J, NEW v \in Seq(J), NEW P \in SUBSET DOMAIN v, NEW x
    PROVE  Occurrences(At(v, P), x) = Cardinality({i \in P : v[i] = x})
<1> DEFINE a == Ascending(P)
           A == {k \in DOMAIN At(v, P) : At(v, P)[k] = x}
           B == {i \in P : v[i] = x}
           f == [k \in A |-> a[k]]
<1>1. P \in SUBSET Nat /\ IsFiniteSet(P)
  <2>1. DOMAIN v \in SUBSET Nat
    OBVIOUS
  <2> QED  BY <2>1, AtLists
<1>2. \A k \in DOMAIN At(v, P) : k \in DOMAIN a /\ a[k] \in P /\ At(v, P)[k] = v[a[k]]
  BY AtLists
<1>3. /\ \A i \in P : \E k \in DOMAIN At(v, P) : a[k] = i
      /\ \A k, l \in DOMAIN At(v, P) : a[k] = a[l] => k = l
  <2>1. DOMAIN At(v, P) = DOMAIN a
    BY AtLists
  <2> QED  BY <1>1, <2>1, AscendingLists
<1> HIDE DEF a
<1>4. f \in [A -> B]
  BY <1>2
<1>5. \A k, l \in A : f[k] = f[l] => k = l
  BY <1>3
<1>6. \A i \in B : \E k \in A : f[k] = i
  <2> SUFFICES ASSUME NEW i \in B PROVE \E k \in A : f[k] = i
    OBVIOUS
  <2>1. PICK k \in DOMAIN At(v, P) : a[k] = i
    BY <1>3
  <2>2. k \in A
    BY <1>2, <2>1
  <2> QED  BY <2>1, <2>2
<1>7. IsFiniteSet(A) /\ Occurrences(At(v, P), x) = Cardinality(A)
  <2>1. At(v, P) \in Seq(J)
    BY AtLists
  <2> QED  BY <2>1, OccurrencesType DEF Occurrences
<1> HIDE DEF A, B, f
<1>8. f \in Bijection(A, B)
  BY <1>4, <1>5, <1>6 DEF Bijection, Injection, Surjection, IsInjective
<1>9. Cardinality(B) = Cardinality(A)
  BY <1>7, <1>8, FS_Bijection DEF ExistsBijection
<1> QED  BY <1>7, <1>9 DEF B

(* What is taken and what is left over are all there is. *)
LEMMA OccurrencesSplit ==
    ASSUME NEW J, NEW v \in Seq(J), NEW P \in SUBSET DOMAIN v, NEW x
    PROVE  Occurrences(v, x) = Occurrences(At(v, P), x) + Occurrences(At(v, DOMAIN v \ P), x)
<1> DEFINE A == {i \in P : v[i] = x}
           B == {i \in DOMAIN v \ P : v[i] = x}
           C == {i \in DOMAIN v : v[i] = x}
<1>1. C = A \cup B /\ A \cap B = {} /\ A \in SUBSET C /\ B \in SUBSET C
  OBVIOUS
<1>2. /\ Occurrences(At(v, P), x) = Cardinality(A)
      /\ Occurrences(At(v, DOMAIN v \ P), x) = Cardinality(B)
  <2>1. DOMAIN v \ P \in SUBSET DOMAIN v
    OBVIOUS
  <2> QED  BY <2>1, OccurrencesAt
<1>3. Occurrences(v, x) = Cardinality(C)
  BY DEF Occurrences
<1>4. IsFiniteSet(C)
  BY OccurrencesType
<1> HIDE DEF A, B, C
<1>5. IsFiniteSet(A) /\ IsFiniteSet(B) /\ Cardinality(A) \in Nat /\ Cardinality(B) \in Nat
  BY <1>1, <1>4, FS_Subset, FS_CardinalityType
<1>6. Cardinality(A \cap B) = 0
  BY <1>1, FS_EmptySet
<1>7. Cardinality(C) = Cardinality(A) + Cardinality(B) - Cardinality(A \cap B)
  BY <1>1, <1>5, FS_Union
<1> QED  BY <1>2, <1>3, <1>5, <1>6, <1>7

(* The jobs of some types. *)
LEMMA OccurrencesOfTypes ==
    ASSUME NEW v \in Seq(Jobs), NEW types, NEW j \in Jobs
    PROVE  /\ OfTypes(v, types) \in Seq(Jobs)
           /\ Occurrences(OfTypes(v, types), j)
                = IF j[2] \in types THEN Occurrences(v, j) ELSE 0
<1> DEFINE P == {x \in DOMAIN v : v[x][2] \in types}
           A == {i \in P : v[i] = j}
<1>1. P \in SUBSET DOMAIN v
  OBVIOUS
<1>3. j[2] \in types => A = {i \in DOMAIN v : v[i] = j}
  OBVIOUS
<1>4. j[2] \notin types => A = {}
  OBVIOUS
<1>5. OfTypes(v, types) = At(v, P)
  BY DEF OfTypes
<1> HIDE DEF P
<1>2. At(v, P) \in Seq(Jobs) /\ Occurrences(At(v, P), j) = Cardinality(A)
  BY <1>1, AtLists, OccurrencesAt
<1> QED  BY <1>2, <1>3, <1>4, <1>5, FS_EmptySet DEF Occurrences

LEMMA OccurrencesReverse ==
    ASSUME NEW J, NEW s \in Seq(J), NEW x
    PROVE  /\ Reverse(s) \in Seq(J) /\ Len(Reverse(s)) = Len(s)
           /\ Occurrences(Reverse(s), x) = Occurrences(s, x)
<1> DEFINE r == Reverse(s)
           A == {i \in DOMAIN s : s[i] = x}
           B == {i \in DOMAIN r : r[i] = x}
           f == [i \in A |-> (Len(s) - i) + 1]
<1>1. Len(s) \in Nat /\ DOMAIN s = 1 .. Len(s)
  OBVIOUS
<1>2. r = [i \in 1 .. Len(s) |-> s[(Len(s) - i) + 1]]
  BY DEF Reverse
<1>3. \A i \in 1 .. Len(s) : (Len(s) - i) + 1 \in 1 .. Len(s) /\ (Len(s) - ((Len(s) - i) + 1)) + 1 = i
  BY <1>1
<1>4. r \in Seq(J) /\ Len(r) = Len(s) /\ DOMAIN r = 1 .. Len(s)
  BY <1>1, <1>2, <1>3
<1>5. \A i \in 1 .. Len(s) : r[i] = s[(Len(s) - i) + 1] /\ s[i] = r[(Len(s) - i) + 1]
  BY <1>2, <1>3
<1> HIDE DEF r
<1>6. f \in [A -> B]
  BY <1>1, <1>3, <1>4, <1>5
<1>7. \A i, k \in A : f[i] = f[k] => i = k
  BY <1>1
<1>8. \A y \in B : \E i \in A : f[i] = y
  <2> SUFFICES ASSUME NEW y \in B PROVE \E i \in A : f[i] = y
    OBVIOUS
  <2>1. (Len(s) - y) + 1 \in A
    BY <1>1, <1>3, <1>4, <1>5
  <2>2. f[(Len(s) - y) + 1] = y
    BY <1>3, <1>4, <2>1
  <2> QED  BY <2>1, <2>2
<1>9. IsFiniteSet(A) /\ Occurrences(s, x) = Cardinality(A) /\ Occurrences(r, x) = Cardinality(B)
  BY OccurrencesType DEF Occurrences
<1> HIDE DEF A, B, f
<1>10. f \in Bijection(A, B)
  BY <1>6, <1>7, <1>8 DEF Bijection, Injection, Surjection, IsInjective
<1>11. Cardinality(B) = Cardinality(A)
  BY <1>9, <1>10, FS_Bijection DEF ExistsBijection
<1> QED  BY <1>4, <1>9, <1>11 DEF r

(* The last n of a sequence, turned round, and the rest. *)
LEMMA Tail_ ==
    ASSUME NEW J, NEW s \in Seq(J), NEW n \in 0 .. Len(s), NEW x
    PROVE  LET fill == Reverse(SubSeq(s, Len(s) - n + 1, Len(s)))
               rest == SubSeq(s, 1, Len(s) - n)
           IN  /\ fill \in Seq(J) /\ rest \in Seq(J) /\ Len(fill) = n
               /\ Occurrences(s, x) = Occurrences(rest, x) + Occurrences(fill, x)
<1> DEFINE last == SubSeq(s, Len(s) - n + 1, Len(s))
           rest == SubSeq(s, 1, Len(s) - n)
<1>1. Len(s) \in Nat /\ n \in Nat /\ n <= Len(s)
  OBVIOUS
<1>2. last \in Seq(J) /\ rest \in Seq(J) /\ Len(last) = n /\ Len(rest) = Len(s) - n
  BY <1>1
<1>3. s = rest \o last
  <2> DEFINE k == Len(s) - n
  <2>1. k \in 1 - 1 .. Len(s) /\ 1 \in 1 .. Len(s) + 1 /\ Len(s) \in k .. Len(s)
    BY <1>1
  <2> HIDE DEF k
  <2>2. SubSeq(s, 1, k) \o SubSeq(s, k + 1, Len(s)) = SubSeq(s, 1, Len(s))
    BY <2>1, ConcatAdjacentSubSeq
  <2>3. SubSeq(s, 1, Len(s)) = s
    BY SubSeqFull
  <2> QED  BY <2>2, <2>3 DEF k
<1> HIDE DEF last, rest
<1>4. Occurrences(s, x) = Occurrences(rest, x) + Occurrences(last, x)
  BY <1>2, <1>3, OccurrencesCat
<1>5. /\ Reverse(last) \in Seq(J) /\ Len(Reverse(last)) = n
      /\ Occurrences(Reverse(last), x) = Occurrences(last, x)
  BY <1>2, OccurrencesReverse
<1> QED  BY <1>2, <1>4, <1>5 DEF last, rest

(* A set listed in some order. *)
LEMMA SetListed ==
    ASSUME NEW S, IsFiniteSet(S)
    PROVE  SetToSeq(S) \in Seq(S)
<1>1. Cardinality(S) \in Nat /\ ExistsBijection(1 .. Cardinality(S), S)
  BY FS_CardinalityType
<1>2. PICK f \in [1 .. Cardinality(S) -> S] : IsInjective(f)
  BY <1>1 DEF ExistsBijection, Bijection, Injection, IsInjective
<1>3. SetToSeq(S) \in [1 .. Cardinality(S) -> S]
  BY <1>2 DEF SetToSeq
<1> QED  BY <1>1, <1>3

-----------------------------------------------------------------------------
(* The loops over the jobs of a domain *)

LEMMA Counts ==
    ASSUME NEW v \in Seq(Jobs), NEW t, NEW m \in 0 .. Len(v)
    PROVE  /\ CountOf(v, m, t) \in Nat /\ CountOf(v, m, t) <= m
           /\ \A x \in 0 .. Len(v) :
                 m < x /\ v[x][2] = t => CountOf(v, m, t) < CountOf(v, x, t)
           /\ m > 0 => CountOf(v, m, t) = CountOf(v, m - 1, t) + IF v[m][2] = t THEN 1 ELSE 0
           /\ IsFiniteSet({x \in 1 .. m : v[x][2] = t})
<1>0. Len(v) \in Nat /\ m \in Nat /\ m <= Len(v)
  OBVIOUS
<1>1. \A n \in 0 .. Len(v) :
         /\ IsFiniteSet({x \in 1 .. n : v[x][2] = t})
         /\ CountOf(v, n, t) \in Nat /\ CountOf(v, n, t) <= n
  <2> SUFFICES ASSUME NEW n \in 0 .. Len(v)
               PROVE  /\ IsFiniteSet({x \in 1 .. n : v[x][2] = t})
                      /\ CountOf(v, n, t) \in Nat /\ CountOf(v, n, t) <= n
    OBVIOUS
  <2> DEFINE C == {x \in 1 .. n : v[x][2] = t}
  <2>1. n \in Nat /\ C \in SUBSET (1 .. n) /\ CountOf(v, n, t) = Cardinality(C)
    BY <1>0 DEF CountOf
  <2>2. IsFiniteSet(1 .. n) /\ Cardinality(1 .. n) = n
    BY <2>1, FS_Interval
  <2> HIDE DEF C
  <2>3. IsFiniteSet(C) /\ Cardinality(C) <= Cardinality(1 .. n)
    BY <2>1, <2>2, FS_Subset
  <2>4. Cardinality(C) \in Nat
    BY <2>3, FS_CardinalityType
  <2> QED  BY <2>1, <2>2, <2>3, <2>4 DEF C
<1>2. ASSUME NEW x \in 0 .. Len(v), m < x, v[x][2] = t
      PROVE  CountOf(v, m, t) < CountOf(v, x, t)
  <2> DEFINE C == {y \in 1 .. m : v[y][2] = t}
             D == {y \in 1 .. x : v[y][2] = t}
  <2>1. CountOf(v, m, t) = Cardinality(C) /\ CountOf(v, x, t) = Cardinality(D)
    BY DEF CountOf
  <2>2. C \in SUBSET D /\ x \in D /\ x \notin C
    BY <1>0, <1>2
  <2>3. IsFiniteSet(C) /\ IsFiniteSet(D) /\ Cardinality(C) \in Nat /\ Cardinality(D) \in Nat
    BY <1>1, <2>1
  <2> HIDE DEF C, D
  <2>4. Cardinality(C) <= Cardinality(D) /\ (Cardinality(D) = Cardinality(C) => D = C)
    BY <2>2, <2>3, FS_Subset
  <2> QED  BY <2>1, <2>2, <2>3, <2>4
<1>3. ASSUME m > 0
      PROVE  CountOf(v, m, t) = CountOf(v, m - 1, t) + IF v[m][2] = t THEN 1 ELSE 0
  <2> DEFINE C == {y \in 1 .. m - 1 : v[y][2] = t}
             D == {y \in 1 .. m : v[y][2] = t}
  <2>1. CountOf(v, m - 1, t) = Cardinality(C) /\ CountOf(v, m, t) = Cardinality(D)
    BY DEF CountOf
  <2>2. m \notin C /\ D = IF v[m][2] = t THEN C \cup {m} ELSE C
    BY <1>0, <1>3
  <2>3. m - 1 \in 0 .. Len(v) /\ IsFiniteSet(C) /\ Cardinality(C) \in Nat
    <3>1. m - 1 \in 0 .. Len(v)
      BY <1>0, <1>3
    <3> QED  BY <1>1, <2>1, <3>1
  <2> HIDE DEF C, D
  <2>4. Cardinality(C \cup {m}) = Cardinality(C) + 1
    BY <2>2, <2>3, FS_AddElement
  <2> QED  BY <2>1, <2>2, <2>3, <2>4
<1> QED  BY <1>0, <1>1, <1>2, <1>3

LEMMA CountZero ==
    ASSUME NEW v, NEW t
    PROVE  CountOf(v, 0, t) = 0
<1>1. {x \in 1 .. 0 : v[x][2] = t} = {}
  OBVIOUS
<1> QED  BY <1>1, FS_EmptySet DEF CountOf

(* The first loop stays within both quotas, and ends with one used up or    *)
(* with the jobs.                                                           *)
LEMMA FirstLoopEnds ==
    ASSUME NEW v \in Seq(Jobs), NEW q \in [c : Nat, i : Nat], NEW cate
    PROVE  LET m == FirstLoop(v, q, cate) IN
           /\ m \in 0 .. Len(v)
           /\ m = Len(v) \/ CountOf(v, m, cate) >= q.c \/ m - CountOf(v, m, cate) >= q.i
           /\ \A x \in 0 .. Len(v) : x < m =>
                 CountOf(v, x, cate) < q.c /\ x - CountOf(v, x, cate) < q.i
           /\ CountOf(v, m, cate) <= q.c /\ m - CountOf(v, m, cate) <= q.i
<1> DEFINE Stop == {m \in 0 .. Len(v) : \/ m = Len(v)
                                        \/ CountOf(v, m, cate) >= q.c
                                        \/ m - CountOf(v, m, cate) >= q.i}
<1>0. Len(v) \in Nat /\ q.c \in Nat /\ q.i \in Nat
  OBVIOUS
<1>1. Stop \in SUBSET Nat /\ Len(v) \in Stop
  BY <1>0
<1>2. PICK x \in Stop : \A y \in Stop : x <= y
  BY <1>1, Least
<1> DEFINE m == FirstLoop(v, q, cate)
<1>3. m \in Stop /\ \A y \in Stop : m <= y
  <2>1. m = CHOOSE z \in Stop : \A y \in Stop : z <= y
    BY DEF FirstLoop, Min
  <2> HIDE DEF Stop, m
  <2> QED  BY <1>2, <2>1
<1> HIDE DEF m
<1>4. ASSUME NEW y \in 0 .. Len(v), y < m
      PROVE  CountOf(v, y, cate) < q.c /\ y - CountOf(v, y, cate) < q.i
  <2>1. y \notin Stop /\ y \in Nat /\ m \in Nat
    BY <1>0, <1>3, <1>4
  <2>2. CountOf(v, y, cate) \in Nat
    BY Counts
  <2> QED  BY <1>0, <2>1, <2>2
<1>5. CountOf(v, m, cate) <= q.c /\ m - CountOf(v, m, cate) <= q.i
  <2>1. CASE m = 0
    <3>1. CountOf(v, 0, cate) = 0
      BY CountZero
    <3> QED  BY <1>0, <2>1, <3>1
  <2>2. CASE m # 0
    <3>1. m \in Nat /\ m > 0 /\ m - 1 \in 0 .. Len(v) /\ m - 1 < m /\ m \in 0 .. Len(v)
      BY <1>0, <1>3, <2>2
    <3>2. CountOf(v, m - 1, cate) < q.c /\ (m - 1) - CountOf(v, m - 1, cate) < q.i
      BY <1>4, <3>1
    <3>3. CountOf(v, m, cate) = CountOf(v, m - 1, cate) + IF v[m][2] = cate THEN 1 ELSE 0
      BY <3>1, Counts
    <3>4. CountOf(v, m - 1, cate) \in Nat
      BY <3>1, Counts
    <3>5. PICK a \in Nat, b \in Int :
             /\ CountOf(v, m - 1, cate) = a /\ CountOf(v, m, cate) = b
             /\ b = a \/ b = a + 1
      BY <3>3, <3>4
    <3> QED  BY <1>0, <3>1, <3>2, <3>5
  <2> QED  BY <2>1, <2>2
<1> QED  BY <1>0, <1>3, <1>4, <1>5 DEF m

(* The second loop takes no more than there is room for: the jobs it takes  *)
(* are counted from 1 to room, each with a number of its own.               *)
LEMMA SecondLoopFits ==
    ASSUME NEW v \in Seq(Jobs), NEW m \in 0 .. Len(v), NEW flag, NEW room \in Nat
    PROVE  LET L == {x \in m + 1 .. Len(v) :
                        v[x][2] = flag /\ CountOf(v, x, flag) - CountOf(v, m, flag) <= room}
           IN  IsFiniteSet(L) /\ Cardinality(L) \in Nat /\ Cardinality(L) <= room
<1> DEFINE L == {x \in m + 1 .. Len(v) :
                    v[x][2] = flag /\ CountOf(v, x, flag) - CountOf(v, m, flag) <= room}
           f == [x \in L |-> CountOf(v, x, flag) - CountOf(v, m, flag)]
           R == 1 .. room
<1>0. Len(v) \in Nat /\ m \in Nat /\ m <= Len(v)
  OBVIOUS
<1>1. \A x \in L : /\ x \in 0 .. Len(v) /\ m < x /\ v[x][2] = flag /\ x \in Nat
                   /\ CountOf(v, x, flag) - CountOf(v, m, flag) <= room
  BY <1>0
<1>8. DOMAIN f = L /\ \A x \in L : f[x] = CountOf(v, x, flag) - CountOf(v, m, flag)
  OBVIOUS
<1>9. f = [x \in L |-> f[x]]
  OBVIOUS
<1> HIDE DEF L, f
<1>2. \A x \in 0 .. Len(v) : CountOf(v, x, flag) \in Nat
  BY Counts
<1>3. ASSUME NEW x \in L, NEW y \in L, x < y PROVE CountOf(v, x, flag) < CountOf(v, y, flag)
  BY <1>1, <1>3, Counts
<1>4. ASSUME NEW x \in L PROVE f[x] \in R
  <2>1. CountOf(v, m, flag) < CountOf(v, x, flag)
    BY <1>1, Counts
  <2>2. CountOf(v, m, flag) \in Nat /\ CountOf(v, x, flag) \in Nat
    BY <1>1, <1>2
  <2> QED  BY <1>1, <1>8, <2>1, <2>2
<1>5. ASSUME NEW x \in L, NEW y \in L, f[x] = f[y] PROVE x = y
  <2>1. CountOf(v, m, flag) \in Nat /\ CountOf(v, x, flag) \in Nat /\ CountOf(v, y, flag) \in Nat
    BY <1>1, <1>2
  <2>2. CountOf(v, x, flag) = CountOf(v, y, flag)
    BY <1>5, <1>8, <2>1
  <2>3. ~(x < y) /\ ~(y < x)
    BY <1>3, <2>1, <2>2
  <2> QED  BY <1>1, <2>3
<1>6. f \in [L -> R]
  BY <1>4, <1>9
<1>7. IsFiniteSet(R) /\ Cardinality(R) = room
  BY FS_Interval
<1> HIDE DEF R
<1>10. f \in Injection(L, R)
  BY <1>5, <1>6 DEF Injection, IsInjective
<1>11. IsFiniteSet(L) /\ Cardinality(L) <= Cardinality(R)
  BY <1>7, <1>10, FS_Injection
<1>12. Cardinality(L) \in Nat
  BY <1>11, FS_CardinalityType
<1> QED  BY <1>7, <1>11, <1>12 DEF L

(* Both loops take positions of v, no more of them than the quotas sum up  *)
(* to.                                                                      *)
LEMMA LoopsTake ==
    ASSUME NEW v \in Seq(Jobs), NEW q \in [c : Nat, i : Nat], NEW cate \in {1, 3}
    PROVE  LET m == FirstLoop(v, q, cate)
               T == 1 .. m \cup SecondLoop(v, q, cate, m)
           IN  /\ m \in 0 .. Len(v) /\ T \in SUBSET DOMAIN v
               /\ IsFiniteSet(T) /\ Cardinality(T) \in Nat
               /\ Cardinality(T) <= q.c + q.i
               /\ m = Len(v) => T = DOMAIN v
<1> DEFINE m == FirstLoop(v, q, cate)
           flag == Flag(v, q, cate, m)
           room == IF flag = cate THEN q.c - CountOf(v, m, cate)
                                  ELSE q.i - (m - CountOf(v, m, cate))
           L == {x \in m + 1 .. Len(v) :
                    v[x][2] = flag /\ CountOf(v, x, flag) - CountOf(v, m, flag) <= room}
<1>1. /\ m \in 0 .. Len(v)
      /\ CountOf(v, m, cate) <= q.c /\ m - CountOf(v, m, cate) <= q.i
  BY FirstLoopEnds
<1>2. SecondLoop(v, q, cate, m) = L
  BY DEF SecondLoop
<1> HIDE DEF m, flag
<1>3. /\ Len(v) \in Nat /\ m \in Nat /\ m <= Len(v) /\ q.c \in Nat /\ q.i \in Nat
      /\ CountOf(v, m, cate) \in Nat /\ CountOf(v, m, cate) <= m
  <2>1. CountOf(v, m, cate) \in Nat /\ CountOf(v, m, cate) <= m
    BY <1>1, Counts
  <2>2. Len(v) \in Nat /\ q.c \in Nat /\ q.i \in Nat
    OBVIOUS
  <2> QED  BY <1>1, <2>1, <2>2
<1>4. room \in Nat /\ m + room <= q.c + q.i
  BY <1>1, <1>3
<1>9. 1 .. m \cup L \in SUBSET DOMAIN v /\ (m = Len(v) => 1 .. m \cup L = DOMAIN v)
  <2>1. L \in SUBSET (m + 1 .. Len(v)) /\ DOMAIN v = 1 .. Len(v)
    OBVIOUS
  <2> HIDE DEF L
  <2>2. m + 1 .. Len(v) \in SUBSET (1 .. Len(v)) /\ 1 .. m \in SUBSET (1 .. Len(v))
    BY <1>3
  <2>3. m = Len(v) => m + 1 .. Len(v) = {}
    BY <1>3
  <2> QED  BY <2>1, <2>2, <2>3
<1>10. (1 .. m) \cap L = {}
  <2>1. L \in SUBSET (m + 1 .. Len(v))
    OBVIOUS
  <2> HIDE DEF L
  <2>2. (1 .. m) \cap (m + 1 .. Len(v)) = {}
    BY <1>3
  <2> QED  BY <2>1, <2>2
<1> HIDE DEF room
<1>5. IsFiniteSet(L) /\ Cardinality(L) \in Nat /\ Cardinality(L) <= room
  BY <1>1, <1>4, SecondLoopFits
<1>6. IsFiniteSet(1 .. m) /\ Cardinality(1 .. m) = m
  BY <1>3, FS_Interval
<1> HIDE DEF L
<1>7. /\ IsFiniteSet(1 .. m \cup L)
      /\ Cardinality(1 .. m \cup L) = m + Cardinality(L) - Cardinality((1 .. m) \cap L)
  BY <1>5, <1>6, FS_Union
<1>8. Cardinality((1 .. m) \cap L) = 0
  BY <1>10, FS_EmptySet
<1>11. Cardinality(1 .. m \cup L) \in Nat /\ Cardinality(1 .. m \cup L) <= q.c + q.i
  BY <1>3, <1>4, <1>5, <1>7, <1>8
<1> QED  BY <1>1, <1>2, <1>7, <1>9, <1>11 DEF m

(* Jobs of two types only. *)
LEMMA TwoTypes ==
    ASSUME NEW v \in Seq(Jobs), NEW cate \in {1, 3},
           \A x \in DOMAIN v : v[x][2] \in {cate, cate - 1},
           NEW n \in 0 .. Len(v)
    PROVE  n - CountOf(v, n, cate) = CountOf(v, n, cate - 1)
<1> DEFINE A == {x \in 1 .. n : v[x][2] = cate}
           B == {x \in 1 .. n : v[x][2] = cate - 1}
<1>0. n \in Nat /\ 1 .. n \in SUBSET DOMAIN v /\ cate # cate - 1
  OBVIOUS
<1>1. 1 .. n = A \cup B /\ A \cap B = {}
  BY <1>0
<1>2. CountOf(v, n, cate) = Cardinality(A) /\ CountOf(v, n, cate - 1) = Cardinality(B)
  BY DEF CountOf
<1>3. IsFiniteSet(A) /\ IsFiniteSet(B) /\ Cardinality(A) \in Nat /\ Cardinality(B) \in Nat
  BY Counts, FS_CardinalityType
<1>4. Cardinality(1 .. n) = n
  BY <1>0, FS_Interval
<1> HIDE DEF A, B
<1>5. Cardinality(A \cup B) = Cardinality(A) + Cardinality(B) - Cardinality(A \cap B)
  BY <1>3, FS_Union
<1>6. Cardinality(A \cap B) = 0
  BY <1>1, FS_EmptySet
<1>8. Cardinality(A \cup B) = n
  BY <1>1, <1>4, Zenon
<1>7. n = Cardinality(A) + Cardinality(B)
  BY <1>3, <1>5, <1>6, <1>8
<1> QED  BY <1>2, <1>3, <1>7

(* Of jobs of its own types a domain gets the oldest of each. *)
LEMMA LoopsTakeOldest ==
    ASSUME NEW v \in Seq(Jobs), NEW q \in [c : Nat, i : Nat], NEW cate \in {1, 3},
           \A x \in DOMAIN v : v[x][2] \in {cate, cate - 1}
    PROVE  LET m == FirstLoop(v, q, cate)
           IN  1 .. m \cup SecondLoop(v, q, cate, m)
                 = Oldest(v, cate, q.c) \cup Oldest(v, cate - 1, q.i)
<1> DEFINE m == FirstLoop(v, q, cate)
           item == cate - 1
<1>0. Len(v) \in Nat /\ q.c \in Nat /\ q.i \in Nat /\ DOMAIN v = 1 .. Len(v)
  OBVIOUS
<1>1. /\ m \in 0 .. Len(v)
      /\ m = Len(v) \/ CountOf(v, m, cate) >= q.c \/ m - CountOf(v, m, cate) >= q.i
      /\ \A x \in 0 .. Len(v) : x < m =>
            CountOf(v, x, cate) < q.c /\ x - CountOf(v, x, cate) < q.i
      /\ CountOf(v, m, cate) <= q.c /\ m - CountOf(v, m, cate) <= q.i
  BY FirstLoopEnds
<1> HIDE DEF m
<1>14. m \in Nat /\ m <= Len(v)
  <2>1. m \in 0 .. Len(v)
    BY <1>1
  <2> QED  BY <1>0, <2>1
<1>2. item # cate /\ item = cate - 1
  OBVIOUS
<1>3. \A n \in 0 .. Len(v) : n - CountOf(v, n, cate) = CountOf(v, n, item)
  BY TwoTypes
<1>13. \A x \in DOMAIN v : v[x][2] \in {cate, item}
  OBVIOUS
<1> HIDE DEF item
<1>4. \A n \in 0 .. Len(v) : CountOf(v, n, cate) \in Nat /\ CountOf(v, n, item) \in Nat
  BY Counts
<1>5. ASSUME NEW x \in 1 .. m
      PROVE  x \in Oldest(v, cate, q.c) \cup Oldest(v, item, q.i)
  <2>1. /\ x \in Nat /\ x \in DOMAIN v /\ x > 0 /\ x - 1 \in 0 .. Len(v) /\ x - 1 < m
        /\ x \in 0 .. Len(v)
    BY <1>0, <1>14
  <2>2. CountOf(v, x - 1, cate) < q.c /\ CountOf(v, x - 1, item) < q.i
    <3>1. (x - 1) - CountOf(v, x - 1, cate) < q.i /\ CountOf(v, x - 1, cate) < q.c
      BY <1>1, <2>1
    <3> QED  BY <1>3, <2>1, <3>1
  <2>3. /\ CountOf(v, x, cate) = CountOf(v, x - 1, cate) + IF v[x][2] = cate THEN 1 ELSE 0
        /\ CountOf(v, x, item) = CountOf(v, x - 1, item) + IF v[x][2] = item THEN 1 ELSE 0
    BY <2>1, Counts
  <2>4. CountOf(v, x - 1, cate) \in Nat /\ CountOf(v, x - 1, item) \in Nat
    BY <1>4, <2>1
  <2>5. CASE v[x][2] = cate
    <3>1. CountOf(v, x, cate) <= q.c
      BY <1>0, <2>2, <2>3, <2>4, <2>5
    <3> QED  BY <2>1, <2>5, <3>1 DEF Oldest
  <2>6. CASE v[x][2] = item
    <3>1. CountOf(v, x, item) <= q.i
      BY <1>0, <2>2, <2>3, <2>4, <2>6
    <3> QED  BY <2>1, <2>6, <3>1 DEF Oldest
  <2> QED  BY <1>13, <2>1, <2>5, <2>6
<1>6. ASSUME NEW x \in m + 1 .. Len(v)
      PROVE  x \in SecondLoop(v, q, cate, m)
               <=> x \in Oldest(v, cate, q.c) \cup Oldest(v, item, q.i)
  <2>1. x \in DOMAIN v /\ x \in 0 .. Len(v) /\ m < x /\ m # Len(v) /\ m \in Nat
    <3>1. x \in Int /\ m + 1 <= x /\ x <= Len(v)
      BY <1>0, <1>14
    <3>2. PICK n \in Nat, l \in Nat : m = n /\ Len(v) = l
      BY <1>0, <1>14
    <3>3. x \in Nat /\ 1 <= x /\ 0 <= x /\ x <= l /\ n < x /\ n # l
      BY <3>1, <3>2
    <3>4. x \in 1 .. l /\ x \in 0 .. l
      BY <3>2, <3>3
    <3> QED  BY <1>0, <3>2, <3>3, <3>4
  <2>2. PICK a \in Nat, b \in Nat, ax \in Nat, bx \in Nat :
             /\ CountOf(v, m, cate) = a /\ CountOf(v, m, item) = b /\ m - a = b
             /\ CountOf(v, x, cate) = ax /\ CountOf(v, x, item) = bx
    BY <1>1, <1>3, <1>4, <2>1
  <2>3. /\ v[x][2] = cate => a < ax
        /\ v[x][2] = item => b < bx
    BY <1>1, <2>1, <2>2, Counts
  <2>4. a <= q.c /\ b <= q.i /\ (a >= q.c \/ b >= q.i)
    BY <1>1, <2>1, <2>2
  <2>5. x \in Oldest(v, cate, q.c) \cup Oldest(v, item, q.i)
           <=> (v[x][2] = cate /\ ax <= q.c) \/ (v[x][2] = item /\ bx <= q.i)
    BY <2>1, <2>2 DEF Oldest
  <2>6. CASE a < q.c
    <3>1. Flag(v, q, cate, m) = cate
      BY <2>2, <2>6 DEF Flag
    <3>2. x \in SecondLoop(v, q, cate, m) <=> v[x][2] = cate /\ ax - a <= q.c - a
      BY <2>2, <3>1 DEF SecondLoop
    <3>3. b >= q.i
      BY <1>0, <2>4, <2>6
    <3> QED  BY <1>0, <2>3, <2>4, <2>5, <3>2, <3>3
  <2>7. CASE ~(a < q.c)
    <3>1. Flag(v, q, cate, m) = item
      BY <1>2, <2>2, <2>7 DEF Flag
    <3>2. x \in SecondLoop(v, q, cate, m) <=> v[x][2] = item /\ bx - b <= q.i - (m - a)
      BY <1>2, <2>2, <3>1 DEF SecondLoop
    <3>3. v[x][2] # item \/ v[x][2] # cate
      BY <1>2
    <3> QED  BY <1>0, <2>2, <2>3, <2>4, <2>5, <2>7, <3>2, <3>3
  <2> QED  BY <2>6, <2>7
<1>7. Oldest(v, cate, q.c) \cup Oldest(v, item, q.i) \in SUBSET (1 .. Len(v))
  BY <1>0 DEF Oldest
<1>8. SecondLoop(v, q, cate, m) \in SUBSET (m + 1 .. Len(v))
  BY DEF SecondLoop
<1>9. \A x \in 1 .. Len(v) : x \in 1 .. m \/ x \in m + 1 .. Len(v)
  BY <1>0, <1>14
<1>10. 1 .. m \cup SecondLoop(v, q, cate, m) = Oldest(v, cate, q.c) \cup Oldest(v, item, q.i)
  BY <1>5, <1>6, <1>7, <1>8, <1>9
<1> QED  BY <1>10 DEF m, item

-----------------------------------------------------------------------------
(* Quotas *)

LEMMA DivType ==
    ASSUME NEW a \in Int, NEW b \in Nat \ {0}
    PROVE  a \div b \in Int
OBVIOUS

LEMMA QuotasType ==
    ASSUME NEW num \in Int, NEW size \in Nat, NEW links \in Nat
    PROVE  Quotas(num, size, links) \in [c : Nat, i : Nat]
<1> DEFINE share == cate_percent * num * size
           all == (cate_percent + item_percent) * links
<1>1. /\ cate_percent \in Nat /\ item_percent \in Nat /\ cate_percent + item_percent > 0
      /\ MinQuota \in Nat
  BY SelectionAssumption
<1>2. \A n \in Int : AtLeast(n) \in Nat
  BY <1>1 DEF AtLeast
<1>3. CASE links = 0
  BY <1>2, <1>3 DEF Quotas
<1>4. CASE links # 0
  <2>1. share \in Int /\ num * size \in Int
    BY <1>1
  <2>2. all \in Nat \ {0}
    <3>1. PICK p \in Nat \ {0} : cate_percent + item_percent = p
      BY <1>1
    <3>2. p * links \in Nat \ {0}
      BY <1>4
    <3> QED  BY <3>1, <3>2
  <2> HIDE DEF share, all
  <2>3. share \div all \in Int
    BY <2>1, <2>2, DivType
  <2>4. (num * size) \div links \in Int
    BY <1>4, <2>1, DivType
  <2>5. AtLeast(share \div all) \in Nat
    BY <1>2, <2>3
  <2>6. AtLeast((num * size) \div links - share \div all + 1) \in Nat
    <3>1. PICK x \in Int, y \in Int : (num * size) \div links = x /\ share \div all = y
      BY <2>3, <2>4
    <3> QED  BY <1>2, <3>1
  <2>7. Quotas(num, size, links)
          = [c |-> AtLeast(share \div all),
             i |-> AtLeast((num * size) \div links - share \div all + 1)]
    BY <1>4 DEF Quotas, share, all
  <2> QED  BY <2>5, <2>6, <2>7
<1> QED  BY <1>3, <1>4

LEMMA QuotasOfType ==
    ASSUME TypeOK, NEW d \in DomainNames
    PROVE  QuotasOf(d) \in [c : Nat, i : Nat]
<1>1. prio_num \in Int
  <2>1. select_nums_per_time \in Nat /\ priority_quota \in 0 .. 10
    BY SelectionAssumption
  <2>2. select_nums_per_time * priority_quota \in Int
    BY <2>1
  <2> QED  BY <2>2 DEF prio_num
<1>2. ord_num \in Int
  <2>1. select_nums_per_time \in Nat /\ prio_count \in Nat
    BY SelectionAssumption DEF TypeOK
  <2> QED  BY <1>1, <2>1 DEF ord_num
<1>3. Len(select_map[d]) \in Nat /\ link_num.p \in Nat /\ link_num.o \in Nat
  BY DEF TypeOK
<1> QED  BY <1>1, <1>2, <1>3, QuotasType DEF QuotasOf

-----------------------------------------------------------------------------
(* The domains served, each once *)

LEMMA OfClassLists ==
    ASSUME NEW c
    PROVE  LET s == OfClass(c) IN
           /\ s \in Seq(DomainNames)
           /\ \A k \in 1 .. Len(s) : s[k] \in DomainNames \ shielded /\ class[s[k]] = c
           /\ \A d \in DomainNames \ shielded :
                 class[d] = c => \E k \in 1 .. Len(s) : s[k] = d
           /\ \A k, l \in 1 .. Len(s) : s[k] = s[l] => k = l
<1> DEFINE D == {d \in DomainNames \ shielded : class[d] = c}
           s == Ascending(D)
<1>1. NumDomains \in Nat
  BY SelectionAssumption
<1>2. D \in SUBSET DomainNames /\ DomainNames \in SUBSET Nat
  BY <1>1 DEF DomainNames
<1>3. OfClass(c) = s
  BY DEF OfClass
<1>7. \A d \in D : d \in DomainNames \ shielded /\ class[d] = c
  OBVIOUS
<1>8. \A d \in DomainNames \ shielded : class[d] = c => d \in D
  OBVIOUS
<1> HIDE DEF D
<1>4. IsFiniteSet(D)
  <2>1. IsFiniteSet(DomainNames)
    BY <1>1, FS_Interval DEF DomainNames
  <2> QED  BY <1>2, <2>1, FS_Subset
<1>5. /\ s \in Seq(D)
      /\ \A k \in DOMAIN s : s[k] \in D
      /\ \A x \in D : \E k \in DOMAIN s : s[k] = x
      /\ \A k, l \in DOMAIN s : s[k] = s[l] => k = l
  <2>1. D \in SUBSET Nat
    BY <1>2
  <2> QED  BY <1>4, <2>1, AscendingLists
<1> HIDE DEF s
<1>6. s \in Seq(DomainNames) /\ DOMAIN s = 1 .. Len(s)
  <2>1. s \in Seq(D) /\ D \subseteq DomainNames
    BY <1>2, <1>5
  <2>2. s \in Seq(DomainNames)
    BY <2>1, SeqMonotonic
  <2> QED  BY <2>1, <2>2
<1> QED  BY <1>3, <1>5, <1>6, <1>7, <1>8

LEMMA ServedLists ==
    ASSUME class \in [DomainNames -> {"none", "seed", "ordinary"}]
    PROVE  /\ Served \in Seq(DomainNames) /\ Len(Served) \in Nat
           /\ \A k \in 1 .. Len(Served) :
                 /\ Served[k] \in DomainNames \ shielded
                 /\ class[Served[k]] \in {"seed", "ordinary"}
           /\ \A d \in DomainNames \ shielded :
                 class[d] # "none" => \E k \in 1 .. Len(Served) : Served[k] = d
           /\ \A k, l \in 1 .. Len(Served) : Served[k] = Served[l] => k = l
<1> DEFINE p == OfClass("seed")
           o == OfClass("ordinary")
<1>1. /\ p \in Seq(DomainNames)
      /\ \A k \in 1 .. Len(p) : p[k] \in DomainNames \ shielded /\ class[p[k]] = "seed"
      /\ \A d \in DomainNames \ shielded :
            class[d] = "seed" => \E k \in 1 .. Len(p) : p[k] = d
      /\ \A k, l \in 1 .. Len(p) : p[k] = p[l] => k = l
  BY OfClassLists
<1>2. /\ o \in Seq(DomainNames)
      /\ \A k \in 1 .. Len(o) : o[k] \in DomainNames \ shielded /\ class[o[k]] = "ordinary"
      /\ \A d \in DomainNames \ shielded :
            class[d] = "ordinary" => \E k \in 1 .. Len(o) : o[k] = d
      /\ \A k, l \in 1 .. Len(o) : o[k] = o[l] => k = l
  BY OfClassLists
<1> HIDE DEF p, o
<1>3. Served = p \o o
  BY DEF Served, p, o
<1>4. Len(p) \in Nat /\ Len(o) \in Nat
  BY <1>1, <1>2
<1>5. /\ Served \in Seq(DomainNames) /\ Len(Served) = Len(p) + Len(o)
      /\ \A k \in 1 .. Len(p) + Len(o) :
            Served[k] = IF k <= Len(p) THEN p[k] ELSE o[k - Len(p)]
  BY <1>1, <1>2, <1>3, ConcatProperties
<1>6. ASSUME NEW k \in 1 .. Len(Served)
      PROVE  \/ k \in 1 .. Len(p) /\ Served[k] = p[k] /\ class[Served[k]] = "seed"
             \/ /\ k - Len(p) \in 1 .. Len(o) /\ Served[k] = o[k - Len(p)]
                /\ class[Served[k]] = "ordinary"
  <2>1. k \in 1 .. Len(p) + Len(o) /\ k \in Nat
    BY <1>4, <1>5
  <2>2. CASE k <= Len(p)
    <3>1. k \in 1 .. Len(p)
      BY <1>4, <2>1, <2>2
    <3> QED  BY <1>1, <1>5, <2>1, <2>2, <3>1
  <2>3. CASE ~(k <= Len(p))
    <3>1. k - Len(p) \in 1 .. Len(o)
      BY <1>4, <2>1, <2>3
    <3>2. Served[k] = o[k - Len(p)]
      BY <1>5, <2>1, <2>3
    <3> QED  BY <1>2, <3>1, <3>2
  <2> QED  BY <2>2, <2>3
<1>7. ASSUME NEW d \in DomainNames \ shielded, class[d] # "none"
      PROVE  \E k \in 1 .. Len(Served) : Served[k] = d
  <2>1. class[d] = "seed" \/ class[d] = "ordinary"
    BY <1>7
  <2>2. CASE class[d] = "seed"
    <3>1. PICK k \in 1 .. Len(p) : p[k] = d
      BY <1>1, <2>2
    <3>2. k \in 1 .. Len(p) + Len(o) /\ k <= Len(p)
      BY <1>4
    <3> QED  BY <1>5, <3>1, <3>2
  <2>3. CASE class[d] = "ordinary"
    <3>1. PICK k \in 1 .. Len(o) : o[k] = d
      BY <1>2, <2>3
    <3>2. k + Len(p) \in 1 .. Len(p) + Len(o) /\ ~(k + Len(p) <= Len(p)) /\ (k + Len(p)) - Len(p) = k
      BY <1>4
    <3>3. Served[k + Len(p)] = d
      BY <1>5, <3>1, <3>2
    <3> QED  BY <1>5, <3>2, <3>3
  <2> QED  BY <2>1, <2>2, <2>3
<1>8. ASSUME NEW k \in 1 .. Len(Served), NEW l \in 1 .. Len(Served), Served[k] = Served[l]
      PROVE  k = l
  <2>1. k \in Int /\ l \in Int
    OBVIOUS
  <2>2. \/ k \in 1 .. Len(p) /\ l \in 1 .. Len(p) /\ p[k] = p[l]
        \/ /\ k - Len(p) \in 1 .. Len(o) /\ l - Len(p) \in 1 .. Len(o)
           /\ o[k - Len(p)] = o[l - Len(p)]
    BY <1>6, <1>8
  <2>3. k = l \/ k - Len(p) = l - Len(p)
    BY <1>1, <1>2, <2>2
  <2> QED  BY <1>4, <2>1, <2>3
<1>9. ASSUME NEW k \in 1 .. Len(Served)
      PROVE  /\ Served[k] \in DomainNames \ shielded
             /\ class[Served[k]] \in {"seed", "ordinary"}
  BY <1>1, <1>2, <1>6
<1> QED  BY <1>4, <1>5, <1>7, <1>8, <1>9

-----------------------------------------------------------------------------
(* One domain *)

(* How many left-overs are used: there are as many, and with them the       *)
(* domain has no more than it wants.                                        *)
LEMMA FillUpFits ==
    ASSUME NEW total \in Nat, NEW want \in Nat, NEW back \in Seq(Jobs)
    PROVE  LET n == FillUp(total, want, back) IN
           /\ n \in 0 .. Len(back)
           /\ n > 0 => total + n <= want
<1> DEFINE n == FillUp(total, want, back)
<1>1. Slack \in Nat /\ Reserve \in Nat /\ Len(back) \in Nat
  BY SelectionAssumption
<1>2. CASE total >= want - Slack
  BY <1>1, <1>2 DEF FillUp
<1>3. CASE ~(total >= want - Slack)
  <2>1. total < want
    BY <1>1, <1>3
  <2> DEFINE avail == Max({Len(back) - Reserve, 0})
  <2>2. avail \in 0 .. Len(back)
    <3>1. avail \in {Len(back) - Reserve, 0} /\ \A y \in {Len(back) - Reserve, 0} : avail >= y
      <4>1. \E x \in {Len(back) - Reserve, 0} : \A y \in {Len(back) - Reserve, 0} : x >= y
        BY <1>1
      <4> QED  BY <4>1 DEF Max
    <3> HIDE DEF avail
    <3> QED  BY <1>1, <3>1
  <2>3. n = Min({want - total, avail})
    BY <1>3 DEF FillUp
  <2> HIDE DEF avail
  <2>4. n \in {want - total, avail} /\ \A y \in {want - total, avail} : n <= y
    <3>1. \E x \in {want - total, avail} : \A y \in {want - total, avail} : x <= y
      BY <2>1, <2>2
    <3> QED  BY <2>3, <3>1 DEF Min
  <2> HIDE DEF n
  <2>5. n \in 0 .. Len(back) /\ total + n <= want
    BY <1>1, <2>1, <2>2, <2>4
  <2> QED  BY <2>5 DEF n
<1> QED  BY <1>2, <1>3

CateOf(d) == IF class[d] = "seed" THEN 3 ELSE 1
BackOf(d) == IF class[d] = "seed" THEN m_select_back_p ELSE m_select_back_o
WantOf(d) == LET q == QuotasOf(d) IN IF class[d] = "seed" THEN q.c + q.c ELSE q.c + q.i
TakenOf(d) == LET v == select_map[d]
                  m == FirstLoop(v, QuotasOf(d), CateOf(d))
              IN  1 .. m \cup SecondLoop(v, QuotasOf(d), CateOf(d), m)

(* What SelectDomain does to the lists: the own jobs of the domain at the   *)
(* positions T, and fill of the left-overs, go to the buffer; rest is left. *)
ListsStep(d, v, T, fill, rest) ==
    /\ m_select_buffer' = m_select_buffer \o At(v, T) \o fill
    /\ m_select_back_p' = IF class[d] = "seed" THEN rest ELSE m_select_back_p
    /\ m_select_back_o' = IF class[d] = "seed" THEN m_select_back_o ELSE rest
    /\ prio_count' = prio_count + (IF class[d] = "seed" THEN Cardinality(T) ELSE 0)
    /\ select_num' = [select_num EXCEPT ![d] = SelectNum(v, T, CateOf(d), fill)]
    /\ select_map' = [select_map EXCEPT ![d] = <<>>]

LEMMA SelectDomainLists ==
    ASSUME TypeOK, SelectDomain
    PROVE  LET d == Served[at]
               v == select_map[d]
               q == QuotasOf(d)
               T == TakenOf(d)
           IN  /\ at \in 1 .. Len(Served) /\ d \in DomainNames \ shielded
               /\ v \in Seq(Jobs) /\ q \in [c : Nat, i : Nat]
               /\ T \in SUBSET DOMAIN v /\ Cardinality(T) \in Nat /\ IsFiniteSet(T)
               /\ Cardinality(T) <= q.c + q.i
               /\ \E fill, rest \in Seq(Jobs) :
                     /\ ListsStep(d, v, T, fill, rest)
                     /\ Len(fill) > 0 => Cardinality(T) + Len(fill) <= WantOf(d)
                     /\ \A x : Occurrences(BackOf(d), x) + Occurrences(At(v, DOMAIN v \ T), x)
                                 = Occurrences(rest, x) + Occurrences(fill, x)
<1> DEFINE d == Served[at]
           v == select_map[d]
           q == QuotasOf(d)
           cate == CateOf(d)
           m == FirstLoop(v, q, cate)
           T == TakenOf(d)
           left == BackOf(d) \o LeftOver(v, T)
           n == IF m = Len(v) THEN 0 ELSE FillUp(Cardinality(T), WantOf(d), left)
           fill == Reverse(SubSeq(left, Len(left) - n + 1, Len(left)))
           rest == SubSeq(left, 1, Len(left) - n)
<1>1. at \in 1 .. Len(Served) /\ d \in DomainNames \ shielded
  <2>1. /\ class \in [DomainNames -> {"none", "seed", "ordinary"}]
        /\ at \in 1 .. (IF pc = "quota" THEN Len(Served) + 1 ELSE 4)
    BY DEF TypeOK
  <2>2. pc = "quota" /\ at <= Len(Served)
    BY DEF SelectDomain
  <2>3. Len(Served) \in Nat
    BY <2>1, ServedLists
  <2>4. at \in 1 .. Len(Served)
    BY <2>1, <2>2, <2>3
  <2> QED  BY <2>1, <2>4, ServedLists
<1>2. v \in Seq(Jobs) /\ BackOf(d) \in Seq(Jobs) /\ cate \in {1, 3}
  BY <1>1 DEF TypeOK, BackOf, CateOf
<1>3. q \in [c : Nat, i : Nat]
  BY <1>1, QuotasOfType
<1>4. WantOf(d) \in Nat
  BY <1>3 DEF WantOf
<1>5. ListsStep(d, v, T, fill, rest)
  <2> DEFINE Fill(ll, nn) == Reverse(SubSeq(ll, Len(ll) - nn + 1, Len(ll)))
             Rest(ll, nn) == SubSeq(ll, 1, Len(ll) - nn)
             Want(dd, qq) == IF class[dd] = "seed" THEN qq.c + qq.c ELSE qq.c + qq.i
  <2>1. PICK dd \in {Served[at]} : \E vv \in {select_map[dd]}, qq \in {QuotasOf(dd)} :
        \E mm \in {FirstLoop(vv, qq, CateOf(dd))} :
        \E TT \in {1 .. mm \cup SecondLoop(vv, qq, CateOf(dd), mm)} :
        \E ll \in {BackOf(dd) \o LeftOver(vv, TT)} :
        \E nn \in {IF mm = Len(vv) THEN 0 ELSE FillUp(Cardinality(TT), Want(dd, qq), ll)} :
           ListsStep(dd, vv, TT, Fill(ll, nn), Rest(ll, nn))
    BY DEF SelectDomain, ListsStep, CateOf, BackOf
  <2> HIDE DEF Fill, Rest, Want
  <2>2. PICK vv \in {select_map[dd]}, qq \in {QuotasOf(dd)} :
        \E mm \in {FirstLoop(vv, qq, CateOf(dd))} :
        \E TT \in {1 .. mm \cup SecondLoop(vv, qq, CateOf(dd), mm)} :
        \E ll \in {BackOf(dd) \o LeftOver(vv, TT)} :
        \E nn \in {IF mm = Len(vv) THEN 0 ELSE FillUp(Cardinality(TT), Want(dd, qq), ll)} :
           ListsStep(dd, vv, TT, Fill(ll, nn), Rest(ll, nn))
    BY <2>1
  <2>3. PICK mm \in {FirstLoop(vv, qq, CateOf(dd))} :
        \E TT \in {1 .. mm \cup SecondLoop(vv, qq, CateOf(dd), mm)} :
        \E ll \in {BackOf(dd) \o LeftOver(vv, TT)} :
        \E nn \in {IF mm = Len(vv) THEN 0 ELSE FillUp(Cardinality(TT), Want(dd, qq), ll)} :
           ListsStep(dd, vv, TT, Fill(ll, nn), Rest(ll, nn))
    BY <2>2
  <2>4. PICK TT \in {1 .. mm \cup SecondLoop(vv, qq, CateOf(dd), mm)} :
        \E ll \in {BackOf(dd) \o LeftOver(vv, TT)} :
        \E nn \in {IF mm = Len(vv) THEN 0 ELSE FillUp(Cardinality(TT), Want(dd, qq), ll)} :
           ListsStep(dd, vv, TT, Fill(ll, nn), Rest(ll, nn))
    BY <2>3
  <2>5. PICK ll \in {BackOf(dd) \o LeftOver(vv, TT)} :
        \E nn \in {IF mm = Len(vv) THEN 0 ELSE FillUp(Cardinality(TT), Want(dd, qq), ll)} :
           ListsStep(dd, vv, TT, Fill(ll, nn), Rest(ll, nn))
    BY <2>4
  <2>6. PICK nn \in {IF mm = Len(vv) THEN 0 ELSE FillUp(Cardinality(TT), Want(dd, qq), ll)} :
           ListsStep(dd, vv, TT, Fill(ll, nn), Rest(ll, nn))
    BY <2>5
  <2>7. dd = d /\ vv = v /\ qq = q /\ CateOf(dd) = cate /\ Want(dd, qq) = WantOf(d)
    BY DEF WantOf, Want
  <2> HIDE DEF d, v, q, cate
  <2>8. mm = m /\ TT = T
    BY <2>7 DEF TakenOf, cate, q, v
  <2>9. ll = left
    BY <2>7, <2>8
  <2>10. nn = n
    BY <2>7, <2>8, <2>9
  <2>11. Fill(left, n) = fill /\ Rest(left, n) = rest
    BY DEF Fill, Rest
  <2> QED  BY <2>6, <2>7, <2>8, <2>9, <2>10, <2>11
<1>6. /\ T \in SUBSET DOMAIN v /\ Cardinality(T) \in Nat /\ IsFiniteSet(T)
      /\ Cardinality(T) <= q.c + q.i
  <2>1. T = 1 .. m \cup SecondLoop(v, q, cate, m)
    BY DEF TakenOf
  <2> HIDE DEF v, q, cate, T
  <2> QED  BY <1>2, <1>3, <2>1, LoopsTake
<1> HIDE DEF d, v, q, cate, T
<1>7. LeftOver(v, T) = At(v, DOMAIN v \ T)
  BY DEF LeftOver
<1>8. At(v, DOMAIN v \ T) \in Seq(Jobs)
  <2>1. DOMAIN v \ T \in SUBSET DOMAIN v
    OBVIOUS
  <2> QED  BY <1>2, <2>1, AtLists
<1>9. left \in Seq(Jobs)
  BY <1>2, <1>7, <1>8, ConcatProperties
<1>10. n \in 0 .. Len(left) /\ (n > 0 => Cardinality(T) + n <= WantOf(d))
  <2> HIDE DEF left, m
  <2>1. Len(left) \in Nat
    BY <1>9
  <2>2. CASE m = Len(v)
    BY <2>1, <2>2
  <2>3. CASE m # Len(v)
    <3>1. n = FillUp(Cardinality(T), WantOf(d), left)
      BY <2>3
    <3> QED  BY <1>4, <1>6, <1>9, <3>1, FillUpFits
  <2> QED  BY <2>2, <2>3
<1> HIDE DEF n
<1>11. ASSUME NEW x
       PROVE  Occurrences(left, x) = Occurrences(BackOf(d), x) + Occurrences(At(v, DOMAIN v \ T), x)
  BY <1>2, <1>7, <1>8, OccurrencesCat
<1> HIDE DEF left
<1>12. fill \in Seq(Jobs) /\ rest \in Seq(Jobs) /\ Len(fill) = n
  BY <1>9, <1>10, Tail_
<1>13. ASSUME NEW x
       PROVE  Occurrences(BackOf(d), x) + Occurrences(At(v, DOMAIN v \ T), x)
                 = Occurrences(rest, x) + Occurrences(fill, x)
  <2>1. Occurrences(left, x) = Occurrences(rest, x) + Occurrences(fill, x)
    BY <1>9, <1>10, Tail_
  <2> QED  BY <1>11, <2>1
<1> HIDE DEF fill, rest
<1>14. \E ff, rr \in Seq(Jobs) :
          /\ ListsStep(d, v, T, ff, rr)
          /\ Len(ff) > 0 => Cardinality(T) + Len(ff) <= WantOf(d)
          /\ \A x : Occurrences(BackOf(d), x) + Occurrences(At(v, DOMAIN v \ T), x)
                      = Occurrences(rr, x) + Occurrences(ff, x)
  BY <1>5, <1>10, <1>12, <1>13
<1> QED  BY <1>1, <1>2, <1>3, <1>6, <1>14 DEF d, v, q, T

-----------------------------------------------------------------------------
(* Between the pools and the round *)

LEMMA JobsInLists ==
    ASSUME NEW q \in Seq(Urls), NEW t \in Types, NEW d
    PROVE  /\ JobsIn(q, t, d) \in Seq(Jobs)
           /\ \A x \in DOMAIN JobsIn(q, t, d) : DomainOf[JobsIn(q, t, d)[x][1]] = d
           /\ \A j \in Jobs : Occurrences(JobsIn(q, t, d), j)
                = IF j[2] = t /\ DomainOf[j[1]] = d THEN Occurrences(q, j[1]) ELSE 0
<1> DEFINE P == {x \in DOMAIN q : DomainOf[q[x]] = d}
           own == At(q, P)
           s == [i \in DOMAIN own |-> <<own[i], t>>]
<1>1. JobsIn(q, t, d) = s
  BY DEF JobsIn
<1>2. P \in SUBSET DOMAIN q /\ \A x \in P : DomainOf[q[x]] = d
  OBVIOUS
<1>12. ASSUME NEW u PROVE {i \in P : q[i] = u} =
            IF DomainOf[u] = d THEN {i \in DOMAIN q : q[i] = u} ELSE {}
  OBVIOUS
<1> HIDE DEF P
<1>3. /\ own \in Seq(Urls)
      /\ \A k \in DOMAIN own : \E x \in P : own[k] = q[x]
  BY <1>2, AtLists
<1>11. ASSUME NEW u PROVE Occurrences(own, u) = Cardinality({i \in P : q[i] = u})
  BY <1>2, OccurrencesAt
<1> HIDE DEF own
<1>4. DOMAIN own = 1 .. Len(own) /\ Len(own) \in Nat /\ DOMAIN s = DOMAIN own
  BY <1>3
<1>5. \A i \in DOMAIN own : s[i] = <<own[i], t>> /\ s[i] \in Jobs /\ DomainOf[own[i]] = d
  BY <1>2, <1>3 DEF Jobs
<1>6. s \in [1 .. Len(own) -> Jobs]
  BY <1>4, <1>5
<1>7. s \in Seq(Jobs)
  BY <1>4, <1>6
<1>8. \A x \in DOMAIN s : DomainOf[s[x][1]] = d
  BY <1>4, <1>5
<1> HIDE DEF s
<1>9. ASSUME NEW j \in Jobs
      PROVE  Occurrences(s, j)
                = IF j[2] = t /\ DomainOf[j[1]] = d THEN Occurrences(q, j[1]) ELSE 0
  <2>0. j = <<j[1], j[2]>>
    BY DEF Jobs
  <2>1. CASE j[2] = t
    <3>1. {i \in DOMAIN s : s[i] = j} = {i \in DOMAIN own : own[i] = j[1]}
      BY <1>4, <1>5, <2>0, <2>1
    <3>2. Occurrences(s, j) = Occurrences(own, j[1])
      BY <3>1 DEF Occurrences
    <3>3. Occurrences(s, j) = Cardinality({i \in P : q[i] = j[1]})
      BY <1>11, <3>2
    <3>4. CASE DomainOf[j[1]] = d
      <4>1. Occurrences(s, j) = Cardinality({i \in DOMAIN q : q[i] = j[1]})
        BY <1>12, <3>3, <3>4
      <4> QED  BY <2>1, <3>4, <4>1 DEF Occurrences
    <3>5. CASE DomainOf[j[1]] # d
      <4>1. Occurrences(s, j) = Cardinality({})
        BY <1>12, <3>3, <3>5
      <4> QED  BY <3>5, <4>1, FS_EmptySet
    <3> QED  BY <3>4, <3>5
  <2>2. CASE j[2] # t
    <3>1. {i \in DOMAIN s : s[i] = j} = {}
      BY <1>4, <1>5, <2>0, <2>2
    <3> QED  BY <2>2, <3>1, FS_EmptySet DEF Occurrences
  <2> QED  BY <2>1, <2>2
<1> QED  BY <1>1, <1>7, <1>8, <1>9

LEMMA UrlsForLists ==
    ASSUME NEW jobs \in Seq(Jobs), NEW t \in Types
    PROVE  /\ UrlsFor(jobs, t) \in Seq(Urls)
           /\ \A u : Occurrences(UrlsFor(jobs, t), u) = Occurrences(jobs, <<u, t>>)
<1> DEFINE P == {x \in DOMAIN jobs : jobs[x][2] = t}
           own == At(jobs, P)
           s == [i \in DOMAIN own |-> own[i][1]]
<1>1. UrlsFor(jobs, t) = s
  BY DEF UrlsFor
<1>2. P \in SUBSET DOMAIN jobs /\ \A x \in P : jobs[x][2] = t
  OBVIOUS
<1>3. ASSUME NEW u PROVE {i \in P : jobs[i] = <<u, t>>} = {i \in DOMAIN jobs : jobs[i] = <<u, t>>}
  OBVIOUS
<1> HIDE DEF P
<1>4. /\ own \in Seq(Jobs)
      /\ \A k \in DOMAIN own : \E x \in P : own[k] = jobs[x]
  BY <1>2, AtLists
<1>5. ASSUME NEW u PROVE Occurrences(own, <<u, t>>) = Cardinality({i \in P : jobs[i] = <<u, t>>})
  BY <1>2, OccurrencesAt
<1> HIDE DEF own
<1>6. DOMAIN own = 1 .. Len(own) /\ Len(own) \in Nat /\ DOMAIN s = DOMAIN own
  BY <1>4
<1>7. \A i \in DOMAIN own : /\ s[i] = own[i][1] /\ own[i] = <<own[i][1], t>>
                            /\ own[i][1] \in Urls
  BY <1>2, <1>4 DEF Jobs
<1>8. s \in [1 .. Len(own) -> Urls]
  BY <1>6, <1>7
<1>9. s \in Seq(Urls)
  BY <1>6, <1>8
<1> HIDE DEF s
<1>10. ASSUME NEW u PROVE Occurrences(s, u) = Occurrences(jobs, <<u, t>>)
  <2>1. {i \in DOMAIN s : s[i] = u} = {i \in DOMAIN own : own[i] = <<u, t>>}
    BY <1>6, <1>7
  <2>2. Occurrences(s, u) = Occurrences(own, <<u, t>>)
    BY <2>1 DEF Occurrences
  <2> QED  BY <1>3, <1>5, <2>2 DEF Occurrences
<1> QED  BY <1>1, <1>9, <1>10

LEMMA GivenBackLists ==
    ASSUME m_select_back_o \in Seq(Jobs), m_select_back_p \in Seq(Jobs)
    PROVE  /\ GivenBack \in Seq(Jobs)
           /\ \A j \in Jobs : Occurrences(GivenBack, j)
                 = (IF j[2] \in {0, 1} THEN Occurrences(m_select_back_o, j) ELSE 0)
                     + (IF j[2] \in {2, 3} THEN Occurrences(m_select_back_p, j) ELSE 0)
<1> DEFINE o == OfTypes(m_select_back_o, {0, 1})
           p == OfTypes(m_select_back_p, {2, 3})
<1>1. o \in Seq(Jobs) /\ p \in Seq(Jobs)
  BY AtLists DEF OfTypes
<1>2. ASSUME NEW j \in Jobs
      PROVE  /\ Occurrences(o, j) = IF j[2] \in {0, 1} THEN Occurrences(m_select_back_o, j) ELSE 0
             /\ Occurrences(p, j) = IF j[2] \in {2, 3} THEN Occurrences(m_select_back_p, j) ELSE 0
  BY OccurrencesOfTypes
<1>3. GivenBack = o \o p
  BY DEF GivenBack
<1> HIDE DEF o, p
<1>4. o \o p \in Seq(Jobs)
  BY <1>1, ConcatProperties
<1>5. ASSUME NEW j \in Jobs
      PROVE  Occurrences(o \o p, j) = Occurrences(o, j) + Occurrences(p, j)
  BY <1>1, OccurrencesCat
<1> QED  BY <1>2, <1>3, <1>4, <1>5

-----------------------------------------------------------------------------
(* Types *)

LEMMA Orders ==
    ASSUME NEW k \in 1 .. 4
    PROVE  DrainOrder[k] \in Types /\ ClearOrder[k] \in Types
<1>1. k = 1 \/ k = 2 \/ k = 3 \/ k = 4
  OBVIOUS
<1> QED  BY <1>1 DEF DrainOrder, ClearOrder, Types

LEMMA PushType ==
    ASSUME PoolTypeOK, NEW w \in Writers, Push(w)
    PROVE  PoolTypeOK'
<1>1. ASSUME NEW j \in Links, push_url(w, j[1], j[2]) PROVE PoolTypeOK'
  <2>1. j \in Jobs /\ j[1] \in Urls /\ j[2] \in Types /\ <<j[1], j[2]>> \in Jobs
    BY SelectionAssumption DEF Jobs
  <2> QED  BY <1>1, <2>1 DEF push_url, PoolTypeOK
<1>2. ASSUME push_back(w) PROVE PoolTypeOK'
  <2>1. hand[w] \in Jobs
    BY <1>2 DEF push_back, PoolTypeOK
  <2>2. hand[w][1] \in Urls /\ hand[w][2] \in Types
    BY <2>1 DEF Jobs
  <2> QED  BY <1>2, <2>2 DEF push_back, PoolTypeOK
<1> QED  BY <1>1, <1>2 DEF Push

LEMMA EnterType ==
    ASSUME PoolTypeOK, NEW S \in SUBSET Urls, IsFiniteSet(S), NEW t \in Types, Enter(S, t)
    PROVE  /\ PoolTypeOK'
           /\ SetToSeq(S \ m_url_set[t]) \in Seq(Urls)
           /\ SetToSeq(S \ m_url_set[t]) \in Seq(S \ m_url_set[t])
<1> DEFINE new == S \ m_url_set[t]
<1>1. IsFiniteSet(new) /\ new \subseteq Urls
  <2>1. new \in SUBSET S
    OBVIOUS
  <2> QED  BY <2>1, FS_Subset
<1>2. SetToSeq(new) \in Seq(new)
  BY <1>1, SetListed
<1>3. SetToSeq(new) \in Seq(Urls)
  BY <1>1, <1>2, SeqMonotonic
<1>4. m_url_queue[t] \o SetToSeq(new) \in Seq(Urls)
  BY <1>3, ConcatProperties DEF PoolTypeOK
<1>5. /\ m_url_queue' = [m_url_queue EXCEPT ![t] = m_url_queue[t] \o SetToSeq(new)]
      /\ m_url_set' = [m_url_set EXCEPT ![t] = m_url_set[t] \cup S] /\ hand' = hand
  BY DEF Enter
<1> HIDE DEF new
<1>6. PoolTypeOK'
  BY <1>4, <1>5 DEF PoolTypeOK
<1> QED  BY <1>2, <1>3, <1>6 DEF new

LEMMA InputFinite ==
    /\ \A S \in SUBSET Input : S \in SUBSET Urls /\ IsFiniteSet(S)
    /\ \A S \in SUBSET Seeds : S \in SUBSET Urls /\ IsFiniteSet(S)
<1>1. /\ Input \subseteq Urls /\ Seeds \subseteq Urls
      /\ IsFiniteSet(Input) /\ IsFiniteSet(Seeds)
  BY SelectionAssumption
<1> QED  BY <1>1, FS_Subset

LEMMA ServedSame ==
    ASSUME UNCHANGED <<class, shielded>>
    PROVE  Served' = Served
BY DEF Served, OfClass

(* The numbers noted for a domain are those of the jobs put in the buffer. *)
LEMMA SelectNumType ==
    ASSUME NEW v \in Seq(Jobs), NEW T \in SUBSET DOMAIN v, IsFiniteSet(T), NEW cate,
           NEW fill \in Seq(Jobs)
    PROVE  /\ SelectNum(v, T, cate, fill) \in [item : Nat, cate : Nat]
           /\ SelectNum(v, T, cate, fill).item + SelectNum(v, T, cate, fill).cate
                = Cardinality(T) + Len(fill)
<1> DEFINE A == {x \in T : v[x][2] = cate}
           B == {x \in DOMAIN fill : fill[x][2] # 0}
<1>1. SelectNum(v, T, cate, fill)
        = [item |-> Cardinality(T) + Len(fill) - (Cardinality(A) + Cardinality(B)),
           cate |-> Cardinality(A) + Cardinality(B)]
  BY DEF SelectNum
<1>2. A \in SUBSET T /\ B \in SUBSET (1 .. Len(fill)) /\ Len(fill) \in Nat
  OBVIOUS
<1>3. IsFiniteSet(1 .. Len(fill)) /\ Cardinality(1 .. Len(fill)) = Len(fill)
  BY <1>2, UpTo
<1> HIDE DEF A, B
<1>4. /\ IsFiniteSet(A) /\ Cardinality(A) <= Cardinality(T)
      /\ IsFiniteSet(B) /\ Cardinality(B) <= Len(fill)
  BY <1>2, <1>3, FS_Subset
<1>5. Cardinality(A) \in Nat /\ Cardinality(B) \in Nat /\ Cardinality(T) \in Nat
  BY <1>4, FS_CardinalityType
<1>6. PICK a \in Nat, b \in Nat, c \in Nat, n \in Nat :
          /\ a = Cardinality(A) /\ b = Cardinality(B) /\ c = Cardinality(T) /\ n = Len(fill)
          /\ a <= c /\ b <= n
  BY <1>2, <1>4, <1>5
<1>7. c + n - (a + b) \in Nat /\ a + b \in Nat /\ (c + n - (a + b)) + (a + b) = c + n
  BY <1>6
<1> QED  BY <1>1, <1>6, <1>7

LEMMA SelectDomainType ==
    ASSUME TypeOK, SelectDomain
    PROVE  TypeOK'
<1> DEFINE d == Served[at]
           v == select_map[d]
           T == TakenOf(d)
<1>1. /\ at \in 1 .. Len(Served) /\ d \in DomainNames
      /\ v \in Seq(Jobs) /\ T \in SUBSET DOMAIN v /\ Cardinality(T) \in Nat /\ IsFiniteSet(T)
  BY SelectDomainLists
<1>2. PICK fill \in Seq(Jobs), rest \in Seq(Jobs) : ListsStep(d, v, T, fill, rest)
  BY SelectDomainLists
<1>3. /\ at' = at + 1 /\ pc = "quota"
      /\ UNCHANGED <<poolVars, domainVars, pc, copied, link_num, carried, m_select_rounds>>
  BY DEF SelectDomain
<1>4. Served' = Served
  BY <1>3, ServedSame DEF domainVars
<1> HIDE DEF d, v, T
<1>5. at' \in 1 .. (IF pc' = "quota" THEN Len(Served)' + 1 ELSE 4)
  <2>1. Len(Served) \in Nat
    BY ServedLists DEF TypeOK
  <2>2. at + 1 \in 1 .. Len(Served) + 1
    BY <1>1, <2>1
  <2> QED  BY <1>3, <1>4, <2>2
<1>6. At(v, T) \in Seq(Jobs)
  BY <1>1, AtLists
<1>7. m_select_buffer' \in Seq(Jobs)
  <2>1. m_select_buffer \in Seq(Jobs)
    BY DEF TypeOK
  <2>2. m_select_buffer \o At(v, T) \in Seq(Jobs)
    BY <1>6, <2>1, ConcatProperties
  <2>3. (m_select_buffer \o At(v, T)) \o fill \in Seq(Jobs)
    BY <2>2, ConcatProperties
  <2> QED  BY <1>2, <2>3 DEF ListsStep
<1>8. m_select_back_p' \in Seq(Jobs) /\ m_select_back_o' \in Seq(Jobs)
  BY <1>2 DEF ListsStep, TypeOK
<1>9. prio_count' \in Nat
  BY <1>1, <1>2 DEF ListsStep, TypeOK
<1>10. select_num' \in [DomainNames -> [item : Nat, cate : Nat]]
  <2>1. SelectNum(v, T, CateOf(d), fill) \in [item : Nat, cate : Nat]
    BY <1>1, SelectNumType
  <2>2. select_num \in [DomainNames -> [item : Nat, cate : Nat]]
    BY DEF TypeOK
  <2>3. select_num' = [select_num EXCEPT ![d] = SelectNum(v, T, CateOf(d), fill)]
    BY <1>2 DEF ListsStep
  <2> QED  BY <1>1, <2>1, <2>2, <2>3
<1>11. select_map' \in [DomainNames -> Seq(Jobs)]
  <2>1. select_map' = [select_map EXCEPT ![d] = <<>>] /\ <<>> \in Seq(Jobs)
    BY <1>2 DEF ListsStep
  <2> QED  BY <1>1, <2>1 DEF TypeOK
<1>12. PoolTypeOK'
  BY <1>3 DEF TypeOK, PoolTypeOK, poolVars
<1> QED  BY <1>3, <1>5, <1>7, <1>8, <1>9, <1>10, <1>11, <1>12 DEF TypeOK, domainVars

(* What an update of the configuration or the input changes. *)
LEMMA DomainsType ==
    ASSUME TypeOK, load_input_urls \/ update_conf
    PROVE  TypeOK'
<1> USE SelectionAssumption
<1>1. CASE load_input_urls
  <2>1. PICK S \in SUBSET Input :
           /\ Enter(S, 1)
           /\ class' = [d \in DomainNames |-> IF d \in DomainsOf(S) THEN "ordinary" ELSE "none"]
    BY <1>1 DEF load_input_urls
  <2>2. PoolTypeOK'
    <3>1. S \in SUBSET Urls /\ IsFiniteSet(S) /\ 1 \in Types /\ PoolTypeOK
      BY InputFinite DEF Types, TypeOK
    <3> QED  BY <2>1, <3>1, EnterType
  <2>3. class' \in [DomainNames -> {"none", "seed", "ordinary"}]
    BY <2>1
  <2>4. /\ shielded' = {} /\ pc' = "conf" /\ pc = "load"
        /\ UNCHANGED <<edits, at, roundVars, listVars, m_select_rounds>>
    BY <1>1 DEF load_input_urls
  <2>5. at \in 1 .. 4
    BY <2>4 DEF TypeOK
  <2> QED  BY <2>2, <2>3, <2>4, <2>5 DEF TypeOK, roundVars, listVars
<1>2. CASE update_conf
  <2>1. /\ pc' = "start" /\ pc = "conf" /\ UNCHANGED <<at, roundVars, listVars>>
        /\ m_select_rounds' = IF m_select_rounds > MinRounds THEN m_select_rounds
                                                            ELSE m_select_rounds + 1
    BY <1>2 DEF update_conf
  <2>2. at \in 1 .. 4
    BY <2>1 DEF TypeOK
  <2>3. m_select_rounds' \in 0 .. MinRounds + 1
    <3>1. MinRounds \in Nat /\ m_select_rounds \in 0 .. MinRounds + 1
      BY DEF TypeOK
    <3> QED  BY <2>1, <3>1
  <2>4. /\ PoolTypeOK' /\ shielded' \subseteq DomainNames /\ edits' \in 0 .. MaxEdits
        /\ class' \in [DomainNames -> {"none", "seed", "ordinary"}]
    <3>1. CASE UNCHANGED <<poolVars, domainVars>>
      BY <3>1 DEF TypeOK, PoolTypeOK, poolVars, domainVars
    <3>2. CASE ~UNCHANGED <<poolVars, domainVars>>
      <4>1. edits < MaxEdits /\ edits' = edits + 1
        BY <1>2, <3>2 DEF update_conf
      <4>2. PICK L \in SUBSET DomainNames, S \in SUBSET Seeds :
               /\ Enter(S, 3) /\ shielded' = L
               /\ class' = [d \in DomainNames |->
                     CASE d \in DomainsOf(S) -> "seed"
                       [] d \in L \ DomainsOf(S) /\ class[d] = "none" -> "ordinary"
                       [] OTHER -> class[d]]
        BY <1>2, <3>2 DEF update_conf
      <4>3. PoolTypeOK'
        <5>1. S \in SUBSET Urls /\ IsFiniteSet(S) /\ 3 \in Types /\ PoolTypeOK
          BY InputFinite DEF Types, TypeOK
        <5> QED  BY <4>2, <5>1, EnterType
      <4>4. edits' \in 0 .. MaxEdits
        <5>1. MaxEdits \in Nat /\ edits \in 0 .. MaxEdits
          BY DEF TypeOK
        <5> QED  BY <4>1, <5>1
      <4>5. class' \in [DomainNames -> {"none", "seed", "ordinary"}]
        <5>1. class \in [DomainNames -> {"none", "seed", "ordinary"}]
          BY DEF TypeOK
        <5>2. \A d \in DomainNames :
                 (CASE d \in DomainsOf(S) -> "seed"
                   [] d \in L \ DomainsOf(S) /\ class[d] = "none" -> "ordinary"
                   [] OTHER -> class[d]) \in {"none", "seed", "ordinary"}
          BY <5>1
        <5> QED  BY <4>2, <5>2
      <4> QED  BY <4>2, <4>3, <4>4, <4>5
    <3> QED  BY <3>1, <3>2
  <2> QED  BY <2>1, <2>2, <2>3, <2>4 DEF TypeOK, roundVars, listVars
<1> QED  BY <1>1, <1>2

LEMMA CopyType ==
    ASSUME TypeOK, Copy
    PROVE  /\ TypeOK' /\ at \in 1 .. 4 /\ DrainOrder[at] \in Types
           /\ m_url_queue[DrainOrder[at]] \in Seq(Urls)
<1> DEFINE t == DrainOrder[at]
           q == m_url_queue[t]
<1>1. at \in 1 .. 4 /\ pc = "copy"
  BY DEF Copy, TypeOK
<1>2. t \in Types
  BY <1>1, Orders
<1>3. q \in Seq(Urls)
  BY <1>2 DEF TypeOK, PoolTypeOK
<1>4. /\ select_map' = [d \in DomainNames |-> IF class[d] = "none" THEN <<>>
                                               ELSE select_map[d] \o JobsIn(q, t, d)]
      /\ copied' = Len(q) /\ pc' = "clear"
      /\ UNCHANGED <<poolVars, domainVars, at, link_num, prio_count, select_num,
                       carried, listVars, m_select_rounds>>
  BY DEF Copy
<1> HIDE DEF t, q
<1>5. \A d \in DomainNames : select_map[d] \o JobsIn(q, t, d) \in Seq(Jobs)
  BY <1>2, <1>3, JobsInLists, ConcatProperties DEF TypeOK
<1>6. select_map' \in [DomainNames -> Seq(Jobs)]
  <2>1. <<>> \in Seq(Jobs)
    OBVIOUS
  <2> QED  BY <1>4, <1>5, <2>1
<1>7. copied' \in Nat
  BY <1>3, <1>4
<1>8. PoolTypeOK'
  BY <1>4 DEF TypeOK, PoolTypeOK, poolVars
<1>9. TypeOK'
  BY <1>1, <1>4, <1>6, <1>7, <1>8 DEF TypeOK, domainVars, listVars
<1> QED  BY <1>1, <1>2, <1>3, <1>9 DEF t, q

LEMMA InsertType ==
    ASSUME TypeOK, insert_url
    PROVE  TypeOK'
<1>1. /\ m_url_queue' = [t \in Types |-> m_url_queue[t] \o UrlsFor(GivenBack, t)]
      /\ UNCHANGED <<m_url_set, hand>>
      /\ m_select_back_o' = <<>> /\ m_select_back_p' = <<>> /\ m_select_buffer' = <<>>
      /\ pc' = "conf" /\ pc = "insert" /\ UNCHANGED <<domainVars, at, roundVars, m_select_rounds>>
  BY DEF insert_url, add_to_que
<1>2. GivenBack \in Seq(Jobs)
  BY GivenBackLists DEF TypeOK
<1>3. \A t \in Types : m_url_queue[t] \o UrlsFor(GivenBack, t) \in Seq(Urls)
  BY <1>2, UrlsForLists, ConcatProperties DEF TypeOK, PoolTypeOK
<1>4. m_url_queue' \in [Types -> Seq(Urls)]
  BY <1>1, <1>3
<1>5. PoolTypeOK'
  BY <1>1, <1>4 DEF TypeOK, PoolTypeOK
<1>6. at \in 1 .. 4
  BY <1>1 DEF TypeOK
<1>7. <<>> \in Seq(Jobs)
  OBVIOUS
<1> QED  BY <1>1, <1>5, <1>6, <1>7 DEF TypeOK, domainVars, roundVars

LEMMA TypeNext ==
    ASSUME TypeOK, [Next]_vars
    PROVE  TypeOK'
<1>0. pc # "quota" => at \in 1 .. 4
  BY DEF TypeOK
<1>1. CASE load_input_urls
  BY <1>1, DomainsType
<1>2. CASE update_conf
  BY <1>2, DomainsType
<1>3. CASE Start
  <2>1. /\ pc = "start" /\ pc' = "copy" /\ at' = 1 /\ prio_count' = 0
        /\ link_num' = [p |-> Len(m_url_queue[3]) + Len(m_url_queue[2]),
                        o |-> Len(m_url_queue[1]) + Len(m_url_queue[0])]
        /\ carried' = Len(m_select_buffer)
        /\ UNCHANGED <<poolVars, domainVars, copied, select_map, select_num, listVars,
                       m_select_rounds>>
    BY <1>3 DEF Start
  <2>2. /\ Len(m_url_queue[0]) \in Nat /\ Len(m_url_queue[1]) \in Nat
        /\ Len(m_url_queue[2]) \in Nat /\ Len(m_url_queue[3]) \in Nat
    <3>1. \A t \in Types : Len(m_url_queue[t]) \in Nat
      BY DEF TypeOK, PoolTypeOK
    <3>2. 0 \in Types /\ 1 \in Types /\ 2 \in Types /\ 3 \in Types
      BY DEF Types
    <3> QED  BY <3>1, <3>2
  <2>3. link_num' \in [p : Nat, o : Nat]
    <3>1. PICK a \in Nat, b \in Nat, c \in Nat, e \in Nat :
             /\ Len(m_url_queue[3]) = a /\ Len(m_url_queue[2]) = b
             /\ Len(m_url_queue[1]) = c /\ Len(m_url_queue[0]) = e
      BY <2>2
    <3>2. link_num' = [p |-> a + b, o |-> c + e]
      BY <2>1, <3>1
    <3> QED  BY <3>2
  <2>5. carried' \in Nat
    BY <2>1 DEF TypeOK
  <2>4. PoolTypeOK'
    BY <2>1 DEF TypeOK, PoolTypeOK, poolVars
  <2>6. pc' # "quota" /\ at' \in 1 .. 4 /\ prio_count' \in Nat
    BY <2>1
  <2> QED  BY <2>1, <2>3, <2>4, <2>5, <2>6 DEF TypeOK, domainVars, listVars
<1>4. CASE Hang
  <2>1. /\ pc = "copy" /\ pc' = "hung"
        /\ UNCHANGED <<poolVars, domainVars, at, roundVars, listVars, m_select_rounds>>
    BY <1>4 DEF Hang
  <2>2. PoolTypeOK'
    BY <2>1 DEF TypeOK, PoolTypeOK, poolVars
  <2> QED  BY <1>0, <2>1, <2>2 DEF TypeOK, domainVars, roundVars, listVars
<1>5. CASE Copy
  BY <1>5, CopyType
<1>6. CASE ClearDrained
  <2>1. /\ pc = "clear" /\ copied' = 0
        /\ m_url_queue' = [m_url_queue EXCEPT ![DrainOrder[at]] = <<>>]
        /\ IF at < 4 THEN pc' = "copy" /\ at' = at + 1 ELSE pc' = "quota" /\ at' = 1
        /\ UNCHANGED <<m_url_set, hand, domainVars, link_num, prio_count,
                       select_map, select_num, carried, listVars, m_select_rounds>>
    BY <1>6 DEF ClearDrained
  <2>2. PoolTypeOK'
    <3>1. <<>> \in Seq(Urls)
      OBVIOUS
    <3> QED  BY <1>0, <2>1, <3>1 DEF TypeOK, PoolTypeOK
  <2>3. at' \in 1 .. (IF pc' = "quota" THEN Len(Served)' + 1 ELSE 4)
    <3>1. Len(Served) \in Nat
      BY ServedLists DEF TypeOK
    <3>2. Served' = Served
      BY <2>1, ServedSame DEF domainVars
    <3>3. CASE at < 4
      BY <1>0, <2>1, <3>3
    <3>4. CASE ~(at < 4)
      BY <2>1, <3>1, <3>2, <3>4
    <3> QED  BY <3>3, <3>4
  <2>4. pc' \in {"copy", "quota"}
    BY <2>1
  <2> QED  BY <2>1, <2>2, <2>3, <2>4 DEF TypeOK, domainVars, listVars
<1>7. CASE SelectDomain
  BY <1>7, SelectDomainType
<1>8. CASE Judge
  <2>1. /\ select_num' = ZeroNums /\ select_map' = EmptyMap /\ at' = 1
        /\ pc' \in {"drop_queue", "insert"} /\ m_select_rounds' \in {0, m_select_rounds}
        /\ carried' = 0 /\ link_num' = [p |-> 0, o |-> 0] /\ prio_count' = 0
        /\ UNCHANGED <<poolVars, domainVars, copied, listVars>>
    BY <1>8 DEF Judge
  <2>2. /\ ZeroNums \in [DomainNames -> [item : Nat, cate : Nat]]
        /\ EmptyMap \in [DomainNames -> Seq(Jobs)]
    BY DEF ZeroNums, EmptyMap
  <2>3. m_select_rounds' \in 0 .. MinRounds + 1
    <3>1. MinRounds \in Nat /\ m_select_rounds \in 0 .. MinRounds + 1
      BY SelectionAssumption DEF TypeOK
    <3> QED  BY <2>1, <3>1
  <2>4. PoolTypeOK'
    BY <2>1 DEF TypeOK, PoolTypeOK, poolVars
  <2> QED  BY <2>1, <2>2, <2>3, <2>4 DEF TypeOK, domainVars, listVars
<1>9. CASE insert_url
  BY <1>9, InsertType
<1>10. CASE DropQueue
  <2>1. /\ pc = "drop_queue" /\ pc' = "drop_set"
        /\ m_url_queue' = [m_url_queue EXCEPT ![ClearOrder[at]] = <<>>]
        /\ UNCHANGED <<m_url_set, hand, domainVars, at, roundVars, listVars, m_select_rounds>>
    BY <1>10 DEF DropQueue, ClearQueue
  <2>2. PoolTypeOK'
    <3>1. <<>> \in Seq(Urls)
      OBVIOUS
    <3> QED  BY <2>1, <3>1 DEF TypeOK, PoolTypeOK
  <2> QED  BY <1>0, <2>1, <2>2 DEF TypeOK, domainVars, roundVars, listVars
<1>11. CASE DropSet
  <2>1. /\ pc = "drop_set"
        /\ m_url_set' = [m_url_set EXCEPT ![ClearOrder[at]] = {}]
        /\ IF at < 4 THEN pc' = "drop_queue" /\ at' = at + 1 ELSE pc' = "load" /\ at' = 1
        /\ UNCHANGED <<m_url_queue, hand, domainVars, roundVars, listVars, m_select_rounds>>
    BY <1>11 DEF DropSet, ClearSet
  <2>2. PoolTypeOK'
    BY <2>1 DEF TypeOK, PoolTypeOK
  <2>3. at' \in 1 .. 4 /\ pc' \in {"drop_queue", "load"}
    BY <1>0, <2>1
  <2> QED  BY <2>1, <2>2, <2>3 DEF TypeOK, domainVars, roundVars, listVars
<1>12. ASSUME NEW w \in Writers, Push(w) PROVE TypeOK'
  <2>1. PoolTypeOK'
    BY <1>12, PushType DEF TypeOK
  <2>2. UNCHANGED <<domainVars, pc, at, roundVars, listVars, m_select_rounds>>
    BY <1>12 DEF Push
  <2>3. Served' = Served
    BY <2>2, ServedSame DEF domainVars
  <2> QED  BY <2>1, <2>2, <2>3 DEF TypeOK, domainVars, roundVars, listVars
<1>13. CASE UNCHANGED vars
  <2>1. Served' = Served
    BY <1>13, ServedSame DEF vars, domainVars
  <2>2. PoolTypeOK'
    BY <1>13 DEF TypeOK, PoolTypeOK, vars, poolVars
  <2> QED  BY <1>13, <2>1, <2>2 DEF TypeOK, vars, domainVars, roundVars, listVars
<1> QED  BY <1>1, <1>2, <1>3, <1>4, <1>5, <1>6, <1>7, <1>8, <1>9, <1>10, <1>11, <1>12, <1>13
         DEF Next, SelectStep

(* The state of the selection has its types: no list runs past its pool or *)
(* its domains, and no number noted goes below 0.                          *)
THEOREM SelectionType == Spec => []TypeOK
<1>1. Init => TypeOK
  <2> SUFFICES ASSUME Init PROVE TypeOK
    OBVIOUS
  <2> USE SelectionAssumption
  <2>1. PoolTypeOK
    <3>1. <<>> \in Seq(Urls)
      OBVIOUS
    <3> QED  BY <3>1 DEF Init, PoolInit, PoolTypeOK
  <2>2. MinRounds \in Nat /\ MaxEdits \in Nat
    OBVIOUS
  <2>3. <<>> \in Seq(Jobs)
    OBVIOUS
  <2> QED  BY <2>1, <2>2, <2>3 DEF Init, TypeOK, EmptyMap, ZeroNums
<1>2. TypeOK /\ [Next]_vars => TypeOK'
  BY TypeNext
<1> QED  BY <1>1, <1>2, PTL DEF Spec

-----------------------------------------------------------------------------
(* The round *)

(* What has been taken over from the pools is sorted by domain, ...        *)
OwnJobs == \A d \in DomainNames : \A x \in DOMAIN select_map[d] :
              DomainOf[select_map[d][x][1]] = d

(* ... and a domain that was served, or has no class, has none of it: at   *)
(* the end of a round only the shielded ones have.                         *)
MapServed ==
    /\ pc \notin {"copy", "clear", "quota", "hung"} => select_map = EmptyMap
    /\ pc \in {"copy", "clear", "quota"} =>
          \A d \in DomainNames : class[d] = "none" => select_map[d] = <<>>
    /\ pc = "quota" =>
          \A d \in DomainNames : \/ select_map[d] = <<>> \/ d \in shielded
                                 \/ \E k \in at .. Len(Served) : Served[k] = d

(* The queue grows behind what was copied. *)
CopiedWithin == pc = "clear" => copied <= Len(m_url_queue[DrainOrder[at]])

(* Nothing is noted yet for the domains to come. *)
Zero == [item |-> 0, cate |-> 0]

NumsReset ==
    /\ pc # "quota" => select_num = ZeroNums
    /\ pc \in {"copy", "clear"} => carried = Len(m_select_buffer)
    /\ pc = "quota" => /\ \A k \in at .. Len(Served) : select_num[Served[k]] = Zero
                       /\ IsFiniteSet(Noted)

RoundInv == OwnJobs /\ MapServed /\ CopiedWithin /\ NumsReset /\ NumbersAddUp

LEMMA OwnJobsNext ==
    ASSUME TypeOK, OwnJobs, [Next]_vars
    PROVE  OwnJobs'
<1>1. CASE select_map' = select_map
  BY <1>1 DEF OwnJobs
<1>2. CASE Copy
  <2> DEFINE t == DrainOrder[at]
             q == m_url_queue[t]
  <2>1. t \in Types /\ q \in Seq(Urls)
    BY <1>2, CopyType
  <2>2. select_map' = [d \in DomainNames |-> IF class[d] = "none" THEN <<>>
                                               ELSE select_map[d] \o JobsIn(q, t, d)]
    BY <1>2 DEF Copy
  <2> HIDE DEF t, q
  <2> SUFFICES ASSUME NEW d \in DomainNames, NEW x \in DOMAIN select_map'[d]
               PROVE  DomainOf[select_map'[d][x][1]] = d
    BY DEF OwnJobs
  <2>3. CASE class[d] = "none"
    <3>1. select_map'[d] = <<>>
      BY <2>2, <2>3
    <3> QED  BY <3>1
  <2>4. CASE class[d] # "none"
    <3> DEFINE s == select_map[d]
               r == JobsIn(q, t, d)
    <3>1. /\ s \in Seq(Jobs) /\ r \in Seq(Jobs) /\ select_map'[d] = s \o r
          /\ \A y \in DOMAIN s : DomainOf[s[y][1]] = d
          /\ \A y \in DOMAIN r : DomainOf[r[y][1]] = d
      BY <2>1, <2>2, <2>4, JobsInLists DEF TypeOK, OwnJobs
    <3> HIDE DEF s, r
    <3>2. Len(s) \in Nat /\ Len(r) \in Nat /\ x \in 1 .. Len(s) + Len(r)
      BY <3>1, ConcatProperties
    <3>3. (s \o r)[x] = IF x <= Len(s) THEN s[x] ELSE r[x - Len(s)]
      BY <3>1, <3>2, ConcatProperties
    <3>4. CASE x <= Len(s)
      <4>1. x \in DOMAIN s
        BY <3>1, <3>2, <3>4
      <4> QED  BY <3>1, <3>3, <3>4, <4>1
    <3>5. CASE ~(x <= Len(s))
      <4>1. x - Len(s) \in DOMAIN r
        BY <3>1, <3>2, <3>5
      <4> QED  BY <3>1, <3>3, <3>5, <4>1
    <3> QED  BY <3>4, <3>5
  <2> QED  BY <2>3, <2>4
<1>3. CASE SelectDomain
  <2>1. PICK d \in DomainNames : select_map' = [select_map EXCEPT ![d] = <<>>]
    BY <1>3, SelectDomainLists DEF ListsStep
  <2> QED  BY <2>1 DEF OwnJobs, TypeOK
<1>4. CASE Judge
  BY <1>4 DEF Judge, EmptyMap, OwnJobs
<1> QED  BY <1>1, <1>2, <1>3, <1>4
         DEF Next, SelectStep, load_input_urls, update_conf, Start, Hang, ClearDrained,
             insert_url, DropQueue, DropSet, Push, roundVars, vars

LEMMA MapServedNext ==
    ASSUME TypeOK, MapServed, [Next]_vars
    PROVE  MapServed'
<1> DEFINE Out == {"load", "conf", "start", "insert", "drop_queue", "drop_set"}
<1>0. pc \in Out => select_map = EmptyMap
  BY DEF MapServed
<1>1. ASSUME select_map' = select_map, pc \in Out, pc' \in Out
      PROVE  MapServed'
  BY <1>0, <1>1 DEF MapServed, EmptyMap
<1>2. ASSUME UNCHANGED <<select_map, class, shielded, pc, at>>
      PROVE  MapServed'
  <2>1. Served' = Served
    BY <1>2, ServedSame
  <2> QED  BY <1>2, <2>1 DEF MapServed, EmptyMap
<1>3. CASE Start
  <2>1. pc = "start" /\ pc' = "copy" /\ select_map' = select_map
    BY <1>3 DEF Start
  <2> QED  BY <1>0, <2>1 DEF MapServed, EmptyMap
<1>4. CASE Hang
  BY <1>4 DEF Hang, MapServed
<1>5. CASE Copy
  <2>1. /\ pc = "copy" /\ pc' = "clear" /\ class' = class
        /\ \A d \in DomainNames : class[d] = "none" => select_map'[d] = <<>>
    BY <1>5 DEF Copy, domainVars
  <2> QED  BY <2>1 DEF MapServed
<1>6. CASE ClearDrained
  <2>1. /\ pc = "clear" /\ UNCHANGED <<class, shielded, select_map>>
        /\ pc' = "copy" \/ (pc' = "quota" /\ at' = 1)
    BY <1>6 DEF ClearDrained, domainVars
  <2>2. \A d \in DomainNames : class[d] = "none" => select_map[d] = <<>>
    BY <2>1 DEF MapServed
  <2>3. CASE pc' = "copy"
    BY <2>1, <2>2, <2>3 DEF MapServed
  <2>4. CASE pc' = "quota" /\ at' = 1
    <3>1. Served' = Served
      BY <2>1, ServedSame
    <3>2. \A d \in DomainNames \ shielded :
             class[d] # "none" => \E k \in 1 .. Len(Served) : Served[k] = d
      BY ServedLists DEF TypeOK
    <3> QED  BY <2>1, <2>2, <2>4, <3>1, <3>2 DEF MapServed
  <2> QED  BY <2>1, <2>3, <2>4
<1>7. CASE SelectDomain
  <2> DEFINE e == Served[at]
  <2>1. at \in 1 .. Len(Served) /\ e \in DomainNames
    BY <1>7, SelectDomainLists
  <2>2. select_map' = [select_map EXCEPT ![e] = <<>>]
    BY <1>7, SelectDomainLists DEF ListsStep
  <2>3. pc = "quota" /\ at' = at + 1 /\ UNCHANGED <<pc, class, shielded>>
    BY <1>7 DEF SelectDomain, domainVars
  <2>4. Served' = Served
    BY <2>3, ServedSame
  <2>5. Len(Served) \in Nat
    BY ServedLists DEF TypeOK
  <2>6. select_map \in [DomainNames -> Seq(Jobs)]
    BY DEF TypeOK
  <2>7. ASSUME NEW d \in DomainNames
        PROVE  /\ class[d] = "none" => select_map'[d] = <<>>
               /\ \/ select_map'[d] = <<>> \/ d \in shielded
                  \/ \E k \in at + 1 .. Len(Served) : Served[k] = d
    <3>1. /\ class[d] = "none" => select_map[d] = <<>>
          /\ \/ select_map[d] = <<>> \/ d \in shielded
             \/ \E k \in at .. Len(Served) : Served[k] = d
      BY <2>3 DEF MapServed
    <3>2. select_map'[d] = IF d = e THEN <<>> ELSE select_map[d]
      BY <2>1, <2>2, <2>6
    <3> HIDE DEF e
    <3>3. ASSUME NEW k \in at .. Len(Served), Served[k] = d, d # e
          PROVE  k \in at + 1 .. Len(Served)
      <4>1. k # at
        BY <3>3 DEF e
      <4> QED  BY <2>1, <2>5, <4>1
    <3> QED  BY <3>1, <3>2, <3>3
  <2> QED  BY <2>3, <2>4, <2>7 DEF MapServed
<1>8. CASE Judge
  BY <1>8 DEF Judge, MapServed, EmptyMap
<1>9. CASE load_input_urls \/ update_conf \/ insert_url \/ DropQueue \/ DropSet
  <2>1. select_map' = select_map /\ pc \in Out /\ pc' \in Out
    BY <1>9 DEF load_input_urls, update_conf, insert_url, DropQueue, DropSet, roundVars
  <2> QED  BY <1>1, <2>1
<1>10. CASE (\E w \in Writers : Push(w)) \/ UNCHANGED vars
  <2>1. UNCHANGED <<select_map, class, shielded, pc, at>>
    BY <1>10 DEF Push, roundVars, domainVars, vars
  <2> QED  BY <1>2, <2>1
<1> QED  BY <1>3, <1>4, <1>5, <1>6, <1>7, <1>8, <1>9, <1>10 DEF Next, SelectStep

LEMMA CopiedWithinNext ==
    ASSUME TypeOK, CopiedWithin, [Next]_vars
    PROVE  CopiedWithin'
<1> SUFFICES ASSUME pc' = "clear" PROVE copied' <= Len(m_url_queue'[DrainOrder[at']])
  BY DEF CopiedWithin
<1>1. CASE Copy
  <2> DEFINE q == m_url_queue[DrainOrder[at]]
  <2>1. copied' = Len(q) /\ UNCHANGED <<m_url_queue, at>>
    BY <1>1 DEF Copy, poolVars
  <2>2. Len(q) \in Nat
    BY <1>1, CopyType
  <2> QED  BY <2>1, <2>2
<1>2. ASSUME UNCHANGED <<pc, at, copied, m_url_queue>>
      PROVE  copied' <= Len(m_url_queue'[DrainOrder[at']])
  BY <1>2 DEF CopiedWithin
<1>3. ASSUME NEW w \in Writers, Push(w)
      PROVE  copied' <= Len(m_url_queue'[DrainOrder[at']])
  <2>1. UNCHANGED <<pc, at, copied>>
    BY <1>3 DEF Push, roundVars
  <2>2. CASE m_url_queue' = m_url_queue
    BY <1>2, <2>1, <2>2
  <2>3. CASE push_back(w)
    <3> DEFINE t == DrainOrder[at]
    <3>1. at \in 1 .. 4 /\ copied <= Len(m_url_queue[t]) /\ copied \in Nat
      BY <2>1 DEF CopiedWithin, TypeOK
    <3>2. t \in Types
      BY <3>1, Orders
    <3>3. m_url_queue[t] \in Seq(Urls)
      BY <3>2 DEF TypeOK, PoolTypeOK
    <3>4. hand[w][1] \in Urls
      BY <2>3 DEF push_back, TypeOK, PoolTypeOK, Jobs
    <3>5. m_url_queue'[t] = m_url_queue[t] \/ m_url_queue'[t] = Append(m_url_queue[t], hand[w][1])
      BY <2>3, <3>2 DEF push_back, TypeOK, PoolTypeOK
    <3> HIDE DEF t
    <3>6. PICK q \in Seq(Urls) : q = m_url_queue[t]
      BY <3>3
    <3>7. Len(Append(q, hand[w][1])) = Len(q) + 1 /\ Len(q) \in Nat
      BY <3>4
    <3>8. copied <= Len(m_url_queue'[t])
      BY <3>1, <3>5, <3>6, <3>7
    <3> QED  BY <2>1, <3>8 DEF t
  <2>4. CASE \E j \in Links : push_url(w, j[1], j[2])
    BY <2>2, <2>4 DEF push_url
  <2> QED  BY <1>3, <2>3, <2>4 DEF Push
<1>4. CASE UNCHANGED vars
  BY <1>2, <1>4 DEF vars, roundVars, poolVars
<1> QED  BY <1>1, <1>3, <1>4 DEF Next, SelectStep, load_input_urls, update_conf, Start, Hang,
             ClearDrained, SelectDomain, Judge, insert_url, DropQueue, DropSet, CopiedWithin

LEMMA NotedSame ==
    ASSUME UNCHANGED select_num
    PROVE  Noted' = Noted
BY DEF Noted, NotedFor

LEMMA NotedNone ==
    ASSUME select_num = ZeroNums
    PROVE  Noted = {}
<1>1. ASSUME NEW d \in DomainNames PROVE NotedFor(d) = {}
  <2>1. select_num[d].item = 0 /\ select_num[d].cate = 0
    BY DEF ZeroNums
  <2>2. 1 .. 0 + 0 = {}
    OBVIOUS
  <2> QED  BY <2>1, <2>2 DEF NotedFor
<1> QED  BY <1>1 DEF Noted

(* What is noted for a domain with nothing noted yet adds to the sum. *)
LEMMA NotedMore ==
    ASSUME select_num \in [DomainNames -> [item : Nat, cate : Nat]], IsFiniteSet(Noted),
           NEW d \in DomainNames, select_num[d] = Zero,
           NEW r \in [item : Nat, cate : Nat], select_num' = [select_num EXCEPT ![d] = r]
    PROVE  /\ IsFiniteSet(Noted')
           /\ Cardinality(Noted') = Cardinality(Noted) + (r.item + r.cate)
<1>1. PICK n \in Nat : n = r.item + r.cate
  OBVIOUS
<1> DEFINE New == {d} \X (1 .. n)
<1>2. NotedFor(d) = {} /\ NotedFor(d)' = New
  <2>1. 1 .. 0 + 0 = {}
    OBVIOUS
  <2>2. select_num[d].item = 0 /\ select_num[d].cate = 0
    BY DEF Zero
  <2>3. select_num'[d] = r
    OBVIOUS
  <2> QED  BY <1>1, <2>1, <2>2, <2>3 DEF NotedFor
<1>3. ASSUME NEW e \in DomainNames, e # d PROVE NotedFor(e)' = NotedFor(e)
  BY <1>3 DEF NotedFor
<1>4. ASSUME NEW e \in DomainNames, NEW p \in NotedFor(e) PROVE p[1] = e
  BY DEF NotedFor
<1>5. Noted' = Noted \cup New
  BY <1>2, <1>3 DEF Noted
<1>6. Noted \cap New = {}
  <2> SUFFICES ASSUME NEW p \in Noted, p \in New PROVE FALSE
    OBVIOUS
  <2>1. PICK e \in DomainNames : p \in NotedFor(e)
    BY DEF Noted
  <2>2. p[1] = e /\ p[1] = d
    BY <1>4, <2>1
  <2> QED  BY <1>2, <2>1, <2>2
<1>7. IsFiniteSet(New) /\ Cardinality(New) = n
  <2>1. IsFiniteSet(1 .. n) /\ Cardinality(1 .. n) = n
    BY UpTo
  <2>2. IsFiniteSet({d}) /\ Cardinality({d}) = 1
    BY FS_Singleton
  <2>3. IsFiniteSet(New) /\ Cardinality(New) = 1 * n
    BY <2>1, <2>2, FS_Product
  <2> QED  BY <2>3
<1> HIDE DEF New
<1>8. PICK A : A = Noted
  OBVIOUS
<1>9. IsFiniteSet(A \cup New) /\ Cardinality(A \cup New) = Cardinality(A) + n - Cardinality(A \cap New)
  BY <1>7, <1>8, FS_Union
<1>10. Cardinality(A \cap New) = 0 /\ Cardinality(A) \in Nat
  BY <1>6, <1>8, FS_EmptySet, FS_CardinalityType
<1>11. Cardinality(A \cup New) = Cardinality(A) + n
  BY <1>9, <1>10
<1> QED  BY <1>1, <1>5, <1>8, <1>9, <1>11

LEMMA NumsNext ==
    ASSUME TypeOK, NumsReset, NumbersAddUp, [Next]_vars
    PROVE  NumsReset' /\ NumbersAddUp'
<1> DEFINE Out == {"load", "conf", "start", "insert", "drop_queue", "drop_set"}
<1>1. ASSUME select_num' = select_num, pc \in Out, pc' \in Out
      PROVE  NumsReset' /\ NumbersAddUp'
  BY <1>1 DEF NumsReset, NumbersAddUp, ZeroNums
<1>2. ASSUME UNCHANGED <<select_num, pc, at, class, shielded, carried, m_select_buffer>>
      PROVE  NumsReset' /\ NumbersAddUp'
  <2>1. Served' = Served /\ Noted' = Noted
    BY <1>2, ServedSame, NotedSame
  <2> QED  BY <1>2, <2>1 DEF NumsReset, NumbersAddUp, ZeroNums
<1>3. CASE Start
  BY <1>3 DEF Start, NumsReset, NumbersAddUp, ZeroNums, listVars
<1>4. CASE Hang \/ Copy
  BY <1>4 DEF Hang, Copy, NumsReset, NumbersAddUp, ZeroNums, roundVars, listVars
<1>5. CASE ClearDrained
  <2>1. /\ pc = "clear" /\ UNCHANGED <<select_num, carried, m_select_buffer, class, shielded>>
        /\ pc' = "copy" \/ (pc' = "quota" /\ at' = 1)
    BY <1>5 DEF ClearDrained, domainVars, listVars
  <2>2. select_num = ZeroNums /\ carried = Len(m_select_buffer) /\ carried \in Nat
    BY <2>1 DEF NumsReset, TypeOK
  <2>3. Noted' = {}
    BY <2>1, <2>2, NotedNone, NotedSame
  <2>4. IsFiniteSet(Noted') /\ Cardinality(Noted') = 0
    BY <2>3, FS_EmptySet
  <2>5. Served' = Served /\ \A k \in 1 .. Len(Served) : Served[k] \in DomainNames
    BY <2>1, ServedSame, ServedLists DEF TypeOK
  <2>6. \A d \in DomainNames : select_num'[d] = Zero
    BY <2>1, <2>2 DEF ZeroNums, Zero
  <2>7. carried' = Len(m_select_buffer)' /\ Len(m_select_buffer)' - carried' = 0
    BY <2>1, <2>2
  <2>8. NumbersAddUp'
    BY <2>4, <2>7 DEF NumbersAddUp
  <2>9. NumsReset'
    BY <2>1, <2>2, <2>4, <2>5, <2>6, <2>7 DEF NumsReset, ZeroNums
  <2> QED  BY <2>8, <2>9
<1>6. CASE SelectDomain
  <2> DEFINE e == Served[at]
             v == select_map[e]
             T == TakenOf(e)
  <2>1. /\ at \in 1 .. Len(Served) /\ e \in DomainNames
        /\ v \in Seq(Jobs) /\ T \in SUBSET DOMAIN v /\ Cardinality(T) \in Nat /\ IsFiniteSet(T)
    BY <1>6, SelectDomainLists
  <2>2. PICK fill \in Seq(Jobs), rest \in Seq(Jobs) : ListsStep(e, v, T, fill, rest)
    BY <1>6, SelectDomainLists
  <2>3. pc = "quota" /\ at' = at + 1 /\ UNCHANGED <<pc, class, shielded, carried>>
    BY <1>6 DEF SelectDomain, domainVars
  <2>4. Served' = Served
    BY <2>3, ServedSame
  <2>5. Len(Served) \in Nat /\ \A k, l \in 1 .. Len(Served) : Served[k] = Served[l] => k = l
    BY ServedLists DEF TypeOK
  <2>17. at \in at .. Len(Served)
    BY <2>1, <2>5
  <2>6. select_num[e] = Zero /\ IsFiniteSet(Noted)
    BY <2>3, <2>17 DEF NumsReset
  <2>7. \A k \in at .. Len(Served) : select_num[Served[k]] = Zero
    BY <2>3 DEF NumsReset
  <2>18. \A k \in at + 1 .. Len(Served) : k \in at .. Len(Served) /\ Served[k] # e
    <3> SUFFICES ASSUME NEW k \in at + 1 .. Len(Served)
                 PROVE  k \in at .. Len(Served) /\ Served[k] # e
      OBVIOUS
    <3>1. k \in at .. Len(Served) /\ k \in 1 .. Len(Served) /\ k # at
      BY <2>1, <2>5
    <3> QED  BY <2>1, <2>5, <3>1
  <2>19. \A k \in at + 1 .. Len(Served) : Served[k] \in DomainNames
    <3>1. \A k \in at + 1 .. Len(Served) : k \in 1 .. Len(Served)
      BY <2>1, <2>5
    <3> QED  BY <3>1, ServedLists DEF TypeOK
  <2> HIDE DEF e, v, T
  <2> DEFINE r == SelectNum(v, T, CateOf(e), fill)
  <2>8. select_num' = [select_num EXCEPT ![e] = r]
    BY <2>2 DEF ListsStep
  <2>9. r \in [item : Nat, cate : Nat] /\ r.item + r.cate = Cardinality(T) + Len(fill)
    BY <2>1, SelectNumType
  <2>10. select_num \in [DomainNames -> [item : Nat, cate : Nat]]
    BY DEF TypeOK
  <2> HIDE DEF r
  <2>11. /\ IsFiniteSet(Noted')
         /\ Cardinality(Noted') = Cardinality(Noted) + (r.item + r.cate)
    BY <2>1, <2>6, <2>8, <2>9, <2>10, NotedMore
  <2>12. Len(m_select_buffer') = Len(m_select_buffer) + Cardinality(T) + Len(fill)
    <3>1. /\ m_select_buffer \in Seq(Jobs)
          /\ m_select_buffer' = m_select_buffer \o At(v, T) \o fill
      BY <2>2 DEF TypeOK, ListsStep
    <3>2. At(v, T) \in Seq(Jobs) /\ Len(At(v, T)) = Cardinality(T)
      BY <2>1, AtLists
    <3>3. /\ m_select_buffer \o At(v, T) \in Seq(Jobs)
          /\ Len(m_select_buffer \o At(v, T)) = Len(m_select_buffer) + Cardinality(T)
      BY <3>1, <3>2, ConcatProperties
    <3> QED  BY <3>1, <3>3, ConcatProperties
  <2>13. Cardinality(Noted) = Len(m_select_buffer) - carried
    BY <2>3 DEF NumbersAddUp
  <2>14. PICK a \in Nat, b \in Nat, c \in Nat, g \in Nat :
            /\ a = Len(m_select_buffer) /\ b = Cardinality(T) /\ c = Len(fill) /\ g = carried
    BY <2>1 DEF TypeOK
  <2>15. Cardinality(Noted') = Len(m_select_buffer') - carried'
    <3>1. Cardinality(Noted') = (a - g) + (b + c) /\ Len(m_select_buffer') = a + b + c
      BY <2>9, <2>11, <2>12, <2>13, <2>14
    <3>2. carried' = g
      BY <2>3, <2>14
    <3> QED  BY <2>14, <3>1, <3>2
  <2>16. \A k \in at + 1 .. Len(Served) : select_num'[Served[k]] = Zero
    BY <2>7, <2>8, <2>10, <2>18, <2>19
  <2> QED  BY <2>3, <2>4, <2>11, <2>15, <2>16 DEF NumsReset, NumbersAddUp
<1>7. CASE Judge
  BY <1>7 DEF Judge, NumsReset, NumbersAddUp, ZeroNums
<1>8. CASE load_input_urls \/ update_conf \/ insert_url \/ DropQueue \/ DropSet
  <2>1. select_num' = select_num /\ pc \in Out /\ pc' \in Out
    BY <1>8 DEF load_input_urls, update_conf, insert_url, DropQueue, DropSet, roundVars
  <2> QED  BY <1>1, <2>1
<1>9. CASE (\E w \in Writers : Push(w)) \/ UNCHANGED vars
  <2>1. UNCHANGED <<select_num, pc, at, class, shielded, carried, m_select_buffer>>
    BY <1>9 DEF Push, roundVars, domainVars, listVars, vars
  <2> QED  BY <1>2, <2>1
<1> QED  BY <1>3, <1>4, <1>5, <1>6, <1>7, <1>8, <1>9 DEF Next, SelectStep

LEMMA RoundInvariant == Spec => []RoundInv
<1>1. Init => RoundInv
  BY DEF Init, RoundInv, OwnJobs, MapServed, CopiedWithin, NumsReset, NumbersAddUp,
         EmptyMap, ZeroNums
<1>2. TypeOK /\ RoundInv /\ [Next]_vars => RoundInv'
  BY OwnJobsNext, MapServedNext, CopiedWithinNext, NumsNext DEF RoundInv
<1> QED  BY <1>1, <1>2, SelectionType, PTL DEF Spec

(* The numbers reported for the domains are the URLs the round put in the  *)
(* buffer, for any domains, quotas and left-overs.                         *)
THEOREM SelectionNumbersAddUp == Spec => []NumbersAddUp
<1>1. RoundInv => NumbersAddUp
  BY DEF RoundInv
<1> QED  BY <1>1, RoundInvariant, PTL

-----------------------------------------------------------------------------
(* Quotas kept, and the oldest first *)

(* A domain is never given more than its quotas, left-overs included.      *)
THEOREM SelectionWithinQuota == Spec => WithinQuota
<1>1. ASSUME TypeOK, SelectDomain
      PROVE  LET d == Served[at]
                 q == QuotasOf(d)
                 most == IF class[d] = "seed" THEN Max({q.c + q.i, q.c + q.c}) ELSE q.c + q.i
             IN  Len(m_select_buffer') - Len(m_select_buffer) <= most
  <2> DEFINE d == Served[at]
             v == select_map[d]
             q == QuotasOf(d)
             T == TakenOf(d)
             most == IF class[d] = "seed" THEN Max({q.c + q.i, q.c + q.c}) ELSE q.c + q.i
  <2>1. /\ v \in Seq(Jobs) /\ T \in SUBSET DOMAIN v /\ Cardinality(T) \in Nat
        /\ q \in [c : Nat, i : Nat] /\ Cardinality(T) <= q.c + q.i
    BY <1>1, SelectDomainLists
  <2>2. PICK fill \in Seq(Jobs), rest \in Seq(Jobs) :
           /\ ListsStep(d, v, T, fill, rest)
           /\ Len(fill) > 0 => Cardinality(T) + Len(fill) <= WantOf(d)
    BY <1>1, SelectDomainLists
  <2>3. WantOf(d) = IF class[d] = "seed" THEN q.c + q.c ELSE q.c + q.i
    BY DEF WantOf
  <2> HIDE DEF d, v, q, T
  <2>4. At(v, T) \in Seq(Jobs) /\ Len(At(v, T)) = Cardinality(T)
    BY <2>1, AtLists
  <2>5. /\ m_select_buffer \in Seq(Jobs)
        /\ m_select_buffer' = m_select_buffer \o At(v, T) \o fill
    BY <1>1, <2>2 DEF TypeOK, ListsStep
  <2>6. Len(m_select_buffer') - Len(m_select_buffer) = Cardinality(T) + Len(fill)
    <3>1. /\ m_select_buffer \o At(v, T) \in Seq(Jobs)
          /\ Len(m_select_buffer \o At(v, T)) = Len(m_select_buffer) + Cardinality(T)
      BY <2>4, <2>5, ConcatProperties
    <3>2. Len(m_select_buffer') = Len(m_select_buffer) + Cardinality(T) + Len(fill)
      BY <2>5, <3>1, ConcatProperties
    <3>3. PICK a \in Nat, b \in Nat, c \in Nat :
             a = Len(m_select_buffer) /\ b = Cardinality(T) /\ c = Len(fill)
      BY <2>1, <2>5
    <3> QED  BY <3>2, <3>3
  <2>7. most \in Nat /\ q.c + q.i <= most /\ WantOf(d) <= most
    <3>1. PICK a \in Nat, b \in Nat : a = q.c + q.i /\ b = q.c + q.c
      BY <2>1
    <3>2. Max({a, b}) \in {a, b} /\ Max({a, b}) >= a /\ Max({a, b}) >= b
      <4>1. \E x \in {a, b} : \A y \in {a, b} : x >= y
        OBVIOUS
      <4> QED  BY <4>1 DEF Max
    <3> QED  BY <2>3, <3>1, <3>2
  <2>8. Len(fill) \in Nat /\ WantOf(d) \in Nat /\ q.c + q.i \in Nat
    BY <2>1, <2>3
  <2> HIDE DEF most
  <2>9. Len(m_select_buffer') - Len(m_select_buffer) <= most
    BY <2>1, <2>2, <2>6, <2>7, <2>8
  <2> QED  BY <2>9 DEF d, q, most
<1>2. TypeOK /\ [Next]_vars =>
        [SelectDomain =>
           LET d == Served[at]
               q == QuotasOf(d)
               most == IF class[d] = "seed" THEN Max({q.c + q.i, q.c + q.c}) ELSE q.c + q.i
           IN  Len(m_select_buffer') - Len(m_select_buffer) <= most]_vars
  BY <1>1
<1> QED  BY <1>2, SelectionType, PTL DEF Spec, WithinQuota

(* A domain with jobs of its own types only gets its oldest categories and *)
(* its oldest items, each up to their quota, in the order of the pools.    *)
THEOREM SelectionOldestFirst == Spec => OldestFirst
<1>1. ASSUME TypeOK, OwnJobs, SelectDomain
      PROVE  LET d == Served[at]
                 v == select_map[d]
                 cate == IF class[d] = "seed" THEN 3 ELSE 1
                 ref == At(v, Oldest(v, cate, QuotasOf(d).c)
                                \cup Oldest(v, cate - 1, QuotasOf(d).i))
             IN  ToSet(v) \subseteq {j \in Jobs : OwnType(j)} =>
                     IsPrefix(m_select_buffer \o ref, m_select_buffer')
  <2> DEFINE d == Served[at]
             v == select_map[d]
             q == QuotasOf(d)
             T == TakenOf(d)
             cate == CateOf(d)
  <2>1. /\ v \in Seq(Jobs) /\ T \in SUBSET DOMAIN v /\ q \in [c : Nat, i : Nat]
        /\ d \in DomainNames
    BY <1>1, SelectDomainLists
  <2>2. PICK fill \in Seq(Jobs), rest \in Seq(Jobs) : ListsStep(d, v, T, fill, rest)
    BY <1>1, SelectDomainLists
  <2>3. T = 1 .. FirstLoop(v, q, cate) \cup SecondLoop(v, q, cate, FirstLoop(v, q, cate))
    BY DEF TakenOf
  <2>4. cate \in {1, 3} /\ cate = IF class[d] = "seed" THEN 3 ELSE 1
    BY DEF CateOf
  <2> HIDE DEF v, q, T, cate
  <2>5. ASSUME ToSet(v) \subseteq {j \in Jobs : OwnType(j)},
               \A x \in DOMAIN v : v[x][2] \in {cate, cate - 1}
        PROVE  IsPrefix(m_select_buffer \o At(v, Oldest(v, cate, q.c)
                                                   \cup Oldest(v, cate - 1, q.i)),
                        m_select_buffer')
    <3>1. T = Oldest(v, cate, q.c) \cup Oldest(v, cate - 1, q.i)
      BY <2>1, <2>3, <2>4, <2>5, LoopsTakeOldest
    <3>2. At(v, T) \in Seq(Jobs) /\ m_select_buffer \in Seq(Jobs)
      BY <1>1, <2>1, AtLists DEF TypeOK
    <3> DEFINE s == m_select_buffer \o At(v, T)
    <3>3. s \in Seq(Jobs)
      BY <3>2, ConcatProperties
    <3>4. m_select_buffer' = s \o fill
      BY <2>2 DEF ListsStep
    <3> HIDE DEF s
    <3>5. IsPrefix(s, s \o fill)
      <4>1. Len(s) \in Nat /\ Len(fill) \in Nat /\ Len(s \o fill) = Len(s) + Len(fill)
        BY <3>3, ConcatProperties
      <4>2. SubSeq(s \o fill, 1, Len(s)) = SubSeq(s, 1, Len(s))
        <5>1. CASE Len(s) = 0
          <6>1. SubSeq(s \o fill, 1, 0) = <<>> /\ SubSeq(s, 1, 0) = <<>>
            BY SubSeqEmpty
          <6> QED  BY <5>1, <6>1
        <5>2. CASE Len(s) # 0
          <6>1. 1 \in 1 .. Len(s) /\ Len(s) \in 1 .. Len(s)
            BY <4>1, <5>2
          <6> QED  BY <3>3, <6>1, SubSeqOfConcat1
        <5> QED  BY <5>1, <5>2
      <4> QED  BY <4>1, <4>2 DEF IsPrefix
    <3> QED  BY <3>1, <3>4, <3>5 DEF s
  <2>6. ASSUME ToSet(v) \subseteq {j \in Jobs : OwnType(j)}
        PROVE  \A x \in DOMAIN v : v[x][2] \in {cate, cate - 1}
    <3>1. \A x \in DOMAIN v : DomainOf[v[x][1]] = d
      BY <1>1, <2>1 DEF v, OwnJobs
    <3>2. \A x \in DOMAIN v : OwnType(v[x])
      BY <2>6 DEF ToSet
    <3> QED  BY <2>4, <3>1, <3>2 DEF OwnType
  <2> QED  BY <2>4, <2>5, <2>6 DEF d, v, q
<1>2. TypeOK /\ RoundInv /\ [Next]_vars =>
        [SelectDomain =>
           LET d == Served[at]
               v == select_map[d]
               cate == IF class[d] = "seed" THEN 3 ELSE 1
               ref == At(v, Oldest(v, cate, QuotasOf(d).c)
                              \cup Oldest(v, cate - 1, QuotasOf(d).i))
           IN  ToSet(v) \subseteq {j \in Jobs : OwnType(j)} =>
                   IsPrefix(m_select_buffer \o ref, m_select_buffer')]_vars
  BY <1>1 DEF RoundInv
<1> QED  BY <1>2, SelectionType, RoundInvariant, PTL DEF Spec, OldestFirst


-----------------------------------------------------------------------------
(* The copies of a job *)

Queued(j) == Occurrences(Waiting(j[2]), j[1])
Held(j) == Cardinality({w \in Writers : hand[w] = j})
Mapped(j) == Occurrences(select_map[DomainOf[j[1]]], j)
Listed(j) == Occurrences(m_select_buffer \o m_select_back_p \o m_select_back_o, j)

LEMMA CopiesAre ==
    ASSUME TypeOK, NEW j \in Jobs
    PROVE  /\ j[1] \in Urls /\ j[2] \in Types /\ j = <<j[1], j[2]>>
           /\ DomainOf[j[1]] \in DomainNames
           /\ Waiting(j[2]) \in Seq(Urls)
           /\ Queued(j) \in Nat /\ Held(j) \in Nat /\ Mapped(j) \in Nat /\ Listed(j) \in Nat
           /\ Copies(j) = Queued(j) + Held(j) + Mapped(j) + Listed(j)
           /\ Listed(j) = Occurrences(m_select_buffer, j) + Occurrences(m_select_back_p, j)
                            + Occurrences(m_select_back_o, j)
           /\ Occurrences(m_select_buffer, j) \in Nat
           /\ Occurrences(m_select_back_p, j) \in Nat /\ Occurrences(m_select_back_o, j) \in Nat
<1>1. j[1] \in Urls /\ j[2] \in Types /\ j = <<j[1], j[2]>>
  BY DEF Jobs
<1>2. DomainOf[j[1]] \in DomainNames
  BY <1>1, SelectionAssumption DEF DomainNames
<1>3. Waiting(j[2]) \in Seq(Urls)
  <2>1. m_url_queue[j[2]] \in Seq(Urls)
    BY <1>1 DEF TypeOK, PoolTypeOK
  <2>2. ASSUME NEW q \in Seq(Urls), NEW n \in Nat PROVE SubSeq(q, n + 1, Len(q)) \in Seq(Urls)
    <3>1. n + 1 \in Int /\ Len(q) \in Int /\ \A i \in n + 1 .. Len(q) : q[i] \in Urls
      OBVIOUS
    <3> QED  BY <3>1, SubSeqProperties
  <2>3. copied \in Nat
    BY DEF TypeOK
  <2>4. SubSeq(m_url_queue[j[2]], copied + 1, Len(m_url_queue[j[2]])) \in Seq(Urls)
    BY <2>1, <2>2, <2>3
  <2> QED  BY <2>1, <2>4 DEF Waiting
<1>4. Queued(j) \in Nat
  BY <1>3, OccurrencesType DEF Queued
<1>5. Held(j) \in Nat
  <2>1. {w \in Writers : hand[w] = j} \in SUBSET Writers /\ IsFiniteSet(Writers)
    BY SelectionAssumption
  <2> QED  BY <2>1, FS_Subset, FS_CardinalityType DEF Held
<1>6. Mapped(j) \in Nat
  <2>1. select_map[DomainOf[j[1]]] \in Seq(Jobs)
    BY <1>2 DEF TypeOK
  <2> QED  BY <2>1, OccurrencesType DEF Mapped
<1>7. /\ m_select_buffer \in Seq(Jobs) /\ m_select_back_p \in Seq(Jobs)
      /\ m_select_back_o \in Seq(Jobs)
  BY DEF TypeOK
<1>8. /\ Occurrences(m_select_buffer, j) \in Nat
      /\ Occurrences(m_select_back_p, j) \in Nat /\ Occurrences(m_select_back_o, j) \in Nat
  BY <1>7, OccurrencesType
<1>9. Listed(j) = Occurrences(m_select_buffer, j) + Occurrences(m_select_back_p, j)
                    + Occurrences(m_select_back_o, j)
  <2>1. m_select_buffer \o m_select_back_p \in Seq(Jobs)
    BY <1>7, ConcatProperties
  <2>2. Occurrences(m_select_buffer \o m_select_back_p, j)
          = Occurrences(m_select_buffer, j) + Occurrences(m_select_back_p, j)
    BY <1>7, OccurrencesCat
  <2>3. Listed(j) = Occurrences(m_select_buffer \o m_select_back_p, j)
                      + Occurrences(m_select_back_o, j)
    BY <1>7, <2>1, OccurrencesCat DEF Listed
  <2> QED  BY <2>2, <2>3
<1>10. Listed(j) \in Nat
  BY <1>8, <1>9
<1>11. Copies(j) = Queued(j) + Held(j) + Mapped(j) + Listed(j)
  BY DEF Copies, Queued, Held, Mapped, Listed
<1> QED  BY <1>1, <1>2, <1>3, <1>4, <1>5, <1>6, <1>8, <1>9, <1>10, <1>11

LEMMA CopiesNat ==
    ASSUME TypeOK, NEW j \in Jobs
    PROVE  Copies(j) \in Nat
<1>1. PICK a \in Nat, b \in Nat, c \in Nat, e \in Nat :
         Queued(j) = a /\ Held(j) = b /\ Mapped(j) = c /\ Listed(j) = e
  BY CopiesAre
<1>2. Copies(j) = a + b + c + e
  BY <1>1, CopiesAre
<1> QED  BY <1>2

LEMMA CopiesSame ==
    ASSUME NEW j, Waiting(j[2])' = Waiting(j[2]), UNCHANGED <<hand, select_map, listVars>>
    PROVE  Copies(j)' = Copies(j)
BY DEF Copies, listVars

LEMMA CopiesPushUrl ==
    ASSUME TypeOK, NEW j \in Jobs, NEW w \in Writers, NEW i \in Links,
           push_url(w, i[1], i[2]), Push(w)
    PROVE  \/ Copies(j)' = Copies(j)
           \/ ~Known(j) /\ Known(j)' /\ UnderWay(j)'
<1>1. i \in Jobs /\ i = <<i[1], i[2]>> /\ i[1] \in Urls /\ i[2] \in Types /\ NoJob \notin Jobs
  BY SelectionAssumption DEF Jobs
<1>2. /\ hand[w] = NoJob /\ i[1] \notin m_url_set[i[2]]
      /\ m_url_set' = [m_url_set EXCEPT ![i[2]] = @ \cup {i[1]}]
      /\ hand' = [hand EXCEPT ![w] = i] /\ UNCHANGED m_url_queue
  BY <1>1 DEF push_url
<1>3. hand \in [Writers -> Jobs \cup {NoJob}] /\ m_url_set \in [Types -> SUBSET Urls]
  BY DEF TypeOK, PoolTypeOK
<1>6. UNCHANGED <<pc, at, copied, m_url_queue, select_map, listVars>>
  BY <1>2 DEF Push, roundVars
<1>4. CASE j = i
  <2>1. ~Known(j) /\ Known(j)'
    BY <1>1, <1>2, <1>3, <1>4 DEF Known
  <2>2. PICK H : H = {x \in Writers : hand'[x] = j}
    OBVIOUS
  <2>3. H \in SUBSET Writers /\ w \in H
    BY <1>2, <1>3, <1>4, <2>2
  <2>4. Cardinality(H) \in Nat /\ Cardinality(H) # 0
    <3>1. IsFiniteSet(H)
      BY <2>3, FS_Subset, SelectionAssumption
    <3> QED  BY <2>3, <3>1, FS_CardinalityType, FS_EmptySet
  <2>5. Queued(j)' = Queued(j) /\ Mapped(j)' = Mapped(j) /\ Listed(j)' = Listed(j)
    BY <1>6 DEF Queued, Waiting, Mapped, Listed, listVars
  <2>6. Copies(j)' = Queued(j) + Cardinality(H) + Mapped(j) + Listed(j)
    BY <2>2, <2>5 DEF Copies, Queued, Mapped, Listed
  <2>7. PICK a \in Nat, h \in Nat, c \in Nat, e \in Nat :
           Queued(j) = a /\ Cardinality(H) = h /\ Mapped(j) = c /\ Listed(j) = e
    BY <2>4, CopiesAre
  <2> QED  BY <2>1, <2>4, <2>6, <2>7 DEF UnderWay
<1>5. CASE j # i
  <2>1. {x \in Writers : hand'[x] = j} = {x \in Writers : hand[x] = j}
    BY <1>1, <1>2, <1>3, <1>5
  <2> QED  BY <1>6, <2>1 DEF Copies, Waiting, listVars
<1> QED  BY <1>4, <1>5

LEMMA TailAppend ==
    ASSUME NEW J, NEW s \in Seq(J), NEW n \in Nat, n <= Len(s), NEW x \in J
    PROVE  SubSeq(Append(s, x), n + 1, Len(Append(s, x))) = Append(SubSeq(s, n + 1, Len(s)), x)
<1>0. Append(s, x) = s \o <<x>> /\ Append(s, x) \in Seq(J)
  BY AppendIsConcat
<1>1. PICK a \in Seq(J) : a = Append(s, x) /\ a = s \o <<x>>
  BY <1>0
<1>2. Len(s) \in Nat /\ Len(a) = Len(s) + 1 /\ a[Len(a)] = x /\ Len(a) - 1 = Len(s)
  BY <1>1
<1>3. SubSeq(a, n + 1, Len(a)) = SubSeq(a, n + 1, Len(s)) \o <<x>>
  <2>1. n + 1 \in 1 .. Len(a) /\ Len(a) \in n + 1 .. Len(a)
    BY <1>2
  <2>2. SubSeq(a, n + 1, Len(a)) = SubSeq(a, n + 1, Len(a) - 1) \o <<a[Len(a)]>>
    BY <2>1, SubSeqRecursiveSecond
  <2> QED  BY <1>2, <2>2
<1>4. SubSeq(a, n + 1, Len(s)) = SubSeq(s, n + 1, Len(s))
  <2>1. CASE n = Len(s)
    <3>1. Len(s) < n + 1 /\ n + 1 \in Int /\ Len(s) \in Int
      BY <1>2, <2>1
    <3>2. SubSeq(a, n + 1, Len(s)) = <<>> /\ SubSeq(s, n + 1, Len(s)) = <<>>
      BY <3>1, SubSeqEmpty
    <3> QED  BY <3>2
  <2>2. CASE n # Len(s)
    <3>0. PICK l \in Nat : l = Len(s) /\ n <= l /\ n # l
      BY <1>2, <2>2
    <3>3. n + 1 \in 1 .. l /\ l \in 1 .. l
      BY <3>0
    <3>1. n + 1 \in 1 .. Len(s) /\ Len(s) \in 1 .. Len(s)
      BY <3>0, <3>3
    <3>2. <<x>> \in Seq(J)
      OBVIOUS
    <3> QED  BY <1>1, <3>1, <3>2, SubSeqOfConcat1
  <2> QED  BY <2>1, <2>2
<1>5. SubSeq(s, n + 1, Len(s)) \in Seq(J)
  <2>1. n + 1 \in Int /\ Len(s) \in Int /\ \A k \in n + 1 .. Len(s) : s[k] \in J
    OBVIOUS
  <2> QED  BY <2>1, SubSeqProperties
<1>6. Append(SubSeq(s, n + 1, Len(s)), x) = SubSeq(s, n + 1, Len(s)) \o <<x>>
  BY <1>5, AppendIsConcat
<1> QED  BY <1>1, <1>3, <1>4, <1>6

(* A thread that queues its job moves one copy from its hand. *)
LEMMA CopiesPushBack ==
    ASSUME TypeOK, CopiedWithin, TypeOK', NEW j \in Jobs, NEW w \in Writers,
           push_back(w), Push(w)
    PROVE  Copies(j)' = Copies(j)
<1>0. PICK i \in Jobs : i = hand[w]
  BY DEF push_back, TypeOK, PoolTypeOK
<1>12. PICK u \in Urls, t \in Types : i = <<u, t>>
  BY DEF Jobs
<1>1. i[1] = u /\ i[2] = t /\ NoJob \notin Jobs
  BY <1>12, SelectionAssumption
<1>13. PICK q \in Seq(Urls) : q = m_url_queue[t]
  BY DEF TypeOK, PoolTypeOK
<1>2. /\ m_url_queue' = [m_url_queue EXCEPT ![t] = Append(q, u)]
      /\ hand' = [hand EXCEPT ![w] = NoJob]
      /\ UNCHANGED <<pc, at, copied, select_map, listVars>>
  BY <1>0, <1>1, <1>13 DEF push_back, Push, roundVars
<1>3. /\ hand \in [Writers -> Jobs \cup {NoJob}] /\ m_url_queue \in [Types -> Seq(Urls)]
  BY DEF TypeOK, PoolTypeOK
<1>4. j[2] \in Types /\ j = <<j[1], j[2]>>
  BY DEF Jobs
<1>5. Mapped(j)' = Mapped(j) /\ Listed(j)' = Listed(j)
  BY <1>2 DEF Mapped, Listed, listVars
<1>6. j[2] = t => Waiting(t)' = Append(Waiting(t), u)
  <2>1. m_url_queue'[t] = Append(q, u)
    BY <1>2, <1>3
  <2>2. CASE pc = "clear" /\ t = DrainOrder[at]
    <3>1. copied \in Nat /\ copied <= Len(q)
      BY <1>13, <2>2 DEF TypeOK, CopiedWithin
    <3>2. SubSeq(Append(q, u), copied + 1, Len(Append(q, u)))
            = Append(SubSeq(q, copied + 1, Len(q)), u)
      BY <3>1, TailAppend
    <3> QED  BY <1>2, <1>13, <2>1, <2>2, <3>2 DEF Waiting
  <2>3. CASE ~(pc = "clear" /\ t = DrainOrder[at])
    BY <1>2, <1>13, <2>1, <2>3 DEF Waiting
  <2> QED  BY <2>2, <2>3
<1>7. j[2] # t => Waiting(j[2])' = Waiting(j[2])
  BY <1>1, <1>2, <1>3, <1>4 DEF Waiting
<1>8. /\ Queued(j) \in Nat /\ Held(j) \in Nat /\ Mapped(j) \in Nat /\ Listed(j) \in Nat
      /\ Copies(j) = Queued(j) + Held(j) + Mapped(j) + Listed(j)
      /\ Waiting(j[2]) \in Seq(Urls)
  BY CopiesAre
<1>9. Copies(j)' = Queued(j)' + Held(j)' + Mapped(j)' + Listed(j)'
  BY DEF Copies, Queued, Held, Mapped, Listed
<1>10. CASE j = i
  <2>0. j[1] = u /\ j[2] = t
    BY <1>1, <1>10
  <2> DEFINE H == {x \in Writers : hand[x] = i}
  <2>1. {x \in Writers : hand'[x] = i} = H \ {w} /\ w \in H
    BY <1>0, <1>1, <1>2, <1>3
  <2>2. H \in SUBSET Writers /\ IsFiniteSet(Writers)
    BY SelectionAssumption
  <2>5. Held(i) = Cardinality(H) /\ Held(i)' = Cardinality(H \ {w})
    BY <2>1 DEF Held
  <2> HIDE DEF H
  <2>3. IsFiniteSet(H)
    BY <2>2, FS_Subset
  <2>4. Cardinality(H) \in Nat /\ Cardinality(H \ {w}) = Cardinality(H) - 1
    BY <2>1, <2>3, FS_CardinalityType, FS_RemoveElement
  <2>6. Held(j)' = Held(j) - 1
    BY <1>10, <2>4, <2>5
  <2>7. Queued(j)' = Queued(j) + 1
    <3>1. PICK s \in Seq(Urls) : s = Waiting(t)
      BY <1>8, <2>0
    <3>2. <<u>> \in Seq(Urls) /\ Append(s, u) = s \o <<u>>
      BY <1>1, AppendIsConcat
    <3>3. Occurrences(Append(s, u), u) = Occurrences(s, u) + Occurrences(<<u>>, u)
      BY <3>2, OccurrencesCat
    <3>4. Occurrences(<<u>>, u) = 1
      <4>1. {x \in DOMAIN <<u>> : <<u>>[x] = u} = {1}
        OBVIOUS
      <4> QED  BY <4>1, FS_Singleton DEF Occurrences
    <3>5. Waiting(t)' = Append(s, u)
      BY <1>6, <2>0, <3>1
    <3> QED  BY <2>0, <3>1, <3>3, <3>4, <3>5 DEF Queued
  <2>8. PICK a \in Nat, b \in Nat, c \in Nat, e \in Nat :
           Queued(j) = a /\ Held(j) = b /\ Mapped(j) = c /\ Listed(j) = e
    BY <1>8
  <2> QED  BY <1>5, <1>8, <1>9, <2>6, <2>7, <2>8
<1>11. CASE j # i
  <2>1. {x \in Writers : hand'[x] = j} = {x \in Writers : hand[x] = j}
    BY <1>0, <1>1, <1>2, <1>3, <1>11
  <2>2. Held(j)' = Held(j)
    BY <2>1 DEF Held
  <2>3. Queued(j)' = Queued(j)
    <3>1. CASE j[2] # t
      BY <1>7, <3>1 DEF Queued
    <3>2. CASE j[2] = t
      <4>1. PICK s \in Seq(Urls) : s = Waiting(t)
        BY <1>8, <3>2
      <4>2. <<u>> \in Seq(Urls) /\ Append(s, u) = s \o <<u>>
        BY <1>1, AppendIsConcat
      <4>3. Occurrences(Append(s, u), j[1]) = Occurrences(s, j[1]) + Occurrences(<<u>>, j[1])
        BY <4>2, OccurrencesCat
      <4>4. Occurrences(<<u>>, j[1]) = 0
        <5>1. j[1] # u
          BY <1>4, <1>11, <1>12, <3>2
        <5>2. {x \in DOMAIN <<u>> : <<u>>[x] = j[1]} = {}
          BY <5>1
        <5> QED  BY <5>2, FS_EmptySet DEF Occurrences
      <4>5. Occurrences(s, j[1]) \in Nat
        BY OccurrencesType
      <4>6. Waiting(t)' = Append(s, u)
        BY <1>6, <3>2, <4>1
      <4> QED  BY <3>2, <4>1, <4>3, <4>4, <4>5, <4>6 DEF Queued
    <3> QED  BY <3>1, <3>2
  <2> QED  BY <1>5, <1>8, <1>9, <2>2, <2>3
<1> QED  BY <1>10, <1>11

LEMMA CopiesEnter ==
    ASSUME TypeOK, NEW j \in Jobs, NEW S \in SUBSET Urls, IsFiniteSet(S), NEW t \in Types,
           Enter(S, t), pc # "clear", pc' # "clear", UNCHANGED <<select_map, listVars>>
    PROVE  \/ Copies(j)' = Copies(j)
           \/ ~Known(j) /\ Known(j)' /\ (UnderWay(j) => UnderWay(j)')
<1>1. PICK q \in Seq(Urls), new \in SUBSET Urls, n \in Seq(Urls) :
         /\ q = m_url_queue[t] /\ new = S \ m_url_set[t] /\ n = SetToSeq(new) /\ n \in Seq(new)
  <2>1. PoolTypeOK /\ m_url_queue[t] \in Seq(Urls)
    BY DEF TypeOK, PoolTypeOK
  <2> QED  BY <2>1, EnterType
<1>2. /\ m_url_queue' = [m_url_queue EXCEPT ![t] = q \o n]
      /\ m_url_set' = [m_url_set EXCEPT ![t] = m_url_set[t] \cup S] /\ hand' = hand
  BY <1>1 DEF Enter
<1>3. /\ m_url_queue \in [Types -> Seq(Urls)] /\ m_url_set \in [Types -> SUBSET Urls]
      /\ j[2] \in Types
  BY DEF TypeOK, PoolTypeOK, Jobs
<1>4. \A x \in Types : Waiting(x) = m_url_queue[x] /\ Waiting(x)' = m_url_queue'[x]
  BY DEF Waiting
<1>5. CASE j[2] # t
  <2>1. Waiting(j[2])' = Waiting(j[2])
    BY <1>2, <1>3, <1>4, <1>5
  <2> QED  BY <1>2, <2>1, CopiesSame
<1>6. CASE j[2] = t /\ j[1] \in new
  <2>1. ~Known(j) /\ Known(j)'
    BY <1>1, <1>2, <1>3, <1>6 DEF Known
  <2>2. Occurrences(q \o n, j[1]) = Occurrences(q, j[1]) + Occurrences(n, j[1])
    BY OccurrencesCat
  <2>3. Queued(j)' = Occurrences(q \o n, j[1]) /\ Queued(j) = Occurrences(q, j[1])
    BY <1>1, <1>2, <1>3, <1>4, <1>6 DEF Queued
  <2>4. Held(j)' = Held(j) /\ Mapped(j)' = Mapped(j) /\ Listed(j)' = Listed(j)
    BY <1>2 DEF Held, Mapped, Listed, listVars
  <2>5. PICK a \in Nat, h \in Nat, c \in Nat, e \in Nat, m \in Nat :
           /\ Queued(j) = a /\ Held(j) = h /\ Mapped(j) = c /\ Listed(j) = e
           /\ Occurrences(n, j[1]) = m
    BY CopiesAre, OccurrencesType
  <2>6. Copies(j)' = (a + m) + h + c + e
    BY <2>2, <2>3, <2>4, <2>5 DEF Copies, Queued, Held, Mapped, Listed
  <2>7. Copies(j) = a + h + c + e
    BY <2>5 DEF Copies, Queued, Held, Mapped, Listed
  <2> QED  BY <2>1, <2>5, <2>6, <2>7 DEF UnderWay
<1>7. CASE j[2] = t /\ j[1] \notin new
  <2>1. Waiting(j[2]) = q /\ Waiting(j[2])' = q \o n
    BY <1>1, <1>2, <1>3, <1>4, <1>7
  <2>2. Occurrences(q \o n, j[1]) = Occurrences(q, j[1]) + Occurrences(n, j[1])
    BY OccurrencesCat
  <2>3. Occurrences(n, j[1]) = 0
    <3>1. {x \in DOMAIN n : n[x] = j[1]} = {}
      BY <1>1, <1>7
    <3> QED  BY <3>1, FS_EmptySet DEF Occurrences
  <2>4. Occurrences(q, j[1]) \in Nat
    BY OccurrencesType
  <2>5. Occurrences(Waiting(j[2])', j[1]) = Occurrences(Waiting(j[2]), j[1])
    BY <2>1, <2>2, <2>3, <2>4
  <2> QED  BY <1>2, <2>5 DEF Copies, listVars
<1> QED  BY <1>5, <1>6, <1>7

LEMMA CopiesCopy ==
    ASSUME TypeOK, NEW j \in Jobs, Copy
    PROVE  IF class[DomainOf[j[1]]] = "none" THEN Copies(j)' <= Copies(j) /\ Copies(j)' \in Nat
                                             ELSE Copies(j)' = Copies(j)
<1>1. PICK t \in Types, q \in Seq(Urls), d \in DomainNames :
         t = DrainOrder[at] /\ q = m_url_queue[t] /\ d = DomainOf[j[1]]
  BY CopyType, CopiesAre
<1>2. /\ select_map' = [e \in DomainNames |-> IF class[e] = "none" THEN <<>>
                                               ELSE select_map[e] \o JobsIn(q, t, e)]
      /\ copied' = Len(q) /\ pc = "copy" /\ pc' = "clear" /\ UNCHANGED <<m_url_queue, hand, at, listVars>>
  BY <1>1 DEF Copy, poolVars
<1>3. /\ j[1] \in Urls /\ j[2] \in Types
      /\ Queued(j) \in Nat /\ Held(j) \in Nat /\ Mapped(j) \in Nat /\ Listed(j) \in Nat
      /\ Copies(j) = Queued(j) + Held(j) + Mapped(j) + Listed(j)
  BY CopiesAre
<1>4. Copies(j)' = Queued(j)' + Held(j)' + Mapped(j)' + Listed(j)'
  BY DEF Copies, Queued, Held, Mapped, Listed
<1>5. Held(j)' = Held(j) /\ Listed(j)' = Listed(j)
  BY <1>2 DEF Held, Listed, listVars
<1>6. IF j[2] = t THEN Queued(j)' = 0 /\ Queued(j) = Occurrences(q, j[1])
                  ELSE Queued(j)' = Queued(j)
  <2>1. Waiting(j[2]) = m_url_queue[j[2]]
    BY <1>2 DEF Waiting
  <2>2. CASE j[2] # t
    BY <1>1, <1>2, <2>1, <2>2 DEF Queued, Waiting
  <2>3. CASE j[2] = t
    <3>1. Waiting(j[2])' = SubSeq(q, Len(q) + 1, Len(q))
      BY <1>1, <1>2, <2>3 DEF Waiting
    <3>2. SubSeq(q, Len(q) + 1, Len(q)) = <<>>
      <4>1. Len(q) + 1 \in Int /\ Len(q) \in Int /\ Len(q) < Len(q) + 1
        OBVIOUS
      <4> QED  BY <4>1, SubSeqEmpty
    <3> QED  BY <1>1, <2>1, <2>3, <3>1, <3>2, OccurrencesEmpty DEF Queued
  <2> QED  BY <2>2, <2>3
<1>7. IF class[d] = "none" THEN Mapped(j)' = 0
      ELSE Mapped(j)' = Mapped(j) + IF j[2] = t THEN Occurrences(q, j[1]) ELSE 0
  <2>1. Mapped(j)' = Occurrences(select_map'[d], j) /\ Mapped(j) = Occurrences(select_map[d], j)
    BY <1>1 DEF Mapped
  <2>2. CASE class[d] = "none"
    BY <1>2, <2>1, <2>2, OccurrencesEmpty
  <2>3. CASE class[d] # "none"
    <3>1. PICK s \in Seq(Jobs), r \in Seq(Jobs) : s = select_map[d] /\ r = JobsIn(q, t, d)
      BY JobsInLists DEF TypeOK
    <3>2. Occurrences(s \o r, j) = Occurrences(s, j) + Occurrences(r, j)
      BY OccurrencesCat
    <3>3. Occurrences(r, j) = IF j[2] = t THEN Occurrences(q, j[1]) ELSE 0
      BY <1>1, <3>1, JobsInLists
    <3>4. select_map'[d] = s \o r
      BY <1>2, <2>3, <3>1
    <3> QED  BY <2>1, <2>3, <3>1, <3>2, <3>3, <3>4
  <2> QED  BY <2>2, <2>3
<1>8. PICK a \in Nat, b \in Nat, c \in Nat, e \in Nat :
         Queued(j) = a /\ Held(j) = b /\ Mapped(j) = c /\ Listed(j) = e
  BY <1>3
<1>9. Copies(j) = a + b + c + e
  BY <1>3, <1>8
<1>10. CASE class[d] = "none"
  <2>1. Mapped(j)' = 0 /\ (Queued(j)' = 0 \/ Queued(j)' = a)
    BY <1>6, <1>7, <1>8, <1>10
  <2>2. Copies(j)' = b + e \/ Copies(j)' = a + b + e
    BY <1>4, <1>5, <1>8, <2>1
  <2> QED  BY <1>1, <1>9, <1>10, <2>2
<1>11. CASE class[d] # "none"
  <2>1. \/ Queued(j)' = 0 /\ Mapped(j)' = c + a
        \/ Queued(j)' = a /\ Mapped(j)' = c
    BY <1>6, <1>7, <1>8, <1>11
  <2>2. Copies(j)' = a + b + c + e
    BY <1>4, <1>5, <1>8, <2>1
  <2> QED  BY <1>1, <1>9, <1>11, <2>2
<1> QED  BY <1>10, <1>11

LEMMA CopiesClearDrained ==
    ASSUME TypeOK, NEW j \in Jobs, ClearDrained
    PROVE  \/ Copies(j)' = Copies(j)
           \/ /\ Copies(j)' \in Nat /\ Copies(j)' <= Copies(j)
              /\ Copies(j)' < Copies(j) => j[1] \in ToSet(Waiting(j[2]))
<1>1. at \in 1 .. 4 /\ pc = "clear"
  BY DEF ClearDrained, TypeOK
<1>2. PICK t \in Types : t = DrainOrder[at]
  BY <1>1, Orders
<1>3. /\ m_url_queue' = [m_url_queue EXCEPT ![t] = <<>>] /\ pc' # "clear"
      /\ UNCHANGED <<hand, select_map, listVars>>
  BY <1>2 DEF ClearDrained
<1>4. m_url_queue \in [Types -> Seq(Urls)] /\ j[2] \in Types
  BY DEF TypeOK, PoolTypeOK, Jobs
<1>5. CASE j[2] # t
  <2>1. Waiting(j[2])' = Waiting(j[2])
    BY <1>2, <1>3, <1>4, <1>5 DEF Waiting
  <2> QED  BY <1>3, <2>1, CopiesSame
<1>6. CASE j[2] = t
  <2>1. Waiting(j[2])' = <<>>
    BY <1>3, <1>4, <1>6 DEF Waiting
  <2>2. Queued(j)' = 0
    BY <2>1, OccurrencesEmpty DEF Queued
  <2>3. Held(j)' = Held(j) /\ Mapped(j)' = Mapped(j) /\ Listed(j)' = Listed(j)
    BY <1>3 DEF Held, Mapped, Listed, listVars
  <2>4. /\ Queued(j) \in Nat /\ Held(j) \in Nat /\ Mapped(j) \in Nat /\ Listed(j) \in Nat
        /\ Copies(j) = Queued(j) + Held(j) + Mapped(j) + Listed(j)
        /\ Waiting(j[2]) \in Seq(Urls)
    BY CopiesAre
  <2>5. Copies(j)' = Queued(j)' + Held(j)' + Mapped(j)' + Listed(j)'
    BY DEF Copies, Queued, Held, Mapped, Listed
  <2>6. Queued(j) > 0 => j[1] \in ToSet(Waiting(j[2]))
    BY <2>4, OccurrencesType DEF Queued, ToSet
  <2>7. PICK a \in Nat, b \in Nat, c \in Nat, e \in Nat :
           Queued(j) = a /\ Held(j) = b /\ Mapped(j) = c /\ Listed(j) = e
    BY <2>4
  <2>8. Copies(j) = a + b + c + e /\ Copies(j)' = b + c + e
    BY <2>2, <2>3, <2>4, <2>5, <2>7
  <2> QED  BY <2>6, <2>7, <2>8
<1> QED  BY <1>5, <1>6

(* Serving a domain moves its jobs, and left-overs, from list to list. *)
LEMMA CopiesSelectDomain ==
    ASSUME TypeOK, OwnJobs, TypeOK', NEW j \in Jobs, SelectDomain
    PROVE  Copies(j)' = Copies(j)
<1>1. PICK e \in DomainNames, v \in Seq(Jobs), T \in SUBSET Int :
         /\ T \in SUBSET DOMAIN v
         /\ e = Served[at] /\ v = select_map[e] /\ T = TakenOf(e)
  <2>1. /\ Served[at] \in DomainNames /\ select_map[Served[at]] \in Seq(Jobs)
        /\ TakenOf(Served[at]) \in SUBSET DOMAIN select_map[Served[at]]
    BY SelectDomainLists
  <2>2. TakenOf(Served[at]) \in SUBSET Int
    BY <2>1
  <2> QED  BY <2>1, <2>2
<1>2. PICK fill \in Seq(Jobs), rest \in Seq(Jobs) :
         /\ ListsStep(e, v, T, fill, rest)
         /\ Occurrences(BackOf(e), j) + Occurrences(At(v, DOMAIN v \ T), j)
               = Occurrences(rest, j) + Occurrences(fill, j)
  BY <1>1, SelectDomainLists
<1>3. UNCHANGED <<poolVars, pc, copied>> /\ pc = "quota"
  BY DEF SelectDomain
<1>4. /\ Queued(j) \in Nat /\ Held(j) \in Nat /\ Mapped(j) \in Nat /\ Listed(j) \in Nat
      /\ Copies(j) = Queued(j) + Held(j) + Mapped(j) + Listed(j)
      /\ Listed(j) = Occurrences(m_select_buffer, j) + Occurrences(m_select_back_p, j)
                       + Occurrences(m_select_back_o, j)
      /\ Occurrences(m_select_buffer, j) \in Nat
      /\ Occurrences(m_select_back_p, j) \in Nat /\ Occurrences(m_select_back_o, j) \in Nat
      /\ DomainOf[j[1]] \in DomainNames
  BY CopiesAre
<1>5. Copies(j)' = Queued(j)' + Held(j)' + Mapped(j)' + Listed(j)'
  BY DEF Copies, Queued, Held, Mapped, Listed
<1>6. Queued(j)' = Queued(j) /\ Held(j)' = Held(j)
  BY <1>3 DEF Queued, Waiting, Held, poolVars
<1>7. Mapped(j) = Mapped(j)' + Occurrences(v, j) /\ Mapped(j)' \in Nat
  <2>1. /\ select_map' = [select_map EXCEPT ![e] = <<>>]
        /\ select_map \in [DomainNames -> Seq(Jobs)]
    BY <1>2 DEF ListsStep, TypeOK
  <2>4. Occurrences(v, j) \in Nat
    BY OccurrencesType
  <2>2. CASE DomainOf[j[1]] = e
    <3>1. Mapped(j) = Occurrences(v, j) /\ Mapped(j)' = 0
      BY <1>1, <2>1, <2>2, OccurrencesEmpty DEF Mapped
    <3> QED  BY <2>4, <3>1
  <2>3. CASE DomainOf[j[1]] # e
    <3>1. Mapped(j)' = Mapped(j)
      BY <1>4, <2>1, <2>3 DEF Mapped
    <3>2. {x \in DOMAIN v : v[x] = j} = {}
      BY <1>1, <2>3 DEF OwnJobs
    <3>3. Occurrences(v, j) = 0
      BY <3>2, FS_EmptySet DEF Occurrences
    <3> QED  BY <1>4, <3>1, <3>3
  <2> QED  BY <2>2, <2>3
<1>8. PICK s \in Seq(Jobs), l \in Seq(Jobs) : s = At(v, T) /\ l = At(v, DOMAIN v \ T)
  <2>1. DOMAIN v \ T \in SUBSET DOMAIN v
    OBVIOUS
  <2> QED  BY <1>1, <2>1, AtLists
<1>9. Occurrences(v, j) = Occurrences(s, j) + Occurrences(l, j)
  BY <1>1, <1>8, OccurrencesSplit
<1>10. PICK b \in Seq(Jobs), p \in Seq(Jobs), o \in Seq(Jobs) :
          b = m_select_buffer /\ p = m_select_back_p /\ o = m_select_back_o
  BY DEF TypeOK
<1>11. /\ m_select_buffer' = b \o s \o fill
       /\ m_select_back_p' = IF class[e] = "seed" THEN rest ELSE p
       /\ m_select_back_o' = IF class[e] = "seed" THEN o ELSE rest
       /\ BackOf(e) = IF class[e] = "seed" THEN p ELSE o
  BY <1>2, <1>8, <1>10 DEF ListsStep, BackOf
<1>12. Listed(j)' = Occurrences(b \o s \o fill, j) + Occurrences(m_select_back_p', j)
                      + Occurrences(m_select_back_o', j)
  <2>1. (m_select_buffer \in Seq(Jobs) /\ m_select_back_p \in Seq(Jobs)
           /\ m_select_back_o \in Seq(Jobs))'
    BY DEF TypeOK
  <2>2. PICK bb \in Seq(Jobs), pp \in Seq(Jobs), oo \in Seq(Jobs) :
           bb = m_select_buffer' /\ pp = m_select_back_p' /\ oo = m_select_back_o'
    BY <2>1
  <2>3. bb \o pp \in Seq(Jobs)
    BY ConcatProperties
  <2>4. /\ Occurrences(bb \o pp \o oo, j) = Occurrences(bb \o pp, j) + Occurrences(oo, j)
        /\ Occurrences(bb \o pp, j) = Occurrences(bb, j) + Occurrences(pp, j)
    BY <2>3, OccurrencesCat
  <2>5. Listed(j)' = Occurrences(bb \o pp \o oo, j)
    BY <2>2 DEF Listed
  <2> QED  BY <1>11, <2>2, <2>4, <2>5
<1>13. Occurrences(b \o s \o fill, j) = Occurrences(b, j) + Occurrences(s, j) + Occurrences(fill, j)
  <2>1. b \o s \in Seq(Jobs)
    BY ConcatProperties
  <2>2. Occurrences(b \o s, j) = Occurrences(b, j) + Occurrences(s, j)
    BY OccurrencesCat
  <2>3. Occurrences(b \o s \o fill, j) = Occurrences(b \o s, j) + Occurrences(fill, j)
    BY <2>1, OccurrencesCat
  <2> QED  BY <2>2, <2>3
<1>14. PICK nb \in Nat, np \in Nat, no \in Nat, ns \in Nat, nl \in Nat, nf \in Nat, nr \in Nat :
          /\ nb = Occurrences(b, j) /\ np = Occurrences(p, j) /\ no = Occurrences(o, j)
          /\ ns = Occurrences(s, j) /\ nl = Occurrences(l, j) /\ nf = Occurrences(fill, j)
          /\ nr = Occurrences(rest, j)
  BY OccurrencesType
<1>15. Listed(j) = nb + np + no /\ Occurrences(v, j) = ns + nl
  BY <1>4, <1>9, <1>10, <1>14
<1>16. Listed(j)' = Listed(j) + Occurrences(v, j)
  <2>1. CASE class[e] = "seed"
    <3>1. np + nl = nr + nf
      BY <1>2, <1>8, <1>11, <1>14, <2>1
    <3>2. Listed(j)' = (nb + ns + nf) + nr + no
      BY <1>11, <1>12, <1>13, <1>14, <2>1
    <3> QED  BY <1>15, <3>1, <3>2
  <2>2. CASE class[e] # "seed"
    <3>1. no + nl = nr + nf
      BY <1>2, <1>8, <1>11, <1>14, <2>2
    <3>2. Listed(j)' = (nb + ns + nf) + np + nr
      BY <1>11, <1>12, <1>13, <1>14, <2>2
    <3> QED  BY <1>15, <3>1, <3>2
  <2> QED  BY <2>1, <2>2
<1>17. PICK a \in Nat, h \in Nat, m \in Nat, n \in Nat, x \in Nat :
          Queued(j) = a /\ Held(j) = h /\ Mapped(j)' = m /\ Listed(j) = n /\ Occurrences(v, j) = x
  BY <1>4, <1>7, OccurrencesType
<1>18. Copies(j) = a + h + (m + x) + n /\ Copies(j)' = a + h + m + (n + x)
  BY <1>4, <1>5, <1>6, <1>7, <1>16, <1>17
<1> QED  BY <1>17, <1>18

LEMMA CopiesJudge ==
    ASSUME TypeOK, MapServed, NEW j \in Jobs, Judge
    PROVE  /\ Copies(j)' \in Nat /\ Copies(j)' <= Copies(j)
           /\ Copies(j)' < Copies(j) => DomainOf[j[1]] \in shielded
<1>1. /\ pc = "quota" /\ pc' # "clear" /\ at > Len(Served) /\ select_map' = EmptyMap
      /\ UNCHANGED <<poolVars, listVars>>
  BY DEF Judge
<1>2. /\ Queued(j) \in Nat /\ Held(j) \in Nat /\ Mapped(j) \in Nat /\ Listed(j) \in Nat
      /\ Copies(j) = Queued(j) + Held(j) + Mapped(j) + Listed(j)
      /\ DomainOf[j[1]] \in DomainNames
  BY CopiesAre
<1>3. Copies(j)' = Queued(j)' + Held(j)' + Mapped(j)' + Listed(j)'
  BY DEF Copies, Queued, Held, Mapped, Listed
<1>4. Queued(j)' = Queued(j) /\ Held(j)' = Held(j) /\ Listed(j)' = Listed(j)
  BY <1>1 DEF Queued, Waiting, Held, Listed, poolVars, listVars
<1>5. Mapped(j)' = 0
  BY <1>1, <1>2, OccurrencesEmpty DEF Mapped, EmptyMap
<1>6. DomainOf[j[1]] \notin shielded => Mapped(j) = 0
  <2>1. Len(Served) \in Nat /\ at \in Nat
    BY <1>1, ServedLists DEF TypeOK
  <2>2. at .. Len(Served) = {}
    BY <1>1, <2>1
  <2>3. DomainOf[j[1]] \notin shielded => select_map[DomainOf[j[1]]] = <<>>
    BY <1>1, <1>2, <2>2 DEF MapServed
  <2> QED  BY <2>3, OccurrencesEmpty DEF Mapped
<1>7. PICK a \in Nat, b \in Nat, c \in Nat, e \in Nat :
         Queued(j) = a /\ Held(j) = b /\ Mapped(j) = c /\ Listed(j) = e
  BY <1>2
<1>8. Copies(j) = a + b + c + e /\ Copies(j)' = a + b + e
  BY <1>2, <1>3, <1>4, <1>5, <1>7
<1> QED  BY <1>6, <1>7, <1>8

LEMMA CopiesInsert ==
    ASSUME TypeOK, NEW j \in Jobs, insert_url
    PROVE  /\ Copies(j)' \in Nat /\ Copies(j)' <= Copies(j)
           /\ Copies(j)' = 0 /\ Copies(j) > 0 => j \in ToSet(m_select_buffer) \/ Misfiled(j)
<1>1. /\ m_url_queue' = [t \in Types |-> m_url_queue[t] \o UrlsFor(GivenBack, t)]
      /\ UNCHANGED <<m_url_set, hand, select_map>> /\ pc = "insert" /\ pc' = "conf"
      /\ m_select_back_o' = <<>> /\ m_select_back_p' = <<>> /\ m_select_buffer' = <<>>
  BY DEF insert_url, add_to_que, roundVars
<1>2. /\ Queued(j) \in Nat /\ Held(j) \in Nat /\ Mapped(j) \in Nat /\ Listed(j) \in Nat
      /\ Copies(j) = Queued(j) + Held(j) + Mapped(j) + Listed(j)
      /\ Listed(j) = Occurrences(m_select_buffer, j) + Occurrences(m_select_back_p, j)
                       + Occurrences(m_select_back_o, j)
      /\ Occurrences(m_select_buffer, j) \in Nat
      /\ Occurrences(m_select_back_p, j) \in Nat /\ Occurrences(m_select_back_o, j) \in Nat
      /\ j[2] \in Types /\ j = <<j[1], j[2]>>
  BY CopiesAre
<1>3. Copies(j)' = Queued(j)' + Held(j)' + Mapped(j)' + Listed(j)'
  BY DEF Copies, Queued, Held, Mapped, Listed
<1>4. Held(j)' = Held(j) /\ Mapped(j)' = Mapped(j)
  BY <1>1 DEF Held, Mapped
<1>5. Listed(j)' = 0
  <2>1. <<>> \o <<>> \o <<>> = <<>>
    OBVIOUS
  <2> QED  BY <1>1, <2>1, OccurrencesEmpty DEF Listed
<1>6. Queued(j)' = Queued(j) + Occurrences(GivenBack, j)
  <2>1. PICK q \in Seq(Urls), r \in Seq(Urls) :
           q = m_url_queue[j[2]] /\ r = UrlsFor(GivenBack, j[2])
    BY <1>2, GivenBackLists, UrlsForLists DEF TypeOK, PoolTypeOK
  <2>2. Occurrences(q \o r, j[1]) = Occurrences(q, j[1]) + Occurrences(r, j[1])
    BY OccurrencesCat
  <2>3. Occurrences(r, j[1]) = Occurrences(GivenBack, j)
    BY <1>2, <2>1, GivenBackLists, UrlsForLists DEF TypeOK
  <2>4. Waiting(j[2]) = q /\ Waiting(j[2])' = q \o r
    BY <1>1, <1>2, <2>1 DEF Waiting
  <2> QED  BY <2>2, <2>3, <2>4 DEF Queued
<1>7. Occurrences(GivenBack, j)
         = (IF j[2] \in {0, 1} THEN Occurrences(m_select_back_o, j) ELSE 0)
             + (IF j[2] \in {2, 3} THEN Occurrences(m_select_back_p, j) ELSE 0)
  BY GivenBackLists DEF TypeOK
<1>8. PICK a \in Nat, h \in Nat, m \in Nat, b \in Nat, p \in Nat, o \in Nat :
         /\ Queued(j) = a /\ Held(j) = h /\ Mapped(j) = m
         /\ b = Occurrences(m_select_buffer, j)
         /\ p = Occurrences(m_select_back_p, j) /\ o = Occurrences(m_select_back_o, j)
  BY <1>2
<1>9. Copies(j) = a + h + m + (b + p + o)
  BY <1>2, <1>8
<1>10. \/ j[2] \in {0, 1} /\ Copies(j)' = a + o + h + m
       \/ j[2] \in {2, 3} /\ Copies(j)' = a + p + h + m
  <2>1. j[2] \in {0, 1} \/ j[2] \in {2, 3}
    BY <1>2 DEF Types
  <2>2. CASE j[2] \in {0, 1}
    <3>1. Occurrences(GivenBack, j) = o
      BY <1>7, <1>8, <2>2
    <3> QED  BY <1>3, <1>4, <1>5, <1>6, <1>8, <2>2, <3>1
  <2>3. CASE j[2] \in {2, 3}
    <3>1. Occurrences(GivenBack, j) = p
      BY <1>7, <1>8, <2>3
    <3> QED  BY <1>3, <1>4, <1>5, <1>6, <1>8, <2>3, <3>1
  <2> QED  BY <2>1, <2>2, <2>3
<1>11. /\ b > 0 => j \in ToSet(m_select_buffer)
       /\ p > 0 => j \in ToSet(m_select_back_p)
       /\ o > 0 => j \in ToSet(m_select_back_o)
  <2>1. ASSUME NEW s \in Seq(Jobs), Occurrences(s, j) > 0 PROVE j \in ToSet(s)
    BY <2>1, OccurrencesType DEF ToSet
  <2>2. /\ m_select_buffer \in Seq(Jobs) /\ m_select_back_p \in Seq(Jobs)
        /\ m_select_back_o \in Seq(Jobs)
    BY DEF TypeOK
  <2> QED  BY <1>8, <2>1, <2>2
<1>12. Copies(j)' \in Nat /\ Copies(j)' <= Copies(j)
  BY <1>8, <1>9, <1>10
<1>13. ASSUME Copies(j)' = 0, Copies(j) > 0
       PROVE  j \in ToSet(m_select_buffer) \/ Misfiled(j)
  <2>1. CASE j[2] \in {0, 1} /\ Copies(j)' = a + o + h + m
    <3>1. b > 0 \/ p > 0
      BY <1>8, <1>9, <1>13, <2>1
    <3> QED  BY <1>11, <2>1, <3>1 DEF Misfiled
  <2>2. CASE j[2] \in {2, 3} /\ Copies(j)' = a + p + h + m
    <3>1. b > 0 \/ o > 0
      BY <1>8, <1>9, <1>13, <2>2
    <3> QED  BY <1>11, <2>2, <3>1 DEF Misfiled
  <2> QED  BY <1>10, <2>1, <2>2
<1> QED  BY <1>12, <1>13

LEMMA CopiesDropQueue ==
    ASSUME TypeOK, NEW j \in Jobs, DropQueue
    PROVE  Copies(j)' \in Nat /\ Copies(j)' <= Copies(j)
<1>1. at \in 1 .. 4 /\ pc = "drop_queue" /\ pc' = "drop_set"
  BY DEF DropQueue, TypeOK
<1>2. PICK t \in Types : t = ClearOrder[at]
  BY <1>1, Orders
<1>3. /\ m_url_queue' = [m_url_queue EXCEPT ![t] = <<>>]
      /\ UNCHANGED <<hand, select_map, listVars>>
  BY <1>2 DEF DropQueue, ClearQueue, roundVars
<1>4. m_url_queue \in [Types -> Seq(Urls)] /\ j[2] \in Types
  BY DEF TypeOK, PoolTypeOK, Jobs
<1>5. Queued(j)' = 0 \/ Queued(j)' = Queued(j)
  <2>1. CASE j[2] = t
    <3>1. Waiting(j[2])' = <<>>
      BY <1>1, <1>3, <1>4, <2>1 DEF Waiting
    <3> QED  BY <3>1, OccurrencesEmpty DEF Queued
  <2>2. CASE j[2] # t
    BY <1>1, <1>3, <1>4, <2>2 DEF Queued, Waiting
  <2> QED  BY <2>1, <2>2
<1>6. Held(j)' = Held(j) /\ Mapped(j)' = Mapped(j) /\ Listed(j)' = Listed(j)
  BY <1>3 DEF Held, Mapped, Listed, listVars
<1>7. /\ Queued(j) \in Nat /\ Held(j) \in Nat /\ Mapped(j) \in Nat /\ Listed(j) \in Nat
      /\ Copies(j) = Queued(j) + Held(j) + Mapped(j) + Listed(j)
  BY CopiesAre
<1>8. Copies(j)' = Queued(j)' + Held(j)' + Mapped(j)' + Listed(j)'
  BY DEF Copies, Queued, Held, Mapped, Listed
<1>9. PICK a \in Nat, b \in Nat, c \in Nat, e \in Nat :
         Queued(j) = a /\ Held(j) = b /\ Mapped(j) = c /\ Listed(j) = e
  BY <1>7
<1>10. Copies(j) = a + b + c + e /\ (Copies(j)' = b + c + e \/ Copies(j)' = a + b + c + e)
  BY <1>5, <1>6, <1>7, <1>8, <1>9
<1> QED  BY <1>9, <1>10

(* How a job may leave the selection, as NothingElseLost has it. *)
Lost(j) ==
    \/ pc = "insert" /\ j \in ToSet(m_select_buffer)
    \/ pc = "clear" /\ j[1] \in ToSet(Waiting(j[2]))
    \/ pc = "copy" /\ class[DomainOf[j[1]]] = "none"
    \/ pc = "quota" /\ DomainOf[j[1]] \in shielded
    \/ pc = "insert" /\ Misfiled(j)
    \/ pc = "drop_queue"

(* What a step does to the copies of a job, and to what its pool knows. *)
LEMMA CopiesNext ==
    ASSUME TypeOK, TypeOK', OwnJobs, MapServed, CopiedWithin, [Next]_vars, NEW j \in Jobs
    PROVE  /\ \/ Copies(j)' = Copies(j)
              \/ Copies(j)' <= Copies(j) /\ Copies(j)' \in Nat
              \/ ~Known(j) /\ Known(j)'
           /\ UnderWay(j) /\ ~UnderWay(j)' => Lost(j)
<1>1. Copies(j) \in Nat
  BY CopiesNat
<1>2. ASSUME Copies(j)' = Copies(j) PROVE UnderWay(j) => UnderWay(j)'
  BY <1>2 DEF UnderWay
<1>3. ASSUME Copies(j)' \in Nat, UnderWay(j), ~UnderWay(j)'
      PROVE  Copies(j)' = 0 /\ Copies(j) > 0 /\ Copies(j)' < Copies(j)
  BY <1>1, <1>3 DEF UnderWay
<1>4. CASE load_input_urls
  <2>1. PICK S \in SUBSET Input : Enter(S, 1)
    BY <1>4 DEF load_input_urls
  <2>2. pc # "clear" /\ pc' # "clear" /\ UNCHANGED <<select_map, listVars>>
    BY <1>4 DEF load_input_urls, roundVars
  <2>3. S \in SUBSET Urls /\ IsFiniteSet(S) /\ 1 \in Types
    BY InputFinite DEF Types
  <2>4. \/ Copies(j)' = Copies(j)
        \/ ~Known(j) /\ Known(j)' /\ (UnderWay(j) => UnderWay(j)')
    BY <2>1, <2>2, <2>3, CopiesEnter
  <2> QED  BY <1>2, <2>4
<1>5. CASE update_conf
  <2>1. pc # "clear" /\ pc' # "clear" /\ UNCHANGED <<at, select_map, listVars>>
    BY <1>5 DEF update_conf, roundVars
  <2>2. CASE UNCHANGED poolVars
    <3>1. Waiting(j[2])' = Waiting(j[2]) /\ UNCHANGED hand
      BY <2>1, <2>2 DEF Waiting, poolVars
    <3>2. Copies(j)' = Copies(j)
      BY <2>1, <3>1, CopiesSame
    <3> QED  BY <1>2, <3>2
  <2>3. ASSUME NEW S \in SUBSET Seeds, Enter(S, 3)
        PROVE  \/ Copies(j)' = Copies(j)
               \/ ~Known(j) /\ Known(j)' /\ (UnderWay(j) => UnderWay(j)')
    <3>1. S \in SUBSET Urls /\ IsFiniteSet(S) /\ 3 \in Types
      BY InputFinite DEF Types
    <3> QED  BY <2>1, <2>3, <3>1, CopiesEnter
  <2>4. UNCHANGED poolVars \/ \E S \in SUBSET Seeds : Enter(S, 3)
    BY <1>5 DEF update_conf
  <2> QED  BY <1>2, <2>2, <2>3, <2>4
<1>6. CASE Start \/ Hang \/ DropSet \/ UNCHANGED vars
  <2>1. UNCHANGED <<m_url_queue, hand, select_map, listVars>>
    BY <1>6 DEF Start, Hang, DropSet, ClearSet, poolVars, roundVars, vars
  <2>2. (pc # "clear" /\ pc' # "clear") \/ UNCHANGED <<pc, at, copied>>
    BY <1>6 DEF Start, Hang, DropSet, vars, roundVars
  <2>3. Waiting(j[2])' = Waiting(j[2])
    BY <2>1, <2>2 DEF Waiting
  <2>4. Copies(j)' = Copies(j)
    BY <2>1, <2>3, CopiesSame
  <2> QED  BY <1>2, <2>4
<1>7. CASE Copy
  <2>1. pc = "copy"
    BY <1>7 DEF Copy
  <2>2. IF class[DomainOf[j[1]]] = "none" THEN Copies(j)' <= Copies(j) /\ Copies(j)' \in Nat
                                          ELSE Copies(j)' = Copies(j)
    BY <1>7, CopiesCopy
  <2> QED  BY <1>2, <2>1, <2>2 DEF Lost
<1>8. CASE ClearDrained
  <2>1. pc = "clear"
    BY <1>8 DEF ClearDrained
  <2>2. \/ Copies(j)' = Copies(j)
        \/ /\ Copies(j)' \in Nat /\ Copies(j)' <= Copies(j)
           /\ Copies(j)' < Copies(j) => j[1] \in ToSet(Waiting(j[2]))
    BY <1>8, CopiesClearDrained
  <2> QED  BY <1>2, <1>3, <2>1, <2>2 DEF Lost
<1>9. CASE SelectDomain
  BY <1>2, <1>9, CopiesSelectDomain
<1>10. CASE Judge
  <2>1. pc = "quota"
    BY <1>10 DEF Judge
  <2>2. /\ Copies(j)' \in Nat /\ Copies(j)' <= Copies(j)
        /\ Copies(j)' < Copies(j) => DomainOf[j[1]] \in shielded
    BY <1>10, CopiesJudge
  <2> QED  BY <1>3, <2>1, <2>2 DEF Lost
<1>11. CASE insert_url
  <2>1. pc = "insert"
    BY <1>11 DEF insert_url
  <2>2. /\ Copies(j)' \in Nat /\ Copies(j)' <= Copies(j)
        /\ Copies(j)' = 0 /\ Copies(j) > 0 => j \in ToSet(m_select_buffer) \/ Misfiled(j)
    BY <1>11, CopiesInsert
  <2> QED  BY <1>3, <2>1, <2>2 DEF Lost
<1>12. CASE DropQueue
  <2>1. pc = "drop_queue"
    BY <1>12 DEF DropQueue
  <2>2. Copies(j)' \in Nat /\ Copies(j)' <= Copies(j)
    BY <1>12, CopiesDropQueue
  <2> QED  BY <2>1, <2>2 DEF Lost
<1>13. ASSUME NEW w \in Writers, Push(w)
       PROVE  \/ Copies(j)' = Copies(j)
              \/ ~Known(j) /\ Known(j)' /\ UnderWay(j)'
  <2>1. CASE push_back(w)
    BY <1>13, <2>1, CopiesPushBack
  <2>2. ASSUME NEW i \in Links, push_url(w, i[1], i[2])
        PROVE  \/ Copies(j)' = Copies(j)
               \/ ~Known(j) /\ Known(j)' /\ UnderWay(j)'
    BY <1>13, <2>2, CopiesPushUrl
  <2>3. push_back(w) \/ \E i \in Links : push_url(w, i[1], i[2])
    BY <1>13 DEF Push
  <2> QED  BY <2>1, <2>2, <2>3
<1>14. CASE \E w \in Writers : Push(w)
  BY <1>2, <1>13, <1>14
<1> QED  BY <1>4, <1>5, <1>6, <1>7, <1>8, <1>9, <1>10, <1>11, <1>12, <1>14 DEF Next, SelectStep

(* Only the end of a samsara makes a pool forget a URL. *)
LEMMA ForgottenAtTheEnd ==
    ASSUME TypeOK, [Next]_vars, NEW j \in Jobs, Known(j), ~Known(j)'
    PROVE  pc = "drop_set"
<1>1. j[1] \in Urls /\ j[2] \in Types /\ m_url_set \in [Types -> SUBSET Urls]
  BY DEF Jobs, TypeOK, PoolTypeOK
<1>2. ASSUME NEW S, NEW t \in Types, Enter(S, t) PROVE FALSE
  <2>1. m_url_set' = [m_url_set EXCEPT ![t] = m_url_set[t] \cup S]
    BY <1>2 DEF Enter
  <2> QED  BY <1>1, <2>1 DEF Known
<1>3. ASSUME UNCHANGED m_url_set PROVE FALSE
  BY <1>3 DEF Known
<1>4. 1 \in Types /\ 3 \in Types
  BY DEF Types
<1>5. ~load_input_urls
  BY <1>2, <1>4 DEF load_input_urls
<1>6. ~update_conf
  BY <1>2, <1>3, <1>4 DEF update_conf, poolVars
<1>7. ~(Start \/ Hang \/ Copy \/ ClearDrained)
  BY <1>3 DEF Start, Hang, Copy, ClearDrained, poolVars
<1>8. ~(SelectDomain \/ Judge \/ insert_url \/ DropQueue)
  BY <1>3 DEF SelectDomain, Judge, insert_url, add_to_que, DropQueue, ClearQueue, poolVars
<1>9. ASSUME NEW w \in Writers, Push(w) PROVE FALSE
  <2>1. CASE push_back(w)
    BY <1>3, <2>1 DEF push_back
  <2>2. ASSUME NEW i \in Links, push_url(w, i[1], i[2]) PROVE FALSE
    <3>1. m_url_set' = [m_url_set EXCEPT ![i[2]] = m_url_set[i[2]] \cup {i[1]}]
      BY <2>2 DEF push_url
    <3> QED  BY <1>1, <3>1 DEF Known
  <2> QED  BY <1>9, <2>1, <2>2 DEF Push
<1>10. ~UNCHANGED vars
  BY <1>3 DEF vars, poolVars
<1>11. DropSet
  BY <1>5, <1>6, <1>7, <1>8, <1>9, <1>10 DEF Next, SelectStep
<1> QED  BY <1>11 DEF DropSet

LEMMA EnteringAreJobs == Entering \subseteq Jobs
<1>1. Links \subseteq Jobs /\ Seeds \subseteq Urls /\ Input \subseteq Urls
  BY SelectionAssumption
<1>2. 1 \in Types /\ 3 \in Types
  BY DEF Types
<1> QED  BY <1>1, <1>2 DEF Entering, Jobs

(* A URL is in one place of the selection only: whichever threads find it  *)
(* at once and however it is given back, a copy more of it comes up only   *)
(* when there was none or its pool had forgotten it.                       *)
THEOREM SelectionUnderWayOnce == Spec => UnderWayOnce
<1>1. ASSUME TypeOK, TypeOK', RoundInv, [Next]_vars, NEW j \in Entering, Copies(j)' > Copies(j)
      PROVE  Copies(j) = 0 \/ ~Known(j)
  <2>1. j \in Jobs
    BY EnteringAreJobs
  <2>2. PICK n \in Nat : Copies(j) = n
    BY <1>1, <2>1, CopiesNat
  <2>3. \/ Copies(j)' = Copies(j)
        \/ Copies(j)' <= Copies(j) /\ Copies(j)' \in Nat
        \/ ~Known(j) /\ Known(j)'
    BY <1>1, <2>1, CopiesNext DEF RoundInv
  <2> QED  BY <1>1, <2>2, <2>3
<1>2. TypeOK /\ TypeOK' /\ RoundInv /\ [Next]_vars =>
        [\A j \in Entering : Copies(j)' > Copies(j) => Copies(j) = 0 \/ ~Known(j)]_vars
  BY <1>1
<1> QED  BY <1>2, SelectionType, RoundInvariant, PTL DEF Spec, UnderWayOnce

(* A URL that is under way stays known to its pool, which forgets it only  *)
(* when the sets are cleared at the end of a samsara.                      *)
THEOREM SelectionKnownWhileUnderWay == Spec => KnownWhileUnderWay
<1>1. ASSUME TypeOK, TypeOK', RoundInv, [Next]_vars, NEW j \in Entering,
             (UnderWay(j) /\ ~Known(j))'
      PROVE  (UnderWay(j) /\ ~Known(j)) \/ pc = "drop_set"
  <2>1. j \in Jobs
    BY EnteringAreJobs
  <2>2. CASE Known(j)
    BY <1>1, <2>1, <2>2, ForgottenAtTheEnd
  <2>3. CASE ~Known(j)
    <3>1. PICK n \in Nat : Copies(j) = n
      BY <1>1, <2>1, CopiesNat
    <3>2. Copies(j)' = Copies(j) \/ (Copies(j)' <= Copies(j) /\ Copies(j)' \in Nat)
      BY <1>1, <2>1, CopiesNext DEF RoundInv
    <3>3. Copies(j)' > 0
      BY <1>1 DEF UnderWay
    <3>4. Copies(j) > 0
      BY <3>1, <3>2, <3>3
    <3> QED  BY <2>3, <3>4 DEF UnderWay
  <2> QED  BY <2>2, <2>3
<1>2. TypeOK /\ TypeOK' /\ RoundInv /\ [Next]_vars =>
        [\A j \in Entering : (UnderWay(j) /\ ~Known(j))' =>
                                  (UnderWay(j) /\ ~Known(j)) \/ pc = "drop_set"]_vars
  BY <1>1
<1> QED  BY <1>2, SelectionType, RoundInvariant, PTL DEF Spec, KnownWhileUnderWay

(* A URL leaves the selection for the selected queue, or in one of the     *)
(* ways Lost names; no step of any thread loses it otherwise.              *)
THEOREM SelectionNothingElseLost == Spec => NothingElseLost
<1>1. TypeOK /\ TypeOK' /\ RoundInv /\ [Next]_vars =>
        [\A j \in Entering : UnderWay(j) /\ ~UnderWay(j)' => Lost(j)]_vars
  BY EnteringAreJobs, CopiesNext DEF RoundInv
<1>2. NothingElseLost <=> [][\A j \in Entering : UnderWay(j) /\ ~UnderWay(j)' => Lost(j)]_vars
  BY PTL DEF NothingElseLost, Lost
<1> QED  BY <1>1, <1>2, SelectionType, RoundInvariant, PTL DEF Spec
=============================================================================
