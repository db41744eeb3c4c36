----------------------------- MODULE S3Fifo_proofs -----------------------------
(***************************************************************************)
(* The seed policy s3_fifo.c, for any number of pages, CPUs, additions and *)
(* failures: recorded pages stay on one queue, and the two counters are    *)
(* wrong on one side only.  By the inductive invariant IInv, which says    *)
(* whose folio_added call a queued page without metadata belongs to, and   *)
(* counts what is about to join a queue and what a pass has moved.         *)
(*                                                                         *)
(* What Kept and Visited compute is proved of every queue by the least     *)
(* number at which it would fail (LeastNumber, ByInduction).               *)
(***************************************************************************)
EXTENDS S3Fifo, FiniteSetTheorems, SequenceTheorems, WellFoundedInduction, TLAPS

-----------------------------------------------------------------------------
(* Queues as sets: what is on them, and how long they are. *)

(* A set of numbers that is not empty has a least one.                     *)
LEMMA LeastNumber ==
  ASSUME NEW T \in SUBSET Nat, T # {}
  PROVE  \E m \in T : \A k \in T : m <= k
<1> DEFINE R == OpToRel(<, Nat)
<1>1. IsWellFoundedOn(R, Nat)
  BY NatLessThanWellFounded
<1>2. \A x, y \in Nat : x < y => <<x, y>> \in R
  BY DEF OpToRel
<1> HIDE DEF R
<1>3. PICK m \in T : \A y \in T : ~ (<<y, m>> \in R)
  BY <1>1, WFMin
<1>4. \A k \in T : k \in Nat /\ m \in Nat /\ ~ (k < m)
  BY <1>2, <1>3
<1> QED BY <1>4

(* A set with 0 and, with each number, the next one holds them all.        *)
LEMMA ByInduction ==
  ASSUME NEW T, 0 \in T, \A n \in Nat : n \in T => n + 1 \in T
  PROVE  \A n \in Nat : n \in T
<1> SUFFICES ASSUME NEW n \in Nat, n \notin T PROVE FALSE
  OBVIOUS
<1>1. PICK m \in Nat \ T : \A k \in Nat \ T : m <= k
  <2>1. Nat \ T \in SUBSET Nat /\ Nat \ T # {}
    OBVIOUS
  <2> QED BY <2>1, LeastNumber
<1>2. m # 0 /\ m - 1 \in Nat /\ m - 1 \notin Nat \ T
  BY <1>1
<1> QED BY <1>1, <1>2

(* A queue in which no page stands twice is as long as its pages are many. *)
LEMMA LenIsCount ==
  ASSUME NEW s \in Seq(Pages), IsInjective(s)
  PROVE  IsFiniteSet(ToSet(s)) /\ Cardinality(ToSet(s)) = Len(s) /\ ToSet(s) \subseteq Pages
<1>1. DOMAIN s = 1 .. Len(s) /\ Len(s) \in Nat
  OBVIOUS
<1>2. IsFiniteSet(1 .. Len(s)) /\ Cardinality(1 .. Len(s)) = Len(s)
  BY <1>1, FS_Interval
<1>3. s \in Bijection(1 .. Len(s), ToSet(s))
  BY <1>1 DEF Bijection, Injection, Surjection, IsInjective, ToSet
<1>4. ExistsBijection(1 .. Len(s), ToSet(s))
  BY <1>3 DEF ExistsBijection
<1>5. ToSet(s) \subseteq Pages
  BY <1>1 DEF ToSet
<1> QED BY <1>2, <1>4, <1>5, FS_Bijection

(* Two queues joined: the pages of both, in no place twice if the queues   *)
(* have no page in common.                                                 *)
LEMMA Joined ==
  ASSUME NEW s \in Seq(Pages), NEW t \in Seq(Pages)
  PROVE  /\ s \o t \in Seq(Pages) /\ Len(s \o t) = Len(s) + Len(t)
         /\ ToSet(s \o t) = ToSet(s) \cup ToSet(t)
         /\ IsInjective(s \o t) <=>
              IsInjective(s) /\ IsInjective(t) /\ ToSet(s) \cap ToSet(t) = {}
<1> DEFINE u == s \o t
<1>1. /\ Len(s) \in Nat /\ Len(t) \in Nat /\ u \in Seq(Pages) /\ Len(u) = Len(s) + Len(t)
      /\ DOMAIN s = 1 .. Len(s) /\ DOMAIN t = 1 .. Len(t) /\ DOMAIN u = 1 .. Len(s) + Len(t)
      /\ \A i \in DOMAIN s : u[i] = s[i]
      /\ \A i \in DOMAIN t : i + Len(s) \in DOMAIN u /\ u[i + Len(s)] = t[i]
      /\ \A i \in DOMAIN u : i \in DOMAIN s \/ (i - Len(s) \in DOMAIN t /\ u[i] = t[i - Len(s)])
  OBVIOUS
<1> HIDE DEF u
<1>2. ToSet(u) = ToSet(s) \cup ToSet(t)
  <2>1. ToSet(u) \subseteq ToSet(s) \cup ToSet(t)
    BY <1>1 DEF ToSet
  <2>2. ToSet(s) \subseteq ToSet(u)
    BY <1>1 DEF ToSet
  <2>3. ToSet(t) \subseteq ToSet(u)
    BY <1>1 DEF ToSet
  <2> QED BY <2>1, <2>2, <2>3
<1>3. ASSUME IsInjective(u)
      PROVE  IsInjective(s) /\ IsInjective(t) /\ ToSet(s) \cap ToSet(t) = {}
  <2>1. IsInjective(s)
    BY <1>1, <1>3 DEF IsInjective
  <2>2. IsInjective(t)
    <3> SUFFICES ASSUME NEW a \in DOMAIN t, NEW b \in DOMAIN t, t[a] = t[b] PROVE a = b
      BY DEF IsInjective
    <3>1. a + Len(s) = b + Len(s)
      BY <1>1, <1>3 DEF IsInjective
    <3> QED BY <1>1, <3>1
  <2>3. ToSet(s) \cap ToSet(t) = {}
    <3> SUFFICES ASSUME NEW a \in DOMAIN s, NEW b \in DOMAIN t, s[a] = t[b] PROVE FALSE
      BY DEF ToSet
    <3>1. a = b + Len(s)
      BY <1>1, <1>3 DEF IsInjective
    <3> QED BY <1>1, <3>1
  <2> QED BY <2>1, <2>2, <2>3
<1>4. ASSUME IsInjective(s), IsInjective(t), ToSet(s) \cap ToSet(t) = {}
      PROVE  IsInjective(u)
  <2> SUFFICES ASSUME NEW a \in DOMAIN u, NEW b \in DOMAIN u, u[a] = u[b] PROVE a = b
    BY DEF IsInjective
  <2>1. \A i \in DOMAIN s : s[i] \in ToSet(s)
    BY DEF ToSet
  <2>2. \A i \in DOMAIN t : t[i] \in ToSet(t)
    BY DEF ToSet
  <2>3. CASE a \in DOMAIN s /\ b \in DOMAIN s
    BY <1>1, <1>4, <2>3 DEF IsInjective
  <2>4. CASE a \notin DOMAIN s /\ b \notin DOMAIN s
    <3>1. a - Len(s) = b - Len(s)
      BY <1>1, <1>4, <2>4 DEF IsInjective
    <3> QED BY <1>1, <3>1
  <2>5. CASE a \in DOMAIN s /\ b \notin DOMAIN s
    BY <1>1, <1>4, <2>1, <2>2, <2>5
  <2>6. CASE a \notin DOMAIN s /\ b \in DOMAIN s
    BY <1>1, <1>4, <2>1, <2>2, <2>6
  <2> QED BY <2>3, <2>4, <2>5, <2>6
<1> QED BY <1>1, <1>2, <1>3, <1>4 DEF u

(* A queue is its first n places and the rest.                             *)
LEMMA Split ==
  ASSUME NEW s \in Seq(Pages), NEW n \in 0 .. Len(s)
  PROVE  /\ SubSeq(s, 1, n) \in Seq(Pages) /\ SubSeq(s, n + 1, Len(s)) \in Seq(Pages)
         /\ s = SubSeq(s, 1, n) \o SubSeq(s, n + 1, Len(s))
         /\ Len(SubSeq(s, 1, n)) = n
<1> DEFINE a == SubSeq(s, 1, n)
           b == SubSeq(s, n + 1, Len(s))
<1>1. /\ a \in Seq(Pages) /\ Len(a) = n /\ \A i \in 1 .. n : a[i] = s[i]
  OBVIOUS
<1>2. /\ b \in Seq(Pages) /\ Len(b) = Len(s) - n
      /\ \A i \in 1 .. Len(s) - n : b[i] = s[i + n]
  OBVIOUS
<1> HIDE DEF a, b
<1>3. s = a \o b
  <2>1. 1 \in 1 .. Len(s) + 1 /\ n \in 1 - 1 .. Len(s) /\ Len(s) \in n .. Len(s)
    OBVIOUS
  <2>2. SubSeq(s, 1, n) \o SubSeq(s, n + 1, Len(s)) = SubSeq(s, 1, Len(s))
    BY <2>1, ConcatAdjacentSubSeq
  <2> QED BY <2>2, SubSeqFull DEF a, b
<1> QED BY <1>1, <1>2, <1>3 DEF a, b

(* The recursion of Kept has a solution. *)
LEMMA KeptSolved ==
  ASSUME NEW s \in Seq(Pages), NEW S
  PROVE  \E f : f = [n \in 0 .. Len(s) |->
                       IF n = 0 THEN << >>
                       ELSE IF s[n] \in S THEN Append(f[n - 1], s[n]) ELSE f[n - 1]]
<1> DEFINE Holds(f, n) ==
             /\ f = [k \in 0 .. n |-> f[k]] /\ f[0] = << >>
             /\ \A k \in 1 .. n : f[k] = IF s[k] \in S THEN Append(f[k - 1], s[k]) ELSE f[k - 1]
           T == {n \in Nat : \E f : Holds(f, n)}
<1>1. 0 \in T
  <2>1. Holds([k \in 0 .. 0 |-> << >>], 0)
    OBVIOUS
  <2> QED BY <2>1
<1>2. ASSUME NEW n \in Nat, n \in T PROVE n + 1 \in T
  <2>1. PICK f : Holds(f, n)
    BY <1>2
  <2> DEFINE next == IF s[n + 1] \in S THEN Append(f[n], s[n + 1]) ELSE f[n]
             g == [k \in 0 .. n + 1 |-> IF k = n + 1 THEN next ELSE f[k]]
  <2>2. \A k \in 0 .. n : g[k] = f[k]
    OBVIOUS
  <2>3. g[n + 1] = next /\ n + 1 - 1 = n
    OBVIOUS
  <2>4. g = [k \in 0 .. n + 1 |-> g[k]]
    OBVIOUS
  <2> HIDE DEF g, next
  <2>5. ASSUME NEW k \in 1 .. n + 1
        PROVE  g[k] = IF s[k] \in S THEN Append(g[k - 1], s[k]) ELSE g[k - 1]
    <3>1. CASE k = n + 1
      <4>1. g[k - 1] = f[n]
        BY <2>2, <2>3, <3>1
      <4> QED BY <2>3, <3>1, <4>1 DEF next
    <3>2. CASE k \in 1 .. n
      <4>1. g[k] = f[k] /\ g[k - 1] = f[k - 1]
        BY <2>2, <3>2
      <4> QED BY <2>1, <3>2, <4>1
    <3> QED BY <3>1, <3>2
  <2>6. g[0] = << >>
    BY <2>1, <2>2
  <2>7. Holds(g, n + 1)
    BY <2>4, <2>5, <2>6
  <2> HIDE DEF Holds
  <2> QED BY <2>7
<1> HIDE DEF T
<1>3. Len(s) \in T
  <2>1. Len(s) \in Nat
    OBVIOUS
  <2> QED BY <1>1, <1>2, <2>1, ByInduction
<1>4. PICK f : Holds(f, Len(s))
  BY <1>3 DEF T
<1>5. ASSUME NEW n \in 0 .. Len(s)
      PROVE  f[n] = IF n = 0 THEN << >>
                    ELSE IF s[n] \in S THEN Append(f[n - 1], s[n]) ELSE f[n - 1]
  <2>1. n = 0 \/ (n # 0 /\ n \in 1 .. Len(s))
    OBVIOUS
  <2> QED BY <1>4, <2>1
<1>6. f = [n \in 0 .. Len(s) |-> f[n]]
  BY <1>4
<1> HIDE DEF Holds
<1> HIDE <1>4
<1>7. f = [n \in 0 .. Len(s) |->
                       IF n = 0 THEN << >>
                       ELSE IF s[n] \in S THEN Append(f[n - 1], s[n]) ELSE f[n - 1]]
  BY <1>5, <1>6
<1> QED BY <1>7

(* What is kept of a queue. *)
LEMMA KeptPages ==
  ASSUME NEW s \in Seq(Pages), NEW S
  PROVE  /\ Kept(s, S) \in Seq(Pages) /\ ToSet(Kept(s, S)) = ToSet(s) \cap S
         /\ IsInjective(s) => IsInjective(Kept(s, S))
<1> DEFINE Def(f) == f = [n \in 0 .. Len(s) |->
                            IF n = 0 THEN << >>
                            ELSE IF s[n] \in S THEN Append(f[n - 1], s[n]) ELSE f[n - 1]]
           kept == CHOOSE f : Def(f)
           Until(n) == {s[i] : i \in 1 .. n}
           Keeps(n) == /\ kept[n] \in Seq(Pages) /\ ToSet(kept[n]) = Until(n) \cap S
                       /\ IsInjective(s) => IsInjective(kept[n])
           U == {n \in Nat : n <= Len(s) => Keeps(n)}
<1>1. Len(s) \in Nat /\ \A i \in 1 .. Len(s) : s[i] \in Pages
  OBVIOUS
<1>2. Def(kept)
  BY KeptSolved
<1>3. Kept(s, S) = kept[Len(s)]
  BY DEF Kept
<1> HIDE DEF kept
<1>4. kept[0] = << >>
  BY <1>1, <1>2
<1>5. ASSUME NEW n \in Nat, n + 1 <= Len(s)
      PROVE  kept[n + 1] = IF s[n + 1] \in S THEN Append(kept[n], s[n + 1]) ELSE kept[n]
  <2>1. n + 1 \in 0 .. Len(s) /\ n + 1 # 0 /\ n + 1 - 1 = n
    BY <1>1, <1>5
  <2>2. \A k \in 0 .. Len(s) :
          kept[k] = IF k = 0 THEN << >>
                    ELSE IF s[k] \in S THEN Append(kept[k - 1], s[k]) ELSE kept[k - 1]
    BY <1>2
  <2> QED BY <2>1, <2>2
<1> HIDE DEF Def
<1>6. 0 \in U
  <2>1. /\ << >> \in Seq(Pages) /\ ToSet(<< >>) = {} /\ Until(0) = {} /\ IsInjective(<< >>)
    BY DEF ToSet, IsInjective
  <2> HIDE DEF Until
  <2> QED BY <1>4, <2>1
<1>7. ASSUME NEW n \in Nat, n \in U PROVE n + 1 \in U
  <2> SUFFICES ASSUME n + 1 <= Len(s) PROVE Keeps(n + 1)
    OBVIOUS
  <2> DEFINE x == s[n + 1]
  <2>1. Keeps(n) /\ x \in Pages /\ n + 1 \in DOMAIN s
    BY <1>1, <1>7
  <2>2. Until(n + 1) = Until(n) \cup {x}
    <3>1. 1 .. n + 1 = 1 .. n \cup {n + 1}
      OBVIOUS
    <3> QED BY <3>1
  <2>3. IsInjective(s) => x \notin Until(n)
    BY <1>1, <2>1 DEF IsInjective
  <2>4. kept[n + 1] = IF x \in S THEN Append(kept[n], x) ELSE kept[n]
    BY <1>5
  <2> HIDE DEF x, Until
  <2>5. CASE x \notin S
    BY <2>1, <2>2, <2>4, <2>5
  <2>6. CASE x \in S
    <3>1. kept[n] \in Seq(Pages) /\ ToSet(kept[n]) = Until(n) \cap S
          /\ (IsInjective(s) => IsInjective(kept[n]))
      BY <2>1
    <3>2. kept[n + 1] = kept[n] \o <<x>> /\ <<x>> \in Seq(Pages)
      BY <2>1, <2>4, <2>6, <3>1, AppendIsConcat
    <3>3. ToSet(<<x>>) = {x} /\ IsInjective(<<x>>)
      BY DEF ToSet, IsInjective
    <3>4. /\ kept[n + 1] \in Seq(Pages) /\ ToSet(kept[n + 1]) = ToSet(kept[n]) \cup {x}
          /\ IsInjective(kept[n]) /\ x \notin ToSet(kept[n]) => IsInjective(kept[n + 1])
      <4>1. ToSet(kept[n]) \cap {x} = {} <=> x \notin ToSet(kept[n])
        OBVIOUS
      <4> DEFINE y == <<x>>
      <4>2. y \in Seq(Pages) /\ ToSet(y) = {x} /\ IsInjective(y) /\ kept[n + 1] = kept[n] \o y
        BY <3>2, <3>3
      <4> HIDE DEF y
      <4>3. /\ kept[n] \o y \in Seq(Pages) /\ ToSet(kept[n] \o y) = ToSet(kept[n]) \cup ToSet(y)
            /\ IsInjective(kept[n] \o y) <=>
                 IsInjective(kept[n]) /\ IsInjective(y) /\ ToSet(kept[n]) \cap ToSet(y) = {}
        BY <3>1, <4>2, Joined
      <4> QED BY <4>1, <4>2, <4>3
    <3> QED BY <2>2, <2>3, <2>6, <3>1, <3>4
  <2> QED BY <2>5, <2>6
<1> HIDE DEF U
<1>8. Len(s) \in U
  BY <1>1, <1>6, <1>7, ByInduction
<1>9. ToSet(s) = Until(Len(s))
  BY DEF ToSet
<1> QED BY <1>1, <1>3, <1>8, <1>9 DEF U

-----------------------------------------------------------------------------
(* Counting. *)

One(x, S) == IF x \in S THEN 1 ELSE 0

(* Sets that agree but on x. *)
LEMMA Recount ==
  ASSUME NEW S, NEW T, NEW x, IsFiniteSet(S), S \ {x} = T \ {x}
  PROVE  /\ IsFiniteSet(T) /\ Cardinality(S) \in Nat /\ Cardinality(T) \in Nat
         /\ Cardinality(T) = Cardinality(S) - One(x, S) + One(x, T)
<1> DEFINE R == S \ {x}
<1>1. IsFiniteSet(R) /\ Cardinality(R) \in Nat /\ x \notin R
  BY FS_RemoveElement, FS_CardinalityType
<1>2. S = (IF x \in S THEN R \cup {x} ELSE R)
  OBVIOUS
<1>3. T = (IF x \in T THEN R \cup {x} ELSE R)
  OBVIOUS
<1>4. IsFiniteSet(R \cup {x}) /\ Cardinality(R \cup {x}) = Cardinality(R) + 1
  BY <1>1, FS_AddElement
<1> HIDE DEF R
<1>5. /\ Cardinality(S) = Cardinality(R) + One(x, S)
      /\ Cardinality(T) = Cardinality(R) + One(x, T)
  <2>1. Cardinality(S) = Cardinality(R) + One(x, S)
    <3>1. CASE x \in S
      <4>1. S = R \cup {x}
        BY <1>2, <3>1
      <4> QED BY <1>4, <3>1, <4>1 DEF One
    <3>2. CASE x \notin S
      <4>1. S = R
        BY <1>2, <3>2
      <4> QED BY <1>1, <3>2, <4>1 DEF One
    <3> QED BY <3>1, <3>2
  <2>2. Cardinality(T) = Cardinality(R) + One(x, T)
    <3>1. CASE x \in T
      <4>1. T = R \cup {x}
        BY <1>3, <3>1
      <4> QED BY <1>4, <3>1, <4>1 DEF One
    <3>2. CASE x \notin T
      <4>1. T = R
        BY <1>3, <3>2
      <4> QED BY <1>1, <3>2, <4>1 DEF One
    <3> QED BY <3>1, <3>2
  <2> QED BY <2>1, <2>2
<1>6. IsFiniteSet(T)
  BY <1>1, <1>3, <1>4
<1> QED BY <1>1, <1>5, <1>6 DEF One

(* Counting one place of a queue more. *)
LEMMA ProposedGrows ==
  ASSUME NEW queue, NEW n \in Nat, NEW S
  PROVE  /\ Proposed(queue, n, S) \in Nat /\ Proposed(queue, n + 1, S) \in Nat
         /\ Proposed(queue, n + 1, S) <= Proposed(queue, n, S) + 1
         /\ Proposed(queue, 0, S) = 0
<1> DEFINE A(k) == {i \in 1 .. k : queue[i] \in S}
<1>1. IsFiniteSet(A(n))
  <2>1. IsFiniteSet(1 .. n) /\ A(n) \in SUBSET (1 .. n)
    BY FS_Interval
  <2> QED BY <2>1, FS_Subset
<1>2. A(n) \ {n + 1} = A(n + 1) \ {n + 1}
  OBVIOUS
<1>3. A(0) = {}
  OBVIOUS
<1> HIDE DEF A
<1>4. /\ Cardinality(A(n)) \in Nat /\ Cardinality(A(n + 1)) \in Nat
      /\ Cardinality(A(n + 1)) <= Cardinality(A(n)) + 1
  BY <1>1, <1>2, Recount DEF One
<1>5. Cardinality(A(0)) = 0
  BY <1>3, FS_EmptySet
<1> QED BY <1>4, <1>5 DEF Proposed, A

(* A pass visits a part of its queue and proposes no more than is needed.  *)
LEMMA VisitedPart ==
  ASSUME NEW queue \in Seq(Pages), NEW S, NEW need \in Nat
  PROVE  /\ Visited(queue, S, need) \in 0 .. Len(queue)
         /\ Proposed(queue, Visited(queue, S, need), S) \in 0 .. need
<1> DEFINE P(n) == Proposed(queue, n, S)
           Stops(n) == /\ n = Len(queue) \/ P(n) = need
                       /\ \A k \in 0 .. n - 1 : P(k) < need
           v == Visited(queue, S, need)
           T == {n \in 0 .. Len(queue) : n = Len(queue) \/ P(n) >= need}
<1>1. \A n \in Nat : P(n) \in Nat /\ P(n + 1) \in Nat /\ P(n + 1) <= P(n) + 1 /\ P(0) = 0
  BY ProposedGrows
<1>2. v = CHOOSE n \in 0 .. Len(queue) : Stops(n)
  BY DEF Visited
<1> HIDE DEF P, v
<1>3. ASSUME NEW n \in Nat, \A k \in 0 .. n - 1 : P(k) < need
      PROVE  P(n) <= need
  <2>1. CASE n = 0
    BY <1>1, <2>1
  <2>2. CASE n # 0
    <3>1. n - 1 \in Nat /\ n - 1 + 1 = n /\ n - 1 \in 0 .. n - 1
      BY <2>2
    <3> DEFINE k == n - 1
    <3>2. P(k) \in Nat /\ P(k + 1) <= P(k) + 1 /\ P(k + 1) \in Nat /\ P(k) < need
      BY <1>1, <1>3, <3>1
    <3>3. k + 1 = n
      BY <3>1
    <3> HIDE DEF k
    <3> QED BY <3>2, <3>3
  <2> QED BY <2>1, <2>2
<1>4. Len(queue) \in Nat
  OBVIOUS
<1>5. \E n \in 0 .. Len(queue) : Stops(n)
  <2>1. T \in SUBSET Nat /\ Len(queue) \in T
    BY <1>4
  <2>2. PICK m \in T : \A k \in T : m <= k
    BY <2>1, LeastNumber
  <2>3. ASSUME NEW k \in 0 .. m - 1
        PROVE  P(k) < need
    <3>1. k \in 0 .. Len(queue) /\ k # Len(queue) /\ k \notin T
      BY <1>4, <2>2
    <3>2. P(k) \in Nat
      BY <1>1, <1>4, <3>1
    <3> QED BY <3>1, <3>2
  <2>4. m = Len(queue) \/ P(m) = need
    <3>1. m \in Nat /\ P(m) \in Nat /\ (m = Len(queue) \/ P(m) >= need)
      BY <1>1, <1>4, <2>2
    <3>2. P(m) <= need
      BY <1>3, <2>3, <3>1
    <3> QED BY <3>1, <3>2
  <2> QED BY <2>2, <2>3, <2>4
<1> HIDE DEF T
<1>6. v \in 0 .. Len(queue) /\ Stops(v)
  BY <1>2, <1>5
<1>7. P(v) \in Nat /\ P(v) <= need
  BY <1>1, <1>3, <1>6
<1> QED BY <1>6, <1>7 DEF v, P

(* A page is taken off a queue. *)
LEMMA OffPages ==
  ASSUME NEW s \in Seq(Pages), IsInjective(s), NEW p \in Pages
  PROVE  /\ Off(s, p) \in Seq(Pages) /\ IsInjective(Off(s, p))
         /\ ToSet(Off(s, p)) = ToSet(s) \ {p}
         /\ Len(s) \in Nat /\ Len(Off(s, p)) \in Nat
         /\ Len(Off(s, p)) = Len(s) - One(p, ToSet(s))
<1> DEFINE o == Off(s, p)
<1>1. o \in Seq(Pages) /\ IsInjective(o) /\ ToSet(o) = ToSet(s) \cap (Pages \ {p})
  BY KeptPages DEF Off
<1>2. /\ IsFiniteSet(ToSet(s)) /\ Cardinality(ToSet(s)) = Len(s) /\ ToSet(s) \subseteq Pages
  BY LenIsCount
<1>3. Cardinality(ToSet(o)) = Len(o)
  BY <1>1, LenIsCount
<1>4. ToSet(o) = ToSet(s) \ {p}
  BY <1>1, <1>2
<1>5. Len(s) \in Nat /\ Len(o) \in Nat
  BY <1>1
<1> HIDE DEF o
<1>6. Cardinality(ToSet(o)) = Cardinality(ToSet(s)) - One(p, ToSet(s))
  <2>1. ToSet(s) \ {p} = ToSet(o) \ {p} /\ p \notin ToSet(o)
    BY <1>4
  <2> QED BY <1>2, <2>1, Recount DEF One
<1> QED BY <1>1, <1>2, <1>3, <1>4, <1>5, <1>6 DEF o

(* Queues without a page in common are joined.                             *)
LEMMA JoinedApart ==
  ASSUME NEW s \in Seq(Pages), NEW t \in Seq(Pages), IsInjective(s), IsInjective(t),
         ToSet(s) \cap ToSet(t) = {}
  PROVE  /\ s \o t \in Seq(Pages) /\ IsInjective(s \o t)
         /\ Len(s \o t) = Len(s) + Len(t) /\ ToSet(s \o t) = ToSet(s) \cup ToSet(t)
<1>1. /\ s \o t \in Seq(Pages) /\ Len(s \o t) = Len(s) + Len(t)
      /\ ToSet(s \o t) = ToSet(s) \cup ToSet(t)
      /\ IsInjective(s \o t) <=> IsInjective(s) /\ IsInjective(t) /\ ToSet(s) \cap ToSet(t) = {}
  BY Joined
<1> QED BY <1>1

(* Queues that joined hold no page twice have no page in common.           *)
LEMMA JoinedParts ==
  ASSUME NEW s \in Seq(Pages), NEW t \in Seq(Pages), IsInjective(s \o t)
  PROVE  /\ IsInjective(s) /\ IsInjective(t) /\ ToSet(s) \cap ToSet(t) = {}
         /\ Len(s) \in Nat /\ Len(t) \in Nat
<1>1. IsInjective(s \o t) <=> IsInjective(s) /\ IsInjective(t) /\ ToSet(s) \cap ToSet(t) = {}
  BY Joined
<1>2. Len(s) \in Nat /\ Len(t) \in Nat
  OBVIOUS
<1> QED BY <1>1, <1>2

(* The visited part of a queue and the rest of it.                         *)
LEMMA SplitParts ==
  ASSUME NEW s \in Seq(Pages), IsInjective(s), NEW n \in 0 .. Len(s)
  PROVE  LET a == SubSeq(s, 1, n)
             b == SubSeq(s, n + 1, Len(s))
         IN  /\ a \in Seq(Pages) /\ b \in Seq(Pages) /\ IsInjective(a) /\ IsInjective(b)
             /\ ToSet(a) \cap ToSet(b) = {} /\ ToSet(s) = ToSet(a) \cup ToSet(b)
             /\ Len(s) = Len(a) + Len(b) /\ Len(a) \in Nat /\ Len(b) \in Nat
<1> DEFINE a == SubSeq(s, 1, n)
           b == SubSeq(s, n + 1, Len(s))
<1>1. a \in Seq(Pages) /\ b \in Seq(Pages) /\ s = a \o b
  BY Split
<1> HIDE DEF a, b
<1>2. IsInjective(a) /\ IsInjective(b) /\ ToSet(a) \cap ToSet(b) = {}
      /\ Len(a) \in Nat /\ Len(b) \in Nat
  BY <1>1, JoinedParts
<1>3. Len(a \o b) = Len(a) + Len(b) /\ ToSet(a \o b) = ToSet(a) \cup ToSet(b)
  BY <1>1, <1>2, JoinedApart
<1> QED BY <1>1, <1>2, <1>3 DEF a, b

(* What is kept of a queue and what is not.                                *)
LEMMA KeptParts ==
  ASSUME NEW a \in Seq(Pages), IsInjective(a), NEW S
  PROVE  LET e == Kept(a, S)
             k == Kept(a, Pages \ S)
         IN  /\ e \in Seq(Pages) /\ IsInjective(e) /\ ToSet(e) = ToSet(a) \cap S
             /\ k \in Seq(Pages) /\ IsInjective(k) /\ ToSet(k) = ToSet(a) \ S
             /\ Len(a) = Len(e) + Len(k) /\ Len(e) \in Nat /\ Len(k) \in Nat
<1> DEFINE e == Kept(a, S)
           k == Kept(a, Pages \ S)
<1>1. /\ k \in Seq(Pages) /\ IsInjective(k) /\ ToSet(k) = ToSet(a) \cap (Pages \ S)
      /\ e \in Seq(Pages) /\ IsInjective(e) /\ ToSet(e) = ToSet(a) \cap S
  BY KeptPages
<1> HIDE DEF e, k
<1>2. /\ IsFiniteSet(ToSet(k)) /\ Cardinality(ToSet(k)) = Len(k)
      /\ IsFiniteSet(ToSet(e)) /\ Cardinality(ToSet(e)) = Len(e)
      /\ Cardinality(ToSet(a)) = Len(a) /\ ToSet(a) \subseteq Pages
  BY <1>1, LenIsCount
<1>3. ToSet(a) = ToSet(e) \cup ToSet(k) /\ ToSet(e) \cap ToSet(k) = {} /\ ToSet(k) = ToSet(a) \ S
  BY <1>1, <1>2
<1>4. Len(e) \in Nat /\ Len(k) \in Nat
  BY <1>1
<1>5. Cardinality(ToSet(e) \cup ToSet(k)) = Cardinality(ToSet(e)) + Cardinality(ToSet(k))
  <2> DEFINE E == ToSet(e)
             K == ToSet(k)
  <2>1. IsFiniteSet(E) /\ IsFiniteSet(K) /\ E \cap K = {}
        /\ Cardinality(E) \in Nat /\ Cardinality(K) \in Nat
    BY <1>2, <1>3, <1>4
  <2> HIDE DEF E, K
  <2>2. Cardinality(E \cup K) = Cardinality(E) + Cardinality(K) - Cardinality(E \cap K)
    BY <2>1, FS_Union
  <2>3. Cardinality(E \cup K) = Cardinality(E) + Cardinality(K)
    <3>1. Cardinality(E \cap K) = 0
      BY <2>1, FS_EmptySet
    <3> QED BY <2>1, <2>2, <3>1
  <2> QED BY <2>3 DEF E, K
<1>6. Len(a) = Len(e) + Len(k)
  BY <1>2, <1>3, <1>5
<1> QED BY <1>1, <1>3, <1>4, <1>6 DEF e, k

(* A pass over the small queue s moves what it does not propose behind the *)
(* main queue t.                                                           *)
Passed(s, t, n, S) ==
  LET a == SubSeq(s, 1, n)
      b == SubSeq(s, n + 1, Len(s))
      e == Kept(a, S)
      k == Kept(a, Pages \ S)
  IN  /\ b \o e \in Seq(Pages) /\ t \o k \in Seq(Pages) /\ IsInjective((b \o e) \o (t \o k))
      /\ ToSet(b \o e) \cup ToSet(t \o k) = ToSet(s) \cup ToSet(t)
      /\ ToSet(t) \cup (ToSet(a) \ S) \subseteq ToSet(t \o k)
      /\ ToSet(a) \subseteq ToSet(s)
      /\ Len(s) \in Nat /\ Len(t) \in Nat /\ Len(k) \in Nat
      /\ Len(b \o e) = Len(s) - Len(k) /\ Len(t \o k) = Len(t) + Len(k)

(* So it does, wherever the pass stops and whatever it proposes.           *)
LEMMA PassedPages ==
  ASSUME NEW s \in Seq(Pages), NEW t \in Seq(Pages), IsInjective(s \o t),
         NEW n \in 0 .. Len(s), NEW S
  PROVE  Passed(s, t, n, S)
<1> DEFINE a == SubSeq(s, 1, n)
           b == SubSeq(s, n + 1, Len(s))
           e == Kept(a, S)
           k == Kept(a, Pages \ S)
<1>1. /\ IsInjective(s) /\ IsInjective(t) /\ ToSet(s) \cap ToSet(t) = {}
      /\ Len(s) \in Nat /\ Len(t) \in Nat
  BY JoinedParts
<1> HIDE DEF e, k
<1>2. /\ a \in Seq(Pages) /\ b \in Seq(Pages) /\ IsInjective(a) /\ IsInjective(b)
      /\ ToSet(a) \cap ToSet(b) = {} /\ ToSet(s) = ToSet(a) \cup ToSet(b)
      /\ Len(s) = Len(a) + Len(b) /\ Len(a) \in Nat /\ Len(b) \in Nat
  BY <1>1, SplitParts
<1> HIDE DEF a, b
<1>3. /\ e \in Seq(Pages) /\ IsInjective(e) /\ ToSet(e) = ToSet(a) \cap S
      /\ k \in Seq(Pages) /\ IsInjective(k) /\ ToSet(k) = ToSet(a) \ S
      /\ Len(a) = Len(e) + Len(k) /\ Len(e) \in Nat /\ Len(k) \in Nat
  BY <1>2, KeptParts DEF e, k
<1>4. ToSet(b) \cap ToSet(e) = {} /\ ToSet(t) \cap ToSet(k) = {}
  BY <1>1, <1>2, <1>3
<1>5. /\ b \o e \in Seq(Pages) /\ IsInjective(b \o e)
      /\ Len(b \o e) = Len(b) + Len(e) /\ ToSet(b \o e) = ToSet(b) \cup ToSet(e)
  BY <1>2, <1>3, <1>4, JoinedApart
<1>6. /\ t \o k \in Seq(Pages) /\ IsInjective(t \o k)
      /\ Len(t \o k) = Len(t) + Len(k) /\ ToSet(t \o k) = ToSet(t) \cup ToSet(k)
  BY <1>1, <1>3, <1>4, JoinedApart
<1> DEFINE u == b \o e
           v == t \o k
<1> HIDE DEF u, v
<1>7. /\ u \in Seq(Pages) /\ IsInjective(u) /\ Len(u) = Len(b) + Len(e)
      /\ ToSet(u) = ToSet(b) \cup ToSet(e)
  BY <1>5 DEF u
<1>8. /\ v \in Seq(Pages) /\ IsInjective(v) /\ Len(v) = Len(t) + Len(k)
      /\ ToSet(v) = ToSet(t) \cup ToSet(k)
  BY <1>6 DEF v
<1>9. ToSet(u) \cap ToSet(v) = {}
  BY <1>1, <1>2, <1>3, <1>7, <1>8
<1>10. IsInjective(u \o v)
  BY <1>7, <1>8, <1>9, JoinedApart
<1>11. /\ ToSet(u) \cup ToSet(v) = ToSet(s) \cup ToSet(t)
       /\ ToSet(t) \cup (ToSet(a) \ S) \subseteq ToSet(v) /\ ToSet(a) \subseteq ToSet(s)
  BY <1>2, <1>3, <1>7, <1>8
<1>12. Len(u) = Len(s) - Len(k)
  BY <1>2, <1>3, <1>7
<1> QED BY <1>1, <1>3, <1>7, <1>8, <1>10, <1>11, <1>12 DEF u, v, a, b, e, k, Passed

(* A pass over the main queue moves what it visited to its tail.           *)
Turned(s, t, n) ==
  LET a == SubSeq(t, 1, n)
      b == SubSeq(t, n + 1, Len(t))
  IN  /\ b \o a \in Seq(Pages) /\ IsInjective(s \o (b \o a)) /\ ToSet(b \o a) = ToSet(t)
      /\ Len(b \o a) = Len(t) /\ ToSet(a) \subseteq ToSet(t)

(* So it does, wherever the pass stops.                                    *)
LEMMA TurnedPages ==
  ASSUME NEW s \in Seq(Pages), NEW t \in Seq(Pages), IsInjective(s \o t), NEW n \in 0 .. Len(t)
  PROVE  Turned(s, t, n)
<1> DEFINE a == SubSeq(t, 1, n)
           b == SubSeq(t, n + 1, Len(t))
<1>1. IsInjective(s) /\ IsInjective(t) /\ ToSet(s) \cap ToSet(t) = {}
  BY JoinedParts
<1>2. /\ a \in Seq(Pages) /\ b \in Seq(Pages) /\ IsInjective(a) /\ IsInjective(b)
      /\ ToSet(a) \cap ToSet(b) = {} /\ ToSet(t) = ToSet(a) \cup ToSet(b)
      /\ Len(t) = Len(a) + Len(b) /\ Len(a) \in Nat /\ Len(b) \in Nat
  BY <1>1, SplitParts
<1> HIDE DEF a, b
<1>3. /\ b \o a \in Seq(Pages) /\ IsInjective(b \o a)
      /\ Len(b \o a) = Len(b) + Len(a) /\ ToSet(b \o a) = ToSet(b) \cup ToSet(a)
  BY <1>2, JoinedApart
<1> DEFINE u == b \o a
<1> HIDE DEF u
<1>4. /\ u \in Seq(Pages) /\ IsInjective(u) /\ ToSet(u) = ToSet(t) /\ Len(u) = Len(t)
  BY <1>2, <1>3 DEF u
<1>5. IsInjective(s \o u)
  BY <1>1, <1>4, JoinedApart
<1> QED BY <1>2, <1>4, <1>5 DEF u, a, b, Turned

-----------------------------------------------------------------------------
(* What passes of the CPUs in D have moved, and how much one of them.      *)
MovesOf(r, D, steps) ==
  UNION {{c} \X (1 .. r[c].moved) : c \in {d \in D : r[d].step \in steps}}

Own(r, c, steps) == IF r[c].step \in steps THEN r[c].moved ELSE 0

(* What the passes of finitely many CPUs have moved is finite.             *)
LEMMA MovesFinite ==
  ASSUME NEW D, IsFiniteSet(D), NEW r, \A c \in D : r[c].moved \in Nat, NEW steps
  PROVE  IsFiniteSet(MovesOf(r, D, steps))
<1> DEFINE C == {d \in D : r[d].step \in steps}
           M(c) == {c} \X (1 .. r[c].moved)
           MS == {M(c) : c \in C}
           f == [c \in C |-> M(c)]
<1>1. IsFiniteSet(C)
  BY FS_Subset
<1>2. f \in Surjection(C, MS)
  BY DEF Surjection
<1>3. IsFiniteSet(MS)
  <2> HIDE DEF C, MS, f
  <2> QED BY <1>1, <1>2, FS_Surjection
<1>4. \A T \in MS : IsFiniteSet(T)
  <2> SUFFICES ASSUME NEW c \in C PROVE IsFiniteSet(M(c))
    OBVIOUS
  <2>1. IsFiniteSet({c}) /\ IsFiniteSet(1 .. r[c].moved)
    <3>1. PICK n \in Nat : n = r[c].moved
      OBVIOUS
    <3>2. IsFiniteSet(1 .. n)
      BY FS_Interval
    <3>3. IsFiniteSet({c})
      BY FS_Singleton
    <3> QED BY <3>1, <3>2, <3>3
  <2> QED BY <2>1, FS_Product
<1>5. MovesOf(r, D, steps) = UNION MS
  BY DEF MovesOf
<1> HIDE DEF MS
<1> QED BY <1>3, <1>4, <1>5, FS_UNION

(* The moves of a CPU are counted apart from those of the others.          *)
LEMMA MovesCounted ==
  ASSUME NEW D, IsFiniteSet(D), NEW r, \A d \in D : r[d].moved \in Nat, NEW steps, NEW c \in D
  PROVE  /\ Cardinality(MovesOf(r, D, steps)) \in Nat
         /\ Cardinality(MovesOf(r, D \ {c}, steps)) \in Nat
         /\ Own(r, c, steps) \in Nat
         /\ Cardinality(MovesOf(r, D, steps)) =
              Cardinality(MovesOf(r, D \ {c}, steps)) + Own(r, c, steps)
<1> DEFINE A == MovesOf(r, D, steps)
           B == MovesOf(r, D \ {c}, steps)
           mine == {c} \X (1 .. r[c].moved)
<1>1. IsFiniteSet(A) /\ IsFiniteSet(B)
  <2>1. IsFiniteSet(D \ {c}) /\ \A d \in D \ {c} : r[d].moved \in Nat
    BY FS_RemoveElement
  <2> QED BY <2>1, MovesFinite
<1>2. IsFiniteSet(mine) /\ Cardinality(mine) = r[c].moved /\ r[c].moved \in Nat
  <2> DEFINE I == 1 .. r[c].moved
  <2>1. IsFiniteSet({c}) /\ Cardinality({c}) = 1
    BY FS_Singleton
  <2>2. IsFiniteSet(I) /\ Cardinality(I) = r[c].moved
    <3>1. PICK n \in Nat : n = r[c].moved
      OBVIOUS
    <3>2. IsFiniteSet(1 .. n) /\ Cardinality(1 .. n) = n
      BY FS_Interval
    <3> QED BY <3>1, <3>2
  <2> HIDE DEF I
  <2>3. IsFiniteSet({c} \X I) /\ Cardinality({c} \X I) = 1 * r[c].moved
    BY <2>1, <2>2, FS_Product
  <2> QED BY <2>3 DEF I
<1>3. CASE r[c].step \in steps
  <2>1. A = B \cup mine
    BY <1>3 DEF MovesOf
  <2>2. B \cap mine = {}
    BY DEF MovesOf
  <2>3. Own(r, c, steps) = r[c].moved
    BY <1>3 DEF Own
  <2> HIDE DEF A, B, mine
  <2>4. Cardinality(A) = Cardinality(B) + Cardinality(mine) - Cardinality(B \cap mine)
    BY <1>1, <1>2, <2>1, FS_Union
  <2>5. Cardinality(B \cap mine) = 0 /\ Cardinality(A) \in Nat /\ Cardinality(B) \in Nat
    BY <1>1, <2>2, FS_EmptySet, FS_CardinalityType
  <2> QED BY <1>2, <2>3, <2>4, <2>5 DEF A, B
<1>4. CASE r[c].step \notin steps
  <2>1. A = B
    BY <1>4 DEF MovesOf
  <2>2. Own(r, c, steps) = 0
    BY <1>4 DEF Own
  <2>3. Cardinality(B) \in Nat
    BY <1>1, FS_CardinalityType
  <2> HIDE DEF A, B
  <2> QED BY <2>1, <2>2, <2>3 DEF A, B
<1> QED BY <1>3, <1>4

(* A step of c changes what it has moved only.                             *)
LEMMA MovesOfStep ==
  ASSUME TypeOK, NEW c \in CPUs, NEW new, new.moved \in Nat,
         reclaim' = [reclaim EXCEPT ![c] = new], NEW steps
  PROVE  /\ Moved(steps) \in Nat /\ Moved(steps)' \in Nat
         /\ Own(reclaim, c, steps) \in Nat /\ Own(reclaim', c, steps) \in Nat
         /\ Moved(steps)' = Moved(steps) - Own(reclaim, c, steps) + Own(reclaim', c, steps)
         /\ Own(reclaim, c, steps) <= Moved(steps)
<1>1. /\ IsFiniteSet(CPUs) /\ \A d \in CPUs : reclaim[d].moved \in Nat
      /\ \A d \in CPUs : reclaim'[d].moved \in Nat
      /\ \A d \in CPUs \ {c} : reclaim'[d] = reclaim[d]
  BY S3Assumption DEF TypeOK
<1>2. /\ Moved(steps) = Cardinality(MovesOf(reclaim, CPUs, steps))
      /\ Moved(steps)' = Cardinality(MovesOf(reclaim', CPUs, steps))
  BY DEF Moved, Moves, MovesOf
<1>3. MovesOf(reclaim', CPUs \ {c}, steps) = MovesOf(reclaim, CPUs \ {c}, steps)
  <2>1. \A C : (\A d \in C : d \in CPUs \ {c}) =>
          {{d} \X (1 .. reclaim'[d].moved) : d \in C} = {{d} \X (1 .. reclaim[d].moved) : d \in C}
    BY <1>1
  <2>2. {d \in CPUs \ {c} : reclaim'[d].step \in steps} = {d \in CPUs \ {c} : reclaim[d].step \in steps}
    BY <1>1
  <2> QED BY <2>1, <2>2 DEF MovesOf
<1>4. /\ Cardinality(MovesOf(reclaim, CPUs, steps)) \in Nat
      /\ Cardinality(MovesOf(reclaim, CPUs \ {c}, steps)) \in Nat /\ Own(reclaim, c, steps) \in Nat
      /\ Cardinality(MovesOf(reclaim, CPUs, steps)) =
           Cardinality(MovesOf(reclaim, CPUs \ {c}, steps)) + Own(reclaim, c, steps)
  BY <1>1, MovesCounted
<1>5. /\ Cardinality(MovesOf(reclaim', CPUs, steps)) \in Nat
      /\ Cardinality(MovesOf(reclaim', CPUs \ {c}, steps)) \in Nat /\ Own(reclaim', c, steps) \in Nat
      /\ Cardinality(MovesOf(reclaim', CPUs, steps)) =
           Cardinality(MovesOf(reclaim', CPUs \ {c}, steps)) + Own(reclaim', c, steps)
  BY <1>1, MovesCounted
<1> QED BY <1>2, <1>3, <1>4, <1>5

(* A folio_added that has counted its page for the main or the small queue *)
(* and not put it there yet, and one that is under way.                    *)
ToMain == [step |-> "queueing", toMain |-> TRUE]
ToSmall == [step |-> "queueing", toMain |-> FALSE]

ArrivingMain == Arriving(TRUE)
ArrivingSmall == Arriving(FALSE)

Begun == {"queueing", "recording"}

Adding == {p \in Pages : adding[p].step \in Begun}

(* A step of the folio_added of p changes its own count only.              *)
LEMMA AddingOfStep ==
  ASSUME TypeOK, NEW p \in Pages, NEW new, adding' = [adding EXCEPT ![p] = new]
  PROVE  /\ ArrivingMain' = ArrivingMain - One(adding[p], {ToMain}) + One(new, {ToMain})
         /\ ArrivingSmall' = ArrivingSmall - One(adding[p], {ToSmall}) + One(new, {ToSmall})
         /\ Cardinality(Adding') =
              Cardinality(Adding) - One(adding[p].step, Begun) + One(new.step, Begun)
         /\ ArrivingMain \in Nat /\ ArrivingSmall \in Nat /\ Cardinality(Adding) \in Nat
         /\ ArrivingMain' \in Nat /\ ArrivingSmall' \in Nat /\ Cardinality(Adding') \in Nat
<1>0. /\ IsFiniteSet(Pages) /\ adding'[p] = new
      /\ \A q \in Pages \ {p} : adding'[q] = adding[q]
  BY S3Assumption DEF TypeOK
<1>1. ASSUME NEW x
      PROVE  /\ Cardinality({q \in Pages : adding'[q] = x}) =
                  Cardinality({q \in Pages : adding[q] = x}) - One(adding[p], {x}) + One(new, {x})
             /\ Cardinality({q \in Pages : adding[q] = x}) \in Nat
             /\ Cardinality({q \in Pages : adding'[q] = x}) \in Nat
  <2> DEFINE S == {q \in Pages : adding[q] = x}
             T == {q \in Pages : adding'[q] = x}
  <2>1. IsFiniteSet(S)
    BY <1>0, FS_Subset
  <2>2. S \ {p} = T \ {p}
    BY <1>0
  <2>3. One(p, S) = One(adding[p], {x}) /\ One(p, T) = One(new, {x})
    BY <1>0 DEF One
  <2> HIDE DEF S, T
  <2>4. /\ Cardinality(T) = Cardinality(S) - One(p, S) + One(p, T)
        /\ Cardinality(S) \in Nat /\ Cardinality(T) \in Nat
    BY <2>1, <2>2, Recount
  <2> QED BY <2>3, <2>4 DEF S, T
<1>2. /\ ArrivingMain = Cardinality({q \in Pages : adding[q] = ToMain})
      /\ ArrivingMain' = Cardinality({q \in Pages : adding'[q] = ToMain})
      /\ ArrivingSmall = Cardinality({q \in Pages : adding[q] = ToSmall})
      /\ ArrivingSmall' = Cardinality({q \in Pages : adding'[q] = ToSmall})
  BY DEF ArrivingMain, ArrivingSmall, Arriving, ToMain, ToSmall
<1>3. /\ Cardinality(Adding') =
           Cardinality(Adding) - One(adding[p].step, Begun) + One(new.step, Begun)
      /\ Cardinality(Adding) \in Nat /\ Cardinality(Adding') \in Nat
  <2>1. IsFiniteSet(Adding)
    BY <1>0, FS_Subset DEF Adding
  <2>2. Adding \ {p} = Adding' \ {p}
    BY <1>0 DEF Adding
  <2>3. One(p, Adding) = One(adding[p].step, Begun) /\ One(p, Adding') = One(new.step, Begun)
    BY <1>0 DEF Adding, One
  <2>4. /\ Cardinality(Adding') = Cardinality(Adding) - One(p, Adding) + One(p, Adding')
        /\ Cardinality(Adding) \in Nat /\ Cardinality(Adding') \in Nat
    BY <2>1, <2>2, Recount
  <2> QED BY <2>3, <2>4
<1> QED BY <1>1, <1>2, <1>3

-----------------------------------------------------------------------------
(* A page whose folio_added is under way is in the cache, and each such    *)
(* call, failed or not yet over, has been counted.                         *)
AddsCounted ==
  /\ Adding \subseteq cached
  /\ failures + Cardinality(Adding) <= adds

(* A queued page is recorded or about to be; one about to be is on a queue, *)
(* on the main one if it was put there.                                    *)
QueuedOrRecorded ==
  \A p \in Pages :
    /\ Queued(p) => p \in DOMAIN meta \/ adding[p].step = "recording"
    /\ adding[p].step = "recording" =>
         Queued(p) /\ p \notin DOMAIN meta /\ (adding[p].toMain => p \in ToSet(main))

(* What passes have moved and have not taken off small_list_size yet, and  *)
(* what they have not added to main_list_size yet.                         *)
Moving == {"countSmall", "resetSmall", "countMain"}
MovedSmall == Moved({"countSmall"})
MovingMain == Moved(Moving)

(* The main queue and what is about to join it never exceed main_list_size *)
(* and what is about to be added to that; its reset makes it greater.      *)
ResetGrows == \A c \in CPUs : reclaim[c].step = "resetMain" => reclaim[c].left < reclaim[c].moved

MainCounted == ~ overwritten => Len(main) + ArrivingMain <= mainSize + MovingMain + uncounted

SmallCounted == smallSize <= Len(small) + ArrivingSmall + MovedSmall + failures + uncounted

(* The inductive invariant. *)
IInv ==
  /\ TypeOK /\ QueuesSound
  /\ AddsCounted /\ QueuedOrRecorded /\ ResetGrows /\ MainCounted /\ SmallCounted

(* What a step leaves alone is counted as before. *)
LEMMA SameMoves ==
  ASSUME UNCHANGED reclaim PROVE UNCHANGED <<MovingMain, MovedSmall>>
  BY DEF MovingMain, MovedSmall, Moved, Moves

(* A step that leaves the folio_added calls alone leaves their counts.     *)
LEMMA SameArriving ==
  ASSUME UNCHANGED adding
  PROVE  /\ ArrivingMain' = ArrivingMain /\ ArrivingSmall' = ArrivingSmall
         /\ Adding' = Adding
  BY DEF ArrivingMain, ArrivingSmall, Arriving, Adding

(* Everything the counters are compared with is a number.                  *)
LEMMA CountsAreNumbers ==
  ASSUME TypeOK
  PROVE  /\ MovingMain \in Nat /\ MovedSmall \in Nat
         /\ ArrivingMain \in Nat /\ ArrivingSmall \in Nat
         /\ Len(small) \in Nat /\ Len(main) \in Nat
         /\ smallSize \in Int /\ mainSize \in Int /\ failures \in Nat
         /\ uncounted \in Nat /\ adds \in Nat
         /\ Cardinality(Adding) \in Nat
<1>1. ASSUME NEW steps PROVE Moved(steps) \in Nat
  <2>1. IsFiniteSet(CPUs) /\ \A c \in CPUs : reclaim[c].moved \in Nat
    BY S3Assumption DEF TypeOK
  <2>2. IsFiniteSet(MovesOf(reclaim, CPUs, steps))
    BY <2>1, MovesFinite
  <2>3. Moved(steps) = Cardinality(MovesOf(reclaim, CPUs, steps))
    BY DEF Moved, Moves, MovesOf
  <2> QED BY <2>2, <2>3, FS_CardinalityType
<1>2. ASSUME NEW x PROVE Cardinality({q \in Pages : adding[q] = x}) \in Nat
  <2> DEFINE S == {q \in Pages : adding[q] = x}
  <2>1. IsFiniteSet(S)
    BY S3Assumption, FS_Subset
  <2> HIDE DEF S
  <2>2. Cardinality(S) \in Nat
    BY <2>1, FS_CardinalityType
  <2> QED BY <2>2 DEF S
<1>3. Cardinality(Adding) \in Nat
  <2>1. IsFiniteSet(Adding)
    BY S3Assumption, FS_Subset DEF Adding
  <2> QED BY <2>1, FS_CardinalityType
<1>4. /\ Len(small) \in Nat /\ Len(main) \in Nat
      /\ smallSize \in Int /\ mainSize \in Int /\ failures \in Nat /\ uncounted \in Nat /\ adds \in Nat
  BY S3Assumption DEF TypeOK
<1>5. MovingMain \in Nat /\ MovedSmall \in Nat
  BY <1>1 DEF MovingMain, MovedSmall
<1>6. ArrivingMain \in Nat /\ ArrivingSmall \in Nat
  BY <1>2 DEF ArrivingMain, ArrivingSmall, Arriving
<1> QED BY <1>3, <1>4, <1>5, <1>6

(* Both queues, none of whose pages stands twice.                          *)
LEMMA QueuesApart ==
  ASSUME TypeOK, QueuesSound
  PROVE  /\ small \in Seq(Pages) /\ main \in Seq(Pages)
         /\ IsInjective(small) /\ IsInjective(main) /\ ToSet(small) \cap ToSet(main) = {}
<1>1. small \in Seq(Pages) /\ main \in Seq(Pages) /\ IsInjective(small \o main)
  BY DEF TypeOK, QueuesSound
<1> QED BY <1>1, JoinedParts

(* The policy starts with empty queues and counters at zero.               *)
LEMMA InitInv == Init => IInv
<1> SUFFICES ASSUME Init PROVE IInv
  OBVIOUS
<1>1. /\ small = << >> /\ main = << >> /\ small \o main = << >>
      /\ ToSet(<< >>) = {} /\ IsInjective(<< >>)
  BY DEF Init, ToSet, IsInjective
<1>2. TypeOK
  <2>1. DOMAIN meta = {} /\ adds \in 0 .. MaxAdds /\ failures \in 0 .. adds
    BY S3Assumption DEF Init
  <2>2. /\ NotAdding \in [step : {"none", "queueing", "recording"}, toMain : BOOLEAN]
        /\ Idle \in [step : {"idle", "small", "main", "countSmall", "resetSmall",
                             "countMain", "resetMain"},
                     pass : 0 .. 3, need : 0 .. MaxRequest, moved : Nat, left : Int]
    BY S3Assumption DEF NotAdding, Idle
  <2>3. small \in Seq(Pages) /\ main \in Seq(Pages)
    BY <1>1
  <2>4. /\ adding \in [Pages -> [step : {"none", "queueing", "recording"}, toMain : BOOLEAN]]
        /\ reclaim \in [CPUs -> [step : {"idle", "small", "main", "countSmall", "resetSmall",
                                         "countMain", "resetMain"},
                                 pass : 0 .. 3, need : 0 .. MaxRequest, moved : Nat, left : Int]]
    BY <2>2 DEF Init
  <2>5. /\ DOMAIN meta \subseteq cached /\ hot \subseteq DOMAIN meta /\ uncounted \in Nat
        /\ \A p \in DOMAIN meta : meta[p] \in Metadata /\ (meta[p].freq > 3 => p \in hot)
    BY <2>1 DEF Init
  <2>6. cached \in SUBSET Pages /\ ghost \in SUBSET Pages
    BY DEF Init
  <2>7. smallSize = 0 /\ mainSize = 0 /\ 0 \in Int
    BY DEF Init
  <2>8. overwritten \in BOOLEAN
    BY DEF Init
  <2> QED BY <2>1, <2>3, <2>4, <2>5, <2>6, <2>7, <2>8 DEF TypeOK
<1>3. QueuesSound /\ QueuedOrRecorded /\ ResetGrows
  BY <1>1 DEF Init, QueuesSound, QueuedOrRecorded, ResetGrows, Queued, NotAdding, Idle
<1>4. Adding = {}
  BY DEF Init, Adding, NotAdding, Begun
<1>5. AddsCounted
  BY <1>4, FS_EmptySet DEF AddsCounted, Init
<1>6. /\ Len(main) = 0 /\ Len(small) = 0 /\ failures = 0 /\ uncounted = 0 /\ mainSize = 0
     /\ smallSize = 0
      /\ MovingMain \in Nat /\ MovedSmall \in Nat /\ ArrivingSmall \in Nat
  BY <1>2, CountsAreNumbers DEF Init
<1>7. ArrivingMain = 0
  <2>1. {p \in Pages : adding[p] = ToMain} = {}
    BY DEF Init, ToMain, NotAdding
  <2> QED BY <2>1, FS_EmptySet DEF ArrivingMain, Arriving, ToMain
<1>8. MainCounted /\ SmallCounted
  BY <1>6, <1>7 DEF MainCounted, SmallCounted
<1> QED BY <1>2, <1>3, <1>5, <1>8 DEF IInv

-----------------------------------------------------------------------------
(* Each step keeps the invariant: folio_added. *)

(* A page is counted: what is arriving grows with the counter.             *)
LEMMA CountInv ==
  ASSUME IInv, NEW p \in Pages, Count(p)
  PROVE  IInv'
<1> DEFINE new == [step |-> "queueing", toMain |-> p \in ghost]
<1>0. TypeOK /\ adding[p].step = "none" /\ adding' = [adding EXCEPT ![p] = new]
  BY DEF IInv, Count
<1>1. new.step = "queueing" /\ new.toMain = (p \in ghost) /\ new.toMain \in BOOLEAN
      /\ new \in [step : {"none", "queueing", "recording"}, toMain : BOOLEAN]
      /\ adding'[p] = new /\ \A q \in Pages \ {p} : adding'[q] = adding[q]
  BY <1>0 DEF TypeOK
<1>2. /\ One(adding[p], {ToMain}) = 0 /\ One(adding[p], {ToSmall}) = 0
      /\ One(adding[p].step, Begun) = 0 /\ One(new.step, Begun) = 1
      /\ One(new, {ToMain}) = One(p, ghost) /\ One(new, {ToSmall}) = 1 - One(p, ghost)
  <2>1. adding[p] # ToMain /\ adding[p] # ToSmall /\ adding[p].step \notin Begun
    BY <1>0 DEF ToMain, ToSmall, Begun
  <2>2. new.step \in Begun
    BY <1>1 DEF Begun
  <2>3. CASE p \in ghost
    <3>1. new = ToMain /\ new # ToSmall
      BY <2>3 DEF ToMain, ToSmall
    <3> HIDE DEF new
    <3> QED BY <2>1, <2>2, <2>3, <3>1 DEF One
  <2>4. CASE p \notin ghost
    <3>1. (p \in ghost) = FALSE
      BY <2>4
    <3>2. new = ToSmall
      BY <3>1, Zenon DEF ToSmall
    <3>3. ToSmall # ToMain
      BY DEF ToMain, ToSmall
    <3> HIDE DEF new
    <3> QED BY <2>1, <2>2, <2>4, <3>2, <3>3 DEF One
  <2> QED BY <2>3, <2>4
<1>3. /\ mainSize' = mainSize + One(p, ghost) /\ smallSize' = smallSize + (1 - One(p, ghost))
      /\ One(p, ghost) \in {0, 1}
      /\ adds' = adds + 1 /\ adds < MaxAdds /\ cached' = cached \cup {p}
      /\ UNCHANGED <<small, main, failures, uncounted, overwritten, reclaim>>
  <2>1. mainSize \in Int /\ smallSize \in Int
    BY <1>0 DEF TypeOK
  <2> QED BY <2>1 DEF Count, One, queues, records
<1> HIDE DEF new
<1>4. /\ ArrivingMain' = ArrivingMain - One(adding[p], {ToMain}) + One(new, {ToMain})
      /\ ArrivingSmall' = ArrivingSmall - One(adding[p], {ToSmall}) + One(new, {ToSmall})
      /\ Cardinality(Adding') =
           Cardinality(Adding) - One(adding[p].step, Begun) + One(new.step, Begun)
  BY <1>0, AddingOfStep
<1>5. MovingMain' = MovingMain /\ MovedSmall' = MovedSmall
  BY <1>3, SameMoves
<1>6. /\ MovingMain \in Nat /\ MovedSmall \in Nat
      /\ ArrivingMain \in Nat /\ ArrivingSmall \in Nat
      /\ Len(small) \in Nat /\ Len(main) \in Nat
      /\ smallSize \in Int /\ mainSize \in Int /\ failures \in Nat /\ uncounted \in Nat /\ adds \in Nat
      /\ Cardinality(Adding) \in Nat
  BY <1>0, CountsAreNumbers
<1>7. AddsCounted'
  <2>1. Adding' \subseteq Adding \cup {p}
    BY <1>1 DEF Adding
  <2>2. Adding \subseteq cached /\ failures + Cardinality(Adding) <= adds
    BY DEF IInv, AddsCounted
  <2> QED BY <1>2, <1>3, <1>4, <1>6, <2>1, <2>2 DEF AddsCounted
<1>8. MainCounted'
  <2>1. SUFFICES ASSUME ~ overwritten
                 PROVE  Len(main) + ArrivingMain' <= mainSize' + MovingMain + uncounted
    BY <1>3, <1>5 DEF MainCounted
  <2>2. Len(main) + ArrivingMain <= mainSize + MovingMain + uncounted
    BY <2>1 DEF IInv, MainCounted
  <2>3. ArrivingMain' = ArrivingMain + One(p, ghost)
    BY <1>2, <1>3, <1>4, <1>6
  <2> QED BY <1>3, <1>6, <2>2, <2>3
<1>9. SmallCounted'
  <2>1. SmallCounted
    BY DEF IInv
  <2>2. ArrivingSmall' = ArrivingSmall + (1 - One(p, ghost))
    BY <1>2, <1>3, <1>4, <1>6
  <2> QED BY <1>3, <1>5, <1>6, <2>1, <2>2 DEF SmallCounted
<1>10. TypeOK'
  <2>1. failures' \in 0 .. adds' /\ adds' \in 0 .. MaxAdds /\ smallSize' \in Int /\ mainSize' \in Int
    BY <1>0, <1>3, <1>6, S3Assumption DEF TypeOK
  <2>2. adding' \in [Pages -> [step : {"none", "queueing", "recording"}, toMain : BOOLEAN]]
    BY <1>0, <1>1 DEF TypeOK
  <2> QED BY <1>0, <2>1, <2>2 DEF Count, TypeOK, queues, records
<1>11. QueuesSound' /\ ResetGrows'
  BY DEF IInv, Count, QueuesSound, ResetGrows, Queued, queues, records
<1>12. QueuedOrRecorded'
  BY <1>0, <1>1 DEF IInv, Count, QueuedOrRecorded, Queued, queues, records
<1> QED BY <1>7, <1>8, <1>9, <1>10, <1>11, <1>12 DEF IInv

(* A page is put at the tail of a queue it is not on.                      *)
LEMMA AppendedPage ==
  ASSUME NEW s \in Seq(Pages), IsInjective(s), NEW p \in Pages, p \notin ToSet(s)
  PROVE  /\ Append(s, p) \in Seq(Pages) /\ IsInjective(Append(s, p))
         /\ ToSet(Append(s, p)) = ToSet(s) \cup {p}
         /\ Len(s) \in Nat /\ Len(Append(s, p)) = Len(s) + 1
<1>1. /\ Append(s, p) \in Seq(Pages) /\ Len(s) \in Nat /\ Len(Append(s, p)) = Len(s) + 1
      /\ DOMAIN s = 1 .. Len(s) /\ DOMAIN Append(s, p) = 1 .. Len(s) + 1
      /\ \A i \in 1 .. Len(s) : Append(s, p)[i] = s[i]
      /\ Append(s, p)[Len(s) + 1] = p
  OBVIOUS
<1>2. ToSet(Append(s, p)) = ToSet(s) \cup {p}
  BY <1>1 DEF ToSet
<1>3. IsInjective(Append(s, p))
  <2>1. \A i, j \in 1 .. Len(s) : s[i] = s[j] => i = j
    BY <1>1 DEF IsInjective
  <2>2. \A i \in 1 .. Len(s) : s[i] # p
    BY <1>1 DEF ToSet
  <2>3. \A i, j \in 1 .. Len(s) + 1 : Append(s, p)[i] = Append(s, p)[j] => i = j
    BY <1>1, <2>1, <2>2
  <2> QED BY <1>1, <2>3 DEF IsInjective
<1> QED BY <1>1, <1>2, <1>3

(* A page is taken off both queues, it was on one of them at most.         *)
LEMMA TakenOff ==
  ASSUME TypeOK, QueuesSound, NEW p \in Pages, small' = Off(small, p), main' = Off(main, p)
  PROVE  /\ small' \in Seq(Pages) /\ main' \in Seq(Pages) /\ IsInjective(small' \o main')
         /\ ToSet(small') = ToSet(small) \ {p} /\ ToSet(main') = ToSet(main) \ {p}
         /\ Len(small') \in Nat /\ Len(main') \in Nat
         /\ Len(small') = Len(small) - One(p, ToSet(small))
         /\ Len(main') = Len(main) - One(p, ToSet(main))
         /\ Len(small') >= Len(small) - 1 /\ Len(main') <= Len(main)
<1>1. /\ small \in Seq(Pages) /\ main \in Seq(Pages)
      /\ IsInjective(small) /\ IsInjective(main) /\ ToSet(small) \cap ToSet(main) = {}
  BY QueuesApart
<1>2. /\ small' \in Seq(Pages) /\ IsInjective(small') /\ ToSet(small') = ToSet(small) \ {p}
      /\ Len(small) \in Nat /\ Len(small') \in Nat
      /\ Len(small') = Len(small) - One(p, ToSet(small))
  BY <1>1, OffPages
<1>3. /\ main' \in Seq(Pages) /\ IsInjective(main') /\ ToSet(main') = ToSet(main) \ {p}
      /\ Len(main) \in Nat /\ Len(main') \in Nat
      /\ Len(main') = Len(main) - One(p, ToSet(main))
  BY <1>1, OffPages
<1>4. IsInjective(small' \o main')
  BY <1>1, <1>2, <1>3, JoinedApart
<1>5. One(p, ToSet(small)) \in {0, 1} /\ One(p, ToSet(main)) \in {0, 1}
  BY DEF One
<1> QED BY <1>2, <1>3, <1>4, <1>5

(* The counts of a page that is being queued or recorded.                  *)
LEMMA QueueingCounts ==
  ASSUME TypeOK, NEW p \in Pages, adding[p].step = "queueing"
  PROVE  /\ One(adding[p].step, Begun) = 1
         /\ adding[p].toMain => One(adding[p], {ToMain}) = 1 /\ One(adding[p], {ToSmall}) = 0
         /\ ~ adding[p].toMain => One(adding[p], {ToMain}) = 0 /\ One(adding[p], {ToSmall}) = 1
<1>1. /\ adding[p] \in [step : {"none", "queueing", "recording"}, toMain : BOOLEAN]
      /\ ToMain # ToSmall
  BY DEF TypeOK, ToMain, ToSmall
<1>2. adding[p].step \in Begun
  BY DEF Begun
<1>3. ASSUME adding[p].toMain PROVE adding[p] = ToMain
  <2>1. adding[p].toMain = TRUE
    BY <1>1, <1>3
  <2> QED BY <1>1, <2>1 DEF ToMain
<1>4. ASSUME ~ adding[p].toMain PROVE adding[p] = ToSmall
  <2>1. adding[p].toMain = FALSE
    BY <1>1, <1>4
  <2> QED BY <1>1, <2>1 DEF ToSmall
<1>5. ASSUME adding[p].toMain
      PROVE  One(adding[p], {ToMain}) = 1 /\ One(adding[p], {ToSmall}) = 0
  BY <1>1, <1>3, <1>5 DEF One
<1>6. ASSUME ~ adding[p].toMain
      PROVE  One(adding[p], {ToMain}) = 0 /\ One(adding[p], {ToSmall}) = 1
  BY <1>1, <1>4, <1>6 DEF One
<1>7. One(adding[p].step, Begun) = 1
  BY <1>2 DEF One
<1> QED BY <1>5, <1>6, <1>7

(* A page that is not being queued is not arriving.                        *)
LEMMA OtherCounts ==
  ASSUME NEW x, x.step # "queueing"
  PROVE  /\ One(x, {ToMain}) = 0 /\ One(x, {ToSmall}) = 0
         /\ x.step = "recording" => One(x.step, Begun) = 1
         /\ x.step = "none" => One(x.step, Begun) = 0
<1>1. x # ToMain /\ x # ToSmall
  BY DEF ToMain, ToSmall
<1> QED BY <1>1 DEF One, Begun

(* A page that arrives at a queue is no longer arriving; one on a queue    *)
(* already stays counted, as a failure.                                    *)
LEMMA EnqueueInv ==
  ASSUME IInv, NEW p \in Pages, Enqueue(p)
  PROVE  IInv'
<1>0. /\ TypeOK /\ QueuesSound /\ AddsCounted /\ MainCounted /\ SmallCounted /\ QueuedOrRecorded
      /\ adding[p].step = "queueing" /\ adding[p].toMain \in BOOLEAN
      /\ UNCHANGED <<cached, meta, hot, ghost, smallSize, mainSize, reclaim, adds, uncounted,
                     overwritten>>
  BY DEF IInv, Enqueue, sizes, TypeOK, records
<1>1. /\ MovingMain \in Nat /\ MovedSmall \in Nat
      /\ ArrivingMain \in Nat /\ ArrivingSmall \in Nat
      /\ Len(small) \in Nat /\ Len(main) \in Nat
      /\ smallSize \in Int /\ mainSize \in Int /\ failures \in Nat /\ uncounted \in Nat /\ adds \in Nat
      /\ Cardinality(Adding) \in Nat
  BY <1>0, CountsAreNumbers
<1>2. MovingMain' = MovingMain /\ MovedSmall' = MovedSmall
  BY <1>0, SameMoves
<1>3. /\ One(adding[p].step, Begun) = 1
      /\ adding[p].toMain => One(adding[p], {ToMain}) = 1 /\ One(adding[p], {ToSmall}) = 0
      /\ ~ adding[p].toMain => One(adding[p], {ToMain}) = 0 /\ One(adding[p], {ToSmall}) = 1
  BY <1>0, QueueingCounts
<1>4. /\ small \in Seq(Pages) /\ main \in Seq(Pages)
      /\ IsInjective(small) /\ IsInjective(main) /\ ToSet(small) \cap ToSet(main) = {}
  BY <1>0, QueuesApart
<1>5. ResetGrows'
  BY <1>0 DEF IInv, ResetGrows
<1>6. Adding \subseteq cached /\ failures + Cardinality(Adding) <= adds
  BY <1>0 DEF AddsCounted
<1>7. CASE Queued(p)
  <2>1. /\ failures' = failures + 1 /\ adding' = [adding EXCEPT ![p] = NotAdding]
        /\ UNCHANGED <<small, main>>
    BY <1>7 DEF Enqueue, queues, records
  <2>2. /\ NotAdding.step = "none"
        /\ NotAdding \in [step : {"none", "queueing", "recording"}, toMain : BOOLEAN]
        /\ adding'[p] = NotAdding /\ \A q \in Pages \ {p} : adding'[q] = adding[q]
        /\ adding' \in [Pages -> [step : {"none", "queueing", "recording"}, toMain : BOOLEAN]]
    BY <1>0, <2>1 DEF NotAdding, TypeOK
  <2>3. /\ One(NotAdding, {ToMain}) = 0 /\ One(NotAdding, {ToSmall}) = 0
        /\ One(NotAdding.step, Begun) = 0
    BY <2>2, OtherCounts
  <2>4. /\ ArrivingMain' = ArrivingMain - One(adding[p], {ToMain}) + One(NotAdding, {ToMain})
        /\ ArrivingSmall' = ArrivingSmall - One(adding[p], {ToSmall}) + One(NotAdding, {ToSmall})
        /\ Cardinality(Adding') =
             Cardinality(Adding) - One(adding[p].step, Begun) + One(NotAdding.step, Begun)
        /\ Cardinality(Adding') \in Nat
    BY <1>0, <2>1, AddingOfStep
  <2>5. Adding' \subseteq Adding
    BY <2>2 DEF Adding, Begun
  <2>6. AddsCounted' /\ failures' \in 0 .. adds
    BY <1>0, <1>1, <1>3, <1>6, <2>1, <2>3, <2>4, <2>5 DEF AddsCounted
  <2>7. MainCounted' /\ SmallCounted'
    <3>1. /\ ArrivingMain' = ArrivingMain - One(adding[p], {ToMain})
          /\ ArrivingSmall' = ArrivingSmall - One(adding[p], {ToSmall})
          /\ One(adding[p], {ToMain}) \in {0, 1} /\ One(adding[p], {ToSmall}) \in {0, 1}
      BY <1>1, <2>3, <2>4 DEF One
    <3>2. ArrivingMain' <= ArrivingMain /\ ArrivingMain' \in Int
      BY <1>1, <3>1
    <3>3. ArrivingSmall <= ArrivingSmall' + 1 /\ ArrivingSmall' \in Int
      BY <1>1, <3>1
    <3>4. MainCounted'
      BY <1>0, <1>1, <1>2, <2>1, <3>2 DEF MainCounted
    <3>5. SmallCounted'
      <4>1. \A s, x, y \in Int : \A l, m, f, u \in Nat :
              s <= l + x + m + f + u /\ x <= y + 1 => s <= l + y + m + (f + 1) + u
        OBVIOUS
      <4>2. smallSize <= Len(small) + ArrivingSmall + MovedSmall + failures + uncounted
        BY <1>0 DEF SmallCounted
      <4>3. /\ smallSize \in Int /\ ArrivingSmall \in Int /\ Len(small) \in Nat
            /\ MovedSmall \in Nat /\ failures \in Nat /\ uncounted \in Nat
        BY <1>1
      <4>4. smallSize <= Len(small) + ArrivingSmall' + MovedSmall + (failures + 1) + uncounted
        BY <3>3, <4>1, <4>2, <4>3
      <4> QED BY <1>0, <1>2, <2>1, <4>4 DEF SmallCounted
    <3> QED BY <3>4, <3>5
  <2>8. TypeOK'
    BY <1>0, <2>1, <2>2, <2>6 DEF TypeOK
  <2>9. QueuesSound'
    BY <1>0, <2>1 DEF QueuesSound, Queued
  <2>10. QueuedOrRecorded'
    BY <1>0, <2>1, <2>2 DEF QueuedOrRecorded, Queued
  <2> QED BY <1>5, <2>6, <2>7, <2>8, <2>9, <2>10 DEF IInv
<1>8. CASE ~ Queued(p)
  <2> DEFINE new == [adding[p] EXCEPT !.step = "recording"]
  <2>1. adding' = [adding EXCEPT ![p] = new] /\ UNCHANGED failures
    BY <1>8 DEF Enqueue
  <2>2. /\ new.step = "recording" /\ new.toMain = adding[p].toMain
        /\ new \in [step : {"none", "queueing", "recording"}, toMain : BOOLEAN]
        /\ adding'[p] = new /\ \A q \in Pages \ {p} : adding'[q] = adding[q]
        /\ adding' \in [Pages -> [step : {"none", "queueing", "recording"}, toMain : BOOLEAN]]
    BY <1>0, <2>1 DEF TypeOK
  <2> HIDE DEF new
  <2>3. /\ One(new, {ToMain}) = 0 /\ One(new, {ToSmall}) = 0 /\ One(new.step, Begun) = 1
    BY <2>2, OtherCounts
  <2>4. /\ ArrivingMain' = ArrivingMain - One(adding[p], {ToMain}) + One(new, {ToMain})
        /\ ArrivingSmall' = ArrivingSmall - One(adding[p], {ToSmall}) + One(new, {ToSmall})
        /\ Cardinality(Adding') =
             Cardinality(Adding) - One(adding[p].step, Begun) + One(new.step, Begun)
    BY <1>0, <2>1, AddingOfStep
  <2>5. Adding' \subseteq Adding
    BY <1>0, <2>2 DEF Adding, Begun
  <2>6. AddsCounted'
    BY <1>0, <1>1, <1>3, <1>6, <2>1, <2>3, <2>4, <2>5 DEF AddsCounted
  <2>7. /\ p \notin ToSet(small) /\ p \notin ToSet(main) /\ p \notin DOMAIN meta
    BY <1>0, <1>8 DEF Queued, QueuesSound
  <2>8. /\ small' \in Seq(Pages) /\ main' \in Seq(Pages)
        /\ IsInjective(small') /\ IsInjective(main') /\ ToSet(small') \cap ToSet(main') = {}
        /\ ToSet(small) \subseteq ToSet(small') /\ ToSet(main) \subseteq ToSet(main')
        /\ ToSet(small') \cup ToSet(main') = ToSet(small) \cup ToSet(main) \cup {p}
        /\ Len(main') = Len(main) + One(adding[p], {ToMain})
        /\ Len(small') = Len(small) + One(adding[p], {ToSmall})
        /\ adding[p].toMain => p \in ToSet(main')
    <3>1. CASE adding[p].toMain
      <4>1. main' = Append(main, p) /\ small' = small
        BY <1>8, <3>1 DEF Enqueue
      <4>2. /\ Append(main, p) \in Seq(Pages) /\ IsInjective(Append(main, p))
            /\ ToSet(Append(main, p)) = ToSet(main) \cup {p}
            /\ Len(Append(main, p)) = Len(main) + 1
        BY <1>4, <2>7, AppendedPage
      <4>3. /\ ToSet(main') = ToSet(main) \cup {p} /\ Len(main') = Len(main) + 1
            /\ main' \in Seq(Pages) /\ IsInjective(main')
        BY <4>1, <4>2
      <4> QED BY <1>1, <1>3, <1>4, <2>7, <3>1, <4>1, <4>3
    <3>2. CASE ~ adding[p].toMain
      <4>1. small' = Append(small, p) /\ main' = main
        BY <1>8, <3>2 DEF Enqueue
      <4>2. /\ Append(small, p) \in Seq(Pages) /\ IsInjective(Append(small, p))
            /\ ToSet(Append(small, p)) = ToSet(small) \cup {p}
            /\ Len(Append(small, p)) = Len(small) + 1
        BY <1>4, <2>7, AppendedPage
      <4>3. /\ ToSet(small') = ToSet(small) \cup {p} /\ Len(small') = Len(small) + 1
            /\ small' \in Seq(Pages) /\ IsInjective(small')
        BY <4>1, <4>2
      <4> QED BY <1>1, <1>3, <1>4, <2>7, <3>2, <4>1, <4>3
    <3> QED BY <3>1, <3>2
  <2>9. MainCounted' /\ SmallCounted'
    <3>1. /\ ArrivingMain' = ArrivingMain - One(adding[p], {ToMain})
          /\ ArrivingSmall' = ArrivingSmall - One(adding[p], {ToSmall})
          /\ One(adding[p], {ToMain}) \in {0, 1} /\ One(adding[p], {ToSmall}) \in {0, 1}
      BY <1>1, <2>3, <2>4 DEF One
    <3>2. /\ Len(main') = Len(main) + One(adding[p], {ToMain})
          /\ Len(small') = Len(small) + One(adding[p], {ToSmall})
      BY <2>8
    <3>3. /\ Len(main') + ArrivingMain' = Len(main) + ArrivingMain
          /\ Len(small') + ArrivingSmall' = Len(small) + ArrivingSmall
      BY <1>1, <3>1, <3>2
    <3>4. MainCounted'
      BY <1>0, <1>2, <3>3 DEF MainCounted
    <3>5. SmallCounted'
      BY <1>0, <1>2, <2>1, <3>3 DEF SmallCounted
    <3> QED BY <3>4, <3>5
  <2>10. TypeOK'
    BY <1>0, <2>1, <2>2, <2>8 DEF TypeOK
  <2>11. QueuesSound'
    <3>1. IsInjective(small' \o main')
      BY <2>8, JoinedApart
    <3> QED BY <1>0, <2>8, <3>1 DEF QueuesSound, Queued
  <2>12. QueuedOrRecorded'
    BY <1>0, <2>2, <2>7, <2>8 DEF QueuedOrRecorded, Queued
  <2> QED BY <1>5, <2>6, <2>9, <2>10, <2>11, <2>12 DEF IInv
<1> QED BY <1>7, <1>8

(* A page is recorded on the queue it was put on.                          *)
LEMMA RecordInv ==
  ASSUME IInv, NEW p \in Pages, Record(p)
  PROVE  IInv'
<1>0. /\ TypeOK /\ QueuesSound /\ AddsCounted /\ MainCounted /\ SmallCounted /\ QueuedOrRecorded
      /\ adding[p].step = "recording" /\ adding[p].toMain \in BOOLEAN
      /\ adding' = [adding EXCEPT ![p] = NotAdding]
      /\ UNCHANGED <<cached, small, main, hot, ghost, smallSize, mainSize, reclaim, adds, failures,
                     uncounted,
                     overwritten>>
  BY DEF IInv, Record, sizes, queues, history, TypeOK, records
<1>1. /\ MovingMain \in Nat /\ MovedSmall \in Nat
      /\ ArrivingMain \in Nat /\ ArrivingSmall \in Nat
      /\ Len(small) \in Nat /\ Len(main) \in Nat
      /\ smallSize \in Int /\ mainSize \in Int /\ failures \in Nat /\ uncounted \in Nat /\ adds \in Nat
      /\ Cardinality(Adding) \in Nat
  BY <1>0, CountsAreNumbers
<1>2. MovingMain' = MovingMain /\ MovedSmall' = MovedSmall
  BY <1>0, SameMoves
<1>3. /\ NotAdding.step = "none"
      /\ NotAdding \in [step : {"none", "queueing", "recording"}, toMain : BOOLEAN]
      /\ adding'[p] = NotAdding /\ \A q \in Pages \ {p} : adding'[q] = adding[q]
      /\ adding' \in [Pages -> [step : {"none", "queueing", "recording"}, toMain : BOOLEAN]]
  BY <1>0 DEF NotAdding, TypeOK
<1>4. /\ One(NotAdding, {ToMain}) = 0 /\ One(NotAdding, {ToSmall}) = 0
      /\ One(NotAdding.step, Begun) = 0
  BY <1>3, OtherCounts
<1>5. /\ One(adding[p], {ToMain}) = 0 /\ One(adding[p], {ToSmall}) = 0
      /\ One(adding[p].step, Begun) = 1
  BY <1>0, OtherCounts
<1>6. /\ ArrivingMain' = ArrivingMain - One(adding[p], {ToMain}) + One(NotAdding, {ToMain})
      /\ ArrivingSmall' = ArrivingSmall - One(adding[p], {ToSmall}) + One(NotAdding, {ToSmall})
      /\ Cardinality(Adding') =
           Cardinality(Adding) - One(adding[p].step, Begun) + One(NotAdding.step, Begun)
      /\ Cardinality(Adding') \in Nat
  BY <1>0, AddingOfStep
<1>7. AddsCounted'
  <2>1. Adding' \subseteq Adding
    BY <1>3 DEF Adding, Begun
  <2>2. Adding \subseteq cached /\ failures + Cardinality(Adding) <= adds
    BY <1>0 DEF AddsCounted
  <2> QED BY <1>0, <1>1, <1>4, <1>5, <1>6, <2>1, <2>2 DEF AddsCounted
<1>8. MainCounted' /\ SmallCounted'
  <2>1. ArrivingMain' = ArrivingMain /\ ArrivingSmall' = ArrivingSmall
    BY <1>1, <1>4, <1>5, <1>6
  <2>2. MainCounted'
    BY <1>0, <1>2, <2>1 DEF MainCounted
  <2>3. SmallCounted'
    BY <1>0, <1>2, <2>1 DEF SmallCounted
  <2> QED BY <2>2, <2>3
<1>9. /\ p \in cached /\ Queued(p) /\ p \notin DOMAIN meta
      /\ adding[p].toMain => p \in ToSet(main)
  BY <1>0 DEF AddsCounted, QueuedOrRecorded, Adding, Begun
<1>10. /\ DOMAIN meta' = DOMAIN meta \cup {p} /\ \A q \in DOMAIN meta : meta'[q] = meta[q]
       /\ meta'[p] = [freq |-> 0, inMain |-> adding[p].toMain]
  BY <1>9 DEF Record
<1>11. TypeOK'
  <2>1. meta'[p] \in Metadata
    BY <1>0, <1>10, S3Assumption DEF Metadata
  <2>2. /\ DOMAIN meta' \subseteq cached /\ hot \subseteq DOMAIN meta'
        /\ \A q \in DOMAIN meta' : meta'[q] \in Metadata /\ (meta'[q].freq > 3 => q \in hot)
    BY <1>0, <1>9, <1>10, <2>1 DEF TypeOK
  <2> QED BY <1>0, <1>3, <2>2 DEF TypeOK
<1>12. QueuesSound'
  BY <1>0, <1>9, <1>10 DEF QueuesSound, Queued
<1>13. QueuedOrRecorded'
  BY <1>0, <1>3, <1>9, <1>10 DEF QueuedOrRecorded, Queued
<1>14. ResetGrows'
  BY <1>0 DEF IInv, ResetGrows
<1> QED BY <1>7, <1>8, <1>11, <1>12, <1>13, <1>14 DEF IInv

(* A page that cannot be recorded, which nobody else has recorded, is      *)
(* taken off its queue and stays counted.                                  *)
LEMMA RecordFailsInv ==
  ASSUME IInv, NEW p \in Pages, RecordFails(p)
  PROVE  IInv'
<1>0. /\ TypeOK /\ QueuesSound /\ AddsCounted /\ MainCounted /\ SmallCounted /\ QueuedOrRecorded
      /\ adding[p].step = "recording"
      /\ adding' = [adding EXCEPT ![p] = NotAdding]
      /\ small' = Off(small, p) /\ main' = Off(main, p) /\ failures' = failures + 1
      /\ UNCHANGED <<cached, meta, hot, ghost, smallSize, mainSize, reclaim, adds, uncounted,
                     overwritten>>
  BY DEF IInv, RecordFails, sizes, records
<1>1. /\ MovingMain \in Nat /\ MovedSmall \in Nat
      /\ ArrivingMain \in Nat /\ ArrivingSmall \in Nat
      /\ Len(small) \in Nat /\ Len(main) \in Nat
      /\ smallSize \in Int /\ mainSize \in Int /\ failures \in Nat /\ uncounted \in Nat /\ adds \in Nat
      /\ Cardinality(Adding) \in Nat
  BY <1>0, CountsAreNumbers
<1>2. MovingMain' = MovingMain /\ MovedSmall' = MovedSmall
  BY <1>0, SameMoves
<1>3. /\ NotAdding.step = "none"
      /\ NotAdding \in [step : {"none", "queueing", "recording"}, toMain : BOOLEAN]
      /\ adding'[p] = NotAdding /\ \A q \in Pages \ {p} : adding'[q] = adding[q]
      /\ adding' \in [Pages -> [step : {"none", "queueing", "recording"}, toMain : BOOLEAN]]
  BY <1>0 DEF NotAdding, TypeOK
<1>4. /\ One(NotAdding, {ToMain}) = 0 /\ One(NotAdding, {ToSmall}) = 0
      /\ One(NotAdding.step, Begun) = 0
  BY <1>3, OtherCounts
<1>5. /\ One(adding[p], {ToMain}) = 0 /\ One(adding[p], {ToSmall}) = 0
      /\ One(adding[p].step, Begun) = 1
  BY <1>0, OtherCounts
<1>6. /\ ArrivingMain' = ArrivingMain - One(adding[p], {ToMain}) + One(NotAdding, {ToMain})
      /\ ArrivingSmall' = ArrivingSmall - One(adding[p], {ToSmall}) + One(NotAdding, {ToSmall})
      /\ Cardinality(Adding') =
           Cardinality(Adding) - One(adding[p].step, Begun) + One(NotAdding.step, Begun)
      /\ Cardinality(Adding') \in Nat
  BY <1>0, AddingOfStep
<1>7. AddsCounted' /\ failures' \in 0 .. adds
  <2>1. Adding' \subseteq Adding
    BY <1>3 DEF Adding, Begun
  <2>2. Adding \subseteq cached /\ failures + Cardinality(Adding) <= adds
    BY <1>0 DEF AddsCounted
  <2> QED BY <1>0, <1>1, <1>4, <1>5, <1>6, <2>1, <2>2 DEF AddsCounted
<1>8. /\ small' \in Seq(Pages) /\ main' \in Seq(Pages) /\ IsInjective(small' \o main')
      /\ ToSet(small') = ToSet(small) \ {p} /\ ToSet(main') = ToSet(main) \ {p}
      /\ Len(small') \in Nat /\ Len(main') \in Nat
      /\ Len(small') >= Len(small) - 1 /\ Len(main') <= Len(main)
  BY <1>0, TakenOff
<1>9. MainCounted'
  <2>1. ArrivingMain' = ArrivingMain
    BY <1>1, <1>4, <1>5, <1>6
  <2> QED BY <1>0, <1>1, <1>2, <1>8, <2>1 DEF MainCounted
<1>10. SmallCounted'
  <2>1. ArrivingSmall' = ArrivingSmall
    BY <1>1, <1>4, <1>5, <1>6
  <2> QED BY <1>0, <1>1, <1>2, <1>8, <2>1 DEF SmallCounted
<1>11. TypeOK'
  BY <1>0, <1>3, <1>7, <1>8 DEF TypeOK
<1>12. p \notin DOMAIN meta
  BY <1>0 DEF QueuedOrRecorded
<1>13. QueuesSound'
  BY <1>0, <1>8, <1>12 DEF QueuesSound, Queued
<1>14. QueuedOrRecorded'
  BY <1>0, <1>3, <1>8, <1>12 DEF QueuedOrRecorded, Queued
<1>15. ResetGrows'
  BY <1>0 DEF IInv, ResetGrows
<1> QED BY <1>7, <1>9, <1>10, <1>11, <1>13, <1>14, <1>15 DEF IInv

-----------------------------------------------------------------------------
(* A step that changes neither the queues nor the counts. *)
LEMMA CountsKept ==
  ASSUME TypeOK, AddsCounted, MainCounted, SmallCounted,
         UNCHANGED <<small, main, smallSize, mainSize, adding, reclaim, adds, failures, uncounted,
                     overwritten>>
  PROVE  MainCounted' /\ SmallCounted' /\ (cached \subseteq cached' => AddsCounted')
<1>1. MovingMain' = MovingMain /\ MovedSmall' = MovedSmall
  BY SameMoves
<1>2. /\ ArrivingMain' = ArrivingMain /\ ArrivingSmall' = ArrivingSmall
      /\ Adding' = Adding
  BY SameArriving
<1>3. MainCounted'
  BY <1>1, <1>2 DEF MainCounted
<1>4. SmallCounted'
  BY <1>1, <1>2 DEF SmallCounted
<1>5. cached \subseteq cached' => AddsCounted'
  BY <1>2 DEF AddsCounted
<1> QED BY <1>3, <1>4, <1>5

(* An access changes one frequency, and no queue, count or mark.           *)
LEMMA HeatedInv ==
  ASSUME IInv, NEW p \in DOMAIN meta, NEW f \in FreqFloor .. 4,
         meta' = [meta EXCEPT ![p].freq = f],
         hot' \subseteq DOMAIN meta, hot \ {p} \subseteq hot', f > 3 => p \in hot',
         UNCHANGED <<cached, small, main, ghost, smallSize, mainSize, adding, reclaim, adds,
                     failures, uncounted, overwritten>>
  PROVE  IInv'
<1>0. /\ TypeOK /\ QueuesSound /\ AddsCounted /\ MainCounted /\ SmallCounted
  BY DEF IInv
<1>1. /\ DOMAIN meta' = DOMAIN meta
      /\ \A q \in DOMAIN meta : meta'[q] \in Metadata /\ meta'[q].inMain = meta[q].inMain
      /\ \A q \in DOMAIN meta : meta'[q].freq > 3 => q \in hot'
  <2>1. \A q \in DOMAIN meta : meta[q] \in Metadata /\ (meta[q].freq > 3 => q \in hot)
    BY <1>0 DEF TypeOK
  <2>2. /\ [meta[p] EXCEPT !.freq = f] \in Metadata
        /\ [meta[p] EXCEPT !.freq = f].inMain = meta[p].inMain
        /\ [meta[p] EXCEPT !.freq = f].freq = f
    BY <2>1 DEF Metadata
  <2>3. /\ DOMAIN meta' = DOMAIN meta /\ meta'[p] = [meta[p] EXCEPT !.freq = f]
        /\ \A q \in DOMAIN meta \ {p} : meta'[q] = meta[q]
    OBVIOUS
  <2>4. \A q \in DOMAIN meta \ {p} : q \in hot => q \in hot'
    OBVIOUS
  <2> QED BY <2>1, <2>2, <2>3, <2>4
<1>2. TypeOK'
  <2>1. UNCHANGED <<cached, small, main, ghost, smallSize, mainSize, adding, reclaim, adds,
                    failures, uncounted, overwritten>>
    OBVIOUS
  <2>2. /\ DOMAIN meta' \subseteq cached' /\ hot' \subseteq DOMAIN meta'
        /\ \A q \in DOMAIN meta' : meta'[q] \in Metadata /\ (meta'[q].freq > 3 => q \in hot')
    <3>1. DOMAIN meta \subseteq cached
      BY <1>0 DEF TypeOK
    <3>2. DOMAIN meta' = DOMAIN meta /\ cached' = cached /\ hot' \subseteq DOMAIN meta
      BY <1>1
    <3>3. \A q \in DOMAIN meta : meta'[q] \in Metadata /\ (meta'[q].freq > 3 => q \in hot')
      BY ONLY <1>1
    <3> QED BY ONLY <3>1, <3>2, <3>3
  <2> QED BY ONLY <1>0, <2>1, <2>2 DEF TypeOK
<1>3. QueuesSound' /\ QueuedOrRecorded' /\ ResetGrows'
  <2>1. QueuesSound'
    BY <1>0, <1>1 DEF QueuesSound, Queued
  <2>2. QueuedOrRecorded'
    BY <1>0, <1>1 DEF IInv, QueuedOrRecorded, Queued
  <2>3. ResetGrows'
    BY <1>0 DEF IInv, ResetGrows
  <2> QED BY <2>1, <2>2, <2>3
<1>4. AddsCounted' /\ MainCounted' /\ SmallCounted'
  BY <1>0, CountsKept
<1> QED BY <1>2, <1>3, <1>4 DEF IInv

(* A frequency that is not about to be capped is 3 at most, and one more   *)
(* than 3 is about to be.                                                  *)
LEMMA AccessedInv ==
  ASSUME IInv, NEW p \in Pages, Accessed(p)
  PROVE  IInv'
<1> DEFINE f == meta[p].freq + 1
<1>1. /\ p \in DOMAIN meta /\ p \notin hot /\ hot \subseteq DOMAIN meta
      /\ meta[p] \in Metadata /\ meta' = [meta EXCEPT ![p].freq = f]
      /\ ~ (meta[p].freq > 3)
  BY DEF Accessed, IInv, TypeOK
<1>2. f \in FreqFloor .. 4
  BY <1>1, S3Assumption DEF Metadata
<1>3. meta'[p].freq = f
  BY <1>1 DEF Metadata
<1>4. hot' = IF f > 3 THEN hot \cup {p} ELSE hot
  BY <1>3 DEF Accessed
<1>5. UNCHANGED <<cached, small, main, ghost, smallSize, mainSize, adding, reclaim, adds,
                  failures, uncounted, overwritten>>
  BY DEF Accessed, sizes, queues, history
<1> HIDE DEF f
<1>6. hot' \subseteq DOMAIN meta /\ hot \ {p} \subseteq hot' /\ (f > 3 => p \in hot')
  BY <1>1, <1>4
<1> QED BY <1>1, <1>2, <1>5, <1>6, HeatedInv

(* The highest frequency is stored.                                        *)
LEMMA CapInv ==
  ASSUME IInv, NEW p \in Pages, Cap(p)
  PROVE  IInv'
<1>1. /\ p \in DOMAIN meta /\ meta' = [meta EXCEPT ![p].freq = 3]
      /\ hot' = hot \ {p} /\ hot \subseteq DOMAIN meta
  BY DEF Cap, Capped, IInv, TypeOK
<1>2. 3 \in FreqFloor .. 4 /\ ~ (3 > 3)
  BY S3Assumption
<1>3. UNCHANGED <<cached, small, main, ghost, smallSize, mainSize, adding, reclaim, adds,
                  failures, uncounted, overwritten>>
  BY DEF Cap, sizes, queues, history
<1> QED BY <1>1, <1>2, <1>3, HeatedInv

(* A page that leaves is recorded or on no queue; one recorded as in the   *)
(* main queue is on it, so main_list_size falls with the queue.            *)
LEMMA EvictedInv ==
  ASSUME IInv, NEW p \in Pages, Evicted(p)
  PROVE  IInv'
<1>0. /\ TypeOK /\ QueuesSound /\ AddsCounted /\ MainCounted /\ SmallCounted /\ QueuedOrRecorded
      /\ p \in cached /\ adding[p].step = "none" /\ cached' = cached \ {p}
      /\ small' = Off(small, p) /\ main' = Off(main, p)
      /\ UNCHANGED <<adding, reclaim, adds, failures, uncounted, overwritten>>
  BY DEF IInv, Evicted, history, records
<1>1. /\ MovingMain \in Nat /\ MovedSmall \in Nat
      /\ ArrivingMain \in Nat /\ ArrivingSmall \in Nat
      /\ Len(small) \in Nat /\ Len(main) \in Nat
      /\ smallSize \in Int /\ mainSize \in Int /\ failures \in Nat /\ uncounted \in Nat /\ adds \in Nat
  BY <1>0, CountsAreNumbers
<1>2. MovingMain' = MovingMain /\ MovedSmall' = MovedSmall
  BY <1>0, SameMoves
<1>3. /\ ArrivingMain' = ArrivingMain /\ ArrivingSmall' = ArrivingSmall
      /\ Adding' = Adding
  BY <1>0, SameArriving
<1>4. /\ small' \in Seq(Pages) /\ main' \in Seq(Pages) /\ IsInjective(small' \o main')
      /\ ToSet(small') = ToSet(small) \ {p} /\ ToSet(main') = ToSet(main) \ {p}
      /\ Len(small') \in Nat /\ Len(main') \in Nat
      /\ Len(small') = Len(small) - One(p, ToSet(small))
      /\ Len(main') = Len(main) - One(p, ToSet(main))
      /\ Len(small') >= Len(small) - 1 /\ Len(main') <= Len(main)
  BY <1>0, TakenOff
<1>5. ToSet(small) \cap ToSet(main) = {}
  BY <1>0, QueuesApart
<1>6. /\ DOMAIN meta' = DOMAIN meta \ {p} /\ \A q \in DOMAIN meta' : meta'[q] = meta[q]
      /\ hot' = hot \ {p}
  BY DEF Evicted, Unrecorded
<1>7. p \notin DOMAIN meta => ~ Queued(p)
  BY <1>0 DEF QueuedOrRecorded
<1>8. AddsCounted'
  <2>1. p \notin Adding
    BY <1>0 DEF Adding, Begun
  <2> QED BY <1>0, <1>3, <2>1 DEF AddsCounted
<1>9. /\ mainSize' \in Int /\ smallSize' \in Int
      /\ Len(main') - mainSize' <= Len(main) - mainSize
      /\ smallSize' - Len(small') <= smallSize - Len(small)
  <2>1. CASE p \notin DOMAIN meta
    <3>1. UNCHANGED <<smallSize, mainSize>>
      BY <2>1 DEF Evicted, sizes, records
    <3>2. One(p, ToSet(small)) = 0 /\ One(p, ToSet(main)) = 0
      BY <1>7, <2>1 DEF One, Queued
    <3> QED BY <1>1, <1>4, <3>1, <3>2
  <2>2. CASE p \in DOMAIN meta /\ meta[p].inMain
    <3>1. mainSize' = mainSize - 1 /\ UNCHANGED smallSize
      BY <2>2 DEF Evicted, LeavesMain
    <3>2. p \in ToSet(main) /\ p \notin ToSet(small)
      BY <1>0, <1>5, <2>2 DEF QueuesSound
    <3>3. One(p, ToSet(small)) = 0 /\ One(p, ToSet(main)) = 1
      BY <3>2 DEF One
    <3> QED BY <1>1, <1>4, <3>1, <3>3
  <2>3. CASE p \in DOMAIN meta /\ ~ meta[p].inMain
    <3>1. smallSize' = smallSize - 1 /\ UNCHANGED mainSize
      BY <2>3 DEF Evicted, LeavesMain
    <3> QED BY <1>1, <1>4, <3>1
  <2> QED BY <2>1, <2>2, <2>3
<1>lengths. Len(small') \in Nat /\ Len(main') \in Nat
  BY <1>4
<1>10. MainCounted'
  <2>1. SUFFICES ASSUME ~ overwritten
                 PROVE  Len(main') + ArrivingMain <= mainSize' + MovingMain + uncounted
    BY <1>0, <1>2, <1>3 DEF MainCounted
  <2>2. Len(main) + ArrivingMain <= mainSize + MovingMain + uncounted
    BY <1>0, <2>1 DEF MainCounted
  <2> QED BY <1>1, <1>lengths, <1>9, <2>2
<1>11. SmallCounted'
  <2>1. smallSize <= Len(small) + ArrivingSmall + MovedSmall + failures + uncounted
    BY <1>0 DEF SmallCounted
  <2>2. smallSize' <= Len(small') + ArrivingSmall + MovedSmall + failures + uncounted
    BY <1>1, <1>lengths, <1>9, <2>1
  <2> QED BY <1>0, <1>2, <1>3, <2>2 DEF SmallCounted
<1>12. TypeOK'
  <2>1. ghost' \in SUBSET Pages
    BY <1>0 DEF TypeOK, Evicted
  <2>2. /\ DOMAIN meta' \subseteq cached' /\ hot' \subseteq DOMAIN meta'
        /\ \A q \in DOMAIN meta' : meta'[q] \in Metadata /\ (meta'[q].freq > 3 => q \in hot')
    BY <1>0, <1>6 DEF TypeOK
  <2>3. cached' \in SUBSET Pages
    BY <1>0 DEF TypeOK
  <2> QED BY <1>0, <1>4, <1>9, <2>1, <2>2, <2>3 DEF TypeOK
<1>13. QueuesSound'
  BY <1>0, <1>4, <1>6 DEF QueuesSound, Queued
<1>14. QueuedOrRecorded'
  BY <1>0, <1>4, <1>6 DEF QueuedOrRecorded, Queued
<1>15. ResetGrows'
  BY <1>0 DEF IInv, ResetGrows
<1> QED BY <1>8, <1>10, <1>11, <1>12, <1>13, <1>14, <1>15 DEF IInv

-----------------------------------------------------------------------------
(* Each step keeps the invariant: evict_folios. *)

Reclaims ==
  [step : {"idle", "small", "main", "countSmall", "resetSmall", "countMain", "resetMain"},
   pass : 0 .. 3, need : 0 .. MaxRequest, moved : Nat, left : Int]

(* A CPU goes on to the state new. *)
LEMMA GoesOn ==
  ASSUME TypeOK, NEW c \in CPUs, NEW new \in Reclaims, reclaim' = [reclaim EXCEPT ![c] = new]
  PROVE  /\ reclaim' \in [CPUs -> Reclaims]
         /\ reclaim'[c] = new /\ \A d \in CPUs \ {c} : reclaim'[d] = reclaim[d]
         /\ MovedSmall \in Nat /\ MovedSmall' \in Nat /\ MovingMain \in Nat /\ MovingMain' \in Nat
         /\ MovedSmall' =
              MovedSmall - Own(reclaim, c, {"countSmall"}) + Own(reclaim', c, {"countSmall"})
         /\ MovingMain' = MovingMain - Own(reclaim, c, Moving) + Own(reclaim', c, Moving)
<1>1. new.moved \in Nat
  BY DEF Reclaims
<1>2. \A steps :
        /\ Moved(steps) \in Nat /\ Moved(steps)' \in Nat
        /\ Moved(steps)' = Moved(steps) - Own(reclaim, c, steps) + Own(reclaim', c, steps)
  BY <1>1, MovesOfStep
<1>3. /\ MovedSmall \in Nat /\ MovedSmall' \in Nat
      /\ MovedSmall' =
           MovedSmall - Own(reclaim, c, {"countSmall"}) + Own(reclaim', c, {"countSmall"})
  BY <1>2 DEF MovedSmall
<1>4. /\ MovingMain \in Nat /\ MovingMain' \in Nat
      /\ MovingMain' = MovingMain - Own(reclaim, c, Moving) + Own(reclaim', c, Moving)
  BY <1>2 DEF MovingMain
<1>5. /\ reclaim' \in [CPUs -> Reclaims]
      /\ reclaim'[c] = new /\ \A d \in CPUs \ {c} : reclaim'[d] = reclaim[d]
  BY DEF TypeOK, Reclaims
<1> QED BY <1>3, <1>4, <1>5

(* The counts before a step of c, whose folio_added steps stay as they are. *)
LEMMA Before ==
  ASSUME IInv, NEW c \in CPUs, UNCHANGED adding
  PROVE  /\ TypeOK /\ QueuesSound /\ AddsCounted /\ QueuedOrRecorded /\ ResetGrows
         /\ MainCounted /\ SmallCounted /\ reclaim[c] \in Reclaims
         /\ ArrivingMain \in Nat /\ ArrivingSmall \in Nat
         /\ Len(small) \in Nat /\ Len(main) \in Nat
         /\ smallSize \in Int /\ mainSize \in Int /\ failures \in Nat
         /\ uncounted \in Nat /\ adds \in Nat
         /\ ArrivingMain' = ArrivingMain /\ ArrivingSmall' = ArrivingSmall
         /\ Adding' = Adding
<1>1. /\ TypeOK /\ QueuesSound /\ AddsCounted /\ QueuedOrRecorded /\ ResetGrows
      /\ MainCounted /\ SmallCounted
  BY DEF IInv
<1>2. reclaim[c] \in Reclaims
  BY <1>1 DEF TypeOK, Reclaims
<1>3. /\ ArrivingMain \in Nat /\ ArrivingSmall \in Nat
      /\ Len(small) \in Nat /\ Len(main) \in Nat
      /\ smallSize \in Int /\ mainSize \in Int /\ failures \in Nat /\ uncounted \in Nat /\ adds \in Nat
  BY <1>1, CountsAreNumbers
<1>4. ArrivingMain' = ArrivingMain /\ ArrivingSmall' = ArrivingSmall /\ Adding' = Adding
  BY SameArriving
<1> QED BY <1>1, <1>2, <1>3, <1>4

(* A CPU decides which queue to reclaim from.                              *)
LEMMA ChooseInv ==
  ASSUME IInv, NEW c \in CPUs, Choose(c)
  PROVE  IInv'
<1>0. /\ reclaim[c].step = "idle"
      /\ UNCHANGED <<cached, small, main, meta, hot, ghost, smallSize, mainSize, adding, adds,
                     failures, uncounted,
                     overwritten>>
  BY DEF Choose, At, queues, sizes, history, records
<1>1. /\ TypeOK /\ QueuesSound /\ AddsCounted /\ QueuedOrRecorded /\ ResetGrows
      /\ MainCounted /\ SmallCounted /\ reclaim[c] \in Reclaims
      /\ ArrivingMain' = ArrivingMain /\ ArrivingSmall' = ArrivingSmall
      /\ Adding' = Adding
  BY <1>0, Before
<1>2. PICK need \in 1 .. MaxRequest :
        reclaim' = [reclaim EXCEPT ![c] =
          [Idle EXCEPT !.step = IF ReclaimsSmall THEN "small" ELSE "main", !.need = need]]
  BY DEF Choose
<1> DEFINE s == IF ReclaimsSmall THEN "small" ELSE "main"
           new == [Idle EXCEPT !.step = s, !.need = need]
<1>3. new \in Reclaims /\ new.step \in {"small", "main"}
  <2>1. need \in 0 .. MaxRequest /\ s \in {"small", "main"}
    BY <1>2, S3Assumption
  <2>2. Idle \in Reclaims
    BY S3Assumption DEF Idle, Reclaims
  <2> HIDE DEF s
  <2>3. new \in Reclaims /\ new.step = s
    BY <2>1, <2>2 DEF Reclaims
  <2> QED BY <2>1, <2>3
<1> HIDE DEF new
<1>4. reclaim' = [reclaim EXCEPT ![c] = new]
  BY <1>2 DEF new, s
<1>5. /\ reclaim' \in [CPUs -> Reclaims]
      /\ reclaim'[c] = new /\ \A d \in CPUs \ {c} : reclaim'[d] = reclaim[d]
      /\ MovedSmall \in Nat /\ MovingMain \in Nat
      /\ MovedSmall' =
           MovedSmall - Own(reclaim, c, {"countSmall"}) + Own(reclaim', c, {"countSmall"})
      /\ MovingMain' = MovingMain - Own(reclaim, c, Moving) + Own(reclaim', c, Moving)
  BY <1>1, <1>3, <1>4, GoesOn
<1>6. /\ Own(reclaim, c, {"countSmall"}) = 0 /\ Own(reclaim', c, {"countSmall"}) = 0
      /\ Own(reclaim, c, Moving) = 0 /\ Own(reclaim', c, Moving) = 0
  BY <1>0, <1>3, <1>5 DEF Own, Moving
<1>7. MovedSmall' = MovedSmall /\ MovingMain' = MovingMain
  BY <1>5, <1>6
<1>8. AddsCounted' /\ QueuesSound' /\ QueuedOrRecorded'
  BY <1>0, <1>1 DEF AddsCounted, QueuesSound, QueuedOrRecorded, Queued
<1>9. MainCounted' /\ SmallCounted'
  BY <1>0, <1>1, <1>7 DEF MainCounted, SmallCounted
<1>10. ResetGrows'
  BY <1>1, <1>3, <1>5 DEF ResetGrows
<1>11. TypeOK'
  BY <1>0, <1>1, <1>5 DEF TypeOK, Reclaims
<1> QED BY <1>8, <1>9, <1>10, <1>11 DEF IInv

(* small_list_size is lowered by what the pass moved off the small queue.  *)
LEMMA CountSmallInv ==
  ASSUME IInv, NEW c \in CPUs, CountSmall(c)
  PROVE  IInv'
<1>0. /\ reclaim[c].step = "countSmall"
      /\ UNCHANGED <<cached, small, main, meta, hot, ghost, mainSize, adding, adds, failures, uncounted,
                     overwritten>>
      /\ smallSize' = smallSize - reclaim[c].moved
  BY DEF CountSmall, At, queues, history, records
<1>1. /\ TypeOK /\ QueuesSound /\ AddsCounted /\ QueuedOrRecorded /\ ResetGrows
      /\ MainCounted /\ SmallCounted /\ reclaim[c] \in Reclaims
      /\ ArrivingMain \in Nat /\ ArrivingSmall \in Nat
      /\ Len(small) \in Nat /\ Len(main) \in Nat
      /\ smallSize \in Int /\ mainSize \in Int /\ failures \in Nat /\ uncounted \in Nat /\ adds \in Nat
      /\ ArrivingMain' = ArrivingMain /\ ArrivingSmall' = ArrivingSmall
      /\ Adding' = Adding
  BY <1>0, Before
<1> DEFINE new == [reclaim[c] EXCEPT !.left = smallSize',
                                     !.step = IF smallSize < 0 THEN "resetSmall" ELSE "countMain"]
<1>2. smallSize' \in Int /\ reclaim[c].moved \in Nat
  BY <1>0, <1>1 DEF Reclaims
<1>3. /\ new \in Reclaims /\ new.step \in {"resetSmall", "countMain"}
      /\ new.moved = reclaim[c].moved
  BY <1>1, <1>2 DEF Reclaims
<1>4. reclaim' = [reclaim EXCEPT ![c] = new]
  BY DEF CountSmall
<1> HIDE DEF new
<1>5. /\ reclaim' \in [CPUs -> Reclaims]
      /\ reclaim'[c] = new /\ \A d \in CPUs \ {c} : reclaim'[d] = reclaim[d]
      /\ MovedSmall \in Nat /\ MovingMain \in Nat
      /\ MovedSmall' =
           MovedSmall - Own(reclaim, c, {"countSmall"}) + Own(reclaim', c, {"countSmall"})
      /\ MovingMain' = MovingMain - Own(reclaim, c, Moving) + Own(reclaim', c, Moving)
  BY <1>1, <1>3, <1>4, GoesOn
<1>6. /\ Own(reclaim, c, {"countSmall"}) = reclaim[c].moved
      /\ Own(reclaim', c, {"countSmall"}) = 0
      /\ Own(reclaim, c, Moving) = reclaim[c].moved /\ Own(reclaim', c, Moving) = reclaim[c].moved
  BY <1>0, <1>3, <1>5 DEF Own, Moving
<1>7. MovedSmall' = MovedSmall - reclaim[c].moved /\ MovingMain' = MovingMain
  BY <1>2, <1>5, <1>6
<1>8. AddsCounted' /\ QueuesSound' /\ QueuedOrRecorded'
  BY <1>0, <1>1 DEF AddsCounted, QueuesSound, QueuedOrRecorded, Queued
<1>9. MainCounted'
  BY <1>0, <1>1, <1>7 DEF MainCounted
<1>10. SmallCounted'
  <2>1. smallSize <= Len(small) + ArrivingSmall + MovedSmall + failures + uncounted
    BY <1>1 DEF SmallCounted
  <2> DEFINE m == reclaim[c].moved
  <2>2. /\ m \in Nat /\ smallSize' = smallSize - m /\ MovedSmall' = MovedSmall - m
        /\ MovedSmall \in Nat
    BY <1>0, <1>2, <1>5, <1>7
  <2> HIDE DEF m
  <2>3. /\ smallSize \in Int /\ Len(small) \in Nat /\ ArrivingSmall \in Nat /\ failures \in Nat
        /\ uncounted \in Nat
    BY <1>1
  <2>4. smallSize' <= Len(small) + ArrivingSmall + MovedSmall' + failures + uncounted
    BY <2>1, <2>2, <2>3
  <2> QED BY <1>0, <1>1, <2>4 DEF SmallCounted
<1>11. ResetGrows'
  BY <1>1, <1>3, <1>5 DEF ResetGrows
<1>12. TypeOK'
  BY <1>0, <1>1, <1>2, <1>5 DEF TypeOK, Reclaims
<1> QED BY <1>8, <1>9, <1>10, <1>11, <1>12 DEF IInv

(* small_list_size is reset to 0, below which no queue can be.             *)
LEMMA ResetSmallInv ==
  ASSUME IInv, NEW c \in CPUs, ResetSmall(c)
  PROVE  IInv'
<1>0. /\ reclaim[c].step = "resetSmall"
      /\ UNCHANGED <<cached, small, main, meta, hot, ghost, mainSize, adding, adds, failures, uncounted>>
      /\ smallSize' = 0 /\ (~ overwritten' => ~ overwritten) /\ overwritten' \in BOOLEAN
      /\ reclaim' = [reclaim EXCEPT ![c].step = "countMain"]
  BY DEF ResetSmall, Reset, Goto, At, queues, history, records
<1>1. /\ TypeOK /\ QueuesSound /\ AddsCounted /\ QueuedOrRecorded /\ ResetGrows
      /\ MainCounted /\ SmallCounted /\ reclaim[c] \in Reclaims
      /\ ArrivingMain \in Nat /\ ArrivingSmall \in Nat
      /\ Len(small) \in Nat /\ Len(main) \in Nat
      /\ smallSize \in Int /\ mainSize \in Int /\ failures \in Nat /\ uncounted \in Nat /\ adds \in Nat
      /\ ArrivingMain' = ArrivingMain /\ ArrivingSmall' = ArrivingSmall
      /\ Adding' = Adding
  BY <1>0, Before
<1> DEFINE new == [reclaim[c] EXCEPT !.step = "countMain"]
<1>3. new \in Reclaims /\ new.step = "countMain" /\ new.moved = reclaim[c].moved
  BY <1>1 DEF Reclaims
<1>4. reclaim' = [reclaim EXCEPT ![c] = new]
  BY <1>0
<1> HIDE DEF new
<1>5. /\ reclaim' \in [CPUs -> Reclaims]
      /\ reclaim'[c] = new /\ \A d \in CPUs \ {c} : reclaim'[d] = reclaim[d]
      /\ MovedSmall' \in Nat /\ MovingMain \in Nat
      /\ MovingMain' = MovingMain - Own(reclaim, c, Moving) + Own(reclaim', c, Moving)
  BY <1>1, <1>3, <1>4, GoesOn
<1>6. Own(reclaim, c, Moving) = Own(reclaim', c, Moving) /\ Own(reclaim, c, Moving) \in Nat
  BY <1>0, <1>1, <1>3, <1>5 DEF Own, Moving, Reclaims
<1>7. MovingMain' = MovingMain
  BY <1>5, <1>6
<1>8. AddsCounted' /\ QueuesSound' /\ QueuedOrRecorded'
  BY <1>0, <1>1 DEF AddsCounted, QueuesSound, QueuedOrRecorded, Queued
<1>9. MainCounted'
  BY <1>0, <1>1, <1>7 DEF MainCounted
<1>10. SmallCounted'
  <2>1. 0 <= Len(small) + ArrivingSmall + MovedSmall' + failures + uncounted
    BY <1>1, <1>5
  <2> QED BY <1>0, <1>1, <2>1 DEF SmallCounted
<1>11. ResetGrows'
  BY <1>1, <1>3, <1>5 DEF ResetGrows
<1>12. TypeOK'
  <2>1. 0 \in Int
    OBVIOUS
  <2>2. reclaim' \in [CPUs -> Reclaims] /\ smallSize' \in Int /\ overwritten' \in BOOLEAN
    BY <1>0, <1>5, <2>1
  <2> QED BY ONLY <1>0, <1>1, <2>2 DEF TypeOK, Reclaims
<1> QED BY <1>8, <1>9, <1>10, <1>11, <1>12 DEF IInv

(* main_list_size is raised by what the pass moved to the main queue; left *)
(* negative, it is below what was moved.                                   *)
LEMMA CountMainInv ==
  ASSUME IInv, NEW c \in CPUs, CountMain(c)
  PROVE  IInv'
<1>0. /\ reclaim[c].step = "countMain"
      /\ UNCHANGED <<cached, small, main, meta, hot, ghost, smallSize, adding, adds, failures, uncounted,
                     overwritten>>
      /\ mainSize' = mainSize + reclaim[c].moved
  BY DEF CountMain, At, queues, history, records
<1>1. /\ TypeOK /\ QueuesSound /\ AddsCounted /\ QueuedOrRecorded /\ ResetGrows
      /\ MainCounted /\ SmallCounted /\ reclaim[c] \in Reclaims
      /\ ArrivingMain \in Nat /\ ArrivingSmall \in Nat
      /\ Len(small) \in Nat /\ Len(main) \in Nat
      /\ smallSize \in Int /\ mainSize \in Int /\ failures \in Nat /\ uncounted \in Nat /\ adds \in Nat
      /\ ArrivingMain' = ArrivingMain /\ ArrivingSmall' = ArrivingSmall
      /\ Adding' = Adding
  BY <1>0, Before
<1> DEFINE m == reclaim[c].moved
           reset == [reclaim[c] EXCEPT !.left = mainSize', !.step = "resetMain"]
           new == IF mainSize < 0 THEN reset ELSE Idle
<1>2. m \in Nat /\ mainSize' \in Int /\ mainSize' = mainSize + m
  BY <1>0, <1>1 DEF Reclaims
<1>3. /\ new \in Reclaims /\ new.step \in {"resetMain", "idle"}
      /\ new.step = "resetMain" => new.left < new.moved
  <2>1. /\ reset \in Reclaims /\ reset.step = "resetMain" /\ reset.left = mainSize'
        /\ reset.moved = m
    BY <1>1, <1>2 DEF Reclaims
  <2>2. Idle \in Reclaims /\ Idle.step = "idle"
    BY S3Assumption DEF Idle, Reclaims
  <2>3. mainSize < 0 => mainSize' < m
    BY <1>1, <1>2
  <2> HIDE DEF reset, m
  <2> QED BY <2>1, <2>2, <2>3
<1>4. reclaim' = [reclaim EXCEPT ![c] = new]
  BY DEF CountMain
<1> HIDE DEF new, m
<1>5. /\ reclaim' \in [CPUs -> Reclaims]
      /\ reclaim'[c] = new /\ \A d \in CPUs \ {c} : reclaim'[d] = reclaim[d]
      /\ MovedSmall \in Nat /\ MovingMain \in Nat
      /\ MovedSmall' =
           MovedSmall - Own(reclaim, c, {"countSmall"}) + Own(reclaim', c, {"countSmall"})
      /\ MovingMain' = MovingMain - Own(reclaim, c, Moving) + Own(reclaim', c, Moving)
  BY <1>1, <1>3, <1>4, GoesOn
<1>6. /\ Own(reclaim, c, {"countSmall"}) = 0 /\ Own(reclaim', c, {"countSmall"}) = 0
      /\ Own(reclaim, c, Moving) = m /\ Own(reclaim', c, Moving) = 0
  BY <1>0, <1>3, <1>5 DEF Own, Moving, m
<1>7. MovedSmall' = MovedSmall /\ MovingMain' = MovingMain - m
  BY <1>2, <1>5, <1>6
<1>8. AddsCounted' /\ QueuesSound' /\ QueuedOrRecorded'
  BY <1>0, <1>1 DEF AddsCounted, QueuesSound, QueuedOrRecorded, Queued
<1>9. MainCounted'
  <2>1. SUFFICES ASSUME ~ overwritten
                 PROVE  Len(main) + ArrivingMain <= mainSize' + MovingMain' + uncounted
    BY <1>0, <1>1 DEF MainCounted
  <2>2. Len(main) + ArrivingMain <= mainSize + MovingMain + uncounted
    BY <1>1, <2>1 DEF MainCounted
  <2>3. mainSize \in Int /\ uncounted \in Nat
    BY <1>1
  <2> QED BY <1>2, <1>5, <1>7, <2>2, <2>3
<1>10. SmallCounted'
  BY <1>0, <1>1, <1>7 DEF SmallCounted
<1>11. ResetGrows'
  BY <1>1, <1>3, <1>5 DEF ResetGrows
<1>12. TypeOK'
  BY <1>0, <1>1, <1>2, <1>5 DEF TypeOK, Reclaims
<1> QED BY <1>8, <1>9, <1>10, <1>11, <1>12 DEF IInv

(* main_list_size is reset to what the pass moved, which is more than what *)
(* it was unless another CPU has updated it in between.                    *)
LEMMA ResetMainInv ==
  ASSUME IInv, NEW c \in CPUs, ResetMain(c)
  PROVE  IInv'
<1>0. /\ reclaim[c].step = "resetMain"
      /\ UNCHANGED <<cached, small, main, meta, hot, ghost, smallSize, adding, adds, failures,
                     uncounted>>
      /\ mainSize' = reclaim[c].moved /\ overwritten' \in BOOLEAN
      /\ ~ overwritten' => ~ overwritten /\ mainSize = reclaim[c].left
      /\ reclaim' = [reclaim EXCEPT ![c] = Idle]
  BY DEF ResetMain, At, queues, history, records
<1>1. /\ TypeOK /\ QueuesSound /\ AddsCounted /\ QueuedOrRecorded /\ ResetGrows
      /\ MainCounted /\ SmallCounted /\ reclaim[c] \in Reclaims
      /\ ArrivingMain \in Nat /\ ArrivingSmall \in Nat
      /\ Len(small) \in Nat /\ Len(main) \in Nat
      /\ smallSize \in Int /\ mainSize \in Int /\ failures \in Nat /\ uncounted \in Nat /\ adds \in Nat
      /\ ArrivingMain' = ArrivingMain /\ ArrivingSmall' = ArrivingSmall
      /\ Adding' = Adding
  BY <1>0, Before
<1>2. mainSize' \in Int
  BY <1>0, <1>1 DEF Reclaims
<1>3. Idle \in Reclaims /\ Idle.step = "idle"
  BY S3Assumption DEF Idle, Reclaims
<1>5. /\ reclaim' \in [CPUs -> Reclaims]
      /\ reclaim'[c] = Idle /\ \A d \in CPUs \ {c} : reclaim'[d] = reclaim[d]
      /\ MovedSmall \in Nat /\ MovingMain \in Nat
      /\ MovedSmall' =
           MovedSmall - Own(reclaim, c, {"countSmall"}) + Own(reclaim', c, {"countSmall"})
      /\ MovingMain' = MovingMain - Own(reclaim, c, Moving) + Own(reclaim', c, Moving)
  BY <1>0, <1>1, <1>3, GoesOn
<1>6. /\ Own(reclaim, c, {"countSmall"}) = 0 /\ Own(reclaim', c, {"countSmall"}) = 0
      /\ Own(reclaim, c, Moving) = 0 /\ Own(reclaim', c, Moving) = 0
  BY <1>0, <1>3, <1>5 DEF Own, Moving
<1>7. MovedSmall' = MovedSmall /\ MovingMain' = MovingMain
  BY <1>5, <1>6
<1>8. AddsCounted' /\ QueuesSound' /\ QueuedOrRecorded'
  BY <1>0, <1>1 DEF AddsCounted, QueuesSound, QueuedOrRecorded, Queued
<1>9. MainCounted'
  <2>1. SUFFICES ASSUME ~ overwritten'
                 PROVE  Len(main) + ArrivingMain <= mainSize' + MovingMain + uncounted
    BY <1>0, <1>1, <1>7 DEF MainCounted
  <2>2. Len(main) + ArrivingMain <= mainSize + MovingMain + uncounted
    BY <1>0, <1>1, <2>1 DEF MainCounted
  <2>3. mainSize < mainSize'
    BY <1>0, <1>1, <2>1 DEF ResetGrows
  <2>4. mainSize \in Int /\ Len(main) \in Nat /\ ArrivingMain \in Nat /\ uncounted \in Nat
    BY <1>1
  <2> QED BY <1>2, <1>5, <2>2, <2>3, <2>4
<1>10. SmallCounted'
  BY <1>0, <1>1, <1>7 DEF SmallCounted
<1>11. ResetGrows'
  BY <1>1, <1>3, <1>5 DEF ResetGrows
<1>12. TypeOK'
  BY <1>0, <1>1, <1>2, <1>5 DEF TypeOK, Reclaims
<1> QED BY <1>8, <1>9, <1>10, <1>11, <1>12 DEF IInv

(* Part of the small queue is passed over: no page is lost or queued twice, *)
(* and whoever is marked as in the main queue is moved there.              *)
LEMMA SweepKeeps ==
  ASSUME TypeOK, QueuesSound, NEW busy, NEW n \in 0 .. Len(small), Sweep(n, busy)
  PROVE  /\ small' \in Seq(Pages) /\ main' \in Seq(Pages) /\ IsInjective(small' \o main')
         /\ ToSet(small') \cup ToSet(main') = ToSet(small) \cup ToSet(main)
         /\ ToSet(main) \subseteq ToSet(main')
         /\ Len(small') = Len(small) - Len(MovedOn(n, busy))
         /\ Len(main') = Len(main) + Len(MovedOn(n, busy))
         /\ Len(MovedOn(n, busy)) \in Nat
         /\ DOMAIN meta' = DOMAIN meta
         /\ \A p \in DOMAIN meta :
              /\ meta'[p] \in Metadata /\ (meta'[p].freq > 3 => meta[p].freq > 3)
              /\ meta'[p].inMain => p \in ToSet(main')
<1> DEFINE S == Proposable(busy)
           a == SubSeq(small, 1, n)
           b == SubSeq(small, n + 1, Len(small))
           e == Kept(a, S)
           k == Kept(a, Pages \ S)
<1>1. small \in Seq(Pages) /\ main \in Seq(Pages) /\ IsInjective(small \o main)
  BY DEF TypeOK, QueuesSound
<1>2. /\ small' = b \o e /\ main' = main \o k /\ k = MovedOn(n, busy)
      /\ meta' = [p \in DOMAIN meta |->
                    [meta[p] EXCEPT !.inMain = @ \/ p \in Promoted(ToSet(a), busy)]]
  BY DEF Sweep, MovedOn
<1> HIDE DEF a, b, e, k
<1>3. ASSUME NEW p, p \in Promoted(ToSet(a), busy) PROVE p \in ToSet(a) \ S
  <2>1. p \in ToSet(a) /\ p \in DOMAIN meta /\ meta[p].freq > 1
    BY <1>3 DEF Promoted, Eligible
  <2>2. meta[p].freq \in Int
    BY <2>1, S3Assumption DEF TypeOK, Metadata
  <2>3. p \notin S
    BY <2>1, <2>2 DEF Proposable
  <2> QED BY <2>1, <2>3
<1> HIDE DEF S
<1>4. /\ b \o e \in Seq(Pages) /\ main \o k \in Seq(Pages)
      /\ IsInjective((b \o e) \o (main \o k))
      /\ ToSet(b \o e) \cup ToSet(main \o k) = ToSet(small) \cup ToSet(main)
      /\ ToSet(main) \cup (ToSet(a) \ S) \subseteq ToSet(main \o k)
      /\ Len(small) \in Nat /\ Len(main) \in Nat /\ Len(k) \in Nat
      /\ Len(b \o e) = Len(small) - Len(k) /\ Len(main \o k) = Len(main) + Len(k)
  <2>1. Passed(small, main, n, S)
    BY <1>1, PassedPages
  <2> QED BY <2>1 DEF Passed, a, b, e, k
<1>5. /\ small' \in Seq(Pages) /\ main' \in Seq(Pages) /\ IsInjective(small' \o main')
      /\ ToSet(small') \cup ToSet(main') = ToSet(small) \cup ToSet(main)
      /\ ToSet(main) \subseteq ToSet(main') /\ ToSet(a) \ S \subseteq ToSet(main')
      /\ Len(small') = Len(small) - Len(k) /\ Len(main') = Len(main) + Len(k)
      /\ Len(k) \in Nat
  BY <1>2, <1>4
<1>6. DOMAIN meta' = DOMAIN meta
  BY <1>2
<1>7. ASSUME NEW p \in DOMAIN meta
      PROVE  /\ meta'[p] \in Metadata /\ (meta'[p].freq > 3 => meta[p].freq > 3)
             /\ meta'[p].inMain => p \in ToSet(main')
  <2>1. /\ meta[p] \in Metadata /\ (meta[p].inMain => p \in ToSet(main'))
    BY <1>5 DEF TypeOK, QueuesSound
  <2>2. meta'[p] = [meta[p] EXCEPT !.inMain = @ \/ p \in Promoted(ToSet(a), busy)]
    BY <1>2
  <2>3. CASE p \in Promoted(ToSet(a), busy)
    <3>1. p \in ToSet(main')
      BY <1>3, <1>5, <2>3
    <3>2. meta'[p] = [meta[p] EXCEPT !.inMain = TRUE]
      BY <2>2, <2>3
    <3> QED BY <2>1, <3>1, <3>2 DEF Metadata
  <2>4. CASE p \notin Promoted(ToSet(a), busy)
    <3>1. (meta[p].inMain \/ p \in Promoted(ToSet(a), busy)) = meta[p].inMain
      BY <2>1, <2>4 DEF Metadata
    <3>2. meta'[p] = [meta[p] EXCEPT !.inMain = meta[p].inMain]
      BY <2>2, <3>1
    <3> QED BY <2>1, <3>2 DEF Metadata
  <2> QED BY <2>3, <2>4
<1> QED BY <1>2, <1>5, <1>6, <1>7

(* What the queues and marks need holds after it.                          *)
LEMMA SweepInv ==
  ASSUME IInv, NEW busy, NEW n \in 0 .. Len(small), Sweep(n, busy), NEW c \in CPUs,
         NEW new \in Reclaims, reclaim' = [reclaim EXCEPT ![c] = new], new.step # "resetMain",
         uncounted' \in Nat, UNCHANGED <<cached, hot, ghost, smallSize, mainSize, adding, adds,
                                         failures, overwritten>>
  PROVE  TypeOK' /\ QueuesSound' /\ AddsCounted' /\ QueuedOrRecorded' /\ ResetGrows'
<1>1. /\ TypeOK /\ QueuesSound /\ AddsCounted /\ QueuedOrRecorded /\ ResetGrows
      /\ Adding' = Adding
  BY Before
<1>2. /\ small' \in Seq(Pages) /\ main' \in Seq(Pages) /\ IsInjective(small' \o main')
      /\ ToSet(small') \cup ToSet(main') = ToSet(small) \cup ToSet(main)
      /\ ToSet(main) \subseteq ToSet(main')
      /\ DOMAIN meta' = DOMAIN meta
      /\ \A p \in DOMAIN meta :
           /\ meta'[p] \in Metadata /\ (meta'[p].freq > 3 => meta[p].freq > 3)
           /\ meta'[p].inMain => p \in ToSet(main')
  BY <1>1, SweepKeeps
<1>3. /\ reclaim' \in [CPUs -> Reclaims]
      /\ reclaim'[c] = new /\ \A d \in CPUs \ {c} : reclaim'[d] = reclaim[d]
  BY <1>1, GoesOn
<1>4. AddsCounted'
  BY <1>1 DEF AddsCounted
<1>5. QueuesSound'
  BY <1>1, <1>2 DEF QueuesSound, Queued
<1>6. QueuedOrRecorded'
  BY <1>1, <1>2 DEF QueuedOrRecorded, Queued
<1>7. ResetGrows'
  BY <1>1, <1>3 DEF ResetGrows
<1>8. TypeOK'
  <2>1. \A p \in DOMAIN meta' : meta'[p] \in Metadata /\ (meta'[p].freq > 3 => p \in hot')
    BY <1>1, <1>2 DEF TypeOK
  <2> QED BY <1>1, <1>2, <1>3, <2>1 DEF TypeOK, Reclaims
<1> QED BY <1>4, <1>5, <1>6, <1>7, <1>8

(* A pass over the small queue: pages change queues before the counters    *)
(* follow.                                                                 *)
LEMMA PassSmallInv ==
  ASSUME IInv, NEW c \in CPUs, PassSmall(c)
  PROVE  IInv'
<1>0. /\ reclaim[c].step = "small"
      /\ UNCHANGED <<cached, hot, ghost, smallSize, mainSize, adding, adds, failures, uncounted,
                     overwritten>>
  BY DEF PassSmall, At, sizes, history
<1>1. /\ TypeOK /\ QueuesSound /\ MainCounted /\ SmallCounted /\ reclaim[c] \in Reclaims
      /\ ArrivingMain \in Nat /\ ArrivingSmall \in Nat
      /\ Len(small) \in Nat /\ Len(main) \in Nat
      /\ smallSize \in Int /\ mainSize \in Int /\ failures \in Nat /\ uncounted \in Nat
      /\ ArrivingMain' = ArrivingMain /\ ArrivingSmall' = ArrivingSmall
  BY <1>0, Before
<1>2. PICK busy \in SUBSET ToSet(small) :
        LET n == Visited(small, Proposable(busy), reclaim[c].need)
        IN  /\ Sweep(n, busy)
            /\ reclaim' = [reclaim EXCEPT ![c].step = "countSmall",
                                          ![c].moved = Len(MovedOn(n, busy))]
  BY DEF PassSmall
<1> DEFINE n == Visited(small, Proposable(busy), reclaim[c].need)
           m == Len(MovedOn(n, busy))
           new == [reclaim[c] EXCEPT !.step = "countSmall", !.moved = m]
<1>3. n \in 0 .. Len(small)
  <2>1. reclaim[c].need \in Nat /\ small \in Seq(Pages)
    BY <1>1, S3Assumption DEF Reclaims, TypeOK
  <2> QED BY <2>1, VisitedPart
<1>4. Sweep(n, busy) /\ reclaim' = [reclaim EXCEPT ![c] = new]
  BY <1>2
<1> HIDE DEF n
<1>5. m \in Nat /\ Len(small') = Len(small) - m /\ Len(main') = Len(main) + m
  BY <1>1, <1>3, <1>4, SweepKeeps
<1> HIDE DEF m
<1>6. new \in Reclaims /\ new.step = "countSmall" /\ new.moved = m
  BY <1>1, <1>5 DEF Reclaims
<1> HIDE DEF new
<1>7. TypeOK' /\ QueuesSound' /\ AddsCounted' /\ QueuedOrRecorded' /\ ResetGrows'
  BY <1>0, <1>1, <1>3, <1>4, <1>6, SweepInv
<1>14. /\ reclaim'[c] = new
       /\ MovedSmall \in Nat /\ MovingMain \in Nat
       /\ MovedSmall' =
            MovedSmall - Own(reclaim, c, {"countSmall"}) + Own(reclaim', c, {"countSmall"})
       /\ MovingMain' = MovingMain - Own(reclaim, c, Moving) + Own(reclaim', c, Moving)
  BY <1>1, <1>4, <1>6, GoesOn
<1>15. /\ Own(reclaim, c, {"countSmall"}) = 0 /\ Own(reclaim', c, {"countSmall"}) = m
       /\ Own(reclaim, c, Moving) = 0 /\ Own(reclaim', c, Moving) = m
  BY <1>0, <1>6, <1>14 DEF Own, Moving
<1>16. MovedSmall' = MovedSmall + m /\ MovingMain' = MovingMain + m
  BY <1>5, <1>14, <1>15
<1>17. MainCounted'
  <2>1. SUFFICES ASSUME ~ overwritten
                 PROVE  Len(main') + ArrivingMain <= mainSize + MovingMain' + uncounted
    BY <1>0, <1>1 DEF MainCounted
  <2>2. Len(main) + ArrivingMain <= mainSize + MovingMain + uncounted
    BY <1>1, <2>1 DEF MainCounted
  <2>3. mainSize \in Int /\ Len(main) \in Nat /\ ArrivingMain \in Nat /\ uncounted \in Nat
    BY <1>1
  <2> QED BY <1>5, <1>14, <1>16, <2>2, <2>3
<1>18. SmallCounted'
  <2>1. smallSize <= Len(small) + ArrivingSmall + MovedSmall + failures + uncounted
    BY <1>1 DEF SmallCounted
  <2>2. /\ smallSize \in Int /\ Len(small) \in Nat /\ ArrivingSmall \in Nat /\ failures \in Nat
        /\ uncounted \in Nat
    BY <1>1
  <2>3. smallSize <= Len(small') + ArrivingSmall + MovedSmall' + failures + uncounted
    BY <1>5, <1>14, <1>16, <2>1, <2>2
  <2> QED BY <1>0, <1>1, <2>3 DEF SmallCounted
<1> QED BY <1>7, <1>17, <1>18 DEF IInv

(* A pass over the small queue fails: what it moved stays uncounted.       *)
LEMMA SmallFailsInv ==
  ASSUME IInv, NEW c \in CPUs, SmallFails(c)
  PROVE  IInv'
<1>0. /\ reclaim[c].step = "small" /\ reclaim' = [reclaim EXCEPT ![c] = Idle]
      /\ UNCHANGED <<cached, hot, ghost, smallSize, mainSize, adding, adds, failures, overwritten>>
  BY DEF SmallFails, At, sizes
<1>1. /\ TypeOK /\ QueuesSound /\ MainCounted /\ SmallCounted /\ reclaim[c] \in Reclaims
      /\ ArrivingMain \in Nat /\ ArrivingSmall \in Nat
      /\ Len(small) \in Nat /\ Len(main) \in Nat
      /\ smallSize \in Int /\ mainSize \in Int /\ failures \in Nat /\ uncounted \in Nat
      /\ ArrivingMain' = ArrivingMain /\ ArrivingSmall' = ArrivingSmall
  BY <1>0, Before
<1>2. PICK busy \in SUBSET ToSet(small) :
        \E n \in 0 .. Visited(small, Proposable(busy), reclaim[c].need) :
          Sweep(n, busy) /\ uncounted' = uncounted + Len(MovedOn(n, busy))
  BY DEF SmallFails
<1>3. PICK n \in 0 .. Visited(small, Proposable(busy), reclaim[c].need) :
        Sweep(n, busy) /\ uncounted' = uncounted + Len(MovedOn(n, busy))
  BY <1>2
<1>4. n \in 0 .. Len(small)
  <2>1. reclaim[c].need \in Nat /\ small \in Seq(Pages)
    BY <1>1, S3Assumption DEF Reclaims, TypeOK
  <2>2. Visited(small, Proposable(busy), reclaim[c].need) \in 0 .. Len(small)
    BY <2>1, VisitedPart
  <2> QED BY <1>1, <2>2
<1> DEFINE m == Len(MovedOn(n, busy))
<1>5. m \in Nat /\ Len(small') = Len(small) - m /\ Len(main') = Len(main) + m
  BY <1>1, <1>3, <1>4, SweepKeeps
<1>6. uncounted' = uncounted + m
  BY <1>3
<1> HIDE DEF m
<1>7. Idle \in Reclaims /\ Idle.step = "idle"
  BY S3Assumption DEF Idle, Reclaims
<1>8. TypeOK' /\ QueuesSound' /\ AddsCounted' /\ QueuedOrRecorded' /\ ResetGrows'
  <2>1. uncounted' \in Nat /\ Idle.step # "resetMain"
    BY <1>1, <1>5, <1>6, <1>7
  <2> QED BY <1>0, <1>3, <1>4, <1>7, <2>1, SweepInv
<1>9. /\ reclaim'[c] = Idle /\ MovedSmall \in Nat /\ MovingMain \in Nat
      /\ MovedSmall' =
           MovedSmall - Own(reclaim, c, {"countSmall"}) + Own(reclaim', c, {"countSmall"})
      /\ MovingMain' = MovingMain - Own(reclaim, c, Moving) + Own(reclaim', c, Moving)
  BY <1>0, <1>1, <1>7, GoesOn
<1>10. /\ Own(reclaim, c, {"countSmall"}) = 0 /\ Own(reclaim', c, {"countSmall"}) = 0
       /\ Own(reclaim, c, Moving) = 0 /\ Own(reclaim', c, Moving) = 0
  BY <1>0, <1>7, <1>9 DEF Own, Moving
<1>11. MovedSmall' = MovedSmall /\ MovingMain' = MovingMain
  BY <1>9, <1>10
<1>12. MainCounted'
  <2>1. SUFFICES ASSUME ~ overwritten
                 PROVE  Len(main') + ArrivingMain <= mainSize + MovingMain + uncounted'
    BY <1>0, <1>1, <1>11 DEF MainCounted
  <2>2. Len(main) + ArrivingMain <= mainSize + MovingMain + uncounted
    BY <1>1, <2>1 DEF MainCounted
  <2>3. mainSize \in Int /\ Len(main) \in Nat /\ ArrivingMain \in Nat /\ uncounted \in Nat
    BY <1>1
  <2> QED BY <1>5, <1>6, <1>9, <2>2, <2>3
<1>13. SmallCounted'
  <2>1. smallSize <= Len(small) + ArrivingSmall + MovedSmall + failures + uncounted
    BY <1>1 DEF SmallCounted
  <2>2. /\ smallSize \in Int /\ Len(small) \in Nat /\ ArrivingSmall \in Nat /\ failures \in Nat
        /\ uncounted \in Nat
    BY <1>1
  <2>3. smallSize <= Len(small') + ArrivingSmall + MovedSmall + failures + uncounted'
    BY <1>5, <1>6, <1>9, <2>1, <2>2
  <2> QED BY <1>0, <1>1, <1>11, <2>3 DEF SmallCounted
<1> QED BY <1>8, <1>12, <1>13 DEF IInv

(* A pass over the main queue turns and cools it, and changes no count,    *)
(* whether it comes to its end or fails.                                   *)
LEMMA TurnInv ==
  ASSUME IInv, NEW c \in CPUs, reclaim[c].step = "main", NEW busy, NEW n \in 0 .. Len(main),
         Turn(n, busy), NEW new \in Reclaims, new.step \in {"main", "idle"},
         reclaim' = [reclaim EXCEPT ![c] = new],
         UNCHANGED <<cached, small, hot, ghost, smallSize, mainSize, adding, adds, failures,
                     uncounted, overwritten>>
  PROVE  IInv'
<1>0. UNCHANGED <<cached, small, hot, ghost, smallSize, mainSize, adding, adds, failures,
                  uncounted, overwritten>>
  OBVIOUS
<1>1. /\ TypeOK /\ QueuesSound /\ AddsCounted /\ QueuedOrRecorded /\ ResetGrows
      /\ MainCounted /\ SmallCounted
      /\ ArrivingMain' = ArrivingMain /\ ArrivingSmall' = ArrivingSmall
      /\ Adding' = Adding
  BY Before
<1> DEFINE a == SubSeq(main, 1, n)
           b == SubSeq(main, n + 1, Len(main))
<1>3. small \in Seq(Pages) /\ main \in Seq(Pages) /\ IsInjective(small \o main)
  BY <1>1 DEF TypeOK, QueuesSound
<1>5. /\ main' = b \o a
      /\ meta' = [p \in DOMAIN meta |-> IF p \in ToSet(a) \ busy THEN Cooled(p) ELSE meta[p]]
  BY DEF Turn
<1> HIDE DEF a, b
<1>6. /\ main' \in Seq(Pages) /\ IsInjective(small \o main') /\ ToSet(main') = ToSet(main)
      /\ Len(main') = Len(main)
  <2>1. Turned(small, main, n)
    BY <1>3, TurnedPages
  <2>2. /\ b \o a \in Seq(Pages) /\ IsInjective(small \o (b \o a)) /\ ToSet(b \o a) = ToSet(main)
        /\ Len(b \o a) = Len(main)
    BY <2>1 DEF Turned, a, b
  <2> QED BY <1>5, <2>2
<1>7. /\ DOMAIN meta' = DOMAIN meta
      /\ \A p \in DOMAIN meta : meta'[p] \in Metadata /\ meta'[p].inMain = meta[p].inMain
      /\ \A p \in DOMAIN meta : meta'[p].freq > 3 => p \in hot
  <2>1. DOMAIN meta' = DOMAIN meta
    BY <1>5
  <2>2. ASSUME NEW p \in DOMAIN meta
        PROVE  /\ Cooled(p) \in Metadata /\ Cooled(p).inMain = meta[p].inMain
               /\ Cooled(p).freq > 3 => p \in hot
    <3>1. meta[p] \in Metadata /\ (meta[p].freq > 3 => p \in hot)
      BY <1>1 DEF TypeOK
    <3> DEFINE f == IF meta[p].freq > FreqFloor THEN meta[p].freq - 1 ELSE meta[p].freq
    <3>2. f \in FreqFloor .. 4 /\ (f > 3 => meta[p].freq > 3)
      BY <3>1, S3Assumption DEF Metadata
    <3>3. Cooled(p) = [meta[p] EXCEPT !.freq = f]
      BY DEF Cooled
    <3> HIDE DEF f
    <3> QED BY <3>1, <3>2, <3>3 DEF Metadata
  <2>3. \A p \in DOMAIN meta : meta[p] \in Metadata /\ (meta[p].freq > 3 => p \in hot)
    BY <1>1 DEF TypeOK
  <2>4. \A p \in DOMAIN meta : meta'[p] = Cooled(p) \/ meta'[p] = meta[p]
    BY <1>5
  <2> QED BY <2>1, <2>2, <2>3, <2>4
<1>9. /\ reclaim' \in [CPUs -> Reclaims]
      /\ reclaim'[c] = new /\ \A d \in CPUs \ {c} : reclaim'[d] = reclaim[d]
      /\ MovedSmall \in Nat /\ MovingMain \in Nat
      /\ MovedSmall' =
           MovedSmall - Own(reclaim, c, {"countSmall"}) + Own(reclaim', c, {"countSmall"})
      /\ MovingMain' = MovingMain - Own(reclaim, c, Moving) + Own(reclaim', c, Moving)
  BY <1>1, GoesOn
<1>10. /\ Own(reclaim, c, {"countSmall"}) = 0 /\ Own(reclaim', c, {"countSmall"}) = 0
       /\ Own(reclaim, c, Moving) = 0 /\ Own(reclaim', c, Moving) = 0
  BY <1>9 DEF Own, Moving
<1>11. MovedSmall' = MovedSmall /\ MovingMain' = MovingMain
  BY <1>9, <1>10
<1>12. AddsCounted'
  BY <1>1 DEF AddsCounted
<1>13. QueuesSound'
  <2>1. IsInjective(small' \o main')
    BY ONLY <1>0, <1>6
  <2>2. \A p \in DOMAIN meta : Queued(p) /\ (meta[p].inMain => p \in ToSet(main))
    BY <1>1 DEF QueuesSound
  <2>3. ToSet(small') = ToSet(small) /\ ToSet(main') = ToSet(main)
    BY ONLY <1>0, <1>6
  <2>4. DOMAIN meta' = DOMAIN meta /\ \A p \in DOMAIN meta : meta'[p].inMain = meta[p].inMain
    BY ONLY <1>7
  <2> QED BY ONLY <2>1, <2>2, <2>3, <2>4 DEF QueuesSound, Queued
<1>14. QueuedOrRecorded'
  BY <1>1, <1>6, <1>7 DEF QueuedOrRecorded, Queued
<1>15. MainCounted'
  BY <1>1, <1>6, <1>11 DEF MainCounted
<1>16. SmallCounted'
  BY <1>1, <1>11 DEF SmallCounted
<1>17. ResetGrows'
  BY <1>1, <1>9 DEF ResetGrows
<1>18. TypeOK'
  <2>1. /\ DOMAIN meta' \subseteq cached' /\ hot' \subseteq DOMAIN meta'
        /\ \A p \in DOMAIN meta' : meta'[p] \in Metadata /\ (meta'[p].freq > 3 => p \in hot')
    <3>1. DOMAIN meta \subseteq cached /\ hot \subseteq DOMAIN meta
      BY <1>1 DEF TypeOK
    <3>2. DOMAIN meta' = DOMAIN meta /\ cached' = cached /\ hot' = hot
      BY <1>7
    <3>3. \A p \in DOMAIN meta : meta'[p] \in Metadata /\ (meta'[p].freq > 3 => p \in hot)
      BY ONLY <1>7
    <3> QED BY ONLY <3>1, <3>2, <3>3
  <2> QED BY ONLY <1>0, <1>1, <1>6, <1>9, <2>1 DEF TypeOK, Reclaims
<1> QED BY <1>12, <1>13, <1>14, <1>15, <1>16, <1>17, <1>18 DEF IInv

(* The next pass of evict_main has less to ask for, if there is one.       *)
LEMMA PassMainInv ==
  ASSUME IInv, NEW c \in CPUs, PassMain(c)
  PROVE  IInv'
<1>0. /\ reclaim[c].step = "main"
      /\ UNCHANGED <<cached, small, hot, ghost, smallSize, mainSize, adding, adds, failures,
                     uncounted, overwritten>>
  BY DEF PassMain, At, sizes, history
<1>1. TypeOK /\ reclaim[c] \in Reclaims
  BY <1>0, Before
<1>2. PICK busy \in SUBSET ToSet(main) :
        LET S    == Cold(reclaim[c].pass, busy)
            n    == Visited(main, S, reclaim[c].need)
            need == reclaim[c].need - Proposed(main, n, S)
        IN  /\ Turn(n, busy)
            /\ reclaim' = [reclaim EXCEPT ![c] =
                 IF need = 0 \/ reclaim[c].pass = 3 THEN Idle
                 ELSE [@ EXCEPT !.need = need, !.pass = reclaim[c].pass + 1]]
  BY DEF PassMain
<1> DEFINE S == Cold(reclaim[c].pass, busy)
           n == Visited(main, S, reclaim[c].need)
           need == reclaim[c].need - Proposed(main, n, S)
           again == [reclaim[c] EXCEPT !.need = need, !.pass = reclaim[c].pass + 1]
           new == IF need = 0 \/ reclaim[c].pass = 3 THEN Idle ELSE again
<1>4. n \in 0 .. Len(main) /\ need \in 0 .. MaxRequest
  <2>1. /\ reclaim[c].need \in 0 .. MaxRequest /\ reclaim[c].need \in Nat
        /\ main \in Seq(Pages)
    BY <1>1, S3Assumption DEF Reclaims, TypeOK
  <2> HIDE DEF S
  <2>2. n \in 0 .. Len(main) /\ Proposed(main, n, S) \in 0 .. reclaim[c].need
    BY <2>1, VisitedPart
  <2> HIDE DEF n
  <2> QED BY <2>1, <2>2, S3Assumption
<1>5. Turn(n, busy) /\ reclaim' = [reclaim EXCEPT ![c] = new]
  BY <1>2
<1> HIDE DEF S, n, need
<1>8. new \in Reclaims /\ new.step \in {"main", "idle"}
  <2>1. Idle \in Reclaims /\ Idle.step = "idle"
    BY S3Assumption DEF Idle, Reclaims
  <2>2. CASE reclaim[c].pass = 3
    <3>1. new = Idle
      BY <2>2
    <3> QED BY <2>1, <3>1
  <2>3. CASE reclaim[c].pass # 3
    <3> DEFINE pass == reclaim[c].pass + 1
    <3>1. pass \in 0 .. 3
      BY <1>1, <2>3 DEF Reclaims
    <3> HIDE DEF pass
    <3>2. [reclaim[c] EXCEPT !.need = need, !.pass = pass] \in Reclaims
      BY <1>1, <1>4, <3>1 DEF Reclaims
    <3>3. again \in Reclaims
      BY <3>2 DEF pass
    <3>4. again.step = "main"
      BY <1>0, <1>1 DEF Reclaims
    <3>5. new = Idle \/ new = again
      OBVIOUS
    <3> HIDE DEF again, new
    <3> QED BY <2>1, <3>3, <3>4, <3>5
  <2> QED BY <2>2, <2>3
<1> HIDE DEF new
<1> QED BY <1>0, <1>4, <1>5, <1>8, TurnInv

(* A pass over the main queue fails, and the others are not made.          *)
LEMMA MainFailsInv ==
  ASSUME IInv, NEW c \in CPUs, MainFails(c)
  PROVE  IInv'
<1>0. /\ reclaim[c].step = "main" /\ reclaim' = [reclaim EXCEPT ![c] = Idle]
      /\ UNCHANGED <<cached, small, hot, ghost, smallSize, mainSize, adding, adds, failures,
                     uncounted, overwritten>>
  BY DEF MainFails, At, sizes, history
<1>1. TypeOK /\ reclaim[c] \in Reclaims
  BY <1>0, Before
<1>2. PICK busy \in SUBSET ToSet(main) :
        \E n \in 0 .. Visited(main, Cold(reclaim[c].pass, busy), reclaim[c].need) : Turn(n, busy)
  BY DEF MainFails
<1>3. PICK n \in 0 .. Visited(main, Cold(reclaim[c].pass, busy), reclaim[c].need) : Turn(n, busy)
  BY <1>2
<1>4. n \in 0 .. Len(main)
  <2>1. reclaim[c].need \in Nat /\ main \in Seq(Pages) /\ Len(main) \in Nat
    BY <1>1, S3Assumption DEF Reclaims, TypeOK
  <2>2. Visited(main, Cold(reclaim[c].pass, busy), reclaim[c].need) \in 0 .. Len(main)
    BY <2>1, VisitedPart
  <2> QED BY <2>1, <2>2
<1>5. Idle \in Reclaims /\ Idle.step \in {"main", "idle"}
  BY S3Assumption DEF Idle, Reclaims
<1> QED BY <1>0, <1>3, <1>4, <1>5, TurnInv

(* Nothing happens.                                                        *)
LEMMA StutterInv ==
  ASSUME IInv, UNCHANGED vars
  PROVE  IInv'
<1>0. /\ TypeOK /\ QueuesSound /\ AddsCounted /\ QueuedOrRecorded /\ ResetGrows
      /\ MainCounted /\ SmallCounted
      /\ UNCHANGED <<cached, small, main, meta, hot, ghost, smallSize, mainSize, adding, reclaim,
                     adds, failures, uncounted, overwritten>>
  BY DEF IInv, vars, queues, sizes, history, records
<1>1. AddsCounted' /\ MainCounted' /\ SmallCounted'
  BY <1>0, CountsKept
<1>2. TypeOK'
  BY <1>0 DEF TypeOK
<1>3. QueuesSound' /\ QueuedOrRecorded' /\ ResetGrows'
  BY <1>0 DEF QueuesSound, QueuedOrRecorded, ResetGrows, Queued
<1> QED BY <1>1, <1>2, <1>3 DEF IInv

(* Every step of every CPU and page keeps the invariant.                   *)
LEMMA NextInv == IInv /\ [Next]_vars => IInv'
<1> SUFFICES ASSUME IInv, [Next]_vars PROVE IInv'
  OBVIOUS
<1>1. ASSUME NEW c \in CPUs, Reclaim(c) PROVE IInv'
  BY <1>1, ChooseInv, PassSmallInv, SmallFailsInv, CountSmallInv, ResetSmallInv, CountMainInv,
     ResetMainInv, PassMainInv, MainFailsInv DEF Reclaim
<1>2. ASSUME NEW p \in Pages, Count(p) \/ Add(p) \/ Accessed(p) \/ Cap(p) \/ Evicted(p) PROVE IInv'
  BY <1>2, CountInv, EnqueueInv, RecordInv, RecordFailsInv, AccessedInv, CapInv,
     EvictedInv DEF Add
<1> QED BY <1>1, <1>2, StutterInv DEF Next

(* The inductive invariant of the seed policy s3_fifo.c, for any number of *)
(* pages, CPUs, additions and failures.                                    *)
THEOREM S3Invariant == Spec => []IInv
  BY InitInv, NextInv, PTL DEF Spec

(* The queues, maps, counters and calls under way have their types: no more *)
(* additions fail than were made, and only cached pages are recorded.      *)
THEOREM S3TypeCorrect == Spec => []TypeOK
<1>1. IInv => TypeOK
  BY DEF IInv
<1> QED BY <1>1, S3Invariant, PTL

(* Every recorded page is on exactly one queue, once, and on the main one if *)
(* it is marked so, whatever callbacks interleave (evict_small, folio_added). *)
THEOREM QueuesStaySound == Spec => []QueuesSound
<1>1. IInv => QueuesSound
  BY DEF IInv
<1> QED BY <1>1, S3Invariant, PTL

(* small_list_size exceeds the small queue by the failed additions and the *)
(* pages that failed passes moved at most, and main_list_size falls short  *)
(* of the main queue by those pages at most while no reset of evict_small  *)
(* has undone a concurrent update, wherever passes fail.                   *)
THEOREM SizesStayBounded == Spec => []SizesBound
<1>1. ASSUME IInv PROVE SizesBound
  <2>1. TypeOK /\ MainCounted /\ SmallCounted
    BY <1>1 DEF IInv
  <2>2. /\ MovingMain \in Nat /\ ArrivingMain \in Nat /\ Len(main) \in Nat /\ mainSize \in Int
        /\ uncounted \in Nat
    BY <2>1, CountsAreNumbers
  <2>3. smallSize <= Len(small) + Arriving(FALSE) + Moved({"countSmall"}) + failures + uncounted
    BY <2>1 DEF SmallCounted, ArrivingSmall, MovedSmall
  <2>4. ASSUME ~ overwritten PROVE Len(main) <= mainSize + MovingMain + uncounted
    <3>1. Len(main) + ArrivingMain <= mainSize + MovingMain + uncounted
      BY <2>1, <2>4 DEF MainCounted
    <3> QED BY <2>2, <3>1
  <2> QED BY <2>3, <2>4 DEF SizesBound, MovingMain, Moving
<1> QED BY <1>1, S3Invariant, PTL
=============================================================================
