-------------------------- MODULE KernelListsProofs --------------------------
(***************************************************************************)
(* What unlinking entries does to a list, for every list and every set of  *)
(* entries. The proofs are by induction on the length of the list; the     *)
(* induction comes from the well-foundedness of strict inclusion of finite *)
(* sets, as the existence of a least counterexample.                       *)
(***************************************************************************)
EXTENDS KernelLists, Integers, FiniteSetTheorems, WellFoundedInduction, TLAPS

(* Every set of numbers that is not empty has a least member. *)
LEMMA LeastNumber ==
  ASSUME NEW S \in SUBSET Nat, S # {}
  PROVE  \E m \in S : \A n \in S : m <= n
<1> DEFINE T == {1..n : n \in S}
<1>0. ASSUME NEW n \in Nat PROVE 1..n \in FiniteSubsetsOf(Nat)
  <2>1. 1 \in Int /\ n \in Int  OBVIOUS
  <2>2. IsFiniteSet(1..n)
    BY <2>1, FS_Interval
  <2>3. 1..n \in SUBSET Nat OBVIOUS
  <2> QED BY <2>2, <2>3 DEF FiniteSubsetsOf
<1>1. T \subseteq FiniteSubsetsOf(Nat) /\ T # {}
  BY <1>0
<1>2. \E x \in T : \A y \in T : <<y, x>> \notin StrictSubsetOrdering(Nat)
  <2> HIDE DEF T
  <2> QED BY <1>1, FS_StrictSubsetOrderingWellFounded, WFMin, Zenon
<1>3. PICK m \in S : \A n \in S : <<1..n, 1..m>> \notin StrictSubsetOrdering(Nat)
  BY <1>2
<1>4. ASSUME NEW n \in S, n < m PROVE FALSE
  <2>1. 1..n \subseteq 1..m /\ 1..n # 1..m
    BY <1>4
  <2>2. 1..n \in SUBSET Nat /\ 1..m \in SUBSET Nat OBVIOUS
  <2>3. 1..n \in FiniteSubsetsOf(Nat) /\ 1..m \in FiniteSubsetsOf(Nat)
     BY <1>0
  <2>. QED  BY <1>3, <2>1, <2>2, <2>3 DEF StrictSubsetOrdering
<1>. QED  BY <1>4

(* g is the function kept of Without, up to n. *)
KeptUpTo(s, ws, g, n) ==
  g = [i \in 0..n |-> IF i = 0 THEN <<>>
                      ELSE IF s[i] \in ws THEN g[i - 1] ELSE Append(g[i - 1], s[i])]

(* The recursive equation of Without has a solution, whatever its length. *)
LEMMA PrefixesExist ==
  ASSUME NEW s, NEW ws, NEW n \in Nat
  PROVE  \E g : KeptUpTo(s, ws, g, n)
<1> DEFINE Bad == {m \in Nat : ~\E g : KeptUpTo(s, ws, g, m)}
<1> SUFFICES ASSUME n \in Bad PROVE FALSE
  OBVIOUS
<1>1. PICK m \in Bad : \A k \in Bad : m <= k
  BY LeastNumber
<1>2. m # 0
  <2> DEFINE g0 == [i \in 0..0 |-> <<>>]
  <2>1. KeptUpTo(s, ws, g0, 0)
    BY DEF KeptUpTo
  <2> QED BY <2>1
<1>3. m - 1 \in Nat /\ m - 1 \notin Bad
  BY <1>1, <1>2
<1>4. PICK g : KeptUpTo(s, ws, g, m - 1)
  BY <1>3
<1> DEFINE h == [i \in 0..m |-> IF i < m THEN g[i]
                                ELSE IF s[m] \in ws THEN g[m - 1]
                                ELSE Append(g[m - 1], s[m])]
<1>5. KeptUpTo(s, ws, h, m)
  <2> SUFFICES ASSUME NEW i \in 0..m
               PROVE  h[i] = IF i = 0 THEN <<>>
                             ELSE IF s[i] \in ws THEN h[i - 1]
                             ELSE Append(h[i - 1], s[i])
    BY DEF KeptUpTo
  <2>1. CASE i = 0
    BY <2>1, <1>2, <1>3, <1>4 DEF KeptUpTo
  <2>2. CASE i # 0
    <3>1. i - 1 \in 0..m /\ i - 1 < m /\ h[i - 1] = g[i - 1]
      BY <2>2
    <3>2. CASE i = m
      BY <3>1, <3>2
    <3>3. CASE i < m
      <4>1. i \in 0..(m - 1)
        BY <3>3
      <4> QED BY <4>1, <3>1, <3>3, <2>2, <1>4 DEF KeptUpTo
    <3> QED BY <3>2, <3>3
  <2> QED BY <2>1, <2>2
<1> QED BY <1>5

(* So the definition of Without means what it says. *)
LEMMA WithoutIsLastPrefix ==
  ASSUME NEW s, NEW ws, Len(s) \in Nat
  PROVE  \E g : KeptUpTo(s, ws, g, Len(s)) /\ Without(s, ws) = g[Len(s)]
<1> DEFINE kept[i \in 0..Len(s)] ==
        IF i = 0 THEN <<>>
        ELSE IF s[i] \in ws THEN kept[i - 1] ELSE Append(kept[i - 1], s[i])
<1>1. Without(s, ws) = kept[Len(s)]
  BY DEF Without
<1>2. KeptUpTo(s, ws, kept, Len(s))
  <2>1. \E g : KeptUpTo(s, ws, g, Len(s))
    BY PrefixesExist
  <2> QED BY <2>1 DEF kept, KeptUpTo
<1> QED BY <1>1, <1>2

-----------------------------------------------------------------------------
(* Two entries of r are in the order they had among the first n of s. *)
Ordered(r, s, n) ==
  \A i, j \in 1..Len(r) : i < j =>
     \E a, b \in 1..n : a < b /\ r[i] = s[a] /\ r[j] = s[b]

(* r is what the first n entries of s are without those of ws. *)
Filters(r, s, ws, n) ==
  /\ Len(r) <= n
  /\ \A i \in 1..Len(r) : r[i] \notin ws /\ \E a \in 1..n : r[i] = s[a]
  /\ \A a \in 1..n : s[a] \notin ws => \E i \in 1..Len(r) : r[i] = s[a]
  /\ Ordered(r, s, n)

(* One turn of the recursion. *)
LEMMA AppendFilters ==
  ASSUME NEW S, NEW r \in Seq(S), NEW s, NEW ws, NEW n \in Nat,
         Filters(r, s, ws, n), s[n + 1] \in S
  PROVE  /\ s[n + 1] \in ws => Filters(r, s, ws, n + 1)
         /\ s[n + 1] \notin ws => Filters(Append(r, s[n + 1]), s, ws, n + 1)
<1>1. ASSUME s[n + 1] \in ws PROVE Filters(r, s, ws, n + 1)
  <2>1. Len(r) <= n + 1
    BY DEF Filters
  <2>2. ASSUME NEW i \in 1..Len(r)
        PROVE  r[i] \notin ws /\ \E a \in 1..(n + 1) : r[i] = s[a]
    BY DEF Filters
  <2>3. ASSUME NEW a \in 1..(n + 1), s[a] \notin ws
        PROVE  \E i \in 1..Len(r) : r[i] = s[a]
    BY <1>1, <2>3 DEF Filters
  <2>4. Ordered(r, s, n + 1)
    BY DEF Filters, Ordered
  <2> QED BY <2>1, <2>2, <2>3, <2>4 DEF Filters
<1>2. ASSUME s[n + 1] \notin ws
      PROVE  Filters(Append(r, s[n + 1]), s, ws, n + 1)
  <2> DEFINE t == Append(r, s[n + 1])
  <2>1. /\ Len(t) = Len(r) + 1 /\ Len(r) \in Nat
        /\ \A i \in 1..Len(r) : t[i] = r[i]
        /\ t[Len(r) + 1] = s[n + 1]
    OBVIOUS
  <2> HIDE DEF t
  <2>2. Len(t) <= n + 1
    BY <2>1 DEF Filters
  <2>3. ASSUME NEW i \in 1..Len(t)
        PROVE  t[i] \notin ws /\ \E a \in 1..(n + 1) : t[i] = s[a]
    <3>1. CASE i = Len(r) + 1
      BY <3>1, <2>1, <1>2
    <3>2. CASE i \in 1..Len(r)
      BY <3>2, <2>1 DEF Filters
    <3> QED BY <3>1, <3>2, <2>1
  <2>4. ASSUME NEW a \in 1..(n + 1), s[a] \notin ws
        PROVE  \E i \in 1..Len(t) : t[i] = s[a]
    <3>1. CASE a = n + 1
      BY <3>1, <2>1
    <3>2. CASE a \in 1..n
      <4>1. PICK i \in 1..Len(r) : r[i] = s[a]
        BY <3>2, <2>4 DEF Filters
      <4> QED BY <4>1, <2>1
    <3> QED BY <3>1, <3>2
  <2>5. ASSUME NEW i \in 1..Len(t), NEW j \in 1..Len(t), i < j
        PROVE  \E a, b \in 1..(n + 1) : a < b /\ t[i] = s[a] /\ t[j] = s[b]
    <3>1. i \in 1..Len(r) /\ t[i] = r[i]
      BY <2>1, <2>5
    <3>2. CASE j = Len(r) + 1
      <4>1. PICK a \in 1..n : r[i] = s[a]
        BY <3>1 DEF Filters
      <4> QED BY <4>1, <3>1, <3>2, <2>1
    <3>3. CASE j \in 1..Len(r)
      <4>1. PICK a \in 1..n, b \in 1..n : a < b /\ r[i] = s[a] /\ r[j] = s[b]
        BY <3>1, <3>3, <2>5 DEF Filters, Ordered
      <4> QED BY <4>1, <3>1, <3>3, <2>1
    <3> QED BY <3>2, <3>3, <2>1
  <2> QED BY <2>2, <2>3, <2>4, <2>5 DEF Filters, Ordered, t
<1> QED BY <1>1, <1>2

(* Every turn of it. *)
LEMMA WithoutFilters ==
  ASSUME NEW S, NEW s \in Seq(S), NEW ws
  PROVE  Without(s, ws) \in Seq(S) /\ Filters(Without(s, ws), s, ws, Len(s))
<1>1. PICK g : KeptUpTo(s, ws, g, Len(s)) /\ Without(s, ws) = g[Len(s)]
  BY WithoutIsLastPrefix
<1> DEFINE Good(n) == g[n] \in Seq(S) /\ Filters(g[n], s, ws, n)
           Bad == {n \in 0..Len(s) : ~Good(n)}
<1> SUFFICES ASSUME Bad # {} PROVE FALSE
  BY <1>1
<1>2. PICK n \in Bad : \A m \in Bad : n <= m
  <2>1. Len(s) \in Nat /\ Bad \in SUBSET Nat
    OBVIOUS
  <2> HIDE DEF Bad
  <2> QED BY <2>1, LeastNumber
<1>3. n # 0
  <2>1. g[0] = <<>>
    BY <1>1 DEF KeptUpTo
  <2>2. Filters(<<>>, s, ws, 0)
    BY DEF Filters, Ordered
  <2>3. <<>> \in Seq(S)
    OBVIOUS
  <2>4. Good(0)
    BY <2>1, <2>2, <2>3
  <2> QED BY <2>4
<1>4. n - 1 \in Nat /\ n \in 1..Len(s) /\ n - 1 \in 0..Len(s) /\ (n - 1) + 1 = n
  BY <1>2, <1>3
<1>5. Good(n - 1)
  BY <1>2, <1>4
<1>6. g[n] = IF s[n] \in ws THEN g[n - 1] ELSE Append(g[n - 1], s[n])
  <2>1. n \in 0..Len(s) /\ n # 0
    BY <1>3
  <2>2. \A i \in 0..Len(s) :
           g[i] = IF i = 0 THEN <<>>
                  ELSE IF s[i] \in ws THEN g[i - 1] ELSE Append(g[i - 1], s[i])
    BY <1>1 DEF KeptUpTo
  <2> QED BY <2>1, <2>2
<1>7. s[n] \in S
  BY <1>4
<1>8. Filters(g[n], s, ws, n)
  BY <1>4, <1>5, <1>6, <1>7, AppendFilters
<1>9. g[n] \in Seq(S)
  BY <1>5, <1>6, <1>7
<1> QED BY <1>8, <1>9

(* No entry is linked twice. *)
Distinct(s) == \A i, j \in DOMAIN s : s[i] = s[j] => i = j

(* Unlinking removes exactly the entries named, and links none twice. *)
LEMMA WithoutMembers ==
  ASSUME NEW S, NEW s \in Seq(S), NEW ws
  PROVE  /\ Without(s, ws) \in Seq(S)
         /\ Members(Without(s, ws)) = Members(s) \ ws
         /\ Distinct(s) => Distinct(Without(s, ws))
<1> DEFINE r == Without(s, ws)
<1>1. r \in Seq(S) /\ Filters(r, s, ws, Len(s))
  BY WithoutFilters
<1> HIDE DEF r
<1>2. DOMAIN r = 1..Len(r) /\ DOMAIN s = 1..Len(s) /\ Len(r) \in Nat
  BY <1>1
<1>3. Members(r) = Members(s) \ ws
  BY <1>1, <1>2 DEF Filters, Members
<1>4. ASSUME Distinct(s), NEW i \in DOMAIN r, NEW j \in DOMAIN r, r[i] = r[j], i < j
      PROVE  FALSE
  <2>1. PICK a \in 1..Len(s), b \in 1..Len(s) : a < b /\ r[i] = s[a] /\ r[j] = s[b]
    BY <1>4, <1>1, <1>2 DEF Filters, Ordered
  <2>2. s[a] = s[b]
    BY <2>1, <1>4
  <2> QED BY <2>1, <2>2, <1>2, <1>4 DEF Distinct
<1> QED BY <1>1, <1>2, <1>3, <1>4 DEF Distinct, r

(* A list without entries. *)
LEMMA EmptyList ==
  ASSUME NEW S, NEW s \in Seq(S)
  PROVE  Members(s) = {} <=> s = <<>>
<1>1. s = <<>> <=> Len(s) = 0
  OBVIOUS
<1>2. Len(s) \in Nat /\ DOMAIN s = 1..Len(s)
  OBVIOUS
<1>3. Len(s) # 0 => s[1] \in Members(s)
  BY <1>2 DEF Members
<1>4. Len(s) = 0 => \A x : x \notin Members(s)
  BY <1>2 DEF Members
<1> QED BY <1>1, <1>3, <1>4

(* A list that keeps only entries of an empty one. *)
LEMMA StillEmpty ==
  ASSUME NEW S, NEW s \in Seq(S), NEW t \in Seq(S), Members(t) \subseteq Members(s),
         s = <<>>
  PROVE  t = <<>>
<1>1. Members(s) = {}
  BY EmptyList
<1>2. Members(t) = {}
  BY <1>1
<1> QED BY <1>2, EmptyList

(* Linking one more entry at the end. *)
LEMMA AppendMembers ==
  ASSUME NEW S, NEW s \in Seq(S), NEW x \in S
  PROVE  /\ Append(s, x) \in Seq(S)
         /\ Members(Append(s, x)) = Members(s) \cup {x}
         /\ Distinct(s) /\ x \notin Members(s) => Distinct(Append(s, x))
<1> DEFINE r == Append(s, x)
<1>1. /\ r \in Seq(S) /\ DOMAIN r = 1..(Len(s) + 1) /\ DOMAIN s = 1..Len(s)
      /\ \A i \in 1..Len(s) : r[i] = s[i]
      /\ r[Len(s) + 1] = x /\ Len(s) \in Nat
  OBVIOUS
<1> HIDE DEF r
<1>2. \A i \in DOMAIN r : i \in DOMAIN s \/ i = Len(s) + 1
  BY <1>1
<1>3. Members(r) = Members(s) \cup {x}
  <2>1. ASSUME NEW y \in Members(r) PROVE y \in Members(s) \cup {x}
    BY <1>1, <1>2 DEF Members
  <2>2. ASSUME NEW y \in Members(s) PROVE y \in Members(r)
    BY <1>1 DEF Members
  <2>3. x \in Members(r)
    BY <1>1 DEF Members
  <2> QED BY <2>1, <2>2, <2>3
<1>4. Distinct(s) /\ x \notin Members(s) => Distinct(r)
  BY <1>1, <1>2 DEF Members, Distinct
<1> QED BY <1>1, <1>3, <1>4 DEF r

(* Taking the last entry off, as from a stack. *)
LEMMA FrontMembers ==
  ASSUME NEW S, NEW s \in Seq(S), s # <<>>, Distinct(s)
  PROVE  /\ s[Len(s)] \in S /\ s[Len(s)] \in Members(s)
         /\ SubSeq(s, 1, Len(s) - 1) \in Seq(S)
         /\ Members(SubSeq(s, 1, Len(s) - 1)) = Members(s) \ {s[Len(s)]}
         /\ Distinct(SubSeq(s, 1, Len(s) - 1))
<1> DEFINE r == SubSeq(s, 1, Len(s) - 1)
<1>1. Len(s) \in Nat /\ Len(s) > 0 /\ DOMAIN s = 1..Len(s)
  OBVIOUS
<1>2. /\ r \in Seq(S) /\ DOMAIN r = 1..(Len(s) - 1)
      /\ \A i \in 1..(Len(s) - 1) : r[i] = s[i]
  BY <1>1
<1> HIDE DEF r
<1>3. s[Len(s)] \in S /\ s[Len(s)] \in Members(s)
  BY <1>1 DEF Members
<1>4. \A i \in DOMAIN s : i \in DOMAIN r \/ i = Len(s)
  BY <1>1, <1>2
<1>5. \A i \in DOMAIN r : i \in DOMAIN s /\ r[i] = s[i] /\ i # Len(s)
  BY <1>1, <1>2
<1>6. Len(s) \in DOMAIN s
  BY <1>1
<1>7. Members(r) = Members(s) \ {s[Len(s)]}
  <2>1. ASSUME NEW y \in Members(r) PROVE y \in Members(s) \ {s[Len(s)]}
    <3>1. PICK i \in DOMAIN r : y = r[i]
      BY DEF Members
    <3> QED BY <3>1, <1>5, <1>6 DEF Members, Distinct
  <2>2. ASSUME NEW y \in Members(s), y # s[Len(s)] PROVE y \in Members(r)
    <3>1. PICK i \in DOMAIN s : y = s[i]
      BY DEF Members
    <3> QED BY <3>1, <2>2, <1>4, <1>5 DEF Members
  <2> QED BY <2>1, <2>2
<1>8. Distinct(r)
  BY <1>5 DEF Distinct
<1> QED BY <1>2, <1>3, <1>7, <1>8 DEF r

(* A set of numbers that is not empty and has a bound has a greatest. *)
LEMMA GreatestNumber ==
  ASSUME NEW n \in Nat, NEW S \in SUBSET (0..n), S # {}
  PROVE  \E m \in S : \A k \in S : k <= m
<1> DEFINE T == {n - k : k \in S}
<1>1. T \in SUBSET Nat /\ T # {}
  <2>1. ASSUME NEW k \in S PROVE n - k \in Nat
    OBVIOUS
  <2>2. PICK k \in S : TRUE
    OBVIOUS
  <2>3. n - k \in T
    OBVIOUS
  <2> QED BY <2>1, <2>3
<1>2. PICK t \in T : \A u \in T : t <= u
  <2> HIDE DEF T
  <2> QED BY <1>1, LeastNumber
<1>3. PICK m \in S : t = n - m
  OBVIOUS
<1>4. ASSUME NEW k \in S PROVE k <= m
  BY <1>2, <1>3
<1> QED BY <1>4

(* One list after another. *)
LEMMA ConcatMembers ==
  ASSUME NEW S, NEW s \in Seq(S), NEW t \in Seq(S)
  PROVE  /\ s \o t \in Seq(S)
         /\ Members(s \o t) = Members(s) \cup Members(t)
         /\ Distinct(s) /\ Distinct(t) /\ Members(s) \cap Members(t) = {}
              => Distinct(s \o t)
<1> DEFINE r == s \o t
<1>1. /\ r \in Seq(S) /\ DOMAIN r = 1..(Len(s) + Len(t))
      /\ DOMAIN s = 1..Len(s) /\ DOMAIN t = 1..Len(t)
      /\ Len(s) \in Nat /\ Len(t) \in Nat
      /\ \A i \in 1..Len(s) : r[i] = s[i]
      /\ \A i \in (Len(s) + 1)..(Len(s) + Len(t)) : r[i] = t[i - Len(s)]
  OBVIOUS
<1> HIDE DEF r
<1>2. \A i \in DOMAIN r : \/ i \in DOMAIN s /\ r[i] = s[i]
                          \/ i - Len(s) \in DOMAIN t /\ r[i] = t[i - Len(s)]
  BY <1>1
<1>3. \A i \in DOMAIN t : Len(s) + i \in DOMAIN r /\ r[Len(s) + i] = t[i]
  <2> TAKE i \in DOMAIN t
  <2>1. Len(s) + i \in (Len(s) + 1)..(Len(s) + Len(t)) /\ (Len(s) + i) - Len(s) = i
    BY <1>1
  <2> QED BY <2>1, <1>1
<1>4. \A i \in DOMAIN s : i \in DOMAIN r /\ r[i] = s[i]
  BY <1>1
<1>5. Members(r) = Members(s) \cup Members(t)
  <2>1. ASSUME NEW y \in Members(r) PROVE y \in Members(s) \cup Members(t)
    BY <1>2 DEF Members
  <2>2. ASSUME NEW y \in Members(s) PROVE y \in Members(r)
    BY <1>4 DEF Members
  <2>3. ASSUME NEW y \in Members(t) PROVE y \in Members(r)
    BY <1>3 DEF Members
  <2> QED BY <2>1, <2>2, <2>3
<1>6. ASSUME Distinct(s), Distinct(t), Members(s) \cap Members(t) = {},
             NEW i \in DOMAIN r, NEW j \in DOMAIN r, r[i] = r[j]
      PROVE  i = j
  <2>0. i \in Int /\ j \in Int /\ Len(s) \in Int
    BY <1>1
  <2>1. ASSUME NEW a \in DOMAIN s, NEW b \in DOMAIN t PROVE s[a] # t[b]
    <3>1. s[a] \in Members(s) /\ t[b] \in Members(t)
      BY DEF Members
    <3> QED BY <3>1, <1>6
  <2>2. CASE i \in DOMAIN s /\ r[i] = s[i]
    <3>1. j \in DOMAIN s /\ r[j] = s[j]
      BY <2>1, <2>2, <1>2, <1>6
    <3> QED BY <2>2, <3>1, <1>6 DEF Distinct
  <2>3. CASE i - Len(s) \in DOMAIN t /\ r[i] = t[i - Len(s)]
    <3>1. j - Len(s) \in DOMAIN t /\ r[j] = t[j - Len(s)]
      BY <2>1, <2>3, <1>2, <1>6
    <3>2. i - Len(s) = j - Len(s)
      BY <2>3, <3>1, <1>6 DEF Distinct
    <3> QED BY <3>2, <2>0
  <2> QED BY <2>2, <2>3, <1>2
<1> QED BY <1>1, <1>5, <1>6 DEF Distinct, r

(* A list cut after its first n entries. *)
LEMMA SplitMembers ==
  ASSUME NEW S, NEW s \in Seq(S), NEW n \in 0..Len(s)
  PROVE  LET a == SubSeq(s, 1, n)
             b == SubSeq(s, n + 1, Len(s))
         IN /\ a \in Seq(S) /\ b \in Seq(S)
            /\ Len(a) = n /\ \A i \in 1..n : a[i] = s[i]
            /\ Members(s) = Members(a) \cup Members(b)
            /\ Distinct(s) => /\ Distinct(a) /\ Distinct(b)
                              /\ Members(a) \cap Members(b) = {}
<1> DEFINE a == SubSeq(s, 1, n)
           b == SubSeq(s, n + 1, Len(s))
<1>1. /\ Len(s) \in Nat /\ DOMAIN s = 1..Len(s)
      /\ a \in Seq(S) /\ Len(a) = n /\ DOMAIN a = 1..n
      /\ \A i \in 1..n : a[i] = s[i]
  OBVIOUS
<1>2. /\ b \in Seq(S) /\ Len(b) = Len(s) - n /\ DOMAIN b = 1..(Len(s) - n)
      /\ \A i \in 1..(Len(s) - n) : b[i] = s[n + i]
  OBVIOUS
<1> HIDE DEF a, b
<1>3. \A i \in DOMAIN a : i \in DOMAIN s /\ a[i] = s[i] /\ i <= n
  BY <1>1
<1>4. \A i \in DOMAIN b : n + i \in DOMAIN s /\ b[i] = s[n + i] /\ n + i > n
  BY <1>1, <1>2
<1>5. \A i \in DOMAIN s : i \in DOMAIN a \/ (i - n \in DOMAIN b /\ n + (i - n) = i)
  BY <1>1, <1>2
<1>6. Members(s) = Members(a) \cup Members(b)
  <2>1. ASSUME NEW y \in Members(s) PROVE y \in Members(a) \cup Members(b)
    <3>1. PICK i \in DOMAIN s : y = s[i]
      BY DEF Members
    <3>2. CASE i \in DOMAIN a
      BY <3>1, <3>2, <1>3 DEF Members
    <3>3. CASE i - n \in DOMAIN b /\ n + (i - n) = i
      <4>1. y = b[i - n]
        BY <3>1, <3>3, <1>4
      <4> QED BY <4>1, <3>3 DEF Members
    <3> QED BY <3>2, <3>3, <1>5
  <2>2. ASSUME NEW y \in Members(a) PROVE y \in Members(s)
    BY <1>3 DEF Members
  <2>3. ASSUME NEW y \in Members(b) PROVE y \in Members(s)
    BY <1>4 DEF Members
  <2> QED BY <2>1, <2>2, <2>3
<1>7. ASSUME Distinct(s)
      PROVE  Distinct(a) /\ Distinct(b) /\ Members(a) \cap Members(b) = {}
  <2>1. Distinct(a)
    BY <1>3, <1>7 DEF Distinct
  <2>2. ASSUME NEW i \in DOMAIN b, NEW j \in DOMAIN b, b[i] = b[j] PROVE i = j
    <3>1. n + i = n + j
      BY <1>4, <1>7, <2>2 DEF Distinct
    <3>2. i \in Int /\ j \in Int /\ n \in Int
      BY <1>2
    <3> QED BY <3>1, <3>2
  <2>3. ASSUME NEW i \in DOMAIN a, NEW j \in DOMAIN b, a[i] = b[j] PROVE FALSE
    <3>1. i = n + j
      BY <1>3, <1>4, <1>7, <2>3 DEF Distinct
    <3> QED BY <3>1, <1>3, <1>4, <1>1, <1>2
  <2> QED BY <2>1, <2>2, <2>3 DEF Distinct, Members
<1> QED BY <1>1, <1>2, <1>6, <1>7 DEF a, b

(* Linking a new entry at any place. *)
LEMMA InsertMembers ==
  ASSUME NEW S, NEW s \in Seq(S), NEW x \in S, NEW n \in 0..Len(s)
  PROVE  LET r == SubSeq(s, 1, n) \o <<x>> \o SubSeq(s, n + 1, Len(s))
         IN /\ r \in Seq(S) /\ Members(r) = Members(s) \cup {x}
            /\ Distinct(s) /\ x \notin Members(s) => Distinct(r)
<1> DEFINE a == SubSeq(s, 1, n)
           b == SubSeq(s, n + 1, Len(s))
           c == a \o <<x>>
<1>1. /\ a \in Seq(S) /\ b \in Seq(S)
      /\ Members(s) = Members(a) \cup Members(b)
      /\ Distinct(s) => /\ Distinct(a) /\ Distinct(b)
                        /\ Members(a) \cap Members(b) = {}
  BY SplitMembers
<1>2. <<x>> \in Seq(S) /\ Members(<<x>>) = {x} /\ Distinct(<<x>>)
  BY DEF Members, Distinct
<1> HIDE DEF a, b
<1> DEFINE one == <<x>>
<1> HIDE DEF one
<1>2a. one \in Seq(S) /\ Members(one) = {x} /\ Distinct(one)
  BY <1>2 DEF one
<1>2b. /\ a \o one \in Seq(S)
       /\ Members(a \o one) = Members(a) \cup Members(one)
       /\ Distinct(a) /\ Distinct(one) /\ Members(a) \cap Members(one) = {}
            => Distinct(a \o one)
  BY <1>1, <1>2a, ConcatMembers
<1>3. /\ c \in Seq(S) /\ Members(c) = Members(a) \cup {x}
      /\ Distinct(a) /\ x \notin Members(a) => Distinct(c)
  BY <1>2a, <1>2b DEF one
<1> HIDE DEF c
<1>4. /\ c \o b \in Seq(S) /\ Members(c \o b) = Members(c) \cup Members(b)
      /\ Distinct(c) /\ Distinct(b) /\ Members(c) \cap Members(b) = {}
           => Distinct(c \o b)
  BY <1>1, <1>3, ConcatMembers
<1>5. Members(c \o b) = Members(s) \cup {x}
  BY <1>1, <1>3, <1>4
<1>6. Distinct(s) /\ x \notin Members(s) => Distinct(c \o b)
  BY <1>1, <1>3, <1>4
<1> QED BY <1>4, <1>5, <1>6 DEF a, b, c
=============================================================================
