--------------------------- MODULE ListingProofs ---------------------------
(***************************************************************************)
(* Proofs about Listing, for any names, page sizes and changes: a cursor   *)
(* that is a name, under an order that is strict and total, neither skips  *)
(* nor repeats a row, whatever is created and deleted between the pages.   *)
(***************************************************************************)
EXTENDS Listing, FiniteSetTheorems, WellFoundedInduction, TLAPS

----------------------------------------------------------------------------
(***************************************************************************)
(* The order of names                                                      *)
(***************************************************************************)
\* The least-number principle, for a set.
LEMMA LeastNat ==
    ASSUME NEW T, T \subseteq Nat, T # {}
    PROVE  \E x \in T : \A y \in T : x <= y
  <1> DEFINE R == OpToRel(<, Nat)
  <1>1. IsWellFoundedOn(R, Nat)
    BY NatLessThanWellFounded
  <1>2. \A x, y \in Nat : x < y => <<x, y>> \in R
    BY DEF OpToRel
  <1> HIDE DEF R
  <1>3. PICK x \in T : \A y \in T : ~(<<y, x>> \in R)
    BY <1>1, WFMin
  <1>4. \A y \in T : x \in Nat /\ y \in Nat /\ ~(y < x)
    BY <1>2, <1>3
  <1>5. \A y \in T : x <= y
    BY <1>4
  <1> QED  BY <1>5

\* A prefix, part by part.
LEMMA PrefixByParts ==
    ASSUME NEW a \in Seq(Nat), NEW b \in Seq(Nat)
    PROVE  IsPrefix(a, b) <=> Len(a) <= Len(b) /\ \A j \in 1..Len(a) : a[j] = b[j]
  <1>1. ASSUME Len(a) <= Len(b)
        PROVE  /\ SubSeq(a, 1, Len(a)) = [j \in 1..Len(a) |-> a[j]]
               /\ SubSeq(b, 1, Len(a)) = [j \in 1..Len(a) |-> b[j]]
    BY <1>1
  <1>2. ASSUME Len(a) <= Len(b), \A j \in 1..Len(a) : a[j] = b[j] PROVE IsPrefix(a, b)
    BY <1>1, <1>2 DEF IsPrefix
  <1>3. ASSUME IsPrefix(a, b) PROVE Len(a) <= Len(b) /\ \A j \in 1..Len(a) : a[j] = b[j]
    <2>1. Len(a) <= Len(b) /\ SubSeq(a, 1, Len(a)) = SubSeq(b, 1, Len(a))
      BY <1>3 DEF IsPrefix
    <2>2. [j \in 1..Len(a) |-> a[j]] = [j \in 1..Len(a) |-> b[j]]
      BY <1>1, <2>1
    <2>3. \A j \in 1..Len(a) : [i \in 1..Len(a) |-> a[i]][j] = [i \in 1..Len(a) |-> b[i]][j]
      BY <2>2
    <2> QED  BY <2>1, <2>3
  <1> QED  BY <1>2, <1>3

\* The first part at which two names differ.
DiffersAt(a, b, k) == k \in 1..Len(a) /\ k \in 1..Len(b) /\ a[k] < b[k] /\ \A j \in 1..(k - 1) : a[j] = b[j]

\* Less, part by part.
LEMMA LessByParts ==
    ASSUME NEW a \in Seq(Nat), NEW b \in Seq(Nat)
    PROVE  Less(a, b) <=> \/ \E k \in Nat : DiffersAt(a, b, k)
                          \/ Len(a) < Len(b) /\ \A j \in 1..Len(a) : a[j] = b[j]
  <1>1. DOMAIN a = 1..Len(a) /\ DOMAIN b = 1..Len(b)
    OBVIOUS
  <1>2. ASSUME Len(a) = Len(b), \A j \in 1..Len(a) : a[j] = b[j] PROVE a = b
    <2>1. a = [j \in 1..Len(a) |-> a[j]] /\ b = [j \in 1..Len(b) |-> b[j]]
      OBVIOUS
    <2>2. [j \in 1..Len(a) |-> a[j]] = [j \in 1..Len(a) |-> b[j]]
      BY <1>2
    <2> QED  BY <1>2, <2>1, <2>2
  <1>3. a # b /\ IsPrefix(a, b) <=> Len(a) < Len(b) /\ \A j \in 1..Len(a) : a[j] = b[j]
    BY <1>2, PrefixByParts
  <1>4. (\E k \in DOMAIN a \cap DOMAIN b : a[k] < b[k] /\ \A j \in 1..(k - 1) : a[j] = b[j])
        <=> \E k \in Nat : DiffersAt(a, b, k)
    <2>1. ASSUME NEW k \in DOMAIN a \cap DOMAIN b, a[k] < b[k], \A j \in 1..(k - 1) : a[j] = b[j]
          PROVE  k \in Nat /\ DiffersAt(a, b, k)
      BY <1>1, <2>1 DEF DiffersAt
    <2>2. ASSUME NEW k \in Nat, DiffersAt(a, b, k)
          PROVE  k \in DOMAIN a \cap DOMAIN b /\ a[k] < b[k] /\ \A j \in 1..(k - 1) : a[j] = b[j]
      BY <1>1, <2>2 DEF DiffersAt
    <2> QED  BY <2>1, <2>2
  <1> QED  BY <1>3, <1>4 DEF Less

\* No name is before itself.
LEMMA LessIrreflexive == \A a \in Seq(Nat) : ~Less(a, a)
  BY LessByParts DEF DiffersAt

\* The order of names is transitive.
LEMMA LessTransitive ==
    ASSUME NEW a \in Seq(Nat), NEW b \in Seq(Nat), NEW c \in Seq(Nat), Less(a, b), Less(b, c)
    PROVE  Less(a, c)
  <1> DEFINE Begins(x, y) == Len(x) < Len(y) /\ \A j \in 1..Len(x) : x[j] = y[j]
  <1>0. Len(a) \in Nat /\ Len(b) \in Nat /\ Len(c) \in Nat
    OBVIOUS
  <1>1. ASSUME NEW k \in Nat, DiffersAt(a, b, k), NEW l \in Nat, DiffersAt(b, c, l) PROVE Less(a, c)
    <2>1. CASE k <= l
      <3>0. k \in 1..Len(a) /\ k \in 1..Len(b) /\ k \in 1..Len(c)
        BY <1>0, <1>1, <2>1 DEF DiffersAt
      <3>1. a[k] < c[k]
        <4>1. a[k] \in Nat /\ b[k] \in Nat /\ c[k] \in Nat
          BY <3>0, SMTT(30)
        <4>2. a[k] < b[k] /\ (b[k] = c[k] \/ b[k] < c[k])
          BY <1>1, <2>1, <3>0 DEF DiffersAt
        <4> QED  BY <4>1, <4>2
      <3>2. \A j \in 1..(k - 1) : a[j] = c[j]
        BY <1>0, <1>1, <2>1 DEF DiffersAt
      <3>3. DiffersAt(a, c, k)
        BY <3>0, <3>1, <3>2 DEF DiffersAt
      <3> QED  BY <3>3, LessByParts
    <2>2. CASE l < k
      <3>1. a[l] = b[l] /\ l \in 1..Len(a)
        BY <1>0, <1>1, <2>2 DEF DiffersAt
      <3>2. \A j \in 1..(l - 1) : a[j] = c[j]
        BY <1>0, <1>1, <2>2 DEF DiffersAt
      <3>3. DiffersAt(a, c, l)
        BY <1>1, <3>1, <3>2 DEF DiffersAt
      <3> QED  BY <3>3, LessByParts
    <2> QED  BY <2>1, <2>2
  <1>2. ASSUME NEW k \in Nat, DiffersAt(a, b, k), Begins(b, c) PROVE Less(a, c)
    <2>1. DiffersAt(a, c, k)
      BY <1>0, <1>2, SMTT(30) DEF DiffersAt
    <2> QED  BY <2>1, LessByParts
  <1>3. ASSUME Begins(a, b), NEW l \in Nat, DiffersAt(b, c, l) PROVE Less(a, c)
    <2>1. CASE l <= Len(a)
      <3>1. DiffersAt(a, c, l)
        BY <1>0, <1>3, <2>1, SMTT(30) DEF DiffersAt
      <3> QED  BY <3>1, LessByParts
    <2>2. CASE Len(a) < l
      <3>1. Begins(a, c)
        BY <1>0, <1>3, <2>2 DEF DiffersAt
      <3> QED  BY <3>1, LessByParts
    <2> QED  BY <1>0, <2>1, <2>2
  <1>4. ASSUME Begins(a, b), Begins(b, c) PROVE Less(a, c)
    <2>1. Begins(a, c)
      BY <1>0, <1>4
    <2> QED  BY <2>1, LessByParts
  <1>5. (\E k \in Nat : DiffersAt(a, b, k)) \/ Begins(a, b)
    BY LessByParts
  <1>6. (\E k \in Nat : DiffersAt(b, c, k)) \/ Begins(b, c)
    BY LessByParts
  <1> HIDE DEF Begins
  <1> QED  BY <1>1, <1>2, <1>3, <1>4, <1>5, <1>6

\* Of two names, one is before the other.
LEMMA LessTotal ==
    ASSUME NEW a \in Seq(Nat), NEW b \in Seq(Nat), a # b
    PROVE  Less(a, b) \/ Less(b, a)
  <1> DEFINE D == {k \in Nat : k \in 1..Len(a) /\ k \in 1..Len(b) /\ a[k] # b[k]}
  <1>0. Len(a) \in Nat /\ Len(b) \in Nat /\ \A j \in Nat : (j \in 1..Len(a) => a[j] \in Nat) /\ (j \in 1..Len(b) => b[j] \in Nat)
    OBVIOUS
  <1>1. CASE D = {}
    <2>1. \A j \in Nat : j \in 1..Len(a) /\ j \in 1..Len(b) => a[j] = b[j]
      BY <1>1
    <2>2. Len(a) # Len(b)
      <3>1. Len(a) = Len(b) => a = b
        BY <2>1, SMTT(30)
      <3> QED  BY <3>1
    <2>3. CASE Len(a) < Len(b)
      <3>1. \A j \in 1..Len(a) : a[j] = b[j]
        BY <1>0, <2>1, <2>3
      <3> QED  BY <2>3, <3>1, LessByParts
    <2>4. CASE Len(b) < Len(a)
      <3>1. \A j \in 1..Len(b) : b[j] = a[j]
        BY <1>0, <2>1, <2>4
      <3> QED  BY <2>4, <3>1, LessByParts
    <2> QED  BY <1>0, <2>2, <2>3, <2>4
  <1>2. CASE D # {}
    <2>1. PICK k \in D : \A j \in D : k <= j
      BY <1>2, LeastNat
    <2>2. k \in Nat /\ k \in 1..Len(a) /\ k \in 1..Len(b) /\ a[k] # b[k] /\ a[k] \in Nat /\ b[k] \in Nat
      BY <1>0, <2>1
    <2>3. \A j \in 1..(k - 1) : a[j] = b[j]
      <3> SUFFICES ASSUME NEW j \in 1..(k - 1), a[j] # b[j] PROVE FALSE
        OBVIOUS
      <3>1. j \in Nat /\ j \in 1..Len(a) /\ j \in 1..Len(b) /\ j < k
        BY <1>0, <2>2, SMTT(30)
      <3>2. j \in D
        BY <3>1
      <3> QED  BY <2>1, <2>2, <3>1, <3>2
    <2>4. DiffersAt(a, b, k) \/ DiffersAt(b, a, k)
      BY <2>2, <2>3 DEF DiffersAt
    <2> QED  BY <2>2, <2>4, LessByParts
  <1> QED  BY <1>1, <1>2

----------------------------------------------------------------------------
(***************************************************************************)
(* A page of the names in order                                            *)
(***************************************************************************)
\* The names of S before n, which Ordered counts.
Before(S, n) == {m \in S : Less(m, n)}

\* A name with more before it is later.
LEMMA RankIsMonotone ==
    ASSUME NEW S, IsFiniteSet(S), S \subseteq Seq(Nat), NEW m \in S, NEW n \in S, Less(m, n)
    PROVE  Cardinality(Before(S, m)) < Cardinality(Before(S, n))
  <1>1. Before(S, n) \in SUBSET S /\ m \in Before(S, n)
    BY DEF Before
  <1>2. Before(S, m) \in SUBSET (Before(S, n) \ {m})
    BY LessTransitive, LessIrreflexive DEF Before
  <1>3. IsFiniteSet(Before(S, n))
    BY <1>1, FS_Subset
  <1>4. Cardinality(Before(S, n)) \in Nat
    BY <1>3, FS_CardinalityType
  <1>5. IsFiniteSet(Before(S, n) \ {m}) /\ Cardinality(Before(S, n) \ {m}) = Cardinality(Before(S, n)) - 1
    BY <1>1, <1>3, FS_RemoveElement
  <1>6. IsFiniteSet(Before(S, m)) /\ Cardinality(Before(S, m)) <= Cardinality(Before(S, n) \ {m})
    BY <1>2, <1>5, FS_Subset
  <1>7. Cardinality(Before(S, m)) \in Nat
    BY <1>6, FS_CardinalityType
  <1> QED  BY <1>4, <1>5, <1>6, <1>7

\* There are as many places as names, and no two names have the same: every
\* place has its name.
LEMMA EveryRankIsTaken ==
    ASSUME NEW S, IsFiniteSet(S), S \subseteq Seq(Nat)
    PROVE  /\ Cardinality(S) \in Nat
           /\ \A n \in S : Cardinality(Before(S, n)) + 1 \in 1..Cardinality(S)
           /\ \A i \in 1..Cardinality(S) : \E n \in S : Cardinality(Before(S, n)) = i - 1
  <1> DEFINE N == Cardinality(S)
             rank == [n \in S |-> Cardinality(Before(S, n)) + 1]
  <1>1. N \in Nat
    BY FS_CardinalityType
  <1>2. ASSUME NEW n \in S PROVE Cardinality(Before(S, n)) \in Nat /\ Cardinality(Before(S, n)) + 1 \in 1..N
    <2>1. Before(S, n) \in SUBSET (S \ {n})
      BY LessIrreflexive DEF Before
    <2>2. IsFiniteSet(S \ {n}) /\ Cardinality(S \ {n}) = N - 1
      BY FS_RemoveElement
    <2>3. IsFiniteSet(Before(S, n)) /\ Cardinality(Before(S, n)) <= N - 1
      BY <2>1, <2>2, FS_Subset
    <2>4. Cardinality(Before(S, n)) \in Nat
      BY <2>3, FS_CardinalityType
    <2> QED  BY <1>1, <2>3, <2>4
  <1>3. \A m, n \in S : rank[m] = rank[n] => m = n
    <2> SUFFICES ASSUME NEW m \in S, NEW n \in S, m # n PROVE rank[m] # rank[n]
      OBVIOUS
    <2>1. m \in Seq(Nat) /\ n \in Seq(Nat)
      OBVIOUS
    <2>2. Cardinality(Before(S, m)) < Cardinality(Before(S, n))
          \/ Cardinality(Before(S, n)) < Cardinality(Before(S, m))
      BY <2>1, LessTotal, RankIsMonotone
    <2> QED  BY <1>2, <2>2
  <1>4. rank \in [S -> 1..N]
    BY <1>2
  <1>5. IsFiniteSet(1..N) /\ Cardinality(1..N) = N
    <2>1. 1 \in Int /\ N \in Int
      BY <1>1
    <2>2. IsFiniteSet(1..N) /\ Cardinality(1..N) = IF 1 > N THEN 0 ELSE N - 1 + 1
      BY <2>1, FS_Interval
    <2> QED  BY <1>1, <2>2
  <1>6. rank \in Injection(S, 1..N)
    BY <1>3, <1>4 DEF Injection, IsInjective
  <1>7. rank \in Surjection(S, 1..N)
    BY <1>5, <1>6, FS_Injection
  <1>8. \A i \in 1..N : \E n \in S : rank[n] = i
    BY <1>7 DEF Surjection
  <1>9. ASSUME NEW i \in 1..N PROVE \E n \in S : Cardinality(Before(S, n)) = i - 1
    <2>1. PICK n \in S : rank[n] = i
      BY <1>8
    <2>2. Cardinality(Before(S, n)) + 1 = i
      BY <2>1
    <2> QED  BY <1>2, <2>2
  <1> QED  BY <1>1, <1>2, <1>9

\* Ordered has every name of the set and is in order.
LEMMA OrderedIsSorted ==
    ASSUME NEW S, IsFiniteSet(S), S \subseteq Seq(Nat)
    PROVE  /\ Cardinality(S) \in Nat
           /\ Ordered(S) \in Seq(S) /\ Len(Ordered(S)) = Cardinality(S)
           /\ \A i, j \in 1..Cardinality(S) : i < j => Less(Ordered(S)[i], Ordered(S)[j])
           /\ \A n \in S : \E i \in 1..Cardinality(S) : Ordered(S)[i] = n
  <1> DEFINE N == Cardinality(S)
             q == Ordered(S)
  <1>1. N \in Nat
    BY FS_CardinalityType
  <1>2. q = [i \in 1..N |-> CHOOSE n \in S : Cardinality(Before(S, n)) = i - 1]
    BY DEF Ordered, Before
  <1>3. ASSUME NEW i \in 1..N PROVE q[i] \in S /\ Cardinality(Before(S, q[i])) = i - 1
    <2>1. \E n \in S : Cardinality(Before(S, n)) = i - 1
      BY EveryRankIsTaken
    <2>2. q[i] = CHOOSE n \in S : Cardinality(Before(S, n)) = i - 1
      BY <1>2
    <2> HIDE DEF q
    <2> QED  BY <2>1, <2>2
  <1>4. DOMAIN q = 1..N
    BY <1>2
  <1>5. q \in Seq(S) /\ Len(q) = N
    <2>1. q \in [1..N -> S]
      BY <1>2, <1>3
    <2> HIDE DEF q
    <2> QED  BY <1>1, <2>1
  <1>6. ASSUME NEW i \in 1..N, NEW j \in 1..N, i < j PROVE Less(q[i], q[j])
    <2>1. q[i] \in Seq(Nat) /\ q[j] \in Seq(Nat)
      BY <1>3
    <2>2. Cardinality(Before(S, q[i])) = i - 1 /\ Cardinality(Before(S, q[j])) = j - 1
      BY <1>3
    <2>3. q[i] # q[j]
      BY <1>6, <2>2
    <2>4. ~Less(q[j], q[i])
      <3>1. Less(q[j], q[i]) => j - 1 < i - 1
        BY <1>3, <2>2, RankIsMonotone
      <3> QED  BY <1>6, <3>1
    <2> QED  BY <2>1, <2>3, <2>4, LessTotal
  <1>7. ASSUME NEW n \in S PROVE \E i \in 1..N : q[i] = n
    <2> DEFINE i == Cardinality(Before(S, n)) + 1
    <2>1. i \in 1..N
      BY EveryRankIsTaken
    <2>2. q[i] \in S /\ Cardinality(Before(S, q[i])) = i - 1
      BY <1>3, <2>1
    <2>3. IsFiniteSet(Before(S, n))
      <3>1. Before(S, n) \in SUBSET S
        BY DEF Before
      <3> QED  BY <3>1, FS_Subset
    <2>4. Cardinality(Before(S, n)) \in Nat
      BY <2>3, FS_CardinalityType
    <2>5. Cardinality(Before(S, q[i])) = Cardinality(Before(S, n))
      BY <2>2, <2>4
    <2>6. ~Less(q[i], n) /\ ~Less(n, q[i])
      BY <2>2, <2>4, <2>5, RankIsMonotone
    <2>7. q[i] \in Seq(Nat) /\ n \in Seq(Nat)
      BY <2>2
    <2>8. q[i] = n
      BY <2>6, <2>7, LessTotal
    <2> QED  BY <2>1, <2>8
  <1> QED  BY <1>1, <1>5, <1>6, <1>7

----------------------------------------------------------------------------
(***************************************************************************)
(* The invariant                                                           *)
(***************************************************************************)
\* The variables have their types; the names are rows of the database, and a
\* name that has been there all the while is there.
ListingTypes ==
    /\ inNamespace \in BOOLEAN /\ space \in BOOLEAN /\ broken \in BOOLEAN /\ vacated \in BOOLEAN
    /\ names \subseteq Names /\ IsFiniteSet(names) /\ steady \subseteq names
    /\ phase \in {"idle", "listing", "checking", "ended", "notFound", "failed"}
    /\ parent \in Seq(Nat) /\ size \in Nat
    /\ token \in Names \cup {None} /\ page \in Seq(Names) /\ listed \in Seq(Names)

\* There is nothing in a namespace that is missing.  A request sees every moment
\* at which the namespace has nothing for it; one that got an empty page has seen
\* such a moment, or sees it when the missing namespace comes back.
VacancyIsNoticed ==
    /\ ~space => names = {}
    /\ phase = "listing" /\ Vacant => vacated
    /\ phase = "checking" /\ ~broken /\ space => vacated

\* The pages follow one another in order.
ListedInOrder == \A i, j \in 1..Len(listed) : i < j => Less(listed[i], listed[j])

\* The next page begins after the last name that is listed.
CursorIsLast ==
    /\ phase = "idle" => token = None /\ page = <<>> /\ listed = <<>>
    /\ phase = "listing" => \/ token = None /\ listed = <<>>
                            \/ listed # <<>> /\ token = Last(listed)
    /\ page # <<>> => listed # <<>> /\ Last(page) = Last(listed)

\* The names up to the last one that is listed are done with: those that stayed
\* are listed.
NothingIsSkipped ==
    \A n \in steady : UnderParent(n) /\ (\E i \in 1..Len(listed) : n = listed[i] \/ Less(n, listed[i]))
                      => n \in ToSet(listed)

\* A page that is not full, of a query that did not break off, has the rest.
ShortPageIsLast ==
    phase \in {"checking", "ended"} /\ ~broken /\ Len(page) < ValidatePageSize(size)
    => \A n \in steady : UnderParent(n) => n \in ToSet(listed)

ListingInv == /\ ListingTypes /\ VacancyIsNoticed /\ EmptyAnswerIsTrue
              /\ ListedInOrder /\ CursorIsLast /\ NothingIsSkipped /\ ShortPageIsLast

\* The names are sequences, and None is not one of them.
LEMMA NamesAreSequences == Names \subseteq Seq(Nat) /\ None \notin Names
  BY ListingAssumption DEF Names

\* A page is the first rows after the token, in order; every other row is after
\* all of a page that is then full, or whose query broke off, and the server never
\* sends a token.
LEMMA PageIsFirstRows ==
    ASSUME ListingTypes, NEW b \in 0..Len(Rows)
    PROVE  LET rows == SubSeq(Rows, 1, b)
               pg == PageOf(rows) IN
           /\ Len(Rows) \in Nat /\ Len(rows) = b /\ pg \in Seq(names) /\ Len(pg) <= ValidatePageSize(size)
           /\ \A i \in 1..Len(pg) : UnderParent(pg[i]) /\ AfterToken(pg[i])
           /\ \A i, j \in 1..Len(pg) : i < j => Less(pg[i], pg[j])
           /\ \A n \in names : UnderParent(n) /\ AfterToken(n) =>
                \/ \E i \in 1..Len(pg) : pg[i] = n
                \/ (Len(pg) = ValidatePageSize(size) \/ b < Len(Rows)) /\ \A i \in 1..Len(pg) : Less(pg[i], n)
           /\ NextToken(rows) = None
  <1> DEFINE found == {n \in names : UnderParent(n) /\ AfterToken(n)}
             all == Ordered(found)
             N == Cardinality(found)
             V == ValidatePageSize(size)
             rows == SubSeq(Rows, 1, b)
             k == IF b < V THEN b ELSE V
             pg == PageOf(rows)
  <1>1. V \in Nat /\ V >= 1
    BY ListingAssumption DEF ListingTypes, ValidatePageSize
  <1>2. IsFiniteSet(found) /\ found \subseteq Seq(Nat)
    <2>1. found \in SUBSET names
      OBVIOUS
    <2> QED  BY <2>1, NamesAreSequences, FS_Subset DEF ListingTypes
  <1>3. /\ N \in Nat /\ all \in Seq(found) /\ Len(all) = N
        /\ \A i, j \in 1..N : i < j => Less(all[i], all[j])
        /\ \A n \in found : \E i \in 1..N : all[i] = n
    BY <1>2, OrderedIsSorted
  <1>4. Rows = SubSeq(all, 1, IF N < V + 1 THEN N ELSE V + 1)
    BY <1>3 DEF Rows, Limit
  <1>5. \A n \in found : n \in names /\ UnderParent(n) /\ AfterToken(n)
    OBVIOUS
  <1>5a. \A n \in names : UnderParent(n) /\ AfterToken(n) => n \in found
    OBVIOUS
  <1> HIDE DEF found, all, N, V
  <1>6. Rows \in Seq(found) /\ Len(Rows) = (IF N < V + 1 THEN N ELSE V + 1)
        /\ \A i \in 1..Len(Rows) : Rows[i] = all[i]
    BY <1>1, <1>3, <1>4, SMTT(30)
  <1>6a. /\ Len(Rows) \in Nat /\ b \in Nat /\ b <= Len(Rows) /\ b <= N
         /\ rows \in Seq(found) /\ Len(rows) = b /\ \A i \in 1..b : rows[i] = all[i]
    BY <1>1, <1>3, <1>6
  <1>7. pg = SubSeq(rows, 1, k)
    BY <1>1, <1>6a DEF PageOf, V
  <1> HIDE DEF pg, rows
  <1>8. k \in Nat /\ k <= N /\ k <= V /\ k <= b
    BY <1>1, <1>3, <1>6a
  <1>9. pg \in Seq(found) /\ Len(pg) = k /\ \A i \in 1..k : pg[i] = all[i]
    BY <1>6a, <1>7, <1>8
  <1>10. pg \in Seq(names) /\ \A i \in 1..Len(pg) : UnderParent(pg[i]) /\ AfterToken(pg[i])
    <2>1. \A i \in 1..Len(pg) : pg[i] \in found
      BY <1>9
    <2>2. pg \in Seq(names)
      BY <1>5, <1>9, <2>1
    <2> QED  BY <1>5, <2>1, <2>2
  <1>11. \A i, j \in 1..Len(pg) : i < j => Less(pg[i], pg[j])
    BY <1>3, <1>8, <1>9
  <1>12. ASSUME NEW n \in names, UnderParent(n), AfterToken(n)
         PROVE  \/ \E i \in 1..Len(pg) : pg[i] = n
                \/ (Len(pg) = V \/ b < Len(Rows)) /\ \A i \in 1..Len(pg) : Less(pg[i], n)
    <2>1. PICK i \in 1..N : all[i] = n
      BY <1>3, <1>5a, <1>12
    <2>2. CASE i <= k
      BY <1>8, <1>9, <2>1, <2>2
    <2>3. CASE k < i
      <3>1. k = V \/ b < Len(Rows)
        <4>1. CASE k # V
          <5>1. k = b /\ b < V /\ b < N
            BY <1>1, <1>3, <1>6a, <1>8, <2>1, <2>3, <4>1
          <5>2. b < Len(Rows)
            BY <1>1, <1>3, <1>6, <1>6a, <5>1
          <5> QED  BY <5>2
        <4> QED  BY <4>1
      <3>2. \A j \in 1..k : Less(all[j], all[i])
        BY <1>3, <1>8, <2>1, <2>3
      <3> QED  BY <1>9, <2>1, <3>1, <3>2
    <2> QED  BY <1>8, <2>1, <2>2, <2>3
  <1>13. NextToken(rows) = None
    <2>0. b <= V + 1
      BY <1>1, <1>3, <1>6, <1>6a
    <2>1. Len(rows) = Fetched(rows)
      BY <1>1, <1>6a, <2>0 DEF Fetched, V
    <2>2. ~(Len(rows) > Fetched(rows))
      BY <1>6a, <2>1
    <2> QED  BY <2>2 DEF NextToken
  <1> QED  BY <1>6a, <1>8, <1>9, <1>10, <1>11, <1>12, <1>13 DEF V, pg, rows

\* The listing begins with nothing.
LEMMA ListingInit == Init => ListingInv
  <1> SUFFICES ASSUME Init PROVE ListingInv
    OBVIOUS
  <1>1. ListingTypes
    <2>1. <<>> \in Seq(Nat) /\ <<>> \in Seq(Names)
      OBVIOUS
    <2> QED  BY <2>1 DEF Init, ListingTypes
  <1>2. ListedInOrder /\ CursorIsLast /\ NothingIsSkipped
    BY DEF Init, ListedInOrder, CursorIsLast, NothingIsSkipped
  <1> QED  BY <1>1, <1>2 DEF Init, ListingInv, VacancyIsNoticed, EmptyAnswerIsTrue, ShortPageIsLast

\* The next page keeps what is listed in order, and skips nothing.
LEMMA ServePageStep == ListingInv /\ ServePage => ListingInv'
  <1> SUFFICES ASSUME ListingInv, ServePage PROVE ListingInv'
    OBVIOUS
  <1>0. PICK b \in 0..Len(Rows) : Serve(SubSeq(Rows, 1, b))
    BY DEF ServePage
  <1> DEFINE rows == SubSeq(Rows, 1, b)
             pg == PageOf(rows)
             V == ValidatePageSize(size)
  <1>1. /\ Len(Rows) \in Nat /\ Len(rows) = b /\ pg \in Seq(names) /\ Len(pg) <= V
        /\ \A i \in 1..Len(pg) : UnderParent(pg[i]) /\ AfterToken(pg[i])
        /\ \A i, j \in 1..Len(pg) : i < j => Less(pg[i], pg[j])
        /\ \A n \in names : UnderParent(n) /\ AfterToken(n) =>
             \/ \E i \in 1..Len(pg) : pg[i] = n
             \/ (Len(pg) = V \/ b < Len(Rows)) /\ \A i \in 1..Len(pg) : Less(pg[i], n)
        /\ NextToken(rows) = None
    BY PageIsFirstRows DEF ListingInv
  <1>2. /\ phase = "listing" /\ page' = pg /\ listed' = listed \o pg /\ token' = None
        /\ phase' = (IF inNamespace /\ pg = <<>> THEN "checking" ELSE "ended")
        /\ broken' = (b < Len(Rows))
        /\ UNCHANGED <<database, parent, size, steady, vacated, resumed>>
    BY <1>0, <1>1 DEF Serve
  <1> HIDE DEF pg, rows
  <1>3. /\ names \subseteq Names /\ Names \subseteq Seq(Nat) /\ steady \subseteq names
        /\ listed \in Seq(Names) /\ listed \in Seq(Seq(Nat)) /\ pg \in Seq(Names) /\ pg \in Seq(Seq(Nat))
        /\ None \notin Names
    <2>1. names \subseteq Names /\ Names \subseteq Seq(Nat) /\ steady \subseteq names /\ listed \in Seq(Names)
          /\ None \notin Names
      BY NamesAreSequences DEF ListingInv, ListingTypes
    <2>2. pg \in Seq(Names)
      <3>1. \A i \in 1..Len(pg) : pg[i] \in Names
        BY <1>1, <2>1
      <3> QED  BY <1>1, <3>1
    <2>3. \A q \in Seq(Names) : q \in Seq(Seq(Nat))
      <3> SUFFICES ASSUME NEW q \in Seq(Names) PROVE q \in Seq(Seq(Nat))
        OBVIOUS
      <3>1. \A i \in 1..Len(q) : q[i] \in Seq(Nat)
        BY <2>1
      <3> QED  BY <3>1
    <2> QED  BY <2>1, <2>2, <2>3
  <1>4. /\ Len(listed) \in Nat /\ Len(pg) \in Nat /\ Len(listed') = Len(listed) + Len(pg)
        /\ \A i \in 1..Len(listed) : listed'[i] = listed[i] /\ listed[i] \in Seq(Nat)
        /\ \A i \in 1..Len(pg) : listed'[Len(listed) + i] = pg[i] /\ pg[i] \in Seq(Nat)
    BY <1>2, <1>3
  <1>5. ASSUME NEW i \in 1..Len(listed')
        PROVE  \/ i \in 1..Len(listed)
               \/ \E j \in 1..Len(pg) : i = Len(listed) + j
    <2>1. CASE i > Len(listed)
      <3>1. i - Len(listed) \in 1..Len(pg) /\ i = Len(listed) + (i - Len(listed))
        BY <1>4, <2>1
      <3> QED  BY <3>1
    <2> QED  BY <1>4, <2>1
  <1>6. \A n : n \in ToSet(listed') <=> n \in ToSet(listed) \/ \E j \in 1..Len(pg) : n = pg[j]
    <2>1. DOMAIN listed = 1..Len(listed) /\ DOMAIN listed' = 1..Len(listed')
      BY <1>2, <1>3
    <2>2. ASSUME NEW i \in 1..Len(listed) PROVE i \in 1..Len(listed') /\ listed[i] = listed'[i]
      BY <1>4
    <2>3. ASSUME NEW j \in 1..Len(pg) PROVE Len(listed) + j \in 1..Len(listed') /\ pg[j] = listed'[Len(listed) + j]
      BY <1>4
    <2>4. ASSUME NEW n, n \in ToSet(listed)
          PROVE  n \in ToSet(listed')
      BY <2>1, <2>2, <2>4 DEF ToSet
    <2>5. ASSUME NEW j \in 1..Len(pg) PROVE pg[j] \in ToSet(listed')
      BY <2>1, <2>3 DEF ToSet
    <2>6. ASSUME NEW i \in 1..Len(listed')
          PROVE  listed'[i] \in ToSet(listed) \/ \E j \in 1..Len(pg) : listed'[i] = pg[j]
      <3>1. CASE i \in 1..Len(listed)
        BY <2>1, <2>2, <3>1 DEF ToSet
      <3>2. CASE \E j \in 1..Len(pg) : i = Len(listed) + j
        BY <2>3, <3>2
      <3> QED  BY <1>5, <3>1, <3>2
    <2>7. ASSUME NEW n, n \in ToSet(listed')
          PROVE  n \in ToSet(listed) \/ \E j \in 1..Len(pg) : n = pg[j]
      <3>1. PICK i \in 1..Len(listed') : n = listed'[i]
        BY <2>1, <2>7 DEF ToSet
      <3> QED  BY <2>6, <3>1
    <2> QED  BY <2>4, <2>5, <2>7
  \* Where the listing stands: the names up to the token are listed.
  <1>7. ASSUME token # None
        PROVE  /\ token \in Seq(Nat) /\ Len(listed) >= 1 /\ token = listed[Len(listed)]
               /\ \A i \in 1..Len(listed) : listed[i] = token \/ Less(listed[i], token)
    <2>1. listed # <<>> /\ token = Last(listed)
      BY <1>2, <1>7 DEF ListingInv, CursorIsLast
    <2>2. Len(listed) >= 1 /\ token = listed[Len(listed)]
      BY <1>3, <2>1 DEF Last
    <2>3. \A i \in 1..Len(listed) : i < Len(listed) => Less(listed[i], listed[Len(listed)])
      BY <1>4, <2>2 DEF ListingInv, ListedInOrder
    <2> QED  BY <1>4, <2>2, <2>3
  <1>8. token = None => Len(listed) = 0
    <2>1. token = None => listed = <<>> \/ (token = Last(listed) /\ listed # <<>>)
      BY <1>2 DEF ListingInv, CursorIsLast
    <2>2. listed # <<>> => Last(listed) \in Names
      BY <1>3 DEF Last
    <2> QED  BY <1>3, <2>1, <2>2
  <1>9. ListedInOrder'
    <2> SUFFICES ASSUME NEW i \in 1..Len(listed'), NEW j \in 1..Len(listed'), i < j
                 PROVE  Less(listed'[i], listed'[j])
      BY DEF ListedInOrder
    <2>1. CASE j \in 1..Len(listed)
      <3>1. i \in 1..Len(listed)
        BY <1>4, <2>1
      <3> QED  BY <1>4, <2>1, <3>1 DEF ListingInv, ListedInOrder
    <2>2. ASSUME i \in 1..Len(listed), NEW l \in 1..Len(pg), j = Len(listed) + l PROVE Less(listed'[i], listed'[j])
      <3>1. token # None
        BY <1>4, <1>8, <2>2
      <3>2. Less(token, pg[l])
        BY <1>1, <3>1 DEF AfterToken
      <3>3. token \in Seq(Nat) /\ (listed[i] = token \/ Less(listed[i], token))
        BY <1>7, <2>2, <3>1
      <3>4. listed[i] \in Seq(Nat) /\ pg[l] \in Seq(Nat)
        BY <1>4, <2>2
      <3>5. Less(listed[i], pg[l])
        BY <3>2, <3>3, <3>4, LessTransitive
      <3> QED  BY <1>4, <2>2, <3>5
    <2>3. ASSUME NEW m \in 1..Len(pg), i = Len(listed) + m, NEW l \in 1..Len(pg), j = Len(listed) + l
          PROVE  Less(listed'[i], listed'[j])
      <3>1. m < l
        BY <1>4, <2>3
      <3> QED  BY <1>1, <1>4, <2>3, <3>1
    <2>4. CASE j \notin 1..Len(listed)
      <3>1. PICK l \in 1..Len(pg) : j = Len(listed) + l
        BY <1>5, <2>4
      <3>2. i \in 1..Len(listed) \/ \E m \in 1..Len(pg) : i = Len(listed) + m
        BY <1>5
      <3> QED  BY <2>2, <2>3, <3>1, <3>2
    <2> QED  BY <2>1, <2>4
  \* A name that stayed is listed, or after everything that is.
  <1>10. ASSUME NEW n \in steady, UnderParent(n)
         PROVE  n \in ToSet(listed) \/ AfterToken(n)
    <2>1. CASE token = None
      BY <2>1 DEF AfterToken
    <2>2. CASE token # None
      <3>1. n \in Seq(Nat) /\ token \in Seq(Nat) /\ Len(listed) \in 1..Len(listed) /\ token = listed[Len(listed)]
        BY <1>3, <1>4, <1>7, <2>2
      <3>2. CASE Less(token, n)
        BY <3>2 DEF AfterToken
      <3>3. CASE n = token \/ Less(n, token)
        BY <1>10, <3>1, <3>3 DEF ListingInv, NothingIsSkipped
      <3> QED  BY <3>1, <3>2, <3>3, LessTotal
    <2> QED  BY <2>1, <2>2
  <1>11. \A n \in steady : UnderParent(n) /\ n \notin ToSet(listed') =>
           (Len(pg) = V \/ b < Len(Rows)) /\ \A i \in 1..Len(listed') : Less(listed'[i], n)
    <2> SUFFICES ASSUME NEW n \in steady, UnderParent(n), n \notin ToSet(listed')
                 PROVE  (Len(pg) = V \/ b < Len(Rows)) /\ \A i \in 1..Len(listed') : Less(listed'[i], n)
      OBVIOUS
    <2>1. AfterToken(n) /\ n \in names /\ n \in Seq(Nat)
      BY <1>3, <1>6, <1>10
    <2>2. (Len(pg) = V \/ b < Len(Rows)) /\ \A i \in 1..Len(pg) : Less(pg[i], n)
      BY <1>1, <1>6, <2>1
    <2>3. \A i \in 1..Len(listed) : Less(listed[i], n)
      <3> SUFFICES ASSUME NEW i \in 1..Len(listed) PROVE Less(listed[i], n)
        OBVIOUS
      <3>1. token # None
        BY <1>4, <1>8
      <3>2. token \in Seq(Nat) /\ (listed[i] = token \/ Less(listed[i], token)) /\ Less(token, n)
        BY <1>7, <2>1, <3>1 DEF AfterToken
      <3>3. listed[i] \in Seq(Nat)
        BY <1>4
      <3> QED  BY <2>1, <3>2, <3>3, LessTransitive
    <2> QED  BY <1>4, <1>5, <2>2, <2>3
  <1>12. NothingIsSkipped'
    <2>0. \A i \in 1..Len(listed') : listed'[i] \in Seq(Nat)
      BY <1>4, <1>5
    <2> SUFFICES ASSUME NEW n \in steady, UnderParent(n), NEW i \in 1..Len(listed'),
                        n = listed'[i] \/ Less(n, listed'[i]), n \notin ToSet(listed')
                 PROVE  FALSE
      BY <1>2 DEF NothingIsSkipped, UnderParent
    <2>1. Less(listed'[i], n)
      BY <1>11
    <2>2. n \in Seq(Nat) /\ listed'[i] \in Seq(Nat)
      BY <1>3, <2>0
    <2> QED  BY <2>1, <2>2, LessIrreflexive, LessTransitive
  <1>13. ShortPageIsLast'
    <2>1. V \in Nat
      BY ListingAssumption DEF ListingInv, ListingTypes, ValidatePageSize
    <2>2. Len(pg) < V => Len(pg) # V
      BY <1>4, <2>1
    <2> QED  BY <1>2, <1>11, <2>2 DEF ShortPageIsLast, UnderParent, ValidatePageSize
  <1>14. CursorIsLast'
    <2>1. pg # <<>> => Len(pg) \in 1..Len(pg)
      BY <1>3
    <2>2. pg # <<>> => listed' # <<>> /\ Last(pg) = Last(listed')
      BY <1>2, <1>3, <1>4, <2>1 DEF Last
    <2> QED  BY <1>2, <2>2 DEF CursorIsLast
  <1>15. ListingTypes'
    <2>1. listed' \in Seq(Names)
      BY <1>2, <1>3
    <2>2. Names' = Names
      BY <1>2 DEF database, Names
    <2> QED  BY <1>2, <1>3, <2>1, <2>2 DEF ListingInv, ListingTypes, database
  \* An empty page of a query that did not break off found nothing.
  <1>16. VacancyIsNoticed' /\ EmptyAnswerIsTrue'
    <2>1. CASE pg = <<>> /\ ~(b < Len(Rows)) /\ space
      <3>1. V \in Nat /\ V >= 1 /\ Len(pg) = 0
        BY <2>1, ListingAssumption DEF ListingInv, ListingTypes, ValidatePageSize
      <3>2. ~\E n \in names : UnderParent(n) /\ AfterToken(n)
        BY <1>1, <2>1, <3>1
      <3>3. vacated
        BY <1>2, <2>1, <3>2 DEF ListingInv, VacancyIsNoticed, Vacant
      <3> QED  BY <1>2, <3>3 DEF ListingInv, VacancyIsNoticed, EmptyAnswerIsTrue, database
    <2>2. CASE ~(pg = <<>> /\ ~(b < Len(Rows)) /\ space)
      BY <1>2, <2>2 DEF ListingInv, VacancyIsNoticed, EmptyAnswerIsTrue, database
    <2> QED  BY <2>1, <2>2
  <1> QED
    BY <1>2, <1>9, <1>12, <1>13, <1>14, <1>15, <1>16 DEF ListingInv

\* The others: what is deleted did not stay, what is created was not there.
LEMMA ChangeStep ==
    ListingInv /\ (\/ \E n \in Names : Create(n) \/ Delete(n)
                   \/ ToggleNamespace)
    => ListingInv'
  <1> SUFFICES ASSUME ListingInv, \/ \E n \in Names : Create(n) \/ Delete(n)
                                  \/ ToggleNamespace
               PROVE  ListingInv'
    OBVIOUS
  <1>1. UNCHANGED <<inNamespace, phase, parent, size, token, page, listed>>
    BY DEF Create, Delete, ToggleNamespace
  <1>2. names' \subseteq Names /\ IsFiniteSet(names') /\ steady' \subseteq names' /\ steady' \subseteq steady
    <2>1. names \subseteq Names /\ IsFiniteSet(names) /\ steady \subseteq names
      BY DEF ListingInv, ListingTypes
    <2>2. ASSUME NEW n \in Names, Create(n) PROVE names' \subseteq Names /\ IsFiniteSet(names') /\ steady' \subseteq names' /\ steady' \subseteq steady
      BY <2>1, <2>2, FS_AddElement DEF Create
    <2>3. ASSUME NEW n \in Names, Delete(n) PROVE names' \subseteq Names /\ IsFiniteSet(names') /\ steady' \subseteq names' /\ steady' \subseteq steady
      BY <2>1, <2>3, FS_RemoveElement DEF Delete
    <2>4. CASE ToggleNamespace
      BY <2>1, <2>4, FS_EmptySet DEF ToggleNamespace
    <2> QED  BY <2>2, <2>3, <2>4
  <1>3. /\ space' \in BOOLEAN /\ broken' = broken /\ vacated' \in BOOLEAN
        /\ vacated => vacated'
    <2>1. Vacant' \in BOOLEAN
      BY DEF Vacant
    <2> QED  BY <2>1 DEF ListingInv, ListingTypes, Create, Delete, ToggleNamespace
  <1>4. ListingTypes'
    BY <1>1, <1>2, <1>3 DEF ListingInv, ListingTypes, Names
  <1>5. VacancyIsNoticed'
    <2>1. ASSUME NEW n \in Names, Create(n) PROVE VacancyIsNoticed'
      <3>1. Vacant' => Vacant
        BY <2>1 DEF Create, Vacant, UnderParent, AfterToken
      <3> QED  BY <2>1, <3>1 DEF Create, ListingInv, VacancyIsNoticed
    <2>2. ASSUME NEW n \in Names, Delete(n) PROVE VacancyIsNoticed'
      BY <2>2 DEF Delete, ListingInv, VacancyIsNoticed
    <2>3. CASE ToggleNamespace
      <3>1. space' => Vacant'
        BY <2>3 DEF ToggleNamespace, Vacant
      <3> QED  BY <2>3, <3>1 DEF ToggleNamespace, VacancyIsNoticed
    <2> QED  BY <2>1, <2>2, <2>3
  <1>5a. EmptyAnswerIsTrue'
    BY <1>1, <1>3 DEF ListingInv, EmptyAnswerIsTrue
  <1>6. ListedInOrder' /\ CursorIsLast'
    BY <1>1 DEF ListingInv, ListedInOrder, CursorIsLast
  <1>7. NothingIsSkipped' /\ ShortPageIsLast'
    BY <1>1, <1>2, <1>3 DEF ListingInv, NothingIsSkipped, ShortPageIsLast, UnderParent, ValidatePageSize
  <1> QED  BY <1>4, <1>5, <1>5a, <1>6, <1>7 DEF ListingInv

\* The invariant holds throughout.
LEMMA ListingInvHolds == Spec => []ListingInv
  <1>1. ListingInv /\ [Next]_vars => ListingInv'
    <2> SUFFICES ASSUME ListingInv, [Next]_vars PROVE ListingInv'
      OBVIOUS
    <2>1. ASSUME NEW p \in Parents, NEW n \in Sizes, Begin(p, n) PROVE ListingInv'
      <3>1. p \in Seq(Nat) /\ n \in Nat
        BY ListingAssumption
      <3>2. listed = <<>> /\ page = <<>> /\ token = None
        BY <2>1 DEF ListingInv, CursorIsLast, Begin
      <3>3. ListingTypes'
        <4>1. Vacant' \in BOOLEAN
          BY DEF Vacant
        <4> QED  BY <2>1, <3>1, <4>1 DEF ListingInv, ListingTypes, Begin, database, Names
      <3>4. VacancyIsNoticed' /\ EmptyAnswerIsTrue' /\ ShortPageIsLast'
        BY <2>1 DEF ListingInv, Begin, VacancyIsNoticed, EmptyAnswerIsTrue, ShortPageIsLast, database
      <3>5. ListedInOrder' /\ CursorIsLast'
        BY <2>1, <3>2 DEF Begin, ListedInOrder, CursorIsLast
      <3>6. NothingIsSkipped'
        <4>1. 1..Len(listed') = {}
          BY <2>1, <3>2 DEF Begin
        <4> QED  BY <4>1 DEF NothingIsSkipped
      <3> QED  BY <3>3, <3>4, <3>5, <3>6 DEF ListingInv
    <2>2. CASE CheckNamespace
      <3>1. UNCHANGED <<database, parent, size, token, page, listed, steady, broken, vacated>>
            /\ phase = "checking" /\ phase' = IF space THEN "ended" ELSE "notFound"
        BY <2>2 DEF CheckNamespace
      <3>2. ListingTypes' /\ VacancyIsNoticed' /\ EmptyAnswerIsTrue'
        BY <3>1 DEF ListingInv, ListingTypes, VacancyIsNoticed, EmptyAnswerIsTrue, database, Names
      <3>3. ListedInOrder' /\ CursorIsLast'
        BY <3>1 DEF ListingInv, ListedInOrder, CursorIsLast
      <3>4. NothingIsSkipped' /\ ShortPageIsLast'
        BY <3>1 DEF ListingInv, NothingIsSkipped, ShortPageIsLast, UnderParent, ValidatePageSize
      <3> QED  BY <3>2, <3>3, <3>4 DEF ListingInv
    <2>3. CASE Resume
      <3>1. UNCHANGED <<database, parent, size, page, listed, steady, broken>> /\ vacated' = Vacant'
            /\ phase = "ended" /\ phase' = "listing" /\ page # <<>> /\ token' = Last(page)
        BY <2>3 DEF Resume
      <3>2. listed # <<>> /\ token' = Last(listed)
        BY <3>1 DEF ListingInv, CursorIsLast
      <3>3. Last(listed) \in Names
        BY <3>2 DEF ListingInv, ListingTypes, Last
      <3>4. ListingTypes' /\ VacancyIsNoticed' /\ EmptyAnswerIsTrue'
        <4>1. Vacant' \in BOOLEAN
          BY DEF Vacant
        <4> QED  BY <3>1, <3>2, <3>3, <4>1 DEF ListingInv, ListingTypes, VacancyIsNoticed, EmptyAnswerIsTrue, database, Names
      <3>5. ListedInOrder' /\ CursorIsLast'
        BY <3>1, <3>2 DEF ListingInv, ListedInOrder, CursorIsLast
      <3>6. NothingIsSkipped' /\ ShortPageIsLast'
        BY <3>1 DEF ListingInv, NothingIsSkipped, ShortPageIsLast, UnderParent
      <3> QED  BY <3>4, <3>5, <3>6 DEF ListingInv
    <2>4. CASE Fail \/ UNCHANGED vars
      <3>1. /\ UNCHANGED <<database, parent, size, token, page, listed, steady, broken, vacated>>
            /\ phase' = phase \/ phase' = "failed"
        BY <2>4 DEF Fail, vars, database
      <3>2. ListingTypes' /\ VacancyIsNoticed' /\ EmptyAnswerIsTrue'
        BY <3>1 DEF ListingInv, ListingTypes, VacancyIsNoticed, EmptyAnswerIsTrue, database, Names,
           Vacant, UnderParent, AfterToken
      <3>3. ListedInOrder' /\ CursorIsLast'
        <4>1. phase' # "idle" \/ phase' = phase
          BY <3>1
        <4> QED  BY <3>1, <4>1 DEF ListingInv, ListedInOrder, CursorIsLast
      <3>4. NothingIsSkipped' /\ ShortPageIsLast'
        BY <3>1 DEF ListingInv, NothingIsSkipped, ShortPageIsLast, UnderParent, ValidatePageSize
      <3> QED  BY <3>2, <3>3, <3>4 DEF ListingInv
    <2> QED  BY <2>1, <2>2, <2>3, <2>4, ServePageStep, ChangeStep DEF Next
  <1> QED  BY <1>1, ListingInit, PTL DEF Spec

\* However the catalog changes between the pages and wherever a query breaks off,
\* the names come in order, once and without a hole, and a client that goes on
\* until a page is not full, though its query did not break off, has seen every
\* name that was there all the while.
THEOREM ListingsAreComplete == Spec => []ResumedListingIsComplete
  <1>1. ListingInv => ResumedListingIsComplete
    <2> SUFFICES ASSUME ListingInv PROVE ResumedListingIsComplete
      OBVIOUS
    <2>1. DOMAIN listed = 1..Len(listed)
      BY DEF ListingInv, ListingTypes
    <2> QED  BY <2>1 DEF ListingInv, ListedInOrder, NothingIsSkipped, ShortPageIsLast, ResumedListingIsComplete
  <1> QED  BY <1>1, ListingInvHolds, PTL

\* A namespace that is said to be empty existed and had nothing to list at one
\* moment of the request, although the page and the namespace are read by two
\* queries, unless the query of the page broke off.
THEOREM EmptyAnswersAreTrue == Spec => []EmptyAnswerIsTrue
  <1>1. ListingInv => EmptyAnswerIsTrue
    BY DEF ListingInv
  <1> QED  BY <1>1, ListingInvHolds, PTL

\* The server never sends the token of a next page: a page that it serves ends
\* the listing, or leaves only its namespace to be looked at.
THEOREM NoPageHasAToken == Spec => [][ServePage => token' = None /\ phase' # "listing"]_vars
  <1>1. ListingInv => (ServePage => token' = None /\ phase' # "listing")
    <2> SUFFICES ASSUME ListingInv, ServePage PROVE token' = None /\ phase' # "listing"
      OBVIOUS
    <2>1. PICK b \in 0..Len(Rows) : Serve(SubSeq(Rows, 1, b))
      BY DEF ServePage
    <2>2. NextToken(SubSeq(Rows, 1, b)) = None
      BY PageIsFirstRows DEF ListingInv
    <2> QED  BY <2>1, <2>2 DEF Serve
  <1> QED  BY <1>1, ListingInvHolds, PTL
=============================================================================
