----------------------------- MODULE EditorsProofs -----------------------------
(***************************************************************************)
(* What TLAPS proves of the panels, forms, editors and wizards and of the  *)
(* explorer, of each by itself, for WorkbenchProofs to put together.  The  *)
(* lists that filter and sort return come first.                           *)
(***************************************************************************)
EXTENDS JobPanels, PropertyForm, SchemaMapping, DatabaseForm, OntologyEditor, UploadWizard,
        OntologyVersions, Explorer, FiniteSetTheorems, SequenceTheorems, WellFoundedInduction,
        TLAPS

(* -------------------------------- lists --------------------------------- *)
(* A strict total order of the places.                                      *)
Orders(order, places) ==
  /\ \A i \in places : <<i, i>> \notin order
  /\ \A i, j \in places : i # j => <<i, j>> \in order \/ <<j, i>> \in order
  /\ \A i, j, k \in places : <<i, j>> \in order /\ <<j, k>> \in order => <<i, k>> \in order

Before(places, order, i) == {j \in places : <<j, i>> \in order}

\* Fewer places come before a place that comes first.
LEMMA BeforeGrows ==
  ASSUME NEW places, IsFiniteSet(places), NEW order, Orders(order, places),
         NEW i \in places, NEW j \in places, <<i, j>> \in order
  PROVE  Cardinality(Before(places, order, i)) < Cardinality(Before(places, order, j))
<1>. DEFINE bi == Before(places, order, i)
            bj == Before(places, order, j)
<1>1. bi \subseteq places /\ bj \subseteq places /\ bi \subseteq bj /\ i \in bj /\ i \notin bi
  BY DEF Before, Orders
<1>2. IsFiniteSet(bj) /\ IsFiniteSet(bi)
  BY <1>1, FS_Subset
<1>. HIDE DEF bi, bj
<1>3. Cardinality(bi) <= Cardinality(bj) /\ Cardinality(bi) # Cardinality(bj)
  BY <1>1, <1>2, FS_Subset
<1>4. Cardinality(bi) \in Nat /\ Cardinality(bj) \in Nat
  BY <1>2, FS_CardinalityType
<1>. QED  BY <1>3, <1>4 DEF bi, bj

(* Each place comes n-th for one n, and the n-th before those that follow.  *)
LEMMA Ranked ==
  ASSUME NEW places, IsFiniteSet(places), NEW order, Orders(order, places)
  PROVE  /\ Cardinality(places) \in Nat
         /\ \A n \in 1..Cardinality(places) : Nth(places, order, n) \in places
         /\ \A i \in places : \E n \in 1..Cardinality(places) : Nth(places, order, n) = i
         /\ \A m, n \in 1..Cardinality(places) :
              m < n => <<Nth(places, order, m), Nth(places, order, n)>> \in order
<1>. DEFINE c == Cardinality(places)
            rank == [i \in places |-> Cardinality(Before(places, order, i)) + 1]
<1>1. c \in Nat
  BY FS_CardinalityType
<1>2. ASSUME NEW i \in places PROVE Cardinality(Before(places, order, i)) \in 0..(c - 1)
  <2>1. Before(places, order, i) \subseteq places /\ i \notin Before(places, order, i)
    BY DEF Before, Orders
  <2>2. IsFiniteSet(Before(places, order, i))
    BY <2>1, FS_Subset
  <2>3. Cardinality(Before(places, order, i)) <= c /\ Cardinality(Before(places, order, i)) # c
    BY <2>1, FS_Subset
  <2>4. Cardinality(Before(places, order, i)) \in Nat
    BY <2>2, FS_CardinalityType
  <2>. QED  BY <1>1, <2>3, <2>4
<1>3. rank \in [places -> 1..c]
  BY <1>1, <1>2
<1>4. ASSUME NEW i \in places, NEW j \in places, <<i, j>> \in order PROVE rank[i] < rank[j]
  <2>1. Cardinality(Before(places, order, i)) < Cardinality(Before(places, order, j))
    BY <1>4, BeforeGrows
  <2>. QED  BY <1>1, <1>2, <2>1
<1>5. ASSUME NEW i \in places, NEW j \in places, i # j PROVE rank[i] # rank[j]
  <2>1. rank[i] \in 1..c /\ rank[j] \in 1..c
    BY <1>3
  <2>2. rank[i] < rank[j] \/ rank[j] < rank[i]
    BY <1>4, <1>5 DEF Orders
  <2>. QED  BY <1>1, <2>1, <2>2
<1>6. \A i \in places, n \in 1..c :
        rank[i] = n <=> Cardinality({j \in places : <<j, i>> \in order}) = n - 1
  BY <1>1, <1>2 DEF Before
<1>. HIDE DEF rank, c
<1>7. rank \in Injection(places, 1..c)
  BY <1>3, <1>5 DEF Injection, IsInjective
<1>8. rank \in Surjection(places, 1..c)
  <2>1. IsFiniteSet(1..c) /\ Cardinality(1..c) = c
    BY <1>1, FS_Interval
  <2>. QED  BY <1>7, <2>1, FS_Injection DEF c
<1>9. \A n \in 1..c : \E i \in places : rank[i] = n
  BY <1>8 DEF Surjection
<1>10. ASSUME NEW n \in 1..c
       PROVE  Nth(places, order, n) \in places /\ rank[Nth(places, order, n)] = n
  <2>1. \E i \in places : Cardinality({j \in places : <<j, i>> \in order}) = n - 1
    BY <1>6, <1>9
  <2>2. /\ Nth(places, order, n) \in places
        /\ Cardinality({j \in places : <<j, Nth(places, order, n)>> \in order}) = n - 1
    BY <2>1 DEF Nth
  <2>. QED  BY <1>6, <2>2
<1>11. \A i \in places : Nth(places, order, rank[i]) = i
  BY <1>3, <1>5, <1>10
<1>12. ASSUME NEW m \in 1..c, NEW n \in 1..c, m < n
       PROVE  <<Nth(places, order, m), Nth(places, order, n)>> \in order
  <2>. DEFINE i == Nth(places, order, m)
              j == Nth(places, order, n)
  <2>1. i \in places /\ j \in places /\ rank[i] = m /\ rank[j] = n
    BY <1>10
  <2>. HIDE DEF i, j
  <2>2. i # j /\ ~(rank[j] < rank[i])
    BY <1>1, <1>12, <2>1
  <2>3. <<i, j>> \in order
    BY <1>4, <2>1, <2>2 DEF Orders
  <2>. QED  BY <2>3 DEF i, j
<1>. QED  BY <1>1, <1>3, <1>10, <1>11, <1>12 DEF c

LEMMA InTurnOrders ==
  ASSUME NEW places \in SUBSET Int
  PROVE  Orders(InTurn(places), places)
BY DEF InTurn, Orders

(* What filter keeps: each of the entries, in the order they had.           *)
LEMMA AtKeeps ==
  ASSUME NEW seq, NEW places \in SUBSET Nat, IsFiniteSet(places)
  PROVE  /\ Cardinality(places) \in Nat /\ DOMAIN At(seq, places) = 1..Cardinality(places)
         /\ \A i \in places : \E n \in DOMAIN At(seq, places) : At(seq, places)[n] = seq[i]
         /\ \A n \in DOMAIN At(seq, places) :
              /\ Nth(places, InTurn(places), n) \in places
              /\ At(seq, places)[n] = seq[Nth(places, InTurn(places), n)]
         /\ \A m, n \in DOMAIN At(seq, places) :
              m < n => Nth(places, InTurn(places), m) < Nth(places, InTurn(places), n)
<1>. DEFINE order == InTurn(places)
<1>1. Orders(order, places)
  BY InTurnOrders
<1>2. /\ Cardinality(places) \in Nat
      /\ \A n \in 1..Cardinality(places) : Nth(places, order, n) \in places
      /\ \A i \in places : \E n \in 1..Cardinality(places) : Nth(places, order, n) = i
      /\ \A m, n \in 1..Cardinality(places) :
           m < n => <<Nth(places, order, m), Nth(places, order, n)>> \in order
  <2>. HIDE DEF order
  <2>. QED  BY <1>1, Ranked
<1>3. /\ DOMAIN At(seq, places) = 1..Cardinality(places)
      /\ \A n \in 1..Cardinality(places) : At(seq, places)[n] = seq[Nth(places, order, n)]
  BY DEF At, Arranged
<1>4. \A i, j : <<i, j>> \in order => i < j
  BY DEF InTurn
<1>. HIDE DEF order
<1>5. \A i \in places : \E n \in DOMAIN At(seq, places) : At(seq, places)[n] = seq[i]
  BY <1>2, <1>3
<1>6. \A m, n \in DOMAIN At(seq, places) : m < n => Nth(places, order, m) < Nth(places, order, n)
  BY <1>2, <1>3, <1>4
<1>. QED  BY <1>2, <1>3, <1>5, <1>6 DEF order

(* What is left of a list of T: entries of it, those at the places.         *)
LEMMA KeptOfList ==
  ASSUME NEW T, NEW seq \in Seq(T), NEW places \in SUBSET (1..Len(seq))
  PROVE  /\ At(seq, places) \in Seq(T) /\ Len(At(seq, places)) = Cardinality(places)
         /\ \A n \in 1..Len(At(seq, places)) : \E i \in places : At(seq, places)[n] = seq[i]
         /\ \A i \in places : \E n \in 1..Len(At(seq, places)) : At(seq, places)[n] = seq[i]
         /\ \A m, n \in 1..Len(At(seq, places)) :
              m < n => \E i, j \in places : /\ i < j /\ At(seq, places)[m] = seq[i]
                                           /\ At(seq, places)[n] = seq[j]
<1>. DEFINE left == At(seq, places)
            origin(n) == Nth(places, InTurn(places), n)
<1>1. Len(seq) \in Nat /\ places \in SUBSET Nat
  OBVIOUS
<1>2. IsFiniteSet(places)
  <2>1. IsFiniteSet(1..Len(seq))
    BY <1>1, FS_Interval
  <2>. QED  BY <2>1, FS_Subset
<1>3. /\ Cardinality(places) \in Nat /\ DOMAIN left = 1..Cardinality(places)
      /\ \A i \in places : \E n \in DOMAIN left : left[n] = seq[i]
      /\ \A n \in DOMAIN left : origin(n) \in places /\ left[n] = seq[origin(n)]
      /\ \A m, n \in DOMAIN left : m < n => origin(m) < origin(n)
  BY <1>1, <1>2, AtKeeps
<1>4. left = [n \in 1..Cardinality(places) |-> seq[origin(n)]]
  BY DEF At, Arranged
<1>. HIDE DEF origin
<1>5. left \in Seq(T) /\ Len(left) = Cardinality(places)
  <2>1. \A n \in 1..Cardinality(places) : seq[origin(n)] \in T
    BY <1>3
  <2>. QED  BY <1>3, <1>4, <2>1
<1>. HIDE DEF left
<1>6. DOMAIN left = 1..Len(left)
  BY <1>5
<1>7. \A m, n \in 1..Len(left) : m < n =>
        \E i, j \in places : i < j /\ left[m] = seq[i] /\ left[n] = seq[j]
  <2>. SUFFICES ASSUME NEW m \in 1..Len(left), NEW n \in 1..Len(left), m < n
                PROVE  \E i, j \in places : i < j /\ left[m] = seq[i] /\ left[n] = seq[j]
    OBVIOUS
  <2>1. origin(m) \in places /\ left[m] = seq[origin(m)] /\ origin(n) \in places
        /\ left[n] = seq[origin(n)] /\ origin(m) < origin(n)
    BY <1>3, <1>6
  <2>. QED  BY <2>1
<1>. QED  BY <1>3, <1>5, <1>6, <1>7 DEF left

LEMMA KeptInOrder ==
  ASSUME NEW T, NEW seq \in Seq(T), NEW places \in SUBSET (1..Len(seq)),
         NEW m \in 1..Len(At(seq, places)), NEW n \in 1..Len(At(seq, places)), m < n
  PROVE  \E i, j \in places : i < j /\ At(seq, places)[m] = seq[i] /\ At(seq, places)[n] = seq[j]
BY KeptOfList

LEMMA KeptPairs ==
  ASSUME NEW T, NEW seq \in Seq(T), NEW places \in SUBSET (1..Len(seq))
  PROVE  \A m, n \in 1..Len(At(seq, places)) :
           m < n => \E i, j \in places : /\ i < j /\ At(seq, places)[m] = seq[i]
                                        /\ At(seq, places)[n] = seq[j]
BY KeptOfList

(* No entry is left twice of a list that has none twice.                    *)
LEMMA KeptOnce ==
  ASSUME NEW T, NEW seq \in Seq(T), NEW places \in SUBSET (1..Len(seq)),
         \A i, j \in 1..Len(seq) : seq[i] = seq[j] => i = j
  PROVE  \A m, n \in 1..Len(At(seq, places)) : At(seq, places)[m] = At(seq, places)[n] => m = n
<1>. DEFINE left == At(seq, places)
<1>1. /\ left \in Seq(T)
      /\ \A m, n \in 1..Len(left) : m < n =>
           \E i, j \in places : i < j /\ left[m] = seq[i] /\ left[n] = seq[j]
  BY KeptOfList
<1>. HIDE DEF left
<1>2. ASSUME NEW m \in 1..Len(left), NEW n \in 1..Len(left), m < n PROVE left[m] # left[n]
  <2>1. PICK i \in places, j \in places : i < j /\ left[m] = seq[i] /\ left[n] = seq[j]
    BY <1>1, <1>2
  <2>2. i \in 1..Len(seq) /\ j \in 1..Len(seq) /\ i # j
    BY <2>1
  <2>. QED  BY <2>1, <2>2
<1>3. \A m, n \in 1..Len(left) : m < n \/ n < m \/ m = n
  BY <1>1
<1>. QED  BY <1>2, <1>3 DEF left

(* The entries of a finite set, as a list: each of them, and once.          *)
LEMMA SetListed ==
  ASSUME NEW S, IsFiniteSet(S)
  PROVE  /\ SetToSeq(S) \in Seq(S)
         /\ \A i, j \in 1..Len(SetToSeq(S)) : SetToSeq(S)[i] = SetToSeq(S)[j] => i = j
         /\ \A x \in S : \E i \in 1..Len(SetToSeq(S)) : SetToSeq(S)[i] = x
<1>. DEFINE c == Cardinality(S)
            l == SetToSeq(S)
<1>1. c \in Nat /\ ExistsBijection(1..c, S)
  BY FS_CardinalityType
<1>2. \E f \in [1..c -> S] : IsInjective(f)
  BY <1>1 DEF ExistsBijection, Bijection, Injection
<1>3. l \in [1..c -> S] /\ IsInjective(l)
  BY <1>2 DEF SetToSeq
<1>. HIDE DEF l
<1>4. l \in Seq(S) /\ Len(l) = c /\ DOMAIN l = 1..c
  <2>. HIDE DEF c
  <2>. QED  BY <1>1, <1>3
<1>5. \A i, j \in 1..c : l[i] = l[j] => i = j
  BY <1>3, <1>4 DEF IsInjective
<1>6. l \in Injection(1..c, S)
  BY <1>3 DEF Injection
<1>7. IsFiniteSet(1..c) /\ Cardinality(1..c) = c
  <2>. HIDE DEF c
  <2>. QED  BY <1>1, FS_Interval
<1>8. l \in Surjection(1..c, S)
  BY <1>6, <1>7, FS_Injection
<1>9. \A x \in S : \E i \in 1..c : l[i] = x
  BY <1>8 DEF Surjection
<1>. QED  BY <1>4, <1>5, <1>9 DEF l

(* Induction over the numbers.                                              *)
LEMMA Counting ==
  ASSUME NEW S, 0 \in S, \A n \in Nat : n \in S => n + 1 \in S
  PROVE  Nat \subseteq S
<1>. DEFINE T == Nat \ S
            R == OpToRel(<, Nat)
<1>1. SUFFICES ASSUME T # {} PROVE FALSE
  OBVIOUS
<1>2. IsWellFoundedOn(R, Nat)
  BY NatLessThanWellFounded
<1>3. T \subseteq Nat
  OBVIOUS
<1>. HIDE DEF R, T
<1>4. PICK n \in T : \A m \in T : ~(<<m, n>> \in R)
  BY <1>1, <1>2, <1>3, WFMin
<1>5. n \in Nat /\ n \notin S /\ n # 0
  BY <1>3, <1>4 DEF T
<1>6. n - 1 \in Nat /\ (n - 1) + 1 = n /\ n - 1 < n
  BY <1>5
<1>7. n - 1 \in S
  BY <1>3, <1>4, <1>6 DEF T, R, OpToRel
<1>8. (n - 1) + 1 \in S
  BY <1>6, <1>7
<1>. QED  BY <1>5, <1>6, <1>8

\* Of some numbers up to n one is the greatest.
LEMMA HasGreatest ==
  ASSUME NEW n \in Nat, NEW S \in SUBSET (1..n), S # {}
  PROVE  \E m \in S : \A x \in S : m >= x
<1>. DEFINE T == {k \in Nat : k <= n /\ n - k \in S}
            R == OpToRel(<, Nat)
<1>1. IsWellFoundedOn(R, Nat)
  BY NatLessThanWellFounded
<1>2. \A x \in S : x \in 1..n /\ n - x \in Nat /\ n - x <= n /\ n - (n - x) = x
  OBVIOUS
<1>3. T \subseteq Nat /\ T # {}
  BY <1>2
<1>. HIDE DEF R, T
<1>4. PICK k \in T : \A j \in T : ~(<<j, k>> \in R)
  BY <1>1, <1>3, WFMin
<1>5. k \in Nat /\ n - k \in S
  BY <1>4 DEF T
<1>6. \A x \in S : n - k >= x
  <2>. SUFFICES ASSUME NEW x \in S, n - k < x PROVE FALSE
    BY <1>2, <1>5
  <2>1. n - x \in T
    BY <1>2 DEF T
  <2>2. n - x < k
    BY <1>2, <1>5
  <2>3. n - x \in Nat
    BY <1>2
  <2>4. <<n - x, k>> \in R
    BY <1>5, <2>2, <2>3 DEF R, OpToRel
  <2>. QED  BY <1>4, <2>1, <2>4
<1>. QED  BY <1>5, <1>6

(* ------------------------------ the panels ------------------------------ *)
InOrder(s) == \A i, j \in 1..Len(s) : i < j => Earlier(s[i], s[j])

(* The log is in order and not too long, and the answers are tables.        *)
PanelsInv ==
  /\ logs \in Seq(Line) /\ Len(logs) <= maxLines /\ InOrder(logs)
  /\ table \in RunTable
  /\ polls \in [Polls -> [pc : {"idle", "asked", "served"}, rows : RunTable]]

Trimmed(old, new) ==
  new # <<>> => \A l \in ToSet(old) \ ToSet(new) :
                  Len(new) = maxLines /\ \A k \in ToSet(new) : Earlier(l, k)

LEMMA TimesApart ==
  ASSUME NEW k \in Line, NEW l \in Line
  PROVE  Time(k) \in Int /\ (k # l => Time(k) # Time(l))
<1>1. k = [run |-> k.run, part |-> k.part] /\ l = [run |-> l.run, part |-> l.part]
      /\ k.run \in Int /\ l.run \in Int
      /\ k.part \in {"start", "out", "done"} /\ l.part \in {"start", "out", "done"}
  BY PanelsAssumption DEF Line, JobRuns, PanelsAssumption
<1>2. /\ Time(k) = 5 * k.run + (IF k.part = "start" THEN 0 ELSE IF k.part = "done" THEN 1 ELSE 7)
      /\ Time(l) = 5 * l.run + (IF l.part = "start" THEN 0 ELSE IF l.part = "done" THEN 1 ELSE 7)
  BY <1>1 DEF Time
<1>3. PICK a \in {0, 1, 7}, b \in {0, 1, 7} :
        /\ a = (IF k.part = "start" THEN 0 ELSE IF k.part = "done" THEN 1 ELSE 7)
        /\ b = (IF l.part = "start" THEN 0 ELSE IF l.part = "done" THEN 1 ELSE 7)
  OBVIOUS
<1>4. a = b => k.part = l.part
  BY <1>1, <1>3
<1>5. Time(k) = 5 * k.run + a /\ Time(l) = 5 * l.run + b
  BY <1>2, <1>3
<1>6. Time(k) = Time(l) => a = b /\ k.run = l.run
  <2>1. PICK x \in Int, y \in Int : x = k.run /\ y = l.run
    BY <1>1
  <2>2. 5 * x + a = 5 * y + b => a = b /\ x = y
    OBVIOUS
  <2>. QED  BY <1>5, <2>1, <2>2
<1>. QED  BY <1>1, <1>4, <1>5, <1>6

\* Lines that are all different are put in the order of their times.
LEMMA InTimeSorts ==
  ASSUME NEW s \in Seq(Line), \A i, j \in 1..Len(s) : s[i] = s[j] => i = j
  PROVE  /\ InTime(s) \in Seq(Line) /\ InOrder(InTime(s))
         /\ \A i \in 1..Len(s) : \E n \in 1..Len(InTime(s)) : InTime(s)[n] = s[i]
<1>. DEFINE P == 1..Len(s)
            R == {p \in P \X P :
                    Earlier(s[p[1]], s[p[2]]) \/ (~Earlier(s[p[2]], s[p[1]]) /\ p[1] < p[2])}
<1>1. Len(s) \in Nat /\ IsFiniteSet(P) /\ Cardinality(P) = Len(s) /\ DOMAIN s = P
  BY FS_Interval
<1>2. \A i, j \in P : s[i] \in Line /\ Time(s[i]) \in Int /\ (i # j => Time(s[i]) # Time(s[j]))
  BY TimesApart
<1>3. \A i, j \in P : <<i, j>> \in R <=> Time(s[i]) < Time(s[j])
  BY <1>2 DEF Earlier
<1>4. InTime(s) = Arranged(s, P, R)
  BY <1>1 DEF InTime
<1>. HIDE DEF R, P
<1>5. Orders(R, P)
  BY <1>2, <1>3 DEF Orders
<1>6. /\ \A n \in 1..Len(s) : Nth(P, R, n) \in P
      /\ \A i \in P : \E n \in 1..Len(s) : Nth(P, R, n) = i
      /\ \A m, n \in 1..Len(s) : m < n => <<Nth(P, R, m), Nth(P, R, n)>> \in R
  BY <1>1, <1>5, Ranked
<1>7. InTime(s) = [n \in 1..Len(s) |-> s[Nth(P, R, n)]]
  BY <1>1, <1>4 DEF Arranged
<1>8. InTime(s) \in Seq(Line) /\ Len(InTime(s)) = Len(s)
  BY <1>1, <1>2, <1>6, <1>7
<1>9. \A n \in 1..Len(s) : InTime(s)[n] = s[Nth(P, R, n)]
  BY <1>7
<1>10. InOrder(InTime(s))
  BY <1>3, <1>6, <1>8, <1>9 DEF InOrder, Earlier
<1>. QED  BY <1>6, <1>8, <1>9, <1>10 DEF P

\* The last lines are kept, all of them unless there are too many.
LEMMA LastLinesStay ==
  ASSUME NEW s \in Seq(Line), InOrder(s)
  PROVE  /\ NewestLines(s) \in Seq(Line) /\ InOrder(NewestLines(s))
         /\ Len(NewestLines(s)) <= maxLines
         /\ \A i \in 1..Len(s) :
              \/ \E n \in 1..Len(NewestLines(s)) : NewestLines(s)[n] = s[i]
              \/ /\ Len(NewestLines(s)) = maxLines
                 /\ \A n \in 1..Len(NewestLines(s)) : Earlier(s[i], NewestLines(s)[n])
<1>. DEFINE d == Max({0, Len(s) - maxLines})
            u == NewestLines(s)
<1>1. maxLines \in Nat \ {0} /\ Len(s) \in Nat
  BY PanelsAssumption DEF PanelsAssumption
<1>2. d = IF Len(s) > maxLines THEN Len(s) - maxLines ELSE 0
  <2>1. \E x \in {0, Len(s) - maxLines} : \A y \in {0, Len(s) - maxLines} : x >= y
    BY <1>1
  <2>2. d \in {0, Len(s) - maxLines} /\ d >= 0 /\ d >= Len(s) - maxLines
    BY <2>1 DEF Max
  <2>. QED  BY <1>1, <2>2
<1>3. u = SubSeq(s, 1 + d, Len(s))
  BY DEF NewestLines
<1>. HIDE DEF d, u
<1>4. d \in 0..Len(s) /\ Len(s) - d <= maxLines /\ (d > 0 => Len(s) - d = maxLines)
  BY <1>1, <1>2
<1>5. u \in Seq(Line) /\ Len(u) = Len(s) - d /\ \A n \in 1..(Len(s) - d) : u[n] = s[n + d]
  BY <1>1, <1>3, <1>4, SubSeqProperties
<1>6. InOrder(u)
  <2>. SUFFICES ASSUME NEW i \in 1..Len(u), NEW j \in 1..Len(u), i < j
                PROVE  Earlier(u[i], u[j])
    BY DEF InOrder
  <2>1. i + d \in 1..Len(s) /\ j + d \in 1..Len(s) /\ i + d < j + d
    BY <1>1, <1>4, <1>5
  <2>. QED  BY <1>5, <2>1 DEF InOrder
<1>7. ASSUME NEW i \in 1..Len(s)
      PROVE  \/ \E n \in 1..Len(u) : u[n] = s[i]
             \/ Len(u) = maxLines /\ \A n \in 1..Len(u) : Earlier(s[i], u[n])
  <2>1. CASE i > d
    <3>1. i - d \in 1..(Len(s) - d) /\ (i - d) + d = i
      BY <1>1, <1>4, <2>1
    <3>2. u[i - d] = s[i] /\ i - d \in 1..Len(u)
      BY <1>5, <3>1
    <3>. QED  BY <3>2
  <2>2. CASE i <= d
    <3>1. Len(u) = maxLines
      BY <1>1, <1>4, <1>5, <2>2
    <3>2. \A n \in 1..Len(u) : n + d \in 1..Len(s) /\ i < n + d
      BY <1>1, <1>4, <1>5, <2>2
    <3>3. \A n \in 1..Len(u) : Earlier(s[i], u[n])
      BY <1>5, <3>2 DEF InOrder
    <3>. QED  BY <3>1, <3>3
  <2>. QED  BY <1>1, <1>4, <2>1, <2>2
<1>. QED  BY <1>4, <1>5, <1>6, <1>7 DEF u
LEMMA CandidatesDiffer ==
  /\ Candidates \in Seq(Line)
  /\ \A i, j \in 1..Len(Candidates) : Candidates[i] = Candidates[j] => i = j
<1>. DEFINE parts == <<"start", "out", "done">>
            run(i) == MaxRuns - ((i - 1) \div 3)
            part(i) == parts[1 + ((i - 1) % 3)]
<1>1. PICK m \in Nat \ {0} : m = MaxRuns
  BY PanelsAssumption DEF PanelsAssumption
<1>2. \A x \in 0..(3 * m - 1) : x \div 3 \in 0..(m - 1) /\ x % 3 \in 0..2 /\ x = (3 * (x \div 3)) + (x % 3)
  OBVIOUS
<1>3. \A i \in 1..3 * m : i - 1 \in 0..(3 * m - 1)
  OBVIOUS
<1>4. \A i \in 1..3 * m : /\ run(i) \in 1..m /\ 1 + ((i - 1) % 3) \in 1..3
                           /\ i - 1 = (3 * (m - run(i))) + ((i - 1) % 3)
  <2>. SUFFICES ASSUME NEW i \in 1..3 * m
                PROVE  /\ run(i) \in 1..m /\ 1 + ((i - 1) % 3) \in 1..3
                       /\ i - 1 = (3 * (m - run(i))) + ((i - 1) % 3)
    OBVIOUS
  <2>1. PICK q \in 0..(m - 1), r \in 0..2 : q = (i - 1) \div 3 /\ r = (i - 1) % 3 /\ i - 1 = 3 * q + r
    BY <1>2, <1>3
  <2>. QED  BY <1>1, <2>1
<1>5. \A x, y \in 1..3 : parts[x] \in {"start", "out", "done"} /\ (parts[x] = parts[y] => x = y)
  <2>. SUFFICES ASSUME NEW x \in 1..3, NEW y \in 1..3
                PROVE  parts[x] \in {"start", "out", "done"} /\ (parts[x] = parts[y] => x = y)
    OBVIOUS
  <2>1. x \in {1, 2, 3} /\ y \in {1, 2, 3}
    OBVIOUS
  <2>. QED  BY <2>1
<1>6. \A i \in 1..3 * m : part(i) \in {"start", "out", "done"}
  BY <1>4, <1>5
<1>7. Candidates = [i \in 1..3 * m |-> [run |-> run(i), part |-> part(i)]]
  BY <1>1 DEF Candidates
<1>8. ASSUME NEW i \in 1..3 * m, NEW j \in 1..3 * m, run(i) = run(j), part(i) = part(j)
      PROVE  i = j
  <2>. DEFINE x == (i - 1) % 3
              y == (j - 1) % 3
  <2>1. 1 + x \in 1..3 /\ 1 + y \in 1..3 /\ parts[1 + x] = parts[1 + y]
    BY <1>4, <1>8
  <2>2. x \in Int /\ y \in Int
    BY <1>2, <1>3
  <2>3. 1 + x = 1 + y
    BY <1>5, <2>1
  <2>. HIDE DEF x, y
  <2>4. x = y
    BY <2>2, <2>3
  <2>5. i - 1 = 3 * (m - run(i)) + x /\ j - 1 = 3 * (m - run(j)) + y
    BY <1>4 DEF x, y
  <2>6. PICK a \in 1..m : a = run(i)
    BY <1>4
  <2>. QED  BY <1>8, <2>2, <2>4, <2>5, <2>6
<1>. HIDE DEF run, part
<1>9. 3 * m \in Nat
  OBVIOUS
<1>10. \A i \in 1..3 * m : [run |-> run(i), part |-> part(i)] \in Line
  BY <1>1, <1>4, <1>6 DEF Line, JobRuns
<1>11. Candidates \in Seq(Line) /\ Len(Candidates) = 3 * m
  BY <1>7, <1>9, <1>10
<1>12. \A i \in 1..3 * m : Candidates[i].run = run(i) /\ Candidates[i].part = part(i)
  BY <1>7
<1>. QED  BY <1>8, <1>11, <1>12

\* The lines of an answer that are not shown yet.
Unshown(new, old) == {i \in DOMAIN new : new[i] \notin ToSet(old)}

\* The lines that are merged are those shown and others, none of them twice.
LEMMA FreshLines ==
  ASSUME NEW old \in Seq(Line), InOrder(old), NEW new \in Seq(Line),
         \A i, j \in 1..Len(new) : new[i] = new[j] => i = j,
         NEW fresh, fresh = At(new, Unshown(new, old))
  PROVE  /\ fresh \in Seq(Line) /\ old \o fresh \in Seq(Line)
         /\ \A i, j \in 1..Len(old \o fresh) : (old \o fresh)[i] = (old \o fresh)[j] => i = j
         /\ \A i \in 1..Len(old) : i \in 1..Len(old \o fresh) /\ (old \o fresh)[i] = old[i]
<1>. DEFINE places == Unshown(new, old)
            all == old \o fresh
<1>1. places \in SUBSET (1..Len(new)) /\ Len(old) \in Nat /\ ToSet(old) = {old[i] : i \in 1..Len(old)}
  BY DEF ToSet, Unshown
<1>2. /\ fresh \in Seq(Line) /\ \A n \in 1..Len(fresh) : fresh[n] \notin ToSet(old)
      /\ \A m, n \in 1..Len(fresh) : fresh[m] = fresh[n] => m = n
  <2>1. fresh = At(new, places) /\ \A i \in places : new[i] \notin ToSet(old)
    BY DEF Unshown
  <2>. HIDE DEF places
  <2>2. /\ fresh \in Seq(Line)
        /\ \A n \in 1..Len(fresh) : \E i \in places : fresh[n] = new[i]
    <3>1. /\ At(new, places) \in Seq(Line)
          /\ \A n \in 1..Len(At(new, places)) : \E i \in places : At(new, places)[n] = new[i]
      BY <1>1, KeptOfList
    <3>. QED  BY <2>1, <3>1
  <2>3. \A m, n \in 1..Len(fresh) : fresh[m] = fresh[n] => m = n
    BY <1>1, <2>1, KeptOnce
  <2>. QED  BY <2>1, <2>2, <2>3
<1>3. \A i, j \in 1..Len(old) : old[i] = old[j] => i = j
  <2>. SUFFICES ASSUME NEW i \in 1..Len(old), NEW j \in 1..Len(old), i < j
                PROVE  old[i] # old[j]
    BY <1>1
  <2>1. Time(old[i]) < Time(old[j]) /\ Time(old[i]) \in Int
    BY TimesApart DEF InOrder, Earlier
  <2>. QED  BY <2>1
<1>4. /\ all \in Seq(Line) /\ Len(all) = Len(old) + Len(fresh) /\ Len(fresh) \in Nat
      /\ \A i \in 1..Len(all) : all[i] = IF i <= Len(old) THEN old[i] ELSE fresh[i - Len(old)]
  BY <1>2, ConcatProperties
<1>. HIDE DEF all, places
<1>9. PICK p \in Nat, q \in Nat : p = Len(old) /\ q = Len(fresh) /\ Len(all) = p + q
  BY <1>1, <1>4
<1>5. ASSUME NEW i \in 1..Len(all), NEW j \in 1..Len(all), i < j PROVE all[i] # all[j]
  <2>1. CASE j <= Len(old)
    <3>1. i \in 1..Len(old) /\ j \in 1..Len(old) /\ i # j
      BY <1>1, <1>4, <1>5, <2>1
    <3>2. all[i] = old[i] /\ all[j] = old[j]
      BY <1>4, <3>1
    <3>. QED  BY <1>3, <3>1, <3>2
  <2>2. CASE i <= Len(old) /\ j > Len(old)
    <3>1. i \in 1..p /\ i <= p /\ j - p \in 1..q /\ ~(j <= p)
      BY <1>9, <1>5, <2>2
    <3>2. all[i] = old[i] /\ all[j] = fresh[j - p]
      <4>1. all[i] = old[i]
        BY <1>4, <1>9, <3>1
      <4>2. all[j] = fresh[j - Len(old)]
        BY <1>4, <1>9, <3>1
      <4>. QED  BY <1>9, <4>1, <4>2
    <3>3. all[i] \in ToSet(old) /\ all[j] \notin ToSet(old)
      BY <1>9, <1>1, <1>2, <3>1, <3>2
    <3>. QED  BY <3>3
  <2>3. CASE i > Len(old)
    <3>1. /\ i - p \in 1..q /\ j - p \in 1..q /\ i - p # j - p
          /\ ~(j <= p) /\ ~(i <= p)
      BY <1>9, <1>5, <2>3
    <3>2. all[i] = fresh[i - p] /\ all[j] = fresh[j - p]
      BY <1>9, <1>4, <3>1
    <3>. QED  BY <1>9, <1>2, <3>1, <3>2
  <2>. QED  BY <1>1, <1>4, <1>5, <2>1, <2>2, <2>3
<1>6. \A i, j \in 1..Len(all) : i < j \/ j < i \/ i = j
  BY <1>4
<1>7. \A i, j \in 1..Len(all) : all[i] = all[j] => i = j
  BY <1>5, <1>6
<1>8. \A i \in 1..Len(old) : i \in 1..Len(all) /\ all[i] = old[i]
  BY <1>1, <1>4
<1>. QED  BY <1>2, <1>4, <1>7, <1>8 DEF all

LEMMA MergedKeeps ==
  ASSUME NEW old \in Seq(Line), Len(old) <= maxLines, InOrder(old), NEW rows \in RunTable
  PROVE  LET m == Merged(old, Derived(rows))
         IN  m \in Seq(Line) /\ Len(m) <= maxLines /\ InOrder(m) /\ Trimmed(old, m)
<1>. DEFINE new == Derived(rows)
            fresh == At(new, Unshown(new, old))
            m == Merged(old, new)
<1>1. new \in Seq(Line) /\ \A i, j \in 1..Len(new) : new[i] = new[j] => i = j
  <2>. DEFINE places == {i \in DOMAIN Candidates :
                           Candidates[i].part \in PartsOf(rows[Candidates[i].run])}
  <2>1. places \in SUBSET (1..Len(Candidates))
    BY CandidatesDiffer
  <2>2. new = At(Candidates, places)
    BY DEF Derived
  <2>. HIDE DEF places, new
  <2>. QED  BY <2>1, <2>2, CandidatesDiffer, KeptOfList, KeptOnce
<1>6. fresh = At(new, Unshown(new, old))
  OBVIOUS
<1>5. m = old \/ m = NewestLines(InTime(old \o fresh))
  BY DEF Merged, Unshown
<1>. HIDE DEF new, fresh, m
<1>2. /\ fresh \in Seq(Line) /\ old \o fresh \in Seq(Line)
      /\ \A i, j \in 1..Len(old \o fresh) : (old \o fresh)[i] = (old \o fresh)[j] => i = j
      /\ \A i \in 1..Len(old) : i \in 1..Len(old \o fresh) /\ (old \o fresh)[i] = old[i]
  BY <1>1, <1>6, FreshLines
<1>3. ASSUME m = old
      PROVE  m \in Seq(Line) /\ Len(m) <= maxLines /\ InOrder(m) /\ Trimmed(old, m)
  BY <1>3 DEF Trimmed
<1>4. ASSUME m = NewestLines(InTime(old \o fresh))
      PROVE  m \in Seq(Line) /\ Len(m) <= maxLines /\ InOrder(m) /\ Trimmed(old, m)
  <2>. DEFINE all == old \o fresh
              s == InTime(all)
              u == NewestLines(s)
  <2>1. /\ s \in Seq(Line) /\ InOrder(s)
        /\ \A i \in 1..Len(all) : \E n \in 1..Len(s) : s[n] = all[i]
    BY <1>2, InTimeSorts
  <2>. HIDE DEF s
  <2>2. /\ u \in Seq(Line) /\ InOrder(u) /\ Len(u) <= maxLines
        /\ \A i \in 1..Len(s) :
             \/ \E n \in 1..Len(u) : u[n] = s[i]
             \/ Len(u) = maxLines /\ \A n \in 1..Len(u) : Earlier(s[i], u[n])
    BY <2>1, LastLinesStay
  <2>. HIDE DEF u, all
  <2>3. ToSet(u) = {u[n] : n \in 1..Len(u)} /\ ToSet(old) = {old[n] : n \in 1..Len(old)}
    BY <2>2 DEF ToSet
  <2>4. ASSUME NEW l \in ToSet(old) \ ToSet(u)
        PROVE  Len(u) = maxLines /\ \A k \in ToSet(u) : Earlier(l, k)
    <3>1. PICK i \in 1..Len(old) : l = old[i]
      BY <2>3
    <3>2. PICK n \in 1..Len(s) : s[n] = l
      BY <1>2, <2>1, <3>1 DEF all
    <3>. QED  BY <2>2, <2>3, <2>4, <3>2
  <2>5. m = u
    BY <1>4 DEF s, u, all
  <2>. QED  BY <2>2, <2>4, <2>5 DEF Trimmed
<1>. QED  BY <1>3, <1>4, <1>5 DEF new, m

LEMMA PanelsStart == ASSUME PanelsInit PROVE PanelsInv
<1>1. logs = <<>> /\ table \in RunTable /\ polls = [p \in Polls |-> Idle]
  BY DEF PanelsInit
<1>2. NoTable \in RunTable
  BY DEF NoTable, RunTable, RowStatus
<1>3. Idle \in [pc : {"idle", "asked", "served"}, rows : RunTable]
  BY <1>2 DEF Idle
<1>4. polls \in [Polls -> [pc : {"idle", "asked", "served"}, rows : RunTable]]
  BY <1>1, <1>3
<1>5. logs \in Seq(Line) /\ Len(logs) = 0
  BY <1>1
<1>6. Len(logs) <= maxLines
  BY <1>5, PanelsAssumption DEF PanelsAssumption
<1>. QED  BY <1>1, <1>4, <1>5, <1>6 DEF PanelsInv, InOrder

\* A step that leaves the log alone.
LEMMA LogStays == ASSUME UNCHANGED logs PROVE Trimmed(logs, logs')
BY DEF Trimmed

LEMMA PanelsStep ==
  ASSUME PanelsInv, [PanelsNext]_panelVars
  PROVE  PanelsInv' /\ Trimmed(logs, logs')
<1>. DEFINE LogAnswer == [pc : {"idle", "asked", "served"}, rows : RunTable]
<1>1. /\ logs \in Seq(Line) /\ Len(logs) <= maxLines /\ InOrder(logs) /\ table \in RunTable
      /\ polls \in [Polls -> LogAnswer]
  BY DEF PanelsInv
<1>2. ASSUME UNCHANGED <<logs, table>>, polls' \in [Polls -> LogAnswer]
      PROVE  PanelsInv' /\ Trimmed(logs, logs')
  BY <1>1, <1>2, LogStays DEF PanelsInv, InOrder, Earlier, Time
<1>3. Idle \in LogAnswer
  BY DEF Idle, NoTable, RunTable, RowStatus
<1>4. CASE PanelTick
  <2>1. PICK p \in Polls : polls' = [polls EXCEPT ![p].pc = "asked"]
    BY <1>4 DEF PanelTick
  <2>2. polls' \in [Polls -> LogAnswer]
    BY <1>1, <2>1
  <2>. QED  BY <1>2, <1>4, <2>2 DEF PanelTick
<1>5. CASE ServePanel
  <2>1. PICK p \in Polls : polls' = [polls EXCEPT ![p].pc = "served", ![p].rows = table]
    BY <1>5 DEF ServePanel
  <2>2. polls' \in [Polls -> LogAnswer]
    BY <1>1, <2>1
  <2>. QED  BY <1>2, <1>5, <2>2 DEF ServePanel
<1>6. CASE TogglePause
  BY <1>1, <1>2, <1>6 DEF TogglePause
<1>7. CASE ClearLogs
  <2>1. logs' = <<>> /\ UNCHANGED <<table, polls>>
    BY <1>7 DEF ClearLogs
  <2>2. logs' \in Seq(Line) /\ Len(logs') = 0
    BY <2>1
  <2>3. Len(logs') <= maxLines
    BY <2>2, PanelsAssumption DEF PanelsAssumption
  <2>4. InOrder(logs)'
    BY <2>2 DEF InOrder
  <2>. QED  BY <1>1, <2>1, <2>2, <2>3, <2>4 DEF PanelsInv, Trimmed
<1>8. ASSUME NEW p \in Polls, PanelArrives(p) PROVE PanelsInv' /\ Trimmed(logs, logs')
  <2>1. /\ polls' = [polls EXCEPT ![p] = Idle] /\ UNCHANGED table
        /\ \/ UNCHANGED logs
           \/ logs' = Merged(logs, Derived(polls[p].rows))
    BY <1>8 DEF PanelArrives
  <2>2. polls' \in [Polls -> LogAnswer]
    BY <1>1, <1>3, <2>1
  <2>3. CASE UNCHANGED logs
    BY <1>2, <2>1, <2>2, <2>3
  <2>4. CASE logs' = Merged(logs, Derived(polls[p].rows))
    <3>1. polls[p].rows \in RunTable
      BY <1>1
    <3>2. /\ logs' \in Seq(Line) /\ Len(logs') <= maxLines
          /\ InOrder(logs)' /\ Trimmed(logs, logs')
      <4>1. PICK m : m = Merged(logs, Derived(polls[p].rows))
        OBVIOUS
      <4>2. m \in Seq(Line) /\ Len(m) <= maxLines /\ InOrder(m) /\ Trimmed(logs, m)
        BY <1>1, <3>1, <4>1, MergedKeeps
      <4>3. InOrder(logs)' = InOrder(m)
        BY <2>4, <4>1 DEF InOrder, Earlier, Time
      <4>. QED  BY <2>4, <4>1, <4>2, <4>3
    <3>. QED  BY <1>1, <2>1, <2>2, <3>2 DEF PanelsInv
  <2>. QED  BY <2>1, <2>3, <2>4
<1>9. CASE PanelFails
  <2>1. PICK p \in Polls : polls' = [polls EXCEPT ![p] = Idle]
    BY <1>9 DEF PanelFails
  <2>2. polls' \in [Polls -> LogAnswer]
    BY <1>1, <1>3, <2>1
  <2>. QED  BY <1>2, <1>9, <2>2 DEF PanelFails
<1>10. CASE LeavePanels
  BY <1>1, <1>2, <1>10 DEF LeavePanels
<1>11. CASE TableMoves
  <2>1. /\ UNCHANGED <<logs, polls>>
        /\ \E r \in JobRuns, s \in RowStatus : table' = [table EXCEPT ![r] = s]
    BY <1>11 DEF TableMoves
  <2>2. table' \in RunTable
    BY <1>1, <2>1 DEF RunTable
  <2>. QED  BY <1>1, <2>1, <2>2, LogStays DEF PanelsInv, InOrder, Earlier, Time
<1>12. CASE UNCHANGED panelVars
  BY <1>1, <1>2, <1>12 DEF panelVars
<1>. QED  BY <1>4, <1>5, <1>6, <1>7, <1>8, <1>9, <1>10, <1>11, <1>12 DEF PanelsNext

LEMMA PanelsHold == PanelsSpec => []PanelsInv /\ [][Trimmed(logs, logs')]_panelVars
<1>1. PanelsInit => PanelsInv
  BY PanelsStart
<1>2. PanelsInv /\ [PanelsNext]_panelVars => PanelsInv' /\ Trimmed(logs, logs')
  BY PanelsStep
<1>. QED  BY <1>1, <1>2, PTL DEF PanelsSpec

(* What the panels keep beside the log and the polls.                       *)
PanelsKeep ==
  /\ panel \in Panels /\ ticking \in BOOLEAN /\ paused \in BOOLEAN /\ here \in BOOLEAN
  /\ job \in {NoJob} \cup [run : JobRuns, status : {"running", "completed"}]
  /\ clears \in 0..MaxClears /\ troubles \in 0..MaxTroubles

LEMMA PanelsTypes == ASSUME PanelsInv, PanelsKeep PROVE PanelsTypeOK
BY DEF PanelsInv, PanelsKeep, PanelsTypeOK

LEMMA LatestIsRun ==
  ASSUME NEW rows \in RunTable, Present(rows) # {}
  PROVE  Latest(rows) \in [run : JobRuns, status : {"running", "completed"}]
<1>1. MaxRuns \in Nat /\ Present(rows) \in SUBSET (1..MaxRuns)
  BY PanelsAssumption DEF PanelsAssumption, Present, JobRuns
<1>2. \E m \in Present(rows) : \A x \in Present(rows) : m >= x
  BY <1>1, HasGreatest
<1>3. Max(Present(rows)) \in JobRuns
  BY <1>1, <1>2 DEF Max, JobRuns
<1>. QED  BY <1>3 DEF Latest

LEMMA PanelsKeepStep ==
  ASSUME PanelsInv, PanelsKeep, [PanelsNext]_panelVars
  PROVE  PanelsKeep'
<1>1. /\ panel \in Panels /\ ticking \in BOOLEAN /\ paused \in BOOLEAN /\ here \in BOOLEAN
      /\ job \in {NoJob} \cup [run : JobRuns, status : {"running", "completed"}]
      /\ clears \in 0..MaxClears /\ troubles \in 0..MaxTroubles
      /\ MaxClears \in Nat /\ MaxTroubles \in Nat
  BY PanelsAssumption DEF PanelsKeep, PanelsAssumption
<1>2. CASE PanelTick
  BY <1>1, <1>2 DEF PanelTick, PanelsKeep
<1>3. CASE ServePanel
  BY <1>1, <1>3 DEF ServePanel, PanelsKeep
<1>4. CASE TogglePause
  BY <1>1, <1>4 DEF TogglePause, PanelsKeep
<1>5. CASE ClearLogs
  BY <1>1, <1>5 DEF ClearLogs, PanelsKeep
<1>6. ASSUME NEW p \in Polls, PanelArrives(p) PROVE PanelsKeep'
  <2>1. /\ UNCHANGED <<panel, ticking, paused, here, clears, troubles>>
        /\ job' = job \/ (Present(polls[p].rows) # {} /\ job' = Latest(polls[p].rows))
    BY <1>6 DEF PanelArrives
  <2>2. polls[p].rows \in RunTable
    BY DEF PanelsInv
  <2>3. job' \in {NoJob} \cup [run : JobRuns, status : {"running", "completed"}]
    BY <1>1, <2>1, <2>2, LatestIsRun
  <2>. QED  BY <1>1, <2>1, <2>3 DEF PanelsKeep
<1>7. CASE PanelFails
  <2>1. /\ ticking' \in {ticking, FALSE} /\ UNCHANGED <<panel, job, paused, here, clears>>
        /\ troubles < MaxTroubles /\ troubles' = troubles + 1
    BY <1>7 DEF PanelFails
  <2>2. ticking' \in BOOLEAN
    BY <1>1, <2>1, Zenon
  <2>3. troubles' \in 0..MaxTroubles
    BY <1>1, <2>1
  <2>. QED  BY <1>1, <2>1, <2>2, <2>3 DEF PanelsKeep
<1>8. CASE LeavePanels
  BY <1>1, <1>8 DEF LeavePanels, PanelsKeep
<1>9. CASE TableMoves
  BY <1>1, <1>9 DEF TableMoves, PanelsKeep
<1>10. CASE UNCHANGED panelVars
  BY <1>1, <1>10 DEF panelVars, PanelsKeep
<1>. QED  BY <1>2, <1>3, <1>4, <1>5, <1>6, <1>7, <1>8, <1>9, <1>10 DEF PanelsNext

LEMMA PanelsKeepHolds == PanelsSpec => []PanelsKeep
<1>1. PanelsInit => PanelsKeep
  <2>. SUFFICES ASSUME PanelsInit PROVE PanelsKeep
    OBVIOUS
  <2>1. panel \in Panels /\ ticking = TRUE /\ paused = FALSE /\ here = TRUE /\ job = NoJob
    BY DEF PanelsInit
  <2>2. clears \in 0..MaxClears /\ troubles \in 0..MaxTroubles
    BY PanelsAssumption DEF PanelsInit, PanelsAssumption
  <2>. QED  BY <2>1, <2>2 DEF PanelsKeep
<1>2. PanelsInv /\ PanelsKeep /\ [PanelsNext]_panelVars => PanelsKeep'
  BY PanelsKeepStep
<1>. QED  BY <1>1, <1>2, PanelsHold, PTL DEF PanelsSpec

(* --------------------------- the property form -------------------------- *)
StoredField == [name : PropNames, required : BOOLEAN]
OwnField(seq) == {i \in DOMAIN seq : seq[i].id # undefined}
OwnIds(seq) ==
  /\ \A i \in OwnField(seq) : seq[i].id \in 1..touches
  /\ \A i, j \in OwnField(seq) : seq[i].id = seq[j].id => i = j
FieldList(seq) == seq \in Seq(Fields) /\ OwnIds(seq)

(* A property has a name of its own in the schema, one added in the form an *)
(* identifier of its own.                                                   *)
PropertyInv ==
  /\ touches \in 0..MaxTouches
  /\ schema \subseteq StoredField /\ IsFiniteSet(schema)
  /\ \A p, q \in schema : p.name = q.name => p = q
  /\ FieldList(fields)

NamesApart(seq) ==
  \A i, j \in DOMAIN seq : seq[i].name \in PropNames /\ (seq[i].name = seq[j].name => i = j)

Unshared(old, new) ==
  /\ Len(new) = Len(old) => Cardinality({i \in OwnField(old) : new[i] # old[i]}) <= 1
  /\ Cardinality(OwnField(new)) >= Cardinality(OwnField(old)) - 1

\* What the backend lists has each name once and no identifier.
LEMMA FormListsStored ==
  ASSUME schema \subseteq StoredField, IsFiniteSet(schema),
         \A p, q \in schema : p.name = q.name => p = q
  PROVE  /\ ListedFields \in Seq(Fields) /\ OwnField(ListedFields) = {}
         /\ NamesApart(ListedFields)
<1>. DEFINE field(p) == [id |-> undefined, name |-> p.name, required |-> p.required]
            S == {field(p) : p \in schema}
            l == ListedFields
<1>1. \A p \in schema : /\ p \in StoredField /\ p = [name |-> p.name, required |-> p.required]
                        /\ p.name \in PropNames /\ p.required \in BOOLEAN
  BY DEF StoredField
<1>2. \A p \in schema : field(p) \in Fields /\ field(p).name = p.name /\ field(p).id = undefined
  BY <1>1 DEF Fields
<1>3. IsFiniteSet(S)
  <2>. DEFINE g == [p \in schema |-> field(p)]
  <2>1. g \in [schema -> S] /\ \A s \in S : \E p \in schema : g[p] = s
    OBVIOUS
  <2>2. g \in Surjection(schema, S)
    BY <2>1, Zenon DEF Surjection
  <2>. HIDE DEF S, g
  <2>. QED  BY <2>2, FS_Surjection
<1>4. l = SetToSeq(S)
  BY DEF ListedFields
<1>5. /\ l \in Seq(S)
      /\ \A s \in S : \E i \in 1..Len(l) : l[i] = s
      /\ \A i, j \in 1..Len(l) : l[i] = l[j] => i = j
  <2>. HIDE DEF S, l
  <2>. QED  BY <1>3, <1>4, SetListed
<1>6. S \subseteq Fields /\ \A s \in S : s.id = undefined
  BY <1>2
<1>7. DOMAIN l = 1..Len(l) /\ \A i \in 1..Len(l) : l[i] \in S
  <2>. HIDE DEF S, l
  <2>. QED  BY <1>5
<1>8. l \in Seq(Fields) /\ OwnField(l) = {}
  <2>1. l \in Seq(Fields)
    <3>. HIDE DEF S, l
    <3>. QED  BY <1>5, <1>6
  <2>2. OwnField(l) = {}
    <3>. HIDE DEF S, l
    <3>. QED  BY <1>6, <1>7 DEF OwnField
  <2>. QED  BY <2>1, <2>2
<1>9. \A i \in DOMAIN l : \E p \in schema : l[i].name = p.name /\ l[i] = field(p)
  <2>. SUFFICES ASSUME NEW i \in DOMAIN l PROVE \E p \in schema : l[i].name = p.name /\ l[i] = field(p)
    OBVIOUS
  <2>1. l[i] \in S
    <3>. HIDE DEF S, l
    <3>. QED  BY <1>7
  <2>2. PICK p \in schema : l[i] = field(p)
    BY <2>1
  <2>3. l[i].name = p.name
    BY <2>2, <1>2
  <2>. HIDE DEF field
  <2>. QED  BY <2>2, <2>3
<1>. HIDE DEF S, l
<1>10. NamesApart(l)
  <2>. SUFFICES ASSUME NEW i \in DOMAIN l, NEW j \in DOMAIN l
                PROVE  l[i].name \in PropNames /\ (l[i].name = l[j].name => i = j)
    BY DEF NamesApart
  <2>1. PICK p \in schema : l[i].name = p.name /\ l[i] = field(p)
    BY <1>9
  <2>2. PICK q \in schema : l[j].name = q.name /\ l[j] = field(q)
    BY <1>9
  <2>3. l[i].name \in PropNames
    BY <1>1, <2>1
  <2>4. l[i].name = l[j].name => l[i] = l[j]
    BY <2>1, <2>2
  <2>. QED  BY <1>5, <1>7, <2>3, <2>4
<1>. QED  BY <1>8, <1>10 DEF l

LEMMA PropertyStart == ASSUME PropertyInit PROVE PropertyInv
<1>1. fields = <<>> /\ editing = FALSE /\ touches = 0
  BY DEF PropertyInit
<1>2. FieldList(fields)
  <2>1. fields \in Seq(Fields) /\ DOMAIN fields = {}
    BY <1>1
  <2>. QED  BY <2>1 DEF FieldList, OwnIds, OwnField
<1>3. PICK S \in SUBSET PropNames, r \in BOOLEAN :
        schema = {[name |-> n, required |-> r] : n \in S}
  BY DEF PropertyInit
<1>4. schema \subseteq StoredField /\ \A p, q \in schema : p.name = q.name => p = q
  BY <1>3 DEF StoredField
<1>5. IsFiniteSet(schema)
  <2>1. IsFiniteSet(S)
    BY PropertyAssumption, FS_Subset DEF PropertyAssumption
  <2>. DEFINE g == [n \in S |-> [name |-> n, required |-> r]]
  <2>2. g \in Surjection(S, schema)
    BY <1>3 DEF Surjection
  <2>. HIDE DEF g
  <2>. QED  BY <2>1, <2>2, FS_Surjection
<1>6. touches \in 0..MaxTouches
  BY <1>1, PropertyAssumption DEF PropertyAssumption
<1>. QED  BY <1>1, <1>2, <1>4, <1>5, <1>6 DEF PropertyInv

\* What is saved has each name once.
LEMMA SavedOnce ==
  ASSUME NEW seq \in Seq(Fields)
  PROVE  /\ SchemaOf(seq, {}) \subseteq StoredField /\ IsFiniteSet(SchemaOf(seq, {}))
         /\ \A p, q \in SchemaOf(seq, {}) : p.name = q.name => p = q
<1>. DEFINE knownIn(n) == \E i \in DOMAIN seq : seq[i].name = n /\ seq[i].required
            names == {seq[i].name : i \in DOMAIN seq} \ {blank}
            rowOf(n) == [name |-> n, required |-> knownIn(n)]
            T == {rowOf(n) : n \in names}
<1>1. SchemaOf(seq, {}) = T
  BY DEF SchemaOf
<1>2. names \subseteq PropNames
  <2>1. \A i \in DOMAIN seq : seq[i] \in Fields
    OBVIOUS
  <2>2. \A i \in DOMAIN seq : seq[i].name \in PropNames \cup {blank}
    BY <2>1 DEF Fields
  <2>. QED  BY <2>2
<1>3. \A n \in names : knownIn(n) \in BOOLEAN
  BY Zenon
<1>. HIDE DEF knownIn, names
<1>4. \A n \in names : rowOf(n) \in StoredField /\ rowOf(n).name = n
  BY <1>2, <1>3 DEF StoredField
<1>5. IsFiniteSet(names)
  BY <1>2, PropertyAssumption, FS_Subset DEF PropertyAssumption
<1>6. IsFiniteSet(T)
  <2>. DEFINE g == [n \in names |-> rowOf(n)]
  <2>1. g \in Surjection(names, T)
    BY DEF Surjection
  <2>. HIDE DEF g, T
  <2>. QED  BY <1>5, <2>1, FS_Surjection
<1>7. T \subseteq StoredField /\ \A p, q \in T : p.name = q.name => p = q
  <2>. HIDE DEF rowOf
  <2>. QED  BY <1>4
<1>. HIDE DEF T
<1>. QED  BY <1>1, <1>6, <1>7

LEMMA OwnedFinite ==
  ASSUME NEW seq \in Seq(Fields)
  PROVE  /\ OwnField(seq) \subseteq 1..Len(seq) /\ IsFiniteSet(OwnField(seq))
         /\ Cardinality(OwnField(seq)) \in Nat
<1>1. OwnField(seq) \subseteq 1..Len(seq) /\ Len(seq) \in Nat
  BY DEF OwnField
<1>2. IsFiniteSet(1..Len(seq))
  BY <1>1, FS_Interval
<1>3. IsFiniteSet(OwnField(seq))
  BY <1>1, <1>2, FS_Subset
<1>. QED  BY <1>1, <1>3, FS_CardinalityType

\* No property moved.
LEMMA NoneMoved ==
  ASSUME FieldList(fields), UNCHANGED fields
  PROVE  Unshared(fields, fields')
<1>1. {i \in OwnField(fields) : fields'[i] # fields[i]} = {}
  OBVIOUS
<1>2. Cardinality({}) = 0
  BY FS_EmptySet
<1>3. Cardinality(OwnField(fields)) \in Nat
  BY OwnedFinite DEF FieldList
<1>. QED  BY <1>1, <1>2, <1>3 DEF Unshared

LEMMA FieldAdded ==
  ASSUME PropertyInv, AddField
  PROVE  FieldList(fields)' /\ Unshared(fields, fields')
<1>. DEFINE new == [id |-> FreshId, name |-> blank, required |-> FALSE]
            n == Len(fields) + 1
<1>1. /\ fields \in Seq(Fields) /\ touches \in 0..MaxTouches /\ touches < MaxTouches
      /\ touches' = touches + 1 /\ fields' = Append(fields, new) /\ MaxTouches \in Nat
  BY PropertyAssumption DEF PropertyInv, FieldList, AddField, Touch, PropertyAssumption
<1>2. new \in Fields /\ new.id = touches + 1 /\ new.id # undefined /\ touches + 1 \in Nat
  BY <1>1, PropertyAssumption DEF Fields, FieldIds, FreshId, PropertyAssumption
<1>. HIDE DEF new
<1>3. /\ fields' \in Seq(Fields) /\ Len(fields') = n /\ fields'[n] = new
      /\ \A i \in 1..Len(fields) : fields'[i] = fields[i]
      /\ Len(fields) \in Nat /\ DOMAIN fields' = 1..n /\ DOMAIN fields = 1..Len(fields)
  BY <1>1, <1>2, AppendProperties
<1>4. OwnField(fields') = OwnField(fields) \cup {n}
  BY <1>2, <1>3 DEF OwnField
<1>5. /\ \A i \in OwnField(fields) : fields'[i].id \in 1..touches /\ i \in 1..Len(fields)
      /\ \A i, j \in OwnField(fields) : fields'[i].id = fields'[j].id => i = j
  BY <1>3 DEF PropertyInv, FieldList, OwnIds, OwnField
<1>6. \A i \in OwnField(fields) : fields'[i].id # fields'[n].id
  BY <1>1, <1>2, <1>3, <1>5
<1>7. \A i, j \in OwnField(fields') : fields'[i].id = fields'[j].id => i = j
  BY <1>4, <1>5, <1>6
<1>8. \A i \in OwnField(fields') : fields'[i].id \in 1..touches'
  <2>1. fields'[n].id \in 1..touches'
    BY <1>1, <1>2, <1>3
  <2>2. \A i \in OwnField(fields) : fields'[i].id \in 1..touches'
    BY <1>1, <1>5
  <2>. QED  BY <1>4, <2>1, <2>2
<1>9. FieldList(fields)'
  BY <1>3, <1>7, <1>8 DEF FieldList, OwnIds, OwnField, Fields
<1>10. Cardinality(OwnField(fields')) >= Cardinality(OwnField(fields))
  <2>1. IsFiniteSet(OwnField(fields')) /\ Cardinality(OwnField(fields')) \in Nat
    BY <1>3, OwnedFinite
  <2>. QED  BY <1>4, <2>1, FS_Subset
<1>11. Cardinality(OwnField(fields')) \in Nat /\ Cardinality(OwnField(fields)) \in Nat
  BY <1>1, <1>3, OwnedFinite
<1>12. Len(fields') # Len(fields)
  <2>1. Len(fields') = Len(fields) + 1 /\ Len(fields) \in Nat
    BY <1>3
  <2>. QED  BY <2>1
<1>. QED  BY <1>9, <1>10, <1>11, <1>12 DEF Unshared

LEMMA FieldUpdated ==
  ASSUME PropertyInv, NEW id \in FieldIds \cup {undefined}, NEW n \in PropNames \cup {blank},
         NEW r \in BOOLEAN, UpdateField(id, n, r)
  PROVE  FieldList(fields)' /\ Unshared(fields, fields')
<1>1. /\ fields \in Seq(Fields) /\ touches \in Nat /\ touches' = touches + 1
      /\ \A i \in OwnField(fields) : fields[i].id \in 1..touches
      /\ \A i, j \in OwnField(fields) : fields[i].id = fields[j].id => i = j
  BY DEF PropertyInv, FieldList, OwnIds, UpdateField, Touch
<1>2. /\ DOMAIN fields = 1..Len(fields) /\ Len(fields) \in Nat
      /\ \A i \in 1..Len(fields) : fields[i] \in Fields
  BY <1>1
<1>3. /\ DOMAIN fields' = DOMAIN fields
      /\ fields' = [i \in DOMAIN fields |-> fields'[i]]
      /\ \A i \in DOMAIN fields : /\ fields'[i] \in Fields /\ fields'[i].id = fields[i].id
                                  /\ fields'[i] # fields[i] => fields[i].id = id
  <2>1. CASE fields' = [i \in DOMAIN fields |->
                          IF fields[i].id # id THEN fields[i] ELSE [fields[i] EXCEPT !.name = n]]
    BY <1>2, <2>1 DEF Fields
  <2>2. CASE fields' = [i \in DOMAIN fields |->
                          IF fields[i].id # id THEN fields[i] ELSE [fields[i] EXCEPT !.required = r]]
    <3>1. \A i \in DOMAIN fields : [fields[i] EXCEPT !.required = r] \in Fields
      BY <1>2 DEF Fields
    <3>2. \A i \in DOMAIN fields : [fields[i] EXCEPT !.required = r].id = fields[i].id
      BY <1>2 DEF Fields
    <3>. QED  BY <1>2, <2>2, <3>1, <3>2
  <2>. QED  BY <2>1, <2>2 DEF UpdateField
<1>4. fields' \in Seq(Fields) /\ Len(fields') = Len(fields)
  <2>1. PICK m \in Nat : m = Len(fields)
    BY <1>2
  <2>2. fields' = [i \in 1..m |-> fields'[i]] /\ \A i \in 1..m : fields'[i] \in Fields
    BY <1>2, <1>3, <2>1
  <2>3. fields' \in [1..m -> Fields]
    BY <2>2
  <2>. QED  BY <2>1, <2>3
<1>5. OwnField(fields') = OwnField(fields)
  BY <1>3 DEF OwnField
<1>6. \A i \in OwnField(fields) : fields'[i].id = fields[i].id /\ i \in DOMAIN fields
  BY <1>3 DEF OwnField
<1>7. FieldList(fields)'
  <2>1. \A i \in OwnField(fields') : fields'[i].id \in 1..touches'
    BY <1>1, <1>5, <1>6
  <2>2. \A i, j \in OwnField(fields') : fields'[i].id = fields'[j].id => i = j
    BY <1>1, <1>5, <1>6
  <2>. QED  BY <1>4, <2>1, <2>2 DEF FieldList, OwnIds, OwnField, Fields
<1>8. Cardinality({i \in OwnField(fields) : fields'[i] # fields[i]}) <= 1
  <2>. DEFINE C == {i \in OwnField(fields) : fields'[i] # fields[i]}
  <2>1. \A i, j \in C : i = j
    BY <1>1, <1>3, <1>6
  <2>. HIDE DEF C
  <2>2. CASE C = {}
    <3>1. Cardinality(C) = 0
      BY <2>2, FS_EmptySet
    <3>. QED  BY <3>1 DEF C
  <2>3. CASE C # {}
    <3>1. PICK i : C = {i}
      BY <2>1, <2>3
    <3>2. Cardinality(C) = 1
      BY <3>1, FS_Singleton
    <3>. QED  BY <3>2 DEF C
  <2>. QED  BY <2>2, <2>3 DEF C
<1>9. Cardinality(OwnField(fields)) \in Nat
  BY <1>1, OwnedFinite
<1>. QED  BY <1>5, <1>7, <1>8, <1>9 DEF Unshared

LEMMA FieldRemoved ==
  ASSUME PropertyInv, NEW id \in FieldIds \cup {undefined}, RemoveField(id)
  PROVE  FieldList(fields)' /\ Unshared(fields, fields')
<1>. DEFINE places == {i \in DOMAIN fields : fields[i].id # id}
            after == At(fields, places)
            others == {i \in OwnField(fields) : fields[i].id # id}
<1>1. /\ fields \in Seq(Fields) /\ touches \in Nat /\ touches' = touches + 1
      /\ \A i \in OwnField(fields) : fields[i].id \in 1..touches
      /\ \A i, j \in OwnField(fields) : fields[i].id = fields[j].id => i = j
      /\ fields' = after /\ \E i \in DOMAIN fields : fields[i].id = id
  BY DEF PropertyInv, FieldList, OwnIds, RemoveField, Touch
<1>2. /\ places \in SUBSET (1..Len(fields)) /\ others \subseteq places /\ others \subseteq OwnField(fields)
      /\ \A i \in places : i \in DOMAIN fields /\ fields[i].id # id
      /\ places # 1..Len(fields) /\ Len(fields) \in Nat
  BY <1>1 DEF OwnField
<1>. HIDE DEF places, after
<1>3. /\ after \in Seq(Fields) /\ Len(after) = Cardinality(places)
      /\ \A n \in 1..Len(after) : \E i \in places : after[n] = fields[i]
      /\ \A i \in places : \E n \in 1..Len(after) : after[n] = fields[i]
      /\ \A m, n \in 1..Len(after) :
           m < n => \E i, j \in places : i < j /\ after[m] = fields[i] /\ after[n] = fields[j]
  <2>1. PICK kl : kl = At(fields, places)
    OBVIOUS
  <2>2. /\ kl \in Seq(Fields) /\ Len(kl) = Cardinality(places)
        /\ \A n \in 1..Len(kl) : \E i \in places : kl[n] = fields[i]
        /\ \A i \in places : \E n \in 1..Len(kl) : kl[n] = fields[i]
        /\ \A m, n \in 1..Len(kl) :
             m < n => \E i, j \in places : i < j /\ kl[m] = fields[i] /\ kl[n] = fields[j]
    <3>1. places \in SUBSET (1..Len(fields)) /\ fields \in Seq(Fields)
      BY <1>1, <1>2
    <3>2. kl \in Seq(Fields) /\ Len(kl) = Cardinality(places)
      BY <2>1, <3>1, KeptOfList
    <3>3. /\ \A n \in 1..Len(kl) : \E i \in places : kl[n] = fields[i]
          /\ \A i \in places : \E n \in 1..Len(kl) : kl[n] = fields[i]
      BY <2>1, <3>1, KeptOfList
    <3>4. \A m, n \in 1..Len(kl) :
            m < n => \E i, j \in places : i < j /\ kl[m] = fields[i] /\ kl[n] = fields[j]
      <4>. SUFFICES ASSUME NEW m \in 1..Len(kl), NEW n \in 1..Len(kl), m < n
                    PROVE  \E i, j \in places : i < j /\ kl[m] = fields[i] /\ kl[n] = fields[j]
        OBVIOUS
      <4>. QED  BY <2>1, <3>1, KeptInOrder, SMTT(30)
    <3>. QED  BY <3>2, <3>3, <3>4
  <2>. QED  BY <2>1, <2>2 DEF after
<1>4. Len(after) # Len(fields)
  <2>1. IsFiniteSet(1..Len(fields)) /\ Cardinality(1..Len(fields)) = Len(fields)
    BY <1>2, FS_Interval
  <2>2. Cardinality(places) <= Len(fields) /\ Cardinality(places) # Len(fields)
    BY <1>2, <2>1, FS_Subset
  <2>. QED  BY <1>3, <2>2
<1>5. /\ DOMAIN after = 1..Len(after) /\ Len(after) \in Nat
      /\ \A n \in OwnField(after) : n \in 1..Len(after) /\ after[n].id # undefined
      /\ \A n \in 1..Len(after) : after[n].id # undefined => n \in OwnField(after)
  BY <1>3 DEF OwnField
<1>6. \A i \in places : fields[i].id # undefined => i \in OwnField(fields)
  BY <1>2 DEF OwnField
<1>7. \A n \in OwnField(after) : after[n].id \in 1..touches
  BY <1>1, <1>3, <1>5, <1>6
<1>8. ASSUME NEW m \in OwnField(after), NEW n \in OwnField(after), m < n PROVE after[m].id # after[n].id
  <2>1. PICK i \in places, j \in places : i < j /\ after[m] = fields[i] /\ after[n] = fields[j]
    BY <1>3, <1>5, <1>8
  <2>2. i \in OwnField(fields) /\ j \in OwnField(fields) /\ i # j
    BY <1>2, <1>5, <1>6, <2>1
  <2>. QED  BY <1>1, <2>1, <2>2
<1>9. \A m, n \in OwnField(after) : after[m].id = after[n].id => m = n
  <2>1. \A m, n \in OwnField(after) : m < n \/ n < m \/ m = n
    BY <1>5
  <2>. QED  BY <1>8, <2>1
<1>10. FieldList(fields)'
  <2>1. \A n \in OwnField(after) : after[n].id \in 1..touches'
    BY <1>1, <1>7
  <2>2. OwnField(fields)' = OwnField(after) /\ fields' = after /\ fields' \in Seq(Fields)
    BY <1>1, <1>3 DEF OwnField
  <2>. QED  BY <1>9, <2>1, <2>2 DEF FieldList, OwnIds, Fields
<1>11. Cardinality(others) <= Cardinality(OwnField(after))
  <2>. DEFINE g == [i \in others |-> CHOOSE n \in OwnField(after) : after[n] = fields[i]]
  <2>1. \A i \in others : fields[i].id # undefined /\ i \in places
    BY <1>2 DEF OwnField
  <2>2. \A i \in others : \E n \in OwnField(after) : after[n] = fields[i]
    BY <1>3, <1>5, <2>1
  <2>. HIDE DEF others
  <2>3. \A i \in others : g[i] \in OwnField(after) /\ after[g[i]] = fields[i]
    BY <2>2
  <2>4. g \in [others -> OwnField(after)] /\ DOMAIN g = others
    BY <2>2
  <2>. HIDE DEF g
  <2>5. \A i, j \in others : g[i] = g[j] => i = j
    BY <1>1, <1>2, <2>3
  <2>6. g \in Injection(others, OwnField(after))
    BY <2>4, <2>5 DEF Injection, IsInjective
  <2>7. IsFiniteSet(OwnField(after))
    BY <1>3, OwnedFinite
  <2>. QED  BY <2>6, <2>7, FS_Injection
<1>12. Cardinality(others) >= Cardinality(OwnField(fields)) - 1 /\ Cardinality(others) \in Nat
  <2>1. IsFiniteSet(OwnField(fields)) /\ Cardinality(OwnField(fields)) \in Nat
    BY <1>1, OwnedFinite
  <2>2. CASE others = OwnField(fields)
    <3>1. Cardinality(others) = Cardinality(OwnField(fields))
      BY <2>2
    <3>2. PICK c, d : c = Cardinality(others) /\ d = Cardinality(OwnField(fields))
      OBVIOUS
    <3>3. c \in Nat /\ d = c
      BY <2>1, <3>1, <3>2
    <3>4. c >= d - 1
      BY <3>3
    <3>. QED  BY <3>2, <3>3, <3>4
  <2>3. CASE others # OwnField(fields)
    <3>1. PICK k \in OwnField(fields) : fields[k].id = id
      BY <1>2, <2>3
    <3>2. others = OwnField(fields) \ {k}
      BY <1>1, <3>1
    <3>. HIDE DEF others
    <3>3. Cardinality(others) = Cardinality(OwnField(fields)) - 1 /\ IsFiniteSet(others)
      BY <2>1, <3>1, <3>2, FS_RemoveElement
    <3>4. Cardinality(others) \in Nat
      BY <3>3, FS_CardinalityType
    <3>. QED  BY <2>1, <3>3, <3>4
  <2>. QED  BY <2>2, <2>3
<1>13. Cardinality(OwnField(after)) \in Nat /\ Cardinality(OwnField(fields)) \in Nat
  BY <1>1, <1>3, OwnedFinite
<1>14. /\ Len(fields') = Len(fields) =>
            Cardinality({i \in OwnField(fields) : fields'[i] # fields[i]}) <= 1
       /\ Cardinality(OwnField(fields')) >= Cardinality(OwnField(fields)) - 1
  <2>1. Len(fields') # Len(fields) /\ OwnField(fields') = OwnField(after)
    BY <1>1, <1>4
  <2>. HIDE DEF others
  <2>2. Cardinality(OwnField(after)) >= Cardinality(OwnField(fields)) - 1
    BY <1>11, <1>12, <1>13
  <2>. QED  BY <2>1, <2>2
<1>. QED  BY <1>10, <1>14 DEF Unshared

LEMMA PropertyStep ==
  ASSUME PropertyInv, [PropertyNext]_propVars
  PROVE  /\ PropertyInv'
         /\ editing /\ editing' => Unshared(fields, fields')
<1>. DEFINE Kept == PropertyInv' /\ (editing /\ editing' => Unshared(fields, fields'))
<1>1. /\ touches \in 0..MaxTouches /\ MaxTouches \in Nat
      /\ schema \subseteq StoredField /\ IsFiniteSet(schema)
      /\ \A p, q \in schema : p.name = q.name => p = q
      /\ FieldList(fields) /\ fields \in Seq(Fields)
  BY PropertyAssumption DEF PropertyInv, FieldList, PropertyAssumption
<1>2. ASSUME FieldList(fields)', Unshared(fields, fields'), UNCHANGED schema,
             touches' \in 0..MaxTouches
      PROVE  Kept
  BY <1>1, <1>2 DEF PropertyInv, StoredField
<1>3. FieldList(<<>>)
  <2>1. <<>> \in Seq(Fields) /\ DOMAIN <<>> = {}
    OBVIOUS
  <2>. QED  BY <2>1 DEF FieldList, OwnIds, OwnField
<1>4. ASSUME OpenFields PROVE Kept
  <2>1. /\ UNCHANGED <<schema, touches>> /\ editing = FALSE
        /\ fields' = ListedFields \/ fields' = <<>>
    BY <1>4 DEF OpenFields
  <2>2. ListedFields \in Seq(Fields) /\ OwnField(ListedFields) = {}
    BY <1>1, FormListsStored
  <2>3. fields' \in Seq(Fields) /\ OwnField(fields)' = {}
    <3>1. <<>> \in Seq(Fields) /\ OwnField(<<>>) = {}
      BY DEF OwnField
    <3>. QED  BY <2>1, <2>2, <3>1 DEF OwnField
  <2>4. FieldList(fields)'
    BY <2>3 DEF FieldList, OwnIds, Fields
  <2>. QED  BY <1>1, <2>1, <2>4 DEF PropertyInv, StoredField
<1>5. ASSUME AddField PROVE Kept
  <2>1. FieldList(fields)' /\ Unshared(fields, fields')
    BY <1>5, FieldAdded
  <2>. QED  BY <1>1, <1>2, <1>5, <2>1 DEF AddField, Touch
<1>6. ASSUME NEW id \in FieldIds \cup {undefined}, NEW n \in PropNames \cup {blank},
             NEW r \in BOOLEAN, UpdateField(id, n, r)
      PROVE  Kept
  <2>1. FieldList(fields)' /\ Unshared(fields, fields')
    BY <1>6, FieldUpdated
  <2>. QED  BY <1>1, <1>2, <1>6, <2>1 DEF UpdateField, Touch
<1>7. ASSUME NEW id \in FieldIds \cup {undefined}, RemoveField(id) PROVE Kept
  <2>1. FieldList(fields)' /\ Unshared(fields, fields')
    BY <1>7, FieldRemoved
  <2>. QED  BY <1>1, <1>2, <1>7, <2>1 DEF RemoveField, Touch
<1>8. ASSUME UNCHANGED <<fields, editing, schema, touches>> PROVE Kept
  <2>1. Unshared(fields, fields') /\ FieldList(fields)'
    BY <1>1, <1>8, NoneMoved DEF FieldList, OwnIds, OwnField, Fields
  <2>. QED  BY <1>1, <1>2, <1>8, <2>1
<1>9. ASSUME editing' = FALSE, fields' = <<>>, UNCHANGED touches,
             schema' \subseteq StoredField, IsFiniteSet(schema'),
             \A p, q \in schema' : p.name = q.name => p = q
      PROVE  Kept
  <2>1. FieldList(fields)'
    <3>1. fields' \in Seq(Fields) /\ DOMAIN fields' = {}
      BY <1>9
    <3>. QED  BY <3>1 DEF FieldList, OwnIds, OwnField, Fields
  <2>. QED  BY <1>1, <1>9, <2>1 DEF PropertyInv, StoredField
<1>10. ASSUME SaveFields PROVE Kept
  <2>1. schema' = SchemaOf(fields, {}) /\ editing' = FALSE /\ fields' = <<>> /\ UNCHANGED touches
    BY <1>10 DEF SaveFields
  <2>2. /\ schema' \subseteq StoredField /\ IsFiniteSet(schema')
        /\ \A p, q \in schema' : p.name = q.name => p = q
    BY <1>1, <2>1, SavedOnce
  <2>. QED  BY <1>9, <2>1, <2>2
<1>11. ASSUME CloseFields PROVE Kept
  <2>1. editing' = FALSE /\ fields' = <<>> /\ UNCHANGED <<schema, touches>>
    BY <1>11 DEF CloseFields
  <2>. QED  BY <1>1, <1>9, <2>1
<1>12. ASSUME NEW id \in FieldIds \cup {undefined}, ToggleField(id) PROVE Kept
  BY <1>8, <1>12 DEF ToggleField
<1>13. ASSUME UNCHANGED propVars PROVE Kept
  BY <1>8, <1>13 DEF propVars
<1>. HIDE DEF Kept
<1>14. Kept
  BY <1>4, <1>5, <1>6, <1>7, <1>10, <1>11, <1>12, <1>13 DEF PropertyNext
<1>. QED  BY <1>14 DEF Kept

LEMMA PropertyHolds == PropertySpec => []PropertyInv /\ AddedFieldsApart
<1>1. PropertyInit => PropertyInv
  BY PropertyStart
<1>2. PropertyInv /\ [PropertyNext]_propVars =>
        PropertyInv' /\ (editing /\ editing' => Unshared(fields, fields'))
  BY PropertyStep
<1>3. Unshared(fields, fields') =>
        LET own(seq) == {i \in DOMAIN seq : seq[i].id # undefined} IN
        /\ Len(fields') = Len(fields) =>
             Cardinality({i \in own(fields) : fields'[i] # fields[i]}) <= 1
        /\ Cardinality(own(fields')) >= Cardinality(own(fields)) - 1
  BY DEF Unshared, OwnField
<1>. QED  BY <1>1, <1>2, <1>3, PTL DEF PropertySpec, AddedFieldsApart

(* The form has no more fields than it may, and what is unfolded is one.    *)
PropertyTyped ==
  /\ PropertyInv /\ Len(fields) <= MaxFields
  /\ expanded \in FieldIds \cup {undefined, blank}

LEMMA PropertyTypes == ASSUME PropertyTyped PROVE PropertyTypeOK
<1>1. fields \in Seq(Fields) /\ schema \subseteq StoredField
  BY DEF PropertyTyped, PropertyInv, FieldList
<1>2. Range(fields) \subseteq Fields
  BY <1>1 DEF Range
<1>3. touches \in 0..MaxTouches /\ \A p, q \in schema : p.name = q.name => p = q
  BY DEF PropertyTyped, PropertyInv
<1>. QED  BY <1>1, <1>2, <1>3 DEF PropertyTyped, PropertyTypeOK, StoredField

LEMMA NoMoreThanNames ==
  ASSUME NEW seq \in Seq(Fields), NamesApart(seq)
  PROVE  Len(seq) <= MaxFields
<1>. DEFINE g == [i \in 1..Len(seq) |-> seq[i].name]
<1>1. DOMAIN seq = 1..Len(seq) /\ Len(seq) \in Nat
  OBVIOUS
<1>2. g \in Injection(1..Len(seq), PropNames)
  <2>1. g \in [1..Len(seq) -> PropNames]
    BY <1>1 DEF NamesApart
  <2>2. \A i, j \in 1..Len(seq) : g[i] = g[j] => i = j
    BY <1>1 DEF NamesApart
  <2>. QED  BY <2>1, <2>2 DEF Injection, IsInjective
<1>. HIDE DEF g
<1>3. IsFiniteSet(PropNames) /\ Cardinality(PropNames) <= MaxFields /\ MaxFields \in Nat
  BY PropertyAssumption DEF PropertyAssumption
<1>4. Cardinality(1..Len(seq)) <= Cardinality(PropNames)
  BY <1>2, <1>3, FS_Injection
<1>5. Cardinality(1..Len(seq)) = Len(seq)
  BY <1>1, FS_Interval
<1>6. Cardinality(PropNames) \in Nat
  BY <1>3, FS_CardinalityType
<1>. QED  BY <1>1, <1>3, <1>4, <1>5, <1>6

LEMMA PropertyTypedStep ==
  ASSUME PropertyTyped, [PropertyNext]_propVars
  PROVE  PropertyTyped'
<1>1. /\ PropertyInv' /\ fields \in Seq(Fields) /\ MaxFields \in Nat /\ MaxTouches \in Nat
      /\ touches \in 0..MaxTouches /\ Len(fields) <= MaxFields
      /\ Len(fields) \in Nat
      /\ expanded \in FieldIds \cup {undefined, blank}
  BY PropertyStep, PropertyAssumption DEF PropertyTyped, PropertyInv, FieldList, PropertyAssumption
<1>2. ASSUME Len(fields') <= MaxFields, expanded' \in FieldIds \cup {undefined, blank}
      PROVE  PropertyTyped'
  BY <1>1, <1>2 DEF PropertyTyped, FieldIds, Fields
<1>3. ASSUME fields' = <<>>, expanded' = blank PROVE PropertyTyped'
  <2>1. Len(<<>>) = 0
    OBVIOUS
  <2>. QED  BY <1>1, <1>2, <1>3, <2>1
<1>4. CASE OpenFields
  <2>1. (fields' = ListedFields \/ fields' = <<>>) /\ expanded' = blank
    BY <1>4 DEF OpenFields
  <2>2. ListedFields \in Seq(Fields) /\ NamesApart(ListedFields)
    BY FormListsStored DEF PropertyTyped, PropertyInv
  <2>3. Len(ListedFields) <= MaxFields
    BY <2>2, NoMoreThanNames
  <2>. QED  BY <1>2, <1>3, <2>1, <2>3
<1>5. CASE AddField
  <2>1. /\ expanded' = touches + 1 /\ touches < MaxTouches
        /\ Len(fields) < MaxFields
        /\ fields' = Append(fields, [id |-> FreshId, name |-> blank, required |-> FALSE])
    BY <1>5 DEF AddField, Touch, FreshId
  <2>2. touches + 1 \in FieldIds
    BY <1>1, <2>1 DEF FieldIds
  <2>3. Len(fields') = Len(fields) + 1
    BY <1>1, <2>1
  <2>. QED  BY <1>1, <1>2, <2>1, <2>2, <2>3
<1>6. ASSUME NEW id, NEW n, NEW r, UpdateField(id, n, r) PROVE PropertyTyped'
  <2>1. DOMAIN fields' = DOMAIN fields /\ UNCHANGED expanded
    BY <1>6 DEF UpdateField, Touch
  <2>2. fields' \in Seq(Fields)'
    BY <1>1 DEF PropertyInv, FieldList
  <2>3. Len(fields') = Len(fields)
    BY <1>1, <2>1, <2>2
  <2>. QED  BY <1>1, <1>2, <2>1, <2>3
<1>7. ASSUME NEW id, RemoveField(id) PROVE PropertyTyped'
  <2>. DEFINE places == {i \in DOMAIN fields : fields[i].id # id}
  <2>1. fields' = At(fields, places) /\ expanded' = blank
    BY <1>7 DEF RemoveField, Touch
  <2>2. places \in SUBSET (1..Len(fields))
    BY <1>1
  <2>. HIDE DEF places
  <2>3. Len(At(fields, places)) = Cardinality(places)
    BY <1>1, <2>2, KeptOfList
  <2>4. IsFiniteSet(1..Len(fields)) /\ Cardinality(1..Len(fields)) = Len(fields)
    <3>1. Len(fields) \in Nat
      BY <1>1
    <3>2. PICK m \in Nat : m = Len(fields)
      BY <3>1
    <3>3. IsFiniteSet(1..m) /\ Cardinality(1..m) = m
      BY FS_Interval
    <3>. QED  BY <3>2, <3>3
  <2>5. Cardinality(places) <= Len(fields) /\ Cardinality(places) \in Nat
    BY <2>2, <2>4, FS_Subset, FS_CardinalityType
  <2>6. Len(fields') <= MaxFields
    BY <1>1, <2>1, <2>3, <2>5
  <2>. QED  BY <1>1, <1>2, <2>1, <2>6
<1>8. CASE SaveFields \/ CloseFields
  BY <1>3, <1>8 DEF SaveFields, CloseFields
<1>9. ASSUME NEW id \in FieldIds \cup {undefined}, ToggleField(id) PROVE PropertyTyped'
  BY <1>1, <1>2, <1>9 DEF ToggleField
<1>10. CASE UNCHANGED propVars
  BY <1>1, <1>2, <1>10 DEF propVars
<1>. QED  BY <1>4, <1>5, <1>6, <1>7, <1>8, <1>9, <1>10 DEF PropertyNext

LEMMA PropertyTypedHolds == PropertySpec => []PropertyTyped
<1>1. PropertyInit => PropertyTyped
  <2>. SUFFICES ASSUME PropertyInit PROVE PropertyTyped
    OBVIOUS
  <2>1. fields = <<>> /\ expanded = blank
    BY DEF PropertyInit
  <2>2. Len(<<>>) = 0 /\ MaxFields \in Nat
    BY PropertyAssumption DEF PropertyAssumption
  <2>. QED  BY <2>1, <2>2, PropertyStart DEF PropertyTyped
<1>. QED  BY <1>1, PropertyTypedStep, PTL DEF PropertySpec

(* ---------------------------- schema mapping ---------------------------- *)
Mapping(L) ==
  /\ L \subseteq Links /\ IsFiniteSet(L)
  /\ \A m, n \in L : m.col = n.col \/ m.prop = n.prop => m = n

OneMapping(M) == M = {} \/ \E L : M = {L} /\ Mapping(L)

PageOK(p) ==
  /\ p = [source |-> p.source, sources |-> p.sources, entity |-> p.entity, known |-> p.known,
          raws |-> p.raws, saved |-> p.saved, generating |-> p.generating, seeding |-> p.seeding]
  /\ p.sources \subseteq Sources /\ p.known \subseteq EntityTypes /\ p.raws \in Seq(MapRows)

MapperOK(m) == m = [links |-> m.links, fks |-> m.fks] /\ Mapping(m.links)

RememberedOK(R) ==
  /\ R = [own |-> R.own, last |-> R.last, fks |-> R.fks]
  /\ DOMAIN R.own = Sources /\ (\A s \in Sources : OneMapping(R.own[s])) /\ OneMapping(R.last)

JobOK(j) ==
  /\ j.kind = "types" => j.since \subseteq EntityTypes
  /\ j.kind = "generate" => j.name \in EntityTypes
  /\ j.kind = "seed" => /\ j = [kind |-> "seed", pack |-> j.pack, next |-> j.next]
                        /\ j.pack \in DOMAIN Packs /\ j.next \in 1..Len(Packs[j.pack])

SaveOK(s) ==
  /\ s = [src |-> s.src, ent |-> s.ent, links |-> s.links, fks |-> s.fks, todo |-> s.todo]
  /\ s.src \in Sources /\ s.ent \in EntityTypes /\ Mapping(s.links)

Seeds(j) == j.kind = "seed" \/ (j.kind = "types" /\ j.by = "seed")

(* Every mapping, on the screen, remembered or on its way, is one-to-one,   *)
(* and a template that is being added is the one the page says.             *)
SchemaInv ==
  /\ PageOK(page) /\ MapperOK(mapper) /\ RememberedOK(remembered)
  /\ \A j \in mapJobs : JobOK(j)
  /\ \A s \in mapSaves : SaveOK(s)
  /\ types \subseteq EntityTypes /\ mapRows \subseteq MapRows /\ IsFiniteSet(mapRows)
  /\ \A i, j \in mapJobs : Seeds(i) /\ Seeds(j) => i = j
  /\ (\E j \in mapJobs : Seeds(j)) => page.seeding # Nothing

RowsShown(p) == {[col |-> r.col, prop |-> r.prop] : r \in Range(p.raws)}
AnyRecalled(R) == UNION (R.last \cup UNION {R.own[s] : s \in Sources})

LEMMA PartOfMapping ==
  ASSUME NEW L, Mapping(L), NEW M \in SUBSET L
  PROVE  Mapping(M)
BY FS_Subset DEF Mapping

LEMMA MappingTaken ==
  ASSUME NEW p, NEW L, Mapping(L), NEW r \in MapRows
  PROVE  /\ Mapping(Taken(p, L, r))
         /\ Taken(p, L, r) \subseteq L \cup {[col |-> r.col, prop |-> r.prop]}
<1>. DEFINE l == [col |-> r.col, prop |-> r.prop]
<1>1. l \in Links /\ l.col = r.col /\ l.prop = r.prop
  BY DEF MapRows, Links
<1>. HIDE DEF l
<1>2. Taken(p, L, r) = L \/ (Taken(p, L, r) = L \cup {l} /\ FreeIn(L, r))
  BY DEF Taken, l
<1>3. CASE Taken(p, L, r) = L \cup {l} /\ FreeIn(L, r)
  <2>1. IsFiniteSet(L \cup {l})
    BY FS_AddElement DEF Mapping
  <2>2. \A m \in L : m.col # l.col /\ m.prop # l.prop
    BY <1>1, <1>3 DEF FreeIn
  <2>3. Mapping(L \cup {l})
    BY <1>1, <2>1, <2>2 DEF Mapping
  <2>. QED  BY <1>3, <2>3 DEF l
<1>. QED  BY <1>2, <1>3

TakenRows(p, n, f) ==
  f = [i \in 0..n |-> IF i = 0 THEN {} ELSE Taken(p, f[i - 1], p.raws[i])]

LEMMA TakenExists ==
  ASSUME NEW p, NEW n \in Nat
  PROVE  \E f : TakenRows(p, n, f)
<1>. DEFINE S == {k \in Nat : \E f : TakenRows(p, k, f)}
<1>1. 0 \in S
  <2>. DEFINE f == [i \in 0..0 |-> {}]
  <2>1. f = [i \in 0..0 |-> IF i = 0 THEN {} ELSE Taken(p, f[i - 1], p.raws[i])]
    <3>1. \A i \in 0..0 : i = 0
      OBVIOUS
    <3>. QED  BY <3>1
  <2>. QED  BY <2>1 DEF TakenRows
<1>2. ASSUME NEW k \in Nat, k \in S PROVE k + 1 \in S
  <2>1. PICK f : TakenRows(p, k, f)
    BY <1>2
  <2>. DEFINE g == [i \in 0..k + 1 |-> IF i = k + 1 THEN Taken(p, f[k], p.raws[k + 1]) ELSE f[i]]
  <2>2. \A i \in 0..k : f[i] = IF i = 0 THEN {} ELSE Taken(p, f[i - 1], p.raws[i])
    BY <2>1 DEF TakenRows
  <2>3. \A i \in 0..k + 1 : g[i] = IF i = 0 THEN {} ELSE Taken(p, g[i - 1], p.raws[i])
    <3>. TAKE i \in 0..k + 1
    <3>1. CASE i = k + 1
      <4>1. g[k + 1] = Taken(p, f[k], p.raws[k + 1]) /\ g[k] = f[k] /\ i # 0 /\ i - 1 = k
        BY <3>1
      <4>. QED  BY <3>1, <4>1
    <3>2. CASE i \in 1..k
      <4>1. g[i] = f[i] /\ g[i - 1] = f[i - 1] /\ i # 0 /\ i \in 0..k
        BY <3>2
      <4>2. g[i] = Taken(p, f[i - 1], p.raws[i])
        BY <2>2, <4>1
      <4>. QED  BY <4>1, <4>2
    <3>3. CASE i = 0
      <4>1. g[i] = f[i] /\ i \in 0..k
        BY <3>3
      <4>. QED  BY <2>2, <3>3, <4>1
    <3>. QED  BY <3>1, <3>2, <3>3
  <2>4. g = [i \in 0..k + 1 |-> g[i]]
    OBVIOUS
  <2>. HIDE DEF g
  <2>5. TakenRows(p, k + 1, g)
    BY <2>3, <2>4 DEF TakenRows
  <2>. QED  BY <2>5
<1>3. Nat \subseteq S
  <2>. HIDE DEF S
  <2>. QED  BY <1>1, <1>2, Counting
<1>. QED  BY <1>3

\* The page finds one mapping in the rows, and nothing that is not there.
LEMMA RowsGiveMapping ==
  ASSUME NEW p, PageOK(p)
  PROVE  Mapping(RowLinks(p)) /\ RowLinks(p) \subseteq RowsShown(p)
<1>. DEFINE n == Len(p.raws)
            taken == CHOOSE f : f = [i \in 0..n |->
                       IF i = 0 THEN {} ELSE Taken(p, f[i - 1], p.raws[i])]
<1>1. /\ p.raws \in Seq(MapRows) /\ n \in Nat /\ DOMAIN p.raws = 1..n
      /\ \A i \in 1..n : p.raws[i] \in MapRows
  BY DEF PageOK
<1>2. RowLinks(p) = taken[n]
  BY DEF RowLinks
<1>. HIDE DEF n
<1>3. TakenRows(p, n, taken)
  BY <1>1, TakenExists DEF TakenRows
<1>. HIDE DEF taken
<1>4. \A i \in 0..n : taken[i] = IF i = 0 THEN {} ELSE Taken(p, taken[i - 1], p.raws[i])
  BY <1>3 DEF TakenRows
<1>. DEFINE S == {k \in Nat : k <= n => Mapping(taken[k]) /\ taken[k] \subseteq RowsShown(p)}
<1>5. 0 \in S
  <2>1. 0 \in 0..n
    BY <1>1
  <2>2. taken[0] = {}
    BY <1>4, <2>1
  <2>3. Mapping({})
    BY FS_EmptySet DEF Mapping
  <2>. QED  BY <2>2, <2>3
<1>6. ASSUME NEW k \in Nat, k \in S PROVE k + 1 \in S
  <2>1. SUFFICES ASSUME k + 1 <= n
                 PROVE  Mapping(taken[k + 1]) /\ taken[k + 1] \subseteq RowsShown(p)
    OBVIOUS
  <2>2. k + 1 \in 1..n /\ k + 1 \in 0..n /\ k + 1 # 0 /\ (k + 1) - 1 = k /\ k <= n
    BY <1>1, <2>1
  <2>3. taken[k + 1] = Taken(p, taken[k], p.raws[k + 1])
    BY <1>4, <2>2
  <2>4. p.raws[k + 1] \in MapRows /\ p.raws[k + 1] \in Range(p.raws)
    BY <1>1, <2>2 DEF Range
  <2>5. PICK r \in MapRows : r = p.raws[k + 1]
    BY <2>4
  <2>6. [col |-> r.col, prop |-> r.prop] \in RowsShown(p)
    BY <2>4, <2>5 DEF RowsShown
  <2>7. Mapping(taken[k]) /\ taken[k] \subseteq RowsShown(p)
    BY <1>6, <2>2
  <2>8. /\ Mapping(Taken(p, taken[k], r))
        /\ Taken(p, taken[k], r) \subseteq taken[k] \cup {[col |-> r.col, prop |-> r.prop]}
    BY <2>7, MappingTaken
  <2>. QED  BY <2>3, <2>5, <2>6, <2>7, <2>8
<1>7. Nat \subseteq S
  <2>. HIDE DEF S
  <2>. QED  BY <1>5, <1>6, Counting
<1>8. n \in S
  BY <1>1, <1>7
<1>. QED  BY <1>1, <1>2, <1>8

LEMMA RecalledMapping ==
  ASSUME NEW p, RememberedOK(remembered)
  PROVE  Mapping(Recalled(p)) /\ Recalled(p) \subseteq AnyRecalled(remembered)
<1>1. \A M : OneMapping(M) => Mapping(UNION M)
  <2>. SUFFICES ASSUME NEW M, OneMapping(M) PROVE Mapping(UNION M)
    OBVIOUS
  <2>1. CASE M = {}
    <3>1. UNION M = {}
      BY <2>1
    <3>. QED  BY <3>1, FS_EmptySet DEF Mapping
  <2>2. CASE \E L : M = {L} /\ Mapping(L)
    <3>1. PICK L : M = {L} /\ Mapping(L)
      BY <2>2
    <3>2. UNION M = L
      BY <3>1
    <3>. QED  BY <3>1, <3>2
  <2>. QED  BY <2>1, <2>2 DEF OneMapping
<1>2. \/ p.source \in Sources /\ Recalled(p) = UNION remembered.own[p.source]
      \/ Recalled(p) = UNION remembered.last
  BY DEF Recalled
<1>. QED  BY <1>1, <1>2 DEF RememberedOK, AnyRecalled

LEMMA FreshMapping ==
  ASSUME NEW p, PageOK(p), RememberedOK(remembered)
  PROVE  /\ Mapping(InitialLinks(p)) /\ MapperOK(FreshMapper(p))
         /\ FreshMapper(p).links \subseteq RowsShown(p) \cup AnyRecalled(remembered)
<1>1. Mapping(Recalled(p)) /\ Recalled(p) \subseteq AnyRecalled(remembered)
  BY RecalledMapping
<1>2. Mapping(RowLinks(p)) /\ RowLinks(p) \subseteq RowsShown(p)
  BY RowsGiveMapping
<1>3. Mapping({m \in Recalled(p) : FitsHere(p, m)})
  BY <1>1, PartOfMapping
<1>4. Mapping(InitialLinks(p)) /\ InitialLinks(p) \subseteq RowsShown(p) \cup AnyRecalled(remembered)
  <2>1. CASE RowLinks(p) # {}
    BY <1>2, <2>1 DEF InitialLinks
  <2>2. CASE RowLinks(p) = {}
    BY <1>1, <1>3, <2>2 DEF InitialLinks
  <2>. QED  BY <2>1, <2>2
<1>5. FreshMapper(p).links = InitialLinks(p) \/ FreshMapper(p).links = Recalled(p)
  BY DEF FreshMapper
<1>6. FreshMapper(p) = [links |-> FreshMapper(p).links, fks |-> FreshMapper(p).fks]
  BY DEF FreshMapper
<1>. QED  BY <1>1, <1>4, <1>5, <1>6 DEF MapperOK

\* What a change of the page does to the mapper.
LEMMA ShownKeeps ==
  ASSUME SchemaInv, NEW p, PageOK(p), Show(p)
  PROVE  /\ PageOK(page') /\ MapperOK(mapper')
         /\ MapperShown(page) /\ MapperShown(page') /\ MapperKey(page') # MapperKey(page)
              => mapper'.links \subseteq RowsShown(page') \cup AnyRecalled(remembered)
<1>1. page' = p /\ mapper' = MapperOf(p) /\ MapperOK(mapper) /\ RememberedOK(remembered)
  BY DEF SchemaInv, Show
<1>2. /\ Mapping(InitialLinks(p)) /\ MapperOK(FreshMapper(p))
      /\ FreshMapper(p).links \subseteq RowsShown(p) \cup AnyRecalled(remembered)
  BY <1>1, FreshMapping
<1>3. CASE ~MapperShown(p)
  <2>1. mapper' = [links |-> {}, fks |-> {}]
    BY <1>1, <1>3 DEF MapperOf
  <2>2. Mapping({})
    BY FS_EmptySet DEF Mapping
  <2>3. MapperOK(mapper')
    BY <2>1, <2>2 DEF MapperOK
  <2>. QED  BY <1>1, <1>3, <2>3
<1>4. CASE MapperShown(p) /\ (~MapperShown(page) \/ MapperKey(p) # MapperKey(page))
  BY <1>1, <1>2, <1>4 DEF MapperOf
<1>5. CASE MapperShown(p) /\ MapperShown(page) /\ MapperKey(p) = MapperKey(page)
  <2>1. mapper' = [mapper EXCEPT !.links = IF InitialLinks(p) # {} THEN InitialLinks(p) ELSE @]
    BY <1>1, <1>5 DEF MapperOf
  <2>2. mapper = [links |-> mapper.links, fks |-> mapper.fks] /\ Mapping(mapper.links)
    BY <1>1 DEF MapperOK
  <2>3. PICK L : L = (IF InitialLinks(p) # {} THEN InitialLinks(p) ELSE mapper.links)
    OBVIOUS
  <2>4. mapper' = [links |-> L, fks |-> mapper.fks]
    BY <2>1, <2>2, <2>3
  <2>5. Mapping(L)
    BY <1>2, <2>2, <2>3
  <2>6. MapperOK(mapper')
    BY <2>4, <2>5 DEF MapperOK
  <2>. QED  BY <1>1, <1>5, <2>6
<1>. QED  BY <1>3, <1>4, <1>5

Behind ==
  MapperShown(page) /\ MapperShown(page') /\ MapperKey(page') # MapperKey(page)
    => mapper'.links \subseteq RowsShown(page') \cup AnyRecalled(remembered')

\* A change of the page that leaves the pair of the mapper.
LEMMA SamePair ==
  ASSUME NEW p, NEW q, p.source = q.source, p.entity = q.entity, p.known = q.known
  PROVE  MapperKey(p) = MapperKey(q)
BY DEF MapperKey, ActiveEntity

LEMMA SchemaStart == ASSUME SchemaInit PROVE SchemaInv
<1>1. PageOK(page)
  <2>1. page = [source |-> Nothing, sources |-> {}, entity |-> Nothing, known |-> {},
                raws |-> <<>>, saved |-> <<>>, generating |-> FALSE, seeding |-> Nothing]
    BY DEF SchemaInit
  <2>. QED  BY <2>1 DEF PageOK
<1>2. Mapping({}) /\ OneMapping({})
  BY FS_EmptySet DEF Mapping, OneMapping
<1>3. MapperOK(mapper)
  BY <1>2 DEF SchemaInit, MapperOK
<1>4. RememberedOK(remembered)
  BY <1>2 DEF SchemaInit, RememberedOK
<1>5. \A j \in mapJobs : JobOK(j) /\ ~Seeds(j)
  BY SchemaAssumption DEF SchemaInit, JobOK, Seeds, SchemaAssumption
<1>6. mapSaves = {} /\ types \subseteq EntityTypes /\ mapRows \subseteq MapRows /\ IsFiniteSet(mapRows)
  BY SchemaAssumption DEF SchemaInit, SchemaAssumption
<1>. QED  BY <1>1, <1>3, <1>4, <1>5, <1>6 DEF SchemaInv

\* What the page becomes by one answer or one click.
LEMMA SourcesSet ==
  ASSUME PageOK(page), NEW s, NEW p,
         p = [page EXCEPT !.sources = Sources, !.source = s]
  PROVE  PageOK(p) /\ p.seeding = page.seeding
<1>1. page = [source |-> page.source, sources |-> page.sources, entity |-> page.entity, known |-> page.known,
                 raws |-> page.raws, saved |-> page.saved, generating |-> page.generating, seeding |-> page.seeding]
      /\ page.sources \subseteq Sources /\ page.known \subseteq EntityTypes
      /\ page.raws \in Seq(MapRows)
  BY DEF PageOK
<1>2. p = [source |-> s, sources |-> Sources, entity |-> page.entity, known |-> page.known,
            raws |-> page.raws, saved |-> page.saved, generating |-> page.generating, seeding |-> page.seeding]
  BY <1>1
<1>. QED  BY <1>1, <1>2 DEF PageOK

LEMMA PairSet ==
  ASSUME PageOK(page), NEW s, NEW e, NEW p,
         p = [page EXCEPT !.source = s, !.entity = e]
  PROVE  PageOK(p) /\ p.seeding = page.seeding
<1>1. page = [source |-> page.source, sources |-> page.sources, entity |-> page.entity, known |-> page.known,
                 raws |-> page.raws, saved |-> page.saved, generating |-> page.generating, seeding |-> page.seeding]
      /\ page.sources \subseteq Sources /\ page.known \subseteq EntityTypes
      /\ page.raws \in Seq(MapRows)
  BY DEF PageOK
<1>2. p = [source |-> s, sources |-> page.sources, entity |-> e, known |-> page.known,
            raws |-> page.raws, saved |-> page.saved, generating |-> page.generating, seeding |-> page.seeding]
  BY <1>1
<1>. QED  BY <1>1, <1>2 DEF PageOK

LEMMA SourceSet ==
  ASSUME PageOK(page), NEW s, NEW p,
         p = [page EXCEPT !.source = s]
  PROVE  PageOK(p) /\ p.seeding = page.seeding
<1>1. page = [source |-> page.source, sources |-> page.sources, entity |-> page.entity, known |-> page.known,
                 raws |-> page.raws, saved |-> page.saved, generating |-> page.generating, seeding |-> page.seeding]
      /\ page.sources \subseteq Sources /\ page.known \subseteq EntityTypes
      /\ page.raws \in Seq(MapRows)
  BY DEF PageOK
<1>2. p = [source |-> s, sources |-> page.sources, entity |-> page.entity, known |-> page.known,
            raws |-> page.raws, saved |-> page.saved, generating |-> page.generating, seeding |-> page.seeding]
  BY <1>1
<1>. QED  BY <1>1, <1>2 DEF PageOK

LEMMA EntitySet ==
  ASSUME PageOK(page), NEW e, NEW p,
         p = [page EXCEPT !.entity = e]
  PROVE  PageOK(p) /\ p.seeding = page.seeding
<1>1. page = [source |-> page.source, sources |-> page.sources, entity |-> page.entity, known |-> page.known,
                 raws |-> page.raws, saved |-> page.saved, generating |-> page.generating, seeding |-> page.seeding]
      /\ page.sources \subseteq Sources /\ page.known \subseteq EntityTypes
      /\ page.raws \in Seq(MapRows)
  BY DEF PageOK
<1>2. p = [source |-> page.source, sources |-> page.sources, entity |-> e, known |-> page.known,
            raws |-> page.raws, saved |-> page.saved, generating |-> page.generating, seeding |-> page.seeding]
  BY <1>1
<1>. QED  BY <1>1, <1>2 DEF PageOK

LEMMA KnownSet ==
  ASSUME PageOK(page), NEW e, NEW T \in SUBSET EntityTypes, NEW p,
         p = [page EXCEPT !.known = T, !.entity = e]
  PROVE  PageOK(p) /\ p.seeding = page.seeding
<1>1. page = [source |-> page.source, sources |-> page.sources, entity |-> page.entity, known |-> page.known,
                 raws |-> page.raws, saved |-> page.saved, generating |-> page.generating, seeding |-> page.seeding]
      /\ page.sources \subseteq Sources /\ page.known \subseteq EntityTypes
      /\ page.raws \in Seq(MapRows)
  BY DEF PageOK
<1>2. p = [source |-> page.source, sources |-> page.sources, entity |-> e, known |-> T,
            raws |-> page.raws, saved |-> page.saved, generating |-> page.generating, seeding |-> page.seeding]
  BY <1>1
<1>. QED  BY <1>1, <1>2 DEF PageOK

LEMMA RowsSet ==
  ASSUME PageOK(page), NEW r \in Seq(MapRows), NEW l, NEW p,
         p = [page EXCEPT !.raws = r, !.saved = l]
  PROVE  PageOK(p) /\ p.seeding = page.seeding
         /\ p.source = page.source /\ p.entity = page.entity /\ p.known = page.known
<1>1. page = [source |-> page.source, sources |-> page.sources, entity |-> page.entity, known |-> page.known,
                 raws |-> page.raws, saved |-> page.saved, generating |-> page.generating, seeding |-> page.seeding]
      /\ page.sources \subseteq Sources /\ page.known \subseteq EntityTypes
      /\ page.raws \in Seq(MapRows)
  BY DEF PageOK
<1>2. p = [source |-> page.source, sources |-> page.sources, entity |-> page.entity, known |-> page.known,
            raws |-> r, saved |-> l, generating |-> page.generating, seeding |-> page.seeding]
  BY <1>1
<1>. QED  BY <1>1, <1>2 DEF PageOK

LEMMA GeneratingSet ==
  ASSUME PageOK(page), NEW g, NEW p,
         p = [page EXCEPT !.generating = g]
  PROVE  PageOK(p) /\ p.seeding = page.seeding
         /\ p.source = page.source /\ p.entity = page.entity /\ p.known = page.known
<1>1. page = [source |-> page.source, sources |-> page.sources, entity |-> page.entity, known |-> page.known,
                 raws |-> page.raws, saved |-> page.saved, generating |-> page.generating, seeding |-> page.seeding]
      /\ page.sources \subseteq Sources /\ page.known \subseteq EntityTypes
      /\ page.raws \in Seq(MapRows)
  BY DEF PageOK
<1>2. p = [source |-> page.source, sources |-> page.sources, entity |-> page.entity, known |-> page.known,
            raws |-> page.raws, saved |-> page.saved, generating |-> g, seeding |-> page.seeding]
  BY <1>1
<1>. QED  BY <1>1, <1>2 DEF PageOK

LEMMA SeedingSet ==
  ASSUME PageOK(page), NEW k, NEW p,
         p = [page EXCEPT !.seeding = k]
  PROVE  PageOK(p) /\ p.seeding = k
         /\ p.source = page.source /\ p.entity = page.entity /\ p.known = page.known
<1>1. page = [source |-> page.source, sources |-> page.sources, entity |-> page.entity, known |-> page.known,
                 raws |-> page.raws, saved |-> page.saved, generating |-> page.generating, seeding |-> page.seeding]
      /\ page.sources \subseteq Sources /\ page.known \subseteq EntityTypes
      /\ page.raws \in Seq(MapRows)
  BY DEF PageOK
<1>2. p = [source |-> page.source, sources |-> page.sources, entity |-> page.entity, known |-> page.known,
            raws |-> page.raws, saved |-> page.saved, generating |-> page.generating, seeding |-> k]
  BY <1>1
<1>. QED  BY <1>1, <1>2 DEF PageOK

\* An answer or a click that changes the page, and takes no job back.
LEMMA PageShown ==
  ASSUME SchemaInv, NEW p, PageOK(p), Show(p), mapJobs' \subseteq mapJobs,
         (\E j \in mapJobs' : Seeds(j)) => p.seeding # Nothing,
         UNCHANGED <<mapSaves, remembered, types, mapRows>>
  PROVE  SchemaInv' /\ Behind
<1>1. PageOK(page') /\ MapperOK(mapper') /\ Behind
  BY ShownKeeps DEF Behind
<1>2. (\E j \in mapJobs' : Seeds(j)) => page'.seeding # Nothing
  BY DEF Show
<1>3. /\ \A j \in mapJobs' : JobOK(j)
      /\ \A i, j \in mapJobs' : Seeds(i) /\ Seeds(j) => i = j
  BY DEF SchemaInv
<1>. QED  BY <1>1, <1>2, <1>3 DEF SchemaInv

LEMMA LoadsKeep ==
  ASSUME SchemaInv, NEW j \in mapJobs, ConnectionsLoaded(j) \/ MappingsLoaded(j)
  PROVE  SchemaInv' /\ Behind
<1>1. /\ PageOK(page) /\ mapJobs' \subseteq mapJobs
      /\ UNCHANGED <<mapSaves, remembered, types, mapRows>>
      /\ (\E i \in mapJobs' : Seeds(i)) => page.seeding # Nothing
  BY DEF SchemaInv, ConnectionsLoaded, MappingsLoaded
<1>2. CASE UNCHANGED <<page, mapper>>
  <2>1. SchemaInv'
    BY <1>1, <1>2 DEF SchemaInv
  <2>2. Behind
    BY <1>2 DEF Behind
  <2>. QED  BY <2>1, <2>2
<1>3. CASE \E s \in Sources \cup {headKey} : Show([page EXCEPT !.sources = Sources, !.source = s])
  <2>1. PICK s, p : p = [page EXCEPT !.sources = Sources, !.source = s] /\ Show(p)
    BY <1>3
  <2>2. PageOK(p) /\ p.seeding = page.seeding
    BY <1>1, <2>1, SourcesSet
  <2>. QED  BY <1>1, <2>1, <2>2, PageShown
<1>4. CASE \E S \in {SeededRows, mapRows} \ {{}} :
             Show([page EXCEPT !.raws = SetToSeq(S), !.saved = SetToSeq(SavedGroups(S))])
  <2>1. PICK S, p : /\ S \in {SeededRows, mapRows} /\ Show(p)
                    /\ p = [page EXCEPT !.raws = SetToSeq(S), !.saved = SetToSeq(SavedGroups(S))]
    BY <1>4
  <2>2. S \subseteq MapRows /\ IsFiniteSet(S)
    BY <2>1, SchemaAssumption DEF SchemaInv, SchemaAssumption
  <2>3. SetToSeq(S) \in Seq(S)
    BY <2>2, SetListed
  <2>4. SetToSeq(S) \in Seq(MapRows)
    BY <2>2, <2>3
  <2>5. PageOK(p) /\ p.seeding = page.seeding
    <3>1. PICK rows, seq : /\ rows = SetToSeq(S) /\ seq = SetToSeq(SavedGroups(S))
                            /\ rows \in Seq(MapRows)
      BY <2>4
    <3>2. p = [page EXCEPT !.raws = rows, !.saved = seq]
      BY <2>1, <3>1
    <3>. QED  BY <1>1, <3>1, <3>2, RowsSet
  <2>. QED  BY <1>1, <2>1, <2>5, PageShown
<1>. QED  BY <1>2, <1>3, <1>4 DEF ConnectionsLoaded, MappingsLoaded

LEMMA TypesLoadedKeeps ==
  ASSUME SchemaInv, NEW j \in mapJobs, TypesLoaded(j)
  PROVE  SchemaInv' /\ Behind
<1>1. /\ PageOK(page) /\ mapJobs' = mapJobs \ {j} /\ j.kind = "types"
      /\ UNCHANGED <<mapSaves, remembered, types, mapRows>>
      /\ (\E i \in mapJobs : Seeds(i)) => page.seeding # Nothing
      /\ \A i \in mapJobs : Seeds(i) /\ Seeds(j) => i = j
      /\ j.since \subseteq EntityTypes /\ types \subseteq EntityTypes
  BY DEF SchemaInv, TypesLoaded, JobOK
<1>2. PICK q \in {page} \cup {WithTypes(page, S) : S \in {j.since, types}} :
        Show(Freed(IF j.pick = Nothing THEN q ELSE [q EXCEPT !.entity = j.pick], j))
  BY DEF TypesLoaded
<1>3. PageOK(q) /\ q.seeding = page.seeding
  <2>1. CASE q = page
    BY <1>1, <2>1
  <2>2. CASE \E S \in {j.since, types} : q = WithTypes(page, S)
    <3>1. PICK S \in {j.since, types} : q = WithTypes(page, S)
      BY <2>2
    <3>2. S \in SUBSET EntityTypes
      BY <1>1
    <3>3. PICK e : e = (IF page.entity \in S THEN page.entity ELSE FirstType(S))
      OBVIOUS
    <3>4. q = [page EXCEPT !.known = S, !.entity = e]
      BY <1>1, <3>1, <3>3 DEF WithTypes, PageOK
    <3>. QED  BY <1>1, <3>2, <3>4, KnownSet
  <2>. QED  BY <2>1, <2>2
<1>4. PICK r : r = (IF j.pick = Nothing THEN q ELSE [q EXCEPT !.entity = j.pick])
  OBVIOUS
<1>5. PageOK(r) /\ r.seeding = page.seeding
  <2>1. q = [source |-> q.source, sources |-> q.sources, entity |-> q.entity, known |-> q.known,
             raws |-> q.raws, saved |-> q.saved, generating |-> q.generating, seeding |-> q.seeding]
        /\ q.sources \subseteq Sources /\ q.known \subseteq EntityTypes /\ q.raws \in Seq(MapRows)
    BY <1>3 DEF PageOK
  <2>2. CASE r = [q EXCEPT !.entity = j.pick]
    <3>1. r = [source |-> q.source, sources |-> q.sources, entity |-> j.pick, known |-> q.known,
               raws |-> q.raws, saved |-> q.saved, generating |-> q.generating, seeding |-> q.seeding]
      BY <2>1, <2>2
    <3>. QED  BY <1>3, <2>1, <3>1 DEF PageOK
  <2>. QED  BY <1>3, <1>4, <2>2
<1>6. PICK p : p = Freed(r, j)
  OBVIOUS
<1>7. /\ PageOK(p)
      /\ IF j.by = "seed" THEN TRUE ELSE p.seeding = page.seeding
  <2>1. r = [source |-> r.source, sources |-> r.sources, entity |-> r.entity, known |-> r.known,
             raws |-> r.raws, saved |-> r.saved, generating |-> r.generating, seeding |-> r.seeding]
        /\ r.sources \subseteq Sources /\ r.known \subseteq EntityTypes /\ r.raws \in Seq(MapRows)
    BY <1>5 DEF PageOK
  <2>2. CASE j.by = "generate"
    <3>1. p = [r EXCEPT !.generating = FALSE]
      BY <1>6, <2>2 DEF Freed
    <3>2. p = [source |-> r.source, sources |-> r.sources, entity |-> r.entity, known |-> r.known,
               raws |-> r.raws, saved |-> r.saved, generating |-> FALSE, seeding |-> r.seeding]
      BY <2>1, <3>1
    <3>. QED  BY <1>5, <2>1, <3>2 DEF PageOK
  <2>3. CASE j.by = "seed"
    <3>1. p = [r EXCEPT !.seeding = Nothing]
      BY <1>6, <2>3 DEF Freed
    <3>2. p = [source |-> r.source, sources |-> r.sources, entity |-> r.entity, known |-> r.known,
               raws |-> r.raws, saved |-> r.saved, generating |-> r.generating, seeding |-> Nothing]
      BY <2>1, <3>1
    <3>. QED  BY <2>1, <2>3, <3>2 DEF PageOK
  <2>4. CASE j.by \notin {"generate", "seed"}
    <3>1. p = r
      BY <1>6, <2>4 DEF Freed
    <3>. QED  BY <1>5, <3>1
  <2>. QED  BY <2>2, <2>3, <2>4
<1>8. (\E i \in mapJobs' : Seeds(i)) => p.seeding # Nothing
  <2>1. CASE j.by = "seed"
    <3>1. Seeds(j)
      BY <1>1, <2>1 DEF Seeds
    <3>2. \A i \in mapJobs' : ~Seeds(i)
      BY <1>1, <3>1
    <3>. QED  BY <3>2
  <2>2. CASE j.by # "seed"
    BY <1>1, <1>7, <2>2
  <2>. QED  BY <2>1, <2>2
<1>9. Show(p)
  BY <1>2, <1>4, <1>6
<1>. QED  BY <1>1, <1>7, <1>8, <1>9, PageShown

LEMMA SelectionKeeps ==
  ASSUME SchemaInv,
         \/ \E s \in Sources : SelectSource(s)
         \/ \E e \in EntityTypes : SelectEntity(e)
         \/ \E i \in DOMAIN page.saved : PickSaved(i)
  PROVE  SchemaInv' /\ Behind
<1>1. PageOK(page) /\ ((\E j \in mapJobs : Seeds(j)) => page.seeding # Nothing)
  BY DEF SchemaInv
<1>2. UNCHANGED <<mapJobs, mapSaves, remembered, types, mapRows>>
  BY DEF SelectSource, SelectEntity, PickSaved
<1>3. \E p : Show(p) /\ PageOK(p) /\ p.seeding = page.seeding
  <2>1. CASE \E s \in Sources : SelectSource(s)
    <3>1. PICK s, p : p = [page EXCEPT !.source = s] /\ Show(p)
      BY <2>1 DEF SelectSource
    <3>. QED  BY <1>1, <3>1, SourceSet
  <2>2. CASE \E e \in EntityTypes : SelectEntity(e)
    <3>1. PICK e, p : p = [page EXCEPT !.entity = e] /\ Show(p)
      BY <2>2 DEF SelectEntity
    <3>. QED  BY <1>1, <3>1, EntitySet
  <2>3. CASE \E i \in DOMAIN page.saved : PickSaved(i)
    <3>1. PICK i \in DOMAIN page.saved : PickSaved(i)
      BY <2>3
    <3>2. PICK s : s = page.saved[i]
      OBVIOUS
    <3>3. PICK x, y : /\ x = (IF s.src \in page.sources THEN s.src ELSE page.source)
                      /\ y = (IF s.ent \in page.known THEN s.ent ELSE page.entity)
      OBVIOUS
    <3>4. Show([page EXCEPT !.source = x, !.entity = y])
      BY <1>1, <3>1, <3>2, <3>3 DEF PickSaved, PageOK
    <3>5. PICK p : p = [page EXCEPT !.source = x, !.entity = y]
      OBVIOUS
    <3>. QED  BY <1>1, <3>4, <3>5, PairSet
  <2>. QED  BY <2>1, <2>2, <2>3
<1>4. PICK p : Show(p) /\ PageOK(p) /\ p.seeding = page.seeding
  BY <1>3
<1>. QED  BY <1>1, <1>2, <1>4, PageShown

\* A change of the page that leaves the mapper.
LEMMA PairStays ==
  ASSUME page'.source = page.source, page'.entity = page.entity, page'.known = page.known
  PROVE  Behind
<1>1. MapperKey(page') = MapperKey(page)
  BY SamePair
<1>. QED  BY <1>1 DEF Behind

LEMMA JobsKeep ==
  ASSUME SchemaInv, UNCHANGED <<mapper, mapSaves, remembered, mapRows>>,
         PageOK(page'), types' \subseteq EntityTypes,
         \A j \in mapJobs' : JobOK(j),
         \A i, j \in mapJobs' : Seeds(i) /\ Seeds(j) => i = j,
         (\E j \in mapJobs' : Seeds(j)) => page'.seeding # Nothing
  PROVE  SchemaInv'
BY DEF SchemaInv

LEMMA GenerateKeeps ==
  ASSUME SchemaInv, Generate
  PROVE  SchemaInv' /\ Behind
<1>. DEFINE request == [kind |-> "generate", name |-> generated[page.source]]
<1>1. /\ PageOK(page) /\ page' = [page EXCEPT !.generating = TRUE] /\ mapJobs' = mapJobs \cup {request}
      /\ UNCHANGED <<mapper, mapSaves, remembered, types, mapRows>> /\ ColumnsShown(page) # {}
      /\ (\E i \in mapJobs : Seeds(i)) => page.seeding # Nothing
      /\ \A i, j \in mapJobs : Seeds(i) /\ Seeds(j) => i = j
      /\ types \subseteq EntityTypes /\ \A j \in mapJobs : JobOK(j)
  BY DEF SchemaInv, Generate, MayGenerate
<1>2. page.source \in Sources
  BY <1>1 DEF ColumnsShown, PageOK
<1>3. JobOK(request) /\ ~Seeds(request)
  BY <1>2, SchemaAssumption DEF JobOK, Seeds, SchemaAssumption
<1>. HIDE DEF request
<1>4. /\ PageOK(page') /\ page'.seeding = page.seeding /\ page'.source = page.source
      /\ page'.entity = page.entity /\ page'.known = page.known
  BY <1>1, GeneratingSet
<1>5. Behind
  BY <1>4, PairStays
<1>. QED  BY <1>1, <1>3, <1>4, <1>5, JobsKeep

LEMMA GeneratedKeeps ==
  ASSUME SchemaInv, NEW j \in mapJobs, GeneratedAnswer(j)
  PROVE  SchemaInv' /\ Behind
<1>1. /\ PageOK(page) /\ UNCHANGED <<mapper, mapSaves, remembered, mapRows>>
      /\ (\E i \in mapJobs : Seeds(i)) => page.seeding # Nothing
      /\ \A i, k \in mapJobs : Seeds(i) /\ Seeds(k) => i = k
      /\ types \subseteq EntityTypes /\ \A i \in mapJobs : JobOK(i)
      /\ j.name \in EntityTypes /\ j.kind = "generate"
  BY DEF SchemaInv, GeneratedAnswer, JobOK
<1>2. CASE /\ types' = types \cup {j.name} /\ page' = page
           /\ mapJobs' = (mapJobs \ {j}) \cup {AskTypes(types', j.name, "generate")}
  <2>. DEFINE request == AskTypes(types', j.name, "generate")
  <2>1. types' \subseteq EntityTypes
    BY <1>1, <1>2
  <2>2. JobOK(request) /\ ~Seeds(request)
    BY <2>1 DEF JobOK, Seeds, AskTypes
  <2>. HIDE DEF request
  <2>3. mapJobs' = (mapJobs \ {j}) \cup {request}
    BY <1>2 DEF request
  <2>4. Behind
    BY <1>2, PairStays
  <2>. QED  BY <1>1, <1>2, <2>1, <2>2, <2>3, <2>4, JobsKeep
<1>3. CASE mapJobs' = mapJobs \ {j} /\ page' = [page EXCEPT !.generating = FALSE] /\ types' = types
  <2>1. /\ PageOK(page') /\ page'.seeding = page.seeding /\ page'.source = page.source
        /\ page'.entity = page.entity /\ page'.known = page.known
    BY <1>1, <1>3, GeneratingSet
  <2>2. Behind
    BY <2>1, PairStays
  <2>. QED  BY <1>1, <1>3, <2>1, <2>2, JobsKeep
<1>. QED  BY <1>2, <1>3 DEF GeneratedAnswer

LEMMA SeedKeeps ==
  ASSUME SchemaInv, NEW k \in DOMAIN Packs, SeedPack(k)
  PROVE  SchemaInv' /\ Behind
<1>. DEFINE request == [kind |-> "seed", pack |-> k, next |-> 1]
<1>1. /\ PageOK(page) /\ page' = [page EXCEPT !.seeding = k] /\ mapJobs' = mapJobs \cup {request}
      /\ UNCHANGED <<mapper, mapSaves, remembered, types, mapRows>> /\ page.seeding = Nothing
      /\ (\E i \in mapJobs : Seeds(i)) => page.seeding # Nothing
      /\ types \subseteq EntityTypes /\ \A j \in mapJobs : JobOK(j)
  BY DEF SchemaInv, SeedPack, MaySeed
<1>2. /\ k # Nothing /\ Packs[k] \in Seq(EntityTypes) /\ Packs[k] # <<>>
  BY SchemaAssumption DEF SchemaAssumption
<1>3. 1 \in 1..Len(Packs[k])
  BY <1>2, EmptySeq
<1>4. JobOK(request)
  BY <1>3 DEF JobOK
<1>. HIDE DEF request
<1>5. \A i \in mapJobs : ~Seeds(i)
  BY <1>1
<1>6. /\ PageOK(page') /\ page'.seeding = k /\ page'.source = page.source
      /\ page'.entity = page.entity /\ page'.known = page.known
  BY <1>1, SeedingSet
<1>7. Behind
  BY <1>6, PairStays
<1>. QED  BY <1>1, <1>2, <1>4, <1>5, <1>6, <1>7, JobsKeep

LEMMA SeededKeeps ==
  ASSUME SchemaInv, NEW j \in mapJobs, SeedAnswer(j)
  PROVE  SchemaInv' /\ Behind
<1>1. /\ PageOK(page) /\ UNCHANGED <<page, mapper, mapSaves, remembered, mapRows>>
      /\ (\E i \in mapJobs : Seeds(i)) => page.seeding # Nothing
      /\ \A i, k \in mapJobs : Seeds(i) /\ Seeds(k) => i = k
      /\ types \subseteq EntityTypes /\ \A i \in mapJobs : JobOK(i)
      /\ j.kind = "seed" /\ Seeds(j)
  BY DEF SchemaInv, SeedAnswer, Seeds
<1>2. /\ j = [kind |-> "seed", pack |-> j.pack, next |-> j.next]
      /\ j.pack \in DOMAIN Packs /\ j.next \in 1..Len(Packs[j.pack])
  BY <1>1 DEF JobOK
<1>3. PICK pk \in Seq(EntityTypes) : pk = Packs[j.pack]
  BY <1>2, SchemaAssumption DEF SchemaAssumption
<1>4. Len(pk) \in Nat /\ j.next \in 1..Len(pk) /\ pk[j.next] \in EntityTypes
  BY <1>2, <1>3
<1>5. PICK added : added \in {{}, {pk[j.next]}} /\ types' = types \cup added
  BY <1>3 DEF SeedAnswer
<1>6. types' \subseteq EntityTypes
  BY <1>1, <1>4, <1>5
<1>7. PICK request : /\ mapJobs' = (mapJobs \ {j}) \cup {request}
                     /\ request = IF j.next < Len(pk) THEN [j EXCEPT !.next = @ + 1]
                                 ELSE AskTypes(types', pk[1], "seed")
  BY <1>3 DEF SeedAnswer
<1>8. JobOK(request)
  <2>1. CASE j.next < Len(pk)
    <3>1. request = [kind |-> "seed", pack |-> j.pack, next |-> j.next + 1]
      BY <1>2, <1>7, <2>1
    <3>2. j.next + 1 \in 1..Len(pk)
      BY <1>4, <2>1
    <3>. QED  BY <1>2, <1>3, <3>1, <3>2 DEF JobOK
  <2>2. CASE ~(j.next < Len(pk))
    <3>1. request = AskTypes(types', pk[1], "seed")
      BY <1>7, <2>2
    <3>. QED  BY <1>6, <3>1 DEF JobOK, AskTypes
  <2>. QED  BY <2>1, <2>2
<1>9. \A i \in mapJobs \ {j} : ~Seeds(i)
  BY <1>1
<1>10. Behind
  BY <1>1, PairStays
<1>. QED  BY <1>1, <1>6, <1>7, <1>8, <1>9, <1>10, JobsKeep

LEMMA TypeCreated ==
  ASSUME SchemaInv, NEW e \in EntityTypes, EntitySaved(e)
  PROVE  SchemaInv' /\ Behind
<1>. DEFINE request == AskTypes(types', e, "editor")
<1>1. /\ PageOK(page) /\ UNCHANGED <<page, mapper, mapSaves, remembered, mapRows>>
      /\ (\E i \in mapJobs : Seeds(i)) => page.seeding # Nothing
      /\ \A i, k \in mapJobs : Seeds(i) /\ Seeds(k) => i = k
      /\ types \subseteq EntityTypes /\ \A i \in mapJobs : JobOK(i)
      /\ types' = types \cup {e} /\ mapJobs' = mapJobs \cup {request}
  BY DEF SchemaInv, EntitySaved
<1>2. types' \subseteq EntityTypes
  BY <1>1
<1>3. JobOK(request) /\ ~Seeds(request)
  BY <1>2 DEF JobOK, Seeds, AskTypes
<1>. HIDE DEF request
<1>4. Behind
  BY <1>1, PairStays
<1>. QED  BY <1>1, <1>2, <1>3, <1>4, JobsKeep

\* What the user does in the mapper.
LEMMA EditsKeep ==
  ASSUME SchemaInv,
         \/ \E c \in Columns, q \in Properties : DropOn(c, q)
         \/ \E c \in Columns : RemoveLink(c) \/ LinkGraph(c) \/ UnlinkGraph(c)
  PROVE  SchemaInv' /\ Behind
<1>1. /\ mapper = [links |-> mapper.links, fks |-> mapper.fks] /\ Mapping(mapper.links)
      /\ RememberedOK(remembered)
  BY DEF SchemaInv, MapperOK
<1>2. UNCHANGED <<page, mapJobs, mapSaves, types, mapRows>>
  BY DEF DropOn, RemoveLink, LinkGraph, UnlinkGraph, SetFks, EditMapper
<1>3. MapperOK(mapper') /\ RememberedOK(remembered')
  <2>1. ASSUME NEW c \in Columns, NEW q \in Properties, DropOn(c, q)
        PROVE  MapperOK(mapper') /\ RememberedOK(remembered')
    <3>1. PICK L : L = OthersThan(c, q) \cup {[col |-> c, prop |-> q]}
      OBVIOUS
    <3>2. mapper' = [links |-> L, fks |-> mapper.fks] /\ UNCHANGED remembered
      BY <1>1, <2>1, <3>1 DEF DropOn, EditMapper
    <3>3. Mapping(OthersThan(c, q))
      BY <1>1, PartOfMapping DEF OthersThan
    <3>4. \A m \in OthersThan(c, q) : m.col # c /\ m.prop # q
      BY DEF OthersThan
    <3>5. IsFiniteSet(L)
      BY <3>1, <3>3, FS_AddElement DEF Mapping
    <3>6. [col |-> c, prop |-> q] \in Links
      BY DEF Links
    <3>7. Mapping(L)
      BY <3>1, <3>3, <3>4, <3>5, <3>6 DEF Mapping
    <3>. QED  BY <1>1, <3>2, <3>7 DEF MapperOK
  <2>2. ASSUME NEW c \in Columns, RemoveLink(c)
        PROVE  MapperOK(mapper') /\ RememberedOK(remembered')
    <3>1. PICK L : L = {m \in mapper.links : m.col # c}
      OBVIOUS
    <3>2. mapper' = [links |-> L, fks |-> mapper.fks] /\ UNCHANGED remembered
      BY <1>1, <2>2, <3>1 DEF RemoveLink, EditMapper
    <3>3. Mapping(L)
      BY <1>1, <3>1, PartOfMapping
    <3>. QED  BY <1>1, <3>2, <3>3 DEF MapperOK
  <2>3. ASSUME NEW S, SetFks(S)
        PROVE  MapperOK(mapper') /\ RememberedOK(remembered')
    <3>1. mapper' = [links |-> mapper.links, fks |-> S]
      BY <1>1, <2>3 DEF SetFks, EditMapper
    <3>2. remembered' = [remembered EXCEPT !.fks[page.source] = S]
      BY <2>3 DEF SetFks
    <3>3. remembered = [own |-> remembered.own, last |-> remembered.last, fks |-> remembered.fks]
      BY <1>1 DEF RememberedOK
    <3>4. PICK F : F = [remembered.fks EXCEPT ![page.source] = S]
      OBVIOUS
    <3>5. remembered' = [own |-> remembered.own, last |-> remembered.last, fks |-> F]
      BY <3>2, <3>3, <3>4
    <3>. QED  BY <1>1, <3>1, <3>5 DEF MapperOK, RememberedOK
  <2>. QED  BY <2>1, <2>2, <2>3 DEF LinkGraph, UnlinkGraph
<1>4. Behind
  BY <1>2, PairStays
<1>5. SchemaInv'
  BY <1>2, <1>3 DEF SchemaInv
<1>. QED  BY <1>4, <1>5

LEMMA SaveKeeps ==
  ASSUME SchemaInv, SaveMapping
  PROVE  SchemaInv' /\ Behind
<1>1. /\ PageOK(page) /\ MapperOK(mapper) /\ \A s \in mapSaves : SaveOK(s)
      /\ page.known # {} /\ page.source \in Sources
      /\ UNCHANGED <<page, mapper, mapJobs, remembered, types, mapRows>>
  BY DEF SchemaInv, SaveMapping, MaySave, MapperShown
<1>2. PICK s : /\ mapSaves' = mapSaves \cup {s}
               /\ s = [src |-> page.source, ent |-> ActiveEntity(page), links |-> mapper.links,
                       fks |-> mapper.fks,
                       todo |-> IF page.source \in Uuids THEN mapper.links ELSE {}]
  BY DEF SaveMapping
<1>3. ActiveEntity(page) \in EntityTypes
  BY <1>1 DEF ActiveEntity, FirstType, PageOK
<1>4. SaveOK(s)
  BY <1>1, <1>2, <1>3 DEF SaveOK, MapperOK
<1>5. Behind
  BY <1>1, PairStays
<1>. QED  BY <1>1, <1>2, <1>4, <1>5 DEF SchemaInv

LEMMA RememberKeeps ==
  ASSUME RememberedOK(remembered), NEW s, SaveOK(s)
  PROVE  RememberedOK(Remember(s)) /\ Remember(s).own = remembered.own
<1>1. /\ remembered = [own |-> remembered.own, last |-> remembered.last, fks |-> remembered.fks]
      /\ DOMAIN remembered.own = Sources
      /\ \A t \in Sources : OneMapping(remembered.own[t])
  BY DEF RememberedOK
<1>2. OneMapping({s.links})
  BY DEF SaveOK, OneMapping
<1>3. PICK F, x : F = [remembered.fks EXCEPT ![s.src] = s.fks] /\ x = {s.links}
  OBVIOUS
<1>4. PICK Q : Q = [remembered EXCEPT !.last = x, !.fks = F]
  OBVIOUS
<1>5. Q = [own |-> remembered.own, last |-> x, fks |-> F]
  BY <1>1, <1>4
<1>6. Remember(s) = [own |-> remembered.own, last |-> x, fks |-> F]
  BY <1>3, <1>4, <1>5 DEF Remember
<1>. QED  BY <1>1, <1>2, <1>3, <1>6 DEF RememberedOK

LEMMA OwnKeeps ==
  ASSUME NEW Q, RememberedOK(Q), NEW s, SaveOK(s), NEW R, R = [Q EXCEPT !.own[s.src] = {s.links}]
  PROVE  RememberedOK(R)
<1>1. Q = [own |-> Q.own, last |-> Q.last, fks |-> Q.fks]
  BY DEF RememberedOK
<1>2. PICK x, O : x = {s.links} /\ O = [Q.own EXCEPT ![s.src] = x]
  OBVIOUS
<1>3. R = [own |-> O, last |-> Q.last, fks |-> Q.fks]
  BY <1>1, <1>2
<1>4. s.src \in Sources /\ OneMapping(x)
  BY <1>2 DEF SaveOK, OneMapping
<1>5. DOMAIN O = Sources /\ \A t \in Sources : OneMapping(O[t])
  BY <1>2, <1>4 DEF RememberedOK
<1>. QED  BY <1>3, <1>5 DEF RememberedOK

LEMMA PostKeeps ==
  ASSUME SchemaInv, NEW s \in mapSaves,
         PostFails(s) \/ \E m \in Links : PostRow(s, m)
  PROVE  SchemaInv' /\ Behind
<1>1. /\ \A t \in mapSaves : SaveOK(t)
      /\ mapRows \subseteq MapRows /\ IsFiniteSet(mapRows) /\ RememberedOK(remembered)
      /\ UNCHANGED <<page, mapper, mapJobs, types>>
  BY DEF SchemaInv, PostFails, PostRow
<1>2. /\ s = [src |-> s.src, ent |-> s.ent, links |-> s.links, fks |-> s.fks, todo |-> s.todo]
      /\ s.src \in Sources /\ s.ent \in EntityTypes /\ Mapping(s.links)
  BY <1>1 DEF SaveOK
<1>3. Behind
  BY <1>1, PairStays
<1>4. CASE PostFails(s)
  <2>1. mapSaves' = mapSaves \ {s} /\ remembered' = Remember(s) /\ UNCHANGED mapRows
    BY <1>4 DEF PostFails
  <2>2. RememberedOK(remembered')
    BY <1>1, <2>1, RememberKeeps
  <2>. QED  BY <1>1, <1>3, <2>1, <2>2 DEF SchemaInv
<1>5. ASSUME NEW m \in Links, PostRow(s, m) PROVE SchemaInv' /\ Behind
  <2>1. /\ mapRows' = mapRows \cup {RowOf(s, m)} /\ UNCHANGED remembered
        /\ mapSaves' = (mapSaves \ {s}) \cup {[s EXCEPT !.todo = @ \ {m}]}
    BY <1>5 DEF PostRow
  <2>2. PICK t : t = [s EXCEPT !.todo = @ \ {m}]
    OBVIOUS
  <2>3. t = [src |-> s.src, ent |-> s.ent, links |-> s.links, fks |-> s.fks, todo |-> s.todo \ {m}]
    BY <1>2, <2>2
  <2>4. SaveOK(t)
    BY <1>2, <2>3 DEF SaveOK
  <2>5. RowOf(s, m) \in MapRows
    BY <1>2 DEF RowOf, MapRows, Links
  <2>6. IsFiniteSet(mapRows') /\ mapRows' \subseteq MapRows
    BY <1>1, <2>1, <2>5, FS_AddElement
  <2>7. \A x \in mapSaves' : SaveOK(x)
    BY <1>1, <2>1, <2>2, <2>4
  <2>. QED  BY <1>1, <1>3, <2>1, <2>6, <2>7 DEF SchemaInv
<1>. QED  BY <1>4, <1>5

LEMMA MappingSavedKeeps ==
  ASSUME SchemaInv, NEW s \in mapSaves, MappingSaved(s)
  PROVE  SchemaInv' /\ MapperKey(page') = MapperKey(page)
<1>1. /\ PageOK(page) /\ RememberedOK(remembered) /\ SaveOK(s) /\ \A t \in mapSaves : SaveOK(t)
      /\ UNCHANGED <<mapJobs, types, mapRows>> /\ mapSaves' = mapSaves \ {s}
      /\ remembered' = [Remember(s) EXCEPT !.own[s.src] = {s.links}]
  BY DEF SchemaInv, MappingSaved
<1>. DEFINE T == {RowOf(s, m) : m \in s.links}
            savedRow == <<[src |-> s.src, ent |-> s.ent, links |-> s.links]>>
                          \o SubSeq(page.saved, 1, IF Len(page.saved) < 4 THEN Len(page.saved) ELSE 4)
<1>2. s.src \in Sources /\ s.ent \in EntityTypes /\ s.links \subseteq Links /\ IsFiniteSet(s.links)
  BY <1>1 DEF SaveOK, Mapping
<1>3. T \subseteq MapRows
  BY <1>2 DEF RowOf, MapRows, Links
<1>4. IsFiniteSet(T)
  <2>. DEFINE g == [m \in s.links |-> RowOf(s, m)]
  <2>1. g \in Surjection(s.links, T)
    BY DEF Surjection
  <2>. HIDE DEF g, T
  <2>. QED  BY <1>2, <2>1, FS_Surjection
<1>5. PICK r : r = SetToSeq(T) \o page.raws
  OBVIOUS
<1>6. r \in Seq(MapRows)
  <2>. HIDE DEF T
  <2>1. SetToSeq(T) \in Seq(T)
    BY <1>4, SetListed
  <2>2. SetToSeq(T) \in Seq(MapRows)
    BY <1>3, <2>1
  <2>3. page.raws \in Seq(MapRows)
    BY <1>1 DEF PageOK
  <2>. QED  BY <1>5, <2>2, <2>3, ConcatProperties
<1>7. PICK l : l = savedRow
  OBVIOUS
<1>8. PICK p : p = [page EXCEPT !.raws = r, !.saved = l]
  OBVIOUS
<1>9. Show(p)
  <2>1. /\ page = [source |-> page.source, sources |-> page.sources, entity |-> page.entity,
                   known |-> page.known, raws |-> page.raws, saved |-> page.saved,
                   generating |-> page.generating, seeding |-> page.seeding]
    BY <1>1 DEF PageOK
  <2>2. [page EXCEPT !.raws = SetToSeq(T) \o @,
             !.saved = <<[src |-> s.src, ent |-> s.ent, links |-> s.links]>>
                         \o SubSeq(@, 1, IF Len(@) < 4 THEN Len(@) ELSE 4)]
        = [page EXCEPT !.raws = SetToSeq(T) \o page.raws, !.saved = savedRow]
    <3>. HIDE DEF T
    <3>. QED  BY <2>1
  <2>3. Show([page EXCEPT !.raws = SetToSeq(T) \o page.raws, !.saved = savedRow])
    BY <2>2 DEF MappingSaved
  <2>. HIDE DEF T, savedRow
  <2>. QED  BY <1>5, <1>7, <1>8, <2>3
<1>. HIDE DEF T, savedRow
<1>10. /\ PageOK(p) /\ p.seeding = page.seeding /\ p.source = page.source
       /\ p.entity = page.entity /\ p.known = page.known
  BY <1>1, <1>6, <1>8, RowsSet
<1>11. PageOK(page') /\ MapperOK(mapper') /\ page' = p
  <2>1. PageOK(page') /\ MapperOK(mapper')
    BY <1>9, <1>10, ShownKeeps
  <2>. QED  BY <1>9, <2>1 DEF Show
<1>12. MapperKey(page') = MapperKey(page)
  BY <1>10, <1>11, SamePair
<1>13. RememberedOK(remembered')
  <2>1. PICK Q : Q = Remember(s)
    OBVIOUS
  <2>2. RememberedOK(Q)
    BY <1>1, <2>1, RememberKeeps
  <2>. QED  BY <1>1, <2>1, <2>2, OwnKeeps
<1>14. SchemaInv'
  BY <1>1, <1>10, <1>11, <1>13 DEF SchemaInv
<1>. QED  BY <1>12, <1>14

LEMMA SchemaStep ==
  ASSUME SchemaInv, [SchemaNext]_schemaVars
  PROVE  /\ SchemaInv'
         /\ (MapperShown(page) /\ MapperShown(page)' /\ MapperKey(page)' # MapperKey(page)) =>
              mapper'.links \subseteq RowsShown(page') \cup AnyRecalled(remembered')
<1>. DEFINE Left == (MapperShown(page) /\ MapperShown(page)' /\ MapperKey(page)' # MapperKey(page)) =>
                      mapper'.links \subseteq RowsShown(page') \cup AnyRecalled(remembered')
<1>1. ASSUME Behind, UNCHANGED remembered PROVE Left
  BY <1>1 DEF Behind, MapperShown, MapperKey, ActiveEntity, FirstType
<1>2. ASSUME MapperKey(page') = MapperKey(page) PROVE Left
  BY <1>2 DEF MapperKey, ActiveEntity, FirstType
<1>3. ASSUME SchemaRequest PROVE SchemaInv' /\ Left
  <2>1. PICK j \in mapJobs : \/ ConnectionsLoaded(j) \/ MappingsLoaded(j) \/ TypesLoaded(j)
                             \/ GeneratedAnswer(j) \/ SeedAnswer(j)
    BY <1>3 DEF SchemaRequest
  <2>2. SchemaInv' /\ Behind
    BY <2>1, LoadsKeep, TypesLoadedKeeps, GeneratedKeeps, SeededKeeps
  <2>3. UNCHANGED remembered
    BY <2>1 DEF ConnectionsLoaded, MappingsLoaded, TypesLoaded, GeneratedAnswer, SeedAnswer
  <2>. QED  BY <1>1, <2>2, <2>3
<1>4. ASSUME NEW s \in mapSaves, PostFails(s) \/ \E m \in Links : PostRow(s, m)
      PROVE  SchemaInv' /\ Left
  <2>1. SchemaInv' /\ UNCHANGED page
    BY <1>4, PostKeeps DEF PostFails, PostRow
  <2>. QED  BY <1>2, <2>1
<1>5. ASSUME NEW s \in mapSaves, MappingSaved(s) PROVE SchemaInv' /\ Left
  BY <1>2, <1>5, MappingSavedKeeps
<1>6. ASSUME SaveMapping PROVE SchemaInv' /\ Left
  BY <1>1, <1>6, SaveKeeps DEF SaveMapping
<1>7. ASSUME Generate PROVE SchemaInv' /\ Left
  BY <1>1, <1>7, GenerateKeeps DEF Generate
<1>8. ASSUME \/ \E s \in Sources : SelectSource(s)
             \/ \E e \in EntityTypes : SelectEntity(e)
             \/ \E i \in DOMAIN page.saved : PickSaved(i)
      PROVE  SchemaInv' /\ Left
  <2>1. UNCHANGED remembered
    BY <1>8 DEF SelectSource, SelectEntity, PickSaved
  <2>. QED  BY <1>1, <1>8, <2>1, SelectionKeeps
<1>9. ASSUME NEW e \in EntityTypes, EntitySaved(e) PROVE SchemaInv' /\ Left
  BY <1>1, <1>9, TypeCreated DEF EntitySaved
<1>10. ASSUME NEW k \in DOMAIN Packs, SeedPack(k) PROVE SchemaInv' /\ Left
  BY <1>1, <1>10, SeedKeeps DEF SeedPack
<1>11. ASSUME \/ \E c \in Columns, q \in Properties : DropOn(c, q)
              \/ \E c \in Columns : RemoveLink(c) \/ LinkGraph(c) \/ UnlinkGraph(c)
       PROVE  SchemaInv' /\ Left
  <2>1. SchemaInv'
    BY <1>11, EditsKeep
  <2>2. UNCHANGED page
    BY <1>11 DEF DropOn, RemoveLink, LinkGraph, UnlinkGraph, SetFks, EditMapper
  <2>. QED  BY <1>2, <2>1, <2>2
<1>12. ASSUME UNCHANGED schemaVars PROVE SchemaInv' /\ Left
  <2>1. SchemaInv'
    BY <1>12 DEF SchemaInv, schemaVars
  <2>2. UNCHANGED page
    BY <1>12 DEF schemaVars
  <2>. QED  BY <1>2, <2>1, <2>2
<1>. HIDE DEF Left
<1>13. SchemaInv' /\ Left
  BY <1>3, <1>4, <1>5, <1>6, <1>7, <1>8, <1>9, <1>10, <1>11, <1>12 DEF SchemaNext, MapSaving
<1>. QED  BY <1>13 DEF Left

LEMMA SchemaKept == ASSUME SchemaInv PROVE OneTemplate /\ OneToOne
<1>1. OneToOne
  BY DEF SchemaInv, MapperOK, Mapping, OneToOne
<1>2. OneTemplate
  <2>. DEFINE S == {j \in mapJobs : j.kind = "seed" \/ (j.kind = "types" /\ j.by = "seed")}
  <2>1. \A i, j \in S : i = j
    BY DEF SchemaInv, Seeds
  <2>. HIDE DEF S
  <2>2. Cardinality(S) <= 1
    <3>1. CASE S = {}
      <4>1. Cardinality(S) = 0
        BY <3>1, FS_EmptySet
      <4>. QED  BY <4>1
    <3>2. CASE S # {}
      <4>1. PICK j : S = {j}
        BY <2>1, <3>2
      <4>2. Cardinality(S) = 1
        BY <4>1, FS_Singleton
      <4>. QED  BY <4>2
    <3>. QED  BY <3>1, <3>2
  <2>. QED  BY <2>2 DEF S, OneTemplate
<1>. QED  BY <1>1, <1>2

LEMMA SchemaHolds == SchemaSpec => []SchemaInv /\ UnsavedStaysBehind
<1>1. SchemaInit => SchemaInv
  BY SchemaStart
<1>2. SchemaInv /\ [SchemaNext]_schemaVars =>
        /\ SchemaInv'
        /\ (MapperShown(page) /\ MapperShown(page)' /\ MapperKey(page)' # MapperKey(page)) =>
             mapper'.links \subseteq RowsShown(page') \cup AnyRecalled(remembered')
  BY SchemaStep
<1>3. ((MapperShown(page) /\ MapperShown(page)' /\ MapperKey(page)' # MapperKey(page)) =>
         mapper'.links \subseteq RowsShown(page') \cup AnyRecalled(remembered'))
      => ((MapperShown(page) /\ MapperShown(page)' /\ MapperKey(page)' # MapperKey(page)) =>
            mapper'.links \subseteq
              {[col |-> r.col, prop |-> r.prop] : r \in Range(page'.raws)}
                \cup UNION (remembered'.last \cup UNION {remembered'.own[s] : s \in Sources}))
  BY Zenon DEF RowsShown, AnyRecalled
<1>. QED  BY <1>1, <1>2, <1>3, PTL DEF SchemaSpec, UnsavedStaysBehind

(* --------------------- what the saved mappings rest on ------------------ *)
\* A mapping in the list, and the rows it needs on the server.
Backed(g, R) == g.src \in Uuids => \A m \in g.links : RowOf(g, m) \in R
ListBacked(l, R) == \E T : l \in Seq(T) /\ \A g \in T : Backed(g, R)

PageTyped(p, S) ==
  /\ p.source \in Sources \cup {headKey, Nothing} /\ p.sources \in {{}, Sources}
  /\ p.known \subseteq S /\ p.entity \in EntityTypes \cup {Nothing}

FksKnown == mapper.fks \subseteq Columns /\ remembered.fks \in [Sources -> SUBSET Columns]

AsksFor(j, S) == j.kind = "types" => j.since \subseteq S /\ j.pick \in EntityTypes \cup {Nothing}

Posted(s, R) ==
  /\ s.src \in Uuids => \A m \in s.links \ s.todo : RowOf(s, m) \in R
  /\ s.fks \subseteq Columns

\* The rows of a save that are no longer to be posted are on the server.
SchemaStores ==
  /\ SchemaInv
  /\ SeededRows \subseteq mapRows /\ ListBacked(page.saved, mapRows)
  /\ \A s \in mapSaves : Posted(s, mapRows)
  /\ PageTyped(page, types) /\ FksKnown
  /\ \A j \in mapJobs : AsksFor(j, types)
  /\ moves \in 0..MaxMoves

LEMMA ListedGrows ==
  ASSUME NEW l, NEW R, ListBacked(l, R), NEW Q, R \subseteq Q
  PROVE  ListBacked(l, Q)
<1>1. PICK T : l \in Seq(T) /\ \A g \in T : Backed(g, R)
  BY DEF ListBacked
<1>2. \A g \in T : Backed(g, Q)
  BY <1>1 DEF Backed
<1>. QED  BY <1>1, <1>2 DEF ListBacked

\* What the server answers with is on the server.
LEMMA GroupsListed ==
  ASSUME NEW S \in SUBSET MapRows, IsFiniteSet(S)
  PROVE  ListBacked(SetToSeq(SavedGroups(S)), S)
<1>. DEFINE Group(r) == [src |-> r.src, ent |-> r.ent,
              links |-> {[col |-> x.col, prop |-> x.prop] :
                           x \in {y \in S : y.src = r.src /\ y.ent = r.ent}}]
            G == SavedGroups(S)
            f == [r \in S |-> Group(r)]
<1>1. G = {Group(r) : r \in S}
  BY DEF SavedGroups
<1>2. \A g \in G : Backed(g, S)
  <2>. SUFFICES ASSUME NEW r \in S PROVE Backed(Group(r), S)
    BY <1>1
  <2>1. SUFFICES ASSUME NEW m \in Group(r).links
                 PROVE  RowOf(Group(r), m) \in S
    BY DEF Backed
  <2>2. PICK x \in S : x.src = r.src /\ x.ent = r.ent /\ m = [col |-> x.col, prop |-> x.prop]
    OBVIOUS
  <2>3. x = [src |-> x.src, ent |-> x.ent, col |-> x.col, prop |-> x.prop]
    BY <2>2 DEF MapRows
  <2>4. RowOf(Group(r), m) = [src |-> r.src, ent |-> r.ent, col |-> m.col, prop |-> m.prop]
    BY DEF RowOf
  <2>. QED  BY <2>2, <2>3, <2>4
<1>3. f \in Surjection(S, G)
  <2>1. f \in [S -> G] /\ \A g \in G : \E r \in S : f[r] = g
    <3>. HIDE DEF Group, G
    <3>. QED  BY <1>1
  <2>. HIDE DEF f, G
  <2>. QED  BY <2>1 DEF Surjection
<1>. HIDE DEF f, G
<1>4. IsFiniteSet(G)
  BY <1>3, FS_Surjection
<1>5. SetToSeq(G) \in Seq(G)
  BY <1>4, SetListed
<1>. QED  BY <1>2, <1>5 DEF ListBacked, G

(* ------------------------------- the page ------------------------------- *)
PageIs(p, s, S, e, K, l) ==
  p.source = s /\ p.sources = S /\ p.entity = e /\ p.known = K /\ p.saved = l

LEMMA SourcesOf ==
  ASSUME PageOK(page), NEW S, NEW s, NEW p, p = [page EXCEPT !.sources = S, !.source = s]
  PROVE  PageIs(p, s, S, page.entity, page.known, page.saved)
<1>1. page = [source |-> page.source, sources |-> page.sources, entity |-> page.entity, known |-> page.known,
           raws |-> page.raws, saved |-> page.saved, generating |-> page.generating, seeding |-> page.seeding]
  BY DEF PageOK
<1>2. p = [source |-> s, sources |-> S, entity |-> page.entity, known |-> page.known,
           raws |-> page.raws, saved |-> page.saved, generating |-> page.generating, seeding |-> page.seeding]
  BY <1>1
<1>. QED  BY <1>2 DEF PageIs

LEMMA PairOf ==
  ASSUME PageOK(page), NEW s, NEW e, NEW p, p = [page EXCEPT !.source = s, !.entity = e]
  PROVE  PageIs(p, s, page.sources, e, page.known, page.saved)
<1>1. page = [source |-> page.source, sources |-> page.sources, entity |-> page.entity, known |-> page.known,
           raws |-> page.raws, saved |-> page.saved, generating |-> page.generating, seeding |-> page.seeding]
  BY DEF PageOK
<1>2. p = [source |-> s, sources |-> page.sources, entity |-> e, known |-> page.known,
           raws |-> page.raws, saved |-> page.saved, generating |-> page.generating, seeding |-> page.seeding]
  BY <1>1
<1>. QED  BY <1>2 DEF PageIs

LEMMA KnownOf ==
  ASSUME PageOK(page), NEW S, NEW e, NEW p, p = [page EXCEPT !.known = S, !.entity = e]
  PROVE  PageIs(p, page.source, page.sources, e, S, page.saved)
<1>1. page = [source |-> page.source, sources |-> page.sources, entity |-> page.entity, known |-> page.known,
           raws |-> page.raws, saved |-> page.saved, generating |-> page.generating, seeding |-> page.seeding]
  BY DEF PageOK
<1>2. p = [source |-> page.source, sources |-> page.sources, entity |-> e, known |-> S,
           raws |-> page.raws, saved |-> page.saved, generating |-> page.generating, seeding |-> page.seeding]
  BY <1>1
<1>. QED  BY <1>2 DEF PageIs

LEMMA RowsOf ==
  ASSUME PageOK(page), NEW r, NEW l, NEW p, p = [page EXCEPT !.raws = r, !.saved = l]
  PROVE  PageIs(p, page.source, page.sources, page.entity, page.known, l)
<1>1. page = [source |-> page.source, sources |-> page.sources, entity |-> page.entity, known |-> page.known,
           raws |-> page.raws, saved |-> page.saved, generating |-> page.generating, seeding |-> page.seeding]
  BY DEF PageOK
<1>2. p = [source |-> page.source, sources |-> page.sources, entity |-> page.entity, known |-> page.known,
           raws |-> r, saved |-> l, generating |-> page.generating, seeding |-> page.seeding]
  BY <1>1
<1>. QED  BY <1>2 DEF PageIs

LEMMA FlagsOf ==
  ASSUME NEW q, q = [source |-> q.source, sources |-> q.sources, entity |-> q.entity,
                     known |-> q.known, raws |-> q.raws, saved |-> q.saved,
                     generating |-> q.generating, seeding |-> q.seeding],
         NEW v, NEW p, p = [q EXCEPT !.generating = v] \/ p = [q EXCEPT !.seeding = v]
  PROVE  /\ p.source = q.source /\ p.sources = q.sources /\ p.entity = q.entity
         /\ p.known = q.known /\ p.saved = q.saved
<1>1. CASE p = [q EXCEPT !.generating = v]
  <2>1. p = [source |-> q.source, sources |-> q.sources, entity |-> q.entity, known |-> q.known,
             raws |-> q.raws, saved |-> q.saved, generating |-> v, seeding |-> q.seeding]
    BY <1>1
  <2>. QED  BY <2>1
<1>2. CASE p = [q EXCEPT !.seeding = v]
  <2>1. p = [source |-> q.source, sources |-> q.sources, entity |-> q.entity, known |-> q.known,
             raws |-> q.raws, saved |-> q.saved, generating |-> q.generating, seeding |-> v]
    BY <1>2
  <2>. QED  BY <2>1
<1>. QED  BY <1>1, <1>2

LEMMA FksStay ==
  ASSUME SchemaStores, NEW p, Show(p)
  PROVE  mapper'.fks \subseteq Columns
<1>1. /\ mapper = [links |-> mapper.links, fks |-> mapper.fks] /\ mapper.fks \subseteq Columns
      /\ remembered.fks \in [Sources -> SUBSET Columns] /\ mapper' = MapperOf(p)
  BY DEF SchemaStores, SchemaInv, MapperOK, FksKnown, Show
<1>2. FreshMapper(p).fks \subseteq Columns
  <2>1. FreshMapper(p).fks = IF p.source \in Sources THEN remembered.fks[p.source] ELSE {}
    BY DEF FreshMapper
  <2>2. p.source \in Sources => remembered.fks[p.source] \subseteq Columns
    BY <1>1
  <2>. QED  BY <2>1, <2>2
<1>3. CASE mapper' = [links |-> {}, fks |-> {}]
  BY <1>3
<1>4. CASE mapper' = FreshMapper(p)
  BY <1>2, <1>4
<1>5. CASE mapper' = [mapper EXCEPT !.links = IF InitialLinks(p) # {} THEN InitialLinks(p) ELSE @]
  <2>1. PICK L : L = (IF InitialLinks(p) # {} THEN InitialLinks(p) ELSE mapper.links)
    OBVIOUS
  <2>2. mapper' = [links |-> L, fks |-> mapper.fks]
    BY <1>1, <1>5, <2>1
  <2>. QED  BY <1>1, <2>2
<1>6. \/ mapper' = [links |-> {}, fks |-> {}] \/ mapper' = FreshMapper(p)
      \/ mapper' = [mapper EXCEPT !.links = IF InitialLinks(p) # {} THEN InitialLinks(p) ELSE @]
  BY <1>1 DEF MapperOf
<1>. QED  BY <1>3, <1>4, <1>5, <1>6

\* The page changes as an answer or a click asks for; what it is listed as
\* saved is on the server.
LEMMA PageStores ==
  ASSUME SchemaStores, SchemaInv', NEW p, Show(p), PageTyped(p, types), ListBacked(p.saved, mapRows),
         mapJobs' \subseteq mapJobs, UNCHANGED <<mapSaves, remembered, types, mapRows>>,
         moves' \in 0..MaxMoves
  PROVE  SchemaStores'
<1>1. mapper'.fks \subseteq Columns
  BY FksStay
<1>2. FksKnown'
  BY <1>1 DEF SchemaStores, FksKnown
<1>3. PageTyped(page', types') /\ ListBacked(page'.saved, mapRows')
  BY DEF Show
<1>4. (\A s \in mapSaves : Posted(s, mapRows))'
  BY DEF SchemaStores
<1>5. (\A j \in mapJobs : AsksFor(j, types))'
  BY DEF SchemaStores
<1>6. (SeededRows \subseteq mapRows)'
  BY DEF SchemaStores
<1>. QED  BY <1>2, <1>3, <1>4, <1>5, <1>6 DEF SchemaStores

LEMMA Moved ==
  ASSUME moves \in 0..MaxMoves, Move \/ UNCHANGED moves
  PROVE  moves' \in 0..MaxMoves
BY SchemaAssumption DEF Move, SchemaAssumption

LEMMA SchemaStored == ASSUME SchemaStores PROVE SchemaTypeOK /\ ListedIsStored
<1>1. ListedIsStored
  <2>. SUFFICES ASSUME NEW i \in DOMAIN page.saved, page.saved[i].src \in Uuids,
                       NEW m \in page.saved[i].links
                PROVE  RowOf(page.saved[i], m) \in mapRows
    BY DEF ListedIsStored
  <2>1. PICK T : page.saved \in Seq(T) /\ \A g \in T : Backed(g, mapRows)
    BY DEF SchemaStores, ListBacked
  <2>2. DOMAIN page.saved = 1..Len(page.saved)
    BY <2>1
  <2>3. page.saved[i] \in T
    BY <2>1, <2>2
  <2>. QED  BY <2>1, <2>3 DEF Backed
<1>2. ActiveEntity(page) \in page.known \/ page.known = {}
  BY DEF ActiveEntity, FirstType
<1>3. Range(page.raws) \subseteq MapRows
  <2>1. page.raws \in Seq(MapRows)
    BY DEF SchemaStores, SchemaInv, PageOK
  <2>2. \A i \in DOMAIN page.raws : page.raws[i] \in MapRows
    BY <2>1
  <2>. QED  BY <2>2 DEF Range
<1>4. mapper.links \subseteq Links /\ mapRows \subseteq MapRows
  BY DEF SchemaStores, SchemaInv, MapperOK, Mapping
<1>. QED  BY <1>1, <1>2, <1>3, <1>4 DEF SchemaStores, SchemaTypeOK, PageTyped, FksKnown

LEMMA SchemaStoresStart == ASSUME SchemaInit PROVE SchemaStores
<1>1. SchemaInv
  BY SchemaStart
<1>2. SeededRows \subseteq mapRows /\ PageTyped(page, types)
  BY DEF SchemaInit, PageTyped
<1>3. ListBacked(page.saved, mapRows)
  <2>1. PICK T : T = {}
    OBVIOUS
  <2>2. <<>> \in Seq(T) /\ \A g \in T : Backed(g, mapRows)
    BY <2>1
  <2>. QED  BY <2>2 DEF SchemaInit, ListBacked
<1>4. \A s \in mapSaves : Posted(s, mapRows)
  BY DEF SchemaInit
<1>5. FksKnown
  BY DEF SchemaInit, FksKnown
<1>6. \A j \in mapJobs : AsksFor(j, types)
  BY DEF SchemaInit, AsksFor
<1>7. moves \in 0..MaxMoves
  BY SchemaAssumption DEF SchemaInit, SchemaAssumption
<1>. QED  BY <1>1, <1>2, <1>3, <1>4, <1>5, <1>6, <1>7 DEF SchemaStores

LEMMA LoadsStore ==
  ASSUME SchemaStores, SchemaInv', NEW j \in mapJobs, ConnectionsLoaded(j) \/ MappingsLoaded(j)
  PROVE  SchemaStores'
<1>1. /\ PageOK(page) /\ mapJobs' \subseteq mapJobs /\ moves' = moves /\ moves \in 0..MaxMoves
      /\ UNCHANGED <<mapSaves, remembered, types, mapRows>>
      /\ PageTyped(page, types) /\ ListBacked(page.saved, mapRows)
  BY DEF SchemaStores, SchemaInv, ConnectionsLoaded, MappingsLoaded
<1>2. CASE UNCHANGED <<page, mapper>>
  BY <1>1, <1>2 DEF SchemaStores, FksKnown
<1>3. CASE \E s \in Sources \cup {headKey} : Show([page EXCEPT !.sources = Sources, !.source = s])
  <2>1. PICK s, p : /\ s \in Sources \cup {headKey} /\ Show(p)
                    /\ p = [page EXCEPT !.sources = Sources, !.source = s]
    BY <1>3
  <2>2. PageIs(p, s, Sources, page.entity, page.known, page.saved)
    BY <1>1, <2>1, SourcesOf
  <2>3. PageTyped(p, types)
    BY <1>1, <2>1, <2>2 DEF PageTyped, PageIs
  <2>. QED  BY <1>1, <2>1, <2>2, <2>3, PageStores DEF PageIs
<1>4. CASE \E S \in {SeededRows, mapRows} \ {{}} :
             Show([page EXCEPT !.raws = SetToSeq(S), !.saved = SetToSeq(SavedGroups(S))])
  <2>1. PICK S, p : /\ S \in {SeededRows, mapRows} /\ Show(p)
                    /\ p = [page EXCEPT !.raws = SetToSeq(S), !.saved = SetToSeq(SavedGroups(S))]
    BY <1>4
  <2>2. S \subseteq MapRows /\ IsFiniteSet(S) /\ S \subseteq mapRows
    BY <2>1, SchemaAssumption DEF SchemaStores, SchemaInv, SchemaAssumption
  <2>3. PICK r, l : r = SetToSeq(S) /\ l = SetToSeq(SavedGroups(S))
    OBVIOUS
  <2>4. ListBacked(l, mapRows)
    <3>1. ListBacked(l, S)
      BY <2>2, <2>3, GroupsListed
    <3>. QED  BY <2>2, <3>1, ListedGrows
  <2>5. p = [page EXCEPT !.raws = r, !.saved = l]
    BY <2>1, <2>3
  <2>6. PageIs(p, page.source, page.sources, page.entity, page.known, l)
    BY <1>1, <2>5, RowsOf
  <2>7. PageTyped(p, types)
    BY <1>1, <2>6 DEF PageTyped, PageIs
  <2>. QED  BY <1>1, <2>1, <2>4, <2>6, <2>7, PageStores DEF PageIs
<1>. QED  BY <1>2, <1>3, <1>4 DEF ConnectionsLoaded, MappingsLoaded

LEMMA TypesLoadedStores ==
  ASSUME SchemaStores, SchemaInv', NEW j \in mapJobs, TypesLoaded(j)
  PROVE  SchemaStores'
<1>1. /\ PageOK(page) /\ mapJobs' \subseteq mapJobs /\ moves' = moves /\ moves \in 0..MaxMoves
      /\ UNCHANGED <<mapSaves, remembered, types, mapRows>>
      /\ PageTyped(page, types) /\ ListBacked(page.saved, mapRows)
      /\ j.since \subseteq types /\ j.pick \in EntityTypes \cup {Nothing} /\ types \subseteq EntityTypes
  BY DEF SchemaStores, SchemaInv, TypesLoaded, AsksFor
<1>2. PICK q \in {page} \cup {WithTypes(page, S) : S \in {j.since, types}} :
        Show(Freed(IF j.pick = Nothing THEN q ELSE [q EXCEPT !.entity = j.pick], j))
  BY DEF TypesLoaded
<1>3. /\ PageTyped(q, types) /\ q.saved = page.saved
      /\ q = [source |-> q.source, sources |-> q.sources, entity |-> q.entity, known |-> q.known,
              raws |-> q.raws, saved |-> q.saved, generating |-> q.generating, seeding |-> q.seeding]
  <2>1. CASE q = page
    BY <1>1, <2>1 DEF PageOK
  <2>2. CASE \E S \in {j.since, types} : q = WithTypes(page, S)
    <3>1. PICK S \in {j.since, types} : q = WithTypes(page, S)
      BY <2>2
    <3>2. S \subseteq types
      BY <1>1
    <3>3. PICK e : e = (IF page.entity \in S THEN page.entity ELSE FirstType(S))
      OBVIOUS
    <3>4. q = [page EXCEPT !.known = S, !.entity = e]
      BY <1>1, <3>1, <3>3 DEF WithTypes, PageOK
    <3>5. e \in EntityTypes \cup {Nothing}
      <4>1. S = {} \/ (CHOOSE x \in S : TRUE) \in S
        OBVIOUS
      <4>. QED  BY <1>1, <3>2, <3>3, <4>1 DEF FirstType, PageTyped
    <3>6. PageIs(q, page.source, page.sources, e, S, page.saved)
      BY <1>1, <3>4, KnownOf
    <3>7. q = [source |-> q.source, sources |-> q.sources, entity |-> q.entity, known |-> q.known,
               raws |-> q.raws, saved |-> q.saved, generating |-> q.generating, seeding |-> q.seeding]
      BY <1>1, <3>4 DEF PageOK
    <3>. QED  BY <1>1, <3>2, <3>5, <3>6, <3>7 DEF PageTyped, PageIs
  <2>. QED  BY <2>1, <2>2
<1>4. PICK r : r = (IF j.pick = Nothing THEN q ELSE [q EXCEPT !.entity = j.pick])
  OBVIOUS
<1>5. /\ PageTyped(r, types) /\ r.saved = page.saved
      /\ r = [source |-> r.source, sources |-> r.sources, entity |-> r.entity, known |-> r.known,
              raws |-> r.raws, saved |-> r.saved, generating |-> r.generating, seeding |-> r.seeding]
  <2>1. CASE r = [q EXCEPT !.entity = j.pick]
    <3>1. r = [source |-> q.source, sources |-> q.sources, entity |-> j.pick, known |-> q.known,
               raws |-> q.raws, saved |-> q.saved, generating |-> q.generating, seeding |-> q.seeding]
      BY <1>3, <2>1
    <3>. QED  BY <1>1, <1>3, <3>1 DEF PageTyped, PageIs
  <2>. QED  BY <1>3, <1>4, <2>1
<1>6. PICK p : p = Freed(r, j)
  OBVIOUS
<1>7. /\ p.source = r.source /\ p.sources = r.sources /\ p.entity = r.entity
      /\ p.known = r.known /\ p.saved = r.saved
  <2>1. p = r \/ p = [r EXCEPT !.generating = FALSE] \/ p = [r EXCEPT !.seeding = Nothing]
    BY <1>6 DEF Freed
  <2>2. CASE p = [r EXCEPT !.generating = FALSE]
    BY <1>5, <2>2, FlagsOf
  <2>3. CASE p = [r EXCEPT !.seeding = Nothing]
    BY <1>5, <2>3, FlagsOf
  <2>. QED  BY <2>1, <2>2, <2>3
<1>8. PageTyped(p, types) /\ ListBacked(p.saved, mapRows)
  BY <1>1, <1>5, <1>7 DEF PageTyped, PageIs
<1>9. Show(p)
  BY <1>2, <1>4, <1>6
<1>. QED  BY <1>1, <1>8, <1>9, PageStores

LEMMA SelectionStores ==
  ASSUME SchemaStores, SchemaInv',
         \/ \E s \in Sources : SelectSource(s)
         \/ \E e \in EntityTypes : SelectEntity(e)
         \/ \E i \in DOMAIN page.saved : PickSaved(i)
  PROVE  SchemaStores'
<1>1. /\ PageOK(page) /\ moves \in 0..MaxMoves /\ PageTyped(page, types)
      /\ ListBacked(page.saved, mapRows) /\ types \subseteq EntityTypes
  BY DEF SchemaStores, SchemaInv
<1>2. UNCHANGED <<mapJobs, mapSaves, remembered, types, mapRows>> /\ Move
  BY DEF SelectSource, SelectEntity, PickSaved
<1>3. moves' \in 0..MaxMoves
  BY <1>1, <1>2, Moved
<1>4. PICK s, e, p : /\ Show(p) /\ s \in Sources \cup {headKey, Nothing}
                     /\ e \in EntityTypes \cup {Nothing}
                     /\ p.source = s /\ p.sources = page.sources /\ p.entity = e
                     /\ p.known = page.known /\ p.saved = page.saved
  <2>1. CASE \E s \in Sources : SelectSource(s)
    <3>1. PICK s, p : p = [page EXCEPT !.source = s] /\ Show(p) /\ s \in Sources
      BY <2>1 DEF SelectSource
    <3>2. p = [page EXCEPT !.source = s, !.entity = page.entity]
      BY <1>1, <3>1 DEF PageOK
    <3>3. PageIs(p, s, page.sources, page.entity, page.known, page.saved)
      BY <1>1, <3>2, PairOf
    <3>. QED  BY <1>1, <3>1, <3>3 DEF PageTyped, PageIs
  <2>2. CASE \E e \in EntityTypes : SelectEntity(e)
    <3>1. PICK e, p : p = [page EXCEPT !.entity = e] /\ Show(p) /\ e \in EntityTypes
      BY <2>2 DEF SelectEntity
    <3>2. p = [page EXCEPT !.source = page.source, !.entity = e]
      BY <1>1, <3>1 DEF PageOK
    <3>3. PageIs(p, page.source, page.sources, e, page.known, page.saved)
      BY <1>1, <3>2, PairOf
    <3>. QED  BY <1>1, <3>1, <3>3 DEF PageTyped, PageIs
  <2>3. CASE \E i \in DOMAIN page.saved : PickSaved(i)
    <3>1. PICK i \in DOMAIN page.saved : PickSaved(i)
      BY <2>3
    <3>2. PICK s : s = page.saved[i]
      OBVIOUS
    <3>3. PICK x, y : /\ x = (IF s.src \in page.sources THEN s.src ELSE page.source)
                      /\ y = (IF s.ent \in page.known THEN s.ent ELSE page.entity)
      OBVIOUS
    <3>4. Show([page EXCEPT !.source = x, !.entity = y])
      BY <1>1, <3>1, <3>2, <3>3 DEF PickSaved, PageOK
    <3>5. PICK p : p = [page EXCEPT !.source = x, !.entity = y]
      OBVIOUS
    <3>6. x \in Sources \cup {headKey, Nothing} /\ y \in EntityTypes \cup {Nothing}
      BY <1>1, <3>3 DEF PageTyped, PageIs
    <3>7. PageIs(p, x, page.sources, y, page.known, page.saved)
      BY <1>1, <3>5, PairOf
    <3>. QED  BY <3>4, <3>5, <3>6, <3>7 DEF PageIs
  <2>. QED  BY <2>1, <2>2, <2>3
<1>5. PageTyped(p, types) /\ ListBacked(p.saved, mapRows)
  BY <1>1, <1>4 DEF PageTyped, PageIs
<1>. QED  BY <1>2, <1>3, <1>4, <1>5, PageStores

\* Requests are made or answered, and types are created.
LEMMA TypesGrow ==
  ASSUME SchemaStores, SchemaInv', UNCHANGED <<mapper, mapSaves, remembered, mapRows>>,
         page'.source = page.source, page'.sources = page.sources, page'.entity = page.entity,
         page'.known = page.known, page'.saved = page.saved,
         types \subseteq types', moves' \in 0..MaxMoves,
         \A j \in mapJobs' : j \in mapJobs \/ AsksFor(j, types')
  PROVE  SchemaStores'
<1>1. PageTyped(page', types')
  BY DEF SchemaStores, PageTyped
<1>2. (\A j \in mapJobs : AsksFor(j, types))'
  BY DEF SchemaStores, AsksFor
<1>3. FksKnown'
  BY DEF SchemaStores, FksKnown
<1>4. ListBacked(page'.saved, mapRows') /\ (SeededRows \subseteq mapRows)'
  BY DEF SchemaStores
<1>5. (\A s \in mapSaves : Posted(s, mapRows))'
  BY DEF SchemaStores
<1>. QED  BY <1>1, <1>2, <1>3, <1>4, <1>5 DEF SchemaStores

LEMMA GeneratingStores ==
  ASSUME SchemaStores, SchemaInv', Generate \/ \E k \in DOMAIN Packs : SeedPack(k)
  PROVE  SchemaStores'
<1>1. PageOK(page) /\ moves \in 0..MaxMoves
  BY DEF SchemaStores, SchemaInv
<1>2. PICK v : page' = [page EXCEPT !.generating = v] \/ page' = [page EXCEPT !.seeding = v]
  BY DEF Generate, SeedPack
<1>3. /\ page = [source |-> page.source, sources |-> page.sources, entity |-> page.entity,
                 known |-> page.known, raws |-> page.raws, saved |-> page.saved,
                 generating |-> page.generating, seeding |-> page.seeding]
  BY <1>1 DEF PageOK
<1>4. /\ page'.source = page.source /\ page'.sources = page.sources /\ page'.entity = page.entity
      /\ page'.known = page.known /\ page'.saved = page.saved
  BY <1>2, <1>3, FlagsOf
<1>5. Move /\ UNCHANGED <<mapper, mapSaves, remembered, types, mapRows>>
  BY DEF Generate, SeedPack
<1>6. PICK j : mapJobs' = mapJobs \cup {j} /\ j.kind \in {"generate", "seed"}
  <2>1. CASE Generate
    <3>1. PICK j : j = [kind |-> "generate", name |-> generated[page.source]]
      OBVIOUS
    <3>. QED  BY <2>1, <3>1 DEF Generate
  <2>2. ASSUME NEW k \in DOMAIN Packs, SeedPack(k)
        PROVE  \E j : mapJobs' = mapJobs \cup {j} /\ j.kind \in {"generate", "seed"}
    <3>1. PICK j : j = [kind |-> "seed", pack |-> k, next |-> 1]
      OBVIOUS
    <3>. QED  BY <2>2, <3>1 DEF SeedPack
  <2>. QED  BY <2>1, <2>2
<1>7. AsksFor(j, types')
  BY <1>6 DEF AsksFor
<1>8. moves' \in 0..MaxMoves
  BY <1>1, <1>5, Moved
<1>. QED  BY <1>4, <1>5, <1>6, <1>7, <1>8, TypesGrow

LEMMA AnswersStore ==
  ASSUME SchemaStores, SchemaInv', NEW j \in mapJobs, GeneratedAnswer(j) \/ SeedAnswer(j)
  PROVE  SchemaStores'
<1>1. /\ PageOK(page) /\ moves' = moves /\ moves \in 0..MaxMoves /\ JobOK(j)
      /\ UNCHANGED <<mapper, mapSaves, remembered, mapRows>>
  BY DEF SchemaStores, SchemaInv, GeneratedAnswer, SeedAnswer
<1>2. CASE GeneratedAnswer(j)
  <2>1. j.name \in EntityTypes
    BY <1>1, <1>2 DEF JobOK, GeneratedAnswer
  <2>2. CASE /\ types' = types \cup {j.name} /\ page' = page
             /\ mapJobs' = (mapJobs \ {j}) \cup {AskTypes(types', j.name, "generate")}
    <3>1. AsksFor(AskTypes(types', j.name, "generate"), types')
      BY <2>1 DEF AsksFor, AskTypes
    <3>2. types \subseteq types'
      BY <2>2
    <3>3. \A i \in mapJobs' : i \in mapJobs \/ AsksFor(i, types')
      BY <2>2, <3>1
    <3>. QED  BY <1>1, <2>2, <3>2, <3>3, TypesGrow
  <2>3. CASE mapJobs' = mapJobs \ {j} /\ page' = [page EXCEPT !.generating = FALSE] /\ types' = types
    <3>1. /\ page = [source |-> page.source, sources |-> page.sources, entity |-> page.entity,
                     known |-> page.known, raws |-> page.raws, saved |-> page.saved,
                     generating |-> page.generating, seeding |-> page.seeding]
      BY <1>1 DEF PageOK
    <3>2. /\ page'.source = page.source /\ page'.sources = page.sources /\ page'.entity = page.entity
          /\ page'.known = page.known /\ page'.saved = page.saved
      BY <2>3, <3>1, FlagsOf
    <3>. QED  BY <1>1, <2>3, <3>2, TypesGrow
  <2>. QED  BY <1>2, <2>2, <2>3 DEF GeneratedAnswer
<1>3. CASE SeedAnswer(j)
  <2>1. /\ page' = page /\ types \subseteq types'
        /\ mapJobs' = (mapJobs \ {j}) \cup
             {IF j.next < Len(Packs[j.pack]) THEN [j EXCEPT !.next = @ + 1]
              ELSE AskTypes(types', Packs[j.pack][1], "seed")}
    BY <1>3 DEF SeedAnswer
  <2>2. /\ j = [kind |-> "seed", pack |-> j.pack, next |-> j.next] /\ j.pack \in DOMAIN Packs
        /\ Packs[j.pack] \in Seq(EntityTypes) /\ Packs[j.pack] # <<>>
    BY <1>1, <1>3, SchemaAssumption DEF JobOK, SeedAnswer, SchemaAssumption
  <2>3. Packs[j.pack][1] \in EntityTypes
    BY <2>2
  <2>4. AsksFor(AskTypes(types', Packs[j.pack][1], "seed"), types')
    BY <2>3 DEF AsksFor, AskTypes
  <2>5. PICK n : n = j.next + 1
    OBVIOUS
  <2>6. [j EXCEPT !.next = @ + 1] = [kind |-> "seed", pack |-> j.pack, next |-> n]
    BY <2>2, <2>5
  <2>7. AsksFor([j EXCEPT !.next = @ + 1], types')
    BY <2>6 DEF AsksFor
  <2>8. \A i \in mapJobs' : i \in mapJobs \/ AsksFor(i, types')
    BY <2>1, <2>4, <2>7
  <2>. QED  BY <1>1, <2>1, <2>8, TypesGrow
<1>. QED  BY <1>2, <1>3

LEMMA CreatedStores ==
  ASSUME SchemaStores, SchemaInv', NEW e \in EntityTypes, EntitySaved(e)
  PROVE  SchemaStores'
<1>1. /\ moves \in 0..MaxMoves /\ Move /\ UNCHANGED <<page, mapper, mapSaves, remembered, mapRows>>
      /\ types' = types \cup {e} /\ mapJobs' = mapJobs \cup {AskTypes(types', e, "editor")}
  BY DEF SchemaStores, EntitySaved
<1>2. AsksFor(AskTypes(types', e, "editor"), types')
  BY DEF AsksFor, AskTypes
<1>3. types \subseteq types' /\ moves' \in 0..MaxMoves
  BY <1>1, Moved
<1>. QED  BY <1>1, <1>2, <1>3, TypesGrow

\* What the user does in the mapper.
LEMMA EditsStore ==
  ASSUME SchemaStores, SchemaInv',
         \/ \E c \in Columns, q \in Properties : DropOn(c, q)
         \/ \E c \in Columns : RemoveLink(c) \/ LinkGraph(c) \/ UnlinkGraph(c)
  PROVE  SchemaStores'
<1>1. /\ mapper = [links |-> mapper.links, fks |-> mapper.fks] /\ mapper.fks \subseteq Columns
      /\ remembered = [own |-> remembered.own, last |-> remembered.last, fks |-> remembered.fks]
      /\ remembered.fks \in [Sources -> SUBSET Columns] /\ moves \in 0..MaxMoves
  BY DEF SchemaStores, SchemaInv, MapperOK, RememberedOK, FksKnown
<1>2. UNCHANGED <<page, mapJobs, mapSaves, types, mapRows>> /\ Move
  BY DEF DropOn, RemoveLink, LinkGraph, UnlinkGraph, SetFks, EditMapper
<1>3. mapper'.fks \subseteq Columns /\ remembered'.fks \in [Sources -> SUBSET Columns]
  <2>1. ASSUME NEW L, mapper' = [mapper EXCEPT !.links = L], UNCHANGED remembered
        PROVE  mapper'.fks \subseteq Columns /\ remembered'.fks \in [Sources -> SUBSET Columns]
    BY <1>1, <2>1
  <2>2. ASSUME NEW S \in SUBSET Columns, SetFks(S)
        PROVE  mapper'.fks \subseteq Columns /\ remembered'.fks \in [Sources -> SUBSET Columns]
    <3>1. mapper' = [links |-> mapper.links, fks |-> S]
      BY <1>1, <2>2 DEF SetFks, EditMapper
    <3>2. PICK F : F = [remembered.fks EXCEPT ![page.source] = S]
      OBVIOUS
    <3>3. remembered' = [own |-> remembered.own, last |-> remembered.last, fks |-> F]
      BY <1>1, <2>2, <3>2 DEF SetFks
    <3>4. F \in [Sources -> SUBSET Columns]
      BY <1>1, <3>2
    <3>. QED  BY <3>1, <3>3, <3>4
  <2>3. \/ \E L : mapper' = [mapper EXCEPT !.links = L] /\ UNCHANGED remembered
        \/ \E S \in SUBSET Columns : SetFks(S)
    BY <1>1 DEF DropOn, RemoveLink, EditMapper, LinkGraph, UnlinkGraph
  <2>. QED  BY <2>1, <2>2, <2>3
<1>4. FksKnown' /\ moves' \in 0..MaxMoves
  BY <1>1, <1>2, <1>3, Moved DEF FksKnown
<1>. QED  BY <1>2, <1>4 DEF SchemaStores

LEMMA SaveStores ==
  ASSUME SchemaStores, SchemaInv', SaveMapping
  PROVE  SchemaStores'
<1>1. /\ moves \in 0..MaxMoves /\ Move /\ UNCHANGED <<page, mapper, mapJobs, remembered, types, mapRows>>
      /\ mapper.fks \subseteq Columns
  BY DEF SchemaStores, FksKnown, SaveMapping
<1>2. PICK s : /\ mapSaves' = mapSaves \cup {s}
               /\ s = [src |-> page.source, ent |-> ActiveEntity(page), links |-> mapper.links,
                       fks |-> mapper.fks,
                       todo |-> IF page.source \in Uuids THEN mapper.links ELSE {}]
  BY DEF SaveMapping
<1>3. Posted(s, mapRows)
  BY <1>1, <1>2 DEF Posted
<1>4. moves' \in 0..MaxMoves
  BY <1>1, Moved
<1>. QED  BY <1>1, <1>2, <1>3, <1>4 DEF SchemaStores, FksKnown

LEMMA RememberedFks ==
  ASSUME SchemaStores, NEW s \in mapSaves
  PROVE  /\ Remember(s).fks \in [Sources -> SUBSET Columns] /\ Remember(s).own = remembered.own
         /\ Remember(s) = [own |-> Remember(s).own, last |-> Remember(s).last, fks |-> Remember(s).fks]
<1>1. /\ remembered = [own |-> remembered.own, last |-> remembered.last, fks |-> remembered.fks]
      /\ remembered.fks \in [Sources -> SUBSET Columns] /\ s.fks \subseteq Columns
  BY DEF SchemaStores, SchemaInv, RememberedOK, FksKnown, Posted
<1>2. PICK F, x : F = [remembered.fks EXCEPT ![s.src] = s.fks] /\ x = {s.links}
  OBVIOUS
<1>3. Remember(s) = [own |-> remembered.own, last |-> x, fks |-> F]
  <2>1. PICK Q : Q = [remembered EXCEPT !.last = x, !.fks = F]
    OBVIOUS
  <2>2. Q = [own |-> remembered.own, last |-> x, fks |-> F]
    BY <1>1, <2>1
  <2>. QED  BY <1>2, <2>1, <2>2 DEF Remember
<1>4. F \in [Sources -> SUBSET Columns]
  BY <1>1, <1>2
<1>. QED  BY <1>3, <1>4

\* A row is stored; or it is refused, and the mapping gets no place in the list.
LEMMA PostStores ==
  ASSUME SchemaStores, SchemaInv', NEW s \in mapSaves,
         PostFails(s) \/ \E m \in Links : PostRow(s, m)
  PROVE  SchemaStores'
<1>1. /\ UNCHANGED <<page, mapper, mapJobs, types, moves>> /\ Posted(s, mapRows)
      /\ s = [src |-> s.src, ent |-> s.ent, links |-> s.links, fks |-> s.fks, todo |-> s.todo]
      /\ mapper.fks \subseteq Columns
  BY DEF SchemaStores, SchemaInv, SaveOK, PostFails, PostRow, FksKnown
<1>2. CASE PostFails(s)
  <2>1. mapSaves' = mapSaves \ {s} /\ remembered' = Remember(s) /\ UNCHANGED mapRows
    BY <1>2 DEF PostFails
  <2>2. FksKnown'
    BY <1>1, <2>1, RememberedFks DEF FksKnown
  <2>. QED  BY <1>1, <2>1, <2>2 DEF SchemaStores
<1>3. ASSUME NEW m \in Links, PostRow(s, m) PROVE SchemaStores'
  <2>1. /\ mapRows' = mapRows \cup {RowOf(s, m)} /\ UNCHANGED remembered
        /\ mapSaves' = (mapSaves \ {s}) \cup {[s EXCEPT !.todo = @ \ {m}]}
    BY <1>3 DEF PostRow
  <2>2. PICK t : t = [s EXCEPT !.todo = @ \ {m}]
    OBVIOUS
  <2>3. t = [src |-> s.src, ent |-> s.ent, links |-> s.links, fks |-> s.fks, todo |-> s.todo \ {m}]
    BY <1>1, <2>2
  <2>4. Posted(t, mapRows')
    <3>1. \A n : RowOf(t, n) = RowOf(s, n)
      BY <2>3 DEF RowOf
    <3>2. t.src \in Uuids => \A n \in t.links \ t.todo : RowOf(t, n) \in mapRows'
      BY <1>1, <2>1, <2>3, <3>1 DEF Posted
    <3>. QED  BY <1>1, <2>3, <3>2 DEF Posted
  <2>5. \A x \in mapSaves' : Posted(x, mapRows')
    <3>1. \A x \in mapSaves : Posted(x, mapRows')
      BY <2>1 DEF SchemaStores, Posted
    <3>. QED  BY <2>1, <2>2, <2>4, <3>1
  <2>6. ListBacked(page'.saved, mapRows')
    BY <1>1, <2>1, ListedGrows DEF SchemaStores
  <2>7. (SeededRows \subseteq mapRows)'
    BY <2>1 DEF SchemaStores
  <2>8. FksKnown'
    BY <1>1, <2>1 DEF SchemaStores, FksKnown
  <2>9. PageTyped(page', types') /\ (\A j \in mapJobs : AsksFor(j, types))' /\ moves' \in 0..MaxMoves
    BY <1>1 DEF SchemaStores
  <2>. QED  BY <2>5, <2>6, <2>7, <2>8, <2>9 DEF SchemaStores
<1>. QED  BY <1>2, <1>3

LEMMA MappingSavedStores ==
  ASSUME SchemaStores, SchemaInv', NEW s \in mapSaves, MappingSaved(s)
  PROVE  SchemaStores'
<1>1. /\ PageOK(page) /\ s.todo = {} /\ mapSaves' = mapSaves \ {s}
      /\ UNCHANGED <<mapJobs, types, mapRows, moves>>
      /\ remembered' = [Remember(s) EXCEPT !.own[s.src] = {s.links}]
      /\ PageTyped(page, types) /\ ListBacked(page.saved, mapRows)
      /\ Posted(s, mapRows)
  BY DEF SchemaStores, SchemaInv, MappingSaved
<1>2. PICK T : page.saved \in Seq(T) /\ \A g \in T : Backed(g, mapRows)
  BY <1>1 DEF ListBacked
<1>3. PICK g : g = [src |-> s.src, ent |-> s.ent, links |-> s.links]
  OBVIOUS
<1>4. Backed(g, mapRows)
  <2>1. \A m : RowOf(g, m) = RowOf(s, m)
    BY <1>3 DEF RowOf
  <2>. QED  BY <1>1, <1>3, <2>1 DEF Posted, Backed
<1>5. PICK l : l = <<g>> \o SubSeq(page.saved, 1, IF Len(page.saved) < 4 THEN Len(page.saved) ELSE 4)
  OBVIOUS
<1>6. ListBacked(l, mapRows)
  <2>1. PICK k : k = (IF Len(page.saved) < 4 THEN Len(page.saved) ELSE 4)
    OBVIOUS
  <2>2. k \in Nat /\ k <= Len(page.saved)
    BY <1>2, <2>1
  <2>3. SubSeq(page.saved, 1, k) \in Seq(T)
    <3>1. \A i \in 1..k : page.saved[i] \in T
      BY <1>2, <2>2
    <3>. QED  BY <2>2, <3>1, SubSeqProperties, <1>2
  <2>4. PICK U : U = T \cup {g}
    OBVIOUS
  <2>5. SubSeq(page.saved, 1, k) \in Seq(U) /\ <<g>> \in Seq(U)
    BY <2>3, <2>4
  <2>6. l \in Seq(U)
    BY <1>5, <2>1, <2>5, ConcatProperties
  <2>7. \A h \in U : Backed(h, mapRows)
    BY <1>2, <1>4, <2>4
  <2>. QED  BY <2>6, <2>7 DEF ListBacked
<1>7. PICK r : r = SetToSeq({RowOf(s, m) : m \in s.links}) \o page.raws
  OBVIOUS
<1>8. PICK p : p = [page EXCEPT !.raws = r, !.saved = l]
  OBVIOUS
<1>9. Show(p)
  <2>. DEFINE A == SetToSeq({RowOf(s, m) : m \in s.links})
  <2>1. /\ page = [source |-> page.source, sources |-> page.sources, entity |-> page.entity,
                   known |-> page.known, raws |-> page.raws, saved |-> page.saved,
                   generating |-> page.generating, seeding |-> page.seeding]
    BY <1>1 DEF PageOK
  <2>2. [page EXCEPT !.raws = A \o @,
             !.saved = <<[src |-> s.src, ent |-> s.ent, links |-> s.links]>>
                         \o SubSeq(@, 1, IF Len(@) < 4 THEN Len(@) ELSE 4)]
        = [page EXCEPT !.raws = A \o page.raws, !.saved = <<g>>
                         \o SubSeq(page.saved, 1, IF Len(page.saved) < 4 THEN Len(page.saved) ELSE 4)]
    <3>. HIDE DEF A
    <3>. QED  BY <1>3, <2>1
  <2>3. Show([page EXCEPT !.raws = A \o page.raws, !.saved = <<g>>
                \o SubSeq(page.saved, 1, IF Len(page.saved) < 4 THEN Len(page.saved) ELSE 4)])
    BY <2>2 DEF MappingSaved
  <2>4. r = A \o page.raws
    BY <1>7
  <2>. HIDE DEF A
  <2>. QED  BY <1>5, <1>8, <2>3, <2>4
<1>10. PageIs(p, page.source, page.sources, page.entity, page.known, l)
  BY <1>1, <1>8, RowsOf
<1>11. PageTyped(page', types') /\ ListBacked(page'.saved, mapRows')
  BY <1>1, <1>6, <1>9, <1>10 DEF PageTyped, PageIs, Show
<1>12. mapper'.fks \subseteq Columns
  BY <1>9, FksStay
<1>13. remembered'.fks \in [Sources -> SUBSET Columns]
  <2>1. PICK Q : Q = Remember(s)
    OBVIOUS
  <2>2. Q = [own |-> Q.own, last |-> Q.last, fks |-> Q.fks] /\ Q.fks \in [Sources -> SUBSET Columns]
    BY <2>1, RememberedFks
  <2>3. PICK O : O = [Q.own EXCEPT ![s.src] = {s.links}]
    OBVIOUS
  <2>4. remembered' = [own |-> O, last |-> Q.last, fks |-> Q.fks]
    BY <1>1, <2>1, <2>2, <2>3
  <2>. QED  BY <2>2, <2>4
<1>14. FksKnown'
  BY <1>12, <1>13 DEF FksKnown
<1>15. (\A t \in mapSaves : Posted(t, mapRows))' /\ (\A j \in mapJobs : AsksFor(j, types))'
       /\ (SeededRows \subseteq mapRows)'
  BY <1>1 DEF SchemaStores
<1>16. moves' \in 0..MaxMoves
  BY <1>1 DEF SchemaStores
<1>. QED  BY <1>11, <1>14, <1>15, <1>16 DEF SchemaStores

LEMMA SchemaStoresStep ==
  ASSUME SchemaStores, [SchemaNext]_schemaVars
  PROVE  SchemaStores'
<1>1. SchemaInv'
  BY SchemaStep DEF SchemaStores
<1>2. CASE SchemaRequest
  <2>1. PICK j \in mapJobs : \/ ConnectionsLoaded(j) \/ MappingsLoaded(j) \/ TypesLoaded(j)
                             \/ GeneratedAnswer(j) \/ SeedAnswer(j)
    BY <1>2 DEF SchemaRequest
  <2>. QED  BY <1>1, <2>1, LoadsStore, TypesLoadedStores, AnswersStore
<1>3. CASE MapSaving
  BY <1>1, <1>3, PostStores, MappingSavedStores DEF MapSaving
<1>4. CASE SaveMapping
  BY <1>1, <1>4, SaveStores
<1>5. CASE Generate \/ \E k \in DOMAIN Packs : SeedPack(k)
  BY <1>1, <1>5, GeneratingStores
<1>6. CASE \/ \E s \in Sources : SelectSource(s)
           \/ \E e \in EntityTypes : SelectEntity(e)
           \/ \E i \in DOMAIN page.saved : PickSaved(i)
  BY <1>1, <1>6, SelectionStores
<1>7. CASE \E e \in EntityTypes : EntitySaved(e)
  BY <1>1, <1>7, CreatedStores
<1>8. CASE \/ \E c \in Columns, q \in Properties : DropOn(c, q)
           \/ \E c \in Columns : RemoveLink(c) \/ LinkGraph(c) \/ UnlinkGraph(c)
  BY <1>1, <1>8, EditsStore
<1>9. CASE UNCHANGED schemaVars
  BY <1>1, <1>9 DEF schemaVars, SchemaStores, FksKnown
<1>. QED  BY <1>2, <1>3, <1>4, <1>5, <1>6, <1>7, <1>8, <1>9 DEF SchemaNext

LEMMA SchemaStoresHolds == SchemaSpec => []SchemaStores
<1>1. SchemaInit => SchemaStores
  BY SchemaStoresStart
<1>2. SchemaStores /\ [SchemaNext]_schemaVars => SchemaStores'
  BY SchemaStoresStep
<1>. QED  BY <1>1, <1>2, PTL DEF SchemaSpec

(* ---------------------- the database connector form --------------------- *)
(* A form that is open has the requests to register that bear its number,   *)
(* one if it saves; no form had the number that the next one gets.          *)
FormWhole(f) ==
  /\ f = [open |-> f.open, inst |-> f.inst, phase |-> f.phase, host |-> f.host,
          selected |-> f.selected, saving |-> f.saving]
  /\ f.inst \in Nat /\ f.saving \in BOOLEAN /\ f.open \in BOOLEAN

Under(i) == {r \in saves : r.inst = i}

FormInv ==
  /\ FormWhole(form) /\ \A r \in saves : r.inst \in 0..form.inst
  /\ form.open /\ form.saving => \E r \in saves : Under(form.inst) = {r}
  /\ form.open /\ ~form.saving => Under(form.inst) = {}

LEMMA FormSavesOnce == ASSUME FormInv PROVE OneSave
<1>. SUFFICES ASSUME form.open
              PROVE  Cardinality(Under(form.inst)) = (IF form.saving THEN 1 ELSE 0)
  <2>1. form.open => {r \in saves : Own(r)} = Under(form.inst)
    BY DEF Own, Under
  <2>. QED  BY <2>1 DEF OneSave
<1>1. CASE form.saving
  BY <1>1, FS_Singleton DEF FormInv
<1>2. CASE ~form.saving
  BY <1>2, FS_EmptySet DEF FormInv
<1>. QED  BY <1>1, <1>2

\* Most steps leave the requests and the number of the form.
LEMMA FormStays ==
  ASSUME FormInv, saves' = saves, FormWhole(form'), form'.inst = form.inst,
         form'.open => form.open /\ form'.saving = form.saving
  PROVE  FormInv'
<1>1. Under(form.inst)' = Under(form.inst)
  BY DEF Under
<1>2. \A r \in saves' : r.inst \in 0..form'.inst
  BY DEF FormInv
<1>3. form'.open /\ form'.saving => \E r \in saves' : Under(form.inst)' = {r}
  BY <1>1 DEF FormInv
<1>4. form'.open /\ ~form'.saving => Under(form.inst)' = {}
  BY <1>1 DEF FormInv
<1>5. Under(form.inst)' = {r \in saves' : r.inst = form'.inst}
  BY DEF Under
<1>. QED  BY <1>2, <1>3, <1>4, <1>5 DEF FormInv, Under

LEMMA FormOpens ==
  ASSUME FormInv, NEW h, form' = NewForm(form.inst + 1, h), saves' = saves
  PROVE  FormInv'
<1>1. form.inst \in Nat /\ \A r \in saves : r.inst \in 0..form.inst
  BY DEF FormInv, FormWhole
<1>2. form'.inst = form.inst + 1 /\ form'.saving = FALSE /\ form'.open = TRUE
  BY DEF NewForm
<1>3. FormWhole(form')
  BY <1>1, <1>2 DEF NewForm, FormWhole
<1>4. \A r \in saves' : r.inst \in 0..form'.inst /\ r.inst # form'.inst
  BY <1>1, <1>2
<1>. QED  BY <1>2, <1>3, <1>4 DEF FormInv, Under

LEMMA FormRegisters == ASSUME FormInv, Register PROVE FormInv'
<1>. DEFINE request == [inst |-> form.inst, host |-> form.host, tables |-> form.selected]
<1>1. form.open /\ ~form.saving /\ form' = [form EXCEPT !.saving = TRUE] /\ saves' = saves \cup {request}
  BY DEF Register, MayRegister
<1>2. FormWhole(form') /\ form'.inst = form.inst /\ form'.saving = TRUE /\ form.inst \in Nat
  BY <1>1 DEF FormInv, FormWhole
<1>3. request.inst = form.inst
  OBVIOUS
<1>. HIDE DEF request
<1>4. Under(form.inst) = {}
  BY <1>1 DEF FormInv
<1>5. {r \in saves' : r.inst = form'.inst} = {request}
  BY <1>1, <1>2, <1>3, <1>4 DEF Under
<1>6. \A r \in saves' : r.inst \in 0..form'.inst
  BY <1>1, <1>2, <1>3 DEF FormInv
<1>. QED  BY <1>1, <1>2, <1>5, <1>6 DEF FormInv, Under

LEMMA FormAnswered ==
  ASSUME FormInv, NEW r \in saves, Registered(r) \/ NotRegistered(r)
  PROVE  FormInv'
<1>1. saves' = saves \ {r}
  BY DEF Registered, NotRegistered
<1>2. form.inst \in Nat /\ \A q \in saves : q.inst \in 0..form.inst
  BY DEF FormInv, FormWhole
<1>3. CASE Registered(r)
  <2>1. FormWhole(form') /\ form'.inst = form.inst /\ form'.open = FALSE
    BY <1>3 DEF Registered, FormInv, FormWhole
  <2>. QED  BY <1>1, <1>2, <2>1 DEF FormInv
<1>4. CASE NotRegistered(r)
  <2>1. form' = [form EXCEPT !.saving = @ /\ ~Own(r)]
    BY <1>4 DEF NotRegistered, Saved
  <2>2. /\ FormWhole(form') /\ form'.inst = form.inst /\ form'.open = form.open
        /\ form'.saving = (form.saving /\ ~Own(r))
    <3>1. PICK b \in BOOLEAN : b = (form.saving /\ ~Own(r))
      OBVIOUS
    <3>2. form' = [form EXCEPT !.saving = b]
      BY <2>1, <3>1
    <3>3. FormWhole(form') /\ form'.inst = form.inst /\ form'.open = form.open /\ form'.saving = b
      BY <3>2 DEF FormInv, FormWhole
    <3>. QED  BY <3>1, <3>3
  <2>3. {q \in saves' : q.inst = form'.inst} = Under(form.inst) \ {r}
    BY <1>1, <2>2 DEF Under
  <2>4. \A q \in saves' : q.inst \in 0..form'.inst
    BY <1>1, <1>2, <2>2
  <2>5. CASE form.open /\ Own(r)
    <3>1. r.inst = form.inst
      BY <2>5 DEF Own
    <3>2. Under(form.inst) \subseteq {r}
      BY <2>5, <3>1 DEF FormInv, Under
    <3>3. ~form'.saving /\ {q \in saves' : q.inst = form'.inst} = {}
      BY <2>2, <2>3, <2>5, <3>2
    <3>. QED  BY <2>2, <2>4, <3>3 DEF FormInv, Under
  <2>6. CASE form.open /\ ~Own(r)
    <3>1. r.inst # form.inst /\ form'.saving = form.saving
      BY <2>2, <2>6 DEF Own, FormInv, FormWhole
    <3>2. {q \in saves' : q.inst = form'.inst} = Under(form.inst)
      BY <2>3, <3>1 DEF Under
    <3>3. form'.open /\ form'.saving => \E q \in saves' : {x \in saves' : x.inst = form'.inst} = {q}
      BY <2>6, <3>1, <3>2 DEF FormInv
    <3>. QED  BY <2>2, <2>4, <2>6, <3>1, <3>2, <3>3 DEF FormInv, Under
  <2>7. CASE ~form.open
    BY <2>2, <2>4, <2>7 DEF FormInv
  <2>. QED  BY <2>5, <2>6, <2>7
<1>. QED  BY <1>3, <1>4

LEMMA FormSteps == ASSUME FormInv, FormNext PROVE FormInv'
<1>1. FormWhole(form)
  BY DEF FormInv
<1>2. CASE OpenForm
  BY <1>2, FormOpens DEF OpenForm
<1>3. CASE CloseForm
  <2>1. FormWhole(form') /\ form'.inst = form.inst /\ form'.open = FALSE
    BY <1>1, <1>3 DEF CloseForm, FormWhole
  <2>. QED  BY <1>3, <2>1, FormStays DEF CloseForm
<1>4. ASSUME NEW h, EditDetails(h) PROVE FormInv'
  <2>1. FormWhole(form') /\ form'.inst = form.inst /\ form'.open = form.open /\ form'.saving = form.saving
    BY <1>1, <1>4 DEF EditDetails, FormWhole
  <2>. QED  BY <1>4, <2>1, FormStays DEF EditDetails
<1>5. CASE VerifyDetails \/ Discovered
  <2>1. FormWhole(form') /\ form'.inst = form.inst /\ form'.open = form.open /\ form'.saving = form.saving
    BY <1>1, <1>5 DEF VerifyDetails, Discovered, FormWhole
  <2>. QED  BY <1>5, <2>1, FormStays DEF VerifyDetails, Discovered
<1>6. CASE EditCredentials
  <2>1. form.open /\ form' = [form EXCEPT !.phase = "details", !.selected = {}] /\ saves' = saves
    BY <1>6 DEF EditCredentials, Cleared
  <2>2. form = [open |-> form.open, inst |-> form.inst, phase |-> form.phase, host |-> form.host,
                selected |-> form.selected, saving |-> form.saving]
    BY <1>1 DEF FormWhole
  <2>3. form' = [open |-> form.open, inst |-> form.inst, phase |-> "details", host |-> form.host,
                 selected |-> {}, saving |-> form.saving]
    BY <2>1, <2>2
  <2>4. FormWhole(form') /\ form'.inst = form.inst /\ form'.open = form.open /\ form'.saving = form.saving
    BY <1>1, <2>3 DEF FormWhole
  <2>. QED  BY <2>1, <2>4, FormStays
<1>7. ASSUME NEW x, Select(x) PROVE FormInv'
  <2>1. FormWhole(form') /\ form'.inst = form.inst /\ form'.open = form.open /\ form'.saving = form.saving
    BY <1>1, <1>7 DEF Select, FormWhole
  <2>. QED  BY <1>7, <2>1, FormStays DEF Select
<1>8. CASE SearchTables
  BY <1>1, <1>8, FormStays DEF SearchTables
<1>9. CASE Register
  BY <1>9, FormRegisters
<1>10. CASE SaveAnswered
  BY <1>10, FormAnswered DEF SaveAnswered
<1>. QED  BY <1>2, <1>3, <1>4, <1>5, <1>6, <1>7, <1>8, <1>9, <1>10
          DEF FormNext, ToggleTable, ToggleSchema

LEMMA FormHolds == FormSpec => []FormInv
<1>1. FormInit => FormInv
  <2>. SUFFICES ASSUME FormInit PROVE FormInv
    OBVIOUS
  <2>1. PICK h \in Hosts : form = NewForm(0, h)
    BY DEF FormInit
  <2>2. saves = {}
    BY DEF FormInit
  <2>3. FormWhole(form) /\ form.saving = FALSE
    BY <2>1 DEF NewForm, FormWhole
  <2>. QED  BY <2>2, <2>3 DEF FormInv, Under
<1>2. FormInv /\ [FormNext]_formVars => FormInv'
  <2>. SUFFICES ASSUME FormInv, [FormNext]_formVars PROVE FormInv'
    OBVIOUS
  <2>1. CASE UNCHANGED formVars
    BY <2>1 DEF formVars, FormInv, Under
  <2>. QED  BY <2>1, FormSteps
<1>. QED  BY <1>1, <1>2, PTL DEF FormSpec

(* Tables are selected only while the form is connected, and what is        *)
(* selected, under way or registered was discovered at its own host.        *)
FormSelects(f) ==
  /\ f.selected \subseteq tablesOf[f.host] /\ (f.phase # "connected" => f.selected = {})

Discoverable(r) ==
  r.host \in Hosts /\ r.tables # {} /\ r.tables \subseteq tablesOf[r.host]

FormStores ==
  /\ FormTypeOK /\ FormSelects(form) /\ form.inst <= clicks
  /\ \A r \in saves : Discoverable(r)
  /\ RegisteredWasDiscovered

FormShape == [open : BOOLEAN, inst : 0..MaxClicks, phase : {"details", "verifying", "connected"},
              host : Hosts, selected : SUBSET Tables, saving : BOOLEAN]

\* Most steps leave the requests and the connectors.
LEMMA FormKeepsStored ==
  ASSUME FormStores, saves' = saves, connectors' = connectors, form' \in FormShape, clicks' \in 0..MaxClicks,
         FormSelects(form'), form'.inst <= clicks', form.inst <= form'.inst
  PROVE  FormStores'
<1>1. \A r \in saves' : r.inst \in 0..form'.inst /\ r.host \in Hosts /\ r.tables \subseteq Tables
  BY DEF FormStores, FormTypeOK, FormShape
<1>2. FormTypeOK'
  BY <1>1 DEF FormStores, FormTypeOK, FormShape
<1>3. (\A r \in saves' : Discoverable(r)') /\ RegisteredWasDiscovered'
  BY DEF FormStores, Discoverable, RegisteredWasDiscovered
<1>. QED  BY <1>2, <1>3 DEF FormStores, FormSelects

LEMMA FormRegistersDiscovered == ASSUME FormStores, Register PROVE FormStores'
<1>. DEFINE request == [inst |-> form.inst, host |-> form.host, tables |-> form.selected]
<1>1. form \in FormShape /\ clicks \in 0..MaxClicks
  BY DEF FormStores, FormTypeOK, FormShape
<1>2. form' \in FormShape /\ form'.inst = form.inst /\ form'.host = form.host
      /\ form'.selected = form.selected /\ form'.phase = form.phase
  BY <1>1 DEF Register, FormShape
<1>3. saves' = saves \cup {request} /\ connectors' = connectors /\ clicks' = clicks
  BY DEF Register
<1>4. request.inst = form.inst /\ request.host \in Hosts /\ request.tables \subseteq Tables
      /\ request.tables # {} /\ request.tables \subseteq tablesOf[request.host]
  BY <1>1 DEF FormStores, FormSelects, Register, MayRegister, FormShape
<1>. HIDE DEF request
<1>5. \A r \in saves' : r.inst \in 0..form'.inst /\ r.host \in Hosts /\ r.tables \subseteq Tables
  BY <1>1, <1>2, <1>3, <1>4 DEF FormStores, FormTypeOK, FormShape
<1>6. FormTypeOK'
  BY <1>2, <1>3, <1>5 DEF FormStores, FormTypeOK, FormShape
<1>7. (\A r \in saves' : Discoverable(r)') /\ RegisteredWasDiscovered'
  BY <1>3, <1>4 DEF FormStores, Discoverable, RegisteredWasDiscovered
<1>8. FormSelects(form') /\ form'.inst <= clicks'
  BY <1>2, <1>3 DEF FormStores, FormSelects
<1>. QED  BY <1>6, <1>7, <1>8 DEF FormStores, FormSelects

LEMMA FormStoresAnswered ==
  ASSUME FormStores, NEW r \in saves, Registered(r) \/ NotRegistered(r)
  PROVE  FormStores'
<1>. DEFINE connector == [host |-> r.host, tables |-> r.tables]
<1>1. form \in FormShape /\ clicks \in 0..MaxClicks
  BY DEF FormStores, FormTypeOK, FormShape
<1>2. form' \in FormShape /\ form'.inst = form.inst /\ form'.host = form.host
      /\ form'.selected = form.selected /\ form'.phase = form.phase
  <2>1. CASE Registered(r)
    BY <1>1, <2>1 DEF Registered, FormShape
  <2>2. CASE NotRegistered(r)
    <3>1. PICK b \in BOOLEAN : b = (form.saving /\ ~Own(r))
      OBVIOUS
    <3>2. form' = [form EXCEPT !.saving = b]
      BY <2>2, <3>1 DEF NotRegistered, Saved
    <3>. QED  BY <1>1, <3>2 DEF FormShape
  <2>. QED  BY <2>1, <2>2
<1>3. saves' \subseteq saves /\ connectors' \subseteq connectors \cup {connector} /\ clicks' = clicks
  BY DEF Registered, NotRegistered
<1>4. r.host \in Hosts /\ r.tables \subseteq Tables /\ r.tables # {} /\ r.tables \subseteq tablesOf[r.host]
  BY DEF FormStores, FormTypeOK, Discoverable
<1>5. /\ connector \in [host : Hosts, tables : SUBSET Tables] /\ connector.tables # {}
      /\ connector.tables \subseteq tablesOf[connector.host]
  BY <1>4
<1>. HIDE DEF connector
<1>6. \A q \in saves' : q.inst \in 0..form'.inst /\ q.host \in Hosts /\ q.tables \subseteq Tables
  BY <1>2, <1>3 DEF FormStores, FormTypeOK
<1>7. FormTypeOK'
  BY <1>1, <1>2, <1>3, <1>5, <1>6 DEF FormStores, FormTypeOK, FormShape
<1>8. (\A q \in saves' : Discoverable(q)') /\ RegisteredWasDiscovered'
  BY <1>3, <1>5 DEF FormStores, Discoverable, RegisteredWasDiscovered
<1>9. FormSelects(form') /\ form'.inst <= clicks'
  BY <1>2, <1>3 DEF FormStores, FormSelects
<1>. QED  BY <1>7, <1>8, <1>9 DEF FormStores, FormSelects

LEMMA FormStoresSteps == ASSUME FormStores, FormNext PROVE FormStores'
<1>1. /\ form \in FormShape /\ clicks \in 0..MaxClicks /\ FormSelects(form) /\ form.inst <= clicks
      /\ MaxClicks \in Nat /\ form.inst <= form.inst
  BY FormAssumption DEF FormStores, FormTypeOK, FormShape
<1>2. CASE OpenForm
  <2>1. PICK h \in Hosts : form' = NewForm(form.inst + 1, h)
    BY <1>2 DEF OpenForm
  <2>2. clicks < MaxClicks /\ clicks' = clicks + 1
    BY <1>2 DEF OpenForm, Click
  <2>3. form.inst \in 0..MaxClicks
    BY <1>1 DEF FormShape
  <2>4. form' \in FormShape /\ form'.inst = form.inst + 1 /\ FormSelects(form') /\ form'.inst <= clicks'
        /\ clicks' \in 0..MaxClicks
    BY <1>1, <2>1, <2>2, <2>3 DEF NewForm, FormShape, FormSelects
  <2>5. form.inst <= form'.inst
    BY <2>3, <2>4
  <2>. QED  BY <1>2, <2>4, <2>5, FormKeepsStored DEF OpenForm
<1>3. CASE CloseForm
  <2>1. form' \in FormShape /\ FormSelects(form') /\ form'.inst = form.inst
    BY <1>1, <1>3 DEF CloseForm, FormShape, FormSelects
  <2>. QED  BY <1>1, <1>3, <2>1, FormKeepsStored DEF CloseForm
<1>4. ASSUME NEW h \in Hosts, EditDetails(h) PROVE FormStores'
  <2>1. form' \in FormShape /\ FormSelects(form') /\ form'.inst = form.inst
    BY <1>1, <1>4 DEF EditDetails, FormShape, FormSelects
  <2>2. clicks' \in 0..MaxClicks /\ form'.inst <= clicks'
    BY <1>1, <1>4, <2>1 DEF EditDetails, Click, FormShape
  <2>. QED  BY <1>1, <1>4, <2>1, <2>2, FormKeepsStored DEF EditDetails
<1>5. CASE VerifyDetails \/ Discovered
  <2>1. form' \in FormShape /\ FormSelects(form') /\ form'.inst = form.inst
    BY <1>1, <1>5 DEF VerifyDetails, Discovered, FormShape, FormSelects
  <2>. QED  BY <1>1, <1>5, <2>1, FormKeepsStored DEF VerifyDetails, Discovered
<1>6. CASE EditCredentials
  <2>1. form' = [form EXCEPT !.phase = "details", !.selected = {}]
    BY <1>6 DEF EditCredentials, Cleared
  <2>2. form' \in FormShape /\ form'.selected = {} /\ form'.inst = form.inst
    BY <1>1, <2>1 DEF FormShape
  <2>3. FormSelects(form') /\ form.inst <= form'.inst
    BY <1>1, <2>2 DEF FormSelects, FormShape
  <2>. QED  BY <1>1, <1>6, <2>2, <2>3, FormKeepsStored DEF EditCredentials
<1>7. ASSUME NEW x, Select(x), x \subseteq tablesOf[form.host] PROVE FormStores'
  <2>1. x \subseteq Tables
    BY <1>1, <1>7, FormAssumption DEF FormShape
  <2>2. form' \in FormShape /\ FormSelects(form') /\ form'.inst = form.inst
    BY <1>1, <1>7, <2>1 DEF Select, FormShape, FormSelects
  <2>3. clicks' \in 0..MaxClicks /\ form'.inst <= clicks'
    BY <1>1, <1>7, <2>2 DEF Select, Click, FormShape
  <2>. QED  BY <1>1, <1>7, <2>2, <2>3, FormKeepsStored DEF Select
<1>8. CASE SearchTables
  <2>1. clicks' \in 0..MaxClicks /\ form.inst <= clicks' /\ form.inst <= form.inst
    BY <1>1, <1>8 DEF SearchTables, Click, FormShape
  <2>. QED  BY <1>1, <1>8, <2>1, FormKeepsStored DEF SearchTables
<1>9. CASE Register
  BY <1>9, FormRegistersDiscovered
<1>10. CASE SaveAnswered
  BY <1>10, FormStoresAnswered DEF SaveAnswered
<1>11. ASSUME NEW t, ToggleTable(t) PROVE FormStores'
  <2>1. (form.selected \ {t}) \cup ({t} \ form.selected) \subseteq tablesOf[form.host]
    BY <1>1, <1>11 DEF ToggleTable, Listed, FormSelects
  <2>. QED  BY <1>7, <1>11, <2>1 DEF ToggleTable
<1>12. ASSUME NEW s, ToggleSchema(s) PROVE FormStores'
  <2>. DEFINE shown == {t \in Listed : schemaOf[t] = s}
  <2>1. shown \subseteq tablesOf[form.host]
    BY DEF Listed
  <2>2. Select(IF shown \subseteq form.selected THEN form.selected \ shown ELSE form.selected \cup shown)
    BY <1>12 DEF ToggleSchema
  <2>. HIDE DEF shown
  <2>3. (IF shown \subseteq form.selected THEN form.selected \ shown ELSE form.selected \cup shown)
          \subseteq tablesOf[form.host]
    BY <1>1, <2>1 DEF FormSelects
  <2>. QED  BY <1>7, <2>2, <2>3
<1>. QED  BY <1>2, <1>3, <1>4, <1>5, <1>6, <1>8, <1>9, <1>10, <1>11, <1>12 DEF FormNext

LEMMA FormStoresHolds == FormSpec => []FormStores
<1>1. FormInit => FormStores
  <2>. SUFFICES ASSUME FormInit PROVE FormStores
    OBVIOUS
  <2>1. PICK h \in Hosts : form = NewForm(0, h)
    BY DEF FormInit
  <2>2. saves = {} /\ connectors = {} /\ clicks = 0
    BY DEF FormInit
  <2>. QED  BY <2>1, <2>2, FormAssumption
            DEF NewForm, FormStores, FormTypeOK, FormSelects, RegisteredWasDiscovered
<1>2. FormStores /\ [FormNext]_formVars => FormStores'
  <2>. SUFFICES ASSUME FormStores, [FormNext]_formVars PROVE FormStores'
    OBVIOUS
  <2>1. CASE UNCHANGED formVars
    BY <2>1 DEF formVars, FormStores, FormTypeOK, FormSelects, Discoverable, RegisteredWasDiscovered
  <2>. QED  BY <2>1, FormStoresSteps
<1>. QED  BY <1>1, <1>2, PTL DEF FormSpec

(* -------------------------- the ontology editors ------------------------ *)
(* The types of the server are numbered as they are created, no two of them *)
(* alike, and so no two rows of a list have one number: of a list that is   *)
(* on its way or of one that the page shows.                                *)
Numbered(S) == IsFiniteSet(S) /\ \A s, t \in S : s.id = t.id => s = t

ByNumber(l) ==
  /\ \E T : l \in Seq(T)
  /\ \A i, j \in 1..Len(l) : l[i].id = l[j].id => i = j

ListOK(c) ==
  c.op = "list" /\ c.kind \in {"entities", "relationships"} => ByNumber(c.items)

OntoInv ==
  /\ onto = [tab |-> onto.tab, loading |-> onto.loading, entities |-> onto.entities,
             rels |-> onto.rels]
  /\ ByNumber(onto.entities) /\ ByNumber(onto.rels)
  /\ Numbered(entTypes) /\ Numbered(relTypes)
  /\ created \in Nat /\ \A t \in entTypes \cup relTypes : t.id \in 1..created
  /\ \A c \in typeCalls : ListOK(c)

LEMMA OntologyLists == ASSUME OntoInv PROVE ListedOnce
<1>1. \A l : ByNumber(l) => \A i, j \in DOMAIN l : l[i].id = l[j].id => i = j
  BY DEF ByNumber
<1>. QED  BY <1>1 DEF OntoInv, ListedOnce

LEMMA NumbersListed ==
  ASSUME NEW S, Numbered(S)
  PROVE  ByNumber(SetToSeq(S))
<1>. DEFINE l == SetToSeq(S)
<1>1. l \in Seq(S) /\ \A i, j \in 1..Len(l) : l[i] = l[j] => i = j
  BY SetListed DEF Numbered
<1>. HIDE DEF l
<1>2. \A i \in 1..Len(l) : l[i] \in S
  BY <1>1
<1>3. \A i, j \in 1..Len(l) : l[i].id = l[j].id => i = j
  BY <1>1, <1>2 DEF Numbered
<1>. QED  BY <1>1, <1>3 DEF ByNumber, l

LEMMA NumbersLeft ==
  ASSUME NEW l, ByNumber(l), NEW id
  PROVE  ByNumber(Without(l, id))
<1>1. PICK T : l \in Seq(T)
  BY DEF ByNumber
<1>. DEFINE stay == {i \in DOMAIN l : l[i].id # id}
            rest == At(l, stay)
<1>2. stay \in SUBSET (1..Len(l))
  BY <1>1
<1>. HIDE DEF stay
<1>3. /\ rest \in Seq(T)
      /\ \A m, n \in 1..Len(rest) : m < n =>
           \E i, j \in stay : i < j /\ rest[m] = l[i] /\ rest[n] = l[j]
  BY <1>1, <1>2, KeptOfList
<1>. HIDE DEF rest
<1>4. ASSUME NEW m \in 1..Len(rest), NEW n \in 1..Len(rest), m < n PROVE rest[m].id # rest[n].id
  <2>1. PICK i \in stay, j \in stay : i < j /\ rest[m] = l[i] /\ rest[n] = l[j]
    BY <1>3, <1>4
  <2>2. i \in 1..Len(l) /\ j \in 1..Len(l) /\ i # j
    BY <1>2, <2>1
  <2>. QED  BY <2>1, <2>2 DEF ByNumber
<1>5. \A m, n \in 1..Len(rest) : m < n \/ n < m \/ m = n
  BY <1>3
<1>6. \A m, n \in 1..Len(rest) : rest[m].id = rest[n].id => m = n
  BY <1>4, <1>5
<1>. QED  BY <1>3, <1>6 DEF ByNumber, Without, rest, stay

LEMMA NumbersUpserted ==
  ASSUME NEW l, ByNumber(l), NEW item
  PROVE  ByNumber(Upserted(l, item))
<1>1. PICK T : l \in Seq(T)
  BY DEF ByNumber
<1>. DEFINE U == T \cup {item}
<1>2. l \in Seq(U) /\ Len(l) \in Nat /\ DOMAIN l = 1..Len(l)
  BY <1>1
<1>3. CASE \E i \in DOMAIN l : l[i].id = item.id
  <2>. DEFINE now == [i \in DOMAIN l |-> IF l[i].id = item.id THEN item ELSE l[i]]
  <2>1. Upserted(l, item) = now
    BY <1>3 DEF Upserted
  <2>2. now \in Seq(U) /\ Len(now) = Len(l)
    <3>1. now = [i \in 1..Len(l) |-> IF l[i].id = item.id THEN item ELSE l[i]]
      BY <1>2
    <3>2. \A i \in 1..Len(l) : (IF l[i].id = item.id THEN item ELSE l[i]) \in U
      BY <1>2
    <3>. QED  BY <1>2, <3>1, <3>2
  <2>3. \A i \in 1..Len(l) : now[i].id = l[i].id
    BY <1>2
  <2>. HIDE DEF now
  <2>4. \A i, j \in 1..Len(now) : now[i].id = now[j].id => i = j
    BY <2>2, <2>3 DEF ByNumber
  <2>. QED  BY <2>1, <2>2, <2>4 DEF ByNumber
<1>4. CASE ~\E i \in DOMAIN l : l[i].id = item.id
  <2>. DEFINE first == <<item>>
              now == first \o l
  <2>1. Upserted(l, item) = now
    BY <1>4 DEF Upserted
  <2>2. first \in Seq(U) /\ Len(first) = 1 /\ first[1] = item
    OBVIOUS
  <2>. HIDE DEF first
  <2>3. /\ now \in Seq(U) /\ Len(now) = Len(l) + 1
        /\ \A i \in 1..Len(now) : now[i] = (IF i = 1 THEN item ELSE l[i - 1])
    <3>1. /\ now \in Seq(U) /\ Len(now) = Len(first) + Len(l)
          /\ \A i \in 1..(Len(first) + Len(l)) :
               now[i] = IF i <= Len(first) THEN first[i] ELSE l[i - Len(first)]
      BY <1>2, <2>2, ConcatProperties
    <3>. HIDE DEF now
    <3>. QED  BY <1>2, <2>2, <3>1
  <2>. HIDE DEF now
  <2>4. ASSUME NEW i \in 1..Len(now), NEW j \in 1..Len(now), i # j PROVE now[i].id # now[j].id
    <3>1. CASE i = 1
      <4>1. j - 1 \in 1..Len(l) /\ now[i] = item /\ now[j] = l[j - 1]
        BY <1>2, <2>3, <2>4, <3>1
      <4>. QED  BY <1>2, <1>4, <4>1
    <3>2. CASE j = 1
      <4>1. i - 1 \in 1..Len(l) /\ now[j] = item /\ now[i] = l[i - 1]
        BY <1>2, <2>3, <2>4, <3>2
      <4>. QED  BY <1>2, <1>4, <4>1
    <3>3. CASE i # 1 /\ j # 1
      <4>1. /\ i - 1 \in 1..Len(l) /\ now[i] = l[i - 1] /\ j - 1 \in 1..Len(l) /\ now[j] = l[j - 1]
            /\ i - 1 # j - 1
        BY <1>2, <2>3, <2>4, <3>3
      <4>. QED  BY <4>1 DEF ByNumber
    <3>. QED  BY <3>1, <3>2, <3>3
  <2>. QED  BY <2>1, <2>3, <2>4 DEF ByNumber
<1>. QED  BY <1>3, <1>4

LEMMA NumbersStay ==
  ASSUME NEW S, Numbered(S), NEW T \in SUBSET S
  PROVE  Numbered(T)
BY FS_Subset DEF Numbered

LEMMA NumbersAdded ==
  ASSUME NEW S, Numbered(S), NEW n \in Nat, \A t \in S : t.id \in 1..n, NEW e, e.id = n + 1
  PROVE  Numbered(S \cup {e}) /\ \A t \in S \cup {e} : t.id \in 1..(n + 1)
<1>1. IsFiniteSet(S \cup {e})
  BY FS_AddElement DEF Numbered
<1>2. \A t \in S : t.id # e.id
  OBVIOUS
<1>. QED  BY <1>1, <1>2 DEF Numbered

\* The page and its lists.
LEMMA OntologyListArrives == ASSUME OntoInv, NEW c \in typeCalls, ListArrives(c) PROVE OntoInv'
<1>1. /\ c.op = "list" /\ typeCalls' = typeCalls \ {c} /\ entTypes' = entTypes /\ relTypes' = relTypes
      /\ created' = created
      /\ CASE c.kind = "entities" -> onto' = [onto EXCEPT !.entities = c.items, !.loading = FALSE]
           [] c.kind = "relationships" -> onto' = [onto EXCEPT !.rels = c.items, !.loading = FALSE]
           [] c.kind = "versions" -> onto' = [onto EXCEPT !.loading = FALSE]
           [] OTHER -> onto' = onto
  BY DEF ListArrives
<1>2. onto = [tab |-> onto.tab, loading |-> onto.loading, entities |-> onto.entities,
              rels |-> onto.rels]
  BY DEF OntoInv
<1>3. /\ onto' = [tab |-> onto'.tab, loading |-> onto'.loading, entities |-> onto'.entities,
                  rels |-> onto'.rels]
      /\ ByNumber(onto'.entities) /\ ByNumber(onto'.rels)
  <2>1. CASE c.kind = "entities"
    <3>1. onto' = [tab |-> onto.tab, loading |-> FALSE, entities |-> c.items, rels |-> onto.rels]
      BY <1>1, <1>2, <2>1
    <3>2. ByNumber(c.items)
      BY <1>1, <2>1 DEF OntoInv, ListOK
    <3>. QED  BY <3>1, <3>2 DEF OntoInv
  <2>2. CASE c.kind = "relationships"
    <3>1. onto' = [tab |-> onto.tab, loading |-> FALSE, entities |-> onto.entities, rels |-> c.items]
      BY <1>1, <1>2, <2>2
    <3>2. ByNumber(c.items)
      BY <1>1, <2>2 DEF OntoInv, ListOK
    <3>. QED  BY <3>1, <3>2 DEF OntoInv
  <2>3. CASE c.kind = "versions"
    <3>1. onto' = [onto EXCEPT !.loading = FALSE]
      BY <1>1, <2>3
    <3>2. onto' = [tab |-> onto.tab, loading |-> FALSE, entities |-> onto.entities, rels |-> onto.rels]
      BY <1>2, <3>1
    <3>. QED  BY <3>2 DEF OntoInv
  <2>4. CASE c.kind \notin {"entities", "relationships", "versions"}
    <3>1. onto' = onto
      BY <1>1, <2>4
    <3>. QED  BY <1>2, <3>1 DEF OntoInv
  <2>. QED  BY <2>1, <2>2, <2>3, <2>4
<1>. QED  BY <1>1, <1>3 DEF OntoInv

\* A step that keeps the lists and the types, and asks for no list.
LEMMA OntologyStays ==
  ASSUME OntoInv, onto' = [tab |-> onto'.tab, loading |-> onto'.loading,
                           entities |-> onto'.entities, rels |-> onto'.rels],
         onto'.entities = onto.entities, onto'.rels = onto.rels,
         entTypes' = entTypes, relTypes' = relTypes, created' = created,
         \A c \in typeCalls' : c \in typeCalls \/ c.op # "list"
  PROVE  OntoInv'
<1>1. \A c \in typeCalls' : ListOK(c)
  BY DEF OntoInv, ListOK
<1>. QED  BY <1>1 DEF OntoInv

LEMMA OntologyLoses ==
  ASSUME OntoInv, NEW c \in typeCalls, DeletedArrives(c) \/ SavedArrives(c)
  PROVE  OntoInv'
<1>1. onto = [tab |-> onto.tab, loading |-> onto.loading, entities |-> onto.entities,
              rels |-> onto.rels]
  BY DEF OntoInv
<1>2. /\ typeCalls' = typeCalls \ {c} /\ entTypes' = entTypes /\ relTypes' = relTypes
      /\ created' = created
      /\ \E l : \/ onto' = [onto EXCEPT !.entities = l] /\ ByNumber(l)
                \/ onto' = [onto EXCEPT !.rels = l] /\ ByNumber(l)
  <2>1. CASE DeletedArrives(c)
    <3>1. /\ ByNumber(Without(onto.entities, c.id)) /\ ByNumber(Without(onto.rels, c.id))
      BY NumbersLeft DEF OntoInv
    <3>. QED  BY <2>1, <3>1 DEF DeletedArrives
  <2>2. CASE SavedArrives(c)
    <3>1. /\ ByNumber(Upserted(onto.entities, c.item)) /\ ByNumber(Upserted(onto.rels, c.item))
      BY NumbersUpserted DEF OntoInv
    <3>. QED  BY <2>2, <3>1 DEF SavedArrives
  <2>. QED  BY <2>1, <2>2
<1>3. PICK l : \/ onto' = [onto EXCEPT !.entities = l] /\ ByNumber(l)
               \/ onto' = [onto EXCEPT !.rels = l] /\ ByNumber(l)
  BY <1>2
<1>4. \/ onto' = [tab |-> onto.tab, loading |-> onto.loading, entities |-> l, rels |-> onto.rels]
      \/ onto' = [tab |-> onto.tab, loading |-> onto.loading, entities |-> onto.entities, rels |-> l]
  BY <1>1, <1>3
<1>5. /\ onto' = [tab |-> onto'.tab, loading |-> onto'.loading, entities |-> onto'.entities,
                  rels |-> onto'.rels]
      /\ ByNumber(onto'.entities) /\ ByNumber(onto'.rels)
  BY <1>3, <1>4 DEF OntoInv
<1>. QED  BY <1>2, <1>5 DEF OntoInv

\* The server.
LEMMA OntologyServed ==
  ASSUME OntoInv, NEW c \in typeCalls, ServeTab(c) \/ ServeSave(c) \/ ServeDeleteType(c)
  PROVE  OntoInv'
<1>1. onto' = onto
  BY DEF ServeTab, ServeSave, ServeDeleteType
<1>2. CASE ServeTab(c)
  <2>. DEFINE l == IF c.kind = "relationships" THEN SetToSeq(relTypes) ELSE SetToSeq(entTypes)
              a == [op |-> "list", kind |-> c.kind, tag |-> c.tag, items |-> l]
  <2>1. ByNumber(l)
    BY NumbersListed DEF OntoInv
  <2>2. typeCalls' = (typeCalls \ {c}) \cup {a} /\ entTypes' = entTypes /\ relTypes' = relTypes
        /\ created' = created
    BY <1>2 DEF ServeTab, AnswerCall
  <2>3. ListOK(a)
    BY <2>1 DEF ListOK
  <2>. QED  BY <1>1, <2>2, <2>3 DEF OntoInv
<1>3. CASE ServeSave(c)
  <2>1. \A x \in typeCalls' : x \in typeCalls \/ x.op # "list"
    BY <1>3 DEF ServeSave, StoredTypes, AnswerCall
  <2>2. /\ Numbered(entTypes') /\ Numbered(relTypes')
        /\ created' \in Nat /\ \A t \in entTypes' \cup relTypes' : t.id \in 1..created'
    <3>1. CASE c.kind = "entities"
      <4>. DEFINE e == [id |-> created + 1, name |-> c.name]
      <4>1. entTypes' = entTypes \cup {e} /\ relTypes' = relTypes /\ created' = created + 1
        BY <1>3, <3>1 DEF ServeSave, StoredTypes
      <4>2. e.id = created + 1
        OBVIOUS
      <4>. HIDE DEF e
      <4>. QED  BY <4>1, <4>2, NumbersAdded DEF OntoInv
    <3>2. CASE c.kind # "entities"
      <4>. DEFINE e == [id |-> created + 1, name |-> c.name, src |-> c.src, tgt |-> c.tgt]
      <4>1. relTypes' = relTypes \cup {e} /\ entTypes' = entTypes /\ created' = created + 1
        BY <1>3, <3>2 DEF ServeSave, StoredTypes
      <4>2. e.id = created + 1
        OBVIOUS
      <4>. HIDE DEF e
      <4>. QED  BY <4>1, <4>2, NumbersAdded DEF OntoInv
    <3>. QED  BY <3>1, <3>2
  <2>3. \A x \in typeCalls' : ListOK(x)
    BY <2>1 DEF OntoInv, ListOK
  <2>. QED  BY <1>1, <2>2, <2>3 DEF OntoInv
<1>4. CASE ServeDeleteType(c)
  <2>1. entTypes' \in SUBSET entTypes /\ relTypes' \in SUBSET relTypes /\ created' = created
    BY <1>4 DEF ServeDeleteType
  <2>2. Numbered(entTypes') /\ Numbered(relTypes')
    BY <2>1, NumbersStay DEF OntoInv
  <2>3. \A x \in typeCalls' : x \in typeCalls \/ x.op # "list"
    BY <1>4 DEF ServeDeleteType, AnswerCall
  <2>4. \A x \in typeCalls' : ListOK(x)
    BY <2>3 DEF OntoInv, ListOK
  <2>. QED  BY <1>1, <2>1, <2>2, <2>4 DEF OntoInv
<1>. QED  BY <1>2, <1>3, <1>4

LEMMA OntologySteps == ASSUME OntoInv, OntologyNext PROVE OntoInv'
<1>1. onto = [tab |-> onto.tab, loading |-> onto.loading, entities |-> onto.entities,
              rels |-> onto.rels]
  BY DEF OntoInv
<1>2. ASSUME NEW c \in typeCalls, CallStep(c) PROVE OntoInv'
  <2>1. CASE CallFails(c)
    <3>1. onto' = onto \/ onto' = [onto EXCEPT !.loading = FALSE]
      BY <2>1 DEF CallFails, LoadFailed
    <3>2. \/ onto' = onto
          \/ onto' = [tab |-> onto.tab, loading |-> FALSE, entities |-> onto.entities, rels |-> onto.rels]
      BY <1>1, <3>1
    <3>3. /\ onto' = [tab |-> onto'.tab, loading |-> onto'.loading, entities |-> onto'.entities,
                      rels |-> onto'.rels]
          /\ onto'.entities = onto.entities /\ onto'.rels = onto.rels
      BY <1>1, <3>2
    <3>. QED  BY <2>1, <3>3, OntologyStays DEF CallFails
  <2>2. CASE RefusedArrives(c) \/ RefuseSave(c)
    <3>1. onto' = onto /\ entTypes' = entTypes /\ relTypes' = relTypes /\ created' = created
      BY <2>2 DEF RefusedArrives, RefuseSave
    <3>2. \A x \in typeCalls' : x \in typeCalls \/ x.op # "list"
      BY <2>2 DEF RefusedArrives, RefuseSave, AnswerCall
    <3>. QED  BY <1>1, <3>1, <3>2, OntologyStays
  <2>. QED  BY <1>2, <2>1, <2>2, OntologyListArrives, OntologyLoses, OntologyServed DEF CallStep
<1>3. ASSUME NEW t, ChangeTab(t) PROVE OntoInv'
  <2>1. onto' = [onto EXCEPT !.tab = t, !.loading = TRUE]
    BY <1>3 DEF ChangeTab
  <2>2. onto' = [tab |-> t, loading |-> TRUE, entities |-> onto.entities, rels |-> onto.rels]
    BY <1>1, <2>1
  <2>3. \A x \in typeCalls' : x \in typeCalls \/ x.op # "list"
    BY <1>3 DEF ChangeTab, LoadTab
  <2>4. /\ onto' = [tab |-> onto'.tab, loading |-> onto'.loading, entities |-> onto'.entities,
                    rels |-> onto'.rels]
        /\ onto'.entities = onto.entities /\ onto'.rels = onto.rels
    BY <2>2
  <2>. QED  BY <1>3, <2>3, <2>4, OntologyStays DEF ChangeTab
<1>4. ASSUME NEW k, NEW id, DeleteType(k, id) PROVE OntoInv'
  <2>1. \A x \in typeCalls' : x \in typeCalls \/ x.op # "list"
    BY <1>4 DEF DeleteType
  <2>. QED  BY <1>1, <1>4, <2>1, OntologyStays DEF DeleteType
<1>5. ASSUME NEW id, OpenEntity(id) \/ OpenRel(id) PROVE OntoInv'
  <2>1. \A x \in typeCalls' : x \in typeCalls \/ x.op # "list"
    BY <1>5 DEF OpenEntity, OpenRel, LoadTab
  <2>. QED  BY <1>1, <1>5, <2>1, OntologyStays DEF OpenEntity, OpenRel
<1>6. CASE CloseEntity \/ CloseRel
  BY <1>1, <1>6, OntologyStays DEF CloseEntity, CloseRel
<1>7. ASSUME NEW n, SaveEntity(n) PROVE OntoInv'
  <2>1. \A x \in typeCalls' : x \in typeCalls \/ x.op # "list"
    BY <1>7 DEF SaveEntity
  <2>. QED  BY <1>1, <1>7, <2>1, OntologyStays DEF SaveEntity
<1>8. ASSUME NEW n, NEW s, NEW t, SaveRel(n, s, t) PROVE OntoInv'
  <2>1. \A x \in typeCalls' : x \in typeCalls \/ x.op # "list"
    BY <1>8 DEF SaveRel
  <2>. QED  BY <1>1, <1>8, <2>1, OntologyStays DEF SaveRel
<1>. QED  BY <1>2, <1>3, <1>4, <1>5, <1>6, <1>7, <1>8 DEF OntologyNext

LEMMA OntologyHolds == OntologySpec => []OntoInv
<1>1. OntologyInit => OntoInv
  <2>. SUFFICES ASSUME OntologyInit PROVE OntoInv
    OBVIOUS
  <2>1. /\ onto = [tab |-> "entities", loading |-> TRUE, entities |-> <<>>, rels |-> <<>>]
        /\ entTypes = {} /\ relTypes = {} /\ created = 0
        /\ typeCalls = {[op |-> "load", kind |-> "entities", tag |-> 0]}
    BY DEF OntologyInit
  <2>2. ByNumber(<<>>)
    <3>1. <<>> \in Seq({}) /\ Len(<<>>) = 0
      OBVIOUS
    <3>. QED  BY <3>1 DEF ByNumber
  <2>3. Numbered({})
    BY FS_EmptySet DEF Numbered
  <2>4. \A c \in typeCalls : ListOK(c)
    BY <2>1 DEF ListOK
  <2>. QED  BY <2>1, <2>2, <2>3, <2>4 DEF OntoInv
<1>2. OntoInv /\ [OntologyNext]_ontoVars => OntoInv'
  <2>. SUFFICES ASSUME OntoInv, [OntologyNext]_ontoVars PROVE OntoInv'
    OBVIOUS
  <2>1. CASE UNCHANGED ontoVars
    BY <2>1 DEF ontoVars, OntoInv, ListOK
  <2>. QED  BY <2>1, OntologySteps
<1>. QED  BY <1>1, <1>2, PTL DEF OntologySpec

(* The types of the server, of the lists and of the answers under way are   *)
(* numbered and named as they are created; an editor is open by itself; and *)
(* the ends of a relationship type are types.                               *)
GoodType(t) == t.id \in TypeIds /\ t.name \in TypeNames

GoodList(l) == \E T : l \in Seq(T) /\ \A t \in T : GoodType(t)

GoodCall(c) ==
  /\ c.op = "list" => GoodList(c.items)
  /\ c.op = "save" => c.id \in {0} \cup TypeIds /\ c.name \in TypeNames
  /\ c.op = "saved" => GoodType(c.item)

EntEditors == [open : BOOLEAN, inst : 0..MaxActs, id : {0} \cup TypeIds, saving : BOOLEAN]
RelEditors == [open : BOOLEAN, inst : 0..MaxActs, id : {0} \cup TypeIds, saving : BOOLEAN,
               options : SUBSET TypeIds]

OntoPage(p) ==
  /\ p = [tab |-> p.tab, loading |-> p.loading, entities |-> p.entities, rels |-> p.rels]
  /\ p.tab \in Tabs /\ p.loading \in BOOLEAN /\ GoodList(p.entities) /\ GoodList(p.rels)

OntoEditors ==
  /\ entEditor \in EntEditors /\ relEditor \in RelEditors /\ ~(entEditor.open /\ relEditor.open)
  /\ acts \in 0..MaxActs

OntoServer ==
  /\ \A t \in entTypes \cup relTypes : GoodType(t)
  /\ created \in 0..MaxTypes /\ EndsExist

OntoStores ==
  OntoPage(onto) /\ OntoEditors /\ OntoServer /\ \A c \in typeCalls : GoodCall(c)

LEMMA GoodListRange ==
  ASSUME NEW l, GoodList(l)
  PROVE  \A t \in Range(l) : GoodType(t)
BY DEF GoodList, Range

LEMMA OntologyStored == ASSUME OntoStores PROVE OntologyTypeOK /\ EndsExist
<1>1. \A t \in Range(onto.entities) \cup Range(onto.rels) \cup entTypes \cup relTypes : GoodType(t)
  BY GoodListRange DEF OntoStores, OntoPage, OntoServer
<1>2. relEditor.options \subseteq TypeIds
  BY DEF OntoStores, OntoEditors, RelEditors
<1>. QED  BY <1>1, <1>2 DEF OntologyTypeOK, OntoStores, OntoPage, OntoEditors, OntoServer, GoodType

\* The lists that are made of good ones.
LEMMA GoodWithout ==
  ASSUME NEW l, GoodList(l), NEW id
  PROVE  GoodList(Without(l, id))
<1>1. PICK T : l \in Seq(T) /\ \A t \in T : GoodType(t)
  BY DEF GoodList
<1>. DEFINE stay == {i \in DOMAIN l : l[i].id # id}
<1>2. stay \in SUBSET (1..Len(l))
  BY <1>1
<1>. HIDE DEF stay
<1>3. At(l, stay) \in Seq(T)
  BY <1>1, <1>2, KeptOfList
<1>. QED  BY <1>1, <1>3 DEF GoodList, Without, stay

LEMMA GoodUpserted ==
  ASSUME NEW l, GoodList(l), NEW item, GoodType(item)
  PROVE  GoodList(Upserted(l, item))
<1>1. PICK T : l \in Seq(T) /\ \A t \in T : GoodType(t)
  BY DEF GoodList
<1>. DEFINE U == T \cup {item}
<1>2. l \in Seq(U) /\ DOMAIN l = 1..Len(l) /\ Len(l) \in Nat
  BY <1>1
<1>3. \A t \in U : GoodType(t)
  BY <1>1
<1>4. Upserted(l, item) \in Seq(U)
  <2>1. CASE \E i \in DOMAIN l : l[i].id = item.id
    <3>1. Upserted(l, item) = [i \in 1..Len(l) |-> IF l[i].id = item.id THEN item ELSE l[i]]
      BY <1>2, <2>1 DEF Upserted
    <3>2. \A i \in 1..Len(l) : (IF l[i].id = item.id THEN item ELSE l[i]) \in U
      BY <1>2
    <3>. QED  BY <1>2, <3>1, <3>2
  <2>2. CASE ~\E i \in DOMAIN l : l[i].id = item.id
    <3>1. Upserted(l, item) = <<item>> \o l
      BY <2>2 DEF Upserted
    <3>2. <<item>> \in Seq(U)
      OBVIOUS
    <3>. QED  BY <1>2, <3>1, <3>2, ConcatProperties
  <2>. QED  BY <2>1, <2>2
<1>. HIDE DEF U
<1>. QED  BY <1>3, <1>4 DEF GoodList

LEMMA GoodServed ==
  ASSUME NEW S, IsFiniteSet(S), \A t \in S : GoodType(t)
  PROVE  GoodList(SetToSeq(S))
BY SetListed DEF GoodList

\* Each part of the state.
LEMMA OntoPageSteps ==
  ASSUME OntoStores, OntologyNext
  PROVE  OntoPage(onto')
<1>1. OntoPage(onto) /\ \A c \in typeCalls : GoodCall(c)
  BY DEF OntoStores
<1>2. onto = [tab |-> onto.tab, loading |-> onto.loading, entities |-> onto.entities,
              rels |-> onto.rels]
  BY <1>1 DEF OntoPage
<1>3. ASSUME NEW t \in Tabs, onto' = [onto EXCEPT !.tab = t, !.loading = TRUE] PROVE OntoPage(onto')
  <2>1. onto' = [tab |-> t, loading |-> TRUE, entities |-> onto.entities, rels |-> onto.rels]
    BY <1>2, <1>3
  <2>. QED  BY <1>1, <2>1 DEF OntoPage
<1>4. ASSUME onto' = [onto EXCEPT !.loading = FALSE] PROVE OntoPage(onto')
  <2>1. onto' = [tab |-> onto.tab, loading |-> FALSE, entities |-> onto.entities, rels |-> onto.rels]
    BY <1>2, <1>4
  <2>. QED  BY <1>1, <2>1 DEF OntoPage
<1>5. ASSUME NEW l, NEW b \in BOOLEAN, GoodList(l),
             \/ onto' = [tab |-> onto.tab, loading |-> b, entities |-> l, rels |-> onto.rels]
             \/ onto' = [tab |-> onto.tab, loading |-> b, entities |-> onto.entities, rels |-> l]
      PROVE OntoPage(onto')
  BY <1>1, <1>5 DEF OntoPage
<1>6. ASSUME NEW c \in typeCalls, ListArrives(c) PROVE OntoPage(onto')
  <2>1. c.op = "list" /\ GoodList(c.items)
    BY <1>1, <1>6 DEF ListArrives, GoodCall
  <2>2. \/ onto' = [onto EXCEPT !.entities = c.items, !.loading = FALSE]
        \/ onto' = [onto EXCEPT !.rels = c.items, !.loading = FALSE]
        \/ onto' = [onto EXCEPT !.loading = FALSE]
        \/ onto' = onto
    BY <1>6 DEF ListArrives
  <2>3. \/ onto' = [tab |-> onto.tab, loading |-> FALSE, entities |-> c.items, rels |-> onto.rels]
        \/ onto' = [tab |-> onto.tab, loading |-> FALSE, entities |-> onto.entities, rels |-> c.items]
        \/ onto' = [onto EXCEPT !.loading = FALSE]
        \/ onto' = onto
    BY <1>2, <2>2
  <2>. QED  BY <1>1, <1>4, <1>5, <2>1, <2>3
<1>7. ASSUME NEW c \in typeCalls, DeletedArrives(c) PROVE OntoPage(onto')
  <2>1. \/ onto' = [onto EXCEPT !.entities = Without(onto.entities, c.id)]
        \/ onto' = [onto EXCEPT !.rels = Without(onto.rels, c.id)]
    BY <1>7 DEF DeletedArrives
  <2>2. GoodList(Without(onto.entities, c.id)) /\ GoodList(Without(onto.rels, c.id))
    BY <1>1, GoodWithout DEF OntoPage
  <2>3. PICK l : /\ GoodList(l)
                 /\ onto' = [onto EXCEPT !.entities = l] \/ onto' = [onto EXCEPT !.rels = l]
    BY <2>1, <2>2
  <2>4. \/ onto' = [tab |-> onto.tab, loading |-> onto.loading, entities |-> l, rels |-> onto.rels]
        \/ onto' = [tab |-> onto.tab, loading |-> onto.loading, entities |-> onto.entities, rels |-> l]
    BY <1>2, <2>3
  <2>5. onto.loading \in BOOLEAN
    BY <1>1 DEF OntoPage
  <2>. QED  BY <1>5, <2>3, <2>4, <2>5
<1>8. ASSUME NEW c \in typeCalls, SavedArrives(c) PROVE OntoPage(onto')
  <2>1. \/ onto' = [onto EXCEPT !.entities = Upserted(onto.entities, c.item)]
        \/ onto' = [onto EXCEPT !.rels = Upserted(onto.rels, c.item)]
    BY <1>8 DEF SavedArrives
  <2>2. GoodType(c.item)
    BY <1>1, <1>8 DEF SavedArrives, GoodCall
  <2>3. GoodList(Upserted(onto.entities, c.item)) /\ GoodList(Upserted(onto.rels, c.item))
    BY <1>1, <2>2, GoodUpserted DEF OntoPage
  <2>4. PICK l : /\ GoodList(l)
                 /\ onto' = [onto EXCEPT !.entities = l] \/ onto' = [onto EXCEPT !.rels = l]
    BY <2>1, <2>3
  <2>5. \/ onto' = [tab |-> onto.tab, loading |-> onto.loading, entities |-> l, rels |-> onto.rels]
        \/ onto' = [tab |-> onto.tab, loading |-> onto.loading, entities |-> onto.entities, rels |-> l]
    BY <1>2, <2>4
  <2>6. onto.loading \in BOOLEAN
    BY <1>1 DEF OntoPage
  <2>. QED  BY <1>5, <2>4, <2>5, <2>6
<1>9. ASSUME NEW c \in typeCalls, CallFails(c) PROVE OntoPage(onto')
  BY <1>1, <1>4, <1>9 DEF CallFails, LoadFailed
<1>10. ASSUME NEW c \in typeCalls,
              RefusedArrives(c) \/ ServeTab(c) \/ ServeSave(c) \/ RefuseSave(c) \/ ServeDeleteType(c)
       PROVE  OntoPage(onto')
  BY <1>1, <1>10 DEF RefusedArrives, ServeTab, ServeSave, RefuseSave, ServeDeleteType
<1>11. ASSUME NEW t \in Tabs, ChangeTab(t) PROVE OntoPage(onto')
  BY <1>3, <1>11 DEF ChangeTab
<1>12. ASSUME onto' = onto PROVE OntoPage(onto')
  BY <1>1, <1>12
<1>13. CASE (CloseEntity \/ CloseRel)
  BY <1>12, <1>13 DEF CloseEntity, CloseRel
<1>14. ASSUME NEW k, NEW id, DeleteType(k, id) PROVE OntoPage(onto')
  BY <1>12, <1>14 DEF DeleteType
<1>15. ASSUME NEW id, OpenEntity(id) \/ OpenRel(id) PROVE OntoPage(onto')
  BY <1>12, <1>15 DEF OpenEntity, OpenRel
<1>16. ASSUME NEW n, SaveEntity(n) PROVE OntoPage(onto')
  BY <1>12, <1>16 DEF SaveEntity
<1>17. ASSUME NEW n, NEW s, NEW t, SaveRel(n, s, t) PROVE OntoPage(onto')
  BY <1>12, <1>17 DEF SaveRel
<1>. QED  BY <1>6, <1>7, <1>8, <1>9, <1>10, <1>11, <1>13, <1>14, <1>15, <1>16, <1>17
          DEF OntologyNext, CallStep

\* The editors.
LEMMA OntoEditorsSteps ==
  ASSUME OntoStores, OntologyNext
  PROVE  OntoEditors'
<1>1. /\ entEditor \in EntEditors /\ relEditor \in RelEditors /\ ~(entEditor.open /\ relEditor.open)
      /\ acts \in 0..MaxActs /\ MaxActs \in Nat /\ \A c \in typeCalls : GoodCall(c)
  BY OntologyAssumption DEF OntoStores, OntoEditors
<1>2. NoEntEditor \in EntEditors /\ NoEntEditor.open = FALSE /\ NoRelEditor \in RelEditors
      /\ NoRelEditor.open = FALSE
  BY <1>1 DEF NoEntEditor, NoRelEditor, EntEditors, RelEditors
<1>3. ASSUME entEditor' \in EntEditors, relEditor' \in RelEditors, acts' \in 0..MaxActs,
             ~(entEditor'.open /\ relEditor'.open)
      PROVE  OntoEditors'
  BY <1>3 DEF OntoEditors, EntEditors, RelEditors
<1>4. ASSUME NEW c \in typeCalls, ListArrives(c) PROVE OntoEditors'
  <2>1. GoodList(c.items) /\ entEditor' = entEditor /\ acts' = acts
    BY <1>1, <1>4 DEF ListArrives, GoodCall
  <2>2. PICK o : o = {t.id : t \in Range(c.items)}
    OBVIOUS
  <2>3. o \subseteq TypeIds
    BY <2>1, <2>2, GoodListRange DEF GoodType
  <2>4. relEditor' = [relEditor EXCEPT !.options = o] \/ relEditor' = relEditor
    BY <1>4, <2>2 DEF ListArrives
  <2>5. relEditor' \in RelEditors /\ relEditor'.open = relEditor.open
    BY <1>1, <2>3, <2>4 DEF RelEditors
  <2>. QED  BY <1>1, <1>3, <2>1, <2>5
<1>5. ASSUME NEW c \in typeCalls, SavedArrives(c) PROVE OntoEditors'
  <2>1. \/ entEditor' = NoEntEditor /\ relEditor' = relEditor
        \/ relEditor' = NoRelEditor /\ entEditor' = entEditor
    BY <1>5 DEF SavedArrives
  <2>. QED  BY <1>1, <1>2, <1>3, <1>5, <2>1 DEF SavedArrives
<1>6. ASSUME NEW c \in typeCalls, RefusedArrives(c) PROVE OntoEditors'
  <2>1. PICK a \in BOOLEAN : a = StillSaving(entEditor, c)
    BY DEF StillSaving
  <2>2. PICK b \in BOOLEAN : b = StillSaving(relEditor, c)
    BY DEF StillSaving
  <2>3. entEditor' = [entEditor EXCEPT !.saving = a] \/ entEditor' = entEditor
    BY <1>6, <2>1 DEF RefusedArrives
  <2>4. relEditor' = [relEditor EXCEPT !.saving = b] \/ relEditor' = relEditor
    BY <1>6, <2>2 DEF RefusedArrives
  <2>5. entEditor' \in EntEditors /\ entEditor'.open = entEditor.open
    BY <1>1, <2>3 DEF EntEditors
  <2>6. relEditor' \in RelEditors /\ relEditor'.open = relEditor.open
    BY <1>1, <2>4 DEF RelEditors
  <2>. QED  BY <1>1, <1>3, <1>6, <2>5, <2>6 DEF RefusedArrives
<1>7. ASSUME NEW c \in typeCalls,
             CallFails(c) \/ DeletedArrives(c) \/ ServeTab(c) \/ ServeSave(c) \/ RefuseSave(c)
               \/ ServeDeleteType(c)
      PROVE  OntoEditors'
  <2>1. entEditor' = entEditor /\ relEditor' = relEditor /\ acts' = acts
    BY <1>7 DEF CallFails, DeletedArrives, ServeTab, ServeSave, RefuseSave, ServeDeleteType
  <2>. QED  BY <1>1, <1>3, <2>1
<1>8. Act => acts' \in 0..MaxActs
  BY <1>1 DEF Act
<1>9. ASSUME NEW t, ChangeTab(t) PROVE OntoEditors'
  BY <1>1, <1>3, <1>8, <1>9 DEF ChangeTab
<1>10. ASSUME NEW k, NEW id, DeleteType(k, id) PROVE OntoEditors'
  BY <1>1, <1>3, <1>8, <1>10 DEF DeleteType
<1>11. ASSUME NEW id \in {0} \cup TypeIds, OpenEntity(id) PROVE OntoEditors'
  <2>1. entEditor' = [open |-> TRUE, inst |-> acts, id |-> id, saving |-> FALSE]
        /\ relEditor' = relEditor /\ ~relEditor.open /\ Act
    BY <1>11 DEF OpenEntity, PageFree
  <2>2. entEditor' \in EntEditors
    BY <1>1, <2>1 DEF EntEditors
  <2>. QED  BY <1>1, <1>3, <1>8, <2>1, <2>2
<1>12. ASSUME NEW id \in {0} \cup TypeIds, OpenRel(id) PROVE OntoEditors'
  <2>1. relEditor' = [open |-> TRUE, inst |-> acts, id |-> id, saving |-> FALSE, options |-> {}]
        /\ entEditor' = entEditor /\ ~entEditor.open /\ Act
    BY <1>12 DEF OpenRel, PageFree
  <2>2. relEditor' \in RelEditors
    BY <1>1, <2>1 DEF RelEditors
  <2>. QED  BY <1>1, <1>3, <1>8, <2>1, <2>2
<1>13. CASE CloseEntity
  BY <1>1, <1>2, <1>3, <1>13 DEF CloseEntity
<1>14. CASE CloseRel
  BY <1>1, <1>2, <1>3, <1>14 DEF CloseRel
<1>15. ASSUME NEW n, SaveEntity(n) PROVE OntoEditors'
  <2>1. entEditor' = [entEditor EXCEPT !.saving = TRUE] /\ relEditor' = relEditor /\ acts' = acts
    BY <1>15 DEF SaveEntity
  <2>2. entEditor' \in EntEditors /\ entEditor'.open = entEditor.open
    BY <1>1, <2>1 DEF EntEditors
  <2>. QED  BY <1>1, <1>3, <2>1, <2>2
<1>16. ASSUME NEW n, NEW s, NEW t, SaveRel(n, s, t) PROVE OntoEditors'
  <2>1. relEditor' = [relEditor EXCEPT !.saving = TRUE] /\ entEditor' = entEditor /\ acts' = acts
    BY <1>16 DEF SaveRel
  <2>2. relEditor' \in RelEditors /\ relEditor'.open = relEditor.open
    BY <1>1, <2>1 DEF RelEditors
  <2>. QED  BY <1>1, <1>3, <2>1, <2>2
<1>. QED  BY <1>4, <1>5, <1>6, <1>7, <1>9, <1>10, <1>11, <1>12, <1>13, <1>14, <1>15, <1>16
          DEF OntologyNext, CallStep

\* A new type has the next number.
LEMMA OntoNumbers ==
  ASSUME OntoStores, NEW c \in typeCalls, ServeSave(c)
  PROVE  created + 1 \in TypeIds /\ c.name \in TypeNames /\ created' \in 0..MaxTypes
<1>1. c.op = "save" /\ c.name \in TypeNames /\ created \in 0..MaxTypes /\ MaxTypes \in Nat
  BY OntologyAssumption DEF OntoStores, OntoServer, GoodCall, ServeSave
<1>2. created < MaxTypes /\ created' = created + 1
  <2>1. CASE c.kind = "entities"
    BY <2>1 DEF ServeSave, StoredTypes
  <2>2. CASE c.kind # "entities"
    BY <2>2 DEF ServeSave, StoredTypes
  <2>. QED  BY <2>1, <2>2
<1>. QED  BY <1>1, <1>2 DEF TypeIds

LEMMA OntoSaved ==
  ASSUME OntoStores, NEW c \in typeCalls, ServeSave(c)
  PROVE  OntoServer' /\ \A x \in typeCalls' : GoodCall(x)
<1>1. created + 1 \in TypeIds /\ c.name \in TypeNames /\ created' \in 0..MaxTypes
  BY OntoNumbers
<1>2. /\ \A t \in entTypes \cup relTypes : GoodType(t)
      /\ EndsExist /\ \A x \in typeCalls : GoodCall(x)
  BY DEF OntoStores, OntoServer
<1>3. ASSUME NEW item, GoodType(item), StoredTypes(entTypes, c, item) \/ StoredTypes(relTypes, c, item)
      PROVE  \A x \in typeCalls' : GoodCall(x)
  <2>. DEFINE a == [op |-> "saved", kind |-> c.kind, inst |-> c.inst, item |-> item]
  <2>1. typeCalls' = (typeCalls \ {c}) \cup {a}
    BY <1>3 DEF StoredTypes, AnswerCall
  <2>2. GoodCall(a)
    BY <1>3 DEF GoodCall
  <2>. QED  BY <1>2, <2>1, <2>2
<1>4. CASE c.kind = "entities"
  <2>. DEFINE e == [id |-> created + 1, name |-> c.name]
  <2>1. StoredTypes(entTypes, c, e) /\ entTypes' = entTypes \cup {e} /\ relTypes' = relTypes
    BY <1>4 DEF ServeSave
  <2>2. GoodType(e)
    BY <1>1 DEF GoodType
  <2>. HIDE DEF e
  <2>3. EndsExist'
    BY <1>2, <2>1 DEF EndsExist
  <2>4. \A t \in entTypes' \cup relTypes' : GoodType(t)
    BY <1>2, <2>1, <2>2
  <2>5. \A x \in typeCalls' : GoodCall(x)
    BY <1>3, <2>1, <2>2
  <2>. QED  BY <1>1, <2>3, <2>4, <2>5 DEF OntoServer
<1>5. CASE c.kind # "entities"
  <2>. DEFINE r == [id |-> created + 1, name |-> c.name, src |-> c.src, tgt |-> c.tgt]
  <2>1. /\ StoredTypes(relTypes, c, r) /\ relTypes' = relTypes \cup {r}
        /\ entTypes' = entTypes /\ EndsKnown(c)
    BY <1>5 DEF ServeSave
  <2>2. GoodType(r) /\ r.src = c.src /\ r.tgt = c.tgt
    BY <1>1 DEF GoodType
  <2>. HIDE DEF r
  <2>3. EndsExist'
    BY <1>2, <2>1, <2>2 DEF EndsExist, EndsKnown
  <2>4. \A t \in entTypes' \cup relTypes' : GoodType(t)
    BY <1>2, <2>1, <2>2
  <2>5. \A x \in typeCalls' : GoodCall(x)
    BY <1>3, <2>1, <2>2
  <2>. QED  BY <1>1, <2>3, <2>4, <2>5 DEF OntoServer
<1>. QED  BY <1>4, <1>5

LEMMA OntoServerSteps ==
  ASSUME OntoInv, OntoStores, OntologyNext
  PROVE  OntoServer' /\ \A x \in typeCalls' : GoodCall(x)
<1>1. /\ OntoServer /\ \A x \in typeCalls : GoodCall(x)
      /\ \A t \in entTypes \cup relTypes : GoodType(t)
  BY DEF OntoStores, OntoServer
<1>2. ASSUME entTypes' = entTypes, relTypes' = relTypes, created' = created PROVE OntoServer'
  BY <1>1, <1>2 DEF OntoServer, EndsExist
<1>3. ASSUME NEW c \in typeCalls,
             ListArrives(c) \/ CallFails(c) \/ DeletedArrives(c) \/ SavedArrives(c) \/ RefusedArrives(c)
      PROVE  OntoServer' /\ \A x \in typeCalls' : GoodCall(x)
  <2>1. /\ typeCalls' \subseteq typeCalls /\ entTypes' = entTypes /\ relTypes' = relTypes
        /\ created' = created
    BY <1>3 DEF ListArrives, CallFails, DeletedArrives, SavedArrives, RefusedArrives
  <2>. QED  BY <1>1, <1>2, <2>1
<1>4. ASSUME NEW c \in typeCalls, ServeTab(c)
      PROVE  OntoServer' /\ \A x \in typeCalls' : GoodCall(x)
  <2>. DEFINE l == IF c.kind = "relationships" THEN SetToSeq(relTypes) ELSE SetToSeq(entTypes)
              a == [op |-> "list", kind |-> c.kind, tag |-> c.tag, items |-> l]
  <2>1. GoodList(l)
    BY <1>1, GoodServed DEF OntoInv, Numbered
  <2>2. typeCalls' = (typeCalls \ {c}) \cup {a} /\ entTypes' = entTypes /\ relTypes' = relTypes
        /\ created' = created
    BY <1>4 DEF ServeTab, AnswerCall
  <2>3. GoodCall(a)
    BY <2>1 DEF GoodCall
  <2>. HIDE DEF a
  <2>. QED  BY <1>1, <1>2, <2>2, <2>3
<1>5. ASSUME NEW c \in typeCalls, RefuseSave(c)
      PROVE  OntoServer' /\ \A x \in typeCalls' : GoodCall(x)
  <2>1. \A x \in typeCalls' : x \in typeCalls \/ x.op = "refused"
    BY <1>5 DEF RefuseSave, AnswerCall
  <2>. QED  BY <1>1, <1>2, <1>5, <2>1 DEF RefuseSave, GoodCall
<1>6. ASSUME NEW c \in typeCalls, ServeDeleteType(c)
      PROVE  OntoServer' /\ \A x \in typeCalls' : GoodCall(x)
  <2>1. \A x \in typeCalls' : x \in typeCalls \/ x.op = "deleted"
    BY <1>6 DEF ServeDeleteType, AnswerCall
  <2>2. created' = created /\ entTypes' \subseteq entTypes /\ relTypes' \subseteq relTypes
    BY <1>6 DEF ServeDeleteType
  <2>3. EndsExist'
    <3>1. CASE c.kind = "entities"
      <4>1. /\ entTypes' = {t \in entTypes : t.id # c.id}
            /\ relTypes' = {r \in relTypes : c.id \notin {r.src, r.tgt}}
        BY <1>6, <3>1 DEF ServeDeleteType
      <4>. QED  BY <1>1, <4>1 DEF OntoServer, EndsExist
    <3>2. CASE c.kind # "entities"
      BY <1>1, <1>6, <3>2 DEF ServeDeleteType, OntoServer, EndsExist
    <3>. QED  BY <3>1, <3>2
  <2>. QED  BY <1>1, <2>1, <2>2, <2>3 DEF OntoServer, GoodCall
<1>7. ASSUME NEW t, ChangeTab(t)
      PROVE  OntoServer' /\ \A x \in typeCalls' : GoodCall(x)
  <2>1. \A x \in typeCalls' : x \in typeCalls \/ x.op = "load"
    BY <1>7 DEF ChangeTab, LoadTab
  <2>. QED  BY <1>1, <1>2, <1>7, <2>1 DEF ChangeTab, GoodCall
<1>8. ASSUME NEW k, NEW id, DeleteType(k, id)
      PROVE  OntoServer' /\ \A x \in typeCalls' : GoodCall(x)
  <2>1. \A x \in typeCalls' : x \in typeCalls \/ x.op = "delete"
    BY <1>8 DEF DeleteType
  <2>. QED  BY <1>1, <1>2, <1>8, <2>1 DEF DeleteType, GoodCall
<1>9. ASSUME NEW id, OpenEntity(id) \/ OpenRel(id)
      PROVE  OntoServer' /\ \A x \in typeCalls' : GoodCall(x)
  <2>1. \A x \in typeCalls' : x \in typeCalls \/ x.op = "load"
    BY <1>9 DEF OpenEntity, OpenRel, LoadTab
  <2>. QED  BY <1>1, <1>2, <1>9, <2>1 DEF OpenEntity, OpenRel, GoodCall
<1>10. ASSUME CloseEntity \/ CloseRel
       PROVE  OntoServer' /\ \A x \in typeCalls' : GoodCall(x)
  BY <1>1, <1>2, <1>10 DEF CloseEntity, CloseRel
<1>11. ASSUME NEW n \in TypeNames, SaveEntity(n)
       PROVE  OntoServer' /\ \A x \in typeCalls' : GoodCall(x)
  <2>. DEFINE c == [op |-> "save", kind |-> "entities", inst |-> entEditor.inst,
                    id |-> entEditor.id, name |-> n]
  <2>1. entEditor.id \in {0} \cup TypeIds
    BY DEF OntoStores, OntoEditors, EntEditors
  <2>2. GoodCall(c)
    BY <2>1 DEF GoodCall
  <2>3. typeCalls' = typeCalls \cup {c}
    BY <1>11 DEF SaveEntity
  <2>. HIDE DEF c
  <2>. QED  BY <1>1, <1>2, <1>11, <2>2, <2>3 DEF SaveEntity
<1>12. ASSUME NEW n \in TypeNames, NEW s, NEW t, SaveRel(n, s, t)
       PROVE  OntoServer' /\ \A x \in typeCalls' : GoodCall(x)
  <2>. DEFINE c == [op |-> "save", kind |-> "relationships", inst |-> relEditor.inst,
                    id |-> relEditor.id, name |-> n, src |-> s, tgt |-> t]
  <2>1. relEditor.id \in {0} \cup TypeIds
    BY DEF OntoStores, OntoEditors, RelEditors
  <2>2. GoodCall(c)
    BY <2>1 DEF GoodCall
  <2>3. typeCalls' = typeCalls \cup {c}
    BY <1>12 DEF SaveRel
  <2>. HIDE DEF c
  <2>. QED  BY <1>1, <1>2, <1>12, <2>2, <2>3 DEF SaveRel
<1>. QED  BY <1>3, <1>4, <1>5, <1>6, <1>7, <1>8, <1>9, <1>10, <1>11, <1>12, OntoSaved
          DEF OntologyNext, CallStep

LEMMA OntologyStoresHolds == OntologySpec => []OntoStores
<1>1. OntologyInit => OntoStores
  <2>. SUFFICES ASSUME OntologyInit PROVE OntoStores
    OBVIOUS
  <2>1. /\ onto = [tab |-> "entities", loading |-> TRUE, entities |-> <<>>, rels |-> <<>>]
        /\ entTypes = {} /\ relTypes = {} /\ created = 0 /\ acts = 0
        /\ entEditor = NoEntEditor /\ relEditor = NoRelEditor
        /\ typeCalls = {[op |-> "load", kind |-> "entities", tag |-> 0]}
    BY DEF OntologyInit
  <2>2. GoodList(<<>>)
    <3>1. PICK T : T = {}
      OBVIOUS
    <3>2. <<>> \in Seq(T) /\ \A t \in T : GoodType(t)
      BY <3>1
    <3>. QED  BY <3>2 DEF GoodList
  <2>3. OntoPage(onto)
    BY <2>1, <2>2 DEF OntoPage, Tabs
  <2>4. OntoEditors
    BY <2>1, OntologyAssumption
       DEF OntoEditors, NoEntEditor, NoRelEditor, EntEditors, RelEditors
  <2>5. OntoServer
    BY <2>1, OntologyAssumption DEF OntoServer, EndsExist
  <2>6. \A c \in typeCalls : GoodCall(c)
    BY <2>1 DEF GoodCall
  <2>. QED  BY <2>3, <2>4, <2>5, <2>6 DEF OntoStores
<1>2. OntoInv /\ OntoStores /\ [OntologyNext]_ontoVars => OntoStores'
  <2>. SUFFICES ASSUME OntoInv, OntoStores, [OntologyNext]_ontoVars PROVE OntoStores'
    OBVIOUS
  <2>1. CASE UNCHANGED ontoVars
    BY <2>1 DEF ontoVars, OntoStores, OntoPage, OntoEditors, OntoServer, EndsExist
  <2>2. CASE OntologyNext
    <3>1. OntoPage(onto') /\ OntoEditors' /\ OntoServer' /\ \A c \in typeCalls' : GoodCall(c)
      BY <2>2, OntoPageSteps, OntoEditorsSteps, OntoServerSteps
    <3>. QED  BY <3>1 DEF OntoStores, OntoPage, GoodCall, GoodList, GoodType
  <2>. QED  BY <2>1, <2>2
<1>. QED  BY <1>1, <1>2, OntologyHolds, PTL DEF OntologySpec

(* ---------------------------- the upload wizard ------------------------- *)
WizardInv ==
  /\ wizard = [open |-> wizard.open, inst |-> wizard.inst, step |-> wizard.step,
               file |-> wizard.file, parsed |-> wizard.parsed, active |-> wizard.active,
               target |-> wizard.target, known |-> wizard.known, ingesting |-> wizard.ingesting,
               finished |-> wizard.finished, failed |-> wizard.failed]
  /\ wizard.active \subseteq FileColumns
  /\ preview \in [page : Nat, term : BOOLEAN] /\ PageExists

\* There is a page, however many rows the search and the columns leave.
LEMMA PagesOfRows ==
  ASSUME NEW active, active \subseteq FileColumns, NEW term \in BOOLEAN
  PROVE  /\ PreviewPages(Cardinality(Filtered(active, term))) \in Nat
         /\ PreviewPages(Cardinality(Filtered(active, term))) >= 1
<1>. DEFINE rows == Filtered(active, term)
            n == Cardinality(rows)
            last == (n + itemsPerPage - 1) \div itemsPerPage
<1>1. RowCount \in Nat /\ itemsPerPage \in Nat \ {0} /\ Matches \in [FileColumns -> SUBSET (1..RowCount)]
  BY WizardAssumption DEF WizardAssumption
<1>2. rows \subseteq 1..RowCount
  BY <1>1 DEF Filtered
<1>3. n \in Nat
  <2>1. IsFiniteSet(1..RowCount)
    BY <1>1, FS_Interval
  <2>. QED  BY <1>2, <2>1, FS_Subset, FS_CardinalityType
<1>. HIDE DEF n, rows
<1>4. last \in Nat
  <2>1. PICK c \in Nat : c = n
    BY <1>3
  <2>2. PICK i \in Nat \ {0} : i = itemsPerPage
    BY <1>1
  <2>3. (c + i - 1) \div i \in Nat
    <3>1. c + i - 1 \in Nat
      BY <2>1, <2>2
    <3>2. \A x \in Nat, y \in Nat \ {0} : x \div y \in Nat
      OBVIOUS
    <3>. QED  BY <2>2, <3>1, <3>2
  <2>. QED  BY <2>1, <2>2, <2>3
<1>. HIDE DEF last
<1>5. \E x \in {1, last} : \A y \in {1, last} : x >= y
  BY <1>4
<1>6. PreviewPages(n) \in {1, last} /\ PreviewPages(n) >= 1
  BY <1>5 DEF PreviewPages, Max, last
<1>. QED  BY <1>4, <1>6 DEF n, rows

LEMMA ClampedDown ==
  ASSUME NEW p \in [page : Nat, term : BOOLEAN], NEW active, active \subseteq FileColumns
  PROVE  /\ Clamped(p, active) \in [page : Nat, term : BOOLEAN]
         /\ Clamped(p, active).page
              <= PreviewPages(Cardinality(Filtered(active, Clamped(p, active).term)))
<1>. DEFINE n == PreviewPages(Cardinality(Filtered(active, p.term)))
<1>1. n \in Nat /\ p.page \in Nat
  BY PagesOfRows
<1>. HIDE DEF n
<1>2. \E x \in {p.page, n} : \A y \in {p.page, n} : x <= y
  BY <1>1
<1>3. Min({p.page, n}) \in {p.page, n} /\ Min({p.page, n}) <= n
  BY <1>2 DEF Min
<1>4. Clamped(p, active) = [p EXCEPT !.page = Min({p.page, n})]
  BY DEF Clamped, n
<1>5. /\ Clamped(p, active) \in [page : Nat, term : BOOLEAN]
      /\ Clamped(p, active).page = Min({p.page, n}) /\ Clamped(p, active).term = p.term
  BY <1>1, <1>3, <1>4
<1>. QED  BY <1>3, <1>5 DEF n

\* The first page is there.
LEMMA FirstPageExists ==
  ASSUME wizard'.active \subseteq FileColumns, preview' = FirstPage
  PROVE  preview' \in [page : Nat, term : BOOLEAN] /\ PageExists'
<1>1. PreviewPages(Cardinality(Filtered(wizard'.active, FALSE))) >= 1
  BY PagesOfRows
<1>2. preview'.page = 1 /\ preview'.term = FALSE
  BY DEF FirstPage
<1>3. PageExists'
  BY <1>1, <1>2 DEF PageExists
<1>. QED  BY <1>3 DEF FirstPage

LEMMA WizardSteps == ASSUME WizardInv, WizardNext PROVE WizardInv'
<1>. DEFINE Whole(w) ==
       w = [open |-> w.open, inst |-> w.inst, step |-> w.step,
            file |-> w.file, parsed |-> w.parsed, active |-> w.active,
            target |-> w.target, known |-> w.known, ingesting |-> w.ingesting,
            finished |-> w.finished, failed |-> w.failed]
<1>1. Whole(wizard) /\ wizard.active \subseteq FileColumns
  BY DEF WizardInv
<1>2. \A i : Whole(Fresh(i)) /\ Fresh(i).active = {} /\ Whole([Fresh(i) EXCEPT !.open = FALSE])
             /\ [Fresh(i) EXCEPT !.open = FALSE].active = {}
  <2>. SUFFICES ASSUME NEW i
                PROVE  /\ Whole(Fresh(i)) /\ Fresh(i).active = {}
                       /\ Whole([Fresh(i) EXCEPT !.open = FALSE])
                       /\ [Fresh(i) EXCEPT !.open = FALSE].active = {}
    OBVIOUS
  <2>1. Whole(Fresh(i)) /\ Fresh(i).active = {}
    BY DEF Fresh
  <2>. DEFINE w == [Fresh(i) EXCEPT !.open = FALSE]
  <2>2. w \in
          [open : {FALSE}, inst : {i}, step : {1}, file : {NoFile}, parsed : {NoFile},
           active : {{}}, target : {NoTarget}, known : {{}}, ingesting : {FALSE},
           finished : {FALSE}, failed : {FALSE}]
    BY DEF Fresh
  <2>. HIDE DEF w
  <2>3. Whole(w) /\ w.active = {}
    BY <2>2
  <2>. QED  BY <2>1, <2>3 DEF w
<1>3. CASE OpenWizard \/ CloseWizard
  <2>1. Whole(wizard') /\ wizard'.active = {} /\ preview' = FirstPage
    BY <1>2, <1>3 DEF OpenWizard, CloseWizard
  <2>. QED  BY <2>1, FirstPageExists DEF WizardInv
<1>4. ASSUME NEW f, FileRead(f) PROVE WizardInv'
  <2>1. Whole(wizard') /\ wizard'.active = FileColumns /\ preview' = FirstPage
    BY <1>1, <1>4 DEF FileRead
  <2>. QED  BY <2>1, FirstPageExists DEF WizardInv
<1>5. ASSUME NEW n, Step(n) PROVE WizardInv'
  <2>1. Whole(wizard') /\ wizard'.active = wizard.active /\ preview' = FirstPage
    BY <1>1, <1>5 DEF Step
  <2>. QED  BY <1>1, <2>1, FirstPageExists DEF WizardInv
\* What leaves the preview, the step and the columns as they are.
<1>6. ASSUME preview' = preview, Whole(wizard'), wizard'.step = wizard.step,
             wizard'.active = wizard.active
      PROVE  WizardInv'
  BY <1>6 DEF WizardInv, PageExists
<1>7. ASSUME NEW c \in FileColumns, ToggleColumn(c) PROVE WizardInv'
  <2>. DEFINE now == (wizard.active \ {c}) \cup ({c} \ wizard.active)
  <2>1. /\ Whole(wizard') /\ wizard'.active = now /\ wizard'.step = wizard.step
        /\ preview' = (IF wizard.step = 3 THEN Clamped(preview, now) ELSE preview)
    BY <1>1, <1>7 DEF ToggleColumn
  <2>2. now \subseteq FileColumns
    BY <1>1
  <2>. HIDE DEF now
  <2>3. CASE wizard.step = 3
    BY <2>1, <2>2, <2>3, ClampedDown DEF WizardInv, PageExists
  <2>4. CASE wizard.step # 3
    BY <2>1, <2>2, <2>4 DEF WizardInv, PageExists
  <2>. QED  BY <2>3, <2>4
<1>8. CASE Search
  <2>1. wizard' = wizard /\ preview' = Clamped([preview EXCEPT !.term = ~preview.term], wizard.active)
    BY <1>8 DEF Search
  <2>2. [preview EXCEPT !.term = ~preview.term] \in [page : Nat, term : BOOLEAN]
    BY DEF WizardInv
  <2>. QED  BY <1>1, <2>1, <2>2, ClampedDown DEF WizardInv, PageExists
<1>9. CASE TurnPage
  <2>. DEFINE last == PreviewPages(Cardinality(Filtered(wizard.active, preview.term)))
  <2>1. PICK p \in 1..last : preview' = [preview EXCEPT !.page = p] /\ wizard' = wizard
    BY <1>9 DEF TurnPage
  <2>2. last \in Nat
    BY <1>1, PagesOfRows DEF WizardInv
  <2>3. preview' \in [page : Nat, term : BOOLEAN] /\ preview'.page = p /\ preview'.term = preview.term
    BY <2>1, <2>2 DEF WizardInv
  <2>4. PageExists'
    BY <2>1, <2>2, <2>3 DEF PageExists
  <2>. QED  BY <1>1, <2>1, <2>3, <2>4 DEF WizardInv
<1>10. ASSUME NEW t, ChangePrimary(t) PROVE WizardInv'
  BY <1>1, <1>6, <1>10 DEF ChangePrimary
<1>11. ASSUME NEW c, NEW t, UpdateMapping(c, t) PROVE WizardInv'
  BY <1>1, <1>6, <1>11 DEF UpdateMapping
<1>12. ASSUME NEW f, HandleFile(f) \/ FileRefused(f) PROVE WizardInv'
  BY <1>1, <1>6, <1>12 DEF HandleFile, FileRefused
<1>13. CASE OntologyArrives \/ StartIngestion
  BY <1>1, <1>6, <1>13 DEF OntologyArrives, StartIngestion
<1>14. ASSUME NEW a, Ingest(a) PROVE WizardInv'
  <2>1. preview' = preview
    BY <1>14 DEF Ingest, RegisterTypes, RegisterConnection, Upload, SaveAndFinish
  <2>2. GiveUp(a) => Whole(wizard') /\ wizard'.step = wizard.step /\ wizard'.active = wizard.active
    BY <1>1 DEF GiveUp
  <2>3. Whole(wizard') /\ wizard'.step = wizard.step /\ wizard'.active = wizard.active
    <3>1. CASE SaveAndFinish(a)
      BY <1>1, <3>1 DEF SaveAndFinish
    <3>2. CASE wizard' = wizard \/ GiveUp(a)
      BY <1>1, <2>2, <3>2
    <3>. HIDE DEF Whole
    <3>. QED  BY <1>14, <3>1, <3>2 DEF Ingest, RegisterTypes, RegisterConnection, Upload
  <2>. QED  BY <1>6, <2>1, <2>3
<1>. QED  BY <1>3, <1>4, <1>5, <1>7, <1>8, <1>9, <1>10, <1>11, <1>12, <1>13, <1>14
          DEF WizardNext, NextStep, PreviousStep

LEMMA WizardHolds == WizardSpec => []WizardInv
<1>1. WizardInit => WizardInv
  <2>. SUFFICES ASSUME WizardInit PROVE WizardInv
    OBVIOUS
  <2>1. wizard = Fresh(0) /\ preview = FirstPage
    BY DEF WizardInit
  <2>2. wizard.step = 1 /\ wizard.active = {}
    BY <2>1 DEF Fresh
  <2>3. preview \in [page : Nat, term : BOOLEAN] /\ PageExists
    <3>1. preview \in [page : Nat, term : BOOLEAN]
      BY <2>1 DEF FirstPage
    <3>2. wizard.step # 3
      BY <2>2
    <3>. QED  BY <3>1, <3>2 DEF PageExists
  <2>. QED  BY <2>1, <2>3 DEF WizardInv, Fresh
<1>2. WizardInv /\ [WizardNext]_wizardVars => WizardInv'
  <2>. SUFFICES ASSUME WizardInv, [WizardNext]_wizardVars PROVE WizardInv'
    OBVIOUS
  <2>1. CASE UNCHANGED wizardVars
    BY <2>1 DEF wizardVars, WizardInv, PageExists
  <2>. QED  BY <2>1, WizardSteps
<1>. QED  BY <1>1, <1>2, PTL DEF WizardSpec

(* The ingestions of the wizards.  What each of them has stored and mapped,  *)
(* what the browser remembers, and those that the open wizard waits for.    *)
AnyTarget == TargetTypes \cup {"none"}
AnyFile == Files \cup {NoFile}

WizardType ==
  [open : BOOLEAN, inst : Nat, step : 1..4, file : AnyFile, parsed : AnyFile,
   active : SUBSET FileColumns, target : [FileColumns -> AnyTarget], known : SUBSET AnyTarget,
   ingesting : BOOLEAN, finished : BOOLEAN, failed : BOOLEAN]

AttemptType ==
  [pc : {"types", "register", "upload", "again", "save", "done", "failed"}, inst : Nat,
   file : AnyFile, active : SUBSET FileColumns, target : [FileColumns -> AnyTarget],
   todo : SUBSET AnyTarget, troubled : BOOLEAN, conn : Nat]

Needed(r) == {r.target[c] : c \in r.active}

AttemptStored(r, s) ==
  /\ r.pc \in {"upload", "again", "save", "done"} => r.conn \in 1..Len(s) /\ s[r.conn].file = r.file
  /\ r.pc \in {"save", "done"} => s[r.conn].there

AttemptMapped(r, o) ==
  /\ r.pc = "types" => Needed(r) \ r.todo \subseteq o
  /\ r.pc # "types" /\ ~r.troubled => Needed(r) \subseteq o

\* The ingestions under way that a wizard started, and what it shows of them.
LiveOf(w, s) == {a \in 1..Len(s) : s[a].pc \notin {"done", "failed"} /\ s[a].inst = w.inst}

WaitsForOne(w, s) ==
  w.open => \/ w.ingesting /\ \E a \in 1..Len(s) : LiveOf(w, s) = {a}
            \/ ~w.ingesting /\ LiveOf(w, s) = {}

StoredType == [file : AnyFile, there : BOOLEAN]
RememberedType == [conn : Nat, file : AnyFile]

IngestInv ==
  /\ wizard \in WizardType /\ readers \subseteq Files
  /\ ontology \subseteq AnyTarget /\ wizard.known \subseteq ontology
  /\ attempts \in Seq(AttemptType) /\ stored \in Seq(StoredType)
  /\ rememberedFiles \in Seq(RememberedType)
  /\ \A a \in 1..Len(attempts) : /\ attempts[a].inst <= wizard.inst
                                 /\ AttemptStored(attempts[a], stored)
                                 /\ AttemptMapped(attempts[a], ontology)
  /\ WaitsForOne(wizard, attempts)
  /\ \A i \in 1..Len(rememberedFiles) :
       rememberedFiles[i].conn \in 1..Len(stored) /\ stored[rememberedFiles[i].conn].there
  /\ RememberedOnce

LEMMA Prepended ==
  ASSUME NEW T, NEW x \in T, NEW l \in Seq(T), NEW f, f = <<x>> \o l
  PROVE  /\ f \in Seq(T) /\ Len(f) = Len(l) + 1 /\ Len(l) \in Nat
         /\ \A i \in 1..Len(f) :
              \/ i = 1 /\ f[i] = x
              \/ i # 1 /\ i - 1 \in 1..Len(l) /\ f[i] = l[i - 1]
<1>1. PICK g : g = <<x>>
  OBVIOUS
<1>2. g \in Seq(T) /\ Len(g) = 1 /\ g[1] = x
  BY <1>1
<1>3. /\ g \o l \in Seq(T) /\ Len(g \o l) = Len(g) + Len(l)
      /\ \A i \in 1..(Len(g) + Len(l)) : (g \o l)[i] = IF i <= Len(g) THEN g[i] ELSE l[i - Len(g)]
  BY <1>2, ConcatProperties
<1>4. f = g \o l /\ Len(l) \in Nat
  BY <1>1
<1>. QED  BY <1>2, <1>3, <1>4

LEMMA IngestsOnce ==
  ASSUME IngestInv
  PROVE  IngestingIsOne /\ RememberedOnce
<1>1. ASSUME wizard.open
      PROVE  Cardinality({a \in LiveAttempt : Mine(a)}) = (IF wizard.ingesting THEN 1 ELSE 0)
  <2>1. {a \in LiveAttempt : Mine(a)} = LiveOf(wizard, attempts)
    BY <1>1 DEF LiveAttempt, Mine, LiveOf
  <2>2. CASE wizard.ingesting
    BY <1>1, <2>1, <2>2, FS_Singleton DEF IngestInv, WaitsForOne
  <2>3. CASE ~wizard.ingesting
    BY <1>1, <2>1, <2>3, FS_EmptySet DEF IngestInv, WaitsForOne
  <2>. QED  BY <2>2, <2>3
<1>. QED  BY <1>1 DEF IngestInv, IngestingIsOne

LEMMA IngestsStored ==
  ASSUME IngestInv
  PROVE  FinishedIsStored /\ MappedTypesExist
<1>1. ASSUME NEW a \in 1..Len(attempts), attempts[a].pc = "done"
      PROVE  stored[attempts[a].conn] = [file |-> attempts[a].file, there |-> TRUE]
  <2>1. /\ attempts[a].conn \in 1..Len(stored) /\ stored[attempts[a].conn].file = attempts[a].file
        /\ stored[attempts[a].conn].there
    BY <1>1 DEF IngestInv, AttemptStored
  <2>2. stored[attempts[a].conn] \in StoredType
    BY <2>1 DEF IngestInv
  <2>. QED  BY <2>1, <2>2 DEF StoredType
<1>2. \A i \in 1..Len(rememberedFiles) : stored[rememberedFiles[i].conn].there
  BY DEF IngestInv
<1>3. ASSUME NEW a \in 1..Len(attempts), attempts[a].pc \in {"save", "done"}, ~attempts[a].troubled
      PROVE  \A c \in DOMAIN Saves(a) : Saves(a)[c] \in ontology
  <2>1. Needed(attempts[a]) \subseteq ontology
    BY <1>3 DEF IngestInv, AttemptMapped
  <2>. QED  BY <2>1 DEF Saves, Needed
<1>. QED  BY <1>1, <1>2, <1>3 DEF FinishedIsStored, MappedTypesExist

\* A step of the wizard that leaves the ingestions alone.
LEMMA IngestStays ==
  ASSUME IngestInv, wizard' \in WizardType, wizard'.inst = wizard.inst,
         wizard'.open => wizard.open /\ (wizard'.ingesting <=> wizard.ingesting),
         wizard'.known \subseteq ontology, readers' \subseteq Files,
         UNCHANGED <<attempts, ontology, stored, rememberedFiles>>
  PROVE  IngestInv'
<1>1. LiveOf(wizard', attempts) = LiveOf(wizard, attempts)
  BY DEF LiveOf
<1>2. WaitsForOne(wizard', attempts)
  BY <1>1 DEF IngestInv, WaitsForOne
<1>3. RememberedOnce'
  BY DEF IngestInv, RememberedOnce
<1>. QED  BY <1>2, <1>3 DEF IngestInv

LEMMA WizardOpens == ASSUME IngestInv, OpenWizard PROVE IngestInv'
<1>1. /\ wizard' = Fresh(wizard.inst + 1)
      /\ UNCHANGED <<readers, attempts, ontology, stored, rememberedFiles>>
  BY DEF OpenWizard
<1>2. wizard.inst \in Nat
  BY DEF IngestInv, WizardType
<1>3. wizard' \in WizardType /\ wizard'.inst = wizard.inst + 1 /\ wizard'.known = {} /\ ~wizard'.ingesting
  BY <1>1, <1>2 DEF Fresh, WizardType, NoTarget, AnyTarget, AnyFile, NoFile
<1>4. \A a \in 1..Len(attempts) : attempts[a].inst \in Nat /\ attempts[a].inst <= wizard.inst
  <2>1. \A a \in 1..Len(attempts) : attempts[a] \in AttemptType /\ attempts[a].inst <= wizard.inst
    BY DEF IngestInv
  <2>. QED  BY <2>1 DEF AttemptType
<1>5. \A a \in 1..Len(attempts) : attempts[a].inst <= wizard'.inst /\ attempts[a].inst # wizard'.inst
  BY <1>2, <1>3, <1>4
<1>6. LiveOf(wizard', attempts) = {}
  BY <1>5 DEF LiveOf
<1>7. WaitsForOne(wizard', attempts)
  BY <1>3, <1>6 DEF WaitsForOne
<1>8. RememberedOnce'
  BY <1>1 DEF IngestInv, RememberedOnce
<1>. QED  BY <1>1, <1>3, <1>5, <1>7, <1>8 DEF IngestInv

LEMMA IngestionStarts == ASSUME IngestInv, StartIngestion PROVE IngestInv'
<1>. DEFINE r == [pc |-> "types", inst |-> wizard.inst, file |-> wizard.file,
                  active |-> wizard.active, target |-> wizard.target,
                  todo |-> UsedTypes \ wizard.known, troubled |-> FALSE, conn |-> 0]
            n == Len(attempts)
<1>1. /\ wizard.open /\ ~wizard.ingesting /\ attempts' = Append(attempts, r)
      /\ wizard' = [wizard EXCEPT !.ingesting = TRUE, !.finished = FALSE, !.failed = FALSE]
      /\ UNCHANGED <<readers, ontology, stored, rememberedFiles>>
  BY DEF StartIngestion, MayStart
<1>2. wizard \in WizardType /\ attempts \in Seq(AttemptType)
  BY DEF IngestInv
<1>3. wizard' \in WizardType /\ wizard'.inst = wizard.inst /\ wizard'.open /\ wizard'.ingesting
      /\ wizard'.known = wizard.known
  BY <1>1, <1>2 DEF WizardType
<1>4. UsedTypes \subseteq AnyTarget
  BY <1>2 DEF UsedTypes, WizardType
<1>5. r \in AttemptType /\ r.inst = wizard.inst /\ r.pc = "types" /\ Needed(r) = UsedTypes
      /\ r.todo = UsedTypes \ wizard.known
  BY <1>2, <1>4 DEF AttemptType, WizardType, Needed, UsedTypes
<1>6. AttemptStored(r, stored) /\ AttemptMapped(r, ontology)
  BY <1>5 DEF AttemptStored, AttemptMapped, IngestInv
<1>. HIDE DEF r
<1>7. /\ attempts' \in Seq(AttemptType) /\ Len(attempts') = n + 1 /\ n \in Nat
      /\ attempts'[n + 1] = r /\ \A a \in 1..n : attempts'[a] = attempts[a]
  BY <1>1, <1>2, <1>5, AppendProperties
<1>. HIDE DEF n
<1>8. LiveOf(wizard, attempts) = {}
  BY <1>1 DEF IngestInv, WaitsForOne
<1>9. LiveOf(wizard', attempts') = {n + 1}
  <2>1. \A a \in 1..n : ~(attempts[a].pc \notin {"done", "failed"} /\ attempts[a].inst = wizard.inst)
    BY <1>8 DEF LiveOf, n
  <2>2. \A a \in 1..(n + 1) : a = n + 1 \/ a \in 1..n
    BY <1>7
  <2>. QED  BY <1>3, <1>5, <1>7, <2>1, <2>2 DEF LiveOf
<1>10. WaitsForOne(wizard', attempts')
  BY <1>3, <1>7, <1>9 DEF WaitsForOne
<1>11. ASSUME NEW a \in 1..Len(attempts')
       PROVE  /\ attempts'[a].inst <= wizard'.inst /\ AttemptStored(attempts'[a], stored)
              /\ AttemptMapped(attempts'[a], ontology)
  <2>1. CASE a = n + 1
    BY <1>2, <1>3, <1>5, <1>6, <1>7, <2>1 DEF WizardType
  <2>2. CASE a \in 1..n
    BY <1>3, <1>7, <2>2 DEF IngestInv, n
  <2>. QED  BY <1>7, <2>1, <2>2
<1>12. RememberedOnce'
  BY <1>1 DEF IngestInv, RememberedOnce
<1>. QED  BY <1>1, <1>3, <1>7, <1>10, <1>11, <1>12 DEF IngestInv

\* One ingestion goes on or ends.
LEMMA LivesOn ==
  ASSUME attempts \in Seq(AttemptType), NEW a \in 1..Len(attempts), NEW r \in AttemptType,
         NEW s, s = [attempts EXCEPT ![a] = r]
  PROVE  /\ s \in Seq(AttemptType) /\ Len(s) = Len(attempts)
         /\ s[a] = r /\ \A b \in 1..Len(attempts) : b # a => s[b] = attempts[b]
OBVIOUS

LEMMA LiveAfter ==
  ASSUME attempts \in Seq(AttemptType), NEW a \in 1..Len(attempts), NEW r \in AttemptType,
         NEW s, s = [attempts EXCEPT ![a] = r], r.inst = attempts[a].inst,
         attempts[a].pc \notin {"done", "failed"}, NEW w
  PROVE  /\ LiveOf(w, s) \subseteq 1..Len(attempts) /\ LiveOf(w, attempts) \subseteq 1..Len(attempts)
         /\ \A b \in 1..Len(attempts) :
              b \in LiveOf(w, s) <=> b \in LiveOf(w, attempts) /\ (b = a => r.pc \notin {"done", "failed"})
<1>1. /\ Len(s) = Len(attempts) /\ s[a] = r
      /\ \A b \in 1..Len(attempts) : b # a => s[b] = attempts[b]
  BY LivesOn
<1>2. ASSUME NEW b \in 1..Len(attempts)
      PROVE  b \in LiveOf(w, s) <=> b \in LiveOf(w, attempts) /\ (b = a => r.pc \notin {"done", "failed"})
  <2>1. CASE b = a
    BY <1>1, <2>1 DEF LiveOf
  <2>2. CASE b # a
    BY <1>1, <2>2 DEF LiveOf
  <2>. QED  BY <2>1, <2>2
<1>. QED  BY <1>1, <1>2 DEF LiveOf

LEMMA LiveLeft ==
  ASSUME attempts \in Seq(AttemptType), NEW a \in 1..Len(attempts), NEW r \in AttemptType,
         attempts' = [attempts EXCEPT ![a] = r], r.inst = attempts[a].inst,
         attempts[a].pc \notin {"done", "failed"}, r.pc \in {"done", "failed"}
  PROVE  /\ LiveOf(wizard, attempts') = LiveOf(wizard, attempts) \ {a}
         /\ Len(attempts') = Len(attempts)
<1>1. PICK s : s = attempts' /\ s = [attempts EXCEPT ![a] = r]
  OBVIOUS
<1>2. /\ LiveOf(wizard, s) \subseteq 1..Len(attempts)
      /\ LiveOf(wizard, attempts) \subseteq 1..Len(attempts)
      /\ \A b \in 1..Len(attempts) :
           b \in LiveOf(wizard, s)
             <=> b \in LiveOf(wizard, attempts) /\ (b = a => r.pc \notin {"done", "failed"})
  BY <1>1, LiveAfter
<1>3. Len(s) = Len(attempts)
  BY <1>1, LivesOn
<1>. QED  BY <1>1, <1>2, <1>3

LEMMA LiveKept ==
  ASSUME attempts \in Seq(AttemptType), NEW a \in 1..Len(attempts), NEW r \in AttemptType,
         NEW s, s = [attempts EXCEPT ![a] = r], r.inst = attempts[a].inst,
         attempts[a].pc \notin {"done", "failed"}, NEW w, r.pc \notin {"done", "failed"}
  PROVE  LiveOf(w, s) = LiveOf(w, attempts)
<1>1. /\ LiveOf(w, s) \subseteq 1..Len(attempts) /\ LiveOf(w, attempts) \subseteq 1..Len(attempts)
      /\ \A b \in 1..Len(attempts) :
           b \in LiveOf(w, s) <=> b \in LiveOf(w, attempts) /\ (b = a => r.pc \notin {"done", "failed"})
  BY LiveAfter
<1>. QED  BY <1>1

\* What the wizard that started an ingestion does when it ends.
LEMMA WaitEnds ==
  ASSUME IngestInv, NEW a \in LiveAttempt, NEW r \in AttemptType,
         r.inst = attempts[a].inst, r.pc \in {"done", "failed"},
         attempts' = [attempts EXCEPT ![a] = r], wizard'.inst = wizard.inst, wizard'.open = wizard.open,
         wizard'.ingesting <=> (wizard.ingesting /\ ~Mine(a))
  PROVE  WaitsForOne(wizard', attempts')
<1>1. a \in 1..Len(attempts) /\ attempts[a].pc \notin {"done", "failed"} /\ attempts \in Seq(AttemptType)
  BY DEF LiveAttempt, IngestInv
<1>2. /\ LiveOf(wizard, attempts') = LiveOf(wizard, attempts) \ {a}
      /\ Len(attempts') = Len(attempts)
  BY <1>1, LiveLeft
<1>3. LiveOf(wizard', attempts') = LiveOf(wizard, attempts')
  BY DEF LiveOf
<1>4. CASE Mine(a)
  <2>1. a \in LiveOf(wizard, attempts)
    BY <1>1, <1>4 DEF LiveOf, Mine
  <2>2. LiveOf(wizard, attempts) = {a}
    BY <1>4, <2>1 DEF IngestInv, WaitsForOne, Mine
  <2>3. LiveOf(wizard', attempts') = {} /\ ~wizard'.ingesting
    BY <1>2, <1>3, <1>4, <2>2
  <2>. QED  BY <2>3 DEF WaitsForOne
<1>5. CASE ~Mine(a) /\ wizard.open
  <2>1. a \notin LiveOf(wizard, attempts)
    BY <1>5 DEF LiveOf, Mine
  <2>2. LiveOf(wizard', attempts') = LiveOf(wizard, attempts)
    BY <1>2, <1>3, <2>1
  <2>3. wizard'.ingesting <=> wizard.ingesting
    BY <1>5
  <2>. QED  BY <1>2, <1>5, <2>2, <2>3 DEF IngestInv, WaitsForOne
<1>6. CASE ~wizard.open
  BY <1>6 DEF WaitsForOne
<1>. QED  BY <1>4, <1>5, <1>6

LEMMA WaitGoesOn ==
  ASSUME IngestInv, NEW a \in LiveAttempt, NEW r \in AttemptType,
         r.inst = attempts[a].inst, r.pc \notin {"done", "failed"},
         attempts' = [attempts EXCEPT ![a] = r], wizard' = wizard
  PROVE  WaitsForOne(wizard', attempts')
<1>1. a \in 1..Len(attempts) /\ attempts[a].pc \notin {"done", "failed"} /\ attempts \in Seq(AttemptType)
  BY DEF LiveAttempt, IngestInv
<1>2. PICK s : s = attempts' /\ s = [attempts EXCEPT ![a] = r]
  OBVIOUS
<1>3. LiveOf(wizard, s) = LiveOf(wizard, attempts)
  BY <1>1, <1>2, LiveKept
<1>4. Len(s) = Len(attempts)
  BY <1>1, <1>2, LivesOn
<1>. QED  BY <1>2, <1>3, <1>4 DEF IngestInv, WaitsForOne

\* What is stored stays stored.
StoredStay(s, t) ==
  /\ t \in Seq(StoredType) /\ Len(s) <= Len(t)
  /\ \A i \in 1..Len(s) : t[i].file = s[i].file /\ (s[i].there => t[i].there)

LEMMA AttemptStays ==
  ASSUME NEW s \in Seq(StoredType), NEW t, StoredStay(s, t), NEW o, NEW p, o \subseteq p,
         NEW r, AttemptStored(r, s), AttemptMapped(r, o)
  PROVE  AttemptStored(r, t) /\ AttemptMapped(r, p)
<1>1. Len(s) \in Nat /\ Len(t) \in Nat
  BY DEF StoredStay
<1>2. \A i \in 1..Len(s) : i \in 1..Len(t)
  BY <1>1 DEF StoredStay
<1>3. AttemptStored(r, t)
  BY <1>2 DEF StoredStay, AttemptStored
<1>. QED  BY <1>3 DEF AttemptMapped

There(s) == {k \in 1..Len(s) : s[k].there}

RememberedFit(f, s) ==
  /\ f \in Seq(RememberedType)
  /\ \A i \in 1..Len(f) : f[i].conn \in 1..Len(s) /\ s[f[i].conn].there
  /\ \A i, j \in 1..Len(f) : i # j => f[i].conn # f[j].conn /\ f[i].file # f[j].file

LEMMA IngestGoes ==
  ASSUME IngestInv, NEW a \in LiveAttempt, NEW r \in AttemptType,
         r.inst = attempts[a].inst, attempts' = [attempts EXCEPT ![a] = r],
         StoredStay(stored, stored'), ontology \subseteq ontology', ontology' \subseteq AnyTarget,
         AttemptStored(r, stored'), AttemptMapped(r, ontology'), readers' = readers,
         wizard' \in WizardType, wizard'.inst = wizard.inst, wizard'.known = wizard.known,
         WaitsForOne(wizard', attempts'), RememberedFit(rememberedFiles', stored')
  PROVE  IngestInv'
<1>1. a \in 1..Len(attempts) /\ attempts \in Seq(AttemptType) /\ stored \in Seq(StoredType)
  BY DEF LiveAttempt, IngestInv
<1>2. PICK s : s = attempts' /\ s = [attempts EXCEPT ![a] = r]
  OBVIOUS
<1>3. /\ s \in Seq(AttemptType) /\ Len(s) = Len(attempts)
      /\ s[a] = r /\ \A b \in 1..Len(attempts) : b # a => s[b] = attempts[b]
  BY <1>1, <1>2, LivesOn
<1>4. ASSUME NEW b \in 1..Len(attempts)
      PROVE  /\ s[b].inst <= wizard.inst /\ AttemptStored(s[b], stored')
             /\ AttemptMapped(s[b], ontology')
  <2>1. /\ attempts[b].inst <= wizard.inst
        /\ AttemptStored(attempts[b], stored) /\ AttemptMapped(attempts[b], ontology)
    BY DEF IngestInv
  <2>2. CASE b = a
    BY <1>3, <2>1, <2>2
  <2>3. CASE b # a
    <3>1. AttemptStored(attempts[b], stored') /\ AttemptMapped(attempts[b], ontology')
      BY <1>1, <2>1, AttemptStays
    <3>. QED  BY <1>3, <2>1, <2>3, <3>1
  <2>. QED  BY <2>2, <2>3
<1>5. \A b \in 1..Len(attempts') : /\ attempts'[b].inst <= wizard'.inst
                                   /\ AttemptStored(attempts'[b], stored')
                                   /\ AttemptMapped(attempts'[b], ontology')
  BY <1>2, <1>3, <1>4
<1>6. /\ rememberedFiles' \in Seq(RememberedType) /\ RememberedOnce'
      /\ \A i \in 1..Len(rememberedFiles') :
           rememberedFiles'[i].conn \in 1..Len(stored') /\ stored'[rememberedFiles'[i].conn].there
  BY DEF RememberedFit, RememberedOnce
<1>7. stored' \in Seq(StoredType) /\ wizard'.known \subseteq ontology' /\ readers' \subseteq Files
  BY DEF StoredStay, IngestInv
<1>. QED  BY <1>2, <1>3, <1>5, <1>6, <1>7 DEF IngestInv

LEMMA RememberedStay ==
  ASSUME IngestInv, NEW t, StoredStay(stored, t)
  PROVE  RememberedFit(rememberedFiles, t)
<1>1. stored \in Seq(StoredType) /\ Len(stored) \in Nat /\ Len(t) \in Nat
  BY DEF IngestInv, StoredStay
<1>2. \A i \in 1..Len(stored) : i \in 1..Len(t) /\ (stored[i].there => t[i].there)
  BY <1>1 DEF StoredStay
<1>3. \A i \in 1..Len(rememberedFiles) :
        rememberedFiles[i].conn \in 1..Len(stored) /\ stored[rememberedFiles[i].conn].there
  BY DEF IngestInv
<1>. QED  BY <1>2, <1>3 DEF RememberedFit, IngestInv, RememberedOnce

LEMMA StoredSame == ASSUME IngestInv PROVE StoredStay(stored, stored)
<1>1. stored \in Seq(StoredType) /\ Len(stored) \in Nat
  BY DEF IngestInv
<1>. QED  BY <1>1 DEF StoredStay

\* The wizard after an ingestion is given up.
LEMMA GivenUp ==
  ASSUME IngestInv, NEW a, GiveUp(a)
  PROVE  /\ wizard' \in WizardType /\ wizard'.inst = wizard.inst /\ wizard'.known = wizard.known
         /\ wizard'.open = wizard.open
         /\ wizard'.ingesting <=> (wizard.ingesting /\ ~Mine(a))
<1>1. wizard \in WizardType
  BY DEF IngestInv
<1>2. CASE Mine(a)
  <2>1. wizard' = [wizard EXCEPT !.failed = TRUE, !.ingesting = FALSE]
    BY <1>2 DEF GiveUp
  <2>. QED  BY <1>1, <1>2, <2>1 DEF WizardType
<1>3. CASE ~Mine(a)
  <2>1. wizard' = wizard
    BY <1>3 DEF GiveUp
  <2>2. wizard.ingesting \in BOOLEAN
    BY <1>1 DEF WizardType
  <2>. QED  BY <1>1, <1>3, <2>1, <2>2
<1>. QED  BY <1>2, <1>3

\* What every step of an ingestion knows of it.
LEMMA LiveTyped ==
  ASSUME IngestInv, NEW a \in LiveAttempt
  PROVE  /\ a \in 1..Len(attempts) /\ attempts[a] \in AttemptType
         /\ AttemptStored(attempts[a], stored) /\ AttemptMapped(attempts[a], ontology)
BY DEF LiveAttempt, IngestInv

LEMMA TypesRegistered ==
  ASSUME IngestInv, NEW a \in LiveAttempt, RegisterTypes(a)
  PROVE  IngestInv'
<1>. DEFINE q == attempts[a]
<1>1. a \in 1..Len(attempts) /\ q \in AttemptType /\ AttemptMapped(q, ontology)
  BY LiveTyped
<1>2. /\ q.pc = "types" /\ wizard' = wizard /\ readers' = readers
      /\ stored' = stored /\ rememberedFiles' = rememberedFiles
  BY DEF RegisterTypes
<1>3. StoredStay(stored, stored') /\ RememberedFit(rememberedFiles', stored')
  BY <1>2, StoredSame, RememberedStay
<1>4. \E r \in AttemptType :
        /\ r.inst = q.inst /\ attempts' = [attempts EXCEPT ![a] = r] /\ r.pc \in {"types", "register"}
        /\ ontology \subseteq ontology' /\ ontology' \subseteq AnyTarget /\ AttemptMapped(r, ontology')
  <2>1. CASE q.todo = {} /\ attempts' = [attempts EXCEPT ![a].pc = "register"] /\ ontology' = ontology
    <3>. DEFINE r == [q EXCEPT !.pc = "register"]
    <3>1. attempts' = [attempts EXCEPT ![a] = r]
      BY <1>1, <2>1
    <3>2. /\ r \in AttemptType /\ r.inst = q.inst /\ r.pc = "register" /\ Needed(r) = Needed(q)
          /\ r.troubled = q.troubled
      BY <1>1 DEF AttemptType, Needed
    <3>. HIDE DEF r
    <3>3. AttemptMapped(r, ontology')
      BY <1>1, <1>2, <2>1, <3>2 DEF AttemptMapped
    <3>. QED  BY <2>1, <3>1, <3>2, <3>3 DEF IngestInv
  <2>2. ASSUME NEW t \in q.todo, ontology' = ontology \cup {t},
               attempts' = [attempts EXCEPT ![a].todo = @ \ {t}]
        PROVE  \E r \in AttemptType :
                 /\ r.inst = q.inst /\ attempts' = [attempts EXCEPT ![a] = r]
                 /\ r.pc \in {"types", "register"}
                 /\ ontology \subseteq ontology' /\ ontology' \subseteq AnyTarget
                 /\ AttemptMapped(r, ontology')
    <3>. DEFINE r == [q EXCEPT !.todo = @ \ {t}]
    <3>1. attempts' = [attempts EXCEPT ![a] = r]
      BY <1>1, <2>2
    <3>2. /\ r \in AttemptType /\ r.inst = q.inst /\ r.pc = "types" /\ Needed(r) = Needed(q)
          /\ r.todo = q.todo \ {t}
      BY <1>1, <1>2 DEF AttemptType, Needed
    <3>3. t \in AnyTarget
      BY <1>1 DEF AttemptType
    <3>. HIDE DEF r
    <3>4. AttemptMapped(r, ontology')
      BY <1>1, <1>2, <2>2, <3>2 DEF AttemptMapped
    <3>. QED  BY <2>2, <3>1, <3>2, <3>3, <3>4 DEF IngestInv
  <2>3. CASE /\ ontology' = ontology
             /\ attempts' = [attempts EXCEPT ![a].pc = "register", ![a].troubled = TRUE]
    <3>. DEFINE r == [q EXCEPT !.pc = "register", !.troubled = TRUE]
    <3>1. attempts' = [attempts EXCEPT ![a] = r]
      BY <1>1, <2>3
    <3>2. /\ r \in AttemptType /\ r.inst = q.inst /\ r.pc = "register" /\ r.troubled
      BY <1>1 DEF AttemptType
    <3>. HIDE DEF r
    <3>3. AttemptMapped(r, ontology')
      BY <3>2 DEF AttemptMapped
    <3>. QED  BY <2>3, <3>1, <3>2, <3>3 DEF IngestInv
  <2>. QED  BY <2>1, <2>2, <2>3 DEF RegisterTypes
<1>5. PICK r \in AttemptType :
        /\ r.inst = q.inst /\ attempts' = [attempts EXCEPT ![a] = r] /\ r.pc \in {"types", "register"}
        /\ ontology \subseteq ontology' /\ ontology' \subseteq AnyTarget /\ AttemptMapped(r, ontology')
  BY <1>4
<1>6. AttemptStored(r, stored')
  BY <1>5 DEF AttemptStored
<1>7. WaitsForOne(wizard', attempts')
  BY <1>2, <1>5, WaitGoesOn
<1>8. wizard' \in WizardType
  BY <1>2 DEF IngestInv
<1>. QED  BY <1>2, <1>3, <1>5, <1>6, <1>7, <1>8, IngestGoes

\* An ingestion that leaves the types alone: what it becomes, and whether the
\* wizard that waits for it is told.
Becomes(a, r) ==
  /\ r \in AttemptType /\ r.inst = attempts[a].inst /\ attempts' = [attempts EXCEPT ![a] = r]
  /\ Needed(r) = Needed(attempts[a]) /\ r.troubled = attempts[a].troubled /\ r.pc # "types"

LEMMA IngestOn ==
  ASSUME IngestInv, NEW a \in LiveAttempt, attempts[a].pc # "types", NEW r, Becomes(a, r),
         r.pc = "failed" => GiveUp(a), r.pc \notin {"failed", "done"} => wizard' = wizard,
         r.pc # "done", StoredStay(stored, stored'), AttemptStored(r, stored'),
         UNCHANGED <<readers, ontology, rememberedFiles>>
  PROVE  IngestInv'
<1>1. /\ a \in 1..Len(attempts) /\ attempts[a] \in AttemptType
      /\ AttemptMapped(attempts[a], ontology)
  BY LiveTyped
<1>2. AttemptMapped(r, ontology')
  BY <1>1 DEF AttemptMapped, Becomes
<1>3. RememberedFit(rememberedFiles', stored')
  BY RememberedStay
<1>4. /\ wizard' \in WizardType /\ wizard'.inst = wizard.inst /\ wizard'.known = wizard.known
      /\ WaitsForOne(wizard', attempts')
  <2>1. CASE r.pc = "failed"
    <3>1. /\ wizard' \in WizardType /\ wizard'.inst = wizard.inst /\ wizard'.known = wizard.known
          /\ wizard'.open = wizard.open
      BY <2>1, GivenUp
    <3>2. wizard'.ingesting <=> (wizard.ingesting /\ ~Mine(a))
      BY <2>1, GivenUp
    <3>3. WaitsForOne(wizard', attempts')
      BY <2>1, <3>1, <3>2, WaitEnds DEF Becomes
    <3>. QED  BY <3>1, <3>3
  <2>2. CASE r.pc \notin {"failed", "done"}
    <3>1. WaitsForOne(wizard', attempts')
      BY <2>2, WaitGoesOn DEF Becomes
    <3>. QED  BY <2>2, <3>1 DEF IngestInv
  <2>. QED  BY <2>1, <2>2
<1>5. ontology \subseteq ontology' /\ ontology' \subseteq AnyTarget
  BY DEF IngestInv
<1>. QED  BY <1>2, <1>3, <1>4, <1>5, IngestGoes DEF Becomes

LEMMA ConnectionRegistered ==
  ASSUME IngestInv, NEW a \in LiveAttempt, RegisterConnection(a)
  PROVE  IngestInv'
<1>. DEFINE q == attempts[a]
<1>1. a \in 1..Len(attempts) /\ q \in AttemptType
  BY LiveTyped
<1>2. q.pc = "register" /\ UNCHANGED <<readers, ontology, rememberedFiles>>
  BY DEF RegisterConnection
<1>3. CASE /\ stored' = Append(stored, [file |-> q.file, there |-> FALSE]) /\ wizard' = wizard
           /\ attempts' = [attempts EXCEPT ![a].pc = "upload", ![a].conn = Len(stored) + 1]
  <2>. DEFINE n == Len(stored)
              x == [file |-> q.file, there |-> FALSE]
              r == [q EXCEPT !.pc = "upload", !.conn = n + 1]
  <2>1. stored \in Seq(StoredType) /\ n \in Nat
    BY DEF IngestInv
  <2>2. attempts' = [attempts EXCEPT ![a] = r]
    BY <1>1, <1>3
  <2>3. x \in StoredType /\ x.file = q.file
    BY <1>1 DEF StoredType, AttemptType
  <2>4. stored' = Append(stored, x)
    BY <1>3
  <2>. HIDE DEF x
  <2>5. /\ stored' \in Seq(StoredType) /\ Len(stored') = n + 1
        /\ stored'[n + 1] = x /\ \A i \in 1..n : stored'[i] = stored[i]
    BY <2>1, <2>3, <2>4, AppendProperties
  <2>. HIDE DEF n
  <2>6. /\ r \in AttemptType /\ r.inst = q.inst /\ r.pc = "upload" /\ Needed(r) = Needed(q)
        /\ r.troubled = q.troubled /\ r.conn = n + 1 /\ r.file = q.file
    <3>1. PICK m \in Nat : m = n + 1
      BY <2>1
    <3>. DEFINE p == [q EXCEPT !.pc = "upload", !.conn = m]
    <3>2. p \in AttemptType
      BY <1>1 DEF AttemptType
    <3>3. p.inst = q.inst /\ p.pc = "upload" /\ p.conn = m /\ p.file = q.file
      BY <1>1 DEF AttemptType
    <3>4. p.active = q.active /\ p.target = q.target /\ p.troubled = q.troubled
      BY <1>1 DEF AttemptType
    <3>5. p = r
      BY <3>1
    <3>. HIDE DEF p, r, q
    <3>6. Needed(p) = Needed(q)
      BY <3>4 DEF Needed
    <3>. QED  BY <3>1, <3>2, <3>3, <3>4, <3>5, <3>6
  <2>. HIDE DEF r
  <2>7. StoredStay(stored, stored')
    BY <2>1, <2>5 DEF StoredStay, n
  <2>8. AttemptStored(r, stored')
    BY <2>1, <2>3, <2>5, <2>6 DEF AttemptStored
  <2>9. Becomes(a, r)
    BY <2>2, <2>6 DEF Becomes
  <2>. QED  BY <1>2, <1>3, <2>6, <2>7, <2>8, <2>9, IngestOn
<1>4. CASE stored' = stored /\ attempts' = [attempts EXCEPT ![a].pc = "failed"] /\ GiveUp(a)
  <2>. DEFINE r == [q EXCEPT !.pc = "failed"]
  <2>1. attempts' = [attempts EXCEPT ![a] = r]
    BY <1>1, <1>4
  <2>2. /\ r \in AttemptType /\ r.inst = q.inst /\ r.pc = "failed" /\ Needed(r) = Needed(q)
        /\ r.troubled = q.troubled
    BY <1>1 DEF AttemptType, Needed
  <2>. HIDE DEF r
  <2>3. AttemptStored(r, stored') /\ Becomes(a, r) /\ StoredStay(stored, stored')
    BY <1>4, <2>1, <2>2, StoredSame DEF AttemptStored, Becomes
  <2>. QED  BY <1>2, <1>4, <2>2, <2>3, IngestOn
<1>. QED  BY <1>2, <1>3, <1>4 DEF RegisterConnection

\* An ingestion of another state, the rest of it as it was.
BecameOf(a, pc) ==
  \E r : Becomes(a, r) /\ r.pc = pc /\ r.conn = attempts[a].conn /\ r.file = attempts[a].file

LEMMA StateBecomes ==
  ASSUME IngestInv, NEW a \in LiveAttempt,
         NEW pc \in {"register", "upload", "again", "save", "done", "failed"},
         attempts' = [attempts EXCEPT ![a].pc = pc]
  PROVE  BecameOf(a, pc)
<1>. DEFINE q == attempts[a]
            r == [q EXCEPT !.pc = pc]
<1>1. a \in 1..Len(attempts) /\ q \in AttemptType
  BY LiveTyped
<1>2. attempts' = [attempts EXCEPT ![a] = r]
  BY <1>1
<1>3. /\ r \in AttemptType /\ r.inst = q.inst /\ r.pc = pc /\ Needed(r) = Needed(q)
      /\ r.troubled = q.troubled /\ r.conn = q.conn /\ r.file = q.file
  BY <1>1 DEF AttemptType, Needed
<1>. HIDE DEF r
<1>. QED  BY <1>2, <1>3 DEF Becomes, BecameOf

LEMMA BecomesOf ==
  ASSUME IngestInv, NEW a \in LiveAttempt
  PROVE  /\ attempts' = [attempts EXCEPT ![a].pc = "again"] =>
              \E r : Becomes(a, r) /\ r.pc = "again" /\ r.conn = attempts[a].conn /\ r.file = attempts[a].file
         /\ attempts' = [attempts EXCEPT ![a].pc = "save"] =>
              \E r : Becomes(a, r) /\ r.pc = "save" /\ r.conn = attempts[a].conn /\ r.file = attempts[a].file
         /\ attempts' = [attempts EXCEPT ![a].pc = "failed"] =>
              \E r : Becomes(a, r) /\ r.pc = "failed" /\ r.conn = attempts[a].conn /\ r.file = attempts[a].file
         /\ attempts' = [attempts EXCEPT ![a].pc = "done"] =>
              \E r : Becomes(a, r) /\ r.pc = "done" /\ r.conn = attempts[a].conn /\ r.file = attempts[a].file
<1>1. ASSUME NEW pc \in {"register", "upload", "again", "save", "done", "failed"},
             attempts' = [attempts EXCEPT ![a].pc = pc]
      PROVE  BecameOf(a, pc)
  BY <1>1, StateBecomes
<1>2. attempts' = [attempts EXCEPT ![a].pc = "again"] => BecameOf(a, "again")
  BY <1>1
<1>3. attempts' = [attempts EXCEPT ![a].pc = "save"] => BecameOf(a, "save")
  BY <1>1
<1>4. attempts' = [attempts EXCEPT ![a].pc = "failed"] => BecameOf(a, "failed")
  BY <1>1
<1>5. attempts' = [attempts EXCEPT ![a].pc = "done"] => BecameOf(a, "done")
  BY <1>1
<1>. QED  BY <1>2, <1>3, <1>4, <1>5 DEF BecameOf

LEMMA FileUploaded ==
  ASSUME IngestInv, NEW a \in LiveAttempt, Upload(a)
  PROVE  IngestInv'
<1>. DEFINE q == attempts[a]
            k == q.conn
            uploaded == [stored EXCEPT ![k].there = TRUE]
<1>1. q.pc \in {"upload", "again"} /\ UNCHANGED <<readers, ontology, rememberedFiles>>
  BY DEF Upload
<1>2. k \in 1..Len(stored) /\ stored[k].file = q.file /\ stored \in Seq(StoredType)
  BY <1>1, LiveTyped DEF AttemptStored, IngestInv
<1>3. /\ StoredStay(stored, uploaded) /\ Len(uploaded) = Len(stored)
      /\ uploaded[k].file = q.file /\ uploaded[k].there
  <2>1. stored[k] \in StoredType
    BY <1>2
  <2>. DEFINE x == [stored[k] EXCEPT !.there = TRUE]
  <2>2. x \in StoredType /\ x.file = q.file /\ x.there = TRUE
    BY <1>2, <2>1 DEF StoredType
  <2>3. uploaded = [stored EXCEPT ![k] = x]
    OBVIOUS
  <2>. HIDE DEF x, k, uploaded
  <2>4. /\ uploaded \in Seq(StoredType) /\ Len(uploaded) = Len(stored) /\ Len(stored) \in Nat
        /\ uploaded[k] = x /\ \A i \in 1..Len(stored) : i # k => uploaded[i] = stored[i]
    <3>1. x \in StoredType /\ k \in 1..Len(stored) /\ stored \in Seq(StoredType)
      BY <1>2, <2>2
    <3>. QED  BY <2>3, <3>1
  <2>5. \A i \in 1..Len(stored) : uploaded[i].file = stored[i].file /\ (stored[i].there => uploaded[i].there)
    BY <1>2, <2>2, <2>4
  <2>. QED  BY <2>2, <2>4, <2>5 DEF StoredStay
<1>4. StoredStay(stored, stored)
  BY StoredSame
<1>. HIDE DEF uploaded, k
<1>5. CASE stored' = uploaded /\ attempts' = [attempts EXCEPT ![a].pc = "save"] /\ wizard' = wizard
  <2>1. PICK r : Becomes(a, r) /\ r.pc = "save" /\ r.conn = q.conn /\ r.file = q.file
    BY <1>5, BecomesOf
  <2>2. AttemptStored(r, stored')
    BY <1>2, <1>3, <1>5, <2>1 DEF AttemptStored, k
  <2>. QED  BY <1>1, <1>3, <1>5, <2>1, <2>2, IngestOn
<1>6. CASE stored' \in {stored, uploaded} /\ attempts' = [attempts EXCEPT ![a].pc = "failed"] /\ GiveUp(a)
  <2>1. PICK r : Becomes(a, r) /\ r.pc = "failed"
    BY <1>6, BecomesOf
  <2>2. AttemptStored(r, stored') /\ StoredStay(stored, stored')
    BY <1>3, <1>4, <1>6, <2>1 DEF AttemptStored
  <2>. QED  BY <1>1, <1>6, <2>1, <2>2, IngestOn
<1>7. CASE stored' = stored /\ attempts' = [attempts EXCEPT ![a].pc = "again"] /\ wizard' = wizard
  <2>1. PICK r : Becomes(a, r) /\ r.pc = "again" /\ r.conn = q.conn /\ r.file = q.file
    BY <1>7, BecomesOf
  <2>2. AttemptStored(r, stored')
    BY <1>2, <1>7, <2>1 DEF AttemptStored, k
  <2>. QED  BY <1>1, <1>4, <1>7, <2>1, <2>2, IngestOn
<1>8. Unauthorised(q.pc) = (IF q.pc = "upload" THEN "again" ELSE "failed")
  BY DEF Unauthorised
<1>. QED  BY <1>5, <1>6, <1>7, <1>8 DEF Upload, uploaded, k

LEMMA RememberedPairs ==
  ASSUME NEW l \in Seq(RememberedType), NEW places \in SUBSET (1..Len(l))
  PROVE  \A m, n \in 1..Len(At(l, places)) :
           m < n => \E i, j \in places : /\ i < j /\ At(l, places)[m] = l[i]
                                        /\ At(l, places)[n] = l[j]
BY KeptPairs

LEMMA KeptApart ==
  ASSUME NEW l \in Seq(RememberedType), NEW places \in SUBSET (1..Len(l)),
         \A i, j \in 1..Len(l) : i # j => l[i].conn # l[j].conn /\ l[i].file # l[j].file
  PROVE  \A m, n \in 1..Len(At(l, places)) :
           m < n => /\ At(l, places)[m].conn # At(l, places)[n].conn
                    /\ At(l, places)[m].file # At(l, places)[n].file
<1>. DEFINE o == At(l, places)
<1>2. \A m, n \in 1..Len(o) : m < n => \E i, j \in places : i < j /\ o[m] = l[i] /\ o[n] = l[j]
  BY RememberedPairs
<1>. HIDE DEF o
<1>. SUFFICES ASSUME NEW m \in 1..Len(o), NEW n \in 1..Len(o), m < n
              PROVE  o[m].conn # o[n].conn /\ o[m].file # o[n].file
  BY DEF o
<1>3. PICK i \in places, j \in places : i < j /\ o[m] = l[i] /\ o[n] = l[j]
  BY <1>2
<1>4. i \in 1..Len(l) /\ j \in 1..Len(l) /\ i # j
  BY <1>3
<1>. QED  BY <1>3, <1>4

\* The file comes first; what was remembered of it or of its connection goes.
LEMMA OthersRemembered ==
  ASSUME NEW s, RememberedFit(rememberedFiles, s), NEW conn \in Nat, NEW file \in AnyFile,
         conn \in There(s),
         NEW f, f = <<[conn |-> conn, file |-> file]>> \o Others(conn, file)
  PROVE  RememberedFit(f, s)
<1>. DEFINE l == rememberedFiles
            places == {i \in DOMAIN l : l[i].conn # conn /\ l[i].file # file}
            o == At(l, places)
            x == [conn |-> conn, file |-> file]
<1>1. l \in Seq(RememberedType) /\ places \in SUBSET (1..Len(l))
  BY DEF RememberedFit
<1>2. \A i \in places : l[i].conn # conn /\ l[i].file # file
  OBVIOUS
<1>3. x \in RememberedType /\ x.conn = conn /\ x.file = file
  BY DEF RememberedType
<1>. HIDE DEF places, x
<1>4. /\ o \in Seq(RememberedType)
      /\ \A n \in 1..Len(o) : \E i \in places : o[n] = l[i]
  BY <1>1, KeptOfList
<1>5. \A m, n \in 1..Len(o) : m < n => o[m].conn # o[n].conn /\ o[m].file # o[n].file
  BY <1>1, KeptApart DEF RememberedFit
<1>6. Others(conn, file) = o
  BY DEF Others, places
<1>. HIDE DEF o
<1>7. Others(conn, file) \in Seq(RememberedType)
  BY <1>4, <1>6
<1>8. f = <<x>> \o o
  BY <1>6 DEF x
<1>9. /\ f \in Seq(RememberedType) /\ Len(f) = Len(o) + 1 /\ Len(o) \in Nat
      /\ \A i \in 1..Len(f) :
           \/ i = 1 /\ f[i] = x
           \/ i # 1 /\ i - 1 \in 1..Len(o) /\ f[i] = o[i - 1]
  <2>1. PICK T : T = RememberedType
    OBVIOUS
  <2>2. x \in T /\ o \in Seq(T)
    BY <1>3, <1>4, <2>1
  <2>3. f \in Seq(T)
    BY <1>8, <2>2, Prepended
  <2>4. Len(f) = Len(o) + 1 /\ Len(o) \in Nat
    BY <1>8, <2>2, Prepended
  <2>5. \A i \in 1..Len(f) :
          \/ i = 1 /\ f[i] = x
          \/ i # 1 /\ i - 1 \in 1..Len(o) /\ f[i] = o[i - 1]
    BY <1>8, <2>2, Prepended
  <2>. QED  BY <2>1, <2>3, <2>4, <2>5
<1>10. ASSUME NEW i \in 1..Len(f) PROVE f[i] = x \/ (i - 1 \in 1..Len(o) /\ f[i] = o[i - 1])
  BY <1>9
<1>11. ASSUME NEW i \in 1..Len(f) PROVE f[i].conn \in 1..Len(s) /\ s[f[i].conn].there
  <2>1. CASE f[i] = x
    BY <1>3, <2>1 DEF There
  <2>2. ASSUME NEW n \in 1..Len(o), f[i] = o[n] PROVE f[i].conn \in 1..Len(s) /\ s[f[i].conn].there
    <3>1. PICK j \in places : o[n] = l[j]
      BY <1>4
    <3>. QED  BY <1>1, <2>2, <3>1 DEF RememberedFit
  <2>. QED  BY <1>10, <2>1, <2>2
<1>13. ASSUME NEW n \in 1..Len(o) PROVE o[n].conn # x.conn /\ o[n].file # x.file
  <2>1. PICK i \in places : o[n] = l[i]
    BY <1>4
  <2>. QED  BY <1>2, <1>3, <2>1
<1>14. ASSUME NEW i \in 1..Len(f), NEW j \in 1..Len(f), i < j
       PROVE  f[i].conn # f[j].conn /\ f[i].file # f[j].file
  <2>1. j # 1 /\ j - 1 \in 1..Len(o) /\ f[j] = o[j - 1]
    BY <1>9, <1>14
  <2>2. CASE i = 1
    <3>1. f[i] = x
      BY <1>9, <2>2
    <3>. QED  BY <1>13, <2>1, <3>1
  <2>3. CASE i # 1
    <3>1. i - 1 \in 1..Len(o) /\ f[i] = o[i - 1] /\ i - 1 < j - 1
      BY <1>9, <1>14, <2>3
    <3>. QED  BY <1>5, <2>1, <3>1
  <2>. QED  BY <2>2, <2>3
<1>15. \A i, j \in 1..Len(f) : i # j => i < j \/ j < i
  BY <1>9
<1>16. \A i, j \in 1..Len(f) : i # j => f[i].conn # f[j].conn /\ f[i].file # f[j].file
  BY <1>14, <1>15
<1>. QED  BY <1>9, <1>11, <1>16 DEF RememberedFit

LEMMA IngestionFinished ==
  ASSUME IngestInv, NEW a \in LiveAttempt, SaveAndFinish(a)
  PROVE  IngestInv'
<1>. DEFINE q == attempts[a]
<1>1. /\ q.pc = "save" /\ attempts' = [attempts EXCEPT ![a].pc = "done"]
      /\ rememberedFiles' = <<[conn |-> q.conn, file |-> q.file]>> \o Others(q.conn, q.file)
      /\ UNCHANGED <<readers, ontology, stored>>
  BY DEF SaveAndFinish
<1>2. wizard' = IF Mine(a)
                THEN [wizard EXCEPT !.finished = TRUE, !.failed = FALSE, !.ingesting = FALSE]
                ELSE wizard
  BY DEF SaveAndFinish
<1>3. PICK r : Becomes(a, r) /\ r.pc = "done" /\ r.conn = q.conn /\ r.file = q.file
  BY <1>1, BecomesOf
<1>4. /\ q \in AttemptType /\ q.conn \in 1..Len(stored) /\ stored[q.conn].file = q.file
      /\ stored[q.conn].there /\ AttemptMapped(q, ontology)
  BY <1>1, LiveTyped DEF AttemptStored
<1>5. AttemptStored(r, stored') /\ AttemptMapped(r, ontology')
  BY <1>1, <1>3, <1>4 DEF AttemptStored, AttemptMapped, Becomes
<1>6. RememberedFit(rememberedFiles', stored')
  <2>1. RememberedFit(rememberedFiles, stored)
    BY StoredSame, RememberedStay
  <2>2. q.conn \in Nat /\ q.file \in AnyFile
    BY <1>4 DEF AttemptType
  <2>. HIDE DEF q
  <2>3. PICK f : f = rememberedFiles'
    OBVIOUS
  <2>4. q.conn \in There(stored)
    BY <1>4 DEF There
  <2>5. RememberedFit(f, stored)
    BY <1>1, <2>1, <2>2, <2>3, <2>4, OthersRemembered
  <2>. QED  BY <1>1, <2>3, <2>5
<1>7. /\ wizard' \in WizardType /\ wizard'.inst = wizard.inst /\ wizard'.known = wizard.known
      /\ wizard'.open = wizard.open
  <2>1. CASE Mine(a)
    BY <1>2, <2>1 DEF IngestInv, WizardType
  <2>2. CASE ~Mine(a)
    BY <1>2, <2>2 DEF IngestInv
  <2>. QED  BY <2>1, <2>2
<1>8. wizard'.ingesting <=> (wizard.ingesting /\ ~Mine(a))
  <2>1. CASE Mine(a)
    BY <1>2, <2>1 DEF IngestInv, WizardType
  <2>2. CASE ~Mine(a)
    BY <1>2, <2>2
  <2>. QED  BY <2>1, <2>2
<1>9. WaitsForOne(wizard', attempts')
  BY <1>3, <1>7, <1>8, WaitEnds DEF Becomes
<1>10. StoredStay(stored, stored') /\ ontology \subseteq ontology' /\ ontology' \subseteq AnyTarget
  BY <1>1, StoredSame DEF IngestInv
<1>. QED  BY <1>1, <1>3, <1>5, <1>6, <1>7, <1>9, <1>10, IngestGoes DEF Becomes

\* The wizard by itself: what is typed into it and what it is told.
LEMMA WizardEdits ==
  ASSUME IngestInv,
         \/ CloseWizard \/ OntologyArrives \/ NextStep \/ PreviousStep \/ Search \/ TurnPage
         \/ (\E f \in Files : HandleFile(f)) \/ (\E f \in readers : FileRead(f) \/ FileRefused(f))
         \/ (\E c \in FileColumns : ToggleColumn(c)) \/ (\E t \in TargetTypes : ChangePrimary(t))
         \/ (\E c \in FileColumns, t \in TargetTypes : UpdateMapping(c, t))
  PROVE  IngestInv'
<1>. DEFINE Fits ==
       /\ wizard' \in WizardType /\ wizard'.inst = wizard.inst
       /\ wizard'.open => wizard.open /\ (wizard'.ingesting <=> wizard.ingesting)
       /\ wizard'.known \subseteq ontology
<1>1. wizard \in WizardType /\ wizard.known \subseteq ontology /\ readers \subseteq Files
      /\ ontology \subseteq AnyTarget
  BY DEF IngestInv
<1>2. SUFFICES Fits /\ readers' \subseteq Files /\ UNCHANGED <<attempts, ontology, stored, rememberedFiles>>
  BY IngestStays
<1>3. UNCHANGED <<attempts, ontology, stored, rememberedFiles>> /\ readers' \subseteq Files
  BY <1>1 DEF CloseWizard, OntologyArrives, NextStep, PreviousStep, Step, Search, TurnPage, HandleFile,
     FileRead, FileRefused, ToggleColumn, ChangePrimary, UpdateMapping
<1>4. ASSUME wizard' = wizard PROVE Fits
  BY <1>1, <1>4
<1>5. ASSUME CloseWizard PROVE Fits
  <2>. DEFINE w == [Fresh(wizard.inst) EXCEPT !.open = FALSE]
  <2>1. wizard' = w
    BY <1>5 DEF CloseWizard
  <2>2. Fresh(wizard.inst) \in WizardType /\ Fresh(wizard.inst).inst = wizard.inst
        /\ Fresh(wizard.inst).known = {}
    BY <1>1 DEF Fresh, WizardType, NoTarget, AnyTarget, AnyFile, NoFile
  <2>3. w \in WizardType /\ w.inst = wizard.inst /\ w.known = {} /\ ~w.open
    BY <2>2 DEF WizardType
  <2>. HIDE DEF w
  <2>. QED  BY <2>1, <2>3
<1>6. ASSUME OntologyArrives, wizard' # wizard PROVE Fits
  BY <1>1, <1>6 DEF OntologyArrives, WizardType
<1>7. ASSUME NEW n \in 1..4, Step(n) PROVE Fits
  BY <1>1, <1>7 DEF Step, WizardType
<1>8. ASSUME NextStep \/ PreviousStep PROVE Fits
  <2>1. wizard.step \in 1..4
    BY <1>1 DEF WizardType
  <2>2. \E n \in 1..4 : Step(n)
    <3>1. CASE NextStep
      <4>1. wizard.step + 1 \in 1..4
        BY <2>1, <3>1 DEF NextStep
      <4>. QED  BY <3>1, <4>1 DEF NextStep
    <3>2. CASE PreviousStep
      <4>1. wizard.step - 1 \in 1..4
        BY <2>1, <3>2 DEF PreviousStep
      <4>. QED  BY <3>2, <4>1 DEF PreviousStep
    <3>. QED  BY <1>8, <3>1, <3>2
  <2>. HIDE DEF Fits
  <2>. QED  BY <1>7, <2>2
<1>9. ASSUME NEW f \in Files, HandleFile(f) PROVE Fits
  BY <1>1, <1>9 DEF HandleFile, WizardType, AnyFile
<1>10. ASSUME NEW f \in readers, FileRead(f) PROVE Fits
  <2>1. wizard' = [wizard EXCEPT !.parsed = f, !.active = FileColumns, !.step = 2,
                                 !.target = [c \in FileColumns |-> inferredEntity[f]]]
    BY <1>10 DEF FileRead
  <2>2. f \in AnyFile /\ inferredEntity[f] \in AnyTarget
    BY <1>1, WizardAssumption DEF WizardAssumption, AnyFile, AnyTarget
  <2>3. PICK h : h = [c \in FileColumns |-> inferredEntity[f]]
    OBVIOUS
  <2>4. h \in [FileColumns -> AnyTarget]
    BY <2>2, <2>3
  <2>5. wizard' = [wizard EXCEPT !.parsed = f, !.active = FileColumns, !.step = 2, !.target = h]
    BY <2>1, <2>3
  <2>6. PICK w : w = wizard /\ w \in WizardType
    BY <1>1
  <2>7. w = [open |-> w.open, inst |-> w.inst, step |-> w.step, file |-> w.file,
             parsed |-> w.parsed, active |-> w.active, target |-> w.target, known |-> w.known,
             ingesting |-> w.ingesting, finished |-> w.finished, failed |-> w.failed]
    BY <2>6 DEF WizardType
  <2>8. wizard' = [open |-> w.open, inst |-> w.inst, step |-> 2, file |-> w.file,
                   parsed |-> f, active |-> FileColumns, target |-> h, known |-> w.known,
                   ingesting |-> w.ingesting, finished |-> w.finished, failed |-> w.failed]
    BY <2>5, <2>6, <2>7
  <2>9. wizard' \in WizardType
    BY <2>2, <2>4, <2>6, <2>8 DEF WizardType
  <2>. QED  BY <1>1, <2>6, <2>8, <2>9
<1>11. ASSUME NEW c \in FileColumns, ToggleColumn(c) PROVE Fits
  BY <1>1, <1>11 DEF ToggleColumn, WizardType
<1>12. ASSUME NEW t \in TargetTypes, ChangePrimary(t) PROVE Fits
  BY <1>1, <1>12 DEF ChangePrimary, WizardType, AnyTarget
<1>13. ASSUME NEW c \in FileColumns, NEW t \in TargetTypes, UpdateMapping(c, t) PROVE Fits
  BY <1>1, <1>13 DEF UpdateMapping, WizardType, AnyTarget
<1>14. Search \/ TurnPage \/ (\E f \in readers : FileRefused(f)) \/ OntologyArrives => Fits
  BY <1>4, <1>6 DEF Search, TurnPage, FileRefused
<1>15. Fits
  <2>. HIDE DEF Fits
  <2>. QED  BY <1>5, <1>8, <1>9, <1>10, <1>11, <1>12, <1>13, <1>14
<1>. QED  BY <1>3, <1>15

LEMMA IngestSteps == ASSUME IngestInv, WizardNext PROVE IngestInv'
<1>1. ASSUME NEW a \in LiveAttempt, Ingest(a) PROVE IngestInv'
  BY <1>1, TypesRegistered, ConnectionRegistered, FileUploaded, IngestionFinished DEF Ingest
<1>. QED  BY <1>1, WizardEdits, WizardOpens, IngestionStarts DEF WizardNext

LEMMA IngestHolds == WizardSpec => []IngestInv
<1>1. WizardInit => IngestInv
  <2>. SUFFICES ASSUME WizardInit PROVE IngestInv
    OBVIOUS
  <2>1. /\ wizard = Fresh(0) /\ readers = {} /\ attempts = <<>> /\ ontology = SeededTargets
        /\ stored = <<>> /\ rememberedFiles = <<>>
    BY DEF WizardInit
  <2>2. wizard \in WizardType /\ wizard.known = {} /\ ~wizard.ingesting
    BY <2>1 DEF Fresh, WizardType, NoTarget, AnyTarget, AnyFile, NoFile
  <2>3. Len(attempts) = 0 /\ Len(rememberedFiles) = 0
    BY <2>1
  <2>4. LiveOf(wizard, attempts) = {}
    BY <2>3 DEF LiveOf
  <2>5. WaitsForOne(wizard, attempts)
    BY <2>2, <2>4 DEF WaitsForOne
  <2>6. attempts \in Seq(AttemptType) /\ stored \in Seq(StoredType) /\ rememberedFiles \in Seq(RememberedType)
    BY <2>1
  <2>7. ontology \subseteq AnyTarget
    BY <2>1, WizardAssumption DEF WizardAssumption, AnyTarget
  <2>8. RememberedOnce
    BY <2>3 DEF RememberedOnce
  <2>. QED  BY <2>1, <2>2, <2>3, <2>5, <2>6, <2>7, <2>8 DEF IngestInv
<1>2. IngestInv /\ [WizardNext]_wizardVars => IngestInv'
  <2>. SUFFICES ASSUME IngestInv, [WizardNext]_wizardVars PROVE IngestInv'
    OBVIOUS
  <2>1. CASE UNCHANGED wizardVars
    BY <2>1, IngestStays DEF wizardVars, IngestInv
  <2>. QED  BY <2>1, IngestSteps
<1>. QED  BY <1>1, <1>2, PTL DEF WizardSpec

(* The columns that are active have been given a type, and from the second  *)
(* step on there is a file: what an ingestion closes over is a file and     *)
(* types of the ontology.  A page of the preview is one of all the rows.    *)
WizardNames ==
  /\ wizard.inst <= MaxAttempts /\ ontology \subseteq TargetTypes
  /\ (wizard.active = {} /\ wizard.parsed = NoFile) \/ wizard.target \in [FileColumns -> TargetTypes]
  /\ wizard.file \in Files \/ (wizard.step = 1 /\ readers = {})
  /\ ~wizard.open => readers = {}
  /\ listing \in BOOLEAN /\ edits \in 0..MaxEdits
AttemptNamed(r, s) == r.file \in Files /\ r.todo \subseteq TargetTypes /\ r.conn <= Len(s)
AttemptNames ==
  /\ Len(attempts) <= MaxAttempts
  /\ \A a \in 1..Len(attempts) : AttemptNamed(attempts[a], stored)
  /\ \A i \in 1..Len(stored) : stored[i].file \in Files
PreviewTurned == preview.page \in 1..PreviewPages(RowCount)

LEMMA WizardTypes ==
  ASSUME WizardInv, IngestInv, WizardNames, AttemptNames, PreviewTurned
  PROVE  WizardTypeOK
<1>1. wizard \in [open : BOOLEAN, inst : 0..MaxAttempts, step : 1..4, file : Files \cup {NoFile},
                  parsed : Files \cup {NoFile}, active : SUBSET FileColumns,
                  target : [FileColumns -> TargetTypes \cup {"none"}], known : SUBSET TargetTypes,
                  ingesting : BOOLEAN, finished : BOOLEAN, failed : BOOLEAN]
  <2>1. wizard \in WizardType /\ wizard.inst <= MaxAttempts /\ wizard.known \subseteq TargetTypes
    BY DEF IngestInv, WizardNames
  <2>2. MaxAttempts \in Nat
    BY WizardAssumption DEF WizardAssumption
  <2>. QED  BY <2>1, <2>2 DEF WizardType, AnyFile, AnyTarget
<1>2. stored \in Seq([file : Files, there : BOOLEAN])
  <2>1. stored \in Seq(StoredType) /\ \A i \in 1..Len(stored) : stored[i].file \in Files
    BY DEF IngestInv, AttemptNames
  <2>2. PICK T : T = [file : Files, there : BOOLEAN]
    OBVIOUS
  <2>3. ASSUME NEW i \in 1..Len(stored) PROVE stored[i] \in T
    <3>1. stored[i] \in StoredType /\ stored[i].file \in Files
      BY <2>1
    <3>. QED  BY <2>2, <3>1 DEF StoredType
  <2>4. stored \in [1..Len(stored) -> T] /\ Len(stored) \in Nat
    BY <2>1, <2>3
  <2>5. stored \in Seq(T)
    BY <2>4
  <2>. QED  BY <2>2, <2>5
<1>3. ASSUME NEW a \in 1..Len(attempts)
      PROVE  /\ attempts[a].pc \in {"types", "register", "upload", "again", "save", "done", "failed"}
             /\ attempts[a].file \in Files
             /\ attempts[a].conn \in (IF attempts[a].pc \in {"upload", "again", "save", "done"}
                                      THEN 1..Len(stored) ELSE 0..Len(stored))
  <2>1. attempts[a] \in AttemptType /\ AttemptStored(attempts[a], stored) /\ AttemptNamed(attempts[a], stored)
    BY DEF IngestInv, AttemptNames
  <2>2. stored \in Seq(StoredType)
    BY DEF IngestInv
  <2>3. Len(stored) \in Nat
    BY <2>2
  <2>4. attempts[a].conn \in 0..Len(stored)
    BY <2>1, <2>3 DEF AttemptType, AttemptNamed
  <2>. QED  BY <2>1, <2>4 DEF AttemptType, AttemptStored, AttemptNamed
<1>4. preview \in [page : 1..PreviewPages(RowCount), term : BOOLEAN]
  BY DEF WizardInv, PreviewTurned
<1>5. readers \subseteq Files /\ listing \in BOOLEAN /\ ontology \subseteq TargetTypes
      /\ Len(attempts) <= MaxAttempts /\ edits \in 0..MaxEdits
  BY DEF IngestInv, WizardNames, AttemptNames
<1>. QED  BY <1>1, <1>2, <1>3, <1>4, <1>5 DEF WizardTypeOK

\* The quotient grows with what is divided.
LEMMA Quotient ==
  ASSUME NEW x \in Nat, NEW i \in Nat, i >= 1
  PROVE  x \div i \in Nat /\ i * (x \div i) <= x /\ x < i * (x \div i) + i
OBVIOUS

LEMMA Multiples ==
  ASSUME NEW b \in Nat, NEW i \in Nat, NEW k \in Nat
  PROVE  i * (b + 1 + k) = i * b + i + i * k /\ i * k \in Nat /\ i * b \in Nat
OBVIOUS

LEMMA Divided ==
  ASSUME NEW x \in Nat, NEW y \in Nat, x <= y, NEW i \in Nat \ {0}
  PROVE  x \div i \in Nat /\ x \div i <= y \div i
<1>1. i \in Nat /\ i >= 1
  OBVIOUS
<1>2. x \div i \in Nat /\ i * (x \div i) <= x
  BY <1>1, Quotient
<1>3. y \div i \in Nat /\ y < i * (y \div i) + i
  BY <1>1, Quotient
<1>4. PICK a \in Nat : a = x \div i
  BY <1>2
<1>5. PICK b \in Nat : b = y \div i
  BY <1>3
<1>6. PICK c \in Nat : c = i * b
  BY <1>1, <1>5, Multiples
<1>7. ASSUME a > b PROVE FALSE
  <2>1. PICK k \in Nat : a = b + 1 + k
    <3>1. a - b - 1 \in Nat /\ a = b + 1 + (a - b - 1)
      BY <1>7
    <3>. QED  BY <3>1
  <2>2. i * a = i * b + i + i * k /\ i * k \in Nat
    BY <1>1, <2>1, Multiples
  <2>3. PICK d \in Nat : d = i * k
    BY <2>2
  <2>4. i * a = c + i + d
    BY <1>6, <2>2, <2>3
  <2>5. c + i + d <= x
    BY <1>2, <1>4, <2>4
  <2>6. y < c + i
    BY <1>3, <1>5, <1>6
  <2>. QED  BY <1>1, <2>5, <2>6
<1>. QED  BY <1>2, <1>4, <1>5, <1>7

\* Fewer rows have no more pages.
LEMMA PagesGrow ==
  ASSUME NEW n \in Nat, NEW m \in Nat, n <= m
  PROVE  PreviewPages(n) <= PreviewPages(m) /\ PreviewPages(m) \in Nat /\ PreviewPages(m) >= 1
<1>1. PICK i \in Nat \ {0} : i = itemsPerPage
  BY WizardAssumption DEF WizardAssumption
<1>2. ASSUME NEW x \in Nat, NEW y \in Nat, x <= y PROVE x \div i \in Nat /\ x \div i <= y \div i
  BY <1>2, Divided
<1>. DEFINE p == (n + itemsPerPage - 1) \div itemsPerPage
            q == (m + itemsPerPage - 1) \div itemsPerPage
<1>3. p \in Nat /\ q \in Nat /\ p <= q
  <2>1. n + i - 1 \in Nat /\ m + i - 1 \in Nat /\ n + i - 1 <= m + i - 1
    OBVIOUS
  <2>2. (n + i - 1) \div i \in Nat /\ (m + i - 1) \div i \in Nat
        /\ (n + i - 1) \div i <= (m + i - 1) \div i
    BY <1>2, <2>1
  <2>. QED  BY <1>1, <2>2
<1>4. PreviewPages(n) = Max({1, p}) /\ PreviewPages(m) = Max({1, q})
  BY DEF PreviewPages
<1>. HIDE DEF p, q
<1>5. ASSUME NEW k \in Nat PROVE Max({1, k}) \in {1, k} /\ Max({1, k}) >= 1 /\ Max({1, k}) >= k
  <2>1. \E x \in {1, k} : \A y \in {1, k} : x >= y
    OBVIOUS
  <2>. QED  BY <2>1 DEF Max
<1>. QED  BY <1>3, <1>4, <1>5

LEMMA PagesOfAll ==
  ASSUME NEW active, active \subseteq FileColumns, NEW term \in BOOLEAN
  PROVE  /\ PreviewPages(Cardinality(Filtered(active, term))) <= PreviewPages(RowCount)
         /\ PreviewPages(RowCount) \in Nat /\ PreviewPages(RowCount) >= 1
<1>1. RowCount \in Nat /\ Matches \in [FileColumns -> SUBSET (1..RowCount)]
  BY WizardAssumption DEF WizardAssumption
<1>2. Filtered(active, term) \subseteq 1..RowCount
  BY <1>1 DEF Filtered
<1>3. IsFiniteSet(1..RowCount) /\ Cardinality(1..RowCount) = RowCount
  BY <1>1, FS_Interval
<1>4. Cardinality(Filtered(active, term)) <= Cardinality(1..RowCount)
      /\ IsFiniteSet(Filtered(active, term))
  BY <1>2, <1>3, FS_Subset
<1>5. Cardinality(Filtered(active, term)) \in Nat
  BY <1>4, FS_CardinalityType
<1>. QED  BY <1>1, <1>3, <1>4, <1>5, PagesGrow

\* A page that the filter leaves is one of all the rows.
LEMMA PageOfFilter ==
  ASSUME WizardInv, NEW p \in Nat, p >= 1, NEW t \in BOOLEAN, NEW active, active \subseteq FileColumns,
         p <= PreviewPages(Cardinality(Filtered(active, t)))
  PROVE  p \in 1..PreviewPages(RowCount)
<1>1. PICK m \in Nat : m = PreviewPages(RowCount)
  BY PagesOfAll
<1>2. PICK n \in Nat : n = PreviewPages(Cardinality(Filtered(active, t)))
  BY PagesOfRows
<1>3. n <= m
  BY <1>1, <1>2, PagesOfAll
<1>4. p \in 1..m
  BY <1>2, <1>3
<1>. QED  BY <1>1, <1>4

LEMMA ClampedTurned ==
  ASSUME WizardInv, PreviewTurned, NEW p, p \in {preview, [preview EXCEPT !.term = ~preview.term]},
         NEW active, active \subseteq FileColumns
  PROVE  Clamped(p, active).page \in 1..PreviewPages(RowCount)
<1>1. /\ preview \in [page : Nat, term : BOOLEAN] /\ preview.page \in 1..PreviewPages(RowCount)
  BY DEF WizardInv, PreviewTurned
<1>2. p \in [page : Nat, term : BOOLEAN] /\ p.page = preview.page
  BY <1>1
<1>3. preview.page >= 1
  <2>1. PICK m \in Nat : m = PreviewPages(RowCount)
    BY PagesOfAll
  <2>. QED  BY <1>1, <2>1
<1>4. PICK k \in Nat : k = preview.page /\ k >= 1
  BY <1>1, <1>3
<1>5. PICK n \in Nat : n = PreviewPages(Cardinality(Filtered(active, p.term))) /\ n >= 1
  BY <1>2, PagesOfRows
<1>6. \E x \in {k, n} : \A y \in {k, n} : x <= y
  OBVIOUS
<1>7. Min({k, n}) \in {k, n}
  BY <1>6 DEF Min
<1>8. Clamped(p, active) = [p EXCEPT !.page = Min({k, n})]
  BY <1>2, <1>4, <1>5 DEF Clamped
<1>9. PICK j \in {k, n} : j = Min({k, n})
  BY <1>7
<1>10. Clamped(p, active) = [p EXCEPT !.page = j]
  BY <1>8, <1>9
<1>11. Clamped(p, active).page = j
  BY <1>2, <1>10
<1>12. CASE j = k
  BY <1>1, <1>4, <1>11, <1>12
<1>13. CASE j = n
  <2>1. n \in 1..PreviewPages(RowCount)
    BY <1>2, <1>5, PageOfFilter
  <2>. QED  BY <1>11, <1>13, <2>1
<1>. QED  BY <1>9, <1>12, <1>13

LEMMA PreviewTurnedStep ==
  ASSUME WizardInv, PreviewTurned, [WizardNext]_wizardVars
  PROVE  PreviewTurned'
<1>0. wizard.active \subseteq FileColumns /\ preview \in [page : Nat, term : BOOLEAN]
  BY DEF WizardInv
<1>a. ASSUME preview' = preview PROVE PreviewTurned'
  BY <1>a DEF PreviewTurned
<1>b. ASSUME preview' = FirstPage PROVE PreviewTurned'
  <2>1. PICK m \in Nat : m = PreviewPages(RowCount) /\ m >= 1
    BY <1>0, PagesOfAll
  <2>2. preview'.page = 1
    BY <1>b DEF FirstPage
  <2>. QED  BY <2>1, <2>2 DEF PreviewTurned
<1>1. CASE OpenWizard \/ CloseWizard
  BY <1>1, <1>b DEF OpenWizard, CloseWizard
<1>2. ASSUME NEW f, FileRead(f) PROVE PreviewTurned'
  BY <1>2, <1>b DEF FileRead
<1>3. CASE NextStep \/ PreviousStep
  BY <1>3, <1>b DEF NextStep, PreviousStep, Step
<1>4. ASSUME NEW c \in FileColumns, ToggleColumn(c) PROVE PreviewTurned'
  <2>1. PICK now : now = (wizard.active \ {c}) \cup ({c} \ wizard.active)
    OBVIOUS
  <2>2. preview' \in {preview, Clamped(preview, now)}
    BY <1>4, <2>1 DEF ToggleColumn
  <2>3. now \subseteq FileColumns
    BY <1>0, <2>1
  <2>4. Clamped(preview, now).page \in 1..PreviewPages(RowCount)
    BY <2>3, ClampedTurned
  <2>. QED  BY <2>2, <2>4 DEF PreviewTurned
<1>5. CASE Search
  <2>1. preview' = Clamped([preview EXCEPT !.term = ~preview.term], wizard.active)
    BY <1>5 DEF Search
  <2>2. PICK p : p = [preview EXCEPT !.term = ~preview.term]
    OBVIOUS
  <2>3. Clamped(p, wizard.active).page \in 1..PreviewPages(RowCount)
    BY <1>0, <2>2, ClampedTurned
  <2>. QED  BY <2>1, <2>2, <2>3 DEF PreviewTurned
<1>6. CASE TurnPage
  <2>. DEFINE last == PreviewPages(Cardinality(Filtered(wizard.active, preview.term)))
  <2>1. PICK p \in 1..last : preview' = [preview EXCEPT !.page = p]
    BY <1>6 DEF TurnPage
  <2>2. last \in Nat
    BY <1>0, PagesOfRows
  <2>3. p \in Nat /\ p >= 1 /\ p <= last
    BY <2>2
  <2>4. p \in 1..PreviewPages(RowCount)
    BY <1>0, <2>3, PageOfFilter
  <2>5. preview'.page = p
    BY <1>0, <2>1
  <2>. QED  BY <2>4, <2>5 DEF PreviewTurned
<1>7. CASE \/ OntologyArrives \/ StartIngestion \/ UNCHANGED wizardVars
           \/ (\E f \in Files : HandleFile(f)) \/ (\E f \in readers : FileRefused(f))
           \/ (\E t \in TargetTypes : ChangePrimary(t))
           \/ (\E c \in FileColumns, t \in TargetTypes : UpdateMapping(c, t))
  BY <1>7, <1>a DEF OntologyArrives, StartIngestion, HandleFile, FileRefused, ChangePrimary,
                    UpdateMapping, wizardVars
<1>8. ASSUME NEW a, Ingest(a) PROVE PreviewTurned'
  BY <1>8, <1>a DEF Ingest, RegisterTypes, RegisterConnection, Upload, SaveAndFinish
<1>. QED  BY <1>1, <1>2, <1>3, <1>4, <1>5, <1>6, <1>7, <1>8 DEF WizardNext

LEMMA WizardNamesStep ==
  ASSUME IngestInv, WizardNames, AttemptNames, [WizardNext]_wizardVars
  PROVE  WizardNames'
<1>0. /\ wizard \in WizardType /\ readers \subseteq Files /\ MaxAttempts \in Nat /\ MaxEdits \in Nat
      /\ wizard.inst <= MaxAttempts /\ ontology \subseteq TargetTypes
      /\ (wizard.active = {} /\ wizard.parsed = NoFile) \/ wizard.target \in [FileColumns -> TargetTypes]
      /\ wizard.file \in Files \/ (wizard.step = 1 /\ readers = {})
      /\ (~wizard.open => readers = {}) /\ listing \in BOOLEAN /\ edits \in 0..MaxEdits
  BY WizardAssumption DEF IngestInv, WizardNames, WizardAssumption
<1>a. ASSUME Spend \/ edits' = edits PROVE edits' \in 0..MaxEdits
  BY <1>0, <1>a DEF Spend
\* The wizard goes on with the file and the types it has.
<1>b. ASSUME wizard'.inst = wizard.inst, wizard'.active = wizard.active, wizard'.parsed = wizard.parsed,
             wizard'.target = wizard.target, wizard'.file = wizard.file, wizard'.open = wizard.open,
             wizard'.step = wizard.step, readers' \subseteq readers, listing' \in BOOLEAN,
             edits' \in 0..MaxEdits, ontology' \subseteq TargetTypes
      PROVE  WizardNames'
  BY <1>0, <1>b DEF WizardNames
<1>1. CASE OpenWizard
  <2>1. /\ wizard' = Fresh(wizard.inst + 1) /\ wizard.inst + 1 < MaxAttempts /\ ~wizard.open
        /\ UNCHANGED <<readers, ontology, edits>> /\ listing' = TRUE
    BY <1>1 DEF OpenWizard
  <2>2. wizard'.inst = wizard.inst + 1 /\ wizard'.active = {} /\ wizard'.parsed = NoFile /\ wizard'.step = 1
    BY <2>1 DEF Fresh
  <2>3. wizard'.inst <= MaxAttempts
    BY <1>0, <2>1, <2>2 DEF WizardType
  <2>. QED  BY <1>0, <2>1, <2>2, <2>3 DEF WizardNames
<1>2. CASE CloseWizard
  <2>1. /\ wizard' = [Fresh(wizard.inst) EXCEPT !.open = FALSE] /\ readers' = {} /\ listing' = FALSE
        /\ UNCHANGED <<ontology, edits>>
    BY <1>2 DEF CloseWizard
  <2>2. wizard'.inst = wizard.inst /\ wizard'.active = {} /\ wizard'.parsed = NoFile /\ wizard'.step = 1
    BY <2>1 DEF Fresh
  <2>. QED  BY <1>0, <2>1, <2>2 DEF WizardNames
<1>3. CASE OntologyArrives
  <2>1. /\ wizard' \in {wizard, [wizard EXCEPT !.known = ontology]} /\ listing' = FALSE
        /\ UNCHANGED <<readers, ontology, edits>>
    BY <1>3 DEF OntologyArrives
  <2>2. /\ wizard'.inst = wizard.inst /\ wizard'.active = wizard.active /\ wizard'.parsed = wizard.parsed
        /\ wizard'.target = wizard.target /\ wizard'.file = wizard.file /\ wizard'.open = wizard.open
        /\ wizard'.step = wizard.step
    BY <1>0, <2>1 DEF WizardType
  <2>. QED  BY <1>0, <1>b, <2>1, <2>2
<1>4. ASSUME NEW f \in Files, HandleFile(f) PROVE WizardNames'
  <2>1. /\ wizard' = [wizard EXCEPT !.file = f] /\ readers' = readers \cup {f} /\ wizard.open
        /\ UNCHANGED <<listing, ontology>> /\ Spend
    BY <1>4 DEF HandleFile, Edit
  <2>2. /\ wizard'.inst = wizard.inst /\ wizard'.active = wizard.active /\ wizard'.parsed = wizard.parsed
        /\ wizard'.target = wizard.target /\ wizard'.file = f /\ wizard'.open = wizard.open
    BY <1>0, <2>1 DEF WizardType
  <2>. QED  BY <1>0, <1>a, <2>1, <2>2 DEF WizardNames
<1>5. ASSUME NEW f \in readers, FileRead(f) PROVE WizardNames'
  <2>1. wizard.file \in Files /\ wizard.open /\ f \in Files
    BY <1>0
  <2>2. PICK h : h = [c \in FileColumns |-> inferredEntity[f]]
    OBVIOUS
  <2>3. h \in [FileColumns -> TargetTypes]
    BY <2>1, <2>2, WizardAssumption DEF WizardAssumption
  <2>4. /\ wizard' = [wizard EXCEPT !.parsed = f, !.active = FileColumns, !.step = 2, !.target = h]
        /\ readers' = readers \ {f} /\ UNCHANGED <<listing, ontology, edits>>
    BY <1>5, <2>2 DEF FileRead
  <2>5. PICK w : w = wizard /\ w \in WizardType
    BY <1>0
  <2>6. w = [open |-> w.open, inst |-> w.inst, step |-> w.step, file |-> w.file,
             parsed |-> w.parsed, active |-> w.active, target |-> w.target, known |-> w.known,
             ingesting |-> w.ingesting, finished |-> w.finished, failed |-> w.failed]
    BY <2>5 DEF WizardType
  <2>7. wizard' = [open |-> w.open, inst |-> w.inst, step |-> 2, file |-> w.file,
                   parsed |-> f, active |-> FileColumns, target |-> h, known |-> w.known,
                   ingesting |-> w.ingesting, finished |-> w.finished, failed |-> w.failed]
    BY <2>4, <2>5, <2>6
  <2>8. wizard'.inst = wizard.inst /\ wizard'.target = h /\ wizard'.file = wizard.file
        /\ wizard'.open = wizard.open
    BY <2>5, <2>7
  <2>. QED  BY <1>0, <2>1, <2>3, <2>4, <2>8 DEF WizardNames
<1>6. CASE NextStep \/ PreviousStep
  <2>1. PICK n : Step(n)
    BY <1>6 DEF NextStep, PreviousStep
  <2>2. wizard' = [wizard EXCEPT !.step = n] /\ UNCHANGED <<readers, listing, ontology, edits>>
    BY <2>1 DEF Step
  <2>3. /\ wizard'.inst = wizard.inst /\ wizard'.active = wizard.active /\ wizard'.parsed = wizard.parsed
        /\ wizard'.target = wizard.target /\ wizard'.file = wizard.file /\ wizard'.open = wizard.open
    BY <1>0, <2>2 DEF WizardType
  <2>4. wizard.step # 1
    BY <1>0, <1>6 DEF NextStep, PreviousStep, WizardType
  <2>. QED  BY <1>0, <2>2, <2>3, <2>4 DEF WizardNames
<1>7. ASSUME NEW c \in FileColumns, ToggleColumn(c) PROVE WizardNames'
  <2>1. PICK now : wizard' = [wizard EXCEPT !.active = now]
    BY <1>7 DEF ToggleColumn
  <2>2. wizard.parsed # NoFile /\ UNCHANGED <<readers, listing, ontology>> /\ Spend
    BY <1>7 DEF ToggleColumn, Edit
  <2>3. /\ wizard'.inst = wizard.inst /\ wizard'.step = wizard.step
        /\ wizard'.target = wizard.target /\ wizard'.file = wizard.file /\ wizard'.open = wizard.open
    BY <1>0, <2>1 DEF WizardType
  <2>. QED  BY <1>0, <1>a, <2>2, <2>3 DEF WizardNames
<1>8. ASSUME NEW h \in [FileColumns -> TargetTypes], wizard' = [wizard EXCEPT !.target = h],
             UNCHANGED <<readers, listing, ontology>>, Spend
      PROVE  WizardNames'
  <2>1. /\ wizard'.inst = wizard.inst /\ wizard'.step = wizard.step
        /\ wizard'.target = h /\ wizard'.file = wizard.file /\ wizard'.open = wizard.open
    BY <1>0, <1>8 DEF WizardType
  <2>. QED  BY <1>0, <1>a, <1>8, <2>1 DEF WizardNames
<1>9. ASSUME NEW t \in TargetTypes, ChangePrimary(t) PROVE WizardNames'
  <2>1. PICK h : h = [c \in FileColumns |-> t]
    OBVIOUS
  <2>2. h \in [FileColumns -> TargetTypes]
    BY <2>1
  <2>. QED  BY <1>8, <1>9, <2>1, <2>2 DEF ChangePrimary, Edit
<1>10. ASSUME NEW c \in FileColumns, NEW t \in TargetTypes, UpdateMapping(c, t) PROVE WizardNames'
  <2>1. wizard.target \in [FileColumns -> TargetTypes]
    BY <1>0, <1>10 DEF UpdateMapping
  <2>2. PICK h : h = [wizard.target EXCEPT ![c] = t]
    OBVIOUS
  <2>4. h \in [FileColumns -> TargetTypes]
    BY <2>1, <2>2
  <2>3. wizard' = [wizard EXCEPT !.target = h]
    BY <1>0, <1>10, <2>2 DEF UpdateMapping, WizardType
  <2>. QED  BY <1>8, <1>10, <2>3, <2>4 DEF UpdateMapping, Edit
<1>11. CASE StartIngestion
  <2>1. /\ wizard' = [wizard EXCEPT !.ingesting = TRUE, !.finished = FALSE, !.failed = FALSE]
        /\ UNCHANGED <<readers, listing, ontology, edits>>
    BY <1>11 DEF StartIngestion
  <2>2. /\ wizard'.inst = wizard.inst /\ wizard'.active = wizard.active /\ wizard'.parsed = wizard.parsed
        /\ wizard'.target = wizard.target /\ wizard'.file = wizard.file /\ wizard'.open = wizard.open
        /\ wizard'.step = wizard.step
    BY <1>0, <2>1 DEF WizardType
  <2>. QED  BY <1>0, <1>b, <2>1, <2>2
<1>12. ASSUME wizard' = wizard, readers' \subseteq readers, listing' = listing, Spend \/ edits' = edits,
              ontology' \subseteq TargetTypes
       PROVE  WizardNames'
  BY <1>0, <1>a, <1>b, <1>12
<1>13. CASE Search \/ TurnPage \/ (\E f \in readers : FileRefused(f)) \/ UNCHANGED wizardVars
  BY <1>0, <1>12, <1>13 DEF Search, TurnPage, FileRefused, wizardVars, Edit
<1>14. ASSUME NEW a \in LiveAttempt, Ingest(a) PROVE WizardNames'
  <2>1. readers' = readers /\ listing' = listing /\ edits' = edits
    BY <1>14 DEF Ingest, RegisterTypes, RegisterConnection, Upload, SaveAndFinish
  <2>2. attempts[a].todo \subseteq TargetTypes
    BY DEF LiveAttempt, AttemptNames, AttemptNamed
  <2>3. ontology' \subseteq TargetTypes
    BY <1>0, <1>14, <2>2 DEF Ingest, RegisterTypes, RegisterConnection, Upload, SaveAndFinish
  <2>4. CASE wizard' = wizard
    BY <1>12, <2>1, <2>3, <2>4
  <2>5. CASE /\ wizard' # wizard
             /\ \/ wizard' = [wizard EXCEPT !.failed = TRUE, !.ingesting = FALSE]
                \/ wizard' = [wizard EXCEPT !.finished = TRUE, !.failed = FALSE, !.ingesting = FALSE]
    <3>1. /\ wizard'.inst = wizard.inst /\ wizard'.active = wizard.active /\ wizard'.parsed = wizard.parsed
          /\ wizard'.target = wizard.target /\ wizard'.file = wizard.file /\ wizard'.open = wizard.open
          /\ wizard'.step = wizard.step
      BY <1>0, <2>5 DEF WizardType
    <3>. QED  BY <1>0, <1>b, <2>1, <2>3, <3>1
  <2>6. GiveUp(a) => wizard' \in {wizard, [wizard EXCEPT !.failed = TRUE, !.ingesting = FALSE]}
    BY DEF GiveUp
  <2>7. SaveAndFinish(a) => wizard' \in {wizard, [wizard EXCEPT !.finished = TRUE, !.failed = FALSE,
                                                               !.ingesting = FALSE]}
    BY DEF SaveAndFinish
  <2>8. wizard' = wizard \/ GiveUp(a) \/ SaveAndFinish(a)
    BY <1>14 DEF Ingest, RegisterTypes, RegisterConnection, Upload
  <2>. QED  BY <2>4, <2>5, <2>6, <2>7, <2>8
<1>. QED  BY <1>1, <1>2, <1>3, <1>4, <1>5, <1>6, <1>7, <1>9, <1>10, <1>11, <1>13, <1>14 DEF WizardNext

LEMMA AttemptNamesStep ==
  ASSUME IngestInv, WizardNames, AttemptNames, [WizardNext]_wizardVars
  PROVE  AttemptNames'
<1>0. /\ attempts \in Seq(AttemptType) /\ stored \in Seq(StoredType) /\ wizard \in WizardType
      /\ Len(attempts) <= MaxAttempts /\ MaxAttempts \in Nat
      /\ \A a \in 1..Len(attempts) : AttemptNamed(attempts[a], stored)
      /\ \A i \in 1..Len(stored) : stored[i].file \in Files
  BY WizardAssumption DEF IngestInv, AttemptNames, WizardAssumption
<1>a. ASSUME UNCHANGED <<attempts, stored>> PROVE AttemptNames'
  BY <1>a DEF AttemptNames
\* One ingestion goes on.
<1>b. ASSUME NEW a \in 1..Len(attempts), NEW r \in AttemptType, attempts' = [attempts EXCEPT ![a] = r],
             AttemptNamed(r, stored'), Len(stored) <= Len(stored'), Len(stored') \in Nat,
             \A i \in 1..Len(stored') : stored'[i].file \in Files
      PROVE  AttemptNames'
  <2>1. PICK s : s = attempts' /\ s = [attempts EXCEPT ![a] = r]
    BY <1>b
  <2>2. Len(s) = Len(attempts) /\ s[a] = r /\ \A b \in 1..Len(attempts) : b # a => s[b] = attempts[b]
    BY <1>0, <2>1, LivesOn
  <2>3. ASSUME NEW b \in 1..Len(attempts) PROVE AttemptNamed(s[b], stored')
    <3>1. CASE b = a
      BY <1>b, <2>2, <3>1
    <3>2. CASE b # a
      <4>1. s[b] = attempts[b] /\ AttemptNamed(attempts[b], stored)
        BY <1>0, <2>2, <3>2
      <4>2. attempts[b] \in AttemptType
        BY <1>0
      <4>3. attempts[b].conn \in Nat
        BY <4>2 DEF AttemptType
      <4>4. Len(stored) \in Nat
        BY <1>0
      <4>. QED  BY <1>b, <4>1, <4>3, <4>4 DEF AttemptNamed
    <3>. QED  BY <3>1, <3>2
  <2>. QED  BY <1>0, <1>b, <2>1, <2>2, <2>3 DEF AttemptNames
\* It does so with the connection, the file and the types it has.
<1>c. ASSUME NEW a \in LiveAttempt, NEW r \in AttemptType, attempts' = [attempts EXCEPT ![a] = r],
             r.file = attempts[a].file, r.todo \subseteq attempts[a].todo, r.conn = attempts[a].conn,
             Len(stored') = Len(stored), \A i \in 1..Len(stored') : stored'[i].file \in Files
      PROVE  AttemptNames'
  <2>1. a \in 1..Len(attempts)
    BY DEF LiveAttempt
  <2>2. AttemptNamed(attempts[a], stored) /\ Len(stored) \in Nat
    BY <1>0, <2>1
  <2>3. AttemptNamed(r, stored')
    BY <1>c, <2>2 DEF AttemptNamed
  <2>4. Len(stored) <= Len(stored') /\ Len(stored') \in Nat
    BY <1>c, <2>2
  <2>. QED  BY <1>b, <1>c, <2>1, <2>3, <2>4
\* It comes to another state.
<1>d. ASSUME NEW a \in LiveAttempt,
             NEW pc \in {"types", "register", "upload", "again", "save", "done", "failed"},
             attempts' = [attempts EXCEPT ![a].pc = pc],
             Len(stored') = Len(stored), \A i \in 1..Len(stored') : stored'[i].file \in Files
      PROVE  AttemptNames'
  <2>1. a \in 1..Len(attempts) /\ attempts[a] \in AttemptType
    BY LiveTyped
  <2>. DEFINE r == [attempts[a] EXCEPT !.pc = pc]
  <2>2. attempts' = [attempts EXCEPT ![a] = r]
    BY <1>d, <2>1
  <2>3. r \in AttemptType /\ r.file = attempts[a].file /\ r.todo = attempts[a].todo
        /\ r.conn = attempts[a].conn
    BY <2>1 DEF AttemptType
  <2>. HIDE DEF r
  <2>. QED  BY <1>c, <1>d, <2>2, <2>3
<1>1. CASE StartIngestion
  <2>. DEFINE r == [pc |-> "types", inst |-> wizard.inst, file |-> wizard.file,
                    active |-> wizard.active, target |-> wizard.target,
                    todo |-> UsedTypes \ wizard.known, troubled |-> FALSE, conn |-> 0]
  <2>1. /\ attempts' = Append(attempts, r) /\ stored' = stored /\ wizard.step = 4
        /\ Len(attempts) < MaxAttempts
    BY <1>1 DEF StartIngestion, MayStart
  <2>2. wizard.file \in Files
    BY <2>1 DEF WizardNames
  <2>3. UsedTypes \subseteq TargetTypes
    <3>1. wizard.active \subseteq FileColumns
      BY <1>0 DEF WizardType
    <3>. QED  BY <3>1 DEF WizardNames, UsedTypes
  <2>4. r.file \in Files /\ r.todo \subseteq TargetTypes /\ r.conn = 0
    BY <2>2, <2>3
  <2>5. AttemptNamed(r, stored)
    <3>1. Len(stored) \in Nat
      BY <1>0
    <3>. QED  BY <2>4, <3>1 DEF AttemptNamed
  <2>. HIDE DEF r
  <2>6. /\ Len(attempts') = Len(attempts) + 1 /\ Len(attempts) \in Nat
        /\ attempts'[Len(attempts) + 1] = r
        /\ \A a \in 1..Len(attempts) : attempts'[a] = attempts[a]
    <3>1. \A s, e : s \in Seq(AttemptType) => Len(s) \in Nat
      OBVIOUS
    <3>. QED  BY <1>0, <2>1, <3>1
  <2>7. ASSUME NEW a \in 1..Len(attempts') PROVE AttemptNamed(attempts'[a], stored')
    <3>1. CASE a = Len(attempts) + 1
      BY <2>1, <2>5, <2>6, <3>1
    <3>2. CASE a \in 1..Len(attempts)
      BY <1>0, <2>1, <2>6, <3>2
    <3>. QED  BY <2>6, <3>1, <3>2
  <2>8. Len(attempts') <= MaxAttempts
    BY <1>0, <2>1, <2>6
  <2>. QED  BY <1>0, <2>1, <2>7, <2>8 DEF AttemptNames
<1>2. ASSUME NEW a \in LiveAttempt, RegisterTypes(a) PROVE AttemptNames'
  <2>1. a \in 1..Len(attempts) /\ attempts[a] \in AttemptType /\ stored' = stored
    BY <1>2, LiveTyped DEF RegisterTypes
  <2>2. CASE attempts' = [attempts EXCEPT ![a].pc = "register"]
    BY <1>0, <1>d, <2>1, <2>2
  <2>3. ASSUME NEW t \in attempts[a].todo, attempts' = [attempts EXCEPT ![a].todo = @ \ {t}]
        PROVE  AttemptNames'
    <3>1. PICK d : d = attempts[a].todo \ {t}
      OBVIOUS
    <3>. DEFINE r == [attempts[a] EXCEPT !.todo = d]
    <3>2. d \subseteq attempts[a].todo /\ d \subseteq AnyTarget
      BY <2>1, <3>1 DEF AttemptType
    <3>3. attempts' = [attempts EXCEPT ![a] = r]
      BY <2>1, <2>3, <3>1
    <3>4. r \in AttemptType /\ r.file = attempts[a].file /\ r.todo = d /\ r.conn = attempts[a].conn
      BY <2>1, <3>2 DEF AttemptType
    <3>. HIDE DEF r
    <3>. QED  BY <1>0, <1>c, <2>1, <3>2, <3>3, <3>4
  <2>4. CASE attempts' = [attempts EXCEPT ![a].pc = "register", ![a].troubled = TRUE]
    <3>. DEFINE r == [attempts[a] EXCEPT !.pc = "register", !.troubled = TRUE]
    <3>1. attempts' = [attempts EXCEPT ![a] = r]
      BY <2>1, <2>4
    <3>2. r \in AttemptType /\ r.file = attempts[a].file /\ r.todo = attempts[a].todo
          /\ r.conn = attempts[a].conn
      BY <2>1 DEF AttemptType
    <3>. HIDE DEF r
    <3>. QED  BY <1>0, <1>c, <2>1, <3>1, <3>2
  <2>. QED  BY <1>2, <2>2, <2>3, <2>4 DEF RegisterTypes
<1>3. ASSUME NEW a \in LiveAttempt, RegisterConnection(a) PROVE AttemptNames'
  <2>1. a \in 1..Len(attempts) /\ attempts[a] \in AttemptType /\ AttemptNamed(attempts[a], stored)
    BY <1>0, LiveTyped
  <2>2. CASE stored' = stored /\ attempts' = [attempts EXCEPT ![a].pc = "failed"]
    BY <1>0, <1>d, <2>2
  <2>3. CASE /\ stored' = Append(stored, [file |-> attempts[a].file, there |-> FALSE])
             /\ attempts' = [attempts EXCEPT ![a].pc = "upload", ![a].conn = Len(stored) + 1]
    <3>1. PICK x : x = [file |-> attempts[a].file, there |-> FALSE]
      OBVIOUS
    <3>2. x \in StoredType /\ x.file \in Files
      BY <2>1, <3>1 DEF StoredType, AttemptType, AttemptNamed
    <3>3. PICK n \in Nat : n = Len(stored)
      BY <1>0
    <3>4. stored' = Append(stored, x)
      BY <2>3, <3>1
    <3>5. /\ Len(stored') = n + 1 /\ stored'[n + 1] = x
          /\ \A i \in 1..n : stored'[i] = stored[i]
      BY <1>0, <3>2, <3>3, <3>4, AppendProperties
    <3>6. ASSUME NEW i \in 1..Len(stored') PROVE stored'[i].file \in Files
      <4>1. CASE i = n + 1
        BY <3>2, <3>5, <4>1
      <4>2. CASE i \in 1..n
        BY <1>0, <3>3, <3>5, <4>2
      <4>. QED  BY <3>5, <4>1, <4>2
    <3>7. PICK m \in Nat : m = n + 1
      OBVIOUS
    <3>. DEFINE r == [attempts[a] EXCEPT !.pc = "upload", !.conn = m]
    <3>8. attempts' = [attempts EXCEPT ![a] = r]
      BY <2>1, <2>3, <3>3, <3>7
    <3>9. r \in AttemptType /\ r.file = attempts[a].file /\ r.todo = attempts[a].todo /\ r.conn = m
      BY <2>1 DEF AttemptType
    <3>. HIDE DEF r
    <3>10. AttemptNamed(r, stored')
      BY <2>1, <3>5, <3>7, <3>9 DEF AttemptNamed
    <3>11. Len(stored) <= Len(stored') /\ Len(stored') \in Nat
      BY <3>3, <3>5
    <3>. QED  BY <1>b, <2>1, <3>6, <3>8, <3>9, <3>10, <3>11
  <2>. QED  BY <1>3, <2>2, <2>3 DEF RegisterConnection
<1>4. ASSUME NEW a \in LiveAttempt, Upload(a) PROVE AttemptNames'
  <2>. DEFINE k == attempts[a].conn
              uploaded == [stored EXCEPT ![k].there = TRUE]
  <2>1. Len(stored') = Len(stored) /\ \A i \in 1..Len(stored') : stored'[i].file \in Files
    <3>1. stored' \in {stored, uploaded}
      BY <1>4 DEF Upload
    <3>2. Len(uploaded) = Len(stored) /\ \A i \in 1..Len(stored) : uploaded[i].file \in Files
      <4>1. attempts[a].pc \in {"upload", "again"} /\ AttemptStored(attempts[a], stored)
        BY <1>4, LiveTyped DEF Upload
      <4>2. k \in 1..Len(stored)
        BY <4>1 DEF AttemptStored
      <4>3. stored[k] \in StoredType
        BY <1>0, <4>2
      <4>. DEFINE x == [stored[k] EXCEPT !.there = TRUE]
      <4>4. x \in StoredType /\ x.file = stored[k].file
        BY <4>3 DEF StoredType
      <4>5. uploaded = [stored EXCEPT ![k] = x]
        OBVIOUS
      <4>. HIDE DEF x, k, uploaded
      <4>6. Len(uploaded) = Len(stored) /\ uploaded[k] = x
            /\ \A i \in 1..Len(stored) : i # k => uploaded[i] = stored[i]
        <5>1. x \in StoredType /\ k \in 1..Len(stored) /\ stored \in Seq(StoredType)
          BY <1>0, <4>2, <4>4
        <5>. QED  BY <4>5, <5>1
      <4>7. ASSUME NEW i \in 1..Len(stored) PROVE uploaded[i].file \in Files
        <5>1. CASE i = k
          BY <1>0, <4>4, <4>6, <5>1
        <5>2. CASE i # k
          BY <1>0, <4>6, <5>2
        <5>. QED  BY <5>1, <5>2
      <4>. QED  BY <4>6, <4>7
    <3>. HIDE DEF uploaded
    <3>. QED  BY <1>0, <3>1, <3>2
  <2>2. PICK pc \in {"save", "again", "failed"} : attempts' = [attempts EXCEPT ![a].pc = pc]
    BY <1>4 DEF Upload, Unauthorised
  <2>. HIDE DEF uploaded, k
  <2>. QED  BY <1>d, <2>1, <2>2
<1>5. ASSUME NEW a \in LiveAttempt, SaveAndFinish(a) PROVE AttemptNames'
  BY <1>0, <1>5, <1>d DEF SaveAndFinish
<1>6. CASE UNCHANGED wizardVars
  BY <1>6, <1>a DEF wizardVars
<1>7. ASSUME NEW a \in LiveAttempt, Ingest(a) PROVE AttemptNames'
  BY <1>2, <1>3, <1>4, <1>5, <1>7 DEF Ingest
<1>8. CASE \/ OpenWizard \/ CloseWizard \/ OntologyArrives
           \/ (\E f \in Files : HandleFile(f)) \/ (\E f \in readers : FileRead(f) \/ FileRefused(f))
           \/ NextStep \/ PreviousStep \/ Search \/ TurnPage
           \/ (\E c \in FileColumns : ToggleColumn(c)) \/ (\E t \in TargetTypes : ChangePrimary(t))
           \/ (\E c \in FileColumns, t \in TargetTypes : UpdateMapping(c, t))
  BY <1>8, <1>a DEF OpenWizard, CloseWizard, OntologyArrives, HandleFile, FileRead, FileRefused, NextStep,
     PreviousStep, Step, Search, TurnPage, ToggleColumn, ChangePrimary, UpdateMapping
<1>. QED  BY <1>1, <1>6, <1>7, <1>8 DEF WizardNext

LEMMA WizTypedHold == WizardSpec => [](WizardNames /\ AttemptNames /\ PreviewTurned)
<1>1. WizardInit => WizardNames /\ AttemptNames /\ PreviewTurned
  <2>. SUFFICES ASSUME WizardInit PROVE WizardNames /\ AttemptNames /\ PreviewTurned
    OBVIOUS
  <2>1. MaxAttempts \in Nat /\ MaxEdits \in Nat /\ SeededTargets \subseteq TargetTypes
    BY WizardAssumption DEF WizardAssumption
  <2>2. /\ wizard = Fresh(0) /\ readers = {} /\ listing = TRUE /\ preview = FirstPage /\ attempts = <<>>
        /\ ontology = SeededTargets /\ stored = <<>> /\ edits = 0
    BY DEF WizardInit
  <2>3. /\ wizard.inst = 0 /\ wizard.active = {} /\ wizard.parsed = NoFile /\ wizard.step = 1
    BY <2>2 DEF Fresh
  <2>4. WizardNames
    BY <2>1, <2>2, <2>3 DEF WizardNames
  <2>5. Len(attempts) = 0 /\ Len(stored) = 0
    BY <2>2
  <2>6. AttemptNames
    BY <2>1, <2>5 DEF AttemptNames
  <2>7. PreviewTurned
    <3>1. PICK m \in Nat : m = PreviewPages(RowCount) /\ m >= 1
      <4>1. {} \subseteq FileColumns /\ FALSE \in BOOLEAN
        OBVIOUS
      <4>. QED  BY <4>1, PagesOfAll
    <3>2. preview.page = 1
      BY <2>2 DEF FirstPage
    <3>. QED  BY <3>1, <3>2 DEF PreviewTurned
  <2>. QED  BY <2>4, <2>6, <2>7
<1>2. WizardInv /\ IngestInv /\ WizardNames /\ AttemptNames /\ PreviewTurned /\ [WizardNext]_wizardVars
        => WizardNames' /\ AttemptNames' /\ PreviewTurned'
  BY WizardNamesStep, AttemptNamesStep, PreviewTurnedStep
<1>. QED  BY <1>1, <1>2, WizardHolds, IngestHolds, PTL DEF WizardSpec

(* --------------------------- ontology versions -------------------------- *)
(* An answer to a comparison carries the visit it was asked in, and a       *)
(* window that has the same visit was opened for the same version.          *)
VersionsInv ==
  /\ visits2 \in Nat
  /\ diffView = [open |-> diffView.open, inst |-> diffView.inst, loading |-> diffView.loading,
                 version |-> diffView.version, diff |-> diffView.diff]
  /\ diffView.open \in BOOLEAN /\ (diffView.open => diffView.inst < visits2)
  /\ diffView.inst \in Nat
  /\ \A p \in posts : p.op = "diff" =>
       p.inst \in Nat /\ p.inst < visits2 /\ (OwnDiff(p) => p.id = diffView.version)
  /\ \A p \in posts : p.op = "compared" =>
       p.inst \in Nat /\ p.inst < visits2 /\ (OwnDiff(p) => p.diff.version = diffView.version)
  /\ DiffIsOfVersion

\* What a step does to the requests, when it opens no window.
LEMMA SameWindow ==
  ASSUME VersionsInv, diffView' = diffView, visits2' \in Nat, visits2' >= visits2,
         \A p \in posts' : p.op \in {"diff", "compared"} =>
           \/ p \in posts
           \/ \E q \in posts : q.op = "diff" /\ p.op = "compared" /\ p.inst = q.inst
                               /\ p.diff.version = q.id
  PROVE  VersionsInv'
<1>1. \A p : OwnDiff(p)' <=> OwnDiff(p)
  BY DEF OwnDiff, Ours
<1>2. diffView'.open => diffView'.inst < visits2'
  BY DEF VersionsInv
<1>3. ASSUME NEW p \in posts', p.op = "diff"
      PROVE  p.inst \in Nat /\ p.inst < visits2' /\ (OwnDiff(p)' => p.id = diffView.version)
  <2>1. p \in posts
    BY <1>3
  <2>2. p.inst \in Nat /\ p.inst < visits2 /\ (OwnDiff(p) => p.id = diffView.version)
    BY <1>3, <2>1 DEF VersionsInv
  <2>3. visits2 \in Nat
    BY DEF VersionsInv
  <2>. QED  BY <1>1, <2>2, <2>3
<1>4. ASSUME NEW p \in posts', p.op = "compared"
      PROVE  p.inst \in Nat /\ p.inst < visits2'
             /\ (OwnDiff(p)' => p.diff.version = diffView.version)
  <2>1. p.inst \in Nat /\ p.inst < visits2 /\ (OwnDiff(p) => p.diff.version = diffView.version)
    <3>1. CASE p \in posts
      BY <1>4, <3>1 DEF VersionsInv
    <3>2. ASSUME NEW q \in posts, q.op = "diff", p.inst = q.inst, p.diff.version = q.id
          PROVE  p.inst \in Nat /\ p.inst < visits2
                 /\ (OwnDiff(p) => p.diff.version = diffView.version)
      <4>1. q.inst \in Nat /\ q.inst < visits2 /\ (OwnDiff(q) => q.id = diffView.version)
        BY <3>2 DEF VersionsInv
      <4>2. OwnDiff(p) => OwnDiff(q)
        BY <3>2 DEF OwnDiff, Ours
      <4>. QED  BY <3>2, <4>1, <4>2
    <3>. QED  BY <1>4, <3>1, <3>2
  <2>2. visits2 \in Nat
    BY DEF VersionsInv
  <2>. QED  BY <1>1, <2>1, <2>2
<1>. QED  BY <1>2, <1>3, <1>4 DEF VersionsInv, DiffIsOfVersion

LEMMA VersionsSteps == ASSUME VersionsInv, VersionsNext PROVE VersionsInv'
<1>a. visits2 \in Nat /\ visits2 + 1 >= visits2 /\ visits2 >= visits2
  BY DEF VersionsInv
<1>1. CASE LeaveVersions \/ ClosePublisher \/ \E t \in OwnTags : EnterTag(t)
  BY <1>1, <1>a, SameWindow DEF LeaveVersions, ClosePublisher, EnterTag
<1>2. CASE OpenVersions \/ OpenPublisher \/ Publish \/ \E t \in Types : EditSchema(t)
  <2>1. /\ diffView' = diffView /\ visits2' \in {visits2, visits2 + 1}
        /\ \A p \in posts' : p \in posts \/ p.op \in {"versions", "publish"}
    BY <1>2 DEF OpenVersions, OpenPublisher, Publish, EditSchema, Visit2, AskVersions
  <2>. QED  BY <1>a, <2>1, SameWindow
<1>3. ASSUME NEW p \in posts, ServeVersions(p) \/ VersionsArrive(p) \/ Snapshot(p) \/ Insert(p)
               \/ PublishedArrives(p) \/ PublishFails(p)
      PROVE  VersionsInv'
  <2>1. diffView' = diffView /\ visits2' = visits2
    BY <1>3 DEF ServeVersions, VersionsArrive, Snapshot, Insert, PublishedArrives, PublishFails
  <2>2. \E c : posts' \subseteq posts \cup {c} /\ c.op \in {"listed", "insert", "published", "versions"}
    <3>1. CASE ServeVersions(p)
      BY <3>1 DEF ServeVersions
    <3>2. CASE Snapshot(p)
      <4>. DEFINE c == [op |-> "insert", inst |-> p.inst, tag |-> p.tag, types |-> schemaNow]
      <4>1. posts' = (posts \ {p}) \cup {c} /\ c.op = "insert"
        BY <3>2 DEF Snapshot
      <4>. HIDE DEF c
      <4>. QED  BY <4>1
    <3>3. CASE Insert(p)
      BY <3>3 DEF Insert
    <3>4. CASE VersionsArrive(p) \/ PublishedArrives(p) \/ PublishFails(p)
      <4>1. posts' \subseteq posts \cup {AskVersions} /\ AskVersions.op = "versions"
        BY <3>4 DEF VersionsArrive, PublishedArrives, PublishFails, AskVersions
      <4>. QED  BY <4>1
    <3>. QED  BY <1>3, <3>1, <3>2, <3>3, <3>4
  <2>. QED  BY <1>a, <2>1, <2>2, SameWindow
<1>4. ASSUME NEW p \in posts, ServeDiff(p) PROVE VersionsInv'
  <2>. DEFINE d == DiffOf(p.id)
              c == [op |-> "compared", inst |-> p.inst, diff |-> d]
  <2>1. diffView' = diffView /\ visits2' = visits2 /\ p.op = "diff"
        /\ posts' = (posts \ {p}) \cup {c}
    BY <1>4 DEF ServeDiff
  <2>2. d.version = p.id
    BY DEF DiffOf
  <2>3. c.op = "compared" /\ c.inst = p.inst /\ c.diff.version = p.id
    BY <2>2
  <2>. HIDE DEF c
  <2>. QED  BY <1>a, <2>1, <2>3, SameWindow
<1>5. ASSUME NEW k \in VersionIds, OpenDiff(k) PROVE VersionsInv'
  <2>. DEFINE c == [op |-> "diff", inst |-> visits2, id |-> k]
              v == [open |-> TRUE, inst |-> visits2, loading |-> TRUE, version |-> k, diff |-> NoDiff]
  <2>1. diffView' = v /\ visits2' = visits2 + 1 /\ posts' = posts \cup {c}
    BY <1>5 DEF OpenDiff, Visit2
  <2>2. c.op = "diff" /\ c.inst = visits2 /\ c.id = k
    OBVIOUS
  <2>3. v.open = TRUE /\ v.inst = visits2 /\ v.version = k /\ v.diff = NoDiff
        /\ v = [open |-> v.open, inst |-> v.inst, loading |-> v.loading, version |-> v.version,
                diff |-> v.diff]
    OBVIOUS
  <2>. HIDE DEF c, v
  <2>4. \A p \in posts : p.op \in {"diff", "compared"} =>
          p.inst \in Nat /\ p.inst < visits2 /\ ~OwnDiff(p)'
    <3>1. ASSUME NEW p \in posts, p.op \in {"diff", "compared"}
          PROVE  p.inst \in Nat /\ p.inst < visits2
      BY <3>1 DEF VersionsInv
    <3>2. ASSUME NEW p \in posts, p.inst \in Nat, p.inst < visits2 PROVE p.inst # visits2
      BY <1>a, <3>2
    <3>. QED  BY <2>1, <2>3, <3>1, <3>2 DEF OwnDiff, Ours
  <2>5. OwnDiff(c)' => c.id = diffView'.version
    BY <2>1, <2>2, <2>3
  <2>6. \A p \in posts : p.op \in {"diff", "compared"} => p.inst < visits2 + 1
    BY <1>a, <2>4
  <2>7. visits2 + 1 \in Nat /\ visits2 < visits2 + 1
    BY <1>a
  <2>. QED  BY <1>a, <2>1, <2>2, <2>3, <2>4, <2>5, <2>6, <2>7 DEF VersionsInv, DiffIsOfVersion
<1>6. CASE CloseDiff
  <2>1. diffView' = NoDiffView /\ posts' = posts /\ visits2' = visits2
    BY <1>6 DEF CloseDiff
  <2>2. NoDiffView.open = FALSE /\ NoDiffView.inst = 0 /\ NoDiffView.diff = NoDiff
        /\ NoDiffView = [open |-> NoDiffView.open, inst |-> NoDiffView.inst,
             loading |-> NoDiffView.loading, version |-> NoDiffView.version, diff |-> NoDiffView.diff]
    BY DEF NoDiffView
  <2>3. \A p : ~OwnDiff(p)'
    BY <2>1, <2>2 DEF OwnDiff, Ours
  <2>4. /\ diffView'.open = FALSE /\ diffView'.inst \in Nat /\ diffView'.diff = NoDiff
        /\ diffView' = [open |-> diffView'.open, inst |-> diffView'.inst,
             loading |-> diffView'.loading, version |-> diffView'.version, diff |-> diffView'.diff]
    BY <2>1, <2>2
  <2>. QED  BY <2>1, <2>3, <2>4 DEF VersionsInv, DiffIsOfVersion
<1>7. ASSUME NEW p \in posts, DiffArrives(p) PROVE VersionsInv'
  <2>1. posts' = posts \ {p} /\ visits2' = visits2 /\ p.op \in {"compared", "diff"}
    BY <1>7 DEF DiffArrives
  <2>2. CASE diffView' = diffView
    BY <1>a, <2>1, <2>2, SameWindow
  <2>3. CASE OwnDiff(p) /\ diffView' # diffView
    <3>1. /\ diffView'.open = diffView.open /\ diffView'.inst = diffView.inst
          /\ diffView'.version = diffView.version
          /\ diffView' = [open |-> diffView'.open, inst |-> diffView'.inst,
               loading |-> diffView'.loading, version |-> diffView'.version, diff |-> diffView'.diff]
          /\ diffView'.diff = diffView.diff \/ (p.op = "compared" /\ diffView'.diff = p.diff)
      BY <1>7, <2>1, <2>3 DEF DiffArrives, VersionsInv
    <3>2. \A q : OwnDiff(q)' <=> OwnDiff(q)
      BY <3>1 DEF OwnDiff, Ours
    <3>3. DiffIsOfVersion'
      BY <2>3, <3>1 DEF VersionsInv, DiffIsOfVersion
    <3>. QED  BY <2>1, <3>1, <3>2, <3>3 DEF VersionsInv
  <2>. QED  BY <1>7, <2>2, <2>3 DEF DiffArrives
<1>. QED  BY <1>1, <1>2, <1>3, <1>4, <1>5, <1>6, <1>7 DEF VersionsNext, VersionPost

LEMMA VersionsHold == VersionsSpec => []VersionsInv
<1>1. VersionsInit => VersionsInv
  <2>1. NoDiffView.open = FALSE /\ NoDiffView.inst = 0 /\ NoDiffView.diff = NoDiff
        /\ NoDiffView = [open |-> NoDiffView.open, inst |-> NoDiffView.inst,
             loading |-> NoDiffView.loading, version |-> NoDiffView.version, diff |-> NoDiffView.diff]
    BY DEF NoDiffView
  <2>. SUFFICES ASSUME VersionsInit PROVE VersionsInv
    OBVIOUS
  <2>2. diffView = NoDiffView /\ posts = {} /\ visits2 = 0
    BY DEF VersionsInit
  <2>3. /\ diffView.open = FALSE /\ diffView.inst = 0 /\ diffView.diff = NoDiff
        /\ diffView = [open |-> diffView.open, inst |-> diffView.inst,
             loading |-> diffView.loading, version |-> diffView.version, diff |-> diffView.diff]
    BY <2>1, <2>2
  <2>4. posts = {} /\ visits2 = 0
    BY <2>2
  <2>5. visits2 \in Nat /\ diffView.inst \in Nat /\ diffView.open \in BOOLEAN /\ ~diffView.open
    <3>1. diffView.open \in BOOLEAN /\ ~diffView.open
      BY <2>3
    <3>2. visits2 \in Nat /\ diffView.inst \in Nat
      <4>1. diffView.inst = 0
        BY <2>3
      <4>. QED  BY <2>4, <4>1
    <3>. QED  BY <3>1, <3>2
  <2>6. \A p \in posts : FALSE
    BY <2>4
  <2>7. DiffIsOfVersion
    BY <2>3 DEF DiffIsOfVersion
  <2>. QED  BY <2>3, <2>5, <2>6, <2>7 DEF VersionsInv
<1>2. VersionsInv /\ [VersionsNext]_versionVars => VersionsInv'
  <2>. SUFFICES ASSUME VersionsInv, [VersionsNext]_versionVars PROVE VersionsInv'
    OBVIOUS
  <2>1. CASE UNCHANGED versionVars
    BY <2>1, SameWindow DEF versionVars, VersionsInv
  <2>. QED  BY <2>1, VersionsSteps
<1>. QED  BY <1>1, <1>2, PTL DEF VersionsSpec

(* A snapshot holds types; the lists, the answers and the window that       *)
(* compares know versions that were released.                               *)
Releases(l) == \E T : l \in Seq(T) /\ \A r \in T : r.types \subseteq Types

Knows(p) ==
  /\ p.op = "listed" => p.ids \in Seq(1..Len(released))
  /\ p.op = "published" => p.id \in 1..Len(released)
  /\ p.op = "insert" => p.types \subseteq Types

VersionsKnown ==
  /\ board = [shown |-> board.shown, list |-> board.list]
  /\ board.list \in Seq(1..Len(released)) /\ Releases(released) /\ schemaNow \subseteq Types
  /\ diffView.version \in {0} \cup 1..Len(released)
  /\ \A p \in posts : Knows(p)

\* One request to publish is under way for a window that is busy, none for
\* one that is not, and no window had the number of the next.
Publishing == {p \in posts : p.op \in {"publish", "insert"}}
OfWindow(i) == {p \in posts : p.op \in {"publish", "insert", "published"} /\ p.inst = i}

VersionsPublish ==
  /\ publisher = [open |-> publisher.open, inst |-> publisher.inst, busy |-> publisher.busy,
                  tag |-> publisher.tag]
  /\ publisher.open \in BOOLEAN /\ publisher.busy \in BOOLEAN /\ visits2 \in 0..MaxVisits2
  /\ publisher.open => publisher.inst \in Nat /\ publisher.inst < visits2 /\ ~diffView.open
  /\ \A p \in posts : p.op \in {"publish", "insert", "published"} => p.inst \in Nat /\ p.inst < visits2
  /\ publisher.open /\ ~publisher.busy => OfWindow(publisher.inst) = {}
  /\ publisher.open /\ publisher.busy => \E p : OfWindow(publisher.inst) \subseteq {p}

\* There is room for every version that is being published.
VersionsRoom ==
  /\ IsFiniteSet(posts) /\ Len(released) \in Nat
  /\ Cardinality(Publishing) + Len(released) <= MaxVersions

(* The comparisons of any history lead from nothing to each of its          *)
(* versions: whatever function satisfies the recursion agrees with them.    *)
LEMMA ReplayedTypes ==
  ASSUME Releases(released)
  PROVE  DiffsReplay
<1>1. PICK T : released \in Seq(T) /\ \A r \in T : r.types \subseteq Types
  BY DEF Releases
<1>2. DOMAIN released = 1..Len(released) /\ Len(released) \in Nat
  BY <1>1
<1>. DEFINE n == Len(released)
            Replays(f) == f = [k \in 0..n |->
              IF k = 0 THEN {} ELSE (f[k - 1] \ DiffOf(k).removed) \cup DiffOf(k).added]
<1>3. \A k : DiffOf(k).added = TypesOf(k) \ TypesOf(k - 1)
             /\ DiffOf(k).removed = TypesOf(k - 1) \ TypesOf(k)
  BY DEF DiffOf, PreviousOf
<1>4. TypesOf(0) = {}
  BY <1>2 DEF TypesOf
<1>5. \E f : Replays(f)
  <2>. DEFINE f == [k \in 0..n |-> TypesOf(k)]
  <2>1. \A k \in 0..n : k # 0 => k - 1 \in 0..n
    BY <1>2
  <2>2. \A k \in 0..n :
          f[k] = IF k = 0 THEN {} ELSE (f[k - 1] \ DiffOf(k).removed) \cup DiffOf(k).added
    <3>. TAKE k \in 0..n
    <3>1. CASE k = 0
      BY <1>4, <3>1
    <3>2. CASE k # 0
      <4>1. f[k] = TypesOf(k) /\ f[k - 1] = TypesOf(k - 1)
        BY <2>1, <3>2
      <4>2. TypesOf(k) = (TypesOf(k - 1) \ (TypesOf(k - 1) \ TypesOf(k))) \cup (TypesOf(k) \ TypesOf(k - 1))
        OBVIOUS
      <4>. QED  BY <1>3, <3>2, <4>1, <4>2
    <3>. QED  BY <3>1, <3>2
  <2>3. f = [k \in 0..n |-> f[k]]
    OBVIOUS
  <2>. HIDE DEF f
  <2>4. Replays(f)
    BY <2>2, <2>3
  <2>. QED  BY <2>4
<1>6. ASSUME NEW f, Replays(f) PROVE \A k \in 1..n : f[k] = released[k].types
  <2>. DEFINE S == {k \in Nat : k <= n => f[k] = TypesOf(k)}
  <2>1. \A k \in 0..n :
          f[k] = IF k = 0 THEN {} ELSE (f[k - 1] \ DiffOf(k).removed) \cup DiffOf(k).added
    BY <1>6
  <2>2. 0 \in S
    <3>1. 0 \in 0..n
      BY <1>2
    <3>2. f[0] = {}
      BY <2>1, <3>1
    <3>. QED  BY <1>4, <3>2
  <2>3. ASSUME NEW k \in Nat, k \in S PROVE k + 1 \in S
    <3>1. SUFFICES ASSUME k + 1 <= n PROVE f[k + 1] = TypesOf(k + 1)
      OBVIOUS
    <3>2. f[k] = TypesOf(k)
      BY <1>2, <2>3, <3>1
    <3>3. k + 1 \in 0..n /\ k + 1 # 0 /\ (k + 1) - 1 = k
      BY <1>2, <3>1
    <3>4. f[k + 1] = (f[k] \ DiffOf(k + 1).removed) \cup DiffOf(k + 1).added
      BY <2>1, <3>3
    <3>5. /\ DiffOf(k + 1).added = TypesOf(k + 1) \ TypesOf(k)
          /\ DiffOf(k + 1).removed = TypesOf(k) \ TypesOf(k + 1)
      BY <1>3, <3>3
    <3>. QED  BY <3>2, <3>4, <3>5
  <2>4. Nat \subseteq S
    <3>. HIDE DEF S
    <3>. QED  BY <2>2, <2>3, Counting
  <2>5. \A k \in 1..n : k \in Nat /\ k <= n
    BY <1>2
  <2>. QED  BY <1>2, <2>4, <2>5 DEF TypesOf
<1>7. PICK f : f = CHOOSE g : Replays(g)
  OBVIOUS
<1>8. Replays(f)
  <2>. HIDE DEF Replays
  <2>. QED  BY <1>5, <1>7
<1>9. \A k \in 1..n : f[k] = released[k].types
  <2>. HIDE DEF Replays
  <2>. QED  BY <1>6, <1>8
<1>. QED  BY <1>2, <1>7, <1>9 DEF DiffsReplay

\* A step that releases nothing.
LEMMA KnownStays ==
  ASSUME VersionsKnown, released' = released, schemaNow' \subseteq Types,
         board' = [shown |-> board'.shown, list |-> board'.list],
         board'.list \in Seq(1..Len(released)),
         diffView'.version \in {0} \cup 1..Len(released),
         \A p \in posts' : p \in posts \/ Knows(p)
  PROVE  VersionsKnown'
<1>1. \A p \in posts' : Knows(p)'
  BY DEF VersionsKnown, Knows
<1>2. Releases(released')
  BY DEF VersionsKnown
<1>. QED  BY <1>1, <1>2 DEF VersionsKnown, Releases

LEMMA KnownReleased ==
  ASSUME VersionsKnown, NEW p \in posts, Insert(p)
  PROVE  VersionsKnown'
<1>. DEFINE r == [tag |-> p.tag, types |-> p.types]
<1>0. PICK c : c = [op |-> "published", inst |-> p.inst, id |-> Len(released) + 1]
  OBVIOUS
<1>1. PICK T : released \in Seq(T) /\ \A x \in T : x.types \subseteq Types
  BY DEF VersionsKnown, Releases
<1>2. released' = Append(released, r) /\ posts' = (posts \ {p}) \cup {c} /\ board' = board
      /\ diffView' = diffView /\ schemaNow' = schemaNow
  BY <1>0 DEF Insert
<1>3. r.types \subseteq Types
  BY DEF Insert, VersionsKnown, Knows
<1>4. c.op = "published" /\ c.id = Len(released) + 1
  BY <1>0
<1>. HIDE DEF r
<1>5. PICK U : U = T \cup {r}
  OBVIOUS
<1>6. Len(released) \in Nat /\ Len(released') = Len(released) + 1 /\ released' \in Seq(U)
      /\ \A x \in U : x.types \subseteq Types
  BY <1>1, <1>2, <1>3, <1>5
<1>7. 1..Len(released) \subseteq 1..Len(released')
  BY <1>6
<1>8. Releases(released')
  BY <1>6 DEF Releases
<1>9. \A l : l \in Seq(1..Len(released)) => l \in Seq(1..Len(released'))
  BY <1>7
<1>10. \A q \in posts' : Knows(q)'
  <2>1. Knows(c)'
    BY <1>4, <1>6 DEF Knows
  <2>2. \A q \in posts : Knows(q)'
    BY <1>7, <1>9 DEF VersionsKnown, Knows
  <2>. QED  BY <1>2, <2>1, <2>2
<1>. QED  BY <1>2, <1>7, <1>8, <1>9, <1>10 DEF VersionsKnown

LEMMA KnownAnswered ==
  ASSUME VersionsKnown, NEW p \in posts,
         ServeVersions(p) \/ VersionsArrive(p) \/ Snapshot(p) \/ PublishedArrives(p)
           \/ PublishFails(p) \/ ServeDiff(p)
  PROVE  VersionsKnown'
<1>1. /\ released' = released /\ schemaNow' = schemaNow /\ diffView' = diffView
      /\ schemaNow \subseteq Types /\ diffView.version \in {0} \cup 1..Len(released)
      /\ board = [shown |-> board.shown, list |-> board.list] /\ board.list \in Seq(1..Len(released))
      /\ Knows(p)
  BY DEF ServeVersions, VersionsArrive, Snapshot, PublishedArrives, PublishFails, ServeDiff,
         VersionsKnown
<1>2. CASE ServeVersions(p)
  <2>. DEFINE l == [i \in DOMAIN released |-> i]
              c == [op |-> "listed", ids |-> Reverse(l)]
  <2>1. PICK T : released \in Seq(T)
    BY DEF VersionsKnown, Releases
  <2>2. Len(released) \in Nat /\ DOMAIN released = 1..Len(released)
    BY <2>1
  <2>3. l = [i \in 1..Len(released) |-> i]
    BY <2>2
  <2>4. l \in Seq(1..Len(released)) /\ Len(l) = Len(released) /\ \A i \in 1..Len(released) : l[i] = i
    BY <2>2, <2>3
  <2>5. Reverse(l) = [i \in 1..Len(l) |-> l[(Len(l) - i) + 1]]
    BY DEF Reverse
  <2>. HIDE DEF l
  <2>6. \A i \in 1..Len(l) : l[(Len(l) - i) + 1] \in 1..Len(released)
    <3>1. \A i \in 1..Len(l) : (Len(l) - i) + 1 \in 1..Len(released)
      BY <2>2, <2>4
    <3>. QED  BY <2>4, <3>1
  <2>7. Reverse(l) \in Seq(1..Len(released))
    BY <2>2, <2>4, <2>5, <2>6
  <2>8. Knows(c)
    BY <2>7 DEF Knows
  <2>9. posts' = (posts \ {p}) \cup {c} /\ board' = board
    BY <1>2 DEF ServeVersions, l
  <2>. HIDE DEF c
  <2>. QED  BY <1>1, <2>8, <2>9, KnownStays
<1>3. CASE VersionsArrive(p)
  <2>1. posts' = posts \ {p} /\ board' = (IF p.op = "listed" THEN [board EXCEPT !.list = p.ids] ELSE board)
    BY <1>3 DEF VersionsArrive
  <2>2. board' = [shown |-> board'.shown, list |-> board'.list] /\ board'.list \in Seq(1..Len(released))
    BY <1>1, <2>1 DEF Knows
  <2>. QED  BY <1>1, <2>1, <2>2, KnownStays
<1>4. CASE Snapshot(p)
  <2>. DEFINE c == [op |-> "insert", inst |-> p.inst, tag |-> p.tag, types |-> schemaNow]
  <2>1. posts' = (posts \ {p}) \cup {c} /\ board' = board
    BY <1>4 DEF Snapshot
  <2>2. Knows(c)
    BY <1>1 DEF Knows
  <2>. HIDE DEF c
  <2>. QED  BY <1>1, <2>1, <2>2, KnownStays
<1>5. CASE PublishedArrives(p)
  <2>1. board' = [shown |-> TRUE, list |-> <<p.id>> \o board.list] /\ p.op = "published"
    BY <1>5 DEF PublishedArrives
  <2>2. <<p.id>> \in Seq(1..Len(released))
    BY <1>1, <2>1 DEF Knows
  <2>3. <<p.id>> \o board.list \in Seq(1..Len(released))
    BY <1>1, <2>2, ConcatProperties
  <2>4. \A q \in posts' : q \in posts \/ q.op = "versions"
    BY <1>5 DEF PublishedArrives, AskVersions
  <2>5. \A q \in posts' : q \in posts \/ Knows(q)
    BY <2>4 DEF Knows
  <2>. QED  BY <1>1, <2>1, <2>3, <2>5, KnownStays
<1>6. CASE PublishFails(p)
  BY <1>1, <1>6, KnownStays DEF PublishFails
<1>7. CASE ServeDiff(p)
  <2>1. board' = board /\ \A q \in posts' : q \in posts \/ q.op = "compared"
    BY <1>7 DEF ServeDiff
  <2>2. \A q \in posts' : q \in posts \/ Knows(q)
    BY <2>1 DEF Knows
  <2>. QED  BY <1>1, <2>1, <2>2, KnownStays
<1>. QED  BY <1>2, <1>3, <1>4, <1>5, <1>6, <1>7

LEMMA KnownSteps == ASSUME VersionsInv, VersionsKnown, VersionsNext PROVE VersionsKnown'
<1>1. /\ schemaNow \subseteq Types /\ diffView.version \in {0} \cup 1..Len(released)
      /\ board = [shown |-> board.shown, list |-> board.list] /\ board.list \in Seq(1..Len(released))
  BY DEF VersionsKnown
<1>2. CASE LeaveVersions \/ OpenVersions
  <2>1. PICK b : board' = [board EXCEPT !.shown = b]
    BY <1>2 DEF LeaveVersions, OpenVersions
  <2>2. \A q \in posts' : q \in posts \/ q.op = "versions"
    BY <1>2 DEF LeaveVersions, OpenVersions, AskVersions
  <2>3. \A q \in posts' : q \in posts \/ Knows(q)
    BY <2>2 DEF Knows
  <2>4. board' = [shown |-> board'.shown, list |-> board'.list] /\ board'.list = board.list
    BY <1>1, <2>1
  <2>5. released' = released /\ schemaNow' = schemaNow /\ diffView' = diffView
    BY <1>2 DEF LeaveVersions, OpenVersions
  <2>. QED  BY <1>1, <2>3, <2>4, <2>5, KnownStays
<1>3. ASSUME OpenPublisher \/ ClosePublisher \/ Publish \/ \E t \in OwnTags : EnterTag(t)
      PROVE  VersionsKnown'
  <2>1. /\ released' = released /\ schemaNow' = schemaNow /\ diffView' = diffView /\ board' = board
        /\ \A q \in posts' : q \in posts \/ q.op = "publish"
    BY <1>3 DEF OpenPublisher, ClosePublisher, Publish, EnterTag
  <2>2. \A q \in posts' : q \in posts \/ Knows(q)
    BY <2>1 DEF Knows
  <2>. QED  BY <1>1, <2>1, <2>2, KnownStays
<1>4. ASSUME NEW t \in Types, EditSchema(t) PROVE VersionsKnown'
  <2>1. schemaNow' \subseteq Types
    BY <1>1, <1>4 DEF EditSchema
  <2>. QED  BY <1>1, <1>4, <2>1, KnownStays DEF EditSchema
<1>5. CASE CloseDiff
  <2>1. diffView'.version = 0
    BY <1>5 DEF CloseDiff, NoDiffView
  <2>. QED  BY <1>1, <1>5, <2>1, KnownStays DEF CloseDiff
<1>6. ASSUME NEW k \in VersionIds, OpenDiff(k) PROVE VersionsKnown'
  <2>1. k \in Range(board.list) /\ diffView'.version = k
    BY <1>6 DEF OpenDiff
  <2>2. k \in 1..Len(released)
    BY <1>1, <2>1 DEF Range
  <2>3. /\ released' = released /\ schemaNow' = schemaNow /\ board' = board
        /\ \A q \in posts' : q \in posts \/ q.op = "diff"
    BY <1>6 DEF OpenDiff
  <2>4. \A q \in posts' : q \in posts \/ Knows(q)
    BY <2>3 DEF Knows
  <2>. QED  BY <1>1, <2>1, <2>2, <2>3, <2>4, KnownStays
<1>7. ASSUME NEW p \in posts, DiffArrives(p) PROVE VersionsKnown'
  <2>1. /\ released' = released /\ schemaNow' = schemaNow /\ board' = board /\ posts' \subseteq posts
        /\ \/ diffView' = diffView
           \/ diffView' = [diffView EXCEPT !.loading = FALSE, !.diff = p.diff]
           \/ diffView' = [diffView EXCEPT !.loading = FALSE]
    BY <1>7 DEF DiffArrives
  <2>2. diffView'.version = diffView.version
    BY <2>1 DEF VersionsInv
  <2>. QED  BY <1>1, <2>1, <2>2, KnownStays
<1>. QED  BY <1>2, <1>3, <1>4, <1>5, <1>6, <1>7, KnownReleased, KnownAnswered DEF VersionsNext, VersionPost

\* A step that leaves the window and what is published as they are.
LEMMA PublishStays ==
  ASSUME VersionsPublish,
         publisher' = [open |-> publisher'.open, inst |-> publisher'.inst, busy |-> publisher'.busy,
                       tag |-> publisher'.tag],
         publisher'.open = publisher.open, publisher'.inst = publisher.inst,
         publisher'.busy = publisher.busy, visits2' \in 0..MaxVisits2, visits2 <= visits2',
         publisher.open /\ diffView'.open => diffView.open,
         \A p \in posts' : p \in posts \/ p.op \notin {"publish", "insert", "published"}
  PROVE  VersionsPublish'
<1>1. MaxVisits2 \in Nat /\ visits2 \in Nat /\ visits2' \in Nat
  BY VersionsAssumption DEF VersionsPublish
<1>2. \A p \in posts' : p.op \in {"publish", "insert", "published"} => p.inst \in Nat /\ p.inst < visits2
  BY DEF VersionsPublish
<1>3. \A p \in posts' : p.op \in {"publish", "insert", "published"} => p.inst \in Nat /\ p.inst < visits2'
  BY <1>1, <1>2
<1>4. publisher'.open => publisher'.inst \in Nat /\ publisher'.inst < visits2' /\ ~diffView'.open
  <2>1. publisher.open => publisher.inst \in Nat /\ publisher.inst < visits2 /\ ~diffView.open
    BY DEF VersionsPublish
  <2>2. publisher.open => publisher.inst < visits2'
    BY <1>1, <2>1
  <2>. QED  BY <2>1, <2>2
<1>5. {p \in posts' : p.op \in {"publish", "insert", "published"} /\ p.inst = publisher'.inst}
        \subseteq OfWindow(publisher.inst)
  BY DEF OfWindow
<1>6. publisher'.open /\ ~publisher'.busy => OfWindow(publisher.inst) = {}
  BY DEF VersionsPublish
<1>7. publisher'.open /\ publisher'.busy => \E p : OfWindow(publisher.inst) \subseteq {p}
  BY DEF VersionsPublish
<1>8. publisher'.open \in BOOLEAN /\ publisher'.busy \in BOOLEAN
  BY DEF VersionsPublish
<1>. QED  BY <1>3, <1>4, <1>5, <1>6, <1>7, <1>8 DEF VersionsPublish, OfWindow

\* The next request of a publication takes the place of the one before.
LEMMA PublishGoesOn ==
  ASSUME VersionsPublish, NEW p \in posts, NEW c,
         p.op \in {"publish", "insert"}, c.inst = p.inst, posts' = (posts \ {p}) \cup {c},
         publisher' = publisher, visits2' = visits2, diffView' = diffView
  PROVE  VersionsPublish'
<1>. DEFINE own == OfWindow(publisher.inst)
            next == {q \in posts' : q.op \in {"publish", "insert", "published"} /\ q.inst = publisher.inst}
<1>1. p.inst \in Nat /\ p.inst < visits2
  BY DEF VersionsPublish
<1>2. \A q \in posts' : q.op \in {"publish", "insert", "published"} => q.inst \in Nat /\ q.inst < visits2
  BY <1>1 DEF VersionsPublish
<1>3. p.inst # publisher.inst => next \subseteq own
  BY DEF OfWindow
<1>4. p.inst = publisher.inst => p \in own /\ next \subseteq (own \ {p}) \cup {c}
  BY DEF OfWindow
<1>5. publisher.open /\ ~publisher.busy => own = {}
  BY DEF VersionsPublish
<1>6. publisher.open /\ publisher.busy => \E q : own \subseteq {q}
  BY DEF VersionsPublish
<1>7. next = OfWindow(publisher.inst)'
  BY DEF OfWindow
<1>. HIDE DEF own, next
<1>8. publisher.open /\ ~publisher.busy => next = {}
  BY <1>3, <1>4, <1>5
<1>9. publisher.open /\ publisher.busy => \E q : next \subseteq {q}
  <2>1. SUFFICES ASSUME publisher.open, publisher.busy PROVE \E q : next \subseteq {q}
    OBVIOUS
  <2>2. PICK q : own \subseteq {q}
    BY <1>6, <2>1
  <2>3. CASE p.inst = publisher.inst
    BY <1>4, <2>2, <2>3
  <2>4. CASE p.inst # publisher.inst
    BY <1>3, <2>2, <2>4
  <2>. QED  BY <2>3, <2>4
<1>10. publisher.open => publisher.inst \in Nat /\ publisher.inst < visits2 /\ ~diffView.open
  BY DEF VersionsPublish
<1>. QED  BY <1>2, <1>7, <1>8, <1>9, <1>10 DEF VersionsPublish

LEMMA PublishFailed ==
  ASSUME VersionsPublish, NEW p \in posts, PublishFails(p)
  PROVE  VersionsPublish'
<1>1. PICK b \in BOOLEAN : b <=> (publisher.busy /\ ~Ours(publisher, p))
  OBVIOUS
<1>2. NotBusy(p) \in BOOLEAN /\ (NotBusy(p) <=> b)
  BY <1>1 DEF NotBusy
<1>3. publisher' = [publisher EXCEPT !.busy = b] /\ posts' = posts \ {p} /\ visits2' = visits2
      /\ diffView' = diffView /\ p.op \in {"publish", "published"}
  BY <1>2 DEF PublishFails
<1>4. publisher' = [open |-> publisher.open, inst |-> publisher.inst, busy |-> b, tag |-> publisher.tag]
  BY <1>3 DEF VersionsPublish
<1>5. /\ publisher'.open = publisher.open /\ publisher'.inst = publisher.inst /\ publisher'.busy = b
      /\ publisher' = [open |-> publisher'.open, inst |-> publisher'.inst, busy |-> publisher'.busy,
                       tag |-> publisher'.tag]
  BY <1>4
<1>6. OfWindow(publisher.inst)' = OfWindow(publisher.inst) \ {p}
  BY <1>3, <1>5 DEF OfWindow
<1>7. publisher.open /\ ~b => OfWindow(publisher.inst) \ {p} = {}
  <2>1. SUFFICES ASSUME publisher.open, ~b PROVE OfWindow(publisher.inst) \ {p} = {}
    OBVIOUS
  <2>2. CASE ~publisher.busy
    BY <2>1, <2>2 DEF VersionsPublish
  <2>3. CASE publisher.busy
    <3>1. publisher.inst = p.inst
      BY <1>1, <2>1, <2>3 DEF Ours
    <3>2. p \in OfWindow(publisher.inst)
      BY <1>3, <3>1 DEF OfWindow
    <3>. QED  BY <2>1, <2>3, <3>2 DEF VersionsPublish
  <2>. QED  BY <2>2, <2>3
<1>8. publisher.open /\ b => \E q : OfWindow(publisher.inst) \ {p} \subseteq {q}
  BY <1>1 DEF VersionsPublish
<1>9. /\ publisher.open => publisher.inst \in Nat /\ publisher.inst < visits2 /\ ~diffView.open
      /\ \A q \in posts' : q.op \in {"publish", "insert", "published"} => q.inst \in Nat /\ q.inst < visits2
      /\ publisher.open \in BOOLEAN /\ visits2 \in 0..MaxVisits2
  BY <1>3 DEF VersionsPublish
<1>10. /\ publisher'.open /\ ~publisher'.busy => OfWindow(publisher.inst)' = {}
       /\ publisher'.open /\ publisher'.busy => \E q : OfWindow(publisher.inst)' \subseteq {q}
  BY <1>5, <1>6, <1>7, <1>8
<1>11. publisher'.open => publisher'.inst \in Nat /\ publisher'.inst < visits2' /\ ~diffView'.open
  BY <1>3, <1>5, <1>9
<1>. QED  BY <1>3, <1>5, <1>9, <1>10, <1>11 DEF VersionsPublish

LEMMA PublishSteps == ASSUME VersionsInv, VersionsPublish, VersionsNext PROVE VersionsPublish'
<1>1. /\ visits2 \in 0..MaxVisits2 /\ MaxVisits2 \in Nat /\ visits2 <= visits2
      /\ publisher = [open |-> publisher.open, inst |-> publisher.inst, busy |-> publisher.busy,
                      tag |-> publisher.tag]
  BY VersionsAssumption DEF VersionsPublish
<1>2. Visit2 => visits2' \in 0..MaxVisits2 /\ visits2 <= visits2' /\ visits2' = visits2 + 1
  BY <1>1 DEF Visit2
<1>3. CASE LeaveVersions \/ OpenVersions \/ \E t \in Types : EditSchema(t)
  <2>1. /\ publisher' = publisher /\ diffView' = diffView /\ (Visit2 \/ visits2' = visits2)
        /\ \A p \in posts' : p \in posts \/ p.op = "versions"
    BY <1>3 DEF LeaveVersions, OpenVersions, EditSchema, AskVersions
  <2>. QED  BY <1>1, <1>2, <2>1, PublishStays
<1>4. CASE CloseDiff
  <2>1. publisher' = publisher /\ diffView'.open = FALSE /\ visits2' = visits2 /\ posts' = posts
    BY <1>4 DEF CloseDiff, NoDiffView
  <2>. QED  BY <1>1, <2>1, PublishStays
<1>5. ASSUME NEW k \in VersionIds, OpenDiff(k) PROVE VersionsPublish'
  <2>1. /\ publisher' = publisher /\ Visit2 /\ ~publisher.open
        /\ \A p \in posts' : p \in posts \/ p.op = "diff"
    BY <1>5 DEF OpenDiff
  <2>. QED  BY <1>1, <1>2, <2>1, PublishStays
<1>6. ASSUME NEW p \in posts, ServeVersions(p) \/ VersionsArrive(p) \/ ServeDiff(p) PROVE VersionsPublish'
  <2>1. /\ publisher' = publisher /\ visits2' = visits2 /\ diffView' = diffView
        /\ \A q \in posts' : q \in posts \/ q.op \notin {"publish", "insert", "published"}
    <3>1. CASE ServeVersions(p)
      BY <3>1 DEF ServeVersions
    <3>2. CASE VersionsArrive(p)
      BY <3>2 DEF VersionsArrive
    <3>3. CASE ServeDiff(p)
      BY <3>3 DEF ServeDiff
    <3>. QED  BY <1>6, <3>1, <3>2, <3>3
  <2>. QED  BY <1>1, <2>1, PublishStays
<1>7. ASSUME NEW p \in posts, DiffArrives(p) PROVE VersionsPublish'
  <2>1. /\ publisher' = publisher /\ visits2' = visits2 /\ posts' \subseteq posts
        /\ \/ diffView' = diffView
           \/ diffView' = [diffView EXCEPT !.loading = FALSE, !.diff = p.diff]
           \/ diffView' = [diffView EXCEPT !.loading = FALSE]
    BY <1>7 DEF DiffArrives
  <2>2. diffView'.open = diffView.open
    BY <1>7, <2>1 DEF VersionsInv
  <2>. QED  BY <1>1, <2>1, <2>2, PublishStays
<1>8. ASSUME NEW t, EnterTag(t) PROVE VersionsPublish'
  <2>1. publisher' = [publisher EXCEPT !.tag = t] /\ posts' = posts /\ visits2' = visits2
        /\ diffView' = diffView
    BY <1>8 DEF EnterTag
  <2>2. publisher' = [open |-> publisher.open, inst |-> publisher.inst, busy |-> publisher.busy, tag |-> t]
    BY <1>1, <2>1
  <2>3. /\ publisher'.open = publisher.open /\ publisher'.inst = publisher.inst
        /\ publisher'.busy = publisher.busy
        /\ publisher' = [open |-> publisher'.open, inst |-> publisher'.inst, busy |-> publisher'.busy,
                         tag |-> publisher'.tag]
    BY <2>2
  <2>. QED  BY <1>1, <2>1, <2>3, PublishStays
<1>9. CASE OpenPublisher
  <2>1. PICK tag : publisher' = [open |-> TRUE, inst |-> visits2, busy |-> FALSE, tag |-> tag]
    BY <1>9 DEF OpenPublisher
  <2>2. /\ publisher'.open = TRUE /\ publisher'.inst = visits2 /\ publisher'.busy = FALSE
        /\ publisher' = [open |-> publisher'.open, inst |-> publisher'.inst, busy |-> publisher'.busy,
                         tag |-> publisher'.tag]
    BY <2>1
  <2>3. posts' = posts /\ diffView' = diffView /\ ~diffView.open /\ Visit2
    BY <1>9 DEF OpenPublisher
  <2>4. \A p \in posts : p.op \in {"publish", "insert", "published"} => p.inst \in Nat /\ p.inst < visits2
    BY DEF VersionsPublish
  <2>5. visits2 \in Nat /\ visits2 < visits2'
    BY <1>1, <1>2, <2>3
  <2>6. \A p \in posts : p.op \in {"publish", "insert", "published"} =>
          p.inst \in Nat /\ p.inst < visits2' /\ p.inst # visits2
    BY <1>1, <1>2, <2>3, <2>4, <2>5
  <2>7. OfWindow(publisher.inst)' = {}
    BY <2>2, <2>3, <2>6 DEF OfWindow
  <2>. QED  BY <1>2, <2>2, <2>3, <2>5, <2>6, <2>7 DEF VersionsPublish
<1>10. ASSUME publisher' = NoPublisher, visits2' = visits2,
              \A q \in posts' : q \in posts \/ q.op = "versions"
       PROVE  VersionsPublish'
  <2>1. /\ publisher'.open = FALSE /\ publisher'.busy = FALSE
        /\ publisher' = [open |-> publisher'.open, inst |-> publisher'.inst, busy |-> publisher'.busy,
                         tag |-> publisher'.tag]
    BY <1>10 DEF NoPublisher
  <2>2. \A p \in posts' : p.op \in {"publish", "insert", "published"} => p.inst \in Nat /\ p.inst < visits2
    BY <1>10 DEF VersionsPublish
  <2>. QED  BY <1>1, <1>10, <2>1, <2>2 DEF VersionsPublish
<1>11. CASE ClosePublisher
  BY <1>10, <1>11 DEF ClosePublisher
<1>12. ASSUME NEW p \in posts, PublishedArrives(p) PROVE VersionsPublish'
  <2>1. \A q \in posts' : q \in posts \/ q.op = "versions"
    BY <1>12 DEF PublishedArrives, AskVersions
  <2>. QED  BY <1>10, <1>12, <2>1 DEF PublishedArrives
<1>13. ASSUME NEW p \in posts, Snapshot(p) PROVE VersionsPublish'
  <2>1. PICK c : c = [op |-> "insert", inst |-> p.inst, tag |-> p.tag, types |-> schemaNow]
    OBVIOUS
  <2>2. posts' = (posts \ {p}) \cup {c} /\ publisher' = publisher /\ visits2' = visits2
        /\ diffView' = diffView /\ p.op = "publish"
    BY <1>13, <2>1 DEF Snapshot
  <2>3. c.inst = p.inst
    BY <2>1
  <2>. QED  BY <2>2, <2>3, PublishGoesOn
<1>14. ASSUME NEW p \in posts, Insert(p) PROVE VersionsPublish'
  <2>1. PICK c : c = [op |-> "published", inst |-> p.inst, id |-> Len(released) + 1]
    OBVIOUS
  <2>2. posts' = (posts \ {p}) \cup {c} /\ publisher' = publisher /\ visits2' = visits2
        /\ diffView' = diffView /\ p.op = "insert"
    BY <1>14, <2>1 DEF Insert
  <2>3. c.inst = p.inst
    BY <2>1
  <2>. QED  BY <2>2, <2>3, PublishGoesOn
<1>15. CASE Publish
  <2>1. PICK c : c = [op |-> "publish", inst |-> publisher.inst, tag |-> publisher.tag]
    OBVIOUS
  <2>2. /\ publisher' = [publisher EXCEPT !.busy = TRUE] /\ posts' = posts \cup {c}
        /\ visits2' = visits2 /\ diffView' = diffView /\ publisher.open /\ ~publisher.busy
    BY <1>15, <2>1 DEF Publish, MayPublish
  <2>3. publisher' = [open |-> publisher.open, inst |-> publisher.inst, busy |-> TRUE, tag |-> publisher.tag]
    BY <1>1, <2>2
  <2>4. /\ publisher'.open = publisher.open /\ publisher'.inst = publisher.inst
        /\ publisher'.busy = TRUE
        /\ publisher' = [open |-> publisher'.open, inst |-> publisher'.inst, busy |-> publisher'.busy,
                         tag |-> publisher'.tag]
    BY <2>3
  <2>5. publisher.inst \in Nat /\ publisher.inst < visits2 /\ ~diffView.open
    BY <2>2 DEF VersionsPublish
  <2>6. \A p \in posts' : p.op \in {"publish", "insert", "published"} => p.inst \in Nat /\ p.inst < visits2
    BY <2>1, <2>2, <2>5 DEF VersionsPublish
  <2>7. OfWindow(publisher.inst) = {}
    BY <2>2 DEF VersionsPublish
  <2>8. OfWindow(publisher.inst)' \subseteq {c}
    BY <2>2, <2>4, <2>7 DEF OfWindow
  <2>9. publisher'.open \in BOOLEAN
    BY <2>4 DEF VersionsPublish
  <2>10. visits2' \in 0..MaxVisits2
         /\ (publisher'.open => publisher'.inst \in Nat /\ publisher'.inst < visits2' /\ ~diffView'.open)
    BY <1>1, <2>2, <2>4, <2>5
  <2>. QED  BY <2>2, <2>4, <2>6, <2>8, <2>9, <2>10 DEF VersionsPublish
<1>. QED  BY <1>3, <1>4, <1>5, <1>6, <1>7, <1>8, <1>9, <1>11, <1>12, <1>13, <1>14, <1>15, PublishFailed
          DEF VersionsNext, VersionPost

LEMMA RoomStays ==
  ASSUME VersionsRoom, IsFiniteSet(posts'), released' = released, Publishing' \subseteq Publishing
  PROVE  VersionsRoom'
<1>1. IsFiniteSet(Publishing)
  BY FS_Subset DEF VersionsRoom, Publishing
<1>2. Cardinality(Publishing') \in Nat /\ Cardinality(Publishing) \in Nat
      /\ Cardinality(Publishing') <= Cardinality(Publishing)
  BY <1>1, FS_Subset, FS_CardinalityType
<1>3. MaxVersions \in Nat
  BY VersionsAssumption
<1>. QED  BY <1>2, <1>3 DEF VersionsRoom

LEMMA RoomSteps == ASSUME VersionsKnown, VersionsRoom, VersionsNext PROVE VersionsRoom'
<1>1. /\ IsFiniteSet(posts) /\ IsFiniteSet(Publishing) /\ Cardinality(Publishing) \in Nat
      /\ Len(released) \in Nat /\ MaxVersions \in Nat
      /\ Cardinality(Publishing) + Len(released) <= MaxVersions
  BY FS_Subset, FS_CardinalityType, VersionsAssumption DEF VersionsRoom, Publishing
<1>2. ASSUME released' = released,
             \E c : /\ posts' \subseteq posts \cup {c}
                    /\ c \in posts' => c \in posts \/ c.op \notin {"publish", "insert"}
      PROVE  VersionsRoom'
  <2>1. PICK c : /\ posts' \subseteq posts \cup {c}
                 /\ c \in posts' => c \in posts \/ c.op \notin {"publish", "insert"}
    BY <1>2
  <2>2. IsFiniteSet(posts')
    BY <1>1, <2>1, FS_AddElement, FS_Subset
  <2>3. Publishing' \subseteq Publishing
    BY <2>1 DEF Publishing
  <2>. QED  BY <1>2, <2>2, <2>3, RoomStays
<1>3. CASE LeaveVersions \/ OpenVersions \/ OpenPublisher \/ ClosePublisher \/ CloseDiff
             \/ (\E t \in Types : EditSchema(t)) \/ \E t \in OwnTags : EnterTag(t)
  <2>1. released' = released /\ posts' \subseteq posts \cup {AskVersions} /\ AskVersions.op = "versions"
    BY <1>3 DEF LeaveVersions, OpenVersions, OpenPublisher, ClosePublisher, CloseDiff, EditSchema,
                EnterTag, AskVersions
  <2>. QED  BY <1>2, <2>1
<1>4. ASSUME NEW p \in posts, ServeVersions(p) PROVE VersionsRoom'
  <2>1. PICK c : c = [op |-> "listed", ids |-> Reverse([i \in DOMAIN released |-> i])]
    OBVIOUS
  <2>2. released' = released /\ posts' = (posts \ {p}) \cup {c} /\ c.op = "listed"
    BY <1>4, <2>1 DEF ServeVersions
  <2>. QED  BY <1>2, <2>2
<1>5. ASSUME NEW p \in posts,
             VersionsArrive(p) \/ PublishedArrives(p) \/ PublishFails(p) \/ DiffArrives(p)
      PROVE  VersionsRoom'
  <2>1. released' = released /\ posts' \subseteq posts \cup {AskVersions} /\ AskVersions.op = "versions"
    BY <1>5 DEF VersionsArrive, PublishedArrives, PublishFails, DiffArrives, AskVersions
  <2>. QED  BY <1>2, <2>1
<1>6. ASSUME NEW p \in posts, ServeDiff(p) PROVE VersionsRoom'
  <2>1. PICK d : d = DiffOf(p.id)
    OBVIOUS
  <2>2. PICK c : c = [op |-> "compared", inst |-> p.inst, diff |-> d]
    OBVIOUS
  <2>3. released' = released /\ posts' = (posts \ {p}) \cup {c} /\ c.op = "compared"
    BY <1>6, <2>1, <2>2 DEF ServeDiff
  <2>. QED  BY <1>2, <2>3
<1>7. ASSUME NEW k \in VersionIds, OpenDiff(k) PROVE VersionsRoom'
  <2>1. PICK c : c = [op |-> "diff", inst |-> visits2, id |-> k]
    OBVIOUS
  <2>2. released' = released /\ posts' = posts \cup {c} /\ c.op = "diff"
    BY <1>7, <2>1 DEF OpenDiff
  <2>. QED  BY <1>2, <2>2
<1>8. CASE Publish
  <2>1. PICK c : c = [op |-> "publish", inst |-> publisher.inst, tag |-> publisher.tag]
    OBVIOUS
  <2>2. /\ released' = released /\ posts' = posts \cup {c} /\ c.op = "publish"
        /\ Cardinality(Publishing) + Len(released) < MaxVersions
    BY <1>8, <2>1 DEF Publish, Publishing
  <2>3. Publishing' = Publishing \cup {c}
    BY <2>2 DEF Publishing
  <2>4. IsFiniteSet(posts')
    BY <1>1, <2>2, FS_AddElement
  <2>5. Cardinality(Publishing') \in Nat /\ Cardinality(Publishing') <= Cardinality(Publishing) + 1
    <3>1. Cardinality(Publishing') =
            (IF c \in Publishing THEN Cardinality(Publishing) ELSE Cardinality(Publishing) + 1)
      BY <1>1, <2>3, FS_AddElement
    <3>. QED  BY <1>1, <3>1
  <2>. QED  BY <1>1, <2>2, <2>4, <2>5 DEF VersionsRoom
<1>9. ASSUME NEW p \in posts, Snapshot(p) \/ Insert(p) PROVE VersionsRoom'
  <2>1. p \in Publishing
    BY <1>9 DEF Snapshot, Insert, Publishing
  <2>2. /\ IsFiniteSet(Publishing \ {p}) /\ Cardinality(Publishing \ {p}) \in Nat
        /\ Cardinality(Publishing \ {p}) = Cardinality(Publishing) - 1
    BY <1>1, <2>1, FS_RemoveElement, FS_CardinalityType
  <2>3. CASE Snapshot(p)
    <3>1. PICK c : c = [op |-> "insert", inst |-> p.inst, tag |-> p.tag, types |-> schemaNow]
      OBVIOUS
    <3>2. released' = released /\ posts' = (posts \ {p}) \cup {c} /\ c.op = "insert"
      BY <2>3, <3>1 DEF Snapshot
    <3>3. Publishing' = (Publishing \ {p}) \cup {c}
      BY <3>2 DEF Publishing
    <3>4. Cardinality(Publishing') =
            (IF c \in Publishing \ {p} THEN Cardinality(Publishing \ {p})
             ELSE Cardinality(Publishing \ {p}) + 1)
      BY <2>2, <3>3, FS_AddElement
    <3>5. Cardinality(Publishing') \in Nat /\ Cardinality(Publishing') <= Cardinality(Publishing)
      BY <1>1, <2>2, <3>4
    <3>6. IsFiniteSet(posts')
      BY <1>1, <3>2, FS_AddElement, FS_RemoveElement
    <3>. QED  BY <1>1, <3>2, <3>5, <3>6 DEF VersionsRoom
  <2>4. CASE Insert(p)
    <3>1. PICK c : c = [op |-> "published", inst |-> p.inst, id |-> Len(released) + 1]
      OBVIOUS
    <3>2. PICK r : r = [tag |-> p.tag, types |-> p.types]
      OBVIOUS
    <3>3. released' = Append(released, r) /\ posts' = (posts \ {p}) \cup {c} /\ c.op = "published"
      BY <2>4, <3>1, <3>2 DEF Insert
    <3>4. PICK T : released \in Seq(T)
      BY DEF VersionsKnown, Releases
    <3>5. Len(released') = Len(released) + 1
      <4>1. released \in Seq(T \cup {r})
        BY <3>4
      <4>. QED  BY <3>3, <4>1
    <3>6. Publishing' = Publishing \ {p}
      BY <3>3 DEF Publishing
    <3>7. IsFiniteSet(posts')
      BY <1>1, <3>3, FS_AddElement, FS_RemoveElement
    <3>. QED  BY <1>1, <2>2, <3>5, <3>6, <3>7 DEF VersionsRoom
  <2>. QED  BY <1>9, <2>3, <2>4
<1>. QED  BY <1>3, <1>4, <1>5, <1>6, <1>7, <1>8, <1>9 DEF VersionsNext, VersionPost

VersionsStores == VersionsKnown /\ VersionsPublish /\ VersionsRoom

LEMMA VersionsStored == ASSUME VersionsStores PROVE VersionsTypeOK /\ DiffsReplay
<1>1. VersionsKnown /\ VersionsPublish /\ VersionsRoom
  BY DEF VersionsStores
<1>2. PICK T : released \in Seq(T) /\ \A r \in T : r.types \subseteq Types
  BY <1>1 DEF VersionsKnown, Releases
<1>3. DOMAIN released = 1..Len(released) /\ \A i \in 1..Len(released) : released[i].types \subseteq Types
  BY <1>2
<1>4. Range(board.list) \subseteq 1..Len(released)
  BY <1>1 DEF VersionsKnown, Range
<1>5. Len(released) <= MaxVersions
  <2>1. Cardinality(Publishing) \in Nat
    BY <1>1, FS_Subset, FS_CardinalityType DEF VersionsRoom, Publishing
  <2>. QED  BY <1>1, <2>1, VersionsAssumption DEF VersionsRoom
<1>6. ~(publisher.open /\ diffView.open) /\ visits2 \in 0..MaxVisits2
      /\ diffView.version \in {0} \cup DOMAIN released
  BY <1>1, <1>3 DEF VersionsPublish, VersionsKnown
<1>. DEFINE own == {p \in posts : p.op \in {"publish", "insert"} /\ Ours(publisher, p)}
<1>7. Cardinality(own) <= 1
  <2>1. \E q : own \subseteq {q}
    <3>1. publisher.open => own \subseteq OfWindow(publisher.inst)
      BY DEF OfWindow, Ours
    <3>2. ~publisher.open => own = {}
      BY DEF Ours
    <3>3. publisher.open => \E q : OfWindow(publisher.inst) \subseteq {q}
      BY <1>1 DEF VersionsPublish
    <3>. HIDE DEF own
    <3>. QED  BY <3>1, <3>2, <3>3
  <2>. HIDE DEF own
  <2>2. PICK q : own \subseteq {q}
    BY <2>1
  <2>3. own = {} \/ own = {q}
    BY <2>2
  <2>4. Cardinality({}) = 0 /\ Cardinality({q}) = 1
    BY FS_EmptySet, FS_Singleton
  <2>5. Cardinality(own) = 0 \/ Cardinality(own) = 1
    BY <2>3, <2>4
  <2>. QED  BY <2>5
<1>. QED  BY <1>1, <1>3, <1>4, <1>5, <1>6, <1>7, ReplayedTypes DEF VersionsTypeOK, VersionsKnown

LEMMA VersionsStoresHolds == VersionsSpec => []VersionsStores
<1>1. VersionsInit => VersionsStores
  <2>. SUFFICES ASSUME VersionsInit PROVE VersionsStores
    OBVIOUS
  <2>1. /\ board = [shown |-> FALSE, list |-> <<>>] /\ publisher = NoPublisher
        /\ diffView = NoDiffView /\ posts = {} /\ schemaNow = {} /\ released = <<>> /\ visits2 = 0
    BY DEF VersionsInit
  <2>2. Releases(released)
    <3>1. PICK T : T = {}
      OBVIOUS
    <3>2. released \in Seq(T) /\ \A t \in T : t.types \subseteq Types
      BY <2>1, <3>1
    <3>. QED  BY <3>2 DEF Releases
  <2>3. VersionsKnown
    <3>1. board.list = <<>> /\ board = [shown |-> board.shown, list |-> board.list]
          /\ diffView.version = 0
      BY <2>1 DEF NoDiffView
    <3>. QED  BY <2>1, <2>2, <3>1 DEF VersionsKnown
  <2>4. VersionsPublish
    <3>1. /\ publisher.open = FALSE /\ publisher.busy = FALSE
          /\ publisher = [open |-> publisher.open, inst |-> publisher.inst, busy |-> publisher.busy,
                          tag |-> publisher.tag]
      BY <2>1 DEF NoPublisher
    <3>2. visits2 \in 0..MaxVisits2
      BY <2>1, VersionsAssumption
    <3>. QED  BY <2>1, <3>1, <3>2 DEF VersionsPublish
  <2>5. VersionsRoom
    <3>1. Publishing = {} /\ posts = {} /\ Len(released) = 0
      BY <2>1 DEF Publishing
    <3>. QED  BY <3>1, FS_EmptySet, VersionsAssumption DEF VersionsRoom
  <2>. QED  BY <2>3, <2>4, <2>5 DEF VersionsStores
<1>2. VersionsInv /\ VersionsStores /\ [VersionsNext]_versionVars => VersionsStores'
  <2>. SUFFICES ASSUME VersionsInv, VersionsStores, [VersionsNext]_versionVars PROVE VersionsStores'
    OBVIOUS
  <2>1. CASE UNCHANGED versionVars
    <3>1. /\ board' = board /\ publisher' = publisher /\ diffView' = diffView /\ posts' = posts
          /\ schemaNow' = schemaNow /\ released' = released /\ visits2' = visits2
      BY <2>1 DEF versionVars
    <3>2. VersionsKnown'
      BY <3>1, KnownStays DEF VersionsStores, VersionsKnown
    <3>3. VersionsPublish' /\ VersionsRoom'
      BY <3>1 DEF VersionsStores, VersionsPublish, VersionsRoom, Publishing, OfWindow
    <3>. QED  BY <3>2, <3>3 DEF VersionsStores
  <2>2. CASE VersionsNext
    BY <2>2, KnownSteps, PublishSteps, RoomSteps DEF VersionsStores
  <2>. QED  BY <2>1, <2>2
<1>. QED  BY <1>1, <1>2, VersionsHold, PTL DEF VersionsSpec

(* ---------------------------- entity explorer --------------------------- *)
(* A search that can still be answered is the last one, and was made for    *)
(* what is to be found now; and until the timer ends, what is to be found   *)
(* is the text of the field.                                                *)
ExplorerInv ==
  /\ find = [input |-> find.input, query |-> find.query, types |-> find.types, page |-> find.page]
  /\ \A s \in searches : s = [key |-> s.key, at |-> s.at, mine |-> s.mine]
  /\ \A s \in searches : s.at = "asked" => s.mine /\ s.key = KeyOf(find)
  /\ loading \in BOOLEAN /\ failed \in BOOLEAN /\ typing \in BOOLEAN
  /\ ~loading /\ ~failed /\ found # NoFind => found.key = KeyOf(find)
  /\ typing \/ find.query = find.input

LEMMA SearchRuns ==
  ASSUME ExplorerInv, Run(find'), typing' \in BOOLEAN, typing' \/ find'.query = find'.input,
         find' = [input |-> find'.input, query |-> find'.query, types |-> find'.types,
                  page |-> find'.page]
  PROVE  ExplorerInv'
<1>1. /\ searches' = Superseded \cup {[key |-> KeyOf(find'), at |-> "asked", mine |-> TRUE]}
      /\ loading' = TRUE /\ failed' = FALSE
  BY DEF Run
<1>2. \A s \in Superseded : s = [key |-> s.key, at |-> s.at, mine |-> s.mine] /\ s.at = "failing"
  BY DEF Superseded, ExplorerInv
<1>3. \A s \in searches' : /\ s = [key |-> s.key, at |-> s.at, mine |-> s.mine]
                           /\ s.at = "asked" => s.mine /\ s.key = KeyOf(find')
  BY <1>1, <1>2
<1>. QED  BY <1>1, <1>3 DEF ExplorerInv, KeyOf

LEMMA SearchFollows ==
  ASSUME ExplorerInv, NEW f, Follow(f), typing' \in BOOLEAN, typing' \/ f.query = f.input,
         f = [input |-> f.input, query |-> f.query, types |-> f.types, page |-> f.page],
         UNCHANGED found
  PROVE  ExplorerInv'
<1>1. CASE KeyOf(f) # KeyOf(find)
  BY <1>1, SearchRuns DEF Follow
<1>2. CASE KeyOf(f) = KeyOf(find)
  <2>1. find' = f /\ KeyOf(find') = KeyOf(find) /\ UNCHANGED <<searches, loading, failed>>
    BY <1>2 DEF Follow
  <2>2. KeyOf(find)' = KeyOf(find')
    BY DEF KeyOf
  <2>. HIDE DEF KeyOf
  <2>. QED  BY <2>1, <2>2 DEF ExplorerInv
<1>. QED  BY <1>1, <1>2

LEMMA Searched1 ==
  ASSUME ExplorerInv, NEW t
  PROVE  /\ Searched(t) = [input |-> find.input, query |-> t, types |-> find.types, page |-> 0]
         /\ [Searched(t) EXCEPT !.input = t]
              = [input |-> t, query |-> t, types |-> find.types, page |-> 0]
<1>1. find = [input |-> find.input, query |-> find.query, types |-> find.types, page |-> find.page]
  BY DEF ExplorerInv
<1>2. Searched(t) = [input |-> find.input, query |-> t, types |-> find.types, page |-> 0]
  <2>1. find \in [input : {find.input}, query : {find.query}, types : {find.types},
                  page : {find.page}]
    BY <1>1
  <2>. DEFINE f == [find EXCEPT !.query = t, !.page = 0]
  <2>2. f \in [input : {find.input}, query : {t}, types : {find.types}, page : {0}]
    BY <2>1
  <2>. HIDE DEF f
  <2>3. f = [input |-> find.input, query |-> t, types |-> find.types, page |-> 0]
    BY <2>2
  <2>. QED  BY <2>3 DEF Searched, f
<1>. QED  BY <1>2

LEMMA ExplorerSteps == ASSUME ExplorerInv, ExplorerNext PROVE ExplorerInv'
<1>1. CASE DebounceEnds
  BY <1>1, SearchFollows, Searched1 DEF DebounceEnds
<1>2. CASE Submit
  <2>1. typing' = typing /\ typing \in BOOLEAN /\ Follow(Searched(find.input)) /\ found' = found
    BY <1>2 DEF Submit, ExplorerInv
  <2>. QED  BY <2>1, SearchFollows, Searched1
<1>3. ASSUME NEW i, Choose(i) PROVE ExplorerInv'
  <2>. DEFINE t == Suggestions[i + 1]
  <2>1. typing' = (typing \/ t # find.input) /\ Follow([Searched(t) EXCEPT !.input = t]) /\ found' = found
    BY <1>3 DEF Choose
  <2>2. typing' \in BOOLEAN
    BY <2>1
  <2>. HIDE DEF t
  <2>. QED  BY <2>1, <2>2, SearchFollows, Searched1
<1>4. ASSUME NEW p, TurnTo(p) PROVE ExplorerInv'
  <2>1. [find EXCEPT !.page = p] = [input |-> find.input, query |-> find.query,
                                    types |-> find.types, page |-> p]
    BY DEF ExplorerInv
  <2>2. typing' = typing /\ Follow([find EXCEPT !.page = p]) /\ found' = found
    BY <1>4 DEF TurnTo
  <2>3. typing \in BOOLEAN /\ (typing \/ find.query = find.input)
    BY DEF ExplorerInv
  <2>. QED  BY <2>1, <2>2, <2>3, SearchFollows
<1>5. ASSUME NEW ts, SetTypes(ts) PROVE ExplorerInv'
  <2>1. find' = [input |-> find.input, query |-> find.query, types |-> ts, page |-> 0]
    BY <1>5 DEF SetTypes, ExplorerInv
  <2>2. typing' = typing /\ Run(find')
    BY <1>5 DEF SetTypes
  <2>3. typing \in BOOLEAN /\ (typing \/ find.query = find.input)
    BY DEF ExplorerInv
  <2>. QED  BY <2>1, <2>2, <2>3, SearchRuns
<1>6. CASE RetrySearch
  <2>1. find' = find /\ typing' = typing /\ Run(find')
    BY <1>6 DEF RetrySearch
  <2>. QED  BY <2>1, SearchRuns DEF ExplorerInv
<1>7. ASSUME NEW s \in searches, SearchArrives(s) PROVE ExplorerInv'
  <2>1. s.mine /\ s.key = KeyOf(find)
    BY <1>7 DEF SearchArrives, ExplorerInv
  <2>2. found'.key = s.key /\ loading' = FALSE /\ searches' \subseteq searches
        /\ UNCHANGED <<find, typing, failed>>
    <3>1. \E n \in Totals : found' = [key |-> s.key, pages |-> n]
      BY <1>7 DEF SearchArrives
    <3>2. loading' = (loading /\ ~s.mine) /\ searches' = searches \ {s}
          /\ UNCHANGED <<find, typing, failed>>
      BY <1>7 DEF SearchArrives
    <3>3. found'.key = s.key
      BY <3>1
    <3>4. loading' = FALSE
      BY <2>1, <3>2
    <3>. QED  BY <3>2, <3>3, <3>4
  <2>3. KeyOf(find)' = KeyOf(find)
    BY <2>2 DEF KeyOf
  <2>. QED  BY <2>1, <2>2, <2>3 DEF ExplorerInv
<1>8. ASSUME NEW s \in searches, SearchStumbles(s) PROVE ExplorerInv'
  <2>1. s = [key |-> s.key, at |-> s.at, mine |-> s.mine]
    BY DEF ExplorerInv
  <2>2. [s EXCEPT !.at = "failing"] = [key |-> s.key, at |-> "failing", mine |-> s.mine]
    BY <2>1
  <2>3. searches' = (searches \ {s}) \cup {[key |-> s.key, at |-> "failing", mine |-> s.mine]}
        /\ UNCHANGED <<find, typing, found, loading, failed>>
    BY <1>8, <2>2 DEF SearchStumbles
  <2>4. \A r \in searches' : /\ r = [key |-> r.key, at |-> r.at, mine |-> r.mine]
                             /\ r.at = "asked" => r.mine /\ r.key = KeyOf(find)
    BY <2>3 DEF ExplorerInv
  <2>5. KeyOf(find)' = KeyOf(find)
    BY <2>3 DEF KeyOf
  <2>. QED  BY <2>3, <2>4, <2>5 DEF ExplorerInv
<1>9. ASSUME NEW s \in searches, SearchFails(s) PROVE ExplorerInv'
  <2>1. searches' \subseteq searches /\ failed' = TRUE /\ loading' \in BOOLEAN
        /\ UNCHANGED <<find, typing>>
    BY <1>9 DEF SearchFails
  <2>2. KeyOf(find)' = KeyOf(find)
    BY <2>1 DEF KeyOf
  <2>. QED  BY <2>1, <2>2 DEF ExplorerInv
<1>10. ASSUME ClearText \/ \E t \in Texts : Type(t) PROVE ExplorerInv'
  <2>1. PICK t : find' = [find EXCEPT !.input = t] /\ typing' = TRUE
                 /\ UNCHANGED <<searches, found, loading, failed>>
    BY <1>10 DEF ClearText, Type
  <2>2. find' = [input |-> t, query |-> find.query, types |-> find.types, page |-> find.page]
    BY <2>1 DEF ExplorerInv
  <2>3. KeyOf(find)' = KeyOf(find)
    BY <2>2 DEF KeyOf
  <2>. QED  BY <2>1, <2>2, <2>3 DEF ExplorerInv
<1>11. CASE OpenOrClose \/ Mark \/ TypesSettle \/ ExportAll \/ ExportSettles
  <2>1. UNCHANGED <<find, typing, searches, found, loading, failed>>
    BY <1>11 DEF OpenOrClose, Mark, TypesSettle, ExportAll, ExportSettles
  <2>. QED  BY <2>1 DEF ExplorerInv, KeyOf, NoFind
<1>12. CASE Reopen
  <2>1. /\ find' = [input |-> url.query, query |-> url.query, types |-> {}, page |-> url.page]
        /\ typing' = TRUE /\ found' = NoFind /\ loading' = TRUE /\ failed' = FALSE
        /\ searches' = {[key |-> KeyOf(find'), at |-> "asked", mine |-> TRUE]}
    BY <1>12 DEF Reopen, PageOpened
  <2>2. find'.query = find'.input
        /\ find' = [input |-> find'.input, query |-> find'.query, types |-> find'.types,
                    page |-> find'.page]
    BY <2>1
  <2>3. \A s \in searches' : /\ s = [key |-> s.key, at |-> s.at, mine |-> s.mine]
                              /\ s.mine /\ s.key = KeyOf(find')
    BY <2>1
  <2>. QED  BY <2>1, <2>2, <2>3 DEF ExplorerInv, KeyOf
<1>. QED  BY <1>1, <1>2, <1>3, <1>4, <1>5, <1>6, <1>7, <1>8, <1>9, <1>10, <1>11, <1>12
          DEF ExplorerNext, ExplorerSettles

LEMMA ExplorerStart == ASSUME ExplorerInit PROVE ExplorerInv
<1>1. /\ find = [input |-> "", query |-> "", types |-> {}, page |-> 0]
      /\ typing = TRUE /\ loading = TRUE /\ failed = FALSE
      /\ searches = {[key |-> KeyOf(find), at |-> "asked", mine |-> TRUE]}
  BY DEF ExplorerInit
<1>2. find = [input |-> find.input, query |-> find.query, types |-> find.types,
              page |-> find.page]
  <2>1. find = [input |-> "", query |-> "", types |-> {}, page |-> 0]
    BY <1>1
  <2>2. find.input = "" /\ find.query = "" /\ find.types = {} /\ find.page = 0
    BY <2>1
  <2>. QED  BY <2>1, <2>2
<1>3. \A s \in searches : /\ s = [key |-> s.key, at |-> s.at, mine |-> s.mine]
                           /\ s.mine /\ s.key = KeyOf(find)
  <2>. DEFINE k == KeyOf(find)
              c == [key |-> k, at |-> "asked", mine |-> TRUE]
  <2>. HIDE DEF k
  <2>1. c = [key |-> c.key, at |-> c.at, mine |-> c.mine] /\ c.mine /\ c.key = k
    OBVIOUS
  <2>2. searches = {c}
    BY <1>1 DEF k
  <2>. HIDE DEF c
  <2>. QED  BY <2>1, <2>2 DEF k
<1>. QED  BY <1>1, <1>2, <1>3 DEF ExplorerInv

LEMMA ExplorerRests == ASSUME ExplorerInv, UNCHANGED findVars PROVE ExplorerInv'
BY DEF findVars, ExplorerInv, KeyOf, NoFind

LEMMA ExplorerHolds == ExplorerSpec => []ExplorerInv
<1>1. ExplorerInit => ExplorerInv
  BY ExplorerStart
<1>2. ExplorerInv /\ [ExplorerNext]_findVars => ExplorerInv'
  BY ExplorerSteps, ExplorerRests
<1>. QED  BY <1>1, <1>2, PTL DEF ExplorerSpec

LEMMA ExplorerFinds == ExplorerInv => FoundIsAsked
BY DEF ExplorerInv, FoundIsAsked, Shows, KeyOf

(* What is searched is a text, the address names it, and the spinner turns  *)
(* for the one search that is the last.                                     *)
FindTyped(f) ==
  f.input \in Texts /\ f.query \in Texts /\ f.types \subseteq Facets /\ f.page \in 0..MaxFinds
Addressed == url = [query |-> find.query, page |-> find.page]
OneMine == \A s, t \in searches : s.mine /\ t.mine => s = t
Spins == loading <=> \E s \in searches : s.mine
ExplTyped ==
  /\ ExplorerInv /\ FindTyped(find) /\ Addressed
  /\ found = NoFind \/ found.key.query \in Texts
SearchTyped ==
  /\ \A s \in searches : s.at \in {"asked", "failing"}
  /\ OneMine /\ Spins

LEMMA ExplorerTypes == ASSUME ExplTyped, SearchTyped PROVE ExplorerTypeOK
<1>1. typing \in BOOLEAN /\ loading \in BOOLEAN
  BY DEF ExplTyped, ExplorerInv
<1>2. loading = (\E s \in searches : s.mine)
  BY <1>1, Zenon DEF SearchTyped, Spins
<1>. QED  BY <1>1, <1>2 DEF ExplTyped, SearchTyped, FindTyped, Addressed, ExplorerTypeOK

LEMMA SearchTypedRuns ==
  ASSUME ExplorerInv, SearchTyped, NEW f, Run(f)
  PROVE  SearchTyped'
<1>. DEFINE new == [key |-> KeyOf(f), at |-> "asked", mine |-> TRUE]
<1>1. searches' = Superseded \cup {new} /\ loading' = TRUE
  BY DEF Run
<1>2. \A s \in Superseded : s.at \in {"asked", "failing"} /\ ~s.mine
  BY DEF Superseded, ExplorerInv, SearchTyped
<1>3. new.at = "asked" /\ new.mine
  OBVIOUS
<1>. HIDE DEF new
<1>4. OneMine'
  BY <1>1, <1>2, <1>3 DEF OneMine
<1>5. Spins'
  BY <1>1, <1>3, Zenon DEF Spins
<1>. QED  BY <1>1, <1>2, <1>3, <1>4, <1>5 DEF SearchTyped

LEMMA SearchTypedStep ==
  ASSUME ExplorerInv, SearchTyped, [ExplorerNext]_findVars
  PROVE  SearchTyped'
<1>0. /\ \A s \in searches : s.at \in {"asked", "failing"}
      /\ \A s, t \in searches : s.mine /\ t.mine => s = t
      /\ loading <=> \E s \in searches : s.mine
      /\ \A s \in searches : s.at = "asked" => s.mine
  BY DEF SearchTyped, OneMine, Spins, ExplorerInv
<1>a. ASSUME UNCHANGED <<searches, loading>> PROVE SearchTyped'
  BY <1>a DEF SearchTyped, OneMine, Spins
<1>b. ASSUME NEW f, Follow(f) PROVE SearchTyped'
  BY <1>a, <1>b, SearchTypedRuns DEF Follow
<1>c. ASSUME NEW s \in searches, searches' = searches \ {s}, loading' = (loading /\ ~s.mine)
      PROVE  SearchTyped'
  <2>1. OneMine'
    BY <1>0, <1>c DEF OneMine
  <2>2. Spins'
    <3>1. CASE s.mine
      <4>1. ~loading'
        BY <1>c, <3>1, Zenon
      <4>2. \A t \in searches' : ~t.mine
        BY <1>0, <1>c, <3>1
      <4>. QED  BY <4>1, <4>2, Zenon DEF Spins
    <3>2. CASE ~s.mine
      <4>1. loading' <=> loading
        BY <1>c, <3>2, Zenon
      <4>2. \A t : (t \in searches' /\ t.mine) <=> (t \in searches /\ t.mine)
        BY <1>c, <3>2
      <4>. QED  BY <1>0, <4>1, <4>2, Zenon DEF Spins
    <3>. QED  BY <3>1, <3>2
  <2>. QED  BY <1>0, <1>c, <2>1, <2>2 DEF SearchTyped
<1>1. CASE DebounceEnds \/ Submit
  BY <1>1, <1>b DEF DebounceEnds, Submit
<1>2. ASSUME NEW i, Choose(i) PROVE SearchTyped'
  BY <1>2, <1>b DEF Choose
<1>3. ASSUME NEW p, TurnTo(p) PROVE SearchTyped'
  BY <1>3, <1>b DEF TurnTo
<1>4. ASSUME NEW ts, SetTypes(ts) PROVE SearchTyped'
  BY <1>4, SearchTypedRuns DEF SetTypes
<1>5. CASE RetrySearch
  BY <1>5, SearchTypedRuns DEF RetrySearch
<1>6. ASSUME NEW s \in searches, SearchArrives(s) \/ SearchFails(s) PROVE SearchTyped'
  BY <1>6, <1>c DEF SearchArrives, SearchFails
<1>7. ASSUME NEW s \in searches, SearchStumbles(s) PROVE SearchTyped'
  <2>. DEFINE r == [s EXCEPT !.at = "failing"]
  <2>1. searches' = (searches \ {s}) \cup {r} /\ loading' = loading /\ s.mine
    BY <1>0, <1>7 DEF SearchStumbles
  <2>2. r.at = "failing" /\ r.mine
    <3>1. s = [key |-> s.key, at |-> s.at, mine |-> s.mine]
      BY DEF ExplorerInv
    <3>. QED  BY <2>1, <3>1
  <2>. HIDE DEF r
  <2>3. OneMine'
    BY <1>0, <2>1, <2>2 DEF OneMine
  <2>4. Spins'
    BY <1>0, <2>1, <2>2, Zenon DEF Spins
  <2>. QED  BY <1>0, <2>1, <2>2, <2>3, <2>4 DEF SearchTyped
<1>8. CASE ClearText \/ OpenOrClose \/ Mark \/ TypesSettle \/ ExportAll \/ ExportSettles
  BY <1>8, <1>a DEF ClearText, OpenOrClose, Mark, TypesSettle, ExportAll, ExportSettles
<1>9. ASSUME NEW t, Type(t) PROVE SearchTyped'
  BY <1>9, <1>a DEF Type
<1>10. CASE Reopen
  <2>1. PICK k : searches' = {[key |-> k, at |-> "asked", mine |-> TRUE]}
    BY <1>10 DEF Reopen, PageOpened
  <2>2. loading' = TRUE
    BY <1>10 DEF Reopen, PageOpened
  <2>3. PICK r : searches' = {r} /\ r.at = "asked" /\ r.mine
    <3>1. PICK r : r = [key |-> k, at |-> "asked", mine |-> TRUE]
      OBVIOUS
    <3>2. r.at = "asked" /\ r.mine
      BY <3>1
    <3>3. searches' = {r}
      BY <2>1, <3>1
    <3>. QED  BY <3>2, <3>3
  <2>4. Spins'
    BY <2>2, <2>3, Zenon DEF Spins
  <2>. QED  BY <2>3, <2>4 DEF SearchTyped, OneMine
<1>11. CASE UNCHANGED findVars
  BY <1>11, <1>a DEF findVars
<1>. QED  BY <1>1, <1>2, <1>3, <1>4, <1>5, <1>6, <1>7, <1>8, <1>9, <1>10, <1>11
          DEF ExplorerNext, ExplorerSettles

\* A suggestion is a text.
LEMMA SuggestedIsText ==
  ASSUME ExplTyped, NEW i \in 0..(Len(Suggestions) - 1)
  PROVE  Suggestions[i + 1] \in Texts
<1>1. CASE Suggestions = <<>>
  <2>1. Len(Suggestions) = 0
    BY <1>1
  <2>. QED  BY <2>1
<1>2. CASE Suggestions # <<>>
  <2>. DEFINE names == namesOf[found.key.query]
              places == {j \in DOMAIN names : names[j] \in contains[find.input]}
  <2>1. Suggestions = At(names, places) /\ found # NoFind
    BY <1>2 DEF Suggestions
  <2>a. PICK N : N = Texts \ {""}
    OBVIOUS
  <2>b. N \subseteq Texts
    BY <2>a
  <2>2. names \in Seq(N)
    BY <2>1, <2>a, ExplorerAssumption, Zenon DEF ExplTyped, ExplorerAssumption
  <2>. HIDE DEF names
  <2>3. places \in SUBSET (1..Len(names))
    BY <2>2
  <2>. HIDE DEF places
  <2>4. At(names, places) \in Seq(N)
    BY <2>2, <2>3, KeptOfList
  <2>5. PICK l \in Seq(N) : l = Suggestions
    BY <2>1, <2>4
  <2>6. i \in 0..(Len(l) - 1) /\ Len(l) \in Nat
    BY <2>5
  <2>7. i + 1 \in 1..Len(l)
    BY <2>6
  <2>8. l[i + 1] \in Texts
    BY <2>b, <2>5, <2>7
  <2>. QED  BY <2>5, <2>8
<1>. QED  BY <1>1, <1>2

LEMMA ExplTypedRuns ==
  ASSUME ExplTyped, ExplorerInv', FindTyped(find'), Run(find'), found' = found
  PROVE  ExplTyped'
BY DEF ExplTyped, Run, FindTyped, Addressed, NoFind, KeyOf

LEMMA ExplTypedFollows ==
  ASSUME ExplTyped, ExplorerInv', NEW f, FindTyped(f), Follow(f), found' = found
  PROVE  ExplTyped'
<1>1. find' = f
  BY DEF Follow
<1>2. CASE KeyOf(f) # KeyOf(find)
  BY <1>1, <1>2, ExplTypedRuns DEF Follow
<1>3. CASE KeyOf(f) = KeyOf(find)
  <2>1. f.query = find.query /\ f.page = find.page
    BY <1>3 DEF KeyOf
  <2>2. url' = url
    BY <1>3 DEF Follow
  <2>. QED  BY <1>1, <2>1, <2>2 DEF ExplTyped, FindTyped, Addressed, NoFind, KeyOf
<1>. QED  BY <1>2, <1>3

LEMMA ExplTypedStep ==
  ASSUME ExplTyped, [ExplorerNext]_findVars
  PROVE  ExplTyped'
<1>0. ExplorerInv /\ ExplorerInv' /\ FindTyped(find) /\ Addressed
  <2>1. ExplorerInv
    BY DEF ExplTyped
  <2>2. ExplorerInv'
    BY <2>1, ExplorerSteps, ExplorerRests
  <2>. QED  BY <2>1, <2>2 DEF ExplTyped
<1>x. MaxFinds \in Nat
  BY ExplorerAssumption, Zenon DEF ExplorerAssumption
<1>z. 0 \in 0..MaxFinds
  BY <1>x
<1>y. "" \in Texts
  BY ExplorerAssumption DEF ExplorerAssumption
<1>a. ASSUME UNCHANGED <<find, found, url>> PROVE ExplTyped'
  BY <1>0, <1>a DEF ExplTyped, FindTyped, Addressed, NoFind, KeyOf
<1>b. ASSUME NEW t \in Texts
      PROVE  FindTyped(Searched(t)) /\ FindTyped([Searched(t) EXCEPT !.input = t])
  <2>1. find.input \in Texts /\ find.types \subseteq Facets
    BY <1>0 DEF FindTyped
  <2>2. FindTyped([input |-> find.input, query |-> t, types |-> find.types, page |-> 0])
    BY <1>b, <1>z, <2>1 DEF FindTyped
  <2>3. FindTyped([input |-> t, query |-> t, types |-> find.types, page |-> 0])
    BY <1>b, <1>z, <2>1 DEF FindTyped
  <2>. QED  BY <1>0, <2>2, <2>3, Searched1
<1>1. CASE DebounceEnds \/ Submit
  <2>1. Follow(Searched(find.input)) /\ found' = found /\ find.input \in Texts
    BY <1>0, <1>1 DEF DebounceEnds, Submit, FindTyped
  <2>. QED  BY <1>0, <1>b, <2>1, ExplTypedFollows
<1>2. ASSUME NEW i \in 0..(Len(Suggestions) - 1), Choose(i) PROVE ExplTyped'
  <2>. DEFINE t == Suggestions[i + 1]
  <2>1. Follow([Searched(t) EXCEPT !.input = t]) /\ found' = found
    BY <1>2 DEF Choose
  <2>2. t \in Texts
    BY SuggestedIsText
  <2>. HIDE DEF t
  <2>. QED  BY <1>0, <1>b, <2>1, <2>2, ExplTypedFollows
<1>3. ASSUME NEW p \in 0..MaxFinds, TurnTo(p) PROVE ExplTyped'
  <2>1. Follow([find EXCEPT !.page = p]) /\ found' = found
    BY <1>3 DEF TurnTo
  <2>2. [find EXCEPT !.page = p] = [input |-> find.input, query |-> find.query,
                                    types |-> find.types, page |-> p]
    BY <1>0 DEF ExplorerInv
  <2>3. FindTyped([find EXCEPT !.page = p])
    BY <1>0, <1>3, <2>2 DEF FindTyped
  <2>. QED  BY <1>0, <2>1, <2>3, ExplTypedFollows
<1>4. ASSUME NEW ts \in SUBSET Facets, SetTypes(ts) PROVE ExplTyped'
  <2>1. find' = [find EXCEPT !.types = ts, !.page = 0] /\ Run(find') /\ found' = found
    BY <1>4 DEF SetTypes
  <2>2. find' = [input |-> find.input, query |-> find.query, types |-> ts, page |-> 0]
    BY <1>0, <2>1 DEF ExplorerInv
  <2>3. FindTyped(find')
    BY <1>0, <1>z, <2>2 DEF FindTyped
  <2>. QED  BY <1>0, <2>1, <2>3, ExplTypedRuns
<1>5. CASE RetrySearch
  <2>1. find' = find /\ Run(find') /\ found' = found
    BY <1>5 DEF RetrySearch
  <2>. QED  BY <1>0, <2>1, ExplTypedRuns
<1>6. ASSUME NEW s \in searches, SearchArrives(s) PROVE ExplTyped'
  <2>1. s.key = KeyOf(find) /\ UNCHANGED <<find, url>>
    BY <1>0, <1>6 DEF SearchArrives, ExplorerInv
  <2>2. PICK n \in Totals : found' = [key |-> s.key, pages |-> n]
    BY <1>6 DEF SearchArrives
  <2>3. found'.key = s.key /\ s.key.query \in Texts
    BY <1>0, <2>1, <2>2 DEF KeyOf, FindTyped
  <2>. QED  BY <1>0, <2>1, <2>3 DEF ExplTyped, FindTyped, Addressed
<1>7. ASSUME NEW s, SearchStumbles(s) \/ SearchFails(s) PROVE ExplTyped'
  BY <1>7, <1>a DEF SearchStumbles, SearchFails
<1>8. CASE OpenOrClose \/ Mark \/ TypesSettle \/ ExportAll \/ ExportSettles
  BY <1>8, <1>a DEF OpenOrClose, Mark, TypesSettle, ExportAll, ExportSettles
<1>9. ASSUME ClearText \/ \E t \in Texts : Type(t) PROVE ExplTyped'
  <2>1. PICK t \in Texts : find' = [find EXCEPT !.input = t] /\ UNCHANGED <<found, url>>
    BY <1>9, <1>y DEF ClearText, Type
  <2>2. find' = [input |-> t, query |-> find.query, types |-> find.types, page |-> find.page]
    BY <1>0, <2>1 DEF ExplorerInv
  <2>3. FindTyped(find') /\ find'.query = find.query /\ find'.page = find.page
    BY <1>0, <2>2 DEF FindTyped
  <2>. QED  BY <1>0, <2>1, <2>3 DEF ExplTyped, Addressed, FindTyped, NoFind, KeyOf
<1>10. CASE Reopen
  <2>1. /\ find' = [input |-> url.query, query |-> url.query, types |-> {}, page |-> url.page]
        /\ url' = url /\ found' = NoFind
    BY <1>10 DEF Reopen, PageOpened
  <2>2. url.query = find.query /\ url.page = find.page
    BY <1>0 DEF Addressed
  <2>3. FindTyped(find') /\ find'.query = find.query /\ find'.page = find.page
    BY <1>0, <2>1, <2>2 DEF FindTyped
  <2>. QED  BY <1>0, <2>1, <2>3 DEF ExplTyped, Addressed, FindTyped, NoFind, KeyOf
<1>11. CASE UNCHANGED findVars
  BY <1>11, <1>a DEF findVars
<1>. QED  BY <1>1, <1>2, <1>3, <1>4, <1>5, <1>6, <1>7, <1>8, <1>9, <1>10, <1>11
          DEF ExplorerNext, ExplorerSettles

LEMMA ExplTypedHold == ExplorerSpec => [](ExplTyped /\ SearchTyped)
<1>1. ExplorerInit => ExplTyped
  <2>. SUFFICES ASSUME ExplorerInit PROVE ExplTyped
    OBVIOUS
  <2>1. find = [input |-> "", query |-> "", types |-> {}, page |-> 0]
        /\ url = [query |-> "", page |-> 0] /\ found = NoFind
    BY DEF ExplorerInit
  <2>a. "" \in Texts
    BY ExplorerAssumption DEF ExplorerAssumption
  <2>c. MaxFinds \in Nat
    BY ExplorerAssumption, Zenon DEF ExplorerAssumption
  <2>b. 0 \in 0..MaxFinds
    BY <2>c
  <2>2. FindTyped(find) /\ find.query = "" /\ find.page = 0
    BY <2>1, <2>a, <2>b DEF FindTyped
  <2>3. ExplorerInv
    BY ExplorerStart
  <2>. QED  BY <2>1, <2>2, <2>3 DEF ExplTyped, Addressed
<1>2. ExplorerInit => SearchTyped
  <2>. SUFFICES ASSUME ExplorerInit PROVE SearchTyped
    OBVIOUS
  <2>1. PICK k : searches = {[key |-> k, at |-> "asked", mine |-> TRUE]}
    BY DEF ExplorerInit
  <2>2. loading = TRUE
    BY DEF ExplorerInit
  <2>3. PICK r : searches = {r} /\ r.at = "asked" /\ r.mine
    <3>1. PICK r : r = [key |-> k, at |-> "asked", mine |-> TRUE]
      OBVIOUS
    <3>2. r.at = "asked" /\ r.mine
      BY <3>1
    <3>3. searches = {r}
      BY <2>1, <3>1
    <3>. QED  BY <3>2, <3>3
  <2>4. Spins
    BY <2>2, <2>3, Zenon DEF Spins
  <2>. QED  BY <2>3, <2>4 DEF SearchTyped, OneMine
<1>3. ExplTyped /\ [ExplorerNext]_findVars => ExplTyped'
  BY ExplTypedStep
<1>4. ExplorerInv /\ SearchTyped /\ [ExplorerNext]_findVars => SearchTyped'
  BY SearchTypedStep
<1>. QED  BY <1>1, <1>2, <1>3, <1>4, ExplorerHolds, PTL DEF ExplorerSpec
=============================================================================
