---------------------------- MODULE UnionFindProofs ----------------------------
(***************************************************************************)
(* What TLAPS proves of UnionFind, for any ids and any rows: two records   *)
(* are in one cluster exactly if the rows connect them, and the path       *)
(* compression that the model leaves out would change no root.             *)
(*                                                                         *)
(* find is recursive, and a TLA+ function with that recursion is some      *)
(* function that satisfies it.  Rooted says that there is only one, as     *)
(* there is where every find ends; union keeps that (RootPutUnder).  Then  *)
(* the rows are taken one after the other (RowsJoined): the two ids of a   *)
(* row get one root, and a set that no row leaves has the roots of its     *)
(* members and no others (Joins).                                          *)
(***************************************************************************)
EXTENDS UnionFind, WellFoundedInduction, TLAPS

(* A structure whose finds all end: R gives every id its root, it is the   *)
(* one function that the recursion of find allows, and roots are their own *)
(* parents.                                                                *)
Follows(parent, g) ==
  g = [x \in Ids |-> IF parent[x] = x THEN x ELSE g[parent[x]]]
Rooted(parent, R) ==
  /\ parent \in [Ids -> Ids] /\ R \in [Ids -> Ids]
  /\ Follows(parent, R)
  /\ \A g : Follows(parent, g) => g = R
  /\ \A x \in Ids : parent[R[x]] = R[x]
Structure == [parent : [Ids -> Ids], rank : [Ids -> Nat]]
Forest(uf, R) == uf \in Structure /\ Rooted(uf.parent, R)

LEMMA RootsAre ==
  ASSUME NEW parent, NEW R, Rooted(parent, R), NEW x \in Ids
  PROVE  /\ R[x] \in Ids /\ R[R[x]] = R[x] /\ parent[x] \in Ids
         /\ R[x] = IF parent[x] = x THEN x ELSE R[parent[x]]
         /\ parent[x] = x <=> R[x] = x
<1>1. \A y \in Ids : R[y] = IF parent[y] = y THEN y ELSE R[parent[y]]
  BY DEF Rooted, Follows
<1>2. parent \in [Ids -> Ids] /\ R \in [Ids -> Ids] /\ \A y \in Ids : parent[R[y]] = R[y]
  BY DEF Rooted
<1>. HIDE DEF Rooted
<1>. QED  BY <1>1, <1>2

(* find returns the root. *)
LEMMA FindsRoot ==
  ASSUME NEW uf, NEW R, Forest(uf, R), NEW item \in Ids
  PROVE  Find(uf, item) = R[item]
<1>. DEFINE root == CHOOSE g : g = [x \in Ids |-> IF uf.parent[x] = x THEN x ELSE g[uf.parent[x]]]
<1>1. Follows(uf.parent, R) /\ \A g : Follows(uf.parent, g) => g = R
  BY DEF Forest, Rooted
<1>2. root = R
  BY <1>1 DEF Follows
<1>3. Find(uf, item) = root[item]
  BY DEF Find
<1>. QED  BY <1>2, <1>3

LEMMA NoneJoined == Forest(NoUnion, [x \in Ids |-> x])
<1>. DEFINE id == [x \in Ids |-> x]
<1>1. NoUnion \in Structure /\ NoUnion.parent = id
  BY DEF NoUnion, Structure
<1>2. Follows(id, id)
  BY DEF Follows
<1>3. \A g : Follows(id, g) => g = id
  BY DEF Follows
<1>. QED  BY <1>1, <1>2, <1>3 DEF Forest, Rooted

(* A root put under another: its tree has the other's root. *)
LEMMA RootPutUnder ==
  ASSUME NEW parent, NEW R, Rooted(parent, R), NEW c \in Ids, NEW d \in Ids,
         c # d, R[c] = c, R[d] = d
  PROVE  Rooted([parent EXCEPT ![c] = d], [x \in Ids |-> IF R[x] = c THEN d ELSE R[x]])
<1>. DEFINE above == [parent EXCEPT ![c] = d]
            Joined == [x \in Ids |-> IF R[x] = c THEN d ELSE R[x]]
<1>1. /\ parent \in [Ids -> Ids] /\ R \in [Ids -> Ids]
      /\ \A x \in Ids : parent[x] = x <=> R[x] = x
      /\ \A x \in Ids : parent[x] # x => R[x] = R[parent[x]]
      /\ \A x \in Ids : parent[R[x]] = R[x]
  BY RootsAre DEF Rooted
<1>2. /\ above \in [Ids -> Ids] /\ Joined \in [Ids -> Ids]
      /\ above[c] = d /\ \A x \in Ids : x # c => above[x] = parent[x]
      /\ \A x \in Ids : Joined[x] = IF R[x] = c THEN d ELSE R[x]
  BY <1>1
<1>. HIDE DEF above, Joined
<1>3. \A x \in Ids : Joined[x] = IF above[x] = x THEN x ELSE Joined[above[x]]
  <2>. TAKE x \in Ids
  <2>1. CASE x = c
    BY <1>1, <1>2, <2>1
  <2>2. CASE x # c
    BY <1>1, <1>2, <2>2
  <2>. QED  BY <2>1, <2>2
<1>4. Follows(above, Joined)
  BY <1>2, <1>3 DEF Follows
<1>5. \A x \in Ids : above[Joined[x]] = Joined[x]
  BY <1>1, <1>2
(* Any other function the recursion allows is the old one off c's tree and *)
(* d on it.                                                                *)
<1>6. ASSUME NEW g, Follows(above, g) PROVE g = Joined
  <2>1. \A x \in Ids : g[x] = IF above[x] = x THEN x ELSE g[above[x]]
    BY <1>6 DEF Follows
  <2>2. DOMAIN g = Ids /\ g = [x \in Ids |-> g[x]]
    BY <1>6 DEF Follows
  <2>. DEFINE off == [x \in Ids |-> IF R[x] = c THEN c ELSE g[x]]
              on == [x \in Ids |-> IF R[x] = c THEN (IF g[x] = d THEN c ELSE d) ELSE R[x]]
  <2>3. \A x \in Ids : off[x] = IF parent[x] = x THEN x ELSE off[parent[x]]
    <3>. TAKE x \in Ids
    <3>1. CASE x = c
      BY <1>1, <1>2, <3>1
    <3>2. CASE x # c
      BY <1>1, <1>2, <2>1, <3>2
    <3>. QED  BY <3>1, <3>2
  <2>4. off = R
    <3>1. Follows(parent, off)
      BY <2>3 DEF Follows
    <3>. QED  BY <3>1 DEF Rooted
  <2>5. \A x \in Ids : R[x] # c => g[x] = R[x]
    BY <2>4
  <2>6. g[d] = d /\ g[c] = d
    BY <1>1, <1>2, <2>1, <2>5
  <2>7. \A x \in Ids : on[x] = IF parent[x] = x THEN x ELSE on[parent[x]]
    <3>. TAKE x \in Ids
    <3>1. CASE x = c
      BY <1>1, <2>6, <3>1
    <3>2. CASE x # c
      BY <1>1, <1>2, <2>1, <3>2
    <3>. QED  BY <3>1, <3>2
  <2>8. on = R
    <3>1. Follows(parent, on)
      BY <2>7 DEF Follows
    <3>. QED  BY <3>1 DEF Rooted
  <2>9. \A x \in Ids : R[x] = c => g[x] = d
    BY <2>8
  <2>10. \A x \in Ids : g[x] = Joined[x]
    BY <1>2, <2>5, <2>9
  <2>. QED  BY <1>2, <2>2, <2>10
<1>7. Rooted(above, Joined)
  BY <1>2, <1>4, <1>5, <1>6 DEF Rooted
<1>. QED  BY <1>7 DEF above, Joined

(* union gives the two trees one root, and changes no other.               *)
Merges(R, Joined, a, b) ==
  \E c, d \in Ids :
    /\ (c = R[a] /\ d = R[b]) \/ (c = R[b] /\ d = R[a])
    /\ Joined = [x \in Ids |-> IF R[x] = c THEN d ELSE R[x]]

LEMMA UnionMerges ==
  ASSUME NEW uf, NEW R, Forest(uf, R), NEW a \in Ids, NEW b \in Ids
  PROVE  \E Joined : Forest(Union(uf, <<a, b>>), Joined) /\ Merges(R, Joined, a, b)
<1>. DEFINE root1 == Find(uf, a)
            root2 == Find(uf, b)
            under(child, root) == [uf EXCEPT !.parent[child] = root]
<1>1. root1 = R[a] /\ root2 = R[b]
  BY FindsRoot
<1>2. /\ Rooted(uf.parent, R) /\ uf \in Structure
      /\ root1 \in Ids /\ root2 \in Ids /\ R[root1] = root1 /\ R[root2] = root2
  BY <1>1, RootsAre DEF Forest
<1>3. uf.rank \in [Ids -> Nat] /\ uf.parent \in [Ids -> Ids]
  BY <1>2 DEF Structure
<1>. DEFINE less == uf.rank[root1] < uf.rank[root2]
            more == uf.rank[root1] > uf.rank[root2]
            first == under(root1, root2)
            second == under(root2, root1)
            third == [second EXCEPT !.rank[root1] = @ + 1]
<1>4. /\ root1 = root2 => Union(uf, <<a, b>>) = uf
      /\ root1 # root2 /\ less => Union(uf, <<a, b>>) = first
      /\ root1 # root2 /\ more => Union(uf, <<a, b>>) = second
      /\ root1 # root2 /\ ~less /\ ~more => Union(uf, <<a, b>>) = third
  <2>1. Union(uf, <<a, b>>) =
          CASE root1 = root2 -> uf [] less -> first [] more -> second [] OTHER -> third
    BY DEF Union
  <2>2. (root1 = root2 => ~less /\ ~more) /\ ~(less /\ more)
    BY <1>2, <1>3
  <2>. HIDE DEF root1, root2, less, more, first, second, third
  <2>. QED  BY <2>1, <2>2
<1>. HIDE DEF root1, root2
<1>5. CASE root1 = root2
  <2>1. R = [x \in Ids |-> IF R[x] = root1 THEN root2 ELSE R[x]]
    BY <1>2, <1>5 DEF Rooted
  <2>. QED  BY <1>1, <1>2, <1>4, <1>5, <2>1 DEF Merges
<1>6. ASSUME NEW c \in Ids, NEW d \in Ids, c # d, R[c] = c, R[d] = d,
             (c = root1 /\ d = root2) \/ (c = root2 /\ d = root1),
             NEW new \in Structure, new.parent = [uf.parent EXCEPT ![c] = d],
             Union(uf, <<a, b>>) = new
      PROVE  \E Joined : Forest(Union(uf, <<a, b>>), Joined) /\ Merges(R, Joined, a, b)
  <2>. DEFINE Joined == [x \in Ids |-> IF R[x] = c THEN d ELSE R[x]]
  <2>1. Rooted(new.parent, Joined)
    BY <1>2, <1>6, RootPutUnder
  <2>2. Merges(R, Joined, a, b)
    BY <1>1, <1>6 DEF Merges
  <2>. QED  BY <1>6, <2>1, <2>2 DEF Forest
<1>7. ASSUME NEW c \in Ids, NEW d \in Ids
      PROVE  /\ under(c, d) \in Structure
             /\ under(c, d).parent = [uf.parent EXCEPT ![c] = d]
             /\ under(c, d).rank = uf.rank
  BY <1>2, <1>4 DEF Structure
<1>8. CASE root1 # root2 /\ less
  <2>1. first \in Structure /\ first.parent = [uf.parent EXCEPT ![root1] = root2]
    BY <1>2, <1>7
  <2>2. Union(uf, <<a, b>>) = first
    BY <1>4, <1>8
  <2>. HIDE DEF first
  <2>. QED  BY <1>2, <1>6, <1>8, <2>1, <2>2
<1>9. CASE root1 # root2 /\ more
  <2>1. second \in Structure /\ second.parent = [uf.parent EXCEPT ![root2] = root1]
    BY <1>2, <1>7
  <2>2. Union(uf, <<a, b>>) = second
    BY <1>4, <1>9
  <2>. HIDE DEF second
  <2>. QED  BY <1>2, <1>6, <1>9, <2>1, <2>2
<1>10. CASE root1 # root2 /\ ~less /\ ~more
  <2>1. /\ second \in Structure /\ second.parent = [uf.parent EXCEPT ![root2] = root1]
        /\ second.rank = uf.rank
    BY <1>2, <1>7
  <2>2. Union(uf, <<a, b>>) = third
    BY <1>4, <1>10
  <2>3. third \in Structure /\ third.parent = second.parent
    <3>. HIDE DEF second
    <3>1. third = [second EXCEPT !.rank = [second.rank EXCEPT ![root1] = second.rank[root1] + 1]]
      BY <2>1 DEF Structure
    <3>2. [second.rank EXCEPT ![root1] = second.rank[root1] + 1] \in [Ids -> Nat]
      BY <1>2, <1>3, <2>1
    <3>. QED  BY <2>1, <3>1, <3>2 DEF Structure
  <2>. HIDE DEF second, third
  <2>. QED  BY <1>2, <1>6, <1>10, <2>1, <2>2, <2>3
<1>. QED  BY <1>5, <1>8, <1>9, <1>10

-----------------------------------------------------------------------------
(* The rows, one after the other *)

(* Induction over the numbers of a set. *)
LEMMA Counting ==
  ASSUME NEW S, 0 \in S, \A n \in Nat : n \in S => n + 1 \in S
  PROVE  Nat \subseteq S
<1>. DEFINE T == Nat \ S
            R == OpToRel(<, Nat)
<1>1. SUFFICES ASSUME T # {} PROVE FALSE
  OBVIOUS
<1>2. IsWellFoundedOn(R, Nat)
  BY NatLessThanWellFounded
<1>3. T \subseteq Nat
  OBVIOUS
<1>. HIDE DEF R, T
<1>4. PICK n \in T : \A m \in T : ~(<<m, n>> \in R)
  BY <1>1, <1>2, <1>3, WFMin
<1>5. n \in Nat /\ n \notin S /\ n # 0
  BY <1>3, <1>4 DEF T
<1>6. n - 1 \in Nat /\ n - 1 + 1 = n /\ n - 1 < n
  BY <1>5
<1>7. n - 1 \in S
  BY <1>4, <1>6, <1>3 DEF T, R, OpToRel
<1>8. n - 1 + 1 \in S
  BY <1>6, <1>7
<1>. QED  BY <1>5, <1>6, <1>8

Links == Ids \X Ids
After(rows, n, f) ==
  f = [i \in 0..n |-> IF i = 0 THEN NoUnion ELSE Union(f[i - 1], rows[i])]

LEMMA AfterExists ==
  ASSUME NEW rows, NEW n \in Nat
  PROVE  \E f : After(rows, n, f)
<1>. DEFINE S == {k \in Nat : \E f : After(rows, k, f)}
<1>1. 0 \in S
  <2>. DEFINE f == [i \in 0..0 |-> NoUnion]
  <2>1. f = [i \in 0..0 |-> IF i = 0 THEN NoUnion ELSE Union(f[i - 1], rows[i])]
    <3>1. \A i \in 0..0 : i = 0
      OBVIOUS
    <3>. QED  BY <3>1
  <2>. QED  BY <2>1 DEF After
<1>2. ASSUME NEW k \in Nat, k \in S PROVE k + 1 \in S
  <2>1. PICK f : After(rows, k, f)
    BY <1>2
  <2>. DEFINE g == [i \in 0..k + 1 |-> IF i = k + 1 THEN Union(f[k], rows[k + 1]) ELSE f[i]]
  <2>2. \A i \in 0..k : f[i] = IF i = 0 THEN NoUnion ELSE Union(f[i - 1], rows[i])
    BY <2>1 DEF After
  <2>3. \A i \in 0..k + 1 : g[i] = IF i = 0 THEN NoUnion ELSE Union(g[i - 1], rows[i])
    <3>. TAKE i \in 0..k + 1
    <3>1. CASE i = k + 1
      <4>1. g[k + 1] = Union(f[k], rows[k + 1]) /\ g[k] = f[k] /\ i # 0 /\ i - 1 = k
        BY <3>1
      <4>. QED  BY <3>1, <4>1
    <3>2. CASE i \in 1..k
      <4>1. g[i] = f[i] /\ g[i - 1] = f[i - 1] /\ i # 0 /\ i \in 0..k
        BY <3>2
      <4>2. g[i] = Union(f[i - 1], rows[i])
        BY <2>2, <4>1
      <4>. QED  BY <4>1, <4>2
    <3>3. CASE i = 0
      <4>1. g[i] = f[i] /\ i \in 0..k
        BY <3>3
      <4>. QED  BY <2>2, <3>3, <4>1
    <3>. QED  BY <3>1, <3>2, <3>3
  <2>4. g = [i \in 0..k + 1 |-> g[i]]
    OBVIOUS
  <2>. HIDE DEF g
  <2>5. After(rows, k + 1, g)
    BY <2>3, <2>4 DEF After
  <2>. QED  BY <2>5
<1>3. Nat \subseteq S
  <2>. HIDE DEF S
  <2>. QED  BY <1>1, <1>2, Counting
<1>. QED  BY <1>3

(* After k rows: the two ids of each row have one root, and a set of ids   *)
(* that none of the rows leaves holds an id exactly if it holds its root.  *)
Stays(rows, k, S) == \A i \in 1..k : rows[i][1] \in S <=> rows[i][2] \in S
Joins(rows, k, R) ==
  /\ \A i \in 1..k : R[rows[i][1]] = R[rows[i][2]]
  /\ \A S \in SUBSET Ids : Stays(rows, k, S) => \A x \in Ids : x \in S <=> R[x] \in S

LEMMA OneMoreRow ==
  ASSUME NEW rows, NEW k \in Nat, NEW R \in [Ids -> Ids], NEW Joined,
         \A i \in 1..k + 1 : rows[i][1] \in Ids /\ rows[i][2] \in Ids,
         Joins(rows, k, R), Merges(R, Joined, rows[k + 1][1], rows[k + 1][2])
  PROVE  Joins(rows, k + 1, Joined)
<1>. DEFINE a == rows[k + 1][1]
            b == rows[k + 1][2]
<1>1. PICK c \in Ids, d \in Ids :
        /\ (c = R[a] /\ d = R[b]) \/ (c = R[b] /\ d = R[a])
        /\ Joined = [x \in Ids |-> IF R[x] = c THEN d ELSE R[x]]
  BY DEF Merges
<1>2. a \in Ids /\ b \in Ids
  OBVIOUS
<1>3. \A i \in 1..k + 1 : i \in 1..k \/ i = k + 1
  OBVIOUS
<1>4. \A i \in 1..k : i \in 1..k + 1
  OBVIOUS
<1>. HIDE DEF a, b
<1>5. Joined[a] = Joined[b]
  BY <1>1, <1>2
<1>6. ASSUME NEW i \in 1..k + 1 PROVE Joined[rows[i][1]] = Joined[rows[i][2]]
  <2>1. CASE i \in 1..k
    BY <1>1, <1>4, <2>1 DEF Joins
  <2>2. CASE i = k + 1
    BY <1>5, <2>2 DEF a, b
  <2>. QED  BY <1>3, <2>1, <2>2
<1>7. ASSUME NEW S \in SUBSET Ids, Stays(rows, k + 1, S), NEW x \in Ids
      PROVE  x \in S <=> Joined[x] \in S
  <2>1. Stays(rows, k, S) /\ (a \in S <=> b \in S)
    BY <1>4, <1>7 DEF Stays, a, b
  <2>2. \A y \in Ids : y \in S <=> R[y] \in S
    BY <2>1 DEF Joins
  <2>. QED  BY <1>1, <1>2, <2>1, <2>2
<1>. QED  BY <1>6, <1>7 DEF Joins

LEMMA RowsJoined ==
  ASSUME NEW rows, NEW n \in Nat, \A i \in 1..n : rows[i] \in Links,
         NEW f, After(rows, n, f)
  PROVE  \E R : Forest(f[n], R) /\ Joins(rows, n, R)
<1>. DEFINE S == {k \in Nat : k <= n => \E R : Forest(f[k], R) /\ Joins(rows, k, R)}
<1>1. \A i \in 0..n : f[i] = IF i = 0 THEN NoUnion ELSE Union(f[i - 1], rows[i])
  BY DEF After
<1>2. 0 \in S
  <2>. DEFINE id == [x \in Ids |-> x]
  <2>1. f[0] = NoUnion
    BY <1>1
  <2>2. Joins(rows, 0, id)
    BY DEF Joins
  <2>. QED  BY <2>1, <2>2, NoneJoined
<1>3. ASSUME NEW k \in Nat, k \in S PROVE k + 1 \in S
  <2>1. SUFFICES ASSUME k + 1 <= n
                 PROVE  \E R : Forest(f[k + 1], R) /\ Joins(rows, k + 1, R)
    OBVIOUS
  <2>2. PICK R : Forest(f[k], R) /\ Joins(rows, k, R)
    BY <1>3, <2>1
  <2>3. k + 1 \in 1..n /\ k + 1 \in 0..n /\ k + 1 # 0 /\ k + 1 - 1 = k
    BY <2>1
  <2>4. f[k + 1] = Union(f[k], rows[k + 1])
    BY <1>1, <2>3
  <2>5. \A i \in 1..k + 1 : rows[i] \in Links
    BY <2>1
  <2>6. \A i \in 1..k + 1 :
          /\ rows[i][1] \in Ids /\ rows[i][2] \in Ids
          /\ rows[i] = <<rows[i][1], rows[i][2]>>
    BY <2>5 DEF Links
  <2>7. k + 1 \in 1..k + 1
    OBVIOUS
  <2>8. PICK a \in Ids, b \in Ids : a = rows[k + 1][1] /\ b = rows[k + 1][2]
    BY <2>6, <2>7
  <2>10. PICK Joined : Forest(f[k + 1], Joined) /\ Merges(R, Joined, a, b)
    <3>1. f[k + 1] = Union(f[k], <<a, b>>)
      BY <2>4, <2>6, <2>7, <2>8
    <3>. QED  BY <2>2, <3>1, UnionMerges
  <2>9. R \in [Ids -> Ids]
    BY <2>2 DEF Forest, Rooted
  <2>11. Joins(rows, k + 1, Joined)
    BY <2>2, <2>6, <2>8, <2>9, <2>10, OneMoreRow
  <2>. QED  BY <2>10, <2>11
<1>4. Nat \subseteq S
  <2>. HIDE DEF S
  <2>. QED  BY <1>2, <1>3, Counting
<1>5. n \in S
  BY <1>4
<1>. QED  BY <1>5

(* Two ids have one root exactly if every set of ids that no row leaves    *)
(* and that holds the one holds the other.                                 *)
LEMMA RootsAreComponents ==
  ASSUME NEW rows \in Seq(Links), NEW x \in Ids, NEW y \in Ids
  PROVE  Find(Unions(rows), x) = Find(Unions(rows), y)
           <=> \A S \in SUBSET Ids : x \in S /\ Stays(rows, Len(rows), S) => y \in S
<1>. DEFINE n == Len(rows)
            after == CHOOSE f : f = [i \in 0..n |->
                       IF i = 0 THEN NoUnion ELSE Union(f[i - 1], rows[i])]
<1>1. n \in Nat /\ \A i \in 1..n : rows[i] \in Links
  OBVIOUS
<1>2. Unions(rows) = after[n]
  BY DEF Unions
<1>. HIDE DEF n
<1>3. After(rows, n, after)
  BY <1>1, AfterExists DEF After
<1>. HIDE DEF after
<1>4. PICK R : Forest(after[n], R) /\ Joins(rows, n, R)
  BY <1>1, <1>3, RowsJoined
<1>5. Find(Unions(rows), x) = R[x] /\ Find(Unions(rows), y) = R[y] /\ R \in [Ids -> Ids]
  BY <1>2, <1>4, FindsRoot DEF Forest, Rooted
<1>6. ASSUME R[x] = R[y], NEW S \in SUBSET Ids, x \in S, Stays(rows, n, S)
      PROVE  y \in S
  BY <1>4, <1>6 DEF Joins
<1>7. ASSUME \A S \in SUBSET Ids : x \in S /\ Stays(rows, n, S) => y \in S
      PROVE  R[x] = R[y]
  <2>. DEFINE S == {z \in Ids : R[z] = R[x]}
  <2>1. \A i \in 1..n : rows[i][1] \in Ids /\ rows[i][2] \in Ids
    BY <1>1 DEF Links
  <2>2. Stays(rows, n, S)
    BY <1>4, <2>1 DEF Stays, Joins
  <2>. QED  BY <1>7, <2>2
<1>. QED  BY <1>5, <1>6, <1>7 DEF n

(* Two records are in one cluster exactly if every set of ids that no row  *)
(* leaves and that holds the one holds the other: union-find computes the  *)
(* connected components, in whatever order the rows come.                  *)
THEOREM ClustersAreComponents ==
  ASSUME NEW rows \in Seq(Links), NEW records \in SUBSET Ids,
         NEW x \in records, NEW y \in records
  PROVE  (\E c \in Clusters(rows, records) : x \in c /\ y \in c)
           <=> \A S \in SUBSET Ids : x \in S /\ Stays(rows, Len(rows), S) => y \in S
<1>. DEFINE root(z) == Find(Unions(rows), z)
            group(z) == {w \in records : root(w) = root(z)}
<1>1. Clusters(rows, records) = {group(z) : z \in records}
  BY DEF Clusters, Group
<1>2. root(x) = root(y)
        <=> \A S \in SUBSET Ids : x \in S /\ Stays(rows, Len(rows), S) => y \in S
  BY RootsAreComponents
<1>. HIDE DEF root
<1>3. ASSUME NEW c \in {group(z) : z \in records}, x \in c, y \in c
      PROVE  root(x) = root(y)
  <2>1. PICK z \in records : c = group(z)
    OBVIOUS
  <2>2. root(x) = root(z) /\ root(y) = root(z)
    BY <1>3, <2>1
  <2>. QED  BY <2>2
<1>4. ASSUME root(x) = root(y)
      PROVE  \E c \in {group(z) : z \in records} : x \in c /\ y \in c
  <2>1. x \in group(x) /\ y \in group(x) /\ group(x) \in {group(z) : z \in records}
    BY <1>4
  <2>. QED  BY <2>1
<1>. HIDE DEF group
<1>. QED  BY <1>1, <1>2, <1>3, <1>4

(* Path compression, which the model leaves out: an id put directly under  *)
(* its root changes the root of none.                                      *)
THEOREM CompressionKeepsRoots ==
  ASSUME NEW parent, NEW R, Rooted(parent, R), NEW x \in Ids
  PROVE  Rooted([parent EXCEPT ![x] = R[x]], R)
<1>. DEFINE above == [parent EXCEPT ![x] = R[x]]
<1>1. /\ parent \in [Ids -> Ids] /\ R \in [Ids -> Ids]
      /\ \A z \in Ids : parent[z] = z <=> R[z] = z
      /\ \A z \in Ids : parent[z] # z => R[z] = R[parent[z]]
      /\ \A z \in Ids : parent[R[z]] = R[z] /\ R[R[z]] = R[z]
  BY RootsAre DEF Rooted
<1>2. CASE R[x] = x
  <2>1. above = parent
    BY <1>1, <1>2
  <2>. QED  BY <2>1
<1>3. CASE R[x] # x
  <2>1. /\ above \in [Ids -> Ids] /\ above[x] = R[x]
        /\ \A z \in Ids : z # x => above[z] = parent[z]
    BY <1>1
  <2>. HIDE DEF above
  <2>2. \A z \in Ids : R[z] = IF above[z] = z THEN z ELSE R[above[z]]
    <3>. TAKE z \in Ids
    <3>1. CASE z = x
      BY <1>1, <1>3, <2>1, <3>1
    <3>2. CASE z # x
      BY <1>1, <2>1, <3>2
    <3>. QED  BY <3>1, <3>2
  <2>3. Follows(above, R)
    BY <1>1, <2>2 DEF Follows
  <2>4. \A z \in Ids : above[R[z]] = R[z]
    BY <1>1, <1>3, <2>1
(* The ids another function would send elsewhere are below no root and not *)
(* above x: the recursion of find would not have ended for them before.    *)
  <2>5. ASSUME NEW g, Follows(above, g) PROVE g = R
    <3>. DEFINE A == {z \in Ids : g[z] # R[z]}
                Closed(T) == A \subseteq T /\ \A w \in Ids : parent[w] \in T => w \in T
                D == {z \in Ids : \A T \in SUBSET Ids : Closed(T) => z \in T}
    <3>1. /\ g = [z \in Ids |-> g[z]]
          /\ \A z \in Ids : g[z] = IF above[z] = z THEN z ELSE g[above[z]]
      BY <2>5 DEF Follows
    <3>2. g[x] = R[x]
      <4>1. R[x] \in Ids /\ above[R[x]] = R[x]
        BY <1>1, <2>4
      <4>2. g[R[x]] = R[x]
        BY <3>1, <4>1
      <4>3. g[x] = g[R[x]]
        BY <3>1, <2>1, <1>3
      <4>. QED  BY <4>2, <4>3
    <3>3. ASSUME NEW z \in A
          PROVE  parent[z] \in A /\ parent[z] # z
      <4>1. z \in Ids /\ g[z] # R[z] /\ z # x /\ above[z] = parent[z]
        BY <2>1, <3>2
      <4>2. parent[z] # z
        BY <1>1, <2>2, <3>1, <4>1
      <4>3. g[z] = g[parent[z]]
        BY <3>1, <4>1, <4>2
      <4>4. R[z] = R[parent[z]] /\ parent[z] \in Ids
        BY <1>1, <4>1, <4>2
      <4>. QED  BY <4>1, <4>2, <4>3, <4>4
    <3>. HIDE DEF A
    <3>4. Closed(D)
      <4>1. A \subseteq Ids
        BY DEF A
      <4>. QED  BY <4>1
    <3>5. \A z \in D : parent[z] # z
      <4>. DEFINE T == {w \in Ids : parent[w] # w}
      <4>1. Closed(T)
        BY <3>3, <1>1 DEF A
      <4>. QED  BY <4>1
    <3>6. \A z \in D : parent[z] \in D
      <4>. DEFINE T == {w \in Ids : parent[w] \in D}
      <4>1. Closed(T)
        BY <1>1, <3>3, <3>4 DEF A
      <4>. QED  BY <4>1
    <3>7. ASSUME NEW z \in A PROVE FALSE
      <4>. DEFINE h == [w \in Ids |-> IF w \in D THEN g[z] ELSE R[w]]
      <4>1. D \subseteq Ids /\ z \in D /\ z \in Ids /\ g[z] # R[z]
        BY <3>4, <3>7 DEF A
      <4>2. \A w \in Ids : parent[w] \in D <=> w \in D
        BY <3>4, <3>6
      <4>. HIDE DEF D
      <4>3. \A w \in Ids : h[w] = IF parent[w] = w THEN w ELSE h[parent[w]]
        BY <1>1, <3>5, <4>2
      <4>4. Follows(parent, h)
        BY <4>3 DEF Follows
      <4>5. h = R
        BY <4>4 DEF Rooted
      <4>. QED  BY <4>1, <4>5
    <3>8. \A z \in Ids : g[z] = R[z]
      BY <3>7 DEF A
    <3>9. R = [z \in Ids |-> R[z]]
      BY <1>1
    <3>10. [z \in Ids |-> g[z]] = [z \in Ids |-> R[z]]
      BY <3>8
    <3>. QED  BY <3>1, <3>9, <3>10
  <2>6. Rooted(above, R)
    BY <1>1, <2>1, <2>3, <2>4, <2>5 DEF Rooted
  <2>. QED  BY <2>6 DEF above
<1>. QED  BY <1>2, <1>3
================================================================================
