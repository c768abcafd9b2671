------------------------------- MODULE UnionFind -------------------------------
(***************************************************************************)
(* The clustering of processing/er/clustering.py: union by rank over the   *)
(* matched pairs, in the order of the rows, and the groups of records that *)
(* share a root.  Path compression changes no root and is left out.        *)
(***************************************************************************)
EXTENDS Naturals, Sequences

CONSTANT Ids

(* Every id is its own root when find first meets it. *)
NoUnion == [parent |-> [x \in Ids |-> x], rank |-> [x \in Ids |-> 0]]

Find(uf, item) ==
  LET root[x \in Ids] == IF uf.parent[x] = x THEN x ELSE root[uf.parent[x]]
  IN  root[item]

BugUnion(uf, pair) ==
  LET root1 == Find(uf, pair[1])
  IN  [uf EXCEPT !.parent[pair[2]] = root1]
Union(uf, pair) ==
  LET root1 == Find(uf, pair[1])
      root2 == Find(uf, pair[2])
      under(child, root) == [uf EXCEPT !.parent[child] = root]
  IN  CASE root1 = root2 -> uf
        [] uf.rank[root1] < uf.rank[root2] -> under(root1, root2)
        [] uf.rank[root1] > uf.rank[root2] -> under(root2, root1)
        [] OTHER -> [under(root2, root1) EXCEPT !.rank[root1] = @ + 1]

(* What the rows leave, one after the other. *)
Unions(rows) ==
  LET after[i \in 0..Len(rows)] ==
        IF i = 0 THEN NoUnion ELSE Union(after[i - 1], rows[i])
  IN  after[Len(rows)]

(* The records with one root, a record without a match being its own.  The *)
(* pairs may name records that are not among them.                         *)
Group(uf, records, x) == {y \in records : Find(uf, y) = Find(uf, x)}

BugClusters(rows, records) ==
  {Group(Unions(rows), records, x) :
     x \in {y \in records : \E i \in 1..Len(rows) : y \in {rows[i][1], rows[i][2]}}}
Clusters(rows, records) ==
  LET uf == Unions(rows)
  IN  {Group(uf, records, x) : x \in records}

=============================================================================
