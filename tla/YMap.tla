-------------------------------- MODULE YMap --------------------------------
(***************************************************************************)
(* One key of a Yjs map, as the store relies on it.  Setting the key adds  *)
(* an item to the right of the item that was last; concurrent items with   *)
(* the same left neighbour are ordered by the id of the client that wrote  *)
(* them.  The last item is the value of the key, unless it was deleted.    *)
(* An item is therefore known by the path of clients that leads to it, and *)
(* the last item is the one with the greatest path.  Documents merge by    *)
(* taking all items and all deletions of both.                             *)
(***************************************************************************)
EXTENDS Naturals, Sequences

EmptyKey == [items |-> {}, dead |-> {}]
Keys(Path, Val) == [items : SUBSET [path : Path, val : Val], dead : SUBSET Path]

\* Lexicographic order; a path comes before its extensions.
Before(p, q) ==
  \E k \in 1..Len(q) :
    /\ \A j \in 1..(k - 1) : j <= Len(p) /\ p[j] = q[j]
    /\ k <= Len(p) => p[k] < q[k]

Last(key) == CHOOSE it \in key.items : \A o \in key.items : o = it \/ Before(o.path, it.path)
LastPath(key) == IF key.items = {} THEN <<>> ELSE Last(key).path

Has(key) == key.items # {} /\ Last(key).path \notin key.dead
Value(key) == Last(key).val

Set(key, client, value) ==
  [key EXCEPT !.items = @ \cup {[path |-> Append(LastPath(key), client), val |-> value]}]
Delete(key) == IF Has(key) THEN [key EXCEPT !.dead = @ \cup {LastPath(key)}] ELSE key

Merge(a, b) == [items |-> a.items \cup b.items, dead |-> a.dead \cup b.dead]
=============================================================================
