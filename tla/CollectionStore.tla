-------------------------- MODULE CollectionStore --------------------------
(***************************************************************************)
(* The tables of packages/catalog: a collection is saved under the id of   *)
(* its run, in one transaction, as rows of the run, its products and their *)
(* variants, and read back by one statement. A name and a publication go   *)
(* with their id; raw and stats have no column.                            *)
(***************************************************************************)
EXTENDS Sequences

CONSTANTS Runs, Scopes, Collections, None

VARIABLES
  runs, products, variants,   \* the rows of the three tables
  saved,    \* history: the collection saved under a run
  answer    \* the last read: its run, its scope and the collection or None

vars == <<runs, products, variants, saved, answer>>

Elements(s) == {s[i] : i \in DOMAIN s}
Distinct(s) == \A i, j \in DOMAIN s : s[i].id = s[j].id => i = j

\* The rows saved of a collection.
RunRow(run, c) == [run |-> run, scope |-> c.scope, reason |-> c.reason]
ProductRow(run, p) == [run |-> run, product |-> p.id, stock |-> p.stock]
VariantRow(run, p, v) == [run |-> run, product |-> p.id, variant |-> v.id, stock |-> v.stock]

\* The shape of a collection, and no row is NULL.
StoreAssumption ==
  /\ None \notin Runs \cup Scopes /\ None \notin Collections
  /\ \A c \in Collections :
       /\ c = [scope |-> c.scope, reason |-> c.reason, products |-> c.products]
       /\ c.scope \in Scopes
       /\ \A p \in Elements(c.products) :
            /\ p = [id |-> p.id, stock |-> p.stock, variants |-> p.variants]
            /\ \A run \in Runs : ProductRow(run, p) # None
            /\ \A v \in Elements(p.variants) :
                 /\ v = [id |-> v.id, stock |-> v.stock]
                 /\ \A run \in Runs : VariantRow(run, p, v) # None

TypeOK ==
  /\ \A r \in runs : r.run \in Runs
  /\ \A p \in products : \E r \in runs : r.run = p.run
  /\ \A v \in variants : \E p \in products : p.run = v.run /\ p.product = v.product
  /\ saved \in [Runs -> Collections \cup {None}]

Init ==
  /\ runs = {} /\ products = {} /\ variants = {}
  /\ saved = [r \in Runs |-> None]
  /\ answer = None

-----------------------------------------------------------------------------
\* saveCollection; a run, product or variant the tables have already rolls it back.
SaveCollection(run, c) ==
  /\ ~\E r \in runs : r.run = run
  /\ Distinct(c.products) /\ \A p \in Elements(c.products) : Distinct(p.variants)
  /\ runs' = runs \cup {RunRow(run, c)}
  /\ products' = products \cup {ProductRow(run, p) : p \in Elements(c.products)}
  /\ variants' = variants \cup
       UNION {{VariantRow(run, p, v) : v \in Elements(p.variants)} : p \in Elements(c.products)}
  /\ saved' = [saved EXCEPT ![run] = c]
  /\ UNCHANGED answer

\* A row of R for each l that has one, else NULL.
LeftJoin(l, R) == IF R = {} THEN {<<l, None>>} ELSE {<<l, r>> : r \in R}

JoinedRows(scope, run) ==
  LET found == {r \in runs : r.run = run /\ r.scope = scope}
      withProducts == UNION {LeftJoin(r, {p \in products : p.run = r.run}) : r \in found}
      VariantsOf(p) == {v \in variants : v.run = p.run /\ v.product = p.product}
  IN UNION {LeftJoin(row, IF row[2] = None THEN {} ELSE VariantsOf(row[2])) : row \in withProducts}

\* mapCollection groups the rows by product, and skips what is NULL.
MapCollection(rows) ==
  LET first == (CHOOSE row \in rows : TRUE)[1][1]
      found == {row[1][2] : row \in rows} \ {None}
  IN [scope |-> first.scope, reason |-> first.reason,
      products |-> {[id |-> p.product, stock |-> p.stock,
                     variants |-> {[id |-> row[2].variant, stock |-> row[2].stock] :
                                     row \in {r \in rows : r[1][2] = p /\ r[2] # None}}] :
                      p \in found}]

ReadCollection(scope, run) ==
  /\ LET rows == JoinedRows(scope, run) IN
       answer' = [run |-> run, scope |-> scope,
                  collection |-> IF rows = {} THEN None ELSE MapCollection(rows)]
  /\ UNCHANGED <<runs, products, variants, saved>>

Next ==
  \E run \in Runs :
    \/ \E c \in Collections : SaveCollection(run, c)
    \/ \E scope \in Scopes : ReadCollection(scope, run)

Spec == Init /\ [][Next]_vars

-----------------------------------------------------------------------------
\* A collection, but for the order of its products and variants.
Unordered(c) ==
  [c EXCEPT !.products = {[p EXCEPT !.variants = Elements(@)] : p \in Elements(c.products)}]

\* What is read is the collection saved under that run, whole, and only by its own scope:
\* products without variants and a collection without products included, and a stock that
\* is not known stays so.
ReadIsWhatWasSaved ==
  answer # None /\ answer.collection # None =>
    /\ saved[answer.run] # None
    /\ answer.collection = Unordered(saved[answer.run])
    /\ answer.collection.scope = answer.scope
=============================================================================
