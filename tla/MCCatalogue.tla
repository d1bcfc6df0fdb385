----------------------------- MODULE MCCatalogue -----------------------------
(* Two stores and two products whose codes make one tag for two places.      *)
EXTENDS Catalogue, TLC

CONSTANTS s1, s2, p1, p2, t1, t2, t3

At(s, p) == [store |-> s, product |-> p]

\* Stores "A" and "A-B", products "B-C" and "C": the tag "A-B-C" twice.
MCTagOf == (At(s1, p1) :> t1) @@ (At(s1, p2) :> t2) @@ (At(s2, p1) :> t2) @@ (At(s2, p2) :> t3)
MCSeedPlace == {At(s1, p1), At(s1, p2)}

Empty == [s \in Store |-> "none"]
Tagged(q) == [store |-> q.store, product |-> q.product, tag |-> TagOf[q]]

MCStart ==
  {\* a new deployment
   [stores |-> {}, products |-> {}, items |-> {}, ledger |-> {}, requests |-> Empty, lines |-> {}],
   \* stores and products, nothing assigned
   [stores |-> Store, products |-> Product, items |-> {}, ledger |-> {}, requests |-> Empty, lines |-> {}],
   \* one store at work: p1 is on its order
   [stores |-> {s1}, products |-> Product, items |-> {Tagged(At(s1, p1)), Tagged(At(s1, p2))},
    ledger |-> {[store |-> s1, product |-> p1, line |-> None]},
    requests |-> [Empty EXCEPT ![s1] = "sent"], lines |-> {At(s1, p1)}],
   \* two stores, one with a draft that was overridden
   [stores |-> Store, products |-> {p1}, items |-> {Tagged(At(s1, p1))},
    ledger |-> {[store |-> s1, product |-> p1, line |-> p1]},
    requests |-> [Empty EXCEPT ![s1] = "draft"], lines |-> {At(s1, p1)}]}

MCSymmetry == Permutations(Admin)
=============================================================================
