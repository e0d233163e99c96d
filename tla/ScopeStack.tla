------------------------------- MODULE ScopeStack ------------------------------
(***************************************************************************)
(* Stacks of scopes: sequences of maps from names to what is recorded of a *)
(* variable, the innermost scope last.  The symbol table and the code      *)
(* generator each keep one.                                                *)
(***************************************************************************)
EXTENDS Integers, Sequences

EmptyScope == <<>>

Bound(sc, n) == \E i \in DOMAIN sc : n \in DOMAIN sc[i]

\* Lookups walk the scopes from the innermost outwards.
Innermost(sc, n) ==
  CHOOSE i \in DOMAIN sc :
    /\ n \in DOMAIN sc[i]
    /\ \A j \in DOMAIN sc : n \in DOMAIN sc[j] => j <= i

Find(sc, n) == sc[Innermost(sc, n)][n]

\* The map with v recorded for n.
Recorded(map, n, v) ==
  [m \in DOMAIN map \cup {n} |-> IF m = n THEN v ELSE map[m]]

\* Record v for n in the innermost scope.
Bind(sc, n, v) == [sc EXCEPT ![Len(sc)] = Recorded(@, n, v)]
================================================================================
