------------------------------- MODULE Totals -------------------------------
(***************************************************************************)
(* The sum of a number for every member of a finite set, as the number of  *)
(* units there are when each member has that many.  It is a sum a proof    *)
(* can reason about: nothing in it is recursive.                           *)
(***************************************************************************)
EXTENDS Integers, FiniteSets

\* The units of all members of S, when each member m has n[m] of them.
Units(S, n) == UNION {{m} \X (1..n[m]) : m \in S}

\* The sum of n[m] over all members m of S.
Total(S, n) == Cardinality(Units(S, n))

=============================================================================
