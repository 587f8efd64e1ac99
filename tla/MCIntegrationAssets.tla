-------------------------- MODULE MCIntegrationAssets --------------------------
(* An installation with a matrix, a draft contract of a field and a soft       *)
(* constraint, and two versions of a connector with a report for each.        *)
EXTENDS IntegrationAssets, TLC

CONSTANTS matrix, contract, m1, m2, p1, p2, setup, r1, order, k1, k2

MCAssets == {matrix, contract, m1, m2, p1, p2, setup, r1}
MCScopes == {"matrix", "contract", "manifest", "report", "constraint", "readiness"}

MCScope ==
  [a \in MCAssets |-> CASE a = matrix -> "matrix" [] a = contract -> "contract"
                        [] a \in {m1, m2} -> "manifest" [] a \in {p1, p2} -> "report"
                        [] a = setup -> "constraint" [] a = r1 -> "readiness"]

\* The matrix knows both roles; for quantities at time 1 only.
MCRules ==
  matrix :> { [role |-> "erp", paths |-> {"order.qty"}, times |-> {1}],
              [role |-> "mes", paths |-> {"order.note"}, times |-> {1, 2}] }

MCRequires ==
  contract :> [fields |-> {[path |-> "order.qty", role |-> "erp", hard |-> TRUE]},
               constraints |-> {[scope |-> "constraint", role |-> "mes", hard |-> FALSE]}]

MCVersion == m1 :> 1 @@ p1 :> 1 @@ m2 :> 2 @@ p2 :> 2

MCRoles == setup :> {"mes"}

Field(t, q) == [type |-> t, required |-> q]

\* The second version of the connector makes the quantity a number.
MCRegistration ==
  [m \in {m1, m2} |->
     [source |-> "mes",
      schemas |-> order :> ("id" :> Field("str", TRUE)
                            @@ "qty" :> Field(IF m = m1 THEN "int" ELSE "float", TRUE)
                            @@ "note" :> Field("text", FALSE))]]

\* A decimal quantity fits the second version only.
MCObservations ==
  { [source |-> "mes", entity |-> order,
     fields |-> "id" :> "string" @@ "qty" :> "decimal"] }

MCCanonical ==
  "str" :> "string" @@ "string" :> "string" @@ "text" :> "string" @@ "int" :> "integer"
  @@ "float" :> "number" @@ "decimal" :> "number"

\* Bound: either the guard is used or readiness is evaluated; all that they share
\* are the activations (of assets other than setup, which only readiness reads).
Unguarded == ingested = {} /\ \A k \in Calls : obs[k] = None
Unevaluated == \A k \in Calls : pc[k] # "reading" /\ on[k] \notin Readiness
GuardOrReadiness ==
  \/ Unguarded /\ \A q \in DOMAIN quar : quar[q] = "absent"
  \/ Unevaluated /\ {status[a] : a \in {setup, r1}} = {"absent"}

CallSymmetry == Permutations({k1, k2})
================================================================================
