---------------------------- MODULE MCProductStock ----------------------------
(* Small instances of ProductStock: up to two units, one request of a kind.    *)
EXTENDS ProductStock, FiniteSets, TLC

CONSTANTS seller, adm, take, takeToo, putBack, setStock, setPrice,
          edit, remove, recover, ban, unban

MCKind ==
  (take :> "reserve" @@ takeToo :> "reserve" @@ putBack :> "restore_stock" @@
   setStock :> "update_stock" @@ setPrice :> "update_price" @@ edit :> "update_product" @@
   remove :> "delete_product" @@ recover :> "restore_product" @@
   ban :> "ban_product" @@ unban :> "unban_product")
MCBy == [r \in Requests |-> IF r \in {ban, unban} THEN adm ELSE seller]
MCNewStock ==
  [r \in Requests |-> IF r = setStock THEN 2 ELSE IF r = edit THEN 1 ELSE Omitted]
MCNewPrice == [r \in Requests |-> IF r = setPrice THEN 1 ELSE Omitted]
MCAmount == [r \in Requests |-> IF r = takeToo THEN 2 ELSE 1]
MCReservation == [r \in Requests |-> take]
MCKinds == [r \in Requests |-> MCKind[r]]
\* A reservation and any three others.
MCMixes == {m \in SUBSET Requests : take \in m /\ Cardinality(m) = 4}

\* A product is sold while its seller edits something else.
MCSale == {{take, takeToo, edit}}
MCOmits == [r \in Requests |-> IF r = setStock THEN 2 ELSE Omitted]
=============================================================================
