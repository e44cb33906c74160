------------------------------ MODULE Storefront -------------------------------
(***************************************************************************)
(* The catalogue and the carts together: a cart is filled with what the    *)
(* catalogue lists, and the product service has a product removed from all *)
(* carts when it is deleted or banned.                                     *)
(***************************************************************************)
EXTENDS Cart, Catalogue

CONSTANT Mixes  \* the sets of requests, of both services, that may meet

ASSUME StorefrontAssumption ==
  /\ Goods = Products
  /\ Mixes \subseteq SUBSET (Requests \cup CartRequests)

StorefrontInit ==
  /\ \E mix \in Mixes : Init(mix) /\ CartInit(mix)
  /\ listed = Listed

\* delete.products.from.carts is emitted along with the deletions of entries.
Announced ==
  {r.product : r \in {q \in Requests : /\ q.kind \in {"delete_product", "ban_product"}
                                       /\ pc[q] = "written" /\ pc'[q] = "done"}}

\* The cart service asks for the catalogue's tables: listed is what is not
\* deleted there.
CatalogueAlong(Step) ==
  /\ Step
  /\ listed' = Listed'
  /\ delisting' = delisting \cup Announced
  /\ UNCHANGED <<cart, cached, step, copy, found, answer>>

StorefrontStep ==
  \/ CartStep /\ UNCHANGED vars
  \/ CatalogueAlong(Timely \/ \E r \in Requests : Working(r))

Stops == CatalogueAlong(\E r \in Requests : Crash(r))

all == <<vars, cartVars>>

\* Every request and every entry takes finitely many steps, so that what is
\* worked on at all is worked off: one weak fairness is enough.
StorefrontSpec ==
  /\ StorefrontInit
  /\ [][StorefrontStep \/ Stops]_all
  /\ WF_all(StorefrontStep)

-----------------------------------------------------------------------------

\* The types of both; among them, that no amount of a cart outgrows its column.
StorefrontTypeOK == CartTypeOK /\ TypeOK
=============================================================================
