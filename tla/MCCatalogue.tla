----------------------------- MODULE MCCatalogue -----------------------------
(* Instances of CatalogueVisit: each filter is named by the number of its  *)
(* products, a multiple of the page's rows or not.                         *)
EXTENDS CatalogueVisit

Products == [f \in Filters |-> f]
=============================================================================
