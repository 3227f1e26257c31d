------------------------------- MODULE MCForm -------------------------------
(* InspectionForm on small instances.                                      *)
EXTENDS FormRefinement, TLC
CONSTANTS orderA, orderB

(* No definition tells one work order from another.                        *)
OrderSymmetry == Permutations(WorkOrders)
=============================================================================
