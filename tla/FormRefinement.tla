--------------------------- MODULE FormRefinement ---------------------------
(***************************************************************************)
(* InspectionForm implements Navigation, by forgetting everything of a     *)
(* page instance but its controller, and InspectionLedger, by forgetting   *)
(* everything of a record but which pages it holds.                        *)
(***************************************************************************)
EXTENDS InspectionForm

ShownPages == [i \in DOMAIN stack |-> stack[i].vc]

Ledger_record ==
    [w \in WorkOrders |->
        [exists |-> db[w].when # "none",
         pages  |-> {p \in Pages : Saved(db[w], p)},
         closed |-> db[w].final]]

Nav    == INSTANCE Navigation WITH stack <- ShownPages
Ledger == INSTANCE InspectionLedger WITH
            current <- futureReference, record <- Ledger_record

(* Taps and callbacks move through the pages only as the controllers' push *)
(* table allows: by one push, one Back or the rewind to the home page.     *)
ImplementsNavigation == Nav!Spec

(* Whatever the inspector taps and whenever the uploads end, the records   *)
(* change only as the ledger allows: pages of the open form in order, and  *)
(* nothing of a closed form until its work order is opened again.          *)
ImplementsLedger == Ledger!Spec
=============================================================================
