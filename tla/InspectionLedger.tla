--------------------------- MODULE InspectionLedger ---------------------------
(***************************************************************************)
(* What the database is for: the records of work orders, as whoever reads  *)
(* them may rely on.  One form is open at a time; its pages are saved in   *)
(* order, and once it is closed nothing but opening the work order again   *)
(* changes which pages it holds.  Answers and pictures are left out.       *)
(***************************************************************************)
EXTENDS PageGraph

CONSTANTS WorkOrders, Nil

VARIABLES
    current,   \* the work order whose form was opened last
    record     \* what the database holds of each work order

ledgerVars == <<current, record>>

Record == [exists : BOOLEAN, pages : SUBSET Pages, closed : BOOLEAN]
NoRecord == [exists |-> FALSE, pages |-> {}, closed |-> FALSE]

Init ==
    /\ current = Nil
    /\ record = [w \in WorkOrders |-> NoRecord]

(* A new header replaces whatever the record held; that of a completed job *)
(* comes with the pages that do not apply to it.                           *)
Open(w, prefilled) ==
    /\ current' = w
    /\ record' = [record EXCEPT ![w] =
                    [exists |-> TRUE, pages |-> prefilled, closed |-> FALSE]]

(* A page of the open form is saved, or saved again, after those before it. *)
Save(p) ==
    /\ current # Nil
    /\ ~record[current].closed
    /\ \A q \in Pages : q < p => q \in record[current].pages
    /\ record' = [record EXCEPT ![current].pages = @ \cup {p}]
    /\ UNCHANGED current

Close ==
    /\ current # Nil
    /\ ~record[current].closed
    /\ 1..4 \subseteq record[current].pages
    /\ record' = [record EXCEPT ![current].closed = TRUE]
    /\ UNCHANGED current

Next ==
    \/ \E w \in WorkOrders, prefilled \in {{}, {1, 5, 6}} : Open(w, prefilled)
    \/ \E p \in Pages : Save(p)
    \/ Close

Spec == Init /\ [][Next]_ledgerVars
=============================================================================
