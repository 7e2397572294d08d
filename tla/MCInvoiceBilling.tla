-------------------------- MODULE MCInvoiceBilling --------------------------
(* Small instances of InvoiceBilling for TLC. *)
EXTENDS InvoiceBilling

CONSTANTS e1, e2, x1, q1, t1

MCTaskOf == [s \in Entries \cup Quotes |-> t1]
MCSelections == {{e1, x1}, {e2, q1}, {e1, e2}}
MCOneSelection == {{e1, x1}}
MCEndOf == [e \in Entries |-> IF e = e1 THEN 1 ELSE 2]
=============================================================================
