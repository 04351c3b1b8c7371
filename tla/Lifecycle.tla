------------------------------ MODULE Lifecycle ------------------------------
(***************************************************************************)
(* What the users of a document store may rely on, whatever the workers    *)
(* and the collector behind it do: an item is unpublished, then shown to   *)
(* users, then retired, and once retired never comes back.  An item whose  *)
(* requests ran into each other is contended, and nothing is promised for  *)
(* it.                                                                     *)
(***************************************************************************)
CONSTANT Item

VARIABLE status

Status == {"unpublished", "shown", "retired", "contended"}

TypeOK == status \in [Item -> Status]

Init == status = [i \in Item |-> "unpublished"]

Publish(i) ==
    /\ status[i] = "unpublished"
    /\ status' = [status EXCEPT ![i] = "shown"]

(* A document, or all the documents of a base, are taken away.             *)
Retire(is) ==
    status' = [i \in Item |->
                 IF i \in is /\ status[i] # "contended" THEN "retired" ELSE status[i]]

Contend(is) ==
    status' = [i \in Item |-> IF i \in is THEN "contended" ELSE status[i]]

Next ==
    \/ \E i \in Item : Publish(i)
    \/ \E is \in SUBSET Item : Retire(is) \/ Contend(is)

Spec == Init /\ [][Next]_status
=============================================================================
