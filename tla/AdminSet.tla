------------------------------ MODULE AdminSet ------------------------------
(***************************************************************************)
(* What a last-admin check promises, whatever the requests behind it do:   *)
(* someone is promoted, or one admin is demoted who at that moment is not  *)
(* the only one, as if check and write were one step.  Once a demotion     *)
(* went past the check, nothing is promised any more.                      *)
(***************************************************************************)
CONSTANT User

VARIABLES
    admins,
    guarded     \* no demotion has gone past the check

vars == <<admins, guarded>>

TypeOK == admins \subseteq User /\ guarded \in BOOLEAN

Init == guarded = TRUE /\ \E u \in User : admins = {u}

Promote(u) ==
    /\ guarded
    /\ admins' = admins \cup {u}
    /\ UNCHANGED guarded

Demote(u) ==
    /\ guarded
    /\ admins \ {u} # {}
    /\ admins' = admins \ {u}
    /\ UNCHANGED guarded

Bypass ==
    /\ admins' \in SUBSET User
    /\ guarded' = FALSE

Next ==
    \/ \E u \in User : Promote(u) \/ Demote(u)
    \/ Bypass

Spec == Init /\ [][Next]_vars

(* Someone is an admin.                                                    *)
AdminRemains == guarded => admins # {}
=============================================================================
