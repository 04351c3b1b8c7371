----------------------------- MODULE MCBilling -----------------------------
(* Instances of Billing for TLC; with it go the assumptions of MCSummaries.*)
EXTENDS Billing, MCSummaries, TLC

MCSymmetry == Permutations(Request) \cup Permutations(Plan) \cup Permutations(Sub)
                  \cup Permutations(Owner)

(* Behaviours are followed up to the first race the properties exclude.    *)
NoRace == ~overlapped /\ ~missed
=============================================================================
