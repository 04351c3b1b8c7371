---------------------------- MODULE MCAccounts ----------------------------
(* Instances of Accounts for TLC.                                          *)
EXTENDS Accounts, TLC

CONSTANT u1

MCOwnerOf == [k \in Token |-> u1]
MCSymmetry == Permutations(Request) \cup Permutations(Token)

(* Behaviours are followed up to the first race the properties exclude.    *)
NoRace == ~bypassed /\ contested = {} /\ doubled = {}
=============================================================================
