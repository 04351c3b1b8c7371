----------------------------- MODULE MCDocuments -----------------------------
(* Instances of Documents for TLC.                                         *)
EXTENDS Documents, FiniteSets, TLC

CONSTANT b1

(* Every upload of a run belongs to its one base.                          *)
MCBaseOf == [u \in Upload |-> b1]

MCSymmetry == Permutations(Upload) \cup Permutations(Worker) \cup Permutations(Collector)

(* Behaviours of one upload are followed with all there is; of two, while  *)
(* at most one worker and one collector are busy, one fault has happened,  *)
(* one PUT is under way and sizes are right.                               *)
Opened == {u \in Upload : session[u] # "none" \/ \E w \in Worker : target[w] = u}
Explored ==
    Cardinality(Opened) > 1 =>
        /\ \A v, w \in Worker : pc[v] # "idle" /\ pc[w] # "idle" => v = w
        /\ \A f, g \in Collector : phase[f] # "idle" /\ phase[g] # "idle" => f = g
        /\ faults <= 1
        /\ Cardinality(inflight) <= 1 /\ \A u \in Upload : object[u] # "other"
=============================================================================
