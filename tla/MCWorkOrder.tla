------------------------------ MODULE MCWorkOrder ------------------------------
(***************************************************************************)
(* WorkOrder for TLC: bounds that leave out histories which only repeat or *)
(* rename others.                                                          *)
(***************************************************************************)
EXTENDS WorkOrder, TLC

CONSTANT MaxDetours   \* bound on the packets explored that a history could do without

\* Progress, questions, and packets that bring the id of an earlier message.
Detours ==
    ReusedIds \cup {r \in responses : r.type \in {"execution.progress", "question.blocked"}}

FewDetours == Cardinality(Detours) <= MaxDetours

\* An earlier id that no packet has answered is as good as a fresh one.
ReusedIdsMatter == {r.id : r \in ReusedIds} \subseteq {r.parent : r \in responses}

\* Which message a packet answers does not depend on the clock, so histories with such
\* a packet are explored without expiry.
ReusedIdsWithoutExpiry ==
    ReusedIds # {} => now = 0 /\ \A d \in decisions : d.expires = None

\* Keys are numbers here.  They are only compared for equality, and only within one
\* caller and type, so each caller may as well use them in order for every type.
UsedInOrder(stored) ==
    \A m \in stored : \A k \in 1..(m.key - 1) :
        \E n \in stored : <<n.actor, n.type, n.key>> = <<m.actor, m.type, k>>

Explored ==
    /\ FewDetours /\ ReusedIdsMatter /\ ReusedIdsWithoutExpiry
    /\ UsedInOrder(responses) /\ UsedInOrder(decisions)

ValueSymmetry == Permutations(PlanShas) \cup Permutations(Runs)
===============================================================================
