---------------------------- MODULE MCTopoGang ----------------------------
\* TLC instances of TopoGang.  Pods are numbered; each constant below gives the
\* labels, GPU requests and nodes of one scenario.
EXTENDS TopoGang

Gang(g, m) == [hasGroup |-> TRUE, group |-> g, hasMin |-> TRUE, min |-> m]
Plain == [hasGroup |-> FALSE, group |-> "", hasMin |-> FALSE, min |-> 0]
Malformed == [hasGroup |-> TRUE, group |-> "a", hasMin |-> TRUE, min |-> 0]

\* Two members and minMember 2.
PairLabels == <<Gang("a", 2), Gang("a", 2)>>
\* A gang of two with a third, spare member.
SpareLabels == <<Gang("a", 2), Gang("a", 2), Gang("a", 2)>>
\* Three members and minMember 3.
TripleLabels == <<Gang("a", 3), Gang("a", 3), Gang("a", 3)>>
\* Two gangs of two.
TwoGangLabels == <<Gang("a", 2), Gang("a", 2), Gang("b", 2), Gang("b", 2)>>
\* A gang of two beside a member that disagrees on minMember, a pod without gang
\* labels and a malformed one.
MixedLabels == <<Gang("a", 2), Gang("a", 2), Gang("a", 1), Plain, Malformed>>

OneGPUEach == [p \in Pods |-> 1]
MixedRequests == <<1, 1, 1, 2, 1>>

OneGroup == {"a"}
TwoGroups == {"a", "b"}
TwoNodes == {"n1", "n2"}
OneOnEach == [n \in Nodes |-> 1]
TwoAndOne == [n \in Nodes |-> IF n = "n1" THEN 2 ELSE 1]
FirstLabelled == [n \in Nodes |-> IF n = "n1" THEN "d1" ELSE NoDomain]
MinOneTwo == {1, 2}
MinThree == {1, 2, 3}
=============================================================================
