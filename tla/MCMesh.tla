------------------------------- MODULE MCMesh -------------------------------
EXTENDS Mesh
CONSTANTS A, B, C, a1, a2, a3

PairAddr == [n \in {A, B} |-> IF n = A THEN {a1, a2} ELSE {a2, a3}]
PairInit == [n \in {A, B} |-> IF n = A THEN {a3} ELSE {}]
TrioAddr == [n \in {A, B, C} |-> CASE n = A -> {a1} [] n = B -> {a2} [] n = C -> {a3}]
TrioInit == [n \in {A, B, C} |-> IF n = A THEN {} ELSE {a1}]
AllPairs == {<<A, B>>, <<B, A>>}
=============================================================================
