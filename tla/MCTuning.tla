------------------------------ MODULE MCTuning ------------------------------
EXTENDS Tuning

CONSTANT None

SomeSizes == [t \in Tasks |-> IF t = 1 THEN 1 ELSE 3]
SomeSingles == {None, 0, 2}
SomeStoppings == {None, 0, 1}
=============================================================================
