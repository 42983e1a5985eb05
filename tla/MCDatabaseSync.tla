--------------------------- MODULE MCDatabaseSync ---------------------------
(* Two instances of different size.                                        *)
EXTENDS DatabaseSync
CONSTANTS small, large, ground, upper

TwoInstances == {small, large}
\* Buildings of the same height, and one that is higher than the other: ground
\* stands for the floors they share, upper for the others.
BothFloors == [i \in TwoInstances |-> {ground, upper}]
GroundOrBoth == [i \in TwoInstances |-> IF i = small THEN {ground} ELSE {ground, upper}]
SmallDispatcher == {<<small, "dispatcher">>}
SmallThreads == {small} \X Scanners
OneAndTwoCars == [i \in TwoInstances |-> IF i = small THEN 1 ELSE 2]
=============================================================================
