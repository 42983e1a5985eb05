------------------------ MODULE MCElevatorController ------------------------
(* ElevatorController for the model checker: what its clients ask for, and *)
(* that no client differs from another.                                    *)
EXTENDS ElevatorController, TLC

\* Every pair of floors from one below the valid ones to one above them.
EveryPair == (0..(NumFloors + 1)) \X (-1..(NumFloors + 1))

\* Up to the top floor, for which a car that has been there travels both legs,
\* and from a floor that is no floor.
UpOnly == {<<1, NumFloors>>, <<0, NumFloors>>}

InterchangeableClients == Permutations(Clients)
=============================================================================
