---------------------------- MODULE MCTowerCache ----------------------------
(* Instances of TowerCache for TLC. *)
EXTENDS TowerCache, TLC
CONSTANTS t1, t2
All == [status |-> Every, name |-> Every]
Online == [status |-> "online", name |-> Every]
Named == [status |-> Every, name |-> t1]
AllAndOnline == {All, Online}
AllAndNamed == {All, Named}
=============================================================================
