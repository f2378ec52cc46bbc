-------------------------- MODULE MCParkingDatabase --------------------------
(* Instances of ParkingDatabase for TLC: two areas that do not overlap.     *)
EXTENDS ParkingDatabase, TLC

North == {"n"}
South == {"s"}
TwoAreas == {North, South}

\* One seeded city, as sqlite_database_initialize() would insert it.
Seed == {[id |-> 1, city |-> "Haifa", area |-> North, price |-> 4]}

\* Vehicle numbers are only compared with each other.
Symmetry == Permutations(Vehicles)
=============================================================================
