------------------------------ MODULE MCStorage ------------------------------
(***************************************************************************)
(* Small houses for TLC.  Ids are numbered by kind, rows of a house that   *)
(* are not Born can be created by the operations.                          *)
(***************************************************************************)
EXTENDS Storage, TLC

\* One shelf with a layer and a cell, a second layer with its cell to come, a second
\* shelf with a layer and a cell and a second room to come; one copy.
HouseRoomOf  == 21 :> 11 @@ 22 :> 11
HouseShelfOf == 31 :> 21 @@ 32 :> 21 @@ 33 :> 22
HouseLayerOf == 41 :> 31 @@ 42 :> 32 @@ 43 :> 33
HouseBorn    == {11, 21, 31, 41, 51}

\* A room with two shelves and a copy; a copy to come.
RequestsRoomOf  == 21 :> 11 @@ 22 :> 11
RequestsShelfOf == [l \in {} |-> 21]
RequestsLayerOf == [c \in {} |-> 31]
RequestsBorn    == {11, 21, 22, 51}
==============================================================================
