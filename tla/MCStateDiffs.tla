------------------------------ MODULE MCStateDiffs ------------------------------
(***************************************************************************)
(* Instance of StateDiffs: two accounts, whose names and indexes are in    *)
(* opposite orders, so that a lookup could be answered with a neighbour's  *)
(* row, and caches that hold one address.  Attempts end early in the       *)
(* behaviours whose blocks refer to no name, which only fills the caches.  *)
(***************************************************************************)
EXTENDS StateDiffs

CONSTANTS addr0, addr1, none

mc_Accounts == {[index |-> 0, name |-> 11, address |-> addr0],
                [index |-> 1, name |-> 10, address |-> addr1]}
mc_Address == {addr0, addr1}
mc_Behaviours == {[restarts |-> FALSE, maxNames |-> 1], [restarts |-> TRUE, maxNames |-> 0]}
=============================================================================
