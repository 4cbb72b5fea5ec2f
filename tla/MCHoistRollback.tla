-------------------------- MODULE MCHoistRollback ---------------------------
(* One or two contracts, all of them owned by "lib" and consumed by "app", *)
(* and a repo "site" that depends on the consumer.                         *)
EXTENDS HoistRollback

TwoContracts == {1, 2}
OneContract  == {1}
Both         == [c \in Contracts |-> "lib"]
Sharing      == [c \in Contracts |-> {"app"}]
Below        == [r \in Repos |-> IF r = "app" THEN {"site"} \cap Repos ELSE {}]
=============================================================================
