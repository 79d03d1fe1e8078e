------------------------ MODULE MCInventoryRecords ------------------------
(* InventoryRecords on small instances: two certificates with their keys.  *)
EXTENDS InventoryRecords
MCPairs == [c \in Certs |-> c]
=============================================================================
