---------------------------- MODULE MCInventoryDesk ----------------------------
(* InventoryDesk on one mailbox, one account, two customers and two of the  *)
(* staff, one of them an administrator.                                     *)
EXTENDS InventoryDesk
=============================================================================
