------------------------------ MODULE Holdings -------------------------------
(* What an organization holds: its assets, its cloud accounts and its        *)
(* findings, which the code keeps in tables of their own.                    *)
EXTENDS Inventory, CloudAccounts, FindingLifecycle

\* Every row of the assets, of the cloud accounts and of the findings, and
\* every step under way on them, has the shape the code gives it.
TypeOK == InventoryTypeOK /\ CloudTypeOK /\ FindingTypeOK
==============================================================================
