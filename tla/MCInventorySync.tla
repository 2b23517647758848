-------------------------- MODULE MCInventorySync --------------------------
EXTENDS InventorySyncProps
CONSTANTS k1, k2, r1, r2
=============================================================================
