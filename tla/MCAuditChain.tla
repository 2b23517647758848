---------------------------- MODULE MCAuditChain ----------------------------
EXTENDS AuditChainProps, TLC
CONSTANTS l1, l2, l3, l4
Symmetry == Permutations(Logs)
=============================================================================
