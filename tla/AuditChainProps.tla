--------------------------- MODULE AuditChainProps ---------------------------
(***************************************************************************)
(* What the hash chain of the audit log guarantees.                        *)
(***************************************************************************)
EXTENDS AuditChain

\* verifyAuditChain: log calls that overlap with a verification, between any two
\* of its pages, do not make it report a broken chain; only a changed row or
\* rows committed out of the order of their times do.
NoFalseAlarm == check.pc = "broken" => ~Intact

\* verifyAuditChain: an ok means that no row had been changed and no two rows
\* stood in the wrong order when the verification began, and it covers all the
\* rows there were then, whatever was inserted between two of its pages.
NoFalseOk == check.pc = "ok" => check.intact /\ check.seen >= check.had

=============================================================================
