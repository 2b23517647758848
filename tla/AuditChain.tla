----------------------------- MODULE AuditChain -----------------------------
(***************************************************************************)
(* The audit log of one MSP: every entry carries the hash of its           *)
(* predecessor and a hash over its own fields.  Entries are appended in    *)
(* a transaction under an advisory lock; verifyAuditChain reads the table  *)
(* page by page, in order of time, and computes every hash again.  The     *)
(* chains of two MSPs share nothing but, at worst, the lock.               *)
(***************************************************************************)
EXTENDS Integers, Sequences, FiniteSets

CONSTANTS
    Logs,       \* calls of DrizzleAuditLogger.log
    Legacy,     \* number of entries from the time before the chain
    Page,       \* PAGE, rows per query of the verification
    MaxTime,    \* bound: the clock stops here
    MaxDamage,  \* bound: rows changed or removed behind the application's back
    None        \* no log call, no hash, no time

\* A hash stands for all it was computed from; no two inputs collide
Hash == Seq([body : Logs, at : Nat])
Genesis == <<>>
EntryHash(prev, body, at) == Append(prev, [body |-> body, at |-> at])

ASSUME ChainAssumption ==
    /\ {Page, MaxTime} \subseteq Nat \ {0}
    /\ {Legacy, MaxDamage} \subseteq Nat
    /\ IsFiniteSet(Logs) /\ None \notin Logs \cup Hash

VARIABLES
    now,        \* the clock, in milliseconds
    entries,    \* the rows of audit_entries, by id
    logs,       \* the log calls: where they are and what they have read
    lock,       \* the log call that holds the advisory lock, or None
    check,      \* the verification under way, and what it has seen
    damage      \* history: rows changed or removed

vars == <<now, entries, logs, lock, check, damage>>

\* Row ids are random: any id that is free.  "nth" is a history variable, the
\* order in which the rows were committed.
Ids == 1..(Cardinality(Logs) + Legacy)
FreeIds == Ids \ DOMAIN entries
Count == Cardinality(DOMAIN entries)

Before(i, j) == entries[i].at < entries[j].at \/ (entries[i].at = entries[j].at /\ i < j)
\* ORDER BY timestamp, id
Position(i) == 1 + Cardinality({j \in DOMAIN entries : Before(j, i)})
RowAt(n) == entries[CHOOSE i \in DOMAIN entries : Position(i) = n]
HashAt(n) == IF n = 0 \/ RowAt(n).hash = None THEN Genesis ELSE RowAt(n).hash
\* ORDER BY timestamp DESC, id DESC LIMIT 1
HeadHash == HashAt(Count)

NoCheck == [pc |-> "idle", offset |-> 0, prev |-> Genesis, started |-> FALSE, seen |-> 0,
            had |-> 0, intact |-> TRUE]

Init ==
    /\ now = 1
    /\ entries = [i \in 1..Legacy |-> [at |-> 0, body |-> None, prev |-> None, hash |-> None, nth |-> i]]
    /\ logs = [l \in Logs |-> [pc |-> "idle", at |-> None, prev |-> None]]
    /\ lock = None
    /\ check = NoCheck
    /\ damage = 0

-----------------------------------------------------------------------------
(* DrizzleAuditLogger.log *)

LogAt(l, pc) == logs[l].pc = pc
LogGo(l, pc) == logs' = [logs EXCEPT ![l].pc = pc]

\* new Date(), before the transaction
Stamp(l) ==
    /\ LogAt(l, "idle")
    /\ logs' = [logs EXCEPT ![l].pc = "stamped", ![l].at = now]
    /\ UNCHANGED <<now, entries, lock, check, damage>>

\* Mutant: the transaction does not wait for the lock
LockFree(l) ==
    /\ LogAt(l, "stamped")
    /\ lock' = l
    /\ LogGo(l, "locked")
    /\ UNCHANGED <<now, entries, check, damage>>

Lock(l) ==
    /\ LogAt(l, "stamped")
    /\ lock = None
    /\ lock' = l
    /\ LogGo(l, "locked")
    /\ UNCHANGED <<now, entries, check, damage>>

ReadHead(l) ==
    /\ LogAt(l, "locked")
    /\ logs' = [logs EXCEPT ![l].pc = "read", ![l].prev = HeadHash]
    /\ UNCHANGED <<now, entries, lock, check, damage>>

NewRow(l) ==
    [at |-> logs[l].at, body |-> l, prev |-> logs[l].prev,
     hash |-> EntryHash(logs[l].prev, l, logs[l].at), nth |-> 1 + Count]

\* Insert and commit; the lock ends with the transaction
Insert(l) ==
    /\ LogAt(l, "read")
    /\ \E id \in FreeIds :
          entries' = [i \in DOMAIN entries \cup {id} |-> IF i = id THEN NewRow(l) ELSE entries[i]]
    /\ lock' = None
    /\ LogGo(l, "done")
    /\ UNCHANGED <<now, check, damage>>

\* A statement throws: rollback, the lock is released, the caller gets the error
LogFails(l) ==
    /\ logs[l].pc \in {"stamped", "locked", "read"}
    /\ lock' = IF lock = l THEN None ELSE lock
    /\ LogGo(l, "failed")
    /\ UNCHANGED <<now, entries, check, damage>>

-----------------------------------------------------------------------------
(* A row changed past the application, which the chain is to make visible *)

Change ==
    /\ damage < MaxDamage
    /\ \E i \in DOMAIN entries : entries[i].hash # None /\ entries' = [entries EXCEPT ![i].body = None]
    /\ damage' = damage + 1
    /\ UNCHANGED <<now, logs, lock, check>>

\* The rows are as their writers left them, committed in the order of the table
Intact ==
    /\ \A i \in DOMAIN entries : entries[i].hash # None => entries[i].body # None
    /\ \A i, j \in DOMAIN entries : entries[i].nth < entries[j].nth => Before(i, j)

-----------------------------------------------------------------------------
(* verifyAuditChain *)

Checking(c) == check' = c /\ UNCHANGED <<now, entries, logs, lock, damage>>

CheckStart ==
    /\ check.pc # "running"
    /\ Checking([NoCheck EXCEPT !.pc = "running", !.had = Count, !.intact = Intact])

\* LIMIT Page OFFSET check.offset
PageLength == IF Count - check.offset < Page THEN Count - check.offset ELSE Page
PageRows == [k \in 1..PageLength |-> RowAt(check.offset + k)]

Started(rows, i) == check.started \/ \E k \in 1..(i - 1) : rows[k].hash # None
Expected(rows, i) == IF i = 1 \/ rows[i - 1].hash = None THEN check.prev ELSE rows[i - 1].hash

\* Mutant: the row's own hash is not computed again
BrokenLinksOnly(rows, i) ==
    IF rows[i].hash = None THEN Started(rows, i) ELSE rows[i].prev # Expected(rows, i)

Broken(rows, i) ==
    IF rows[i].hash = None
    THEN Started(rows, i)
    ELSE \/ rows[i].prev # Expected(rows, i)
         \/ rows[i].hash # EntryHash(Expected(rows, i), rows[i].body, rows[i].at)

LastPage(rows) == Len(rows) < Page

\* One query and the loop over its rows
CheckPage ==
    LET rows == PageRows
        n == Len(rows)
    IN  /\ check.pc = "running"
        /\ Checking(
             IF \E i \in 1..n : Broken(rows, i)
             THEN [check EXCEPT !.pc = "broken"]
             ELSE [check EXCEPT !.pc = IF LastPage(rows) THEN "ok" ELSE "running",
                                !.offset = @ + Page,
                                !.prev = Expected(rows, n + 1),
                                !.started = Started(rows, n + 1),
                                !.seen = @ + n])

Tick ==
    /\ now < MaxTime
    /\ now' = now + 1
    /\ UNCHANGED <<entries, logs, lock, check, damage>>

Next ==
    \/ \E l \in Logs : Stamp(l) \/ Lock(l) \/ ReadHead(l) \/ Insert(l) \/ LogFails(l)
    \/ Change
    \/ CheckStart \/ CheckPage
    \/ Tick

Spec == Init /\ [][Next]_vars
=============================================================================
