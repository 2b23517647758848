--------------------------- MODULE SnapshotCache ---------------------------
(***************************************************************************)
(* What the inventory sync promises its readers: a snapshot is the state   *)
(* that Microsoft had at some moment, later snapshots are never older, and *)
(* a snapshot disappears only because its tenant was removed.              *)
(***************************************************************************)
EXTENDS Integers

CONSTANTS Kinds, None

VARIABLES
    source,     \* the version of the tenant's data at Microsoft
    snap,       \* for each kind the version of the snapshot, or None
    active      \* the tenant is managed

Init == source = 0 /\ snap = [k \in Kinds |-> None] /\ active = TRUE

Change == source' = source + 1 /\ UNCHANGED <<snap, active>>

Publish(k) ==
    /\ \E v \in 0..source :
          /\ snap[k] # None => v >= snap[k]
          /\ snap' = [snap EXCEPT ![k] = v]
    /\ UNCHANGED <<source, active>>

Remove == active' = FALSE /\ UNCHANGED <<source, snap>>

Clear ==
    /\ ~active
    /\ snap' = [k \in Kinds |-> None]
    /\ UNCHANGED <<source, active>>

Next == Change \/ Remove \/ Clear \/ \E k \in Kinds : Publish(k)

Spec == Init /\ [][Next]_<<source, snap, active>>
=============================================================================
