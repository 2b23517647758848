-------------------------- MODULE AuditChainProofs --------------------------
(***************************************************************************)
(* Theorems about the audit log of AuditChain, for any number of log       *)
(* calls, entries and pages: the verification is right in both directions. *)
(*                                                                         *)
(* Positions in the table change when a row is inserted before others, so  *)
(* the argument never counts on them.  The hashes carry the history: a     *)
(* hash lists everything it was computed from, and the entry whose hash is *)
(* a prefix of another's was committed before it.                          *)
(***************************************************************************)
EXTENDS AuditChainProps, FiniteSetTheorems, WellFoundedInduction, TLAPS

(* The order of the table, for any table e *)

Bef(e, i, j) == e[i].at < e[j].at \/ (e[i].at = e[j].at /\ i < j)
Lower(e, i) == {j \in DOMAIN e : Bef(e, j, i)}
Pos(e, i) == 1 + Cardinality(Lower(e, i))
Nr(e, n) == CHOOSE i \in DOMAIN e : Pos(e, i) = n
Size(e) == Cardinality(DOMAIN e)

Hashed(e, i) == i \in DOMAIN e /\ e[i].hash # None
Tip(e, n) == IF n = 0 \/ e[Nr(e, n)].hash = None THEN Genesis ELSE e[Nr(e, n)].hash

Right(e) ==
    /\ \A i \in DOMAIN e : e[i].hash # None => e[i].body # None
    /\ \A i, j \in DOMAIN e : e[i].nth < e[j].nth => Bef(e, i, j)

\* One hash was computed from what the other was, and possibly more
Prefix(s, t) == Len(s) <= Len(t) /\ \A k \in 1..Len(s) : t[k] = s[k]

-----------------------------------------------------------------------------
(* The inductive invariant *)

RowSet == [at : Nat, body : Logs \cup {None}, prev : Hash \cup {None},
           hash : Hash \cup {None}, nth : Nat]

Table(e) == IsFiniteSet(DOMAIN e) /\ DOMAIN e \subseteq Nat /\ e \in [DOMAIN e -> RowSet]

LogType == [pc : {"idle", "stamped", "locked", "read", "done", "failed"},
            at : Nat \cup {None}, prev : Hash \cup {None}]

CheckType == [pc : {"idle", "running", "ok", "broken"}, offset : Nat, prev : Hash,
              started : BOOLEAN, seen : Nat, had : Nat, intact : BOOLEAN]

Types ==
    /\ now \in Nat \ {0}
    /\ Table(entries)
    /\ logs \in [Logs -> LogType]
    /\ lock \in Logs \cup {None}
    /\ check \in CheckType
    /\ damage \in Nat

\* A log call inside its transaction holds the lock, and has read the head
Locked == \A l \in Logs : logs[l].pc \in {"locked", "read"} => lock = l
Stamped == \A l \in Logs :
    /\ logs[l].pc \in {"stamped", "locked", "read"} => logs[l].at \in Nat \ {0}
    /\ logs[l].pc = "read" => logs[l].prev = Tip(entries, Size(entries))

\* What a writer left in a row, but for the body
Signed(r) ==
    /\ r.at # 0 /\ r.prev \in Hash
    /\ \E l \in Logs : r.hash = EntryHash(r.prev, l, r.at) /\ r.body \in {l, None}

Rows(e) == \A i \in DOMAIN e :
    /\ e[i].nth \in 1..Size(e)
    /\ IF e[i].hash = None THEN e[i].at = 0 ELSE Signed(e[i])

\* The entries from before the chain are in order
Old(e) == \A i, j \in DOMAIN e :
    e[i].nth < e[j].nth /\ (e[i].hash = None \/ e[j].hash = None) => Bef(e, i, j)

\* A hash was computed from entries that are committed
Written == \A i \in DOMAIN entries : entries[i].hash # None =>
    \A k \in 1..Len(entries[i].hash) : logs[entries[i].hash[k].body].pc = "done"

Ancestors(e) == \A i, f \in DOMAIN e :
    e[i].hash # None /\ e[f].hash # None /\ Prefix(e[f].hash, e[i].prev) => e[f].nth < e[i].nth

\* In an intact table each entry points at the one before it
Linked(e) == Right(e) =>
    \A i \in DOMAIN e : e[i].hash # None => e[i].prev = Tip(e, Pos(e, i) - 1)

\* A verification of an intact table knows where it is
Walk(e, c) == c.pc = "running" =>
    /\ c.offset <= Size(e) /\ c.seen = c.offset /\ c.had <= Size(e)
    /\ Right(e) => /\ c.prev = Tip(e, c.offset)
                   /\ c.started <=> c.offset > 0 /\ e[Nr(e, c.offset)].hash # None

\* What was wrong when it began is still ahead of it: a changed row, or the
\* later of two rows in the wrong order, of which the other is ahead as well
\* or among those the current hash is computed from
Changed(e, c, i) == Hashed(e, i) /\ e[i].body = None /\ Pos(e, i) > c.offset
Swapped(e, c, i, f) ==
    /\ Hashed(e, i) /\ Hashed(e, f)
    /\ e[i].nth < e[f].nth /\ Bef(e, f, i) /\ Pos(e, i) > c.offset
    /\ Pos(e, f) > c.offset \/ (c.started /\ Prefix(e[f].hash, c.prev))
Evidence(e, c) == c.pc = "running" /\ ~c.intact =>
    \/ \E i \in DOMAIN e : Changed(e, c, i)
    \/ \E i, f \in DOMAIN e : Swapped(e, c, i, f)

\* The two answers a verification gives
Answers(e, c) ==
    /\ c.pc = "broken" => ~Right(e)
    /\ c.pc = "ok" => c.intact /\ c.seen >= c.had

Chain(e) == Table(e) /\ Rows(e) /\ Old(e) /\ Ancestors(e) /\ Linked(e)
Verified(e, c) == Walk(e, c) /\ Evidence(e, c) /\ Answers(e, c)

Inv == Types /\ Locked /\ Stamped /\ Chain(entries) /\ Written /\ Verified(entries, check)

-----------------------------------------------------------------------------
(* The order of the table *)

\* Two rows always stand in one order or the other, and the order is transitive.
LEMMA OrderOf ==
  ASSUME NEW e, Table(e), NEW i \in DOMAIN e, NEW j \in DOMAIN e
  PROVE  /\ i \in Nat /\ e[i] \in RowSet /\ e[i].at \in Nat /\ e[i].nth \in Nat
         /\ Bef(e, i, j) \/ Bef(e, j, i) \/ i = j
         /\ ~(Bef(e, i, j) /\ Bef(e, j, i))
         /\ ~Bef(e, i, i)
         /\ \A k \in DOMAIN e : Bef(e, i, j) /\ Bef(e, j, k) => Bef(e, i, k)
<1>1. \A k \in DOMAIN e : k \in Nat /\ e[k] \in RowSet  BY DEF Table
<1>2. \A k \in DOMAIN e : e[k].at \in Nat /\ e[k].nth \in Nat  BY <1>1 DEF RowSet
<1> QED BY <1>1, <1>2 DEF Bef

\* The rows below a row are fewer than the rows.
LEMMA LowerFacts ==
  ASSUME NEW e, Table(e), NEW i \in DOMAIN e
  PROVE  /\ Size(e) \in Nat
         /\ IsFiniteSet(Lower(e, i)) /\ Cardinality(Lower(e, i)) \in Nat
         /\ Pos(e, i) \in 1..Size(e)
<1>1. IsFiniteSet(DOMAIN e)  BY DEF Table
<1>2. Lower(e, i) \in SUBSET DOMAIN e  BY DEF Lower
<1>3. i \notin Lower(e, i)  BY OrderOf DEF Lower
<1>4. /\ IsFiniteSet(Lower(e, i)) /\ Cardinality(Lower(e, i)) <= Cardinality(DOMAIN e)
      /\ Cardinality(DOMAIN e) = Cardinality(Lower(e, i)) => DOMAIN e = Lower(e, i)
  BY <1>1, <1>2, FS_Subset
<1>5. Cardinality(DOMAIN e) \in Nat /\ Cardinality(Lower(e, i)) \in Nat
  BY <1>1, <1>4, FS_CardinalityType
<1> QED BY <1>3, <1>4, <1>5 DEF Pos, Size

\* A row before another one has the smaller position.
LEMMA PosLess ==
  ASSUME NEW e, Table(e), NEW i \in DOMAIN e, NEW j \in DOMAIN e, Bef(e, i, j)
  PROVE  Pos(e, i) < Pos(e, j)
<1>1. Lower(e, i) \in SUBSET Lower(e, j)  BY OrderOf DEF Lower
<1>2. i \in Lower(e, j) /\ i \notin Lower(e, i)  BY OrderOf DEF Lower
<1>3. /\ IsFiniteSet(Lower(e, j))
      /\ Cardinality(Lower(e, j)) \in Nat /\ Cardinality(Lower(e, i)) \in Nat
  BY LowerFacts
<1>4. /\ Cardinality(Lower(e, i)) <= Cardinality(Lower(e, j))
      /\ Cardinality(Lower(e, j)) = Cardinality(Lower(e, i)) => Lower(e, j) = Lower(e, i)
  BY <1>1, <1>3, FS_Subset
<1> QED BY <1>2, <1>3, <1>4 DEF Pos

\* And only a row before it has.
LEMMA PosOrder ==
  ASSUME NEW e, Table(e), NEW i \in DOMAIN e, NEW j \in DOMAIN e
  PROVE  /\ Bef(e, i, j) <=> Pos(e, i) < Pos(e, j)
         /\ Pos(e, i) = Pos(e, j) => i = j
<1>1. Pos(e, i) \in Nat /\ Pos(e, j) \in Nat /\ Size(e) \in Nat  BY LowerFacts
<1>2. Bef(e, i, j) => Pos(e, i) < Pos(e, j)  BY PosLess
<1>3. Bef(e, j, i) => Pos(e, j) < Pos(e, i)  BY PosLess
<1>4. Bef(e, i, j) \/ Bef(e, j, i) \/ i = j  BY OrderOf
<1> QED BY <1>1, <1>2, <1>3, <1>4

\* Every position up to the number of rows is that of a row.
LEMMA RowThere ==
  ASSUME NEW e, Table(e), NEW n \in 1..Size(e)
  PROVE  Nr(e, n) \in DOMAIN e /\ Pos(e, Nr(e, n)) = n
<1> DEFINE D == DOMAIN e
           T == 1..Size(e)
           p == [i \in D |-> Pos(e, i)]
<1>1. p \in [D -> T]  BY LowerFacts
<1>2. \A i, j \in D : p[i] = p[j] => i = j  BY PosOrder
<1>3. p \in Injection(D, T)  BY <1>1, <1>2 DEF Injection, IsInjective
<1>4. IsFiniteSet(D)  BY DEF Table
<1>5. Size(e) \in Nat /\ Size(e) = Cardinality(D)  BY <1>4, FS_CardinalityType DEF Size
<1>6. IsFiniteSet(T) /\ Cardinality(T) = Size(e)
  <2>1. 1 \in Int /\ Size(e) \in Int  BY <1>5
  <2>2. /\ IsFiniteSet(1..Size(e))
        /\ Cardinality(1..Size(e)) = IF 1 > Size(e) THEN 0 ELSE Size(e) - 1 + 1
    BY <2>1, FS_Interval
  <2> QED BY <2>2, <1>5
<1>7. p \in Surjection(D, T)  BY <1>3, <1>5, <1>6, FS_Injection
<1>8. PICK i \in D : p[i] = n  BY <1>7 DEF Surjection
<1>9. Pos(e, i) = n  BY <1>8
<1> QED BY <1>9 DEF Nr

\* The row at the position of a row is that row.
LEMMA RowBack ==
  ASSUME NEW e, Table(e), NEW i \in DOMAIN e
  PROVE  Nr(e, Pos(e, i)) = i
<1>1. Pos(e, i) \in 1..Size(e)  BY LowerFacts
<1>2. Nr(e, Pos(e, i)) \in DOMAIN e /\ Pos(e, Nr(e, Pos(e, i))) = Pos(e, i)  BY <1>1, RowThere
<1> QED BY <1>2, PosOrder

\* Positions depend on the times and ids alone.
LEMMA SamePositions ==
  ASSUME NEW e, Table(e), NEW f, Table(f), DOMAIN f = DOMAIN e,
         \A i \in DOMAIN e : f[i].at = e[i].at
  PROVE  /\ Size(f) = Size(e)
         /\ \A i, j \in DOMAIN e : Bef(f, i, j) <=> Bef(e, i, j)
         /\ \A i \in DOMAIN e : Pos(f, i) = Pos(e, i)
         /\ \A n \in 1..Size(e) : Nr(f, n) = Nr(e, n)
<1>1. \A i, j \in DOMAIN e : Bef(f, i, j) <=> Bef(e, i, j)  BY DEF Bef
<1>2. \A i \in DOMAIN e : Pos(f, i) = Pos(e, i)
  <2>1. TAKE i \in DOMAIN e
  <2>2. Lower(f, i) = Lower(e, i)  BY <1>1 DEF Lower
  <2> QED BY <2>2 DEF Pos
<1>3. \A n \in 1..Size(e) : Nr(f, n) = Nr(e, n)
  <2>1. TAKE n \in 1..Size(e)
  <2>2. Nr(e, n) \in DOMAIN e /\ Pos(e, Nr(e, n)) = n  BY RowThere
  <2>3. Nr(f, Pos(f, Nr(e, n))) = Nr(e, n)  BY <2>2, RowBack
  <2> QED BY <2>2, <2>3, <1>2
<1> QED BY <1>1, <1>2, <1>3 DEF Size

Grown(e, f, x) ==
    /\ Table(e) /\ Table(f) /\ x \notin DOMAIN e /\ DOMAIN f = DOMAIN e \cup {x}
    /\ \A i \in DOMAIN e : f[i] = e[i]

\* An inserted row moves no row forward.
LEMMA InsertedBefore ==
  ASSUME NEW e, NEW f, NEW x, Grown(e, f, x)
  PROVE  /\ Size(e) \in Nat /\ Size(f) = Size(e) + 1
         /\ \A i, j \in DOMAIN e : Bef(f, i, j) <=> Bef(e, i, j)
         /\ \A i \in DOMAIN e : Pos(f, i) >= Pos(e, i)
<1>1. Table(e) /\ Table(f) /\ x \notin DOMAIN e /\ DOMAIN f = DOMAIN e \cup {x}
  BY DEF Grown
<1>2. \A i, j \in DOMAIN e : Bef(f, i, j) <=> Bef(e, i, j)  BY DEF Bef, Grown
<1>3. Size(e) \in Nat /\ Size(f) = Size(e) + 1
  <2>1. IsFiniteSet(DOMAIN e)  BY <1>1 DEF Table
  <2> QED BY <1>1, <2>1, FS_AddElement, FS_CardinalityType DEF Size
<1>4. \A i \in DOMAIN e : Pos(f, i) >= Pos(e, i)
  <2>1. TAKE i \in DOMAIN e
  <2>2. i \in DOMAIN f  BY <1>1
  <2>3. Lower(e, i) \in SUBSET Lower(f, i)  BY <1>1, <1>2 DEF Lower
  <2>4. IsFiniteSet(Lower(f, i)) /\ Cardinality(Lower(f, i)) \in Nat  BY <1>1, <2>2, LowerFacts
  <2>5. Cardinality(Lower(e, i)) \in Nat  BY <1>1, LowerFacts
  <2>6. Cardinality(Lower(e, i)) <= Cardinality(Lower(f, i))  BY <2>3, <2>4, FS_Subset
  <2> QED BY <2>4, <2>5, <2>6 DEF Pos
<1> QED BY <1>2, <1>3, <1>4

\* A row inserted after all others leaves them where they are.
LEMMA InsertedLast ==
  ASSUME NEW e, NEW f, NEW x, Grown(e, f, x), \A i \in DOMAIN e : Bef(f, i, x)
  PROVE  /\ Pos(f, x) = Size(e) + 1 /\ Nr(f, Size(e) + 1) = x
         /\ \A i \in DOMAIN e : Pos(f, i) = Pos(e, i)
         /\ \A n \in 1..Size(e) : Nr(f, n) = Nr(e, n) /\ Nr(e, n) \in DOMAIN e
<1>1. Table(e) /\ Table(f) /\ x \notin DOMAIN e /\ DOMAIN f = DOMAIN e \cup {x}
  BY DEF Grown
<1>2. \A i, j \in DOMAIN e : Bef(f, i, j) <=> Bef(e, i, j)  BY InsertedBefore
<1>3. x \in DOMAIN f  BY <1>1
<1>4. Lower(f, x) = DOMAIN e
  <2>1. ~Bef(f, x, x)  BY <1>1, <1>3, OrderOf
  <2> QED BY <1>1, <2>1 DEF Lower
<1>5. Pos(f, x) = Size(e) + 1
  <2>1. Size(e) \in Nat  BY InsertedBefore
  <2> QED BY <1>4, <2>1 DEF Pos, Size
<1>6. \A i \in DOMAIN e : Pos(f, i) = Pos(e, i)
  <2>1. TAKE i \in DOMAIN e
  <2>2. ~Bef(f, x, i)  BY <1>1, <1>3, OrderOf
  <2>3. Lower(f, i) = Lower(e, i)  BY <1>1, <1>2, <2>2 DEF Lower
  <2> QED BY <2>3 DEF Pos
<1>7. \A n \in 1..Size(e) : Nr(f, n) = Nr(e, n) /\ Nr(e, n) \in DOMAIN e
  <2>1. TAKE n \in 1..Size(e)
  <2>2. Nr(e, n) \in DOMAIN e /\ Pos(e, Nr(e, n)) = n  BY <1>1, RowThere
  <2>3. Nr(f, Pos(f, Nr(e, n))) = Nr(e, n)  BY <1>1, <2>2, RowBack
  <2> QED BY <1>6, <2>2, <2>3
<1>8. Nr(f, Size(e) + 1) = x  BY <1>1, <1>3, <1>5, RowBack
<1> QED BY <1>5, <1>6, <1>7, <1>8

-----------------------------------------------------------------------------
(* Hashes *)

\* A hash with one more entry: what it was computed from can be read off.
LEMMA HashFacts ==
  ASSUME NEW p \in Hash, NEW l \in Logs, NEW t \in Nat
  PROVE  /\ EntryHash(p, l, t) \in Hash /\ EntryHash(p, l, t) # Genesis
         /\ Len(p) \in Nat /\ Len(EntryHash(p, l, t)) = Len(p) + 1
         /\ EntryHash(p, l, t)[Len(p) + 1].body = l
         /\ \A k \in 1..Len(p) : EntryHash(p, l, t)[k] = p[k]
         /\ Prefix(p, EntryHash(p, l, t))
         /\ \A s \in Hash : Prefix(s, p) => Prefix(s, EntryHash(p, l, t))
         /\ ~Prefix(EntryHash(p, l, t), p)
<1> DEFINE S == [body : Logs, at : Nat]
           x == [body |-> l, at |-> t]
<1>1. p \in Seq(S) /\ x \in S  BY DEF Hash
<1>2. /\ Append(p, x) \in Seq(S) /\ Len(p) \in Nat /\ Len(Append(p, x)) = Len(p) + 1
      /\ Append(p, x)[Len(p) + 1] = x
      /\ \A k \in 1..Len(p) : Append(p, x)[k] = p[k]
  BY <1>1
<1>3. EntryHash(p, l, t) = Append(p, x)  BY DEF EntryHash
<1>4. \A s \in Hash : Len(s) \in Nat  BY DEF Hash
<1> HIDE DEF S
<1>5. x.body = l  OBVIOUS
<1> HIDE DEF x
<1>6. /\ EntryHash(p, l, t) \in Hash
      /\ Len(EntryHash(p, l, t)) = Len(p) + 1
      /\ EntryHash(p, l, t)[Len(p) + 1].body = l
      /\ \A k \in 1..Len(p) : EntryHash(p, l, t)[k] = p[k]
  BY <1>2, <1>3, <1>5 DEF Hash, S
<1>7. EntryHash(p, l, t) # Genesis  BY <1>2, <1>6 DEF Genesis
<1> HIDE DEF Hash
<1> QED BY <1>2, <1>4, <1>6, <1>7 DEF Prefix

\* Two equal hashes were computed from the same entry and predecessor.
LEMMA HashApart ==
  ASSUME NEW p \in Hash, NEW q \in Hash, NEW l \in Logs, NEW b \in Logs \cup {None},
         NEW t \in Nat, EntryHash(p, l, t) = EntryHash(q, b, t)
  PROVE  l = b
<1> DEFINE R == [body : Logs, at : Nat]
           S == [body : Logs \cup {None}, at : Nat]
           x == [body |-> l, at |-> t]
           y == [body |-> b, at |-> t]
<1>1. p \in Seq(R) /\ q \in Seq(R)  BY DEF Hash
<1>2. p \in Seq(S) /\ q \in Seq(S) /\ x \in S /\ y \in S
  <2>1. x \in S /\ y \in S  OBVIOUS
  <2>2. \A z \in R : z \in S  OBVIOUS
  <2> HIDE DEF R, S, x, y
  <2>3. p \in Seq(S) /\ q \in Seq(S)  BY <1>1, <2>2
  <2> QED BY <2>1, <2>3
<1>3. Append(p, x) = Append(q, y)  BY DEF EntryHash
<1> HIDE DEF R, S
<1>4. x.body = l /\ y.body = b  OBVIOUS
<1> HIDE DEF x, y
<1>5. /\ Len(Append(p, x)) = Len(p) + 1 /\ Len(Append(q, y)) = Len(q) + 1
      /\ Len(p) \in Nat /\ Len(q) \in Nat
      /\ Append(p, x)[Len(p) + 1] = x /\ Append(q, y)[Len(q) + 1] = y
  BY <1>2
<1>6. x = y  BY <1>3, <1>5
<1> QED BY <1>4, <1>6

-----------------------------------------------------------------------------
(* An entry is added *)

\* The added row was made by a log call that had read the head, and no entry
\* was computed from it yet.
Added(e, f, x) ==
    /\ Grown(e, f, x) /\ f[x].hash # None /\ Signed(f[x])
    /\ f[x].nth = Size(e) + 1 /\ f[x].prev = Tip(e, Size(e))
    /\ \A i \in DOMAIN e : e[i].hash # None => ~Prefix(f[x].hash, e[i].prev)

\* What one expects of a table of which every row is legacy or signed.
LEMMA RowFacts ==
  ASSUME NEW e, Table(e), Rows(e), NEW i \in DOMAIN e
  PROVE  /\ e[i] \in RowSet /\ e[i].nth \in 1..Size(e) /\ Size(e) \in Nat
         /\ e[i].at \in Nat /\ e[i].hash \in Hash \cup {None}
         /\ e[i].hash = None => e[i].at = 0
         /\ e[i].hash # None => Signed(e[i])
<1>1. e[i] \in RowSet /\ Size(e) \in Nat  BY LowerFacts DEF Table
<1> QED BY <1>1 DEF Rows, RowSet

\* A row that is signed carries a hash over its predecessor's.
LEMMA SignedFacts ==
  ASSUME NEW r \in RowSet, Signed(r)
  PROVE  /\ r.prev \in Hash /\ r.hash \in Hash /\ r.at \in Nat \ {0}
         /\ r.hash # Genesis
         /\ ~Prefix(r.hash, r.prev)
         /\ \A s \in Hash : Prefix(s, r.prev) => Prefix(s, r.hash)
<1>1. r.prev \in Hash /\ r.at \in Nat \ {0}  BY DEF Signed, RowSet
<1>2. PICK l \in Logs : r.hash = EntryHash(r.prev, l, r.at)  BY DEF Signed
<1> QED BY <1>1, <1>2, HashFacts

\* If the table is intact with the added row, it was so without it, and the
\* row is the last one.
LEMMA IntactBefore ==
  ASSUME NEW e, NEW f, NEW x, Chain(e), Added(e, f, x), Right(f)
  PROVE  /\ Right(e)
         /\ \A i \in DOMAIN e : Bef(f, i, x)
         /\ \A n \in 0..Size(e) : Tip(f, n) = Tip(e, n)
<1>1. /\ Grown(e, f, x) /\ f[x].nth = Size(e) + 1
      /\ x \in DOMAIN f /\ \A i \in DOMAIN e : i \in DOMAIN f /\ f[i] = e[i]
  BY DEF Added, Grown
<1>2. Size(e) \in Nat /\ \A i, j \in DOMAIN e : Bef(f, i, j) <=> Bef(e, i, j)
  BY <1>1, InsertedBefore
<1>3. Right(e)  BY <1>1, <1>2 DEF Right
<1>4. \A i \in DOMAIN e : Bef(f, i, x)
  <2>1. TAKE i \in DOMAIN e
  <2>2. f[i].nth \in 1..Size(e)  BY <1>1 DEF Chain, Rows
  <2>3. f[i].nth < f[x].nth  BY <1>1, <1>2, <2>2
  <2> QED BY <1>1, <2>3 DEF Right
<1>5. \A n \in 1..Size(e) : Nr(f, n) = Nr(e, n) /\ Nr(e, n) \in DOMAIN e
  BY <1>1, <1>4, InsertedLast
<1>6. \A n \in 0..Size(e) : Tip(f, n) = Tip(e, n)
  <2>1. TAKE n \in 0..Size(e)
  <2>2. n = 0 \/ n \in 1..Size(e)  BY <1>2
  <2> QED BY <1>1, <1>5, <2>2 DEF Tip
<1> QED BY <1>3, <1>4, <1>6

\* The table with the added row has all the properties of the chain.
LEMMA ChainGrows ==
  ASSUME NEW e, NEW f, NEW x, Chain(e), Added(e, f, x)
  PROVE  Chain(f)
<1>1. /\ Grown(e, f, x) /\ Table(e) /\ Table(f) /\ Rows(e)
      /\ f[x].nth = Size(e) + 1 /\ f[x].hash # None /\ Signed(f[x])
      /\ x \notin DOMAIN e /\ DOMAIN f = DOMAIN e \cup {x}
      /\ \A i \in DOMAIN e : i \in DOMAIN f /\ f[i] = e[i]
  BY DEF Added, Grown, Chain
<1>2. /\ Size(e) \in Nat /\ Size(f) = Size(e) + 1
      /\ \A i, j \in DOMAIN e : Bef(f, i, j) <=> Bef(e, i, j)
  BY <1>1, InsertedBefore
<1>3. f[x] \in RowSet /\ f[x].at \in Nat \ {0} /\ ~Prefix(f[x].hash, f[x].prev)
  <2>1. f[x] \in RowSet  BY <1>1 DEF Table
  <2> QED BY <1>1, <2>1, SignedFacts
<1>4. Rows(f)
  BY <1>1, <1>2 DEF Rows
<1>5. Old(f)
  <2> SUFFICES ASSUME NEW i \in DOMAIN f, NEW j \in DOMAIN f, f[i].nth < f[j].nth,
                      f[i].hash = None \/ f[j].hash = None
               PROVE  Bef(f, i, j)
    BY DEF Old
  <2>1. CASE i \in DOMAIN e /\ j \in DOMAIN e
    BY <1>1, <1>2, <2>1 DEF Old, Chain
  <2>2. CASE i = x
    <3>1. j # x  BY <1>1, <2>2
    <3>2. f[j].nth \in 1..Size(e)  BY <1>1, <3>1 DEF Rows
    <3> QED BY <1>1, <1>2, <2>2, <3>2
  <2>3. CASE i \in DOMAIN e /\ j = x
    <3>1. f[i].at = 0  BY <1>1, <2>3 DEF Rows
    <3> QED BY <1>3, <2>3, <3>1 DEF Bef
  <2> QED BY <1>1, <2>1, <2>2, <2>3
<1>6. Ancestors(f)
  <2> SUFFICES ASSUME NEW i \in DOMAIN f, NEW j \in DOMAIN f, f[i].hash # None,
                      f[j].hash # None, Prefix(f[j].hash, f[i].prev)
               PROVE  f[j].nth < f[i].nth
    BY DEF Ancestors
  <2>1. CASE i \in DOMAIN e /\ j \in DOMAIN e
    BY <1>1, <2>1 DEF Ancestors, Chain
  <2>2. CASE i \in DOMAIN e /\ j = x
    BY <1>1, <2>2 DEF Added
  <2>3. CASE i = x /\ j \in DOMAIN e
    <3>1. f[j].nth \in 1..Size(e)  BY <1>1, <2>3 DEF Rows
    <3> QED BY <1>1, <1>2, <2>3, <3>1
  <2>4. CASE i = x /\ j = x
    BY <1>3, <2>4
  <2> QED BY <1>1, <2>1, <2>2, <2>3, <2>4
<1>7. Linked(f)
  <2> SUFFICES ASSUME Right(f), NEW i \in DOMAIN f, f[i].hash # None
               PROVE  f[i].prev = Tip(f, Pos(f, i) - 1)
    BY DEF Linked
  <2>1. /\ Right(e) /\ \A k \in DOMAIN e : Bef(f, k, x)
        /\ \A n \in 0..Size(e) : Tip(f, n) = Tip(e, n)
    BY IntactBefore
  <2>2. Pos(f, x) = Size(e) + 1 /\ \A k \in DOMAIN e : Pos(f, k) = Pos(e, k)
    BY <1>1, <2>1, InsertedLast
  <2>3. CASE i = x
    <3>1. f[x].prev = Tip(e, Size(e))  BY DEF Added
    <3> QED BY <1>2, <2>1, <2>2, <2>3, <3>1
  <2>4. CASE i \in DOMAIN e
    <3>1. f[i].prev = Tip(e, Pos(e, i) - 1)  BY <1>1, <2>1, <2>4 DEF Chain, Linked
    <3>2. Pos(e, i) \in 1..Size(e)  BY <1>1, <2>4, LowerFacts
    <3> QED BY <1>2, <2>1, <2>2, <2>4, <3>1, <3>2
  <2> QED BY <1>1, <2>3, <2>4
<1> QED BY <1>1, <1>4, <1>5, <1>6, <1>7 DEF Chain

\* What a verification knows and is to find stays true when an entry is added.
LEMMA VerifiedGrows ==
  ASSUME NEW e, NEW f, NEW x, NEW c \in CheckType, Chain(e), Added(e, f, x), Verified(e, c)
  PROVE  Verified(f, c)
<1>1. /\ Grown(e, f, x) /\ Table(e) /\ x \notin DOMAIN e
      /\ \A i \in DOMAIN e : i \in DOMAIN f /\ f[i] = e[i]
  BY DEF Added, Grown
<1>2. /\ Size(e) \in Nat /\ Size(f) = Size(e) + 1
      /\ \A i, j \in DOMAIN e : Bef(f, i, j) <=> Bef(e, i, j)
      /\ \A i \in DOMAIN e : Pos(f, i) >= Pos(e, i)
  BY <1>1, InsertedBefore
<1>3. c.offset \in Nat /\ c.had \in Nat  BY DEF CheckType
<1>4. Walk(f, c)
  <2> SUFFICES ASSUME c.pc = "running"  PROVE Walk(f, c)  BY DEF Walk
  <2>1. c.offset <= Size(e) /\ c.seen = c.offset /\ c.had <= Size(e)
    BY DEF Verified, Walk
  <2>2. ASSUME Right(f)
        PROVE  /\ c.prev = Tip(f, c.offset)
               /\ c.started <=> c.offset > 0 /\ f[Nr(f, c.offset)].hash # None
    <3>1. /\ Right(e) /\ \A k \in DOMAIN e : Bef(f, k, x)
          /\ \A n \in 0..Size(e) : Tip(f, n) = Tip(e, n)
      BY <2>2, IntactBefore
    <3>2. \A n \in 1..Size(e) : Nr(f, n) = Nr(e, n) /\ Nr(e, n) \in DOMAIN e
      BY <1>1, <3>1, InsertedLast
    <3>3. /\ c.prev = Tip(e, c.offset)
          /\ c.started <=> c.offset > 0 /\ e[Nr(e, c.offset)].hash # None
      BY <3>1 DEF Verified, Walk
    <3> QED BY <1>1, <1>2, <1>3, <2>1, <3>1, <3>2, <3>3
  <2> QED BY <1>2, <1>3, <2>1, <2>2 DEF Walk
<1>5. Evidence(f, c)
  <2> SUFFICES ASSUME c.pc = "running", ~c.intact  PROVE Evidence(f, c)  BY DEF Evidence
  <2>1. \A i \in DOMAIN e : Pos(e, i) \in Nat  BY <1>1, LowerFacts
  <2>2. \A i \in DOMAIN e : i \in DOMAIN f => Pos(f, i) \in Nat
    BY <1>1, LowerFacts DEF Grown
  <2>3. CASE \E i \in DOMAIN e : Changed(e, c, i)
    <3>1. PICK i \in DOMAIN e : Changed(e, c, i)  BY <2>3
    <3>2. Changed(f, c, i)  BY <1>1, <1>2, <1>3, <2>1, <2>2, <3>1 DEF Changed, Hashed
    <3> QED BY <1>1, <3>2 DEF Evidence
  <2>4. CASE \E i, j \in DOMAIN e : Swapped(e, c, i, j)
    <3>1. PICK i, j \in DOMAIN e : Swapped(e, c, i, j)  BY <2>4
    <3>2. Swapped(f, c, i, j)
      BY <1>1, <1>2, <1>3, <2>1, <2>2, <3>1 DEF Swapped, Hashed
    <3> QED BY <1>1, <3>2 DEF Evidence
  <2> QED BY <2>3, <2>4 DEF Verified, Evidence
<1>6. Answers(f, c)
  <2>1. Right(f) => Right(e)  BY IntactBefore
  <2> QED BY <2>1 DEF Verified, Answers
<1> QED BY <1>4, <1>5, <1>6 DEF Verified

-----------------------------------------------------------------------------
(* A row is changed *)

Damaged(e, f, x) ==
    Table(e) /\ Hashed(e, x) /\ f = [e EXCEPT ![x].body = None]

\* A changed row leaves the order and the hashes as they were, and the table is
\* not intact any more.
LEMMA DamageFacts ==
  ASSUME NEW e, NEW f, NEW x, Damaged(e, f, x)
  PROVE  /\ Table(f) /\ DOMAIN f = DOMAIN e /\ Size(f) = Size(e) /\ ~Right(f)
         /\ \A i \in DOMAIN e : /\ f[i].at = e[i].at /\ f[i].prev = e[i].prev
                                /\ f[i].hash = e[i].hash /\ f[i].nth = e[i].nth
                                /\ f[i].body = e[i].body \/ f[i].body = None
                                /\ e[i].body = None => f[i].body = None
         /\ \A i, j \in DOMAIN e : Bef(f, i, j) <=> Bef(e, i, j)
         /\ \A i \in DOMAIN e : Pos(f, i) = Pos(e, i)
         /\ \A n \in 0..Size(e) : Tip(f, n) = Tip(e, n)
<1>1. /\ x \in DOMAIN e /\ e[x].hash # None /\ DOMAIN f = DOMAIN e
      /\ \A i \in DOMAIN e : e[i] \in RowSet
      /\ \A i \in DOMAIN e : f[i] = IF i = x THEN [e[i] EXCEPT !.body = None] ELSE e[i]
  BY DEF Damaged, Hashed, Table
<1>2. \A r \in RowSet : /\ [r EXCEPT !.body = None] \in RowSet
                        /\ [r EXCEPT !.body = None].at = r.at
                        /\ [r EXCEPT !.body = None].prev = r.prev
                        /\ [r EXCEPT !.body = None].hash = r.hash
                        /\ [r EXCEPT !.body = None].nth = r.nth
                        /\ [r EXCEPT !.body = None].body = None
  BY DEF RowSet
<1>3. \A i \in DOMAIN e : /\ f[i] \in RowSet
                          /\ f[i].at = e[i].at /\ f[i].prev = e[i].prev
                          /\ f[i].hash = e[i].hash /\ f[i].nth = e[i].nth
                          /\ f[i].body = e[i].body \/ f[i].body = None
                          /\ e[i].body = None => f[i].body = None
  <2>1. TAKE i \in DOMAIN e
  <2>2. e[i] \in RowSet  BY <1>1
  <2>3. CASE i = x
    <3>1. f[i] = [e[i] EXCEPT !.body = None]  BY <1>1, <2>3
    <3> QED BY <1>2, <2>2, <3>1
  <2>4. CASE i # x
    BY <1>1, <2>2, <2>4
  <2> QED BY <2>3, <2>4
<1>4. f[x].body = None
  <2>1. e[x] \in RowSet /\ f[x] = [e[x] EXCEPT !.body = None]  BY <1>1
  <2> QED BY <1>2, <2>1
<1>5. f \in [DOMAIN e -> RowSet]
  <2>1. f = [i \in DOMAIN e |-> f[i]]  BY DEF Damaged
  <2> QED BY <1>3, <2>1
<1>6. Table(f)  BY <1>1, <1>5 DEF Damaged, Table
<1>7. ~Right(f)  BY <1>1, <1>3, <1>4 DEF Right
<1>8. /\ Size(f) = Size(e)
      /\ \A i, j \in DOMAIN e : Bef(f, i, j) <=> Bef(e, i, j)
      /\ \A i \in DOMAIN e : Pos(f, i) = Pos(e, i)
      /\ \A n \in 1..Size(e) : Nr(f, n) = Nr(e, n)
  <2>1. Table(e)  BY DEF Damaged
  <2>2. \A i \in DOMAIN e : f[i].at = e[i].at  BY <1>3
  <2>3. DOMAIN f = DOMAIN e  BY <1>1
  <2> QED BY <1>6, <2>1, <2>2, <2>3, SamePositions
<1>9. \A n \in 0..Size(e) : Tip(f, n) = Tip(e, n)
  <2>1. TAKE n \in 0..Size(e)
  <2>2. Table(e)  BY DEF Damaged
  <2>3. Size(e) \in Nat  BY <1>1, <2>2, LowerFacts
  <2>4. n # 0 => n \in 1..Size(e)  BY <2>3
  <2>5. n # 0 => Nr(e, n) \in DOMAIN e /\ Nr(f, n) = Nr(e, n)
    BY <1>8, <2>2, <2>4, RowThere
  <2> QED BY <1>3, <2>5 DEF Tip
<1> QED BY <1>1, <1>3, <1>6, <1>7, <1>8, <1>9

\* The properties of the chain do not speak of what was changed.
LEMMA ChainDamaged ==
  ASSUME NEW e, NEW f, NEW x, Chain(e), Damaged(e, f, x)
  PROVE  Chain(f)
<1>1. /\ Table(f) /\ DOMAIN f = DOMAIN e /\ Size(f) = Size(e) /\ ~Right(f)
      /\ \A i \in DOMAIN e : /\ f[i].at = e[i].at /\ f[i].prev = e[i].prev
                             /\ f[i].hash = e[i].hash /\ f[i].nth = e[i].nth
                             /\ f[i].body = e[i].body \/ f[i].body = None
      /\ \A i, j \in DOMAIN e : Bef(f, i, j) <=> Bef(e, i, j)
  BY DamageFacts
<1>2. \A i \in DOMAIN e : Signed(e[i]) => Signed(f[i])  BY <1>1 DEF Signed
<1>3. Rows(f)
  <2> SUFFICES ASSUME NEW i \in DOMAIN e
               PROVE  /\ f[i].nth \in 1..Size(f)
                      /\ IF f[i].hash = None THEN f[i].at = 0 ELSE Signed(f[i])
    BY <1>1 DEF Rows
  <2>1. /\ e[i].nth \in 1..Size(e)
        /\ IF e[i].hash = None THEN e[i].at = 0 ELSE Signed(e[i])
    BY DEF Chain, Rows
  <2> QED BY <1>1, <1>2, <2>1
<1>4. Old(f)  BY <1>1 DEF Chain, Old
<1>5. Ancestors(f)  BY <1>1 DEF Chain, Ancestors
<1>6. Linked(f)  BY <1>1 DEF Linked
<1> QED BY <1>1, <1>3, <1>4, <1>5, <1>6 DEF Chain

\* What was wrong when a verification began is still wrong where it was.
LEMMA VerifiedDamaged ==
  ASSUME NEW e, NEW f, NEW x, NEW c \in CheckType, Damaged(e, f, x), Verified(e, c)
  PROVE  Verified(f, c)
<1>1. /\ DOMAIN f = DOMAIN e /\ Size(f) = Size(e) /\ ~Right(f)
      /\ \A i \in DOMAIN e : /\ f[i].hash = e[i].hash /\ f[i].nth = e[i].nth
                             /\ e[i].body = None => f[i].body = None
      /\ \A i, j \in DOMAIN e : Bef(f, i, j) <=> Bef(e, i, j)
      /\ \A i \in DOMAIN e : Pos(f, i) = Pos(e, i)
  BY DamageFacts
<1>2. Walk(f, c)  BY <1>1 DEF Verified, Walk
<1>3. \A i \in DOMAIN e : Changed(e, c, i) => Changed(f, c, i)  BY <1>1 DEF Changed, Hashed
<1>4. \A i, j \in DOMAIN e : Swapped(e, c, i, j) => Swapped(f, c, i, j)
  BY <1>1 DEF Swapped, Hashed
<1>5. Evidence(f, c)  BY <1>1, <1>3, <1>4 DEF Verified, Evidence
<1>6. Answers(f, c)  BY <1>1 DEF Verified, Answers
<1> QED BY <1>2, <1>5, <1>6 DEF Verified

-----------------------------------------------------------------------------
(* The verification reads a page *)

\* The definitions of the model that read the table, in the terms used here.
LEMMA Reading ==
  /\ Count = Size(entries)
  /\ \A i \in DOMAIN entries : Position(i) = Pos(entries, i)
  /\ \A n : RowAt(n) = entries[Nr(entries, n)]
  /\ \A n : HashAt(n) = Tip(entries, n)
  /\ HeadHash = Tip(entries, Size(entries))
  /\ Intact <=> Right(entries)
<1>1. \A i, j : Before(i, j) <=> Bef(entries, i, j)  BY DEF Before, Bef
<1>2. \A i : {j \in DOMAIN entries : Before(j, i)} = Lower(entries, i)
  BY <1>1 DEF Lower
<1>3. \A i : Position(i) = Pos(entries, i)  BY <1>2 DEF Position, Pos
<1>4. \A n : RowAt(n) = entries[Nr(entries, n)]
  BY DEF RowAt, Nr, Position, Pos, Before, Bef, Lower
<1>5. Count = Size(entries)  BY DEF Count, Size
<1>6. \A n : HashAt(n) = Tip(entries, n)  BY <1>4 DEF HashAt, Tip
<1>7. Intact <=> Right(entries)  BY <1>1 DEF Intact, Right
<1> QED BY <1>3, <1>4, <1>5, <1>6, <1>7 DEF HeadHash

\* A verification under way, about to read its next page.
OnPage ==
    /\ Table(entries) /\ Rows(entries) /\ check \in CheckType
    /\ check.pc = "running" /\ check.offset <= Size(entries)

\* A page is what the table holds from the offset on, and no page but the last
\* is short.
LEMMA PageFacts ==
  ASSUME OnPage
  PROVE  /\ PageLength \in Nat /\ Size(entries) \in Nat /\ check.offset \in Nat
         /\ check.offset + PageLength <= Size(entries)
         /\ Len(PageRows) = PageLength /\ Page \in Nat
         /\ IF LastPage(PageRows) THEN check.offset + PageLength = Size(entries)
                                  ELSE PageLength = Page
         /\ \A k \in 1..PageLength :
               /\ Nr(entries, check.offset + k) \in DOMAIN entries
               /\ Pos(entries, Nr(entries, check.offset + k)) = check.offset + k
               /\ PageRows[k] = entries[Nr(entries, check.offset + k)]
<1>1. Page \in Nat  BY ChainAssumption
<1>2. check.offset \in Nat  BY DEF OnPage, CheckType
<1>3. Size(entries) \in Nat  BY FS_CardinalityType DEF OnPage, Table, Size
<1>4. PageLength = IF Size(entries) - check.offset < Page THEN Size(entries) - check.offset
                                                           ELSE Page
  BY Reading DEF PageLength
<1>5. PageLength \in Nat /\ check.offset + PageLength <= Size(entries)
  BY <1>1, <1>2, <1>3, <1>4 DEF OnPage
<1>6. PageRows = [k \in 1..PageLength |-> entries[Nr(entries, check.offset + k)]]
  BY Reading DEF PageRows
<1>7. Len(PageRows) = PageLength  BY <1>5, <1>6
<1>8. \A k \in 1..PageLength :
        /\ Nr(entries, check.offset + k) \in DOMAIN entries
        /\ Pos(entries, Nr(entries, check.offset + k)) = check.offset + k
  <2>1. TAKE k \in 1..PageLength
  <2>2. check.offset + k \in 1..Size(entries)  BY <1>2, <1>3, <1>5
  <2> QED BY <2>2, RowThere DEF OnPage
<1>9. IF LastPage(PageRows) THEN check.offset + PageLength = Size(entries)
                            ELSE PageLength = Page
  BY <1>1, <1>2, <1>3, <1>4, <1>7 DEF LastPage
<1> QED BY <1>1, <1>2, <1>3, <1>5, <1>6, <1>7, <1>8, <1>9

\* The rows from before the chain come first.
LEMMA LegacyFirst ==
  ASSUME NEW e, Table(e), Rows(e), NEW i \in DOMAIN e, NEW j \in DOMAIN e,
         Pos(e, i) <= Pos(e, j), e[j].hash = None
  PROVE  e[i].hash = None
<1>1. ~Bef(e, j, i)
  <2>1. Pos(e, i) \in Nat /\ Pos(e, j) \in Nat /\ Size(e) \in Nat  BY LowerFacts
  <2> QED BY <2>1, PosOrder
<1>2. e[j].at = 0  BY RowFacts
<1>3. e[i].hash # None => e[i].at \in Nat \ {0}  BY RowFacts, SignedFacts
<1> QED BY <1>1, <1>2, <1>3 DEF Bef

\* In an intact table the loop expects in each row of the page what the row
\* before it holds, whichever page that row was on.
LEMMA Expecting ==
  ASSUME OnPage, Right(entries), Walk(entries, check), NEW k \in 1..(PageLength + 1)
  PROVE  /\ Expected(PageRows, k) = Tip(entries, check.offset + k - 1)
         /\ Started(PageRows, k) <=> /\ check.offset + k - 1 > 0
                                     /\ entries[Nr(entries, check.offset + k - 1)].hash # None
<1> DEFINE o == check.offset
           e == entries
           rows == PageRows
<1>1. /\ PageLength \in Nat /\ Size(e) \in Nat /\ o \in Nat /\ o + PageLength <= Size(e)
      /\ \A m \in 1..PageLength : /\ Nr(e, o + m) \in DOMAIN e
                                  /\ Pos(e, Nr(e, o + m)) = o + m
                                  /\ rows[m] = e[Nr(e, o + m)]
  BY PageFacts
<1>2. /\ check.prev = Tip(e, o)
      /\ check.started <=> o > 0 /\ e[Nr(e, o)].hash # None
  BY DEF Walk, OnPage
<1>3. CASE k = 1
  <2>1. o + k - 1 = o  BY <1>1, <1>3
  <2>2. Started(rows, k) <=> check.started  BY <1>3 DEF Started
  <2> QED BY <1>2, <1>3, <2>1, <2>2 DEF Expected
<1>4. CASE k # 1 /\ rows[k - 1].hash # None
  <2>1. k - 1 \in 1..PageLength /\ o + (k - 1) = o + k - 1 /\ o + k - 1 > 0 /\ o + k - 1 # 0
    BY <1>1, <1>4
  <2>2. rows[k - 1] = e[Nr(e, o + k - 1)]  BY <1>1, <2>1
  <2>3. Started(rows, k)  BY <1>1, <1>4 DEF Started
  <2>4. Expected(rows, k) = rows[k - 1].hash  BY <1>4 DEF Expected
  <2> QED BY <1>4, <2>1, <2>2, <2>3, <2>4 DEF Tip
<1>5. CASE k # 1 /\ rows[k - 1].hash = None
  <2>1. k - 1 \in 1..PageLength /\ o + (k - 1) = o + k - 1 /\ o + k - 1 > 0
    BY <1>1, <1>5
  <2>2. rows[k - 1] = e[Nr(e, o + k - 1)]  BY <1>1, <2>1
  <2>3. /\ Nr(e, o + k - 1) \in DOMAIN e /\ Pos(e, Nr(e, o + k - 1)) = o + k - 1
        /\ e[Nr(e, o + k - 1)].hash = None
    BY <1>1, <1>5, <2>1, <2>2
  <2>4. \A i \in DOMAIN e : Pos(e, i) <= o + k - 1 => e[i].hash = None
    BY <2>3, LegacyFirst DEF OnPage
  <2>5. o > 0 => e[Nr(e, o)].hash = None
    <3>1. SUFFICES ASSUME o > 0  PROVE e[Nr(e, o)].hash = None  OBVIOUS
    <3>2. o \in 1..Size(e)  BY <1>1, <3>1
    <3>3. Nr(e, o) \in DOMAIN e /\ Pos(e, Nr(e, o)) = o  BY <3>2, RowThere DEF OnPage
    <3> QED BY <1>1, <2>1, <2>4, <3>3
  <2>6. \A m \in 1..(k - 1) : rows[m].hash = None
    <3>1. TAKE m \in 1..(k - 1)
    <3>2. m \in 1..PageLength /\ o + m <= o + k - 1  BY <1>1, <2>1
    <3> QED BY <1>1, <2>4, <3>2
  <2>7. ~Started(rows, k)  BY <1>2, <2>5, <2>6 DEF Started
  <2>8. Tip(e, o) = Genesis  BY <1>1, <2>5 DEF Tip
  <2>9. Expected(rows, k) = Genesis  BY <1>2, <1>5, <2>8 DEF Expected
  <2> QED BY <2>3, <2>7, <2>9 DEF Tip
<1> QED BY <1>3, <1>4, <1>5

\* No row of an intact table is reported.
LEMMA NoneBroken ==
  ASSUME OnPage, Right(entries), Linked(entries), Walk(entries, check),
         NEW k \in 1..PageLength
  PROVE  ~Broken(PageRows, k)
<1> DEFINE e == entries
           i == Nr(entries, check.offset + k)
           p == check.offset + k - 1
           rows == PageRows
<1>1. /\ PageLength \in Nat /\ Size(e) \in Nat /\ check.offset \in Nat
      /\ check.offset + PageLength <= Size(e)
      /\ i \in DOMAIN e /\ Pos(e, i) = check.offset + k /\ rows[k] = e[i]
  BY PageFacts
<1>2. k \in 1..(PageLength + 1) /\ p \in Nat /\ p = Pos(e, i) - 1 /\ p < Pos(e, i)
  BY <1>1
<1>3. /\ Expected(rows, k) = Tip(e, p)
      /\ Started(rows, k) <=> p > 0 /\ e[Nr(e, p)].hash # None
  BY <1>2, Expecting
<1>4. CASE e[i].hash = None
  <2>1. SUFFICES ASSUME p > 0, e[Nr(e, p)].hash # None  PROVE FALSE
    BY <1>1, <1>3, <1>4 DEF Broken
  <2>2. p \in 1..Size(e)  BY <1>1, <1>2, <2>1
  <2>3. Nr(e, p) \in DOMAIN e /\ Pos(e, Nr(e, p)) = p  BY <2>2, RowThere DEF OnPage
  <2>4. Pos(e, Nr(e, p)) <= Pos(e, i)  BY <1>1, <1>2, <2>3
  <2> QED BY <1>1, <1>4, <2>1, <2>3, <2>4, LegacyFirst DEF OnPage
<1>5. CASE e[i].hash # None
  <2>1. e[i].prev = Tip(e, p)  BY <1>1, <1>2, <1>5 DEF Linked
  <2>2. Signed(e[i])  BY <1>1, <1>5, RowFacts DEF OnPage
  <2>3. e[i].body # None  BY <1>1, <1>5 DEF Right
  <2>4. e[i].hash = EntryHash(e[i].prev, e[i].body, e[i].at)  BY <2>2, <2>3 DEF Signed
  <2> QED BY <1>1, <1>3, <1>5, <2>1, <2>4 DEF Broken
<1> QED BY <1>4, <1>5

\* A set of natural numbers that is not empty has a least element.
LEMMA Least ==
  ASSUME NEW T \in SUBSET Nat, NEW t \in T
  PROVE  \E m \in T : \A n \in T : m <= n
<1> DEFINE R == OpToRel(<, Nat)
<1>1. IsWellFoundedOn(R, Nat)  BY NatLessThanWellFounded, Zenon
<1>2. \A x, y \in Nat : <<x, y>> \in R <=> x < y  BY DEF OpToRel
<1> HIDE DEF R
<1>3. PICK m \in T : \A n \in T : ~(<<n, m>> \in R)  BY <1>1, WFMin
<1>4. \A n \in T : m <= n
  <2>1. TAKE n \in T
  <2>2. ~(n < m)  BY <1>2, <1>3
  <2> QED BY <2>2
<1> QED BY <1>4

PassesPage == OnPage /\ \A k \in 1..PageLength : ~Broken(PageRows, k)

\* The loop over a page carries a hash from one row to the next.
LEMMA Carrying ==
  ASSUME PassesPage
  PROVE  /\ \A k \in 1..(PageLength + 1) : Expected(PageRows, k) \in Hash
         /\ \A k \in 1..PageLength :
               /\ PageRows[k] \in RowSet
               /\ PageRows[k].hash # None =>
                     /\ Signed(PageRows[k]) /\ PageRows[k].body # None
                     /\ PageRows[k].prev = Expected(PageRows, k)
                     /\ Expected(PageRows, k + 1) = PageRows[k].hash
                     /\ Started(PageRows, k + 1)
               /\ Started(PageRows, k) => PageRows[k].hash # None
<1> DEFINE rows == PageRows
<1>1. /\ PageLength \in Nat
      /\ \A k \in 1..PageLength : /\ Nr(entries, check.offset + k) \in DOMAIN entries
                                  /\ rows[k] = entries[Nr(entries, check.offset + k)]
  BY PageFacts DEF PassesPage
<1>2. \A k \in 1..PageLength : /\ rows[k] \in RowSet /\ rows[k].hash \in Hash \cup {None}
                               /\ rows[k].hash # None => Signed(rows[k])
  BY <1>1, RowFacts DEF PassesPage, OnPage
<1>3. check.prev \in Hash  BY DEF PassesPage, OnPage, CheckType
<1>4. \A k \in 1..(PageLength + 1) : Expected(rows, k) \in Hash
  <2>1. TAKE k \in 1..(PageLength + 1)
  <2>2. k # 1 => k - 1 \in 1..PageLength  BY <1>1
  <2>3. k # 1 => rows[k - 1].hash \in Hash \cup {None}  BY <1>2, <2>2
  <2> QED BY <1>3, <2>3 DEF Expected
<1>5. ASSUME NEW k \in 1..PageLength
      PROVE  /\ rows[k].hash # None =>
                   /\ Signed(rows[k]) /\ rows[k].body # None
                   /\ rows[k].prev = Expected(rows, k)
                   /\ Expected(rows, k + 1) = rows[k].hash
                   /\ Started(rows, k + 1)
             /\ Started(rows, k) => rows[k].hash # None
  <2>1. ~Broken(rows, k)  BY DEF PassesPage
  <2>2. Started(rows, k) => rows[k].hash # None  BY <2>1 DEF Broken
  <2>3. ASSUME rows[k].hash # None
        PROVE  /\ Signed(rows[k]) /\ rows[k].body # None
               /\ rows[k].prev = Expected(rows, k)
               /\ Expected(rows, k + 1) = rows[k].hash
               /\ Started(rows, k + 1)
    <3>1. Signed(rows[k]) /\ rows[k] \in RowSet  BY <1>2, <2>3
    <3>2. /\ rows[k].prev = Expected(rows, k)
          /\ rows[k].hash = EntryHash(rows[k].prev, rows[k].body, rows[k].at)
      BY <2>1, <2>3 DEF Broken
    <3>3. rows[k].body # None
      <4>1. PICK l \in Logs : rows[k].hash = EntryHash(rows[k].prev, l, rows[k].at)
        BY <3>1 DEF Signed
      <4>2. /\ rows[k].prev \in Hash /\ rows[k].at \in Nat
            /\ rows[k].body \in Logs \cup {None}
        BY <3>1, SignedFacts DEF RowSet
      <4>3. EntryHash(rows[k].prev, l, rows[k].at)
              = EntryHash(rows[k].prev, rows[k].body, rows[k].at)
        BY <3>2, <4>1
      <4> HIDE DEF rows
      <4>4. l = rows[k].body  BY <4>2, <4>3, HashApart
      <4> QED BY <4>4, ChainAssumption
    <3>4. k + 1 # 1 /\ (k + 1) - 1 = k /\ k \in 1..((k + 1) - 1)  BY <1>1
    <3>5. Expected(rows, k + 1) = rows[k].hash  BY <2>3, <3>4 DEF Expected
    <3>6. Started(rows, k + 1)  BY <2>3, <3>4 DEF Started
    <3> QED BY <3>1, <3>2, <3>3, <3>5, <3>6
  <2> QED BY <2>2, <2>3
<1> QED BY <1>2, <1>4, <1>5

\* What the current hash was computed from at one row of the page, it was
\* computed from at every later one.
LEMMA Onward ==
  ASSUME PassesPage, NEW a \in 1..(PageLength + 1), NEW s \in Hash,
         Started(PageRows, a), Prefix(s, Expected(PageRows, a)),
         NEW b \in a..(PageLength + 1)
  PROVE  Started(PageRows, b) /\ Prefix(s, Expected(PageRows, b))
<1> DEFINE rows == PageRows
           Good(k) == Started(rows, k) /\ Prefix(s, Expected(rows, k))
           T == {k \in a..(PageLength + 1) : ~Good(k)}
<1>1. PageLength \in Nat  BY PageFacts DEF PassesPage
<1>2. ASSUME NEW k \in 1..PageLength, Good(k)  PROVE Good(k + 1)
  <2>1. rows[k] \in RowSet /\ rows[k].hash # None  BY <1>2, Carrying
  <2>2. /\ Signed(rows[k]) /\ rows[k].prev = Expected(rows, k)
        /\ Expected(rows, k + 1) = rows[k].hash /\ Started(rows, k + 1)
    BY <2>1, Carrying
  <2>3. Prefix(s, rows[k].hash)  BY <1>2, <2>1, <2>2, SignedFacts
  <2> QED BY <2>2, <2>3
<1>3. Good(a)  OBVIOUS
<1> HIDE DEF Good
<1>4. ASSUME ~Good(b)  PROVE FALSE
  <2>1. T \in SUBSET Nat /\ b \in T  BY <1>1, <1>4
  <2>2. PICK m \in T : \A n \in T : m <= n  BY <2>1, Least
  <2>3. m \in a..(PageLength + 1) /\ ~Good(m) /\ m # a  BY <1>3, <2>2
  <2>4. m - 1 \in a..(PageLength + 1) /\ m - 1 \in 1..PageLength /\ m - 1 < m
        /\ (m - 1) + 1 = m
    BY <1>1, <2>3
  <2>5. m - 1 \notin T  BY <2>2, <2>4
  <2>6. Good(m - 1)  BY <2>4, <2>5
  <2> QED BY <1>2, <2>3, <2>4, <2>6
<1>5. Good(b)  BY <1>4
<1> QED BY <1>5 DEF Good

\* Once the loop is past an entry, the current hash was computed from it.
LEMMA Behind ==
  ASSUME PassesPage, NEW f \in DOMAIN entries, Hashed(entries, f),
         Pos(entries, f) > check.offset
            \/ (check.started /\ Prefix(entries[f].hash, check.prev)),
         NEW k \in 1..(PageLength + 1), Pos(entries, f) < check.offset + k
  PROVE  Started(PageRows, k) /\ Prefix(entries[f].hash, Expected(PageRows, k))
<1> DEFINE rows == PageRows
           o == check.offset
           s == entries[f].hash
<1>1. /\ PageLength \in Nat /\ o \in Nat /\ Size(entries) \in Nat
      /\ \A m \in 1..PageLength : rows[m] = entries[Nr(entries, o + m)]
  BY PageFacts DEF PassesPage
<1>2. Pos(entries, f) \in Nat  BY <1>1, LowerFacts DEF PassesPage, OnPage
<1>3. s \in Hash  BY RowFacts DEF PassesPage, OnPage, Hashed
<1>4. CASE Pos(entries, f) > o
  <2> DEFINE a == Pos(entries, f) - o
  <2>1. a \in 1..PageLength /\ o + a = Pos(entries, f) /\ k \in (a + 1)..(PageLength + 1)
        /\ a + 1 \in 1..(PageLength + 1)
    BY <1>1, <1>2, <1>4
  <2> HIDE DEF a
  <2>2. rows[a] = entries[f]  BY <1>1, <2>1, RowBack DEF PassesPage, OnPage
  <2>3. Expected(rows, a + 1) = s /\ Started(rows, a + 1)
    BY <2>1, <2>2, Carrying DEF Hashed
  <2>4. Prefix(s, s)  BY <1>3 DEF Prefix, Hash
  <2> QED BY <1>3, <2>1, <2>3, <2>4, Onward
<1>5. CASE check.started /\ Prefix(s, check.prev)
  <2>1. Started(rows, 1) /\ Prefix(s, Expected(rows, 1))  BY <1>5 DEF Started, Expected
  <2>2. 1 \in 1..(PageLength + 1)  BY <1>1
  <2> QED BY <1>3, <2>1, <2>2, Onward
<1> QED BY <1>4, <1>5

\* What was wrong when the verification began is beyond every page it passes.
LEMMA StillAhead ==
  ASSUME PassesPage, Ancestors(entries), Evidence(entries, check), ~check.intact,
         NEW c, c.offset = check.offset + PageLength,
         c.prev = Expected(PageRows, PageLength + 1),
         c.started <=> Started(PageRows, PageLength + 1)
  PROVE  \/ \E i \in DOMAIN entries : Changed(entries, c, i)
         \/ \E i, f \in DOMAIN entries : Swapped(entries, c, i, f)
<1> DEFINE rows == PageRows
           e == entries
           o == check.offset
<1>1. /\ PageLength \in Nat /\ o \in Nat /\ Size(e) \in Nat
      /\ \A m \in 1..PageLength : rows[m] = e[Nr(e, o + m)]
  BY PageFacts DEF PassesPage
<1>2. \A i \in DOMAIN e : Pos(e, i) \in Nat
  BY <1>1, LowerFacts DEF PassesPage, OnPage
<1>3. ASSUME NEW i \in DOMAIN e, Pos(e, i) > o, ~(Pos(e, i) > c.offset)
      PROVE  \E m \in 1..PageLength : o + m = Pos(e, i) /\ rows[m] = e[i]
  <2>1. PICK m \in 1..PageLength : o + m = Pos(e, i)
    <3>1. Pos(e, i) - o \in 1..PageLength /\ o + (Pos(e, i) - o) = Pos(e, i)
      BY <1>1, <1>2, <1>3
    <3> QED BY <3>1
  <2>2. rows[m] = e[i]  BY <1>1, <2>1, RowBack DEF PassesPage, OnPage
  <2> QED BY <2>1, <2>2
<1>4. CASE \E i \in DOMAIN e : Changed(e, check, i)
  <2>1. PICK i \in DOMAIN e : Changed(e, check, i)  BY <1>4
  <2>2. Pos(e, i) > o /\ e[i].hash # None /\ e[i].body = None  BY <2>1 DEF Changed, Hashed
  <2>3. Pos(e, i) > c.offset
    <3>1. SUFFICES ASSUME ~(Pos(e, i) > c.offset)  PROVE FALSE  OBVIOUS
    <3>2. PICK m \in 1..PageLength : o + m = Pos(e, i) /\ rows[m] = e[i]
      BY <1>3, <2>2, <3>1
    <3>3. rows[m].hash # None /\ rows[m].body = None  BY <2>2, <3>2
    <3> QED BY <3>3, Carrying
  <2>4. Changed(e, c, i)  BY <2>1, <2>3 DEF Changed
  <2> QED BY <2>4
<1>5. CASE \E i, f \in DOMAIN e : Swapped(e, check, i, f)
  <2>1. PICK i, f \in DOMAIN e : Swapped(e, check, i, f)  BY <1>5
  <2>2. /\ Hashed(e, i) /\ Hashed(e, f) /\ e[i].nth < e[f].nth /\ Bef(e, f, i)
        /\ Pos(e, i) > o
        /\ Pos(e, f) > o \/ (check.started /\ Prefix(e[f].hash, check.prev))
    BY <2>1 DEF Swapped
  <2>3. Pos(e, f) < Pos(e, i)  BY <2>2, PosLess DEF PassesPage, OnPage
  <2>4. Pos(e, i) > c.offset
    <3>1. SUFFICES ASSUME ~(Pos(e, i) > c.offset)  PROVE FALSE  OBVIOUS
    <3>2. PICK m \in 1..PageLength : o + m = Pos(e, i) /\ rows[m] = e[i]
      BY <1>3, <2>2, <3>1
    <3>3. m \in 1..(PageLength + 1) /\ Pos(e, f) < o + m  BY <1>1, <2>3, <3>2
    <3>4. Prefix(e[f].hash, Expected(rows, m))  BY <2>2, <3>3, Behind
    <3>5. e[i].prev = Expected(rows, m)  BY <2>2, <3>2, Carrying DEF Hashed
    <3>6. e[f].nth < e[i].nth  BY <2>2, <3>4, <3>5 DEF Ancestors, Hashed
    <3>7. e[f].nth \in Nat /\ e[i].nth \in Nat  BY OrderOf DEF PassesPage, OnPage
    <3> QED BY <2>2, <3>6, <3>7
  <2>5. Pos(e, f) > c.offset \/ (c.started /\ Prefix(e[f].hash, c.prev))
    <3>1. SUFFICES ASSUME ~(Pos(e, f) > c.offset)
                   PROVE  c.started /\ Prefix(e[f].hash, c.prev)
      OBVIOUS
    <3>2. PageLength + 1 \in 1..(PageLength + 1) /\ Pos(e, f) < o + (PageLength + 1)
      BY <1>1, <1>2, <3>1
    <3> QED BY <2>2, <3>2, Behind
  <2>6. Swapped(e, c, i, f)  BY <2>2, <2>4, <2>5 DEF Swapped
  <2> QED BY <2>6
<1>6. check.pc = "running"  BY DEF PassesPage, OnPage
<1> QED BY <1>4, <1>5, <1>6 DEF Evidence

\* After a page a verification knows where it is, or gives the right answer.
LEMMA VerifiedPage ==
  ASSUME Table(entries), check \in CheckType, Chain(entries), Verified(entries, check), CheckPage
  PROVE  check' \in CheckType /\ Verified(entries, check')
<1> DEFINE rows == PageRows
           n == PageLength
           e == entries
<1>1. OnPage  BY DEF CheckPage, OnPage, Chain, Verified, Walk
<1>2. /\ n \in Nat /\ Size(e) \in Nat /\ check.offset \in Nat
      /\ check.offset + n <= Size(e) /\ Len(rows) = n /\ Page \in Nat
      /\ IF LastPage(rows) THEN check.offset + n = Size(e) ELSE n = Page
  BY <1>1, PageFacts
<1>3. CASE \E k \in 1..n : Broken(rows, k)
  <2>1. check' = [check EXCEPT !.pc = "broken"]
    BY <1>2, <1>3 DEF CheckPage, Checking
  <2>2. check'.pc = "broken" /\ check' \in CheckType  BY <2>1 DEF CheckType
  <2>3. ~Right(e)  BY <1>1, <1>3, NoneBroken DEF Chain, Verified
  <2> QED BY <2>2, <2>3 DEF Verified, Walk, Evidence, Answers
<1>4. CASE ~\E k \in 1..n : Broken(rows, k)
  <2>1. PassesPage  BY <1>1, <1>4 DEF PassesPage
  <2>2. check' = [check EXCEPT !.pc = IF LastPage(rows) THEN "ok" ELSE "running",
                               !.offset = @ + Page,
                               !.prev = Expected(rows, n + 1),
                               !.started = Started(rows, n + 1),
                               !.seen = @ + n]
    BY <1>2, <1>4 DEF CheckPage, Checking
  <2>3. n + 1 \in 1..(n + 1)  BY <1>2
  <2>4. Expected(rows, n + 1) \in Hash  BY <2>1, <2>3, Carrying
  <2>5. Started(rows, n + 1) \in BOOLEAN
    <3>1. check.started \in BOOLEAN  BY <1>1 DEF OnPage, CheckType
    <3> QED BY <3>1 DEF Started
  <2> DEFINE x == Expected(rows, n + 1)
             b == Started(rows, n + 1)
             q == IF LastPage(rows) THEN "ok" ELSE "running"
  <2>6. q = IF LastPage(rows) THEN "ok" ELSE "running"  OBVIOUS
  <2>7. check.seen \in Nat /\ check.had \in Nat /\ check.offset \in Nat  BY DEF CheckType
  <2> HIDE DEF x, b, q
  <2>8. check' = [check EXCEPT !.pc = q, !.offset = check.offset + Page, !.prev = x,
                               !.started = b, !.seen = check.seen + n]
    BY <2>2 DEF x, b, q
  <2>9. q \in {"idle", "running", "ok", "broken"} /\ x \in Hash /\ b \in BOOLEAN
    BY <2>4, <2>5, <2>6 DEF x, b
  <2>10. check.offset + Page \in Nat /\ check.seen + n \in Nat  BY <1>2, <2>7
  <2>11. check' \in CheckType  BY <2>8, <2>9, <2>10 DEF CheckType
  <2>12. /\ check'.pc = q /\ check'.offset = check.offset + Page /\ check'.prev = x
         /\ check'.started = b /\ check'.seen = check.seen + n
         /\ check'.had = check.had /\ check'.intact = check.intact
    BY <2>8 DEF CheckType
  <2>13. PICK c : c = check'  OBVIOUS
  <2>14. check.pc = "running" /\ check.seen = check.offset /\ check.had <= Size(e)
    BY <1>1 DEF OnPage, Verified, Walk
  <2>15. CASE LastPage(rows)
    <3>1. c.pc = "ok" /\ c.seen >= c.had
      BY <1>2, <2>6, <2>7, <2>12, <2>13, <2>14, <2>15
    <3>2. check.intact
      <4>1. SUFFICES ASSUME ~check.intact  PROVE FALSE  OBVIOUS
      <4>2. PICK d : d = [check EXCEPT !.offset = check.offset + n, !.prev = x, !.started = b]
        OBVIOUS
      <4>3. d.offset = check.offset + n /\ d.prev = x /\ (d.started <=> b)
        BY <4>2 DEF CheckType
      <4>4. \/ \E i \in DOMAIN e : Changed(e, d, i)
            \/ \E i, f \in DOMAIN e : Swapped(e, d, i, f)
        BY <2>1, <4>1, <4>3, StillAhead DEF Chain, Verified, x, b
      <4>5. PICK i \in DOMAIN e : Pos(e, i) > d.offset  BY <4>4 DEF Changed, Swapped
      <4>6. Pos(e, i) \in 1..Size(e)  BY LowerFacts
      <4> QED BY <1>2, <2>15, <4>3, <4>5, <4>6
    <3>3. Verified(e, c)
      BY <2>12, <2>13, <3>1, <3>2 DEF Verified, Walk, Evidence, Answers
    <3> QED BY <2>11, <2>13, <3>3
  <2>16. CASE ~LastPage(rows)
    <3>1. c.pc = "running" /\ n = Page /\ c.offset = check.offset + n
      BY <1>2, <2>6, <2>12, <2>13, <2>16
    <3>2. c.offset <= Size(e) /\ c.seen = c.offset /\ c.had <= Size(e)
      BY <1>2, <2>12, <2>13, <2>14, <3>1
    <3>3. ASSUME Right(e)
          PROVE  /\ c.prev = Tip(e, c.offset)
                 /\ c.started <=> c.offset > 0 /\ e[Nr(e, c.offset)].hash # None
      <4>1. check.offset + (n + 1) - 1 = c.offset  BY <1>2, <3>1
      <4>2. /\ x = Tip(e, check.offset + (n + 1) - 1)
            /\ b <=> /\ check.offset + (n + 1) - 1 > 0
                     /\ e[Nr(e, check.offset + (n + 1) - 1)].hash # None
        BY <1>1, <2>3, <3>3, Expecting DEF Verified, x, b
      <4> QED BY <2>12, <2>13, <4>1, <4>2
    <3>4. Walk(e, c)  BY <3>2, <3>3 DEF Walk
    <3>5. Evidence(e, c)
      <4>1. SUFFICES ASSUME ~c.intact
                     PROVE  \/ \E i \in DOMAIN e : Changed(e, c, i)
                            \/ \E i, f \in DOMAIN e : Swapped(e, c, i, f)
        BY DEF Evidence
      <4>2. ~check.intact /\ c.prev = x /\ (c.started <=> b)  BY <2>12, <2>13, <4>1
      <4> QED BY <2>1, <3>1, <4>2, StillAhead DEF Chain, Verified, x, b
    <3>6. Answers(e, c)  BY <3>1 DEF Answers
    <3> QED BY <2>11, <2>13, <3>4, <3>5, <3>6 DEF Verified
  <2> QED BY <2>15, <2>16
<1> QED BY <1>3, <1>4

\* A table that is not intact holds a changed row, or two rows of the chain in
\* the wrong order, and a verification that begins has everything ahead.
LEMMA VerifiedStart ==
  ASSUME Table(entries), Chain(entries), CheckStart
  PROVE  check' \in CheckType /\ Verified(entries, check')
<1> DEFINE e == entries
<1>1. check' = [NoCheck EXCEPT !.pc = "running", !.had = Size(e), !.intact = Intact]
  BY Reading DEF CheckStart, Checking
<1>2. Intact \in BOOLEAN /\ (Intact <=> Right(e))  BY Reading DEF Intact
<1>3. Size(e) \in Nat /\ Genesis \in Hash
  <2>1. Genesis \in Hash  BY DEF Genesis, Hash
  <2> QED BY <2>1, FS_CardinalityType DEF Table, Size
<1>4. PICK c : c = check'  OBVIOUS
<1>5. PICK good : good = Intact  OBVIOUS
<1>6. /\ c.pc = "running" /\ c.offset = 0 /\ c.prev = Genesis /\ c.started = FALSE
      /\ c.seen = 0 /\ c.had = Size(e) /\ c.intact = good
      /\ c \in CheckType
  <2>1. c = [pc |-> "running", offset |-> 0, prev |-> Genesis, started |-> FALSE,
             seen |-> 0, had |-> Size(e), intact |-> good]
    BY <1>1, <1>4, <1>5 DEF NoCheck
  <2>2. good \in BOOLEAN  BY <1>2, <1>5
  <2> QED BY <1>3, <2>1, <2>2 DEF CheckType
<1>7. Walk(e, c)  BY <1>3, <1>6 DEF Walk, Tip
<1>8. Evidence(e, c)
  <2>1. SUFFICES ASSUME ~Right(e)
                 PROVE  \/ \E i \in DOMAIN e : Changed(e, c, i)
                        \/ \E i, f \in DOMAIN e : Swapped(e, c, i, f)
    BY <1>2, <1>5, <1>6 DEF Evidence
  <2>2. \A i \in DOMAIN e : Pos(e, i) > c.offset
    <3>1. \A i \in DOMAIN e : Pos(e, i) \in 1..Size(e)  BY LowerFacts
    <3> QED BY <1>3, <1>6, <3>1
  <2>3. CASE \E i \in DOMAIN e : e[i].hash # None /\ e[i].body = None
    BY <2>2, <2>3 DEF Changed, Hashed
  <2>4. CASE \E i, j \in DOMAIN e : e[i].nth < e[j].nth /\ ~Bef(e, i, j)
    <3>1. PICK i, j \in DOMAIN e : e[i].nth < e[j].nth /\ ~Bef(e, i, j)  BY <2>4
    <3>2. i # j  BY <3>1, OrderOf
    <3>3. Bef(e, j, i)  BY <3>1, <3>2, OrderOf
    <3>4. Hashed(e, i) /\ Hashed(e, j)  BY <3>1 DEF Chain, Old, Hashed
    <3>5. Swapped(e, c, i, j)  BY <2>2, <3>1, <3>3, <3>4 DEF Swapped
    <3> QED BY <3>5
  <2> QED BY <2>1, <2>3, <2>4 DEF Right
<1>9. Answers(e, c)  BY <1>6 DEF Answers
<1> QED BY <1>4, <1>6, <1>7, <1>8, <1>9 DEF Verified

-----------------------------------------------------------------------------
(* The invariant *)

\* A step of one log call leaves the others alone.
Pcs == {"idle", "stamped", "locked", "read", "done", "failed"}
Moves(l, pc) ==
    /\ logs' \in [Logs -> LogType]
    /\ logs'[l].pc = pc
    /\ \A k \in Logs : k # l => logs'[k] = logs[k]

LEMMA GoMoves ==
  ASSUME logs \in [Logs -> LogType], NEW l \in Logs, NEW pc \in Pcs, LogGo(l, pc)
  PROVE  Moves(l, pc) /\ logs'[l].at = logs[l].at /\ logs'[l].prev = logs[l].prev
<1>1. logs' = [logs EXCEPT ![l].pc = pc]  BY DEF LogGo
<1>2. /\ [logs[l] EXCEPT !.pc = pc] \in LogType /\ [logs[l] EXCEPT !.pc = pc].pc = pc
      /\ [logs[l] EXCEPT !.pc = pc].at = logs[l].at
      /\ [logs[l] EXCEPT !.pc = pc].prev = logs[l].prev
  BY DEF LogType, Pcs
<1>3. logs' = [logs EXCEPT ![l] = [logs[l] EXCEPT !.pc = pc]]  BY <1>1
<1> QED BY <1>2, <1>3 DEF Moves

LEMMA ItemBody ==
  ASSUME NEW s \in Hash, NEW k \in 1..Len(s)
  PROVE  s[k].body \in Logs
<1> DEFINE R == [body : Logs, at : Nat]
<1>1. s \in Seq(R)  BY DEF Hash
<1>2. \A x \in R : x.body \in Logs  OBVIOUS
<1> HIDE DEF R
<1>3. s[k] \in R  BY <1>1
<1> QED BY <1>2, <1>3

\* A log call that is done stays so, and the entries its hash is in with it.
LEMMA WrittenStays ==
  ASSUME Types, Chain(entries), Written, NEW l \in Logs, NEW pc, Moves(l, pc),
         logs[l].pc = "done" => pc = "done",
         NEW i \in DOMAIN entries, entries[i].hash # None,
         NEW k \in 1..Len(entries[i].hash)
  PROVE  logs'[entries[i].hash[k].body].pc = "done"
<1>1. entries[i].hash \in Hash  BY RowFacts DEF Chain
<1>2. entries[i].hash[k].body \in Logs  BY <1>1, ItemBody
<1>3. logs[entries[i].hash[k].body].pc = "done"  BY DEF Written
<1> QED BY <1>2, <1>3 DEF Moves

LEMMA TipTyped ==
  ASSUME NEW e, Table(e), Rows(e)
  PROVE  /\ Tip(e, Size(e)) \in Hash
         /\ Tip(e, Size(e)) = Genesis \/ \E i \in DOMAIN e : Hashed(e, i) /\ Tip(e, Size(e)) = e[i].hash
<1>1. Size(e) \in Nat  BY FS_CardinalityType DEF Table, Size
<1>2. Genesis \in Hash  BY DEF Genesis, Hash
<1>3. CASE Size(e) = 0
  BY <1>2, <1>3 DEF Tip
<1>4. CASE Size(e) # 0
  <2>1. Nr(e, Size(e)) \in DOMAIN e  BY <1>1, <1>4, RowThere
  <2>2. e[Nr(e, Size(e))].hash \in Hash \cup {None}  BY <2>1, RowFacts
  <2> QED BY <1>2, <2>1, <2>2 DEF Tip, Hashed
<1> QED BY <1>3, <1>4

LEMMA InitInv == Init => Inv
<1> SUFFICES ASSUME Init  PROVE Inv  OBVIOUS
<1> DEFINE e == entries
           n == Legacy
<1>1. n \in Nat /\ Size(e) = n /\ IsFiniteSet(DOMAIN e) /\ DOMAIN e = 1..n
  <2>1. n \in Nat  BY ChainAssumption
  <2>2. DOMAIN e = 1..n  BY DEF Init
  <2>3. IsFiniteSet(1..n) /\ Cardinality(1..n) = IF 1 > n THEN 0 ELSE n - 1 + 1
    BY <2>1, FS_Interval
  <2> QED BY <2>1, <2>2, <2>3 DEF Size
<1>2. \A i \in DOMAIN e : /\ e[i].at = 0 /\ e[i].hash = None /\ e[i].nth = i
                          /\ e[i] \in RowSet
  <2>1. \A i \in 1..n : e[i] = [at |-> 0, body |-> None, prev |-> None, hash |-> None, nth |-> i]
    BY DEF Init
  <2>2. \A i \in 1..n : [at |-> 0, body |-> None, prev |-> None, hash |-> None, nth |-> i] \in RowSet
    BY <1>1 DEF RowSet
  <2> QED BY <1>1, <2>1, <2>2
<1>3. Table(e)
  <2>1. e = [i \in DOMAIN e |-> e[i]]  BY DEF Init
  <2> QED BY <1>1, <1>2, <2>1 DEF Table
<1>4. Chain(e)
  <2>1. Rows(e)  BY <1>1, <1>2 DEF Rows
  <2>2. Old(e)  BY <1>1, <1>2 DEF Old, Bef
  <2> QED BY <1>2, <1>3, <2>1, <2>2 DEF Chain, Ancestors, Linked
<1>5. \A l \in Logs : logs[l].pc = "idle"  BY DEF Init
<1>6. logs \in [Logs -> LogType]
  <2>1. [pc |-> "idle", at |-> None, prev |-> None] \in LogType  BY DEF LogType
  <2> QED BY <2>1 DEF Init
<1>7. NoCheck \in CheckType /\ NoCheck.pc = "idle"
  <2>1. Genesis \in Hash  BY DEF Genesis, Hash
  <2> QED BY <2>1 DEF NoCheck, CheckType
<1>8. Types  BY <1>3, <1>6, <1>7 DEF Init, Types
<1>9. Locked /\ Stamped  BY <1>5 DEF Locked, Stamped
<1>10. Written  BY <1>2 DEF Written
<1>11. Verified(e, check)
  BY <1>7 DEF Init, Verified, Walk, Evidence, Answers
<1> QED BY <1>4, <1>8, <1>9, <1>10, <1>11 DEF Inv

\* A log call moves between two steps that do not touch the table.
LEMMA LogStep ==
  ASSUME Inv, NEW l \in Logs, NEW pc, Moves(l, pc), pc # "done", logs[l].pc # "done",
         UNCHANGED <<now, entries, check, damage>>, lock' \in Logs \cup {None}, Locked',
         pc \in {"stamped", "locked", "read"} => logs'[l].at \in Nat \ {0},
         pc = "read" => logs'[l].prev = Tip(entries, Size(entries))
  PROVE  Inv'
<1>1. Types'  BY DEF Inv, Types, Moves
<1>2. Stamped'  BY DEF Inv, Stamped, Moves
<1>3. Written'  BY WrittenStays DEF Inv, Written
<1> QED BY <1>1, <1>2, <1>3 DEF Inv

\* The inserted row is the head's successor, and nothing was computed from it.
LEMMA InsertAdds ==
  ASSUME Inv, NEW l \in Logs, Insert(l)
  PROVE  \E x : /\ Added(entries, entries', x) /\ entries'[x] = NewRow(l)
                /\ Len(NewRow(l).hash) = Len(NewRow(l).prev) + 1
                /\ NewRow(l).prev = Tip(entries, Size(entries)) /\ NewRow(l).prev \in Hash
                /\ NewRow(l).hash[Len(NewRow(l).prev) + 1].body = l
                /\ \A k \in 1..Len(NewRow(l).prev) : NewRow(l).hash[k] = NewRow(l).prev[k]
<1> DEFINE e == entries
           r == NewRow(l)
<1>1. PICK x \in FreeIds :
        entries' = [i \in DOMAIN e \cup {x} |-> IF i = x THEN r ELSE e[i]]
  BY DEF Insert
<1>2. /\ Table(e) /\ Rows(e) /\ Size(e) \in Nat
      /\ x \in Nat /\ x \notin DOMAIN e
  <2>1. Table(e) /\ Rows(e)  BY DEF Inv, Chain
  <2>2. Cardinality(Logs) \in Nat /\ Legacy \in Nat
    BY ChainAssumption, FS_CardinalityType
  <2> QED BY <1>1, <2>1, <2>2, FS_CardinalityType DEF FreeIds, Ids, Size, Table
<1>3. /\ logs[l].pc = "read" /\ logs[l].at \in Nat \ {0}
      /\ logs[l].prev = Tip(e, Size(e)) /\ logs[l].prev \in Hash
  BY <1>2, TipTyped DEF Inv, Stamped, Insert, LogAt
<1>4. r = [at |-> logs[l].at, body |-> l, prev |-> logs[l].prev,
           hash |-> EntryHash(logs[l].prev, l, logs[l].at), nth |-> 1 + Size(e)]
  BY Reading DEF NewRow
<1>5. /\ EntryHash(logs[l].prev, l, logs[l].at) \in Hash
      /\ Len(EntryHash(logs[l].prev, l, logs[l].at)) = Len(logs[l].prev) + 1
      /\ Len(logs[l].prev) \in Nat
      /\ EntryHash(logs[l].prev, l, logs[l].at)[Len(logs[l].prev) + 1].body = l
      /\ \A k \in 1..Len(logs[l].prev) :
            EntryHash(logs[l].prev, l, logs[l].at)[k] = logs[l].prev[k]
  <2>1. PICK p \in Hash : p = logs[l].prev  BY <1>3
  <2>2. PICK t \in Nat : t = logs[l].at  BY <1>3
  <2>3. /\ EntryHash(p, l, t) \in Hash
        /\ Len(EntryHash(p, l, t)) = Len(p) + 1
        /\ Len(p) \in Nat
        /\ EntryHash(p, l, t)[Len(p) + 1].body = l
        /\ \A k \in 1..Len(p) : EntryHash(p, l, t)[k] = p[k]
    BY HashFacts
  <2> QED BY <2>1, <2>2, <2>3
<1>6. /\ r.at = logs[l].at /\ r.body = l /\ r.prev = logs[l].prev
      /\ r.hash = EntryHash(r.prev, l, r.at) /\ r.nth = Size(e) + 1
      /\ r.prev \in Hash /\ r.hash \in Hash /\ Len(r.prev) \in Nat
      /\ Len(r.hash) = Len(r.prev) + 1
      /\ r.hash[Len(r.prev) + 1].body = l
      /\ \A k \in 1..Len(r.prev) : r.hash[k] = r.prev[k]
  BY <1>2, <1>3, <1>4, <1>5
<1>7. r \in RowSet
  <2> HIDE DEF Hash
  <2>1. 1 + Size(e) \in Nat  BY <1>2
  <2> QED BY <1>3, <1>4, <1>5, <2>1 DEF RowSet
<1> HIDE DEF r
<1>8. Table(entries')
  <2>1. IsFiniteSet(DOMAIN e \cup {x})  BY <1>2, FS_AddElement DEF Table
  <2>2. DOMAIN entries' = DOMAIN e \cup {x}  BY <1>1
  <2>3. entries' \in [DOMAIN e \cup {x} -> RowSet]  BY <1>1, <1>2, <1>7 DEF Table
  <2> QED BY <1>2, <2>1, <2>2, <2>3 DEF Table
<1>9. Grown(e, entries', x) /\ entries'[x] = r  BY <1>1, <1>2, <1>8 DEF Grown
<1>10. Signed(r) /\ r.hash # None
  BY <1>3, <1>6, ChainAssumption DEF Signed
<1>11. ASSUME NEW i \in DOMAIN e, e[i].hash # None, Prefix(r.hash, e[i].prev)
       PROVE  FALSE
  <2>1. e[i] \in RowSet /\ Signed(e[i])  BY <1>2, <1>11, RowFacts
  <2>2. Prefix(r.hash, e[i].hash) /\ e[i].hash \in Hash  BY <1>6, <1>11, <2>1, SignedFacts
  <2>3. Len(r.prev) + 1 \in 1..Len(e[i].hash) /\ Len(r.prev) + 1 \in 1..Len(r.hash)
    BY <1>6, <2>2 DEF Prefix, Hash
  <2>4. e[i].hash[Len(r.prev) + 1].body = l  BY <1>6, <2>2, <2>3 DEF Prefix
  <2>5. logs[l].pc = "done"  BY <1>11, <2>3, <2>4 DEF Inv, Written
  <2> QED BY <1>3, <2>5
<1>12. Added(e, entries', x)  BY <1>3, <1>6, <1>9, <1>10, <1>11 DEF Added
<1> QED BY <1>3, <1>6, <1>9, <1>12 DEF r

LEMMA InsertStep ==
  ASSUME Inv, NEW l \in Logs, Insert(l)
  PROVE  Inv'
<1> DEFINE e == entries
           r == NewRow(l)
<1>1. PICK x : /\ Added(e, entries', x) /\ entries'[x] = r
               /\ Len(r.hash) = Len(r.prev) + 1
               /\ r.prev = Tip(e, Size(e)) /\ r.prev \in Hash
               /\ r.hash[Len(r.prev) + 1].body = l
               /\ \A k \in 1..Len(r.prev) : r.hash[k] = r.prev[k]
  BY InsertAdds
<1> HIDE DEF r
<1>2. /\ Table(e) /\ Rows(e) /\ Table(entries') /\ DOMAIN entries' = DOMAIN e \cup {x}
      /\ \A i \in DOMAIN e : entries'[i] = e[i]
  <2>1. Grown(e, entries', x)  BY <1>1 DEF Added
  <2>2. Table(e) /\ Rows(e)  BY DEF Inv, Chain
  <2> QED BY <2>1, <2>2 DEF Grown
<1>3. Chain(entries')  BY <1>1, ChainGrows DEF Inv
<1>4. Verified(entries', check')
  <2>1. check' = check /\ check \in CheckType  BY DEF Insert, Inv, Types
  <2> QED BY <1>1, <2>1, VerifiedGrows DEF Inv
<1>5. Moves(l, "done")  BY GoMoves DEF Insert, Inv, Types, Pcs
<1>6. logs[l].pc = "read" /\ lock' = None /\ UNCHANGED <<now, check, damage>>
  BY DEF Insert, LogAt
<1>7. Types'  BY <1>2, <1>5, <1>6 DEF Inv, Types, Moves
<1>8. \A k \in Logs : logs'[k].pc \notin {"locked", "read"}
  <2>1. TAKE k \in Logs
  <2>2. None \notin Logs  BY ChainAssumption
  <2>3. lock = l  BY <1>6 DEF Inv, Locked
  <2>4. k # l => logs[k].pc \notin {"locked", "read"}  BY <2>3 DEF Inv, Locked
  <2> QED BY <1>5, <2>4 DEF Moves
<1>9. Locked' /\ Stamped'
  <2>1. Locked'  BY <1>8 DEF Locked
  <2>2. Stamped'  BY <1>5, <1>8 DEF Inv, Stamped, Moves
  <2> QED BY <2>1, <2>2
<1>10. Written'
  <2> SUFFICES ASSUME NEW i \in DOMAIN entries', entries'[i].hash # None,
                      NEW k \in 1..Len(entries'[i].hash)
               PROVE  logs'[entries'[i].hash[k].body].pc = "done"
    BY DEF Written
  <2>1. ASSUME NEW j \in DOMAIN e, e[j].hash # None, NEW m \in 1..Len(e[j].hash)
        PROVE  logs'[e[j].hash[m].body].pc = "done"
    BY <1>5, <2>1, WrittenStays DEF Inv
  <2>2. CASE i \in DOMAIN e
    BY <1>2, <2>1, <2>2
  <2>3. CASE i = x
    <3>1. entries'[i] = r /\ Len(r.prev) \in Nat  BY <1>1, <2>3 DEF Hash
    <3>2. CASE k = Len(r.prev) + 1
      BY <1>1, <1>5, <3>1, <3>2 DEF Moves
    <3>3. CASE k \in 1..Len(r.prev)
      <4>1. r.hash[k] = r.prev[k]  BY <1>1, <3>3
      <4>2. r.prev # Genesis  BY <3>3 DEF Genesis
      <4>3. PICK j \in DOMAIN e : Hashed(e, j) /\ r.prev = e[j].hash
        BY <1>1, <1>2, <4>2, TipTyped
      <4>4. logs'[e[j].hash[k].body].pc = "done"  BY <2>1, <3>3, <4>3 DEF Hashed
      <4> QED BY <3>1, <4>1, <4>3, <4>4
    <3>4. k = Len(r.prev) + 1 \/ k \in 1..Len(r.prev)  BY <1>1, <3>1
    <3> QED BY <3>2, <3>3, <3>4
  <2> QED BY <1>2, <2>2, <2>3
<1> QED BY <1>3, <1>4, <1>7, <1>9, <1>10 DEF Inv

LEMMA ChangeStep == Inv /\ Change => Inv'
<1> SUFFICES ASSUME Inv, Change  PROVE Inv'  OBVIOUS
<1>1. PICK x \in DOMAIN entries : /\ entries[x].hash # None
                                  /\ entries' = [entries EXCEPT ![x].body = None]
  BY DEF Change
<1>2. Damaged(entries, entries', x)  BY <1>1 DEF Damaged, Hashed, Inv, Chain
<1>3. UNCHANGED <<now, logs, lock, check>> /\ damage' = damage + 1  BY DEF Change
<1>4. /\ Table(entries') /\ DOMAIN entries' = DOMAIN entries
      /\ Size(entries') = Size(entries)
      /\ \A i \in DOMAIN entries : entries'[i].hash = entries[i].hash
      /\ \A n \in 0..Size(entries) : Tip(entries', n) = Tip(entries, n)
  BY <1>2, DamageFacts
<1>5. Chain(entries')  BY <1>2, ChainDamaged DEF Inv
<1>6. Verified(entries', check')
  <2>1. check \in CheckType  BY DEF Inv, Types
  <2> QED BY <1>2, <1>3, <2>1, VerifiedDamaged DEF Inv
<1>7. Types'  BY <1>3, <1>4 DEF Inv, Types
<1>8. Tip(entries', Size(entries')) = Tip(entries, Size(entries))
  <2>1. Size(entries) \in 0..Size(entries)
    BY FS_CardinalityType DEF Inv, Chain, Table, Size
  <2> QED BY <1>4, <2>1
<1>9. Locked' /\ Stamped'  BY <1>3, <1>8 DEF Inv, Locked, Stamped
<1>10. Written'  BY <1>3, <1>4 DEF Inv, Written
<1> QED BY <1>5, <1>6, <1>7, <1>9, <1>10 DEF Inv

LEMMA LogCallStep ==
  ASSUME Inv, NEW l \in Logs, Stamp(l) \/ Lock(l) \/ ReadHead(l) \/ LogFails(l)
  PROVE  Inv'
<1>1. logs \in [Logs -> LogType] /\ lock \in Logs \cup {None} /\ now \in Nat \ {0}
  BY DEF Inv, Types
<1>2. /\ logs[l].pc \in {"stamped", "locked", "read"} => logs[l].at \in Nat \ {0}
      /\ \A k \in Logs : logs[k].pc \in {"locked", "read"} => lock = k
  BY DEF Inv, Stamped, Locked
<1>3. CASE Stamp(l)
  <2>1. /\ logs' = [logs EXCEPT ![l].pc = "stamped", ![l].at = now] /\ logs[l].pc = "idle"
        /\ UNCHANGED <<now, entries, lock, check, damage>>
    BY <1>3 DEF Stamp, LogAt
  <2>2. PICK x : x = [logs[l] EXCEPT !.pc = "stamped", !.at = now]  OBVIOUS
  <2>3. x \in LogType /\ x.pc = "stamped" /\ x.at = now  BY <1>1, <2>2 DEF LogType
  <2>4. logs' = [logs EXCEPT ![l] = x]  BY <2>1, <2>2
  <2>5. Moves(l, "stamped") /\ logs'[l].at = now  BY <1>1, <2>3, <2>4 DEF Moves
  <2>6. Locked'  BY <1>2, <2>1, <2>5 DEF Locked, Moves
  <2> QED BY <1>1, <2>1, <2>5, <2>6, LogStep
<1>4. CASE Lock(l)
  <2>1. /\ logs[l].pc = "stamped" /\ lock = None /\ lock' = l
        /\ UNCHANGED <<now, entries, check, damage>>
        /\ LogGo(l, "locked")
    BY <1>4 DEF Lock, LogAt
  <2>2. Moves(l, "locked") /\ logs'[l].at = logs[l].at
    BY <1>1, <2>1, GoMoves DEF Pcs
  <2>3. \A k \in Logs : logs[k].pc \notin {"locked", "read"}
    BY <1>2, <2>1, ChainAssumption
  <2>4. Locked'  BY <2>1, <2>2, <2>3 DEF Locked, Moves
  <2> QED BY <1>1, <1>2, <2>1, <2>2, <2>4, LogStep
<1>5. CASE ReadHead(l)
  <2>1. /\ logs' = [logs EXCEPT ![l].pc = "read", ![l].prev = HeadHash] /\ logs[l].pc = "locked"
        /\ UNCHANGED <<now, entries, lock, check, damage>>
    BY <1>5 DEF ReadHead, LogAt
  <2>2. PICK h : h = Tip(entries, Size(entries))  OBVIOUS
  <2>3. h \in Hash /\ h = HeadHash  BY <2>2, Reading, TipTyped DEF Inv, Chain
  <2>4. PICK x : x = [logs[l] EXCEPT !.pc = "read", !.prev = h]  OBVIOUS
  <2>5. x \in LogType /\ x.pc = "read" /\ x.prev = h /\ x.at = logs[l].at
    BY <1>1, <2>3, <2>4 DEF LogType
  <2>6. logs' = [logs EXCEPT ![l] = x]  BY <2>1, <2>3, <2>4
  <2>7. Moves(l, "read") /\ logs'[l].at = logs[l].at /\ logs'[l].prev = h
    BY <1>1, <2>5, <2>6 DEF Moves
  <2>8. Locked'  BY <1>2, <2>1, <2>7 DEF Locked, Moves
  <2> QED BY <1>1, <1>2, <2>1, <2>2, <2>7, <2>8, LogStep
<1>6. CASE LogFails(l)
  <2>1. /\ logs[l].pc \in {"stamped", "locked", "read"}
        /\ lock' = IF lock = l THEN None ELSE lock
        /\ UNCHANGED <<now, entries, check, damage>>
        /\ LogGo(l, "failed")
    BY <1>6 DEF LogFails
  <2>2. Moves(l, "failed")  BY <1>1, <2>1, GoMoves DEF Pcs
  <2>3. Locked'  BY <1>2, <2>1, <2>2 DEF Locked, Moves
  <2> QED BY <1>1, <2>1, <2>2, <2>3, LogStep
<1> QED BY <1>3, <1>4, <1>5, <1>6

LEMMA NextInv == Inv /\ [Next]_vars => Inv'
<1> SUFFICES ASSUME Inv, [Next]_vars  PROVE Inv'  OBVIOUS
<1>1. CASE UNCHANGED vars
  BY <1>1 DEF vars, Inv, Types, Locked, Stamped, Written
<1>2. ASSUME NEW l \in Logs, Stamp(l) \/ Lock(l) \/ ReadHead(l) \/ Insert(l) \/ LogFails(l)
      PROVE  Inv'
  BY <1>2, LogCallStep, InsertStep
<1>3. CASE Change
  BY <1>3, ChangeStep
<1>4. CASE CheckStart \/ CheckPage
  <2>1. UNCHANGED <<now, entries, logs, lock, damage>>
    BY <1>4 DEF CheckStart, CheckPage, Checking
  <2>2. check' \in CheckType /\ Verified(entries, check')
    BY <1>4, VerifiedStart, VerifiedPage DEF Inv, Chain, Types
  <2>3. Types' /\ Locked' /\ Stamped' /\ Written'
    BY <2>1, <2>2 DEF Inv, Types, Locked, Stamped, Written
  <2> QED BY <2>1, <2>2, <2>3 DEF Inv
<1>5. CASE Tick
  BY <1>5 DEF Tick, Inv, Types, Locked, Stamped, Written
<1> QED BY <1>1, <1>2, <1>3, <1>4, <1>5 DEF Next

\* The whole argument, for the theorems below.
LEMMA Invariance == Spec => []Inv
<1> QED BY InitInv, NextInv, PTL DEF Spec

\* Every variable keeps its type: the rows form a finite table, and every hash
\* is a list of entries (DrizzleAuditLogger.log and verifyAuditChain).
THEOREM TypeCorrect == Spec => []Types
<1>1. Inv => Types  BY DEF Inv
<1> QED BY <1>1, Invariance, PTL

\* verifyAuditChain: a broken chain is reported only if a row was changed or
\* two rows were committed out of the order of their times, however many log
\* calls overlap with the verification, and between whichever of its pages.
THEOREM NoFalseAlarms == Spec => []NoFalseAlarm
<1>1. Inv => NoFalseAlarm
  BY Reading DEF Inv, Verified, Answers, NoFalseAlarm
<1> QED BY <1>1, Invariance, PTL

\* verifyAuditChain: an ok says that nothing was changed or out of order when
\* the verification began, and that it saw every row there was then.
THEOREM NoFalseAssurance == Spec => []NoFalseOk
<1>1. Inv => NoFalseOk
  BY DEF Inv, Verified, Answers, NoFalseOk
<1> QED BY <1>1, Invariance, PTL
=============================================================================
