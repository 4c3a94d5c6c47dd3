--------------------------- MODULE AccountsProofs ---------------------------
(***************************************************************************)
(* Machine-checked proofs about Accounts and the two modules it is built   *)
(* from, PublicRateLimit and SchemaMigration: for any number of requests,  *)
(* browsers, subjects, workspaces, keys, columns and limits.               *)
(***************************************************************************)
EXTENDS Accounts, FiniteSetTheorems, SequenceTheorems, TLAPS

(***************************************************************************)
(* SchemaMigration.  An instance that has reached a column left every      *)
(* earlier one behind it in the database.                                  *)
(***************************************************************************)
SchemaInv ==
  /\ columns \subseteq 1 .. Columns
  /\ setup \in [Instances -> 0 .. Columns + 1]
  /\ \A i \in Instances : setup[i] # 0 => tables /\ 1 .. setup[i] - 1 \subseteq columns

LEMMA SchemaInvInit == SchemaInit => SchemaInv
  BY ColumnsAssumption DEF SchemaInit, SchemaInv

LEMMA SchemaInvNext ==
  ASSUME SchemaInv, NEW i \in Instances,
         CreateTables(i) \/ AddColumn(i) \/ ColumnFails(i)
  PROVE  SchemaInv'
<1> USE ColumnsAssumption DEF SchemaInv
<1>1. CASE CreateTables(i)
  BY <1>1 DEF CreateTables
<1>2. CASE AddColumn(i)
  <2>1. /\ setup[i] \in 1 .. Columns /\ setup[i] # 0 /\ tables' = tables
        /\ columns' = columns \cup {setup[i]}
        /\ setup' = [setup EXCEPT ![i] = setup[i] + 1]
    BY <1>2 DEF AddColumn
  <2>2. columns' \subseteq 1 .. Columns /\ setup' \in [Instances -> 0 .. Columns + 1]
    <3>1. columns \subseteq 1 .. Columns /\ setup \in [Instances -> 0 .. Columns + 1]
      OBVIOUS
    <3>2. setup[i] + 1 \in 0 .. Columns + 1
      BY <2>1
    <3>3. setup' \in [Instances -> 0 .. Columns + 1]
      BY <2>1, <3>1, <3>2
    <3>4. QED
      BY <2>1, <3>1, <3>3
  <2>3. \A j \in Instances \ {i} : setup'[j] = setup[j]
    BY <2>1
  <2>4. setup'[i] = setup[i] + 1 /\ 1 .. setup[i] \subseteq columns'
    <3>1. 1 .. setup[i] = (1 .. setup[i] - 1) \cup {setup[i]}
      BY <2>1
    <3>2. QED
      BY <2>1, <3>1
  <2>5. ASSUME NEW j \in Instances, setup'[j] # 0
        PROVE  tables' /\ 1 .. setup'[j] - 1 \subseteq columns'
    <3>1. CASE j = i
      <4>1. setup'[j] - 1 = setup[i]
        BY <2>1, <2>4, <3>1
      <4>2. QED
        BY <2>1, <2>4, <4>1
    <3>2. CASE j # i
      BY <2>1, <2>3, <2>5, <3>2
    <3>3. QED
      BY <3>1, <3>2
  <2>6. QED
    BY <2>2, <2>5
<1>3. CASE ColumnFails(i)
  BY <1>3 DEF ColumnFails
<1>4. QED
  BY <1>1, <1>2, <1>3

(***************************************************************************)
(* PublicRateLimit.  Neither count is inductive: between its second count  *)
(* and its admission a request of one bucket sees others add rows.  What   *)
(* does not change is the rank of its own row among the bucket's, which    *)
(* the count has bounded: rows are added behind it, and leave before it.   *)
(***************************************************************************)
Rank(i) == {j \in DOMAIN ledger : ledger[j].bucket = ledger[i].bucket /\ j <= i}
AllAdmitted == {i \in DOMAIN ledger : ledger[i].admitted}

\* Its row has passed the second count of its bucket.
Counted(i) ==
  \/ ledger[i].admitted
  \/ i \in OwnRow(ledger[i].by) /\ limiter[ledger[i].by].at = "recountAll"

LimitType ==
  /\ ledger \in Seq(Rows)
  /\ limiter \in [Requests -> [at : Passed, bucket : Buckets]]

OwnInv ==
  \A r \in Requests : limiter[r].at \in {"recount", "recountAll"} =>
    \A i \in OwnRow(r) : ledger[i].bucket = limiter[r].bucket

RankInv == \A i \in DOMAIN ledger : Counted(i) => Cardinality(Rank(i)) <= Limit

GlobalInv == Cardinality(AllAdmitted) <= GlobalLimit

\* The rows admitted in a bucket have a last one.
LastInv ==
  \A b \in Buckets : Admitted(b) = {} \/ \E m \in Admitted(b) : \A i \in Admitted(b) : i <= m

LimitInv == LimitType /\ OwnInv /\ RankInv /\ GlobalInv /\ LastInv

LEMMA LimitInvInit == LimitInit => LimitInv
<1> SUFFICES ASSUME LimitInit PROVE LimitInv
  OBVIOUS
<1>1. LimitType
  <2>1. (CHOOSE b \in Buckets : TRUE) \in Buckets
    BY LimitAssumption
  <2>2. QED
    BY <2>1 DEF LimitInit, LimitType, Idle, Passed
<1>2. DOMAIN ledger = {}
  BY DEF LimitInit
<1>3. OwnInv /\ RankInv /\ LastInv
  BY <1>2 DEF OwnInv, OwnRow, RankInv, LastInv, Admitted, RowsOf
<1>4. GlobalInv
  BY <1>2, FS_EmptySet, LimitAssumption DEF GlobalInv, AllAdmitted
<1>5. QED
  BY <1>1, <1>3, <1>4 DEF LimitInv

LEMMA UpTo ==
  ASSUME NEW n \in Nat
  PROVE  IsFiniteSet(1 .. n) /\ Cardinality(1 .. n) = n
<1>1. 1 \in Int /\ n \in Int
  OBVIOUS
<1>2. IsFiniteSet(1 .. n) /\ Cardinality(1 .. n) = IF 1 > n THEN 0 ELSE n - 1 + 1
  BY <1>1, FS_Interval
<1>3. QED
  BY <1>2

\* The rows of a window, and any of them, are finitely many.
LEMMA RowsFinite ==
  ASSUME LimitType
  PROVE  /\ DOMAIN ledger = 1 .. Len(ledger)
         /\ Len(ledger) \in Nat
         /\ \A i \in DOMAIN ledger :
              ledger[i] \in Rows /\ ledger[i].by \in Requests /\ ledger[i].bucket \in Buckets
         /\ \A T \in SUBSET DOMAIN ledger :
              IsFiniteSet(T) /\ Cardinality(T) \in Nat /\ Cardinality(T) <= Len(ledger)
<1>1. DOMAIN ledger = 1 .. Len(ledger) /\ Len(ledger) \in Nat
  BY LenProperties DEF LimitType
<1>2. IsFiniteSet(1 .. Len(ledger)) /\ Cardinality(1 .. Len(ledger)) = Len(ledger)
  BY <1>1, UpTo
<1>3. ASSUME NEW T \in SUBSET DOMAIN ledger
      PROVE  IsFiniteSet(T) /\ Cardinality(T) \in Nat /\ Cardinality(T) <= Len(ledger)
  <2>1. T \in SUBSET (1 .. Len(ledger))
    BY <1>1
  <2>2. IsFiniteSet(T) /\ Cardinality(T) <= Cardinality(1 .. Len(ledger))
    BY <1>2, <2>1, FS_Subset
  <2>3. QED
    BY <1>2, <2>2, FS_CardinalityType
<1>4. \A i \in DOMAIN ledger : ledger[i] \in Rows
  BY <1>1, ElementOfSeq DEF LimitType
<1>5. QED
  BY <1>1, <1>3, <1>4 DEF Rows

\* A step that leaves the ledger alone and lets no row pass the second count.
LEMMA WaitKeepsLimit ==
  ASSUME LimitInv, UNCHANGED ledger, LimitType',
         \A r \in Requests :
           \/ limiter'[r] = limiter[r]
           \/ limiter'[r].at \notin {"recount", "recountAll"}
  PROVE  LimitInv'
<1> USE DEF LimitInv
<1>1. \A r \in Requests : OwnRow(r)' = OwnRow(r)
  BY DEF OwnRow
<1>2. OwnInv'
  BY <1>1 DEF OwnInv
<1>3. \A i \in DOMAIN ledger : ledger[i].by \in Requests
  BY RowsFinite
<1>4. ASSUME NEW i \in DOMAIN ledger, Counted(i)'
      PROVE  Counted(i)
  <2>1. ledger[i].by \in Requests /\ ledger' = ledger
    BY <1>3
  <2>2. CASE ledger[i].admitted
    BY <2>2 DEF Counted
  <2>3. CASE ~ledger[i].admitted
    <3>1. i \in OwnRow(ledger[i].by)' /\ limiter'[ledger[i].by].at = "recountAll"
      BY <1>4, <2>1, <2>3 DEF Counted
    <3>2. QED
      BY <1>1, <2>1, <3>1 DEF Counted
  <2>4. QED
    BY <2>2, <2>3
<1>5. RankInv'
  <2>1. \A i \in DOMAIN ledger : Rank(i)' = Rank(i)
    BY DEF Rank
  <2>2. QED
    BY <1>4, <2>1 DEF RankInv
<1>6. GlobalInv' /\ LastInv'
  BY DEF GlobalInv, AllAdmitted, LastInv, Admitted, RowsOf
<1>7. QED
  BY <1>2, <1>5, <1>6

\* The request's row is added last: it is its own, and no row's rank changes.
LEMMA AddRowKeepsLimit ==
  ASSUME LimitInv, NEW r \in Requests, AddRow(r)
  PROVE  LimitInv'
<1> DEFINE n == Len(ledger)
           row == [bucket |-> limiter[r].bucket, by |-> r, admitted |-> FALSE]
<1>1. LimitType /\ OwnInv /\ RankInv /\ GlobalInv /\ LastInv
  BY DEF LimitInv
<1>2. /\ limiter[r].at = "insert" /\ limiter[r].bucket \in Buckets
      /\ limiter' = [limiter EXCEPT ![r].at = "recount"]
      /\ ledger' = Append(ledger, row)
      /\ ledger \in Seq(Rows)
  BY <1>1 DEF AddRow, Move, LimitType
<1>3. row \in Rows /\ row.by = r /\ row.bucket = limiter[r].bucket /\ ~row.admitted
  BY <1>2 DEF Rows
<1> HIDE DEF row
<1>4. /\ n \in Nat /\ DOMAIN ledger = 1 .. n /\ DOMAIN ledger' = 1 .. n + 1
      /\ ledger' \in Seq(Rows)
      /\ \A i \in 1 .. n : ledger'[i] = ledger[i]
      /\ ledger'[n + 1] = row
  <2>1. n \in Nat /\ DOMAIN ledger = 1 .. n
    BY <1>2, LenProperties
  <2>2. /\ ledger' \in Seq(Rows) /\ Len(ledger') = n + 1
        /\ \A i \in 1 .. n : ledger'[i] = ledger[i]
        /\ ledger'[n + 1] = row
    BY <1>2, <1>3, AppendProperties
  <2>3. DOMAIN ledger' = 1 .. n + 1
    BY <2>2, LenProperties
  <2>4. QED
    BY <2>1, <2>2, <2>3
<1>5. \A i \in 1 .. n : ledger[i] \in Rows /\ ledger[i].by \in Requests
  BY <1>1, <1>4, RowsFinite
<1> HIDE DEF n
<1>6. /\ limiter'[r].at = "recount" /\ limiter'[r].bucket = limiter[r].bucket
      /\ \A q \in Requests : q # r => limiter'[q] = limiter[q]
      /\ LimitType'
  BY <1>1, <1>2, <1>4 DEF LimitType, Passed
<1>7. (1 .. n + 1) = (1 .. n) \cup {n + 1} /\ n + 1 \notin 1 .. n
  BY <1>4
<1>8. \A q \in Requests : q # r => OwnRow(q)' = OwnRow(q)
  BY <1>3, <1>4, <1>7 DEF OwnRow
<1>9. OwnRow(r)' \subseteq {n + 1}
  <2>1. SUFFICES ASSUME NEW i \in OwnRow(r)' PROVE i = n + 1
    OBVIOUS
  <2>2. i \in 1 .. n + 1 /\ n + 1 <= i
    BY <1>3, <1>4, <1>7 DEF OwnRow
  <2>3. QED
    BY <1>4, <2>2
<1>10. OwnInv'
  <2>1. SUFFICES ASSUME NEW q \in Requests, limiter'[q].at \in {"recount", "recountAll"},
                        NEW i \in OwnRow(q)'
                 PROVE  ledger'[i].bucket = limiter'[q].bucket
    BY DEF OwnInv
  <2>2. CASE q = r
    BY <1>3, <1>4, <1>6, <1>9, <2>2
  <2>3. CASE q # r
    <3>1. i \in OwnRow(q) /\ limiter'[q] = limiter[q]
      BY <1>6, <1>8, <2>3
    <3>2. i \in 1 .. n
      BY <1>4, <3>1 DEF OwnRow
    <3>3. QED
      BY <1>1, <1>4, <2>1, <3>1, <3>2 DEF OwnInv
  <2>4. QED
    BY <2>2, <2>3
<1>11. ASSUME NEW i \in 1 .. n + 1, Counted(i)'
       PROVE  i \in 1 .. n /\ Counted(i)
  <2>1. i # n + 1
    BY <1>3, <1>4, <1>6, <1>11 DEF Counted
  <2>2. i \in 1 .. n
    BY <1>7, <2>1
  <2>3. ledger'[i] = ledger[i] /\ ledger[i].by \in Requests
    BY <1>4, <1>5, <2>2
  <2>4. CASE ledger[i].admitted
    BY <2>2, <2>4 DEF Counted
  <2>5. CASE ~ledger[i].admitted
    <3>1. i \in OwnRow(ledger[i].by)' /\ limiter'[ledger[i].by].at = "recountAll"
      BY <1>11, <2>3, <2>5 DEF Counted
    <3>2. ledger[i].by # r
      BY <1>6, <3>1
    <3>3. QED
      BY <1>6, <1>8, <2>2, <2>3, <3>1, <3>2 DEF Counted
  <2>6. QED
    BY <2>4, <2>5
<1>12. \A i \in 1 .. n : Rank(i)' = Rank(i)
  <2>1. SUFFICES ASSUME NEW i \in 1 .. n PROVE Rank(i)' = Rank(i)
    OBVIOUS
  <2>2. \A j \in 1 .. n + 1 : j <= i => j \in 1 .. n
    BY <1>4
  <2>3. QED
    BY <1>4, <1>7, <2>2 DEF Rank
<1>13. RankInv'
  BY <1>1, <1>4, <1>11, <1>12 DEF RankInv
<1>14. /\ AllAdmitted' = AllAdmitted
       /\ \A b \in Buckets : Admitted(b)' = Admitted(b)
  BY <1>3, <1>4, <1>7 DEF AllAdmitted, Admitted, RowsOf
<1>15. GlobalInv' /\ LastInv'
  BY <1>1, <1>14 DEF GlobalInv, LastInv
<1>16. QED
  BY <1>6, <1>10, <1>13, <1>15 DEF LimitInv

\* A set of positions moves to the next ones in a set no smaller.
LEMMA Shifted ==
  ASSUME NEW S \in SUBSET Nat, NEW T, IsFiniteSet(T), \A j \in S : j + 1 \in T
  PROVE  Cardinality(S) <= Cardinality(T)
<1> DEFINE f == [j \in S |-> j + 1]
<1>1. f \in Injection(S, T)
  <2>1. f \in [S -> T]
    OBVIOUS
  <2>2. \A a, b \in S : f[a] = f[b] => a = b
    OBVIOUS
  <2>3. QED
    BY <2>1, <2>2 DEF Injection, IsInjective
<1> HIDE DEF f
<1>2. QED
  BY <1>1, FS_Injection

\* The second count of its bucket is also a bound on the rank of its own row.
LEMMA RecountKeepsLimit ==
  ASSUME LimitInv, NEW r \in Requests, Recount(r)
  PROVE  LimitInv'
<1>1. LimitType /\ OwnInv /\ RankInv /\ GlobalInv /\ LastInv
  BY DEF LimitInv
<1>2. /\ limiter[r].at = "recount" /\ limiter[r].bucket \in Buckets
      /\ limiter'[r].at \in {"refused", "recountAll"}
      /\ limiter'[r].bucket = limiter[r].bucket
      /\ limiter'[r].at = "recountAll" => ~(Cardinality(RowsOf(limiter[r].bucket)) > Limit)
      /\ \A q \in Requests \ {r} : limiter'[q] = limiter[q]
      /\ ledger' = ledger /\ LimitType'
  BY <1>1 DEF Recount, Move, LimitType, Passed
<1>3. CASE limiter'[r].at = "refused"
  BY <1>2, <1>3, WaitKeepsLimit
<1>4. CASE limiter'[r].at = "recountAll"
  <2>1. \A q \in Requests : OwnRow(q)' = OwnRow(q)
    BY <1>2 DEF OwnRow
  <2>2. OwnInv'
    <3>1. \A q \in Requests : /\ limiter'[q].bucket = limiter[q].bucket
                              /\ limiter'[q].at \in {"recount", "recountAll"} =>
                                   limiter[q].at \in {"recount", "recountAll"}
      BY <1>2
    <3>2. QED
      BY <1>1, <1>2, <2>1, <3>1 DEF OwnInv
  <2>3. ASSUME NEW i \in OwnRow(r)
        PROVE  Cardinality(Rank(i)) <= Limit
    <3>1. ledger[i].bucket = limiter[r].bucket
      BY <1>1, <1>2 DEF OwnInv
    <3>2. Rank(i) \subseteq RowsOf(limiter[r].bucket) /\ RowsOf(limiter[r].bucket) \subseteq DOMAIN ledger
      BY <3>1 DEF Rank, RowsOf
    <3>3. /\ IsFiniteSet(RowsOf(limiter[r].bucket))
          /\ Cardinality(RowsOf(limiter[r].bucket)) \in Nat
          /\ Cardinality(Rank(i)) \in Nat
      BY <1>1, <3>2, RowsFinite
    <3>4. Cardinality(Rank(i)) <= Cardinality(RowsOf(limiter[r].bucket))
      BY <3>2, <3>3, FS_Subset
    <3>5. QED
      BY <1>2, <1>4, <3>3, <3>4, LimitAssumption
  <2>4. ASSUME NEW i \in DOMAIN ledger, Counted(i)'
        PROVE  Cardinality(Rank(i)) <= Limit
    <3>1. ledger[i].by \in Requests /\ ledger' = ledger
      BY <1>1, <1>2, RowsFinite
    <3>2. CASE ledger[i].admitted
      BY <1>1, <3>2 DEF RankInv, Counted
    <3>3. CASE ~ledger[i].admitted
      <4>1. i \in OwnRow(ledger[i].by)' /\ limiter'[ledger[i].by].at = "recountAll"
        BY <2>4, <3>1, <3>3 DEF Counted
      <4>2. i \in OwnRow(ledger[i].by)
        BY <2>1, <3>1, <4>1
      <4>3. CASE ledger[i].by = r
        BY <2>3, <4>2, <4>3
      <4>4. CASE ledger[i].by # r
        <5>1. Counted(i)
          BY <1>2, <3>1, <4>1, <4>2, <4>4 DEF Counted
        <5>2. QED
          BY <1>1, <5>1 DEF RankInv
      <4>5. QED
        BY <4>3, <4>4
    <3>4. QED
      BY <3>2, <3>3
  <2>5. \A i \in DOMAIN ledger : Rank(i)' = Rank(i)
    BY <1>2 DEF Rank
  <2>6. RankInv'
    BY <1>2, <2>4, <2>5 DEF RankInv
  <2>7. GlobalInv' /\ LastInv'
    BY <1>1, <1>2 DEF GlobalInv, AllAdmitted, LastInv, Admitted, RowsOf
  <2>8. QED
    BY <1>2, <2>2, <2>6, <2>7 DEF LimitInv
<1>5. QED
  BY <1>2, <1>3, <1>4

\* A request that has added its row has one row that is its last.
LEMMA OwnRowIsOne ==
  ASSUME LimitType, NEW r, NEW i \in OwnRow(r), NEW j \in OwnRow(r)
  PROVE  i = j
<1>1. i \in 1 .. Len(ledger) /\ j \in 1 .. Len(ledger) /\ Len(ledger) \in Nat
  BY RowsFinite DEF OwnRow
<1>2. i <= j /\ j <= i
  BY DEF OwnRow
<1>3. QED
  BY <1>1, <1>2

\* The request is admitted while the whole window is within the deployment's
\* limit; its own row had passed the count of its bucket.
LEMMA RecountAllKeepsLimit ==
  ASSUME LimitInv, NEW r \in Requests, RecountAll(r)
  PROVE  LimitInv'
<1>1. LimitType /\ OwnInv /\ RankInv /\ GlobalInv /\ LastInv
  BY DEF LimitInv
<1>2. CASE Len(ledger) > GlobalLimit
  <2>1. /\ limiter'[r].at = "refused" /\ ledger' = ledger /\ LimitType'
        /\ \A q \in Requests \ {r} : limiter'[q] = limiter[q]
    BY <1>1, <1>2 DEF RecountAll, Move, LimitType, Passed
  <2>2. QED
    BY <2>1, WaitKeepsLimit
<1>3. CASE ~(Len(ledger) > GlobalLimit)
  <2> DEFINE n == Len(ledger)
  <2>1. /\ limiter[r].at = "recountAll"
        /\ limiter'[r].at = "admitted"
        /\ limiter' \in [Requests -> [at : Passed, bucket : Buckets]]
        /\ \A q \in Requests \ {r} : limiter'[q] = limiter[q]
        /\ ledger' = [i \in DOMAIN ledger |->
              IF i \in OwnRow(r) THEN [ledger[i] EXCEPT !.admitted = TRUE] ELSE ledger[i]]
    BY <1>1, <1>3 DEF RecountAll, Move, LimitType, Passed
  <2>2. /\ DOMAIN ledger = 1 .. n /\ n \in Nat
        /\ \A i \in 1 .. n : /\ ledger[i] \in Rows
                             /\ ledger[i].by \in Requests
    BY <1>1, RowsFinite
  <2> HIDE DEF n
  <2>3. DOMAIN ledger' = 1 .. n
    BY <2>1, <2>2
  <2>4. ASSUME NEW i \in 1 .. n
        PROVE  /\ ledger'[i] \in Rows
               /\ ledger'[i].bucket = ledger[i].bucket
               /\ ledger'[i].by = ledger[i].by
               /\ ledger'[i].admitted <=> ledger[i].admitted \/ i \in OwnRow(r)
    <3>1. ledger[i] \in Rows
      BY <2>2
    <3>2. CASE i \in OwnRow(r)
      <4>1. ledger'[i] = [ledger[i] EXCEPT !.admitted = TRUE]
        BY <2>1, <2>2, <3>2
      <4>2. QED
        BY <3>1, <3>2, <4>1 DEF Rows
    <3>3. CASE i \notin OwnRow(r)
      BY <2>1, <2>2, <3>1, <3>3
    <3>4. QED
      BY <3>2, <3>3
  <2>5. LimitType'
    <3>1. ledger' \in [1 .. n -> Rows]
      BY <2>1, <2>2, <2>3, <2>4
    <3>2. ledger' \in Seq(Rows)
      BY <2>2, <3>1, SeqDef
    <3>3. QED
      BY <2>1, <3>2 DEF LimitType
  <2>6. \A q \in Requests : OwnRow(q)' = OwnRow(q)
    BY <2>2, <2>3, <2>4 DEF OwnRow
  <2>7. OwnInv'
    <3>1. SUFFICES ASSUME NEW q \in Requests, limiter'[q].at \in {"recount", "recountAll"},
                          NEW i \in OwnRow(q)
                   PROVE  ledger'[i].bucket = limiter'[q].bucket
      BY <2>6 DEF OwnInv
    <3>2. limiter'[q] = limiter[q] /\ i \in 1 .. n
      BY <2>1, <2>2, <3>1 DEF OwnRow
    <3>3. QED
      BY <1>1, <2>4, <3>1, <3>2 DEF OwnInv
  <2>8. ASSUME NEW i \in 1 .. n, Counted(i)'
        PROVE  Counted(i)
    <3>1. ledger'[i].by = ledger[i].by /\ ledger[i].by \in Requests
      BY <2>2, <2>4
    <3>2. CASE ledger[i].admitted
      BY <3>2 DEF Counted
    <3>3. CASE i \in OwnRow(r)
      BY <2>1, <3>3 DEF Counted, OwnRow
    <3>4. CASE i \in OwnRow(ledger[i].by)' /\ limiter'[ledger[i].by].at = "recountAll"
      <4>1. ledger[i].by # r
        BY <2>1, <3>4
      <4>2. QED
        BY <2>1, <2>6, <3>1, <3>4, <4>1 DEF Counted
    <3>5. ledger'[i].admitted \/ (i \in OwnRow(ledger[i].by)' /\ limiter'[ledger[i].by].at = "recountAll")
      BY <2>8, <3>1 DEF Counted
    <3>6. QED
      BY <2>4, <3>2, <3>3, <3>4, <3>5
  <2>9. \A i \in 1 .. n : Rank(i)' = Rank(i)
    BY <2>2, <2>3, <2>4 DEF Rank
  <2>10. RankInv'
    BY <1>1, <2>2, <2>3, <2>8, <2>9 DEF RankInv
  <2>11. GlobalInv'
    <3>1. AllAdmitted' \in SUBSET DOMAIN ledger
      BY <2>2, <2>3 DEF AllAdmitted
    <3>2. Cardinality(AllAdmitted') <= Len(ledger) /\ Len(ledger) \in Nat
          /\ Cardinality(AllAdmitted') \in Nat
      BY <1>1, <3>1, RowsFinite
    <3>3. QED
      BY <1>3, <3>2, LimitAssumption DEF GlobalInv
  <2>12. ASSUME NEW b \in Buckets, Admitted(b)' # {}
         PROVE  \E m \in Admitted(b)' : \A i \in Admitted(b)' : i <= m
    <3>1. /\ Admitted(b)' \subseteq Admitted(b) \cup OwnRow(r)
          /\ Admitted(b) \subseteq Admitted(b)'
          /\ Admitted(b)' \subseteq 1 .. n
      BY <2>2, <2>3, <2>4 DEF Admitted, RowsOf
    <3>2. CASE Admitted(b)' = Admitted(b)
      BY <1>1, <2>12, <3>2 DEF LastInv
    <3>3. CASE Admitted(b)' # Admitted(b)
      <4>1. PICK k \in Admitted(b)' : k \in OwnRow(r)
        BY <3>1, <3>3
      <4>2. \A i \in Admitted(b)' : i \in Admitted(b) \/ i = k
        BY <1>1, <3>1, <4>1, OwnRowIsOne
      <4>3. CASE Admitted(b) = {}
        BY <2>2, <3>1, <4>1, <4>2, <4>3
      <4>4. CASE Admitted(b) # {}
        <5>1. PICK m \in Admitted(b) : \A i \in Admitted(b) : i <= m
          BY <1>1, <4>4 DEF LastInv
        <5>2. k \in Nat /\ m \in Nat /\ m \in Admitted(b)' /\ \A i \in Admitted(b)' : i \in Nat
          BY <2>2, <3>1, <5>1
        <5>3. CASE k <= m
          BY <4>2, <5>1, <5>2, <5>3
        <5>4. CASE m <= k
          BY <3>1, <4>1, <4>2, <5>1, <5>2, <5>4
        <5>5. QED
          BY <5>2, <5>3, <5>4
      <4>5. QED
        BY <4>3, <4>4
    <3>4. QED
      BY <3>2, <3>3
  <2>13. LastInv'
    BY <2>12 DEF LastInv
  <2>14. QED
    BY <2>5, <2>7, <2>10, <2>11, <2>13 DEF LimitInv
<1>4. QED
  BY <1>2, <1>3

\* The oldest row leaves: every other row's rank can only fall.
LEMMA SlideKeepsLimit ==
  ASSUME LimitInv, WindowSlides
  PROVE  LimitInv'
<1> DEFINE n == Len(ledger)
<1>1. LimitType /\ OwnInv /\ RankInv /\ GlobalInv /\ LastInv
  BY DEF LimitInv
<1>2. ledger # <<>> /\ ledger' = Tail(ledger) /\ limiter' = limiter /\ ledger \in Seq(Rows)
  BY <1>1 DEF WindowSlides, LimitType
<1>3. DOMAIN ledger = 1 .. n /\ n \in Nat /\ n # 0
  BY <1>1, <1>2, RowsFinite, EmptySeq
<1>4. /\ ledger' \in Seq(Rows) /\ DOMAIN ledger' = 1 .. n - 1
      /\ \A i \in 1 .. n - 1 : ledger'[i] = ledger[i + 1] /\ i + 1 \in 1 .. n
  <2>1. /\ ledger' \in Seq(Rows) /\ Len(ledger') = n - 1
        /\ \A i \in 1 .. Len(ledger') : ledger'[i] = ledger[i + 1]
    BY <1>2, HeadTailProperties
  <2>2. DOMAIN ledger' = 1 .. Len(ledger')
    BY <2>1, LenProperties
  <2>3. QED
    BY <1>3, <2>1, <2>2
<1>5. LimitType'
  BY <1>1, <1>2, <1>4 DEF LimitType
<1> HIDE DEF n
<1>6. \A k \in 1 .. n :
        \/ k = 1
        \/ k - 1 \in 1 .. n - 1 /\ ledger'[k - 1] = ledger[k]
  BY <1>3, <1>4
<1>7. ASSUME NEW q, NEW i \in OwnRow(q)'
      PROVE  i + 1 \in OwnRow(q)
  <2>1. /\ i \in 1 .. n - 1 /\ ledger'[i].by = q
        /\ \A j \in 1 .. n - 1 : ledger'[j].by = q => j <= i
    BY <1>4 DEF OwnRow
  <2>2. ASSUME NEW k \in 1 .. n, ledger[k].by = q
        PROVE  k <= i + 1
    <3>1. k = 1 \/ k - 1 <= i
      BY <1>6, <2>1, <2>2
    <3>2. QED
      BY <1>3, <2>1, <3>1
  <2>3. i + 1 \in 1 .. n /\ ledger[i + 1].by = q
    BY <1>4, <2>1
  <2>4. QED
    BY <1>3, <2>2, <2>3 DEF OwnRow
<1>8. OwnInv'
  <2>1. SUFFICES ASSUME NEW q \in Requests, limiter[q].at \in {"recount", "recountAll"},
                        NEW i \in OwnRow(q)'
                 PROVE  ledger'[i].bucket = limiter[q].bucket
    BY <1>2 DEF OwnInv
  <2>2. i \in 1 .. n - 1
    BY <1>4 DEF OwnRow
  <2>3. ledger[i + 1].bucket = limiter[q].bucket
    BY <1>1, <1>7, <2>1 DEF OwnInv
  <2>4. QED
    BY <1>4, <2>2, <2>3
<1>9. ASSUME NEW i \in 1 .. n - 1, Counted(i)'
      PROVE  Counted(i + 1)
  <2>1. ledger'[i] = ledger[i + 1] /\ limiter' = limiter
    BY <1>2, <1>4
  <2>2. CASE ledger'[i].admitted
    BY <2>1, <2>2 DEF Counted
  <2>3. CASE i \in OwnRow(ledger[i].by)' /\ limiter'[ledger'[i].by].at = "recountAll"
    <3>1. i + 1 \in OwnRow(ledger'[i].by)
      BY <1>7, <2>3
    <3>2. QED
      BY <2>1, <2>3, <3>1 DEF Counted
  <2>4. QED
    BY <1>9, <2>2, <2>3 DEF Counted
<1>10. ASSUME NEW i \in 1 .. n - 1, Counted(i)'
       PROVE  Cardinality(Rank(i)') <= Limit
  <2>1. i + 1 \in DOMAIN ledger /\ Cardinality(Rank(i + 1)) <= Limit
    BY <1>1, <1>3, <1>4, <1>9, <1>10 DEF RankInv
  <2>2. Rank(i)' \in SUBSET Nat /\ \A j \in Rank(i)' : j + 1 \in Rank(i + 1)
    <3>1. SUFFICES ASSUME NEW j \in Rank(i)' PROVE j \in Nat /\ j + 1 \in Rank(i + 1)
      OBVIOUS
    <3>2. j \in 1 .. n - 1 /\ j <= i /\ ledger'[j].bucket = ledger'[i].bucket
      BY <1>4 DEF Rank
    <3>3. j \in Nat /\ j + 1 <= i + 1
      BY <1>3, <3>2
    <3>4. QED
      BY <1>3, <1>4, <3>2, <3>3 DEF Rank
  <2>3. Rank(i + 1) \in SUBSET DOMAIN ledger
    BY DEF Rank
  <2>4. IsFiniteSet(Rank(i + 1)) /\ Cardinality(Rank(i + 1)) \in Nat
    BY <1>1, <2>3, RowsFinite
  <2>5. Cardinality(Rank(i)') <= Cardinality(Rank(i + 1))
    BY <2>2, <2>4, Shifted
  <2>6. Cardinality(Rank(i)') \in Nat
    <3>1. Rank(i)' \in SUBSET DOMAIN ledger
      BY <1>3, <1>4 DEF Rank
    <3>2. QED
      BY <1>1, <3>1, RowsFinite
  <2>7. QED
    BY <2>1, <2>4, <2>5, <2>6, LimitAssumption
<1>11. RankInv'
  BY <1>4, <1>10 DEF RankInv
<1>12. GlobalInv'
  <2>1. AllAdmitted' \in SUBSET Nat /\ \A j \in AllAdmitted' : j + 1 \in AllAdmitted
    BY <1>3, <1>4 DEF AllAdmitted
  <2>2. AllAdmitted \in SUBSET DOMAIN ledger /\ AllAdmitted' \in SUBSET DOMAIN ledger
    BY <1>3, <1>4 DEF AllAdmitted
  <2>3. /\ IsFiniteSet(AllAdmitted) /\ Cardinality(AllAdmitted) \in Nat
        /\ Cardinality(AllAdmitted') \in Nat
    BY <1>1, <2>2, RowsFinite
  <2>4. Cardinality(AllAdmitted') <= Cardinality(AllAdmitted)
    BY <2>1, <2>3, Shifted
  <2>5. QED
    BY <1>1, <2>3, <2>4, LimitAssumption DEF GlobalInv
<1>13. ASSUME NEW b \in Buckets, Admitted(b)' # {}
       PROVE  \E m \in Admitted(b)' : \A i \in Admitted(b)' : i <= m
  <2>1. \A i \in Admitted(b)' : i \in 1 .. n - 1 /\ i + 1 \in Admitted(b)
    BY <1>3, <1>4 DEF Admitted, RowsOf
  <2>2. PICK m \in Admitted(b) : \A i \in Admitted(b) : i <= m
    BY <1>1, <1>13, <2>1 DEF LastInv
  <2>3. PICK i \in Admitted(b)' : i \in 1 .. n - 1 /\ i + 1 <= m
    BY <1>13, <2>1, <2>2
  <2>4. m \in 1 .. n /\ m # 1
    BY <1>3, <2>3 DEF Admitted, RowsOf
  <2>5. m - 1 \in Admitted(b)'
    BY <1>3, <1>4, <1>6, <2>4 DEF Admitted, RowsOf
  <2>6. ASSUME NEW k \in Admitted(b)'
        PROVE  k <= m - 1
    <3>1. k \in 1 .. n - 1 /\ k + 1 <= m
      BY <2>1, <2>2
    <3>2. QED
      BY <1>3, <2>4, <3>1
  <2>7. QED
    BY <2>5, <2>6
<1>14. LastInv'
  BY <1>13 DEF LastInv
<1>15. QED
  BY <1>5, <1>8, <1>11, <1>12, <1>14 DEF LimitInv

\* A request comes, goes, or moves to a place outside the second counts.
LEMMA MoveKeepsLimit ==
  ASSUME LimitInv, NEW r \in Requests,
         Arrive(r) \/ Leave(r) \/ Count(r) \/ CountAll(r)
  PROVE  LimitInv'
<1>1. limiter \in [Requests -> [at : Passed, bucket : Buckets]] /\ LimitType
  BY DEF LimitInv, LimitType
<1>2. ASSUME NEW x \in [at : Passed, bucket : Buckets],
             x.at \notin {"recount", "recountAll"},
             limiter' = [limiter EXCEPT ![r] = x], ledger' = ledger
      PROVE  LimitInv'
  <2>1. limiter' \in [Requests -> [at : Passed, bucket : Buckets]]
    BY <1>1, <1>2
  <2>2. LimitType'
    BY <1>1, <1>2, <2>1 DEF LimitType
  <2>3. \A q \in Requests :
          \/ limiter'[q] = limiter[q]
          \/ limiter'[q].at \notin {"recount", "recountAll"}
    BY <1>1, <1>2
  <2>4. QED
    BY <1>2, <2>2, <2>3, WaitKeepsLimit
<1>3. CASE Arrive(r)
  <2>1. PICK b \in Buckets : limiter' = [limiter EXCEPT ![r] = [at |-> "count", bucket |-> b]]
    BY <1>3 DEF Arrive
  <2>2. [at |-> "count", bucket |-> b] \in [at : Passed, bucket : Buckets]
    BY DEF Passed
  <2>3. QED
    BY <1>2, <1>3, <2>1, <2>2 DEF Arrive
<1>4. CASE Leave(r)
  <2>1. Idle \in [at : Passed, bucket : Buckets] /\ Idle.at = "idle"
    BY LimitAssumption DEF Idle, Passed
  <2>2. QED
    BY <1>2, <1>4, <2>1 DEF Leave
<1>5. ASSUME NEW to \in Passed \ {"recount", "recountAll"}, Move(r, to), ledger' = ledger
      PROVE  LimitInv'
  <2> DEFINE x == [limiter[r] EXCEPT !.at = to]
  <2>1. limiter[r] \in [at : Passed, bucket : Buckets]
    BY <1>1
  <2>2. x \in [at : Passed, bucket : Buckets] /\ x.at = to
    BY <2>1
  <2>3. limiter' = [limiter EXCEPT ![r] = x]
    BY <1>1, <1>5 DEF Move
  <2> HIDE DEF x
  <2>4. QED
    BY <1>2, <1>5, <2>2, <2>3
<1>6. CASE Count(r)
  BY <1>5, <1>6 DEF Count, Passed
<1>7. CASE CountAll(r)
  BY <1>5, <1>7 DEF CountAll, Passed
<1>8. QED
  BY <1>3, <1>4, <1>6, <1>7

(***************************************************************************)
(* What the composition does to the two modules.                           *)
(***************************************************************************)
SharedInv == SchemaInv /\ LimitInv

LEMMA StepKeepsShared ==
  ASSUME SharedInv, NEW r \in Requests, Step(r)
  PROVE  SharedInv'
<1>1. SchemaInv /\ LimitInv /\ Requests = Instances
  BY LoginAssumption DEF SharedInv
<1>2. ASSUME UNCHANGED schema PROVE SchemaInv'
  BY <1>1, <1>2 DEF SchemaInv, schema
<1>3. ASSUME UNCHANGED limits PROVE LimitInv'
  <2>1. LimitType' /\ UNCHANGED ledger /\ UNCHANGED limiter
    BY <1>1, <1>3 DEF limits, LimitInv, LimitType
  <2>2. QED
    BY <1>1, <2>1, WaitKeepsLimit
<1>4. CASE UNCHANGED <<schema, limits>>
  BY <1>2, <1>3, <1>4 DEF SharedInv
<1>5. CASE Migrate(r)
  <2>1. LimitInv'
    BY <1>3, <1>5 DEF Migrate
  <2>2. SchemaInv'
    BY <1>1, <1>5, SchemaInvNext DEF Migrate
  <2>3. QED
    BY <2>1, <2>2 DEF SharedInv
<1>6. CASE Resolve(r)
  <2>1. SchemaInv' /\ (Arrive(r) \/ UNCHANGED limits)
    BY <1>2, <1>6 DEF Resolve
  <2>2. QED
    BY <1>1, <1>3, <2>1, MoveKeepsLimit DEF SharedInv
<1>7. CASE Limited(r)
  <2>1. SchemaInv'
    BY <1>2, <1>7 DEF Limited
  <2>2. LimitStep(r) \/ Leave(r)
    BY <1>7 DEF Limited
  <2>3. LimitInv'
    BY <1>1, <2>2, MoveKeepsLimit, AddRowKeepsLimit, RecountKeepsLimit, RecountAllKeepsLimit
       DEF LimitStep
  <2>4. QED
    BY <2>1, <2>3 DEF SharedInv
<1>8. ASSUME Same PROVE UNCHANGED <<schema, limits>>
  BY <1>8 DEF Same
<1>9. CASE \E b \in Browsers, op \in Operations : Begin(r, b, op)
  BY <1>4, <1>9 DEF Begin
<1>10. CASE Ready(r) \/ CheckIdentity(r) \/ ProvisionPrincipal(r) \/ RereadPrincipal(r)
            \/ RegisterClient(r)
  BY <1>4, <1>8, <1>10 DEF Ready, CheckIdentity, ProvisionPrincipal, RereadPrincipal, RegisterClient
<1>11. CASE Create(r) \/ EnsureWorkspace(r) \/ Authorise(r) \/ ReadAccount(r) \/ CheckToken(r)
  BY <1>4, <1>8, <1>11 DEF Create, EnsureWorkspace, Found, Authorise, ReadAccount, CheckToken
<1>12. CASE ProbeSupplied(r) \/ StoreSupplied(r) \/ ProbeAttachment(r) \/ StoreAttachment(r)
  BY <1>4, <1>8, <1>12 DEF ProbeSupplied, StoreSupplied, ProbeAttachment, StoreAttachment, Listed, Upsert
<1>13. CASE SignIn(r)
  BY <1>4, <1>13 DEF SignIn
<1>14. QED
  BY <1>5, <1>6, <1>7, <1>9, <1>10, <1>11, <1>12, <1>13 DEF Step

LEMMA SharedInvHolds == Spec => []SharedInv
<1>1. Init => SharedInv
  BY SchemaInvInit, LimitInvInit DEF Init, SharedInv
<1>2. SharedInv /\ [Next]_vars => SharedInv'
  <2>1. ASSUME SharedInv, UNCHANGED <<schema, limits>>
        PROVE  SharedInv'
    <3>1. SchemaInv'
      BY <2>1 DEF SharedInv, SchemaInv, schema
    <3>2. LimitInv /\ LimitType' /\ UNCHANGED ledger /\ UNCHANGED limiter
      BY <2>1 DEF SharedInv, limits, LimitInv, LimitType
    <3>3. QED
      BY <3>1, <3>2, WaitKeepsLimit DEF SharedInv
  <2>2. ASSUME SharedInv, WindowSlides, UNCHANGED schema
        PROVE  SharedInv'
    BY <2>2, SlideKeepsLimit DEF SharedInv, SchemaInv, schema
  <2>3. ASSUME SharedInv, Next
        PROVE  SharedInv'
    <3>1. CASE \E r \in Requests : Step(r)
      BY <2>3, <3>1, StepKeepsShared
    <3>2. CASE \E b \in Browsers : SignOut(b)
      BY <2>1, <2>3, <3>2 DEF SignOut
    <3>3. CASE \E w \in Workspaces : ProvisionPublic(w)
      BY <2>1, <2>3, <3>3 DEF ProvisionPublic, Same
    <3>4. CASE \E a \in Modes, w \in workspaces \cup {NoWorkspace} :
                 Deploy([auth |-> a, public |-> w])
      BY <2>1, <2>3, <3>4 DEF Deploy
    <3>5. CASE WindowSlides /\ UNCHANGED <<tenancy, session, env, req, begun, deploys, schema>>
      BY <2>2, <2>3, <3>5
    <3>6. QED
      BY <2>3, <3>1, <3>2, <3>3, <3>4, <3>5 DEF Next
  <2>4. QED
    BY <2>1, <2>3 DEF vars
<1>3. QED
  BY <1>1, <1>2, PTL DEF Spec

\* store.ts:305: an instance that serves requests has a database with every added
\* column, however many instances migrate it together and whatever fails.
THEOREM ServesMigrated == Spec => []ReadyIsMigrated
<1>1. SharedInv => ReadyIsMigrated
  <2>1. SUFFICES ASSUME SchemaInv, NEW i \in Instances, setup[i] = Columns + 1
                 PROVE  tables /\ columns = 1 .. Columns
    BY DEF SharedInv, ReadyIsMigrated, IsReady
  <2>2. setup[i] # 0 /\ setup[i] - 1 = Columns
    BY <2>1, ColumnsAssumption
  <2>3. tables /\ 1 .. setup[i] - 1 \subseteq columns /\ columns \subseteq 1 .. Columns
    BY <2>1, <2>2 DEF SchemaInv
  <2>4. QED
    BY <2>2, <2>3
<1>2. QED
  BY <1>1, SharedInvHolds, PTL

\* store.ts:361: a window holds at most Limit admitted requests of one bucket and
\* GlobalLimit of all, however many requests count and add their rows together.
THEOREM LimitsHold == Spec => []WithinLimits
<1>1. SharedInv => WithinLimits
  <2> SUFFICES ASSUME SharedInv PROVE WithinLimits
    OBVIOUS
  <2>1. LimitType /\ RankInv /\ GlobalInv /\ LastInv
    BY DEF SharedInv, LimitInv
  <2>2. ASSUME NEW b \in Buckets
        PROVE  Cardinality(Admitted(b)) <= Limit
    <3>1. CASE Admitted(b) = {}
      BY <3>1, FS_EmptySet, LimitAssumption
    <3>2. CASE Admitted(b) # {}
      <4>1. PICK m \in Admitted(b) : \A i \in Admitted(b) : i <= m
        BY <2>1, <3>2 DEF LastInv
      <4>2. m \in DOMAIN ledger /\ ledger[m].bucket = b /\ Cardinality(Rank(m)) <= Limit
        BY <2>1, <4>1 DEF Admitted, RowsOf, RankInv, Counted
      <4>3. Admitted(b) \subseteq Rank(m) /\ Rank(m) \subseteq DOMAIN ledger
        BY <4>1, <4>2 DEF Admitted, RowsOf, Rank
      <4>4. /\ IsFiniteSet(Rank(m)) /\ Cardinality(Rank(m)) \in Nat
            /\ Cardinality(Admitted(b)) \in Nat
        BY <2>1, <4>3, RowsFinite
      <4>5. Cardinality(Admitted(b)) <= Cardinality(Rank(m))
        BY <4>3, <4>4, FS_Subset
      <4>6. QED
        BY <4>2, <4>4, <4>5, LimitAssumption
    <3>3. QED
      BY <3>1, <3>2
  <2>3. UNION {Admitted(b) : b \in Buckets} = AllAdmitted
    BY <2>1, RowsFinite DEF Admitted, RowsOf, AllAdmitted
  <2>4. QED
    BY <2>1, <2>2, <2>3 DEF WithinLimits, GlobalInv
<1>2. QED
  BY <1>1, SharedInvHolds, PTL

(***************************************************************************)
(* Accounts.  What keeps workspaces apart rests on where each request has  *)
(* come to and whom it serves: only a subject is provisioned, only a       *)
(* caller that is neither a subject nor the visitor founds a workspace,    *)
(* and a request that will write a key has a workspace of its own.         *)
(***************************************************************************)
Belongs(u, w, rows) == \E m \in rows : m.user = u /\ m.workspace = w

MemberInv ==
  /\ members \subseteq MemberRows
  /\ \A m, n \in members : m.workspace = n.workspace /\ m.user = n.user => m = n
  /\ \A m \in members :
       /\ m.user = Public => m.role = "member"
       /\ m.user # Public => m.role = "owner"
       /\ m.user \in Subjects => m.workspace = m.user /\ m.user \in identities

IdentityInv ==
  /\ identities \subseteq Subjects
  /\ \A s \in identities : Belongs(s, s, members)

ClientInv ==
  /\ clients \subseteq ClientRows
  /\ \A c \in clients : c.workspace = c.user /\ c.user \in identities

KeyInv ==
  /\ account \in AccountRows /\ accepted \subseteq Keys
  /\ \A w \in Workspaces : account[w] \in accepted \cup {NoKey}

\* Whom a request serves, and what it has established by where it is.
RequestOK(q, rows, known, proven) ==
  /\ q \in RequestRecords
  /\ q.at # "idle" =>
       /\ q.user \in Users
       /\ q.op = "signIn" => q.user = Public
       /\ q.op \notin {"visit", "signIn"} => q.user # Public
       /\ q.op = "mcp" => q.user \in Subjects
  /\ q.at \in {"identity", "principal", "reread", "client"} => q.user \in Subjects
  /\ q.at \notin {"idle", "setup", "identity", "principal"} /\ q.user \in Subjects =>
       q.user \in known
  /\ q.at = "create" => q.user \notin Subjects
  /\ q.at \in {"role", "account", "probe", "store"} =>
       q.user # Public /\ Belongs(q.user, q.workspace, rows)
  /\ q.at \in {"probe", "store"} => q.key \in Keys
  /\ q.at = "store" => q.key \in proven
  /\ q.at = "served" =>
       /\ q.user \in Subjects => q.workspace = q.user
       /\ q.user = Public => q.workspace = q.public /\ Belongs(Public, q.workspace, rows)

RequestInv ==
  /\ req \in [Requests -> RequestRecords]
  /\ \A r \in Requests : RequestOK(req[r], members, identities, accepted)

SettingsOK ==
  /\ workspaces \subseteq Workspaces
  /\ session \subseteq Browsers
  /\ env \in [auth : Modes, public : Workspaces \cup {NoWorkspace}]
  /\ begun \in 0 .. MaxRequests /\ deploys \in 0 .. MaxDeploys

TenancyInv == MemberInv /\ IdentityInv /\ ClientInv /\ KeyInv /\ SettingsOK /\ RequestInv

\* Memberships, identities and accepted keys only grow: what a request has
\* established stands.
LEMMA Established ==
  ASSUME NEW q, NEW rows, NEW known, NEW proven, NEW rows2, NEW known2, NEW proven2,
         rows \subseteq rows2, known \subseteq known2, proven \subseteq proven2,
         RequestOK(q, rows, known, proven)
  PROVE  RequestOK(q, rows2, known2, proven2)
<1>1. \A u, w : Belongs(u, w, rows) => Belongs(u, w, rows2)
  BY DEF Belongs
<1>2. QED
  BY <1>1 DEF RequestOK

LEMMA RequestMoves ==
  ASSUME RequestInv, NEW r \in Requests, NEW x,
         req' = [req EXCEPT ![r] = x],
         members \subseteq members', identities \subseteq identities', accepted \subseteq accepted',
         RequestOK(x, members', identities', accepted')
  PROVE  RequestInv'
<1>1. x \in RequestRecords /\ req \in [Requests -> RequestRecords]
  BY DEF RequestOK, RequestInv
<1>2. req' \in [Requests -> RequestRecords] /\ req'[r] = x
      /\ \A q \in Requests \ {r} : req'[q] = req[q]
  BY <1>1
<1>3. \A q \in Requests : RequestOK(req[q], members', identities', accepted')
  BY Established DEF RequestInv
<1>4. \A q \in Requests : RequestOK(req'[q], members', identities', accepted')
  BY <1>2, <1>3
<1>5. QED
  BY <1>2, <1>4 DEF RequestInv

\* A request that was answered has established nothing.
LEMMA UntakenIsOK ==
  ASSUME NEW rows, NEW known, NEW proven
  PROVE  RequestOK(Untaken, rows, known, proven)
<1>1. (CHOOSE o \in Operations : TRUE) \in Operations /\ (CHOOSE b \in Browsers : TRUE) \in Browsers
  BY LoginAssumption
<1>2. Untaken \in RequestRecords /\ Untaken.at = "idle"
  BY <1>1 DEF Untaken, RequestRecords
<1>3. QED
  BY <1>2 DEF RequestOK

LEMMA AnswerKeepsRequests ==
  ASSUME RequestInv, NEW r \in Requests, Answer(r),
         members \subseteq members', identities \subseteq identities', accepted \subseteq accepted'
  PROVE  RequestInv'
<1>1. RequestOK(Untaken, members', identities', accepted')
  BY UntakenIsOK
<1>2. QED
  BY <1>1, RequestMoves DEF Answer

\* Some row for the user in the workspace, added once.
LEMMA JoinKeepsMembers ==
  ASSUME MemberInv, IdentityInv,
         NEW u \in Users, NEW w \in Workspaces, NEW role \in {"owner", "member"},
         members' = Joined(u, w, role), role = "member" <=> u = Public,
         identities \subseteq identities', identities' \subseteq Subjects,
         u \in Subjects => w = u /\ u \in identities',
         \A s \in identities' \ identities : s = u
  PROVE  MemberInv' /\ IdentityInv' /\ members \subseteq members' /\ Belongs(u, w, members')
<1> DEFINE row == [workspace |-> w, user |-> u, role |-> role]
<1>1. row \in MemberRows /\ row.workspace = w /\ row.user = u /\ row.role = role
  BY DEF MemberRows
<1> HIDE DEF row
<1>2. CASE w \in Memberships(u)
  <2>1. members' = members /\ Belongs(u, w, members)
    BY <1>2 DEF Joined, Memberships, Belongs
  <2>2. MemberInv'
    BY <2>1 DEF MemberInv
  <2>3. IdentityInv'
    <3>1. \A s \in identities' : Belongs(s, s, members)
      BY <2>1 DEF IdentityInv
    <3>2. QED
      BY <2>1, <3>1 DEF IdentityInv
  <2>4. QED
    BY <2>1, <2>2, <2>3
<1>3. CASE w \notin Memberships(u)
  <2>1. members' = members \cup {row}
    BY <1>3 DEF Joined, row
  <2>2. \A m \in members : ~(m.workspace = w /\ m.user = u)
    BY <1>3 DEF Memberships
  <2>3. MemberInv'
    <3>1. members' \subseteq MemberRows
      BY <1>1, <2>1 DEF MemberInv
    <3>2. ASSUME NEW m \in members', NEW n \in members',
                 m.workspace = n.workspace, m.user = n.user
          PROVE  m = n
      BY <1>1, <2>1, <2>2, <3>2 DEF MemberInv
    <3>3. ASSUME NEW m \in members'
          PROVE  /\ m.user = Public => m.role = "member"
                 /\ m.user # Public => m.role = "owner"
                 /\ m.user \in Subjects => m.workspace = m.user /\ m.user \in identities'
      BY <1>1, <2>1 DEF MemberInv
    <3>4. QED
      BY <3>1, <3>2, <3>3 DEF MemberInv
  <2>4. Belongs(u, w, members')
    BY <1>1, <2>1 DEF Belongs
  <2>5. IdentityInv'
    <3>1. \A s \in identities : Belongs(s, s, members')
      BY <2>1 DEF IdentityInv, Belongs
    <3>2. QED
      BY <2>4, <3>1 DEF IdentityInv
  <2>6. QED
    BY <2>1, <2>3, <2>4, <2>5
<1>4. QED
  BY <1>2, <1>3

\* Everyone has an identity, if only the visitor's.
LEMMA ActorIsUser ==
  ASSUME NEW b \in Browsers
  PROVE  Actor(b) \in Users
<1> DEFINE sources == <<FromSupabase(b), FromCookie(b), FromGateway(b), FromPublicAccess>>
           IsFirst(i) == sources[i] # {} /\ \A j \in 1 .. i - 1 : sources[j] = {}
<1>1. /\ DOMAIN sources = 1 .. 4
      /\ sources[1] = FromSupabase(b) /\ sources[2] = FromCookie(b)
      /\ sources[3] = FromGateway(b) /\ sources[4] = {Public}
  BY DEF FromPublicAccess
<1>2. /\ FromSupabase(b) \subseteq Users /\ FromCookie(b) \subseteq Users
      /\ FromGateway(b) \subseteq Users /\ {Public} \subseteq Users
  BY DEF FromSupabase, FromCookie, FromGateway, Users
<1> HIDE DEF sources
<1>3. \E i \in 1 .. 4 : IsFirst(i)
  <2>1. CASE sources[1] # {}
    <3>1. IsFirst(1)
      BY <2>1
    <3>2. QED
      BY <3>1
  <2>2. CASE sources[1] = {} /\ sources[2] # {}
    <3>1. \A j \in 1 .. 2 - 1 : j = 1
      OBVIOUS
    <3>2. IsFirst(2)
      BY <2>2, <3>1
    <3>3. QED
      BY <3>2
  <2>3. CASE sources[1] = {} /\ sources[2] = {} /\ sources[3] # {}
    <3>1. \A j \in 1 .. 3 - 1 : j = 1 \/ j = 2
      OBVIOUS
    <3>2. IsFirst(3)
      BY <2>3, <3>1
    <3>3. QED
      BY <3>2
  <2>4. CASE sources[1] = {} /\ sources[2] = {} /\ sources[3] = {}
    <3>1. \A j \in 1 .. 4 - 1 : j = 1 \/ j = 2 \/ j = 3
      OBVIOUS
    <3>2. IsFirst(4)
      BY <1>1, <2>4, <3>1
    <3>3. QED
      BY <3>2
  <2>5. QED
    BY <2>1, <2>2, <2>3, <2>4
<1> DEFINE first == CHOOSE i \in DOMAIN sources : IsFirst(i)
<1>4. first \in 1 .. 4 /\ sources[first] # {}
  BY <1>1, <1>3
<1>5. sources[first] \subseteq Users
  <2>1. \A i \in 1 .. 4 : i = 1 \/ i = 2 \/ i = 3 \/ i = 4
    OBVIOUS
  <2>2. QED
    BY <1>1, <1>2, <1>4, <2>1
<1>6. (CHOOSE u \in sources[first] : TRUE) \in Users
  BY <1>4, <1>5
<1>7. QED
  BY <1>6 DEF Actor, sources

\* A sign-in is the visitor's, a token a subject's, and the visitor only visits.
LEMMA CallerIsUser ==
  ASSUME NEW b \in Browsers, NEW op \in Operations, NEW u \in Caller(b, op)
  PROVE  /\ u \in Users
         /\ op = "signIn" => u = Public
         /\ op \notin {"visit", "signIn"} => u # Public
         /\ op = "mcp" => u \in Subjects
<1>1. CASE op = "signIn"
  BY <1>1 DEF Caller, Users
<1>2. CASE op = "mcp"
  <2>1. u \in Subjects
    BY <1>2 DEF Caller, FromToken
  <2>2. QED
    BY <1>2, <2>1, NamesAssumption DEF Users
<1>3. CASE op \notin {"signIn", "mcp"}
  <2>1. u = Actor(b) /\ Control(u, op)
    BY <1>3 DEF Caller
  <2>2. QED
    BY <1>3, <2>1, ActorIsUser DEF Control
<1>4. QED
  BY <1>1, <1>2, <1>3

Places == {"idle", "setup", "identity", "principal", "reread", "resolve", "role",
           "create", "account", "probe", "store", "limit", "token", "link",
           "client", "served", "signedIn"}

\* The record a request becomes when only its place changes.
IsAt(x, q, at) ==
  /\ x \in RequestRecords
  /\ x.at = at /\ x.op = q.op /\ x.user = q.user /\ x.browser = q.browser
  /\ x.public = q.public /\ x.workspace = q.workspace /\ x.key = q.key

LEMMA GoKeepsRequests ==
  ASSUME RequestInv, NEW r \in Requests, NEW at \in Places, Go(r, at),
         members \subseteq members', identities \subseteq identities', accepted \subseteq accepted',
         \A x : IsAt(x, req[r], at) => RequestOK(x, members', identities', accepted')
  PROVE  RequestInv'
<1> DEFINE x == [req[r] EXCEPT !.at = at]
<1>1. req \in [Requests -> RequestRecords] /\ req[r] \in RequestRecords
  BY DEF RequestInv
<1>2. IsAt(x, req[r], at)
  BY <1>1 DEF IsAt, RequestRecords, Places
<1>3. req' = [req EXCEPT ![r] = x]
  BY <1>1 DEF Go
<1> HIDE DEF x
<1>4. QED
  BY <1>2, <1>3, RequestMoves

SettingsStay == UNCHANGED <<workspaces, session, env, begun, deploys>>

\* A step that only moves requests.
LEMMA TenantsStay ==
  ASSUME TenancyInv, UNCHANGED tenancy, SettingsOK', RequestInv'
  PROVE  TenancyInv'
<1>1. UNCHANGED members /\ UNCHANGED identities /\ UNCHANGED clients /\ UNCHANGED account
      /\ UNCHANGED accepted
  BY DEF tenancy
<1>2. MemberInv' /\ IdentityInv'
  BY <1>1 DEF TenancyInv, MemberInv, IdentityInv
<1>3. ClientInv' /\ KeyInv'
  BY <1>1 DEF TenancyInv, ClientInv, KeyInv
<1>4. QED
  BY <1>2, <1>3 DEF TenancyInv

LEMMA SettingsHold ==
  ASSUME SettingsOK, SettingsStay
  PROVE  SettingsOK'
  BY DEF SettingsOK, SettingsStay

LEMMA GoStays ==
  ASSUME TenancyInv, NEW r \in Requests, NEW at \in Places, Go(r, at), Same, UNCHANGED tenancy,
         \A x : IsAt(x, req[r], at) => RequestOK(x, members, identities, accepted)
  PROVE  TenancyInv'
<1>1. /\ members' = members /\ identities' = identities /\ accepted' = accepted
      /\ SettingsStay
  BY DEF Same, tenancy, SettingsStay
<1>2. RequestInv'
  BY <1>1, GoKeepsRequests DEF TenancyInv
<1>3. QED
  BY <1>1, <1>2, TenantsStay, SettingsHold DEF TenancyInv

LEMMA AnswerStays ==
  ASSUME TenancyInv, NEW r \in Requests, Answer(r), SettingsStay, UNCHANGED tenancy
  PROVE  TenancyInv'
<1>1. members' = members /\ identities' = identities /\ accepted' = accepted
  BY DEF tenancy
<1>2. RequestInv'
  BY <1>1, AnswerKeepsRequests DEF TenancyInv
<1>3. QED
  BY <1>2, TenantsStay, SettingsHold DEF TenancyInv

LEMMA BeginKeeps ==
  ASSUME TenancyInv, NEW r \in Requests, NEW b \in Browsers, NEW op \in Operations,
         Begin(r, b, op)
  PROVE  TenancyInv'
<1>1. PICK u \in Caller(b, op) :
        req' = [req EXCEPT ![r] =
          [at |-> "setup", op |-> op, browser |-> b, user |-> u,
           public |-> env.public, workspace |-> NoWorkspace, key |-> NoKey]]
  BY DEF Begin
<1> DEFINE x == [at |-> "setup", op |-> op, browser |-> b, user |-> u,
                 public |-> env.public, workspace |-> NoWorkspace, key |-> NoKey]
<1>2. UNCHANGED tenancy /\ SettingsOK'
  BY LoginAssumption DEF Begin, TenancyInv, SettingsOK, tenancy
<1>3. RequestOK(x, members, identities, accepted)
  <2>1. /\ u \in Users
        /\ op = "signIn" => u = Public
        /\ op \notin {"visit", "signIn"} => u # Public
        /\ op = "mcp" => u \in Subjects
    BY CallerIsUser
  <2>2. env.public \in Workspaces \cup {NoWorkspace}
    BY DEF TenancyInv, SettingsOK
  <2>3. x \in RequestRecords
    BY <2>1, <2>2 DEF RequestRecords
  <2>4. x.at = "setup" /\ x.op = op /\ x.user = u
    OBVIOUS
  <2> HIDE DEF x
  <2>5. QED
    BY <2>1, <2>3, <2>4 DEF RequestOK
<1>4. members' = members /\ identities' = identities /\ accepted' = accepted
  BY <1>2 DEF tenancy
<1>5. req' = [req EXCEPT ![r] = x]
  BY <1>1
<1> HIDE DEF x
<1>6. RequestInv'
  BY <1>3, <1>4, <1>5, RequestMoves DEF TenancyInv
<1>7. QED
  BY <1>2, <1>6, TenantsStay

\* Up to the workspace: whose request it is, and what is known of a subject.
LEMMA ProvisioningKeeps ==
  ASSUME TenancyInv, NEW r \in Requests,
         Migrate(r) \/ Ready(r) \/ CheckIdentity(r) \/ ProvisionPrincipal(r)
           \/ RereadPrincipal(r) \/ RegisterClient(r)
  PROVE  TenancyInv'
<1> DEFINE q == req[r]
<1>1. RequestOK(q, members, identities, accepted) /\ q \in RequestRecords
  BY DEF TenancyInv, RequestInv, RequestOK
<1>2. CASE Migrate(r)
  <2>1. SettingsStay /\ UNCHANGED tenancy /\ (UNCHANGED req \/ Answer(r))
    BY <1>2 DEF Migrate, SettingsStay, tenancy
  <2>2. CASE UNCHANGED req
    <3>1. RequestInv'
      BY <2>1, <2>2 DEF TenancyInv, RequestInv, tenancy
    <3>2. QED
      BY <2>1, <3>1, TenantsStay, SettingsHold DEF TenancyInv
  <2>3. QED
    BY <2>1, <2>2, AnswerStays
<1>3. CASE Ready(r)
  <2>1. q.at = "setup" /\ Same /\ UNCHANGED tenancy
    BY <1>3 DEF Ready
  <2>2. CASE q.user \in Subjects
    <3>1. Go(r, "identity")
      BY <1>3, <2>2 DEF Ready
    <3>2. \A x : IsAt(x, q, "identity") => RequestOK(x, members, identities, accepted)
      BY <1>1, <2>1, <2>2 DEF IsAt, RequestOK
    <3>3. QED
      BY <2>1, <3>1, <3>2, GoStays DEF Places
  <2>3. CASE q.user \notin Subjects
    <3>1. Go(r, "resolve")
      BY <1>3, <2>3 DEF Ready
    <3>2. \A x : IsAt(x, q, "resolve") => RequestOK(x, members, identities, accepted)
      BY <1>1, <2>1, <2>3 DEF IsAt, RequestOK
    <3>3. QED
      BY <2>1, <3>1, <3>2, GoStays DEF Places
  <2>4. QED
    BY <2>2, <2>3
<1>4. CASE CheckIdentity(r)
  <2>1. /\ q.at = "identity" /\ Same /\ UNCHANGED tenancy
        /\ Go(r, "principal") \/ Answer(r)
    BY <1>4 DEF CheckIdentity
  <2>2. \A x : IsAt(x, q, "principal") => RequestOK(x, members, identities, accepted)
    BY <1>1, <2>1 DEF IsAt, RequestOK
  <2>3. QED
    BY <2>1, <2>2, GoStays, AnswerStays DEF Places, Same, SettingsStay, tenancy
<1>5. CASE RereadPrincipal(r)
  <2>1. q.at = "reread" /\ Same /\ UNCHANGED tenancy
    BY <1>5 DEF RereadPrincipal
  <2>2. \/ q.user \in identities /\ (Go(r, "client") \/ Go(r, "resolve"))
        \/ Answer(r)
    BY <1>5 DEF RereadPrincipal
  <2>3. /\ \A x : IsAt(x, q, "client") => RequestOK(x, members, identities, accepted)
        /\ \A x : IsAt(x, q, "resolve") => RequestOK(x, members, identities, accepted)
    BY <1>1, <2>1 DEF IsAt, RequestOK
  <2>4. QED
    BY <2>1, <2>2, <2>3, GoStays, AnswerStays DEF Places, Same, SettingsStay, tenancy
<1>6. CASE ProvisionPrincipal(r)
  <2>1. /\ q.at = "principal" /\ Same /\ Go(r, "reread")
        /\ identities' = identities \cup {q.user}
        /\ workspaces' = workspaces \cup {q.user}
        /\ members' = Joined(q.user, q.user, "owner")
        /\ UNCHANGED <<clients, account, accepted>>
    BY <1>6 DEF ProvisionPrincipal, PersonalWorkspace
  <2>2. q.user \in Subjects /\ q.user \in Users /\ q.user \in Workspaces /\ q.user # Public
    BY <1>1, <2>1, NamesAssumption DEF RequestOK, Users, Workspaces, PersonalWorkspace
  <2>3. identities \subseteq identities' /\ identities' \subseteq Subjects
    BY <2>1, <2>2 DEF TenancyInv, IdentityInv
  <2>4. MemberInv' /\ IdentityInv' /\ members \subseteq members'
    <3>1. \A s \in identities' \ identities : s = q.user
      BY <2>1
    <3>2. MemberInv /\ IdentityInv
      BY DEF TenancyInv
    <3> DEFINE u == q.user
    <3>3. /\ u \in Users /\ u \in Workspaces /\ u \in Subjects /\ u # Public /\ u \in identities'
          /\ members' = Joined(u, u, "owner")
          /\ \A s \in identities' \ identities : s = u
      BY <2>1, <2>2, <3>1
    <3> HIDE DEF u
    <3>4. QED
      BY <2>3, <3>2, <3>3, JoinKeepsMembers
  <2>5. RequestInv'
    <3>1. \A x : IsAt(x, q, "reread") => RequestOK(x, members', identities', accepted')
      BY <1>1, <2>1, <2>2 DEF IsAt, RequestOK
    <3>2. QED
      BY <2>1, <2>3, <2>4, <3>1, GoKeepsRequests DEF Places, TenancyInv
  <2>6. ClientInv' /\ KeyInv' /\ SettingsOK'
    BY <2>1, <2>2, <2>3 DEF TenancyInv, ClientInv, KeyInv, SettingsOK, Same
  <2>7. QED
    BY <2>4, <2>5, <2>6 DEF TenancyInv
<1>7. CASE RegisterClient(r)
  <2> DEFINE x == [q EXCEPT !.at = "served", !.workspace = q.user]
             c == [workspace |-> q.user, user |-> q.user]
  <2>1. /\ q.at = "client" /\ Same
        /\ clients' \subseteq clients \cup {c}
        /\ UNCHANGED <<workspaces, members, identities, account, accepted>>
    BY <1>7 DEF RegisterClient, PersonalWorkspace
  <2>2. req' = [req EXCEPT ![r] = x]
    BY <1>7 DEF RegisterClient, PersonalWorkspace, TenancyInv, RequestInv
  <2>3. q.user \in Subjects /\ q.user \in identities /\ q.user \in Workspaces /\ q.user # Public
    BY <1>1, <2>1, NamesAssumption DEF RequestOK, Workspaces, PersonalWorkspace
  <2>4. ClientInv'
    <3>1. c \in ClientRows /\ c.workspace = c.user /\ c.user \in identities
      BY <2>3 DEF ClientRows
    <3> HIDE DEF c
    <3>2. QED
      BY <2>1, <3>1 DEF TenancyInv, ClientInv
  <2>5. RequestOK(x, members', identities', accepted')
    <3>1. x \in RequestRecords /\ x.at = "served" /\ x.workspace = q.user
          /\ x.user = q.user /\ x.op = q.op
      BY <1>1, <2>3 DEF RequestRecords
    <3> HIDE DEF x
    <3>2. QED
      BY <1>1, <2>1, <2>3, <3>1 DEF RequestOK
  <2> HIDE DEF x
  <2>6. RequestInv'
    BY <2>1, <2>2, <2>5, RequestMoves DEF TenancyInv
  <2>7. MemberInv' /\ IdentityInv' /\ KeyInv' /\ SettingsOK'
    BY <2>1 DEF TenancyInv, MemberInv, IdentityInv, KeyInv, SettingsOK, Same
  <2>8. QED
    BY <2>4, <2>6, <2>7 DEF TenancyInv
<1>8. QED
  BY <1>2, <1>3, <1>4, <1>5, <1>6, <1>7

\* A workspace found for a user is one it belongs to: a subject's own, and the
\* configured one for the visitor.
LEMMA FoundIsOwn ==
  ASSUME MemberInv, NEW u \in Users, NEW configured, NEW w \in WorkspacesFor(u, configured)
  PROVE  /\ Belongs(u, w, members) /\ w \in Workspaces
         /\ u \in Subjects => w = u
         /\ u = Public => w = configured
<1>1. w \in Memberships(u) /\ (u = Public => w = configured)
  BY DEF WorkspacesFor
<1>2. PICK m \in members : m.user = u /\ m.workspace = w
  BY <1>1 DEF Memberships
<1>3. m \in MemberRows
  BY <1>2 DEF MemberInv
<1>4. QED
  BY <1>1, <1>2, <1>3 DEF MemberInv, MemberRows, Belongs

LEMMA ResolveKeeps ==
  ASSUME TenancyInv, NEW r \in Requests, Resolve(r)
  PROVE  TenancyInv'
<1> DEFINE q == req[r]
           mine == WorkspacesFor(q.user, q.public)
           at == Continue(q.op, mine # {})
           w == IF mine = {} THEN NoWorkspace ELSE CHOOSE v \in mine : TRUE
           x == [q EXCEPT !.at = at, !.workspace = w]
<1>1. RequestOK(q, members, identities, accepted) /\ q \in RequestRecords
      /\ req \in [Requests -> RequestRecords] /\ MemberInv /\ IdentityInv
  BY DEF TenancyInv, RequestInv, RequestOK
<1>2. q.at = "resolve" /\ SettingsStay /\ UNCHANGED tenancy
  BY DEF Resolve, SettingsStay, tenancy
<1>3. CASE Answer(r)
  BY <1>2, <1>3, AnswerStays
<1>4. CASE ~Answer(r)
  <2>1. at # "idle" /\ req' = [req EXCEPT ![r] = x]
    BY <1>1, <1>4 DEF Resolve
  <2>2. /\ q.user \in Users
        /\ q.op = "signIn" => q.user = Public
        /\ q.op \notin {"visit", "signIn"} => q.user # Public
        /\ q.op = "mcp" => q.user \in Subjects
        /\ q.user \in Subjects => q.user \in identities
    BY <1>1, <1>2 DEF RequestOK
  <2>3. mine # {} => w \in mine
    OBVIOUS
  <2>4. mine # {} => /\ Belongs(q.user, w, members) /\ w \in Workspaces
                     /\ q.user \in Subjects => w = q.user
                     /\ q.user = Public => w = q.public
    BY <1>1, <2>2, <2>3, FoundIsOwn
  <2>5. q.user \in Subjects => mine # {}
    <3>1. SUFFICES ASSUME q.user \in Subjects PROVE mine # {}
      OBVIOUS
    <3>2. Belongs(q.user, q.user, members) /\ q.user # Public
      BY <1>1, <2>2, <3>1, NamesAssumption DEF IdentityInv
    <3>3. q.user \in Memberships(q.user)
      BY <3>2 DEF Belongs, Memberships
    <3>4. QED
      BY <3>2, <3>3 DEF WorkspacesFor
  <2>6. w \in Workspaces \cup {NoWorkspace}
    BY <2>4
  <2>7. /\ at \in {"create", "account", "role", "limit", "token", "served"}
        /\ at = "create" => mine = {}
        /\ at \in {"account", "role"} => mine # {} /\ q.op \in {"connectAll", "configure"}
        /\ at = "served" => mine # {}
    BY <2>1 DEF Continue
  <2> HIDE DEF w, mine, at
  <2>8. x \in RequestRecords
    <3>1. at \in Places
      BY <2>7 DEF Places
    <3>2. QED
      BY <1>1, <2>6, <3>1 DEF RequestRecords, Places
  <2>9. x.at = at /\ x.workspace = w /\ x.user = q.user /\ x.op = q.op /\ x.public = q.public
    BY <1>1 DEF RequestRecords
  <2> HIDE DEF x
  <2>10. RequestOK(x, members, identities, accepted)
    BY <2>2, <2>4, <2>5, <2>7, <2>8, <2>9 DEF RequestOK
  <2>11. members' = members /\ identities' = identities /\ accepted' = accepted
    BY <1>2 DEF tenancy
  <2>12. RequestInv'
    BY <2>1, <2>10, <2>11, RequestMoves DEF TenancyInv
  <2>13. QED
    BY <1>2, <2>12, TenantsStay, SettingsHold DEF TenancyInv
<1>5. QED
  BY <1>3, <1>4

\* A new workspace has its founder for owner: never a subject nor the visitor.
LEMMA FoundingKeeps ==
  ASSUME TenancyInv, NEW u \in Users, u \notin Subjects, u # Public,
         NEW w \in NewIds, Found(u, w)
  PROVE  /\ MemberInv' /\ IdentityInv' /\ ClientInv' /\ KeyInv' /\ SettingsOK'
         /\ members \subseteq members' /\ Belongs(u, w, members')
         /\ identities' = identities /\ accepted' = accepted /\ w \in Workspaces
<1>1. /\ workspaces' = workspaces \cup {w} /\ members' = Joined(u, w, "owner") /\ Same
      /\ identities' = identities /\ accepted' = accepted
      /\ UNCHANGED <<clients, account>>
  BY DEF Found
<1>2. w \in Workspaces
  BY DEF Workspaces
<1>3. MemberInv' /\ IdentityInv' /\ members \subseteq members' /\ Belongs(u, w, members')
  <2>1. MemberInv /\ IdentityInv /\ identities' \subseteq Subjects
    BY <1>1 DEF TenancyInv, IdentityInv
  <2>2. QED
    BY <1>1, <1>2, <2>1, JoinKeepsMembers
<1>4. ClientInv' /\ KeyInv' /\ SettingsOK'
  BY <1>1, <1>2 DEF TenancyInv, ClientInv, KeyInv, SettingsOK, Same
<1>5. QED
  BY <1>1, <1>2, <1>3, <1>4

LEMMA CreatingKeeps ==
  ASSUME TenancyInv, NEW r \in Requests, Create(r) \/ EnsureWorkspace(r)
  PROVE  TenancyInv'
<1> DEFINE q == req[r]
<1>1. RequestOK(q, members, identities, accepted) /\ q \in RequestRecords
      /\ req \in [Requests -> RequestRecords] /\ RequestInv
  BY DEF TenancyInv, RequestInv, RequestOK
<1>2. q.at = "create" /\ q.op \in {"create", "connectAll"}
  BY DEF Create, EnsureWorkspace
<1>3. q.user \in Users /\ q.user \notin Subjects /\ q.user # Public
  BY <1>1, <1>2 DEF RequestOK
<1>4. CASE Create(r)
  <2>1. PICK w \in NewIds : Found(q.user, w)
    BY <1>4 DEF Create
  <2>2. /\ MemberInv' /\ IdentityInv' /\ ClientInv' /\ KeyInv' /\ SettingsOK'
        /\ members \subseteq members'
        /\ identities' = identities /\ accepted' = accepted
    BY <1>3, <2>1, FoundingKeeps
  <2>3. RequestInv'
    BY <1>1, <1>4, <2>2, AnswerKeepsRequests DEF Create
  <2>4. QED
    BY <2>2, <2>3 DEF TenancyInv
<1>5. CASE EnsureWorkspace(r)
  <2>1. PICK w \in NewIds :
          /\ Found(q.user, w)
          /\ req' = [req EXCEPT ![r].at = "account", ![r].workspace = w]
    BY <1>5 DEF EnsureWorkspace
  <2> DEFINE x == [q EXCEPT !.at = "account", !.workspace = w]
  <2>2. /\ MemberInv' /\ IdentityInv' /\ ClientInv' /\ KeyInv' /\ SettingsOK'
        /\ members \subseteq members' /\ Belongs(q.user, w, members')
        /\ identities' = identities /\ accepted' = accepted /\ w \in Workspaces
    BY <1>3, <2>1, FoundingKeeps
  <2>3. req' = [req EXCEPT ![r] = x]
    BY <1>1, <2>1
  <2>4. /\ x \in RequestRecords
        /\ x.at = "account" /\ x.workspace = w /\ x.user = q.user /\ x.op = q.op
    BY <1>1, <2>2 DEF RequestRecords
  <2> HIDE DEF x
  <2>5. RequestOK(x, members', identities', accepted')
    BY <1>1, <1>2, <1>3, <2>2, <2>4 DEF RequestOK
  <2>6. RequestInv'
    BY <1>1, <2>2, <2>3, <2>5, RequestMoves
  <2>7. QED
    BY <2>2, <2>6 DEF TenancyInv
<1>6. QED
  BY <1>4, <1>5

\* A request that has a workspace of its own takes a key, has it proved, stores it.
LEMMA AttachingKeeps ==
  ASSUME TenancyInv, NEW r \in Requests,
         Authorise(r) \/ ReadAccount(r) \/ ProbeSupplied(r) \/ ProbeAttachment(r)
           \/ StoreSupplied(r) \/ StoreAttachment(r)
  PROVE  TenancyInv'
<1> DEFINE q == req[r]
<1>1. RequestOK(q, members, identities, accepted) /\ q \in RequestRecords
      /\ req \in [Requests -> RequestRecords] /\ RequestInv
  BY DEF TenancyInv, RequestInv, RequestOK
<1>2. CASE Authorise(r) \/ ReadAccount(r)
  <2>1. q.at \in {"role", "account"} /\ Same /\ UNCHANGED tenancy /\ SettingsStay
    BY <1>2 DEF Authorise, ReadAccount, Same, SettingsStay, tenancy
  <2>2. CASE Answer(r)
    BY <2>1, <2>2, AnswerStays
  <2>3. CASE ~Answer(r)
    <3>1. PICK k \in Keys : req' = [req EXCEPT ![r].at = "probe", ![r].key = k]
      <4>1. CASE Authorise(r)
        BY <2>3, <4>1 DEF Authorise
      <4>2. CASE ReadAccount(r)
        BY <2>3, <4>2, LoginAssumption DEF ReadAccount
      <4>3. QED
        BY <1>2, <4>1, <4>2
    <3> DEFINE x == [q EXCEPT !.at = "probe", !.key = k]
    <3>2. req' = [req EXCEPT ![r] = x]
      BY <1>1, <3>1
    <3>3. /\ x \in RequestRecords /\ x.at = "probe" /\ x.key = k
          /\ x.workspace = q.workspace /\ x.user = q.user /\ x.op = q.op
      BY <1>1 DEF RequestRecords
    <3> HIDE DEF x
    <3>4. RequestOK(x, members, identities, accepted)
      BY <1>1, <2>1, <3>3 DEF RequestOK
    <3>5. members' = members /\ identities' = identities /\ accepted' = accepted
      BY <2>1 DEF tenancy
    <3>6. RequestInv'
      BY <1>1, <3>2, <3>4, <3>5, RequestMoves
    <3>7. QED
      BY <2>1, <3>6, TenantsStay, SettingsHold DEF TenancyInv
  <2>4. QED
    BY <2>2, <2>3
<1>3. CASE ProbeSupplied(r) \/ ProbeAttachment(r)
  <2>1. /\ q.at = "probe" /\ Same
        /\ UNCHANGED <<workspaces, members, identities, clients, account>>
        /\ \/ Go(r, "store") /\ accepted' = accepted \cup {q.key}
           \/ Answer(r) /\ accepted' = accepted
    BY <1>3 DEF ProbeSupplied, ProbeAttachment, Listed
  <2>2. q.key \in Keys /\ accepted \subseteq accepted'
    BY <1>1, <2>1 DEF RequestOK
  <2>3. KeyInv'
    BY <2>1, <2>2 DEF TenancyInv, KeyInv
  <2>4. MemberInv' /\ IdentityInv' /\ ClientInv' /\ SettingsOK'
    BY <2>1 DEF TenancyInv, MemberInv, IdentityInv, ClientInv, SettingsOK, Same
  <2>5. CASE Answer(r)
    <3>1. RequestInv'
      BY <1>1, <2>1, <2>2, <2>5, AnswerKeepsRequests
    <3>2. QED
      BY <2>3, <2>4, <3>1 DEF TenancyInv
  <2>6. CASE Go(r, "store") /\ accepted' = accepted \cup {q.key}
    <3>1. \A x : IsAt(x, q, "store") => RequestOK(x, members', identities', accepted')
      BY <1>1, <2>1, <2>2, <2>6 DEF IsAt, RequestOK
    <3>2. RequestInv'
      BY <1>1, <2>1, <2>2, <2>6, <3>1, GoKeepsRequests DEF Places
    <3>3. QED
      BY <2>3, <2>4, <3>2 DEF TenancyInv
  <2>7. QED
    BY <2>1, <2>5, <2>6
<1>4. CASE StoreSupplied(r) \/ StoreAttachment(r)
  <2>1. /\ q.at = "store" /\ Same /\ Answer(r)
        /\ account' = [account EXCEPT ![q.workspace] = q.key]
        /\ UNCHANGED <<workspaces, members, identities, clients, accepted>>
    BY <1>4 DEF StoreSupplied, StoreAttachment, Upsert
  <2>2. q.key \in accepted /\ q.key \in Keys
    BY <1>1, <2>1 DEF RequestOK
  <2>3. KeyInv'
    BY <2>1, <2>2 DEF TenancyInv, KeyInv, AccountRows
  <2>4. MemberInv' /\ IdentityInv' /\ ClientInv' /\ SettingsOK'
    BY <2>1 DEF TenancyInv, MemberInv, IdentityInv, ClientInv, SettingsOK, Same
  <2>5. RequestInv'
    BY <1>1, <2>1, AnswerKeepsRequests
  <2>6. QED
    BY <2>3, <2>4, <2>5 DEF TenancyInv
<1>5. QED
  BY <1>2, <1>3, <1>4

\* The owner's sign-in.
LEMMA SessionKeeps ==
  ASSUME TenancyInv, NEW r \in Requests, Limited(r) \/ CheckToken(r) \/ SignIn(r)
  PROVE  TenancyInv'
<1> DEFINE q == req[r]
<1>1. RequestOK(q, members, identities, accepted) /\ q \in RequestRecords
      /\ req \in [Requests -> RequestRecords] /\ RequestInv
  BY DEF TenancyInv, RequestInv, RequestOK
<1>2. ASSUME NEW at \in {"token", "link", "signedIn"}, q.at \in {"limit", "token", "link"}
      PROVE  \A x : IsAt(x, q, at) => RequestOK(x, members, identities, accepted)
  BY <1>1, <1>2 DEF IsAt, RequestOK
<1>3. CASE Limited(r) \/ CheckToken(r)
  <2>1. /\ q.at \in {"limit", "token"} /\ SettingsStay /\ UNCHANGED tenancy
        /\ \/ UNCHANGED req
           \/ Answer(r)
           \/ \E at \in {"token", "link"} : Go(r, at)
    BY <1>3 DEF Limited, CheckToken, SettingsStay, Same, tenancy
  <2>2. members' = members /\ identities' = identities /\ accepted' = accepted
    BY <2>1 DEF tenancy
  <2>3. CASE Answer(r)
    BY <2>1, <2>3, AnswerStays
  <2>4. ASSUME NEW at \in {"token", "link"}, Go(r, at)
        PROVE  RequestInv'
    <3>1. \A x : IsAt(x, q, at) => RequestOK(x, members, identities, accepted)
      BY <1>2, <2>1
    <3>2. at \in Places
      BY DEF Places
    <3>3. RequestInv'
      <4>1. members \subseteq members' /\ identities \subseteq identities' /\ accepted \subseteq accepted'
        BY <2>2
      <4>2. \A x : IsAt(x, req[r], at) => RequestOK(x, members', identities', accepted')
        BY <2>2, <3>1
      <4>3. QED
        BY <1>1, <2>4, <3>2, <4>1, <4>2, GoKeepsRequests
    <3>4. QED
      BY <3>3
  <2>5. ASSUME UNCHANGED req PROVE RequestInv'
    BY <1>1, <2>2, <2>5 DEF RequestInv
  <2>6. CASE ~Answer(r)
    <3>1. RequestInv'
      BY <2>1, <2>4, <2>5, <2>6
    <3>2. QED
      BY <2>1, <3>1, TenantsStay, SettingsHold DEF TenancyInv
  <2>7. QED
    BY <2>3, <2>6
<1>4. CASE SignIn(r)
  <2>1. /\ q.at = "link" /\ Go(r, "signedIn")
        /\ members' = IF q.workspace = NoWorkspace THEN members
                      ELSE Joined(Owner, q.workspace, "owner")
        /\ session' = session \cup {q.browser}
        /\ UNCHANGED <<workspaces, identities, clients, account, accepted, env, begun, deploys>>
    BY <1>4 DEF SignIn
  <2>2. MemberInv' /\ IdentityInv' /\ members \subseteq members'
    <3>1. MemberInv /\ IdentityInv /\ identities' = identities /\ identities' \subseteq Subjects
      BY <2>1 DEF TenancyInv, IdentityInv
    <3>2. CASE members' = members
      BY <3>1, <3>2 DEF MemberInv, IdentityInv
    <3>3. CASE members' # members
      <4>1. q.workspace \in Workspaces /\ members' = Joined(Owner, q.workspace, "owner")
        BY <1>1, <2>1, <3>3 DEF RequestRecords
      <4>2. Owner \in Users /\ Owner \notin Subjects /\ Owner # Public
        BY NamesAssumption DEF Users, Owner, Public
      <4>3. QED
        BY <3>1, <4>1, <4>2, JoinKeepsMembers
    <3>4. QED
      BY <3>2, <3>3
  <2>3. RequestInv'
    <3>1. \A x : IsAt(x, q, "signedIn") => RequestOK(x, members', identities', accepted')
      <4>1. /\ members \subseteq members' /\ identities \subseteq identities'
            /\ accepted \subseteq accepted'
        BY <2>1, <2>2
      <4>2. \A x : IsAt(x, q, "signedIn") => RequestOK(x, members, identities, accepted)
        BY <1>2, <2>1
      <4>3. QED
        BY <4>1, <4>2, Established
    <3>2. QED
      BY <1>1, <2>1, <2>2, <3>1, GoKeepsRequests DEF Places
  <2>4. ClientInv' /\ KeyInv'
    BY <2>1 DEF TenancyInv, ClientInv, KeyInv
  <2>5. SettingsOK'
    <3>1. q.browser \in Browsers
      BY <1>1 DEF RequestRecords
    <3>2. QED
      BY <2>1, <3>1 DEF TenancyInv, SettingsOK
  <2>6. QED
    BY <2>2, <2>3, <2>4, <2>5 DEF TenancyInv
<1>5. QED
  BY <1>3, <1>4

\* The operator opens a workspace to the visitor, changes the settings.
LEMMA OperatorKeeps ==
  ASSUME TenancyInv,
         \/ \E w \in Workspaces : ProvisionPublic(w)
         \/ \E a \in Modes, w \in workspaces \cup {NoWorkspace} :
              Deploy([auth |-> a, public |-> w])
         \/ \E b \in Browsers : SignOut(b)
         \/ WindowSlides /\ UNCHANGED <<tenancy, session, env, req, begun, deploys, schema>>
         \/ UNCHANGED vars
  PROVE  TenancyInv'
<1>1. ASSUME members \subseteq members', UNCHANGED <<identities, accepted, req>>
      PROVE  RequestInv'
  <2>1. /\ RequestInv /\ req' = req /\ identities' = identities /\ accepted' = accepted
    BY <1>1 DEF TenancyInv
  <2>2. \A r \in Requests : RequestOK(req[r], members', identities', accepted')
    BY <1>1, <2>1, Established DEF RequestInv
  <2>3. QED
    BY <2>1, <2>2 DEF RequestInv
<1>2. CASE \E w \in Workspaces : ProvisionPublic(w)
  <2>1. PICK w \in Workspaces : ProvisionPublic(w)
    BY <1>2
  <2>2. /\ members' = Joined(Public, w, "member") /\ Same
        /\ UNCHANGED <<workspaces, identities, clients, account, accepted, req>>
    BY <2>1 DEF ProvisionPublic
  <2>3. MemberInv' /\ IdentityInv' /\ members \subseteq members'
    <3>1. MemberInv /\ IdentityInv /\ identities' = identities /\ identities' \subseteq Subjects
      BY <2>2 DEF TenancyInv, IdentityInv
    <3>2. Public \in Users /\ Public \notin Subjects
      BY NamesAssumption DEF Users
    <3>3. QED
      BY <2>2, <3>1, <3>2, JoinKeepsMembers
  <2>4. RequestInv'
    BY <1>1, <2>2, <2>3
  <2>5. ClientInv' /\ KeyInv' /\ SettingsOK'
    BY <2>2 DEF TenancyInv, ClientInv, KeyInv, SettingsOK, Same
  <2>6. QED
    BY <2>3, <2>4, <2>5 DEF TenancyInv
<1>3. ASSUME UNCHANGED <<tenancy, req>>, SettingsOK'
      PROVE  TenancyInv'
  BY <1>1, <1>3, TenantsStay DEF tenancy
<1>4. CASE \E a \in Modes, w \in workspaces \cup {NoWorkspace} :
             Deploy([auth |-> a, public |-> w])
  <2>1. PICK a \in Modes, w \in workspaces \cup {NoWorkspace} :
          Deploy([auth |-> a, public |-> w])
    BY <1>4
  <2>2. SettingsOK'
    <3>1. env' = [auth |-> a, public |-> w] /\ deploys < MaxDeploys /\ deploys' = deploys + 1
          /\ UNCHANGED <<workspaces, session, begun>>
      BY <2>1 DEF Deploy, tenancy
    <3>2. QED
      BY <3>1, LoginAssumption DEF TenancyInv, SettingsOK
  <2>3. QED
    BY <1>3, <2>1, <2>2 DEF Deploy
<1>5. CASE \E b \in Browsers : SignOut(b)
  BY <1>3, <1>5 DEF SignOut, TenancyInv, SettingsOK, tenancy
<1>6. CASE UNCHANGED vars \/ (WindowSlides /\ UNCHANGED <<tenancy, session, env, req, begun, deploys, schema>>)
  <2>1. UNCHANGED <<tenancy, session, env, req, begun, deploys>>
    BY <1>6 DEF vars
  <2>2. SettingsOK'
    BY <2>1 DEF TenancyInv, SettingsOK, tenancy
  <2>3. QED
    BY <1>3, <2>1, <2>2
<1>7. QED
  BY <1>2, <1>4, <1>5, <1>6

LEMMA TenancyInvInit == Init => TenancyInv
<1> SUFFICES ASSUME Init PROVE TenancyInv
  OBVIOUS
<1>1. MemberInv
  <2>1. CASE members = {}
    BY <2>1 DEF MemberInv
  <2>2. CASE members # {}
    <3>1. PICK w \in NewIds, u \in Locals : Founded(w, u)
      BY <2>2 DEF Init
    <3> DEFINE a == [workspace |-> w, user |-> u, role |-> "owner"]
               b == [workspace |-> w, user |-> Public, role |-> "member"]
    <3>2. members = {a, b}
      BY <3>1 DEF Founded
    <3>3. /\ w \in Workspaces /\ u \in Users /\ Public \in Users
          /\ u # Public /\ u \notin Subjects /\ Public \notin Subjects
      BY <3>1, NamesAssumption DEF Workspaces, Users
    <3>4. /\ a \in MemberRows /\ a.user = u /\ a.role = "owner"
          /\ b \in MemberRows /\ b.user = Public /\ b.role = "member"
      BY <3>3 DEF MemberRows
    <3> HIDE DEF a, b
    <3>5. QED
      BY <3>2, <3>3, <3>4 DEF MemberInv
  <2>3. QED
    BY <2>1, <2>2
<1>2. IdentityInv /\ ClientInv /\ KeyInv
  BY DEF Init, IdentityInv, ClientInv, KeyInv, AccountRows
<1>3. SettingsOK
  <2>1. 0 \in 0 .. MaxRequests /\ 0 \in 0 .. MaxDeploys
    BY LoginAssumption
  <2>2. workspaces \subseteq Workspaces /\ env \in [auth : Modes, public : Workspaces \cup {NoWorkspace}]
    BY DEF Init, Founded, Workspaces
  <2>3. QED
    BY <2>1, <2>2 DEF Init, SettingsOK
<1>4. RequestInv
  <2>1. req = [r \in Requests |-> Untaken]
    BY DEF Init
  <2>2. RequestOK(Untaken, members, identities, accepted) /\ Untaken \in RequestRecords
    BY UntakenIsOK DEF RequestOK
  <2>3. QED
    BY <2>1, <2>2 DEF RequestInv
<1>5. QED
  BY <1>1, <1>2, <1>3, <1>4 DEF TenancyInv

LEMMA TenancyInvHolds == Spec => []TenancyInv
<1>1. TenancyInv /\ [Next]_vars => TenancyInv'
  <2> SUFFICES ASSUME TenancyInv, [Next]_vars PROVE TenancyInv'
    OBVIOUS
  <2>1. ASSUME NEW r \in Requests, Step(r)
        PROVE  TenancyInv'
    BY <2>1, BeginKeeps, ProvisioningKeeps, ResolveKeeps, CreatingKeeps, AttachingKeeps, SessionKeeps
       DEF Step
  <2>2. QED
    BY <2>1, OperatorKeeps DEF Next
<1>2. QED
  BY <1>1, TenancyInvInit, PTL DEF Spec

\* auth-principal.ts:37, store.ts:424, connect-all/route.ts:100: however requests
\* interleave, each subject owns its own workspace and no other, the visitor sees
\* only what was configured and opened to it, and a stored key was proved by an
\* owner of its workspace.
THEOREM WorkspacesApart == Spec => []WorkspacesStayApart
<1>1. TenancyInv /\ SharedInv => WorkspacesStayApart
  <2> SUFFICES ASSUME TenancyInv, SharedInv PROVE WorkspacesStayApart
    OBVIOUS
  <2>1. MemberInv /\ IdentityInv /\ ClientInv /\ KeyInv /\ SettingsOK /\ RequestInv
    BY DEF TenancyInv
  <2>2. TypeOK
    <3>1. LimitType
      BY DEF SharedInv, LimitInv
    <3>2. QED
      BY <2>1, <3>1 DEF TypeOK, MemberInv, IdentityInv, ClientInv, KeyInv, SettingsOK, RequestInv,
                        LimitType
  <2>3. ASSUME NEW u, NEW w, Belongs(u, w, members)
        PROVE  /\ w \in Memberships(u)
               /\ u # Public => "owner" \in RoleIn(u, w)
               /\ u = Public => RoleIn(u, w) = {"member"}
    BY <2>1, <2>3 DEF Belongs, Memberships, RoleIn, MemberInv
  <2>4. SubjectHasItsWorkspace
    <3>1. ASSUME NEW s \in identities
          PROVE  {m \in members : m.user = s} =
                   {[workspace |-> PersonalWorkspace(s), user |-> s, role |-> "owner"]}
      <4>1. s \in Subjects /\ s # Public /\ Belongs(s, s, members)
        BY <2>1, NamesAssumption DEF IdentityInv
      <4>2. PICK m \in members : m.user = s /\ m.workspace = s
        BY <4>1 DEF Belongs
      <4>3. m = [workspace |-> s, user |-> s, role |-> "owner"]
        BY <2>1, <4>1, <4>2 DEF MemberInv, MemberRows
      <4>4. \A n \in members : n.user = s => n = m
        BY <2>1, <4>1, <4>2 DEF MemberInv
      <4>5. QED
        BY <4>2, <4>3, <4>4 DEF PersonalWorkspace
    <3>2. ASSUME NEW r \in Requests, req[r].at = "served", req[r].user \in Subjects
          PROVE  req[r].workspace \in Memberships(req[r].user) \cap {PersonalWorkspace(req[r].user)}
      <4>1. req[r].user \in identities /\ req[r].workspace = req[r].user
        BY <2>1, <3>2 DEF RequestInv, RequestOK
      <4>2. QED
        BY <2>1, <2>3, <4>1 DEF IdentityInv, PersonalWorkspace
    <3>3. ASSUME NEW c \in clients
          PROVE  "owner" \in RoleIn(c.user, c.workspace)
      <4>1. c.workspace = c.user /\ c.user \in identities
        BY <2>1 DEF ClientInv
      <4>2. c.user # Public /\ Belongs(c.user, c.user, members)
        BY <2>1, <4>1, NamesAssumption DEF IdentityInv
      <4>3. QED
        BY <2>3, <4>1, <4>2
    <3>4. QED
      BY <3>1, <3>2, <3>3 DEF SubjectHasItsWorkspace
  <2>5. VisitorIsConfined
    <3>1. ASSUME NEW r \in Requests, req[r].user = Public, req[r].at = "served"
          PROVE  /\ req[r].workspace = req[r].public
                 /\ RoleIn(Public, req[r].workspace) = {"member"}
      <4>1. req[r].workspace = req[r].public /\ Belongs(Public, req[r].workspace, members)
        BY <2>1, <3>1 DEF RequestInv, RequestOK
      <4>2. QED
        BY <2>3, <4>1
    <3>2. QED
      BY <2>1, <3>1 DEF VisitorIsConfined, MemberInv
  <2>6. KeyIsProven
    <3>1. ASSUME NEW r \in Requests, req[r].at = "store"
          PROVE  "owner" \in RoleIn(req[r].user, req[r].workspace)
      <4>1. req[r].user # Public /\ Belongs(req[r].user, req[r].workspace, members)
        BY <2>1, <3>1 DEF RequestInv, RequestOK
      <4>2. QED
        BY <2>3, <4>1
    <3>2. QED
      BY <2>1, <3>1 DEF KeyIsProven, KeyInv
  <2>7. QED
    BY <2>2, <2>4, <2>5, <2>6 DEF WorkspacesStayApart
<1>2. QED
  BY <1>1, TenancyInvHolds, SharedInvHolds, PTL
============================================================================
