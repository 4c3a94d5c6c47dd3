----------------------- MODULE QueueGenerationProofs -----------------------
(***************************************************************************)
(* Machine-checked proofs about QueueGeneration, for any number of         *)
(* generations and readers and any evidence: what is stored, what a reader *)
(* is shown, and what the clustering makes of the records.                 *)
(*                                                                         *)
(* The clustering folds unions over sets of pairs and runs through the     *)
(* records one after the other.  Both recursions are unfolded by induction *)
(* over the natural numbers, derived from their well-foundedness.          *)
(***************************************************************************)
EXTENDS QueueGeneration, FiniteSetTheorems, WellFoundedInduction, TLAPS

(***************************************************************************)
(* Types, of what the order of the steps depends on.  A task is whatever   *)
(* the clustering says it is.                                              *)
(***************************************************************************)
ControlTypeOK ==
  /\ clock \in 0..MaxClock
  /\ pc \in [Generations -> PcStates]
  /\ DOMAIN emitted = Generations
  /\ stamp \in [Generations -> 0..MaxClock]
  /\ DOMAIN run = Generations
  /\ reader \in [Readers -> ReaderStates]
  /\ latest \in [Readers -> Generations \union {NoRun}]
  /\ DOMAIN listed = Readers
  /\ \A r \in Readers : listed[r].run \in Generations \union {NoRun}

\* Until it is stored a run is not there; from then on neither its tasks nor its stamp
\* change, and it holds what the generation emitted.
RunInv ==
  \A g \in Generations :
    /\ pc[g] \in {"idle", "retrieve", "stamp", "store"} => ~run[g].stored
    /\ run[g].stored => run[g].tasks = emitted[g]

\* A reader between its two SELECTs holds a stored run, no older than the one it shows.
ReaderInv ==
  \A r \in Readers :
    /\ reader[r] = "selected" =>
         /\ latest[r] \in Generations
         /\ run[latest[r]].stored
         /\ listed[r].run # NoRun => stamp[listed[r].run] <= stamp[latest[r]]
    /\ listed[r].run # NoRun =>
         /\ run[listed[r].run].stored
         /\ listed[r].tasks = run[listed[r].run].tasks

IInv == ControlTypeOK /\ RunInv /\ ReaderInv

\* A list that a step replaces, it replaces by one as new.
ListsAdvance ==
  \A r \in Readers :
    listed[r].run # NoRun => stamp'[listed[r].run] <= stamp'[listed'[r].run]

LEMMA InvInit == Init => IInv
  BY BoundsAssumption
  DEF Init, IInv, ControlTypeOK, RunInv, ReaderInv, PcStates, ReaderStates, Absent

\* A generation's own steps: what is stored, and its stamp, stay as they are.
LEMMA GenerationKeepsInv ==
  ASSUME IInv, NEW g \in Generations,
         UNCHANGED readerVars,
         clock' = clock,
         pc' \in [Generations -> PcStates],
         \A h \in Generations : h # g => /\ pc'[h] = pc[h]
                                         /\ emitted'[h] = emitted[h]
                                         /\ stamp'[h] = stamp[h]
                                         /\ run'[h] = run[h],
         DOMAIN emitted' = Generations,
         DOMAIN run' = Generations,
         stamp' \in [Generations -> 0..MaxClock],
         run[g].stored => UNCHANGED <<emitted, stamp, run>>,
         run'[g].stored =>
           /\ run'[g].tasks = emitted'[g]
           /\ pc'[g] \notin {"idle", "retrieve", "stamp", "store"}
  PROVE  IInv' /\ ListsAdvance
<1> USE BoundsAssumption DEF IInv, readerVars
<1>1. ControlTypeOK'
  BY DEF ControlTypeOK
<1>2. RunInv'
  BY DEF RunInv
<1>3. \A h \in Generations : run[h].stored =>
        run'[h] = run[h] /\ stamp'[h] = stamp[h]
  OBVIOUS
<1>4. ReaderInv'
  BY <1>3 DEF ReaderInv, ControlTypeOK
<1>5. ListsAdvance
  BY DEF ListsAdvance, ControlTypeOK
<1>6. QED
  BY <1>1, <1>2, <1>4, <1>5

LEMMA InvNext == IInv /\ [Next]_vars => IInv' /\ ListsAdvance
<1> SUFFICES ASSUME IInv, [Next]_vars PROVE IInv' /\ ListsAdvance
  OBVIOUS
<1> USE BoundsAssumption DEF generationVars, stored, readerVars
<1>1. ASSUME NEW g \in Generations,
             \/ BeginGeneration(g) \/ Crash(g)
             \/ \E records \in Retrievals[g] : Retrieve(g, records)
             \/ \E o \in Outcomes : AuditGeneration(g, o)
      PROVE IInv' /\ ListsAdvance
  <2>1. /\ UNCHANGED <<clock, emitted, stamp, run, readerVars>>
        /\ pc' \in [Generations -> PcStates]
        /\ \A h \in Generations : h # g => pc'[h] = pc[h]
        /\ pc'[g] \in {"idle", "retrieve", "stamp", "store"} =>
             pc[g] \in {"idle", "retrieve", "stamp", "store"}
    BY <1>1 DEF BeginGeneration, Crash, Retrieve, AuditGeneration, Moves, Resume, IInv,
       ControlTypeOK, PcStates
  <2>2. QED
    BY <2>1, GenerationKeepsInv DEF IInv, RunInv, ControlTypeOK
<1>2. ASSUME NEW g \in Generations, NEW kept, RankAndStamp(g, kept)
      PROVE IInv' /\ ListsAdvance
  <2>1. ~run[g].stored
    BY <1>2 DEF RankAndStamp, Moves, IInv, RunInv
  <2>2. QED
    BY <1>2, <2>1, GenerationKeepsInv
    DEF RankAndStamp, Moves, IInv, ControlTypeOK, PcStates
<1>3. ASSUME NEW g \in Generations, NEW o \in Outcomes, Store(g, o)
      PROVE IInv' /\ ListsAdvance
  <2>1. ~run[g].stored /\ pc[g] = "store" /\ pc'[g] \in {"audit", "serverError"}
    BY <1>3 DEF Store, Moves, Resume, IInv, RunInv, ControlTypeOK
  <2>2. \/ run' = run
        \/ run' = [run EXCEPT ![g] = [stored |-> TRUE, tasks |-> emitted[g]]]
    BY <1>3 DEF Store
  <2>3. /\ UNCHANGED <<clock, emitted, stamp, readerVars>>
        /\ pc' \in [Generations -> PcStates]
        /\ \A h \in Generations : h # g => pc'[h] = pc[h]
    BY <1>3 DEF Store, Moves, Resume, IInv, ControlTypeOK, PcStates
  <2>4. /\ DOMAIN run' = Generations
        /\ \A h \in Generations : h # g => run'[h] = run[h]
        /\ run'[g].stored => run'[g].tasks = emitted'[g]
    BY <2>1, <2>2, <2>3 DEF IInv, ControlTypeOK
  <2>5. QED
    BY <2>1, <2>3, <2>4, GenerationKeepsInv DEF IInv, ControlTypeOK
<1>4. ASSUME NEW r \in Readers, SelectLatest(r) PROVE IInv' /\ ListsAdvance
  <2>1. PICK g \in Newest : latest' = [latest EXCEPT ![r] = g]
    BY <1>4 DEF SelectLatest
  <2>2. /\ g \in Generations /\ run[g].stored
        /\ \A h \in Generations : run[h].stored => stamp[h] <= stamp[g]
    BY DEF Newest, StoredRuns
  <2>3. ControlTypeOK' /\ RunInv'
    BY <1>4, <2>1, <2>2 DEF SelectLatest, IInv, ControlTypeOK, RunInv, ReaderStates
  <2>4. ReaderInv'
    BY <1>4, <2>1, <2>2 DEF SelectLatest, IInv, ControlTypeOK, ReaderInv
  <2>5. ListsAdvance
    BY <1>4 DEF SelectLatest, IInv, ControlTypeOK, ListsAdvance
  <2>6. QED
    BY <2>3, <2>4, <2>5 DEF IInv
<1>5. ASSUME NEW r \in Readers, SelectItems(r) PROVE IInv' /\ ListsAdvance
  <2>1. /\ UNCHANGED <<clock, generationVars, run, latest>>
        /\ reader[r] = "selected"
        /\ reader' = [reader EXCEPT ![r] = "idle"]
        /\ listed' = [listed EXCEPT ![r] = [run |-> latest[r], tasks |-> run[latest[r]].tasks]]
    BY <1>5 DEF SelectItems
  <2>2. latest[r] \in Generations /\ run[latest[r]].stored
    BY <2>1 DEF IInv, ReaderInv
  <2>3. ControlTypeOK' /\ RunInv'
    BY <2>1, <2>2 DEF IInv, ControlTypeOK, RunInv, ReaderStates
  <2>4. ReaderInv'
    BY <2>1, <2>2 DEF IInv, ControlTypeOK, ReaderInv
  <2>5. ListsAdvance
    BY <2>1, <2>2 DEF IInv, ControlTypeOK, ReaderInv, ListsAdvance
  <2>6. QED
    BY <2>3, <2>4, <2>5 DEF IInv
<1>6. CASE Tick \/ UNCHANGED vars
  BY <1>6 DEF Tick, vars, IInv, ControlTypeOK, RunInv, ReaderInv, ListsAdvance
<1>7. QED
  BY <1>1, <1>2, <1>3, <1>4, <1>5, <1>6 DEF Next

LEMMA InvariantHolds == Spec => []IInv
  BY InvInit, InvNext, PTL DEF Spec

(***************************************************************************)
(* The safety properties.                                                  *)
(***************************************************************************)
\* A reader is shown everything its generation emitted, between whatever statements of
\* whatever generations its two SELECTs fall.
THEOREM ListsWhole == Spec => []ListedIsWhole
<1>1. IInv => ListedIsWhole
  BY DEF IInv, ControlTypeOK, RunInv, ReaderInv, ListedIsWhole
<1>2. QED
  BY <1>1, InvariantHolds, PTL

\* The queue a reader sees is never replaced by one that was completed earlier.
THEOREM ListsNeverGoBack == Spec => ListNeverGoesBack
<1>1. IInv /\ [Next]_vars =>
        \A r \in Readers :
          listed[r].run # NoRun => stamp'[listed[r].run] <= stamp'[listed'[r].run]
  BY InvNext DEF ListsAdvance
<1>2. QED
  BY <1>1, InvariantHolds, PTL DEF Spec, ListNeverGoesBack

(***************************************************************************)
(* Induction.                                                              *)
(***************************************************************************)
\* Every nonempty set of natural numbers has a least element.
LEMMA Least ==
  ASSUME NEW T \in SUBSET Nat, T # {}
  PROVE  \E n \in T : \A m \in T : ~(m < n)
<1> DEFINE R == OpToRel(<, Nat)
<1>1. \A x, y \in Nat : x < y => <<x, y>> \in R
  BY DEF OpToRel
<1>2. IsWellFoundedOn(R, Nat)
  BY NatLessThanWellFounded
<1> HIDE DEF R
<1>3. \A RR, S, TT : IsWellFoundedOn(RR, S) /\ TT \subseteq S /\ TT # {} =>
        \E x \in TT : \A y \in TT : ~(<<y, x>> \in RR)
  BY WFMin
<1>4. \E x \in T : \A y \in T : ~(<<y, x>> \in R)
  BY <1>2, <1>3
<1>5. QED
  BY <1>1, <1>4

\* Induction over the natural numbers, for a set.
LEMMA SetInduction ==
  ASSUME NEW T, 0 \in T, \A n \in Nat : n \in T => n + 1 \in T
  PROVE  Nat \subseteq T
<1> SUFFICES ASSUME Nat \ T # {} PROVE FALSE
  OBVIOUS
<1>1. PICK n \in Nat \ T : \A m \in Nat \ T : ~(m < n)
  <2>1. Nat \ T \in SUBSET Nat
    OBVIOUS
  <2>2. QED
    BY <2>1, Least
<1>2. n # 0 /\ n - 1 \in Nat /\ n - 1 < n
  OBVIOUS
<1>3. n - 1 \in T
  BY <1>1, <1>2
<1>4. (n - 1) + 1 = n
  OBVIOUS
<1>5. QED
  BY <1>2, <1>3, <1>4

(***************************************************************************)
(* UnionPairs.                                                             *)
(***************************************************************************)
Merging(classes, pairs, f, S) ==
  f = [s \in S |-> IF s = {} THEN classes
                   ELSE LET p == CHOOSE p \in s : TRUE IN Union(f[s \ {p}], p[1], p[2])]

\* The fold over the pairs is defined, since they are finitely many.
LEMMA MergingExists ==
  ASSUME NEW classes, NEW pairs, IsFiniteSet(pairs)
  PROVE  \E f : Merging(classes, pairs, f, SUBSET pairs)
<1> DEFINE Upto(n) == {s \in SUBSET pairs : Cardinality(s) <= n}
           First(s) == CHOOSE p \in s : TRUE
           Solved(n) == \E f : Merging(classes, pairs, f, Upto(n))
           T == {n \in Nat : Solved(n)}
<1>1. \A s \in SUBSET pairs : /\ IsFiniteSet(s) /\ Cardinality(s) \in Nat
                              /\ Cardinality(s) <= Cardinality(pairs)
                              /\ Cardinality(s) = 0 <=> s = {}
  BY FS_Subset, FS_CardinalityType, FS_EmptySet
<1>2. \A s \in SUBSET pairs : s # {} =>
        /\ First(s) \in s /\ s \ {First(s)} \in SUBSET pairs
        /\ Cardinality(s \ {First(s)}) = Cardinality(s) - 1
  BY <1>1, FS_RemoveElement
<1> HIDE DEF First
<1>3. 0 \in T
  <2> DEFINE f == [s \in Upto(0) |-> classes]
  <2>1. \A s \in Upto(0) : s = {}
    BY <1>1
  <2>2. Merging(classes, pairs, f, Upto(0))
    BY <2>1 DEF Merging
  <2>3. QED
    BY <2>2
<1>4. \A n \in Nat : n \in T => n + 1 \in T
  <2> HIDE DEF Solved
  <2> SUFFICES ASSUME NEW n \in Nat, Solved(n) PROVE Solved(n + 1)
    OBVIOUS
  <2> PICK f : Merging(classes, pairs, f, Upto(n))
    BY DEF Solved
  <2> DEFINE Step(s) == Union(f[s \ {First(s)}], First(s)[1], First(s)[2])
             g == [s \in Upto(n + 1) |-> IF s = {} THEN classes ELSE Step(s)]
  <2>1. \A s \in Upto(n) : f[s] = IF s = {} THEN classes ELSE Step(s)
    BY DEF Merging, First
  <2>2. \A s \in Upto(n) : s \in Upto(n + 1)
    BY <1>1
  <2>3. \A s \in Upto(n) : g[s] = f[s]
    BY <2>1, <2>2
  <2>4. \A s \in Upto(n + 1) : s # {} => s \ {First(s)} \in Upto(n)
    BY <1>1, <1>2
  <2>5. \A s \in Upto(n + 1) : s # {} =>
          Step(s) = Union(g[s \ {First(s)}], First(s)[1], First(s)[2])
    BY <2>3, <2>4
  <2> HIDE DEF Step
  <2>6. g = [s \in Upto(n + 1) |->
               IF s = {} THEN classes
               ELSE Union(g[s \ {First(s)}], First(s)[1], First(s)[2])]
    BY <2>5
  <2> HIDE DEF g
  <2>7. Merging(classes, pairs, g, Upto(n + 1))
    BY <2>6 DEF Merging, First
  <2>8. QED
    BY <2>7 DEF Solved
<1>5. Cardinality(pairs) \in T
  BY <1>1, <1>3, <1>4, SetInduction
<1>6. Upto(Cardinality(pairs)) = SUBSET pairs
  BY <1>1
<1>7. QED
  BY <1>5, <1>6

\* What holds of the classes it begins with, and of every union with a pair more, holds of
\* what the fold arrives at.
LEMMA UnionPairsInduction ==
  ASSUME NEW classes, NEW pairs, IsFiniteSet(pairs), NEW Q,
         <<{}, classes>> \in Q,
         \A s \in SUBSET pairs : \A p \in s : \A acc :
           <<s \ {p}, acc>> \in Q => <<s, Union(acc, p[1], p[2])>> \in Q
  PROVE  <<pairs, UnionPairs(classes, pairs)>> \in Q
<1> DEFINE First(s) == CHOOSE p \in s : TRUE
           merged == CHOOSE f : Merging(classes, pairs, f, SUBSET pairs)
           T == {n \in Nat : \A s \in SUBSET pairs : Cardinality(s) = n => <<s, merged[s]>> \in Q}
<1>1. Merging(classes, pairs, merged, SUBSET pairs)
  BY MergingExists
<1>2. UnionPairs(classes, pairs) = merged[pairs]
  BY DEF UnionPairs, FoldSet, MapThenFoldSet, Merging
<1> HIDE DEF merged
<1>3. \A s \in SUBSET pairs :
        merged[s] = IF s = {} THEN classes
                    ELSE Union(merged[s \ {First(s)}], First(s)[1], First(s)[2])
  BY <1>1 DEF Merging
<1>4. \A s \in SUBSET pairs : /\ IsFiniteSet(s) /\ Cardinality(s) \in Nat
                              /\ Cardinality(s) = 0 <=> s = {}
  BY FS_Subset, FS_CardinalityType, FS_EmptySet
<1>5. \A s \in SUBSET pairs : s # {} =>
        /\ First(s) \in s /\ s \ {First(s)} \in SUBSET pairs
        /\ Cardinality(s \ {First(s)}) = Cardinality(s) - 1
  BY <1>4, FS_RemoveElement
<1> HIDE DEF First
<1>6. 0 \in T
  BY <1>3, <1>4
<1>7. \A n \in Nat : n \in T => n + 1 \in T
  <2> SUFFICES ASSUME NEW n \in Nat, n \in T, NEW s \in SUBSET pairs, Cardinality(s) = n + 1
               PROVE  <<s, merged[s]>> \in Q
    OBVIOUS
  <2>1. s # {} /\ Cardinality(s \ {First(s)}) = n
    BY <1>4, <1>5
  <2>2. <<s \ {First(s)}, merged[s \ {First(s)}]>> \in Q
    BY <1>5, <2>1
  <2>3. QED
    BY <1>3, <1>5, <2>1, <2>2
<1>8. Cardinality(pairs) \in T
  BY <1>4, <1>6, <1>7, SetInduction
<1>9. QED
  BY <1>2, <1>8

(***************************************************************************)
(* Partitions of the records.                                              *)
(***************************************************************************)
\* Every record's class is named by one of its members.
IsPartition(classes, D) == classes \in [D -> D] /\ \A i \in D : classes[classes[i]] = classes[i]
Coarsens(coarse, fine, D) == \A i, j \in D : fine[i] = fine[j] => coarse[i] = coarse[j]
Alone(classes, i, D) == \A j \in D \ {i} : classes[j] # classes[i]

\* One union: it joins the two, takes nothing apart, and leaves the others alone.
LEMMA UnionOfTwo ==
  ASSUME NEW D, NEW classes, IsPartition(classes, D), NEW i \in D, NEW j \in D
  PROVE  LET joined == Union(classes, i, j) IN
         /\ IsPartition(joined, D)
         /\ Coarsens(joined, classes, D)
         /\ joined[i] = joined[j]
         /\ \A k \in D \ {i, j} : Alone(classes, k, D) => Alone(joined, k, D)
<1> DEFINE joined == Union(classes, i, j)
<1>1. joined = [k \in D |-> IF classes[k] = classes[j] THEN classes[i] ELSE classes[k]]
  BY DEF Union, IsPartition
<1> HIDE DEF joined
<1>2. IsPartition(joined, D)
  BY <1>1 DEF IsPartition
<1>3. Coarsens(joined, classes, D) /\ joined[i] = joined[j]
  BY <1>1 DEF Coarsens, IsPartition
<1>4. \A k \in D \ {i, j} : Alone(classes, k, D) => Alone(joined, k, D)
  BY <1>1 DEF Alone, IsPartition
<1>5. QED
  BY <1>2, <1>3, <1>4 DEF joined

\* Any number of unions.
LEMMA UnionOfPairs ==
  ASSUME NEW D, NEW classes, IsPartition(classes, D), NEW pairs \in SUBSET (D \X D),
         IsFiniteSet(pairs)
  PROVE  LET joined == UnionPairs(classes, pairs) IN
         /\ IsPartition(joined, D)
         /\ Coarsens(joined, classes, D)
         /\ \A p \in pairs : joined[p[1]] = joined[p[2]]
         /\ \A k \in D : /\ \A p \in pairs : k # p[1] /\ k # p[2]
                         /\ Alone(classes, k, D)
                         => Alone(joined, k, D)
<1> DEFINE Rest == {k \in D : \A p \in pairs : k # p[1] /\ k # p[2]}
           Good(s, acc) == /\ IsPartition(acc, D)
                           /\ Coarsens(acc, classes, D)
                           /\ \A p \in s : acc[p[1]] = acc[p[2]]
                           /\ \A k \in Rest : Alone(classes, k, D) => Alone(acc, k, D)
           Q == {q \in (SUBSET pairs) \X [D -> D] : Good(q[1], q[2])}
<1>1. <<{}, classes>> \in Q
  BY DEF IsPartition, Coarsens
<1>2. ASSUME NEW s \in SUBSET pairs, NEW p \in s, NEW acc, <<s \ {p}, acc>> \in Q
      PROVE  <<s, Union(acc, p[1], p[2])>> \in Q
  <2> DEFINE joined == Union(acc, p[1], p[2])
  <2>1. Good(s \ {p}, acc) /\ p[1] \in D /\ p[2] \in D
    BY <1>2
  <2>2. /\ IsPartition(joined, D)
        /\ Coarsens(joined, acc, D)
        /\ joined[p[1]] = joined[p[2]]
        /\ \A k \in D \ {p[1], p[2]} : Alone(acc, k, D) => Alone(joined, k, D)
    BY <2>1, UnionOfTwo
  <2> HIDE DEF joined
  <2>3. Coarsens(joined, classes, D)
    BY <2>1, <2>2 DEF Coarsens
  <2>4. \A q \in s : joined[q[1]] = joined[q[2]]
    BY <2>1, <2>2 DEF Coarsens
  <2>5. \A k \in Rest : Alone(classes, k, D) => Alone(joined, k, D)
    BY <2>1, <2>2
  <2>6. Good(s, joined) /\ joined \in [D -> D]
    BY <2>2, <2>3, <2>4, <2>5 DEF IsPartition
  <2>7. QED
    BY <2>6 DEF joined
<1> HIDE DEF Q
<1>3. <<pairs, UnionPairs(classes, pairs)>> \in Q
  BY <1>1, <1>2, UnionPairsInduction
<1>4. Good(pairs, UnionPairs(classes, pairs))
  BY <1>3 DEF Q
<1>5. QED
  BY <1>4

(***************************************************************************)
(* Clustering: what Classes makes of the records of a retrieval.           *)
(***************************************************************************)
Sequence(records) == Len(records) \in Nat /\ DOMAIN records = 1..Len(records)

\* A record without IDs that is worded like two tracked ones, and like no other report.
Ambiguous(records, i, j, k) ==
  /\ i \in Idless(records) /\ Peers(records, i) = {}
  /\ j \in Worded(records, i) /\ k \in Worded(records, i)

\* There are finitely many records.
LEMMA RecordsFinite ==
  ASSUME NEW records, Sequence(records)
  PROVE  /\ IsFiniteSet(Workplace(records))
         /\ \A S \in SUBSET (Workplace(records) \X Workplace(records)) : IsFiniteSet(S)
<1>1. IsFiniteSet(1..Len(records)) /\ Workplace(records) \in SUBSET (1..Len(records))
  BY FS_Interval DEF Sequence, Workplace
<1>2. IsFiniteSet(Workplace(records))
  BY <1>1, FS_Subset
<1>3. IsFiniteSet(Workplace(records) \X Workplace(records))
  BY <1>2, FS_Product
<1>4. QED
  BY <1>2, <1>3, FS_Subset

\* The exact and the reciprocal pairs: they put shared IDs together, and an ambiguous
\* record is in none of them.
LEMMA Paired ==
  ASSUME NEW records, Sequence(records)
  PROVE  LET D == Workplace(records)
             paired == UnionPairs(UnionPairs(Singletons(records), ExactPairs(records)),
                                  ReciprocalPairs(records))
         IN /\ IsPartition(paired, D)
            /\ \A i, j \in D : SharesId(records[i], records[j]) => paired[i] = paired[j]
            /\ \A i, j, k : Ambiguous(records, i, j, k) => Alone(paired, i, D)
<1> DEFINE D == Workplace(records)
           single == Singletons(records)
           exact == UnionPairs(single, ExactPairs(records))
           paired == UnionPairs(exact, ReciprocalPairs(records))
<1>1. IsPartition(single, D) /\ \A i \in D : Alone(single, i, D)
  BY DEF Singletons, IsPartition, Alone
<1>2. /\ ExactPairs(records) \in SUBSET (D \X D) /\ IsFiniteSet(ExactPairs(records))
      /\ ReciprocalPairs(records) \in SUBSET (D \X D) /\ IsFiniteSet(ReciprocalPairs(records))
  <2>1. ExactPairs(records) \in SUBSET (D \X D)
    BY DEF ExactPairs
  <2>2. ReciprocalPairs(records) \in SUBSET (D \X D)
    BY DEF ReciprocalPairs, Idless
  <2>3. QED
    BY <2>1, <2>2, RecordsFinite
<1> HIDE DEF single
<1>3. /\ IsPartition(exact, D)
      /\ \A p \in ExactPairs(records) : exact[p[1]] = exact[p[2]]
      /\ \A k \in D : /\ \A p \in ExactPairs(records) : k # p[1] /\ k # p[2]
                      /\ Alone(single, k, D)
                      => Alone(exact, k, D)
  BY <1>1, <1>2, UnionOfPairs
<1> HIDE DEF exact
<1>4. /\ IsPartition(paired, D)
      /\ Coarsens(paired, exact, D)
      /\ \A k \in D : /\ \A p \in ReciprocalPairs(records) : k # p[1] /\ k # p[2]
                      /\ Alone(exact, k, D)
                      => Alone(paired, k, D)
  BY <1>2, <1>3, UnionOfPairs
<1> HIDE DEF paired
<1>5. ASSUME NEW i \in D, NEW j \in D, SharesId(records[i], records[j])
      PROVE  paired[i] = paired[j]
  <2>1. D \subseteq Nat
    BY DEF Workplace, Sequence
  <2>2. SharesId(records[j], records[i])
    BY <1>5 DEF SharesId, Overlap
  <2>3. CASE i < j
    <3>1. <<i, j>> \in ExactPairs(records)
      BY <1>5, <2>3 DEF ExactPairs
    <3>2. QED
      BY <3>1, <1>3, <1>4 DEF Coarsens
  <2>4. CASE j < i
    <3>1. <<j, i>> \in ExactPairs(records)
      BY <2>2, <2>4 DEF ExactPairs
    <3>2. QED
      BY <3>1, <1>3, <1>4 DEF Coarsens
  <2>5. QED
    BY <2>1, <2>3, <2>4
<1>6. ASSUME NEW i, NEW j, NEW k, Ambiguous(records, i, j, k)
      PROVE  Alone(paired, i, D)
  <2>1. i \in D /\ records[i].ids = {} /\ Peers(records, i) = {}
    BY <1>6 DEF Ambiguous, Idless
  <2>2. \A p \in ExactPairs(records) : i # p[1] /\ i # p[2]
    BY <2>1 DEF ExactPairs, SharesId, Overlap
  <2>3. \A p \in ReciprocalPairs(records) : i # p[1] /\ i # p[2]
    BY <2>1 DEF ReciprocalPairs
  <2>4. QED
    BY <1>1, <1>3, <1>4, <2>1, <2>2, <2>3
<1>7. QED
  BY <1>4, <1>5, <1>6 DEF paired, exact, single

\* A record without IDs joins at most one class.  It takes nothing apart, it joins no other
\* record that is alone, and an ambiguous one joins nothing.
LEMMA JoinIs ==
  ASSUME NEW records, Sequence(records), NEW m \in Idless(records),
         NEW classes, IsPartition(classes, Workplace(records))
  PROVE  LET D == Workplace(records)
             joined == Join(records, classes, m)
         IN /\ IsPartition(joined, D)
            /\ Coarsens(joined, classes, D)
            /\ \A i \in Idless(records) \ {m} : Alone(classes, i, D) => Alone(joined, i, D)
            /\ \A j, k : Ambiguous(records, m, j, k) /\ classes[j] # classes[k] => joined = classes
<1> DEFINE D == Workplace(records)
           joined == Join(records, classes, m)
           worded == Components(classes, Worded(records, m))
           named == Components(classes, Named(records, m))
           Into(members) == UnionPairs(classes, {m} \X Components(classes, members))
<1>1. m \in D /\ Worded(records, m) \subseteq Tracked(records)
      /\ Named(records, m) \subseteq Tracked(records)
      /\ Tracked(records) \subseteq D \ Idless(records)
  BY DEF Idless, Worded, Named, Tracked
<1>2. ASSUME NEW members \in SUBSET Tracked(records), Cardinality(Components(classes, members)) = 1
      PROVE  /\ IsPartition(Into(members), D)
             /\ Coarsens(Into(members), classes, D)
             /\ \A i \in Idless(records) \ {m} : Alone(classes, i, D) => Alone(Into(members), i, D)
  <2> DEFINE pairs == {m} \X Components(classes, members)
  <2>1. Components(classes, members) \in SUBSET D
    BY <1>1 DEF Components, IsPartition
  <2>2. pairs \in SUBSET (D \X D) /\ IsFiniteSet(pairs)
    <3>1. pairs \in SUBSET (D \X D)
      BY <1>1, <2>1
    <3>2. QED
      BY <3>1, RecordsFinite
  <2>3. \A i \in Idless(records) \ {m} : Alone(classes, i, D) =>
          \A p \in pairs : i # p[1] /\ i # p[2]
    <3> SUFFICES ASSUME NEW i \in Idless(records) \ {m}, Alone(classes, i, D), NEW p \in pairs
                 PROVE  i # p[1] /\ i # p[2]
      OBVIOUS
    <3>1. PICK t \in members : p[2] = classes[t] /\ p[1] = m
      BY DEF Components
    <3>2. t \in D /\ t # i /\ i \in D
      BY <1>1 DEF Idless
    <3>3. classes[t] # classes[i] /\ classes[classes[t]] = classes[t]
      BY <3>2 DEF Alone, IsPartition
    <3>4. QED
      BY <3>1, <3>3
  <2> HIDE DEF pairs
  <2>4. LET into == UnionPairs(classes, pairs) IN
        /\ IsPartition(into, D)
        /\ Coarsens(into, classes, D)
        /\ \A k \in D : /\ \A p \in pairs : k # p[1] /\ k # p[2]
                        /\ Alone(classes, k, D)
                        => Alone(into, k, D)
    BY <2>2, UnionOfPairs
  <2>5. \A i \in Idless(records) \ {m} : i \in D
    BY DEF Idless
  <2>6. QED
    BY <2>3, <2>4, <2>5 DEF pairs
<1>3. \/ Cardinality(worded) = 1 /\ joined = Into(Worded(records, m))
      \/ Cardinality(worded) # 1 /\ worded = {} /\ Cardinality(named) = 1
         /\ joined = Into(Named(records, m))
      \/ joined = classes /\ Cardinality(worded) # 1
  BY DEF Join
<1>4. Coarsens(classes, classes, D)
  BY DEF Coarsens
<1>5. ASSUME NEW j, NEW k, Ambiguous(records, m, j, k), classes[j] # classes[k]
      PROVE  joined = classes
  <2>1. classes[j] \in worded /\ classes[k] \in worded
    BY <1>5 DEF Ambiguous, Components
  <2>2. IsFiniteSet(worded)
    <3>1. worded \in SUBSET D
      BY <1>1 DEF Components, IsPartition
    <3>2. QED
      BY <3>1, RecordsFinite, FS_Subset
  <2> HIDE DEF worded
  <2>3. Cardinality(worded) # 1
    BY <1>5, <2>1, <2>2, FS_Singleton
  <2>4. QED
    BY <1>3, <2>1, <2>3
<1> HIDE DEF worded, named, joined, Into
<1>6. /\ IsPartition(joined, D)
      /\ Coarsens(joined, classes, D)
      /\ \A i \in Idless(records) \ {m} : Alone(classes, i, D) => Alone(joined, i, D)
  <2>1. CASE joined = classes
    BY <2>1, <1>4
  <2>2. CASE Cardinality(worded) = 1 /\ joined = Into(Worded(records, m))
    BY <2>2, <1>1, <1>2 DEF worded
  <2>3. CASE Cardinality(named) = 1 /\ joined = Into(Named(records, m))
    BY <2>3, <1>1, <1>2 DEF named
  <2>4. QED
    BY <1>3, <2>1, <2>2, <2>3
<1>7. QED
  BY <1>5, <1>6 DEF joined

\* The classes after the first n records had their turn.
Joining(records, paired, f) ==
  f = [n \in 0..Len(records) |->
         IF n = 0 THEN paired
         ELSE IF n \in Idless(records) THEN Join(records, f[n - 1], n)
         ELSE f[n - 1]]

LEMMA JoiningExists ==
  ASSUME NEW records, NEW paired, Len(records) \in Nat
  PROVE  \E f : Joining(records, paired, f)
<1> DEFINE Turn(f, n) == IF n = 0 THEN paired
                         ELSE IF n \in Idless(records) THEN Join(records, f[n - 1], n)
                         ELSE f[n - 1]
           Solves(f, k) == f = [n \in 0..k |-> Turn(f, n)]
           Solved(k) == \E f : Solves(f, k)
           T == {k \in Nat : Solved(k)}
<1>1. 0 \in T
  <2>1. Solves([n \in 0..0 |-> paired], 0)
    OBVIOUS
  <2>2. QED
    BY <2>1
<1>2. \A k \in Nat : k \in T => k + 1 \in T
  <2> HIDE DEF Solved
  <2> SUFFICES ASSUME NEW k \in Nat, Solved(k) PROVE Solved(k + 1)
    OBVIOUS
  <2> PICK f : Solves(f, k)
    BY DEF Solved
  <2> DEFINE g == [n \in 0..(k + 1) |-> Turn(f, n)]
  <2>1. \A n \in 0..k : f[n] = Turn(f, n)
    OBVIOUS
  <2> HIDE DEF Turn
  <2>2. \A n \in 0..k : g[n] = f[n]
    BY <2>1
  <2>3. \A n \in 0..(k + 1) : n # 0 => g[n - 1] = f[n - 1]
    BY <2>2
  <2>4. \A n \in 0..(k + 1) : Turn(g, n) = Turn(f, n)
    <3> HIDE DEF g
    <3> QED
      BY <2>3 DEF Turn
  <2>5. g = [n \in 0..(k + 1) |-> Turn(g, n)]
    BY <2>4
  <2> HIDE DEF g
  <2>6. Solves(g, k + 1)
    BY <2>5
  <2>7. QED
    BY <2>6 DEF Solved
<1>3. Len(records) \in T
  BY <1>1, <1>2, SetInduction
<1>4. QED
  BY <1>3 DEF Joining

\* The classes of the records: shared IDs are together, and a report that fits two classes
\* of tracked records is in neither.
LEMMA ClassesAre ==
  ASSUME NEW records, Sequence(records)
  PROVE  LET D == Workplace(records)
             classes == Classes(records)
         IN /\ IsPartition(classes, D)
            /\ \A i, j \in D : SharesId(records[i], records[j]) => classes[i] = classes[j]
            /\ \A i, j, k : Ambiguous(records, i, j, k) /\ classes[j] # classes[k] =>
                              Alone(classes, i, D)
<1> DEFINE D == Workplace(records)
           paired == UnionPairs(UnionPairs(Singletons(records), ExactPairs(records)),
                                ReciprocalPairs(records))
           joined == CHOOSE f : Joining(records, paired, f)
           classes == Classes(records)
           Good(n) ==
             /\ IsPartition(joined[n], D)
             /\ Coarsens(joined[n], paired, D)
             /\ \A i, j, k : Ambiguous(records, i, j, k) /\ joined[n][j] # joined[n][k] =>
                               Alone(joined[n], i, D)
           T == {n \in Nat : n <= Len(records) => Good(n)}
<1> USE DEF Sequence
<1>1. /\ IsPartition(paired, D)
      /\ \A i, j \in D : SharesId(records[i], records[j]) => paired[i] = paired[j]
      /\ \A i, j, k : Ambiguous(records, i, j, k) => Alone(paired, i, D)
  BY Paired
<1>2. classes = joined[Len(records)]
  BY DEF Classes, Joining
<1> HIDE DEF paired
<1>3. Joining(records, paired, joined)
  BY JoiningExists
<1> HIDE DEF joined
<1>4. \A n \in 0..Len(records) :
        joined[n] = IF n = 0 THEN paired
                    ELSE IF n \in Idless(records) THEN Join(records, joined[n - 1], n)
                    ELSE joined[n - 1]
  BY <1>3 DEF Joining
<1>5. 0 \in T
  <2>1. joined[0] = paired
    BY <1>4
  <2>2. QED
    BY <1>1, <2>1 DEF Coarsens
<1>6. \A n \in Nat : n \in T => n + 1 \in T
  <2> SUFFICES ASSUME NEW n \in Nat, n + 1 <= Len(records), Good(n) PROVE Good(n + 1)
    OBVIOUS
  <2>1. joined[n + 1] = IF n + 1 \in Idless(records) THEN Join(records, joined[n], n + 1)
                        ELSE joined[n]
    BY <1>4
  <2>2. CASE n + 1 \notin Idless(records)
    BY <2>1, <2>2
  <2>3. CASE n + 1 \in Idless(records)
    <3> DEFINE old == joined[n]
               new == joined[n + 1]
               m == n + 1
    <3>1. new = Join(records, old, m) /\ m \in Idless(records)
      BY <2>1, <2>3
    <3>2. Good(n) /\ IsPartition(old, D)
      OBVIOUS
    <3> HIDE DEF old, new, m
    <3>3. /\ IsPartition(new, D)
          /\ Coarsens(new, old, D)
          /\ \A i \in Idless(records) \ {m} : Alone(old, i, D) => Alone(new, i, D)
          /\ \A j, k : Ambiguous(records, m, j, k) /\ old[j] # old[k] => new = old
      BY <3>1, <3>2, JoinIs
    <3>4. Coarsens(new, paired, D)
      BY <3>2, <3>3 DEF Coarsens, old
    <3>5. ASSUME NEW i, NEW j, NEW k, Ambiguous(records, i, j, k), new[j] # new[k]
          PROVE  Alone(new, i, D)
      <4>1. i \in Idless(records) /\ j \in D /\ k \in D
        BY <3>5 DEF Ambiguous, Worded, Tracked
      <4>2. old[j] # old[k]
        BY <3>3, <3>5, <4>1 DEF Coarsens
      <4>3. Alone(old, i, D)
        BY <3>2, <3>5, <4>2 DEF old
      <4>4. QED
        BY <3>3, <3>5, <4>1, <4>2, <4>3
    <3>6. QED
      BY <3>3, <3>4, <3>5 DEF new, m
  <2>4. QED
    BY <2>2, <2>3
<1>7. Good(Len(records))
  <2> HIDE DEF Good
  <2>1. Len(records) \in T
    BY <1>5, <1>6, SetInduction
  <2>2. QED
    BY <2>1
<1>8. \A i, j \in D : SharesId(records[i], records[j]) => classes[i] = classes[j]
  BY <1>1, <1>2, <1>7 DEF Coarsens
<1>9. QED
  BY <1>2, <1>7, <1>8

(***************************************************************************)
(* Tasks.                                                                  *)
(***************************************************************************)
\* The clusters are the classes.
LEMMA ClustersAre ==
  ASSUME NEW records, Sequence(records)
  PROVE  /\ \A c \in WorkplaceClusters(records) : c # {} /\ c \subseteq Workplace(records)
         /\ \A c \in WorkplaceClusters(records) : \A i, j \in Workplace(records) :
              i \in c => (j \in c <=> Classes(records)[i] = Classes(records)[j])
         /\ \A c, d \in WorkplaceClusters(records) : c # d => c \intersect d = {}
         /\ \A i \in Workplace(records) : \E c \in WorkplaceClusters(records) : i \in c
<1> DEFINE D == Workplace(records)
           classes == Classes(records)
<1>1. DOMAIN classes = D
  BY ClassesAre DEF IsPartition
<1>2. WorkplaceClusters(records) = {{j \in D : classes[j] = classes[i]} : i \in D}
  BY <1>1 DEF WorkplaceClusters
<1> HIDE DEF classes
<1>3. \A c \in WorkplaceClusters(records) :
        \E i \in D : c = {j \in D : classes[j] = classes[i]}
  BY <1>2
<1>4. \A c \in WorkplaceClusters(records) : c # {} /\ c \subseteq D
  BY <1>3
<1>5. \A c \in WorkplaceClusters(records) : \A i, j \in D :
        i \in c => (j \in c <=> classes[i] = classes[j])
  BY <1>3
<1>6. ASSUME NEW c \in WorkplaceClusters(records), NEW d \in WorkplaceClusters(records),
             c \intersect d # {}
      PROVE  c = d
  <2>1. PICK i \in D : c = {j \in D : classes[j] = classes[i]}
    BY <1>3
  <2>2. PICK j \in D : d = {k \in D : classes[k] = classes[j]}
    BY <1>3
  <2>3. classes[i] = classes[j]
    BY <1>6, <2>1, <2>2
  <2>4. QED
    BY <2>1, <2>2, <2>3
<1>7. ASSUME NEW i \in D PROVE \E c \in WorkplaceClusters(records) : i \in c
  <2> DEFINE c == {j \in D : classes[j] = classes[i]}
  <2>1. c \in WorkplaceClusters(records)
    BY <1>2
  <2>2. i \in c
    OBVIOUS
  <2>3. QED
    BY <2>1, <2>2
<1>8. QED
  BY <1>4, <1>5, <1>6, <1>7 DEF classes

\* The records of the workplace in a task.
Core(records, t) == t \intersect Workplace(records)

\* A task is a cluster with documents, each of which names that cluster and no other.
LEMMA TasksAre ==
  ASSUME NEW records, Sequence(records), NEW t \in Tasks(records)
  PROVE  /\ t \subseteq DOMAIN records
         /\ Core(records, t) \in WorkplaceClusters(records)
         /\ Core(records, t) = {i \in t : records[i].provider # "document"}
         /\ \A d \in t \ Core(records, t) :
              /\ d \in Documents(records)
              /\ NamedBy(records, WorkplaceClusters(records), d) = {Core(records, t)}
              /\ Overlap(records[d].ids, ClusterIds(records, Core(records, t)))
         /\ t = Core(records, t) \union
                  {d \in Documents(records) :
                     Core(records, t) \in NamedBy(records, WorkplaceClusters(records), d)}
<1> DEFINE clusters == WorkplaceClusters(records)
           Naming(c) == {d \in Documents(records) : c \in NamedBy(records, clusters, d)}
<1>1. PICK c \in clusters : t = c \union Naming(c)
  BY DEF Tasks
<1>2. c \subseteq Workplace(records)
  BY ClustersAre
<1>3. /\ Workplace(records) \subseteq DOMAIN records /\ Documents(records) \subseteq DOMAIN records
      /\ Documents(records) \intersect Workplace(records) = {}
  BY DEF Workplace, Documents
<1>4. Naming(c) \subseteq Documents(records)
  OBVIOUS
<1>5. \A d \in Naming(c) :
        /\ NamedBy(records, clusters, d) = {c}
        /\ Overlap(records[d].ids, ClusterIds(records, c))
  <2> SUFFICES ASSUME NEW d \in Naming(c)
               PROVE  /\ NamedBy(records, clusters, d) = {c}
                      /\ Overlap(records[d].ids, ClusterIds(records, c))
    OBVIOUS
  <2> DEFINE found == {x \in clusters : Overlap(records[d].ids, ClusterIds(records, x))}
  <2>1. NamedBy(records, clusters, d) = found /\ c \in found /\ Cardinality(found) = 1
    BY DEF NamedBy
  <2>2. IsFiniteSet(found)
    <3>1. IsFiniteSet(SUBSET Workplace(records))
      BY RecordsFinite, FS_SUBSET
    <3>2. found \in SUBSET SUBSET Workplace(records)
      BY ClustersAre
    <3> HIDE DEF found
    <3>3. QED
      BY <3>1, <3>2, FS_Subset
  <2>3. Overlap(records[d].ids, ClusterIds(records, c))
    BY <2>1
  <2> HIDE DEF found
  <2>4. found = {c}
    BY <2>1, <2>2, FS_Singleton
  <2>5. QED
    BY <2>1, <2>3, <2>4
<1> HIDE DEF Naming, clusters
<1>6. Core(records, t) = c
  BY <1>1, <1>2, <1>3, <1>4 DEF Core
<1>7. c = {i \in t : records[i].provider # "document"}
  BY <1>1, <1>2, <1>3, <1>4, <1>6 DEF Workplace, Documents
<1>8. t \subseteq DOMAIN records /\ \A d \in t \ c : d \in Naming(c)
  BY <1>1, <1>2, <1>3, <1>4
<1>9. \A d \in t \ c : d \in Documents(records)
  BY <1>4, <1>8
<1>10. QED
  BY <1>1, <1>5, <1>6, <1>7, <1>8, <1>9 DEF Naming, clusters

\* No record is in two tasks, and records that share an ID are in the same one.
LEMMA TasksAreWhole ==
  ASSUME NEW records, Sequence(records)
  PROVE  /\ \A t, u \in Tasks(records) : t # u => t \intersect u = {}
         /\ \A i, j \in Workplace(records) : \A t \in Tasks(records) :
              SharesId(records[i], records[j]) /\ i \in t => j \in t
<1> DEFINE Work(t) == Core(records, t)
<1>1. ASSUME NEW t \in Tasks(records), NEW u \in Tasks(records), t # u, NEW d \in t \intersect u
      PROVE  FALSE
  <2>1. /\ Work(t) \in WorkplaceClusters(records) /\ Work(u) \in WorkplaceClusters(records)
        /\ t = Work(t) \union {x \in Documents(records) :
                                 Work(t) \in NamedBy(records, WorkplaceClusters(records), x)}
        /\ u = Work(u) \union {x \in Documents(records) :
                                 Work(u) \in NamedBy(records, WorkplaceClusters(records), x)}
    BY TasksAre
  <2>2. Work(t) # Work(u)
    BY <1>1, <2>1
  <2>3. Work(t) \intersect Work(u) = {}
    BY <2>1, <2>2, ClustersAre
  <2>4. d \in t \ Work(t) /\ d \in u \ Work(u)
    BY <2>3 DEF Core
  <2>5. /\ NamedBy(records, WorkplaceClusters(records), d) = {Work(t)}
        /\ NamedBy(records, WorkplaceClusters(records), d) = {Work(u)}
    BY <2>4, TasksAre
  <2>6. QED
    BY <2>2, <2>5
<1>2. ASSUME NEW i \in Workplace(records), NEW j \in Workplace(records),
             NEW t \in Tasks(records), SharesId(records[i], records[j]), i \in t
      PROVE  j \in t
  <2>1. Work(t) \in WorkplaceClusters(records) /\ i \in Work(t)
    BY <1>2, TasksAre DEF Core
  <2>2. Classes(records)[i] = Classes(records)[j]
    BY <1>2, ClassesAre
  <2>3. QED
    BY <2>1, <2>2, ClustersAre DEF Core
<1>3. QED
  BY <1>1, <1>2

\* A report worded like two tasks, and like no other report, is in neither.
LEMMA TasksApart ==
  ASSUME NEW records, Sequence(records),
         NEW i \in Idless(records), NEW j \in Workplace(records), NEW k \in Workplace(records),
         Peers(records, i) = {},
         j # k, records[j].ids # {}, records[k].ids # {},
         SameWording(records[i], records[j]), SameWording(records[i], records[k]),
         \A t \in Tasks(records) : ~({j, k} \subseteq t)
  PROVE  \A t \in Tasks(records) : ~({i, j} \subseteq t)
<1>1. Ambiguous(records, i, j, k)
  BY DEF Ambiguous, Worded, Tracked, Idless
<1>2. Classes(records)[j] # Classes(records)[k]
  <2> SUFFICES ASSUME Classes(records)[j] = Classes(records)[k] PROVE FALSE
    OBVIOUS
  <2>1. PICK c \in WorkplaceClusters(records) : j \in c
    BY ClustersAre
  <2>2. k \in c
    BY <2>1, ClustersAre
  <2> DEFINE t == c \union {d \in Documents(records) :
                             c \in NamedBy(records, WorkplaceClusters(records), d)}
  <2>3. t \in Tasks(records)
    BY DEF Tasks
  <2>4. QED
    BY <2>1, <2>2, <2>3
<1>3. i \in Workplace(records) /\ i # j
  BY DEF Idless
<1>4. Classes(records)[i] # Classes(records)[j]
  BY <1>1, <1>2, <1>3, ClassesAre DEF Alone
<1>5. SUFFICES ASSUME NEW t \in Tasks(records), i \in t, j \in t PROVE FALSE
  OBVIOUS
<1>6. Core(records, t) \in WorkplaceClusters(records)
  BY TasksAre
<1>7. i \in Core(records, t) /\ j \in Core(records, t)
  BY <1>3, <1>5 DEF Core
<1>8. QED
  BY <1>4, <1>6, <1>7, ClustersAre

\* What a retrieval returns is a sequence of records.
LEMMA EvidenceIsSequence == \A records \in AllEvidence : Sequence(records)
<1>1. \A S : \A records \in Seq(S) : Sequence(records)
  BY DEF Sequence
<1>2. <<>> \in Seq({})
  OBVIOUS
<1>3. \A records \in AllEvidence :
        records = <<>> \/ \E g \in Generations : records \in Retrievals[g]
  BY DEF AllEvidence
<1>4. \A g \in Generations : \A records \in Retrievals[g] :
        records \in Seq({records[i] : i \in DOMAIN records})
  BY EvidenceAssumption
<1>5. QED
  BY <1>1, <1>2, <1>3, <1>4

(***************************************************************************)
(* The whole type invariant, and the clustering of what is retrieved.      *)
(***************************************************************************)
\* A generation is ordered when its batch is stored, which happens once.
OrderInv == \A n \in DOMAIN order : run[order[n]].stored

LEMMA TypeInit == Init => TypeOK /\ OrderInv
<1> SUFFICES ASSUME Init PROVE TypeOK /\ OrderInv
  OBVIOUS
<1>1. <<>> \in AllEvidence /\ {} \in AllTasks
  <2>1. {} \in AllTasks
    BY DEF AllTasks
  <2>2. QED
    BY <2>1 DEF AllEvidence
<1>2. Cardinality({}) = 0
  BY FS_EmptySet
<1>3. order \in Seq(Generations) /\ DOMAIN order = {}
  BY DEF Init
<1>4. QED
  BY <1>1, <1>2, <1>3, BoundsAssumption
  DEF Init, TypeOK, OrderInv, PcStates, ReaderStates, Absent

\* Tasks are sets of records.
LEMMA TasksType == \A records \in AllEvidence : Tasks(records) \in AllTasks
<1> SUFFICES ASSUME NEW records \in AllEvidence PROVE Tasks(records) \in AllTasks
  OBVIOUS
<1>1. \A t \in Tasks(records) : t \subseteq DOMAIN records
  BY EvidenceIsSequence, TasksAre
<1>2. QED
  BY <1>1 DEF AllTasks

LEMMA TypeNext == IInv /\ TypeOK /\ OrderInv /\ [Next]_vars => TypeOK' /\ OrderInv'
<1> SUFFICES ASSUME IInv, TypeOK, OrderInv, [Next]_vars PROVE TypeOK' /\ OrderInv'
  OBVIOUS
<1> USE BoundsAssumption DEF TypeOK, generationVars, stored, readerVars
<1>1. ASSUME NEW g \in Generations,
             BeginGeneration(g) \/ Crash(g) \/ \E o \in Outcomes : AuditGeneration(g, o)
      PROVE  TypeOK' /\ OrderInv'
  <2>1. /\ UNCHANGED <<clock, evidence, emitted, stamp, run, order, reader, latest, listed>>
        /\ pc' \in [Generations -> PcStates]
    BY <1>1 DEF BeginGeneration, Crash, AuditGeneration, Moves, Resume, PcStates
  <2>2. QED
    BY <2>1 DEF OrderInv
<1>2. ASSUME NEW g \in Generations, NEW records \in Retrievals[g], Retrieve(g, records)
      PROVE  TypeOK' /\ OrderInv'
  <2>1. records \in AllEvidence
    BY DEF AllEvidence
  <2>2. QED
    BY <1>2, <2>1 DEF Retrieve, Moves, PcStates, OrderInv
<1>3. ASSUME NEW g \in Generations, NEW kept, RankAndStamp(g, kept)
      PROVE  TypeOK' /\ OrderInv'
  <2>1. kept \in AllTasks
    BY <1>3, TasksType DEF RankAndStamp, AllTasks
  <2>2. emitted' \in [Generations -> AllTasks]
        /\ \A h \in Generations : Cardinality(emitted'[h]) <= MaxItems
    BY <1>3, <2>1 DEF RankAndStamp
  <2>3. QED
    BY <1>3, <2>2 DEF RankAndStamp, Moves, PcStates, OrderInv
<1>4. ASSUME NEW g \in Generations, NEW o \in Outcomes, Store(g, o)
      PROVE  TypeOK' /\ OrderInv'
  <2>1. ~run[g].stored
    BY <1>4 DEF Store, Moves, IInv, RunInv
  <2>2. /\ UNCHANGED <<clock, evidence, emitted, stamp, reader, latest, listed>>
        /\ pc' \in [Generations -> PcStates]
    BY <1>4 DEF Store, Moves, Resume, PcStates
  <2>3. CASE UNCHANGED stored
    BY <2>2, <2>3 DEF OrderInv
  <2>4. CASE /\ run' = [run EXCEPT ![g] = [stored |-> TRUE, tasks |-> emitted[g]]]
             /\ order' = Append(order, g)
    <3>1. run' \in [Generations -> [stored : BOOLEAN, tasks : AllTasks]]
      BY <2>4
    <3>2. /\ order' \in Seq(Generations) /\ DOMAIN order' = 1..(Len(order) + 1)
          /\ \A n \in DOMAIN order : order'[n] = order[n] /\ order[n] # g
          /\ order'[Len(order) + 1] = g /\ DOMAIN order = 1..Len(order) /\ Len(order) \in Nat
      BY <2>1, <2>4 DEF OrderInv
    <3>3. \A m, n \in DOMAIN order' : order'[m] = order'[n] => m = n
      <4>1. \A n \in DOMAIN order' : n \in DOMAIN order \/ n = Len(order) + 1
        BY <3>2
      <4>2. \A m, n \in DOMAIN order : order'[m] = order'[n] => m = n
        BY <3>2
      <4> SUFFICES ASSUME NEW m \in DOMAIN order', NEW n \in DOMAIN order', order'[m] = order'[n]
                   PROVE  m = n
        OBVIOUS
      <4>3. QED
        BY <3>2, <4>1, <4>2
    <3>4. OrderInv'
      BY <2>4, <3>2 DEF OrderInv
    <3>5. QED
      BY <2>2, <3>1, <3>2, <3>3, <3>4
  <2>5. QED
    BY <1>4, <2>3, <2>4 DEF Store
<1>5. ASSUME NEW r \in Readers, SelectLatest(r) PROVE TypeOK' /\ OrderInv'
  BY <1>5 DEF SelectLatest, Newest, StoredRuns, ReaderStates, OrderInv
<1>6. ASSUME NEW r \in Readers, SelectItems(r) PROVE TypeOK' /\ OrderInv'
  <2>1. latest[r] \in Generations
    BY <1>6 DEF SelectItems, IInv, ReaderInv
  <2>2. QED
    BY <1>6, <2>1 DEF SelectItems, ReaderStates, OrderInv
<1>7. CASE Tick \/ UNCHANGED vars
  BY <1>7 DEF Tick, vars, OrderInv
<1>8. QED
  BY <1>1, <1>2, <1>3, <1>4, <1>5, <1>6, <1>7 DEF Next

THEOREM TypeCorrect == Spec => []TypeOK
  BY TypeInit, TypeNext, InvariantHolds, PTL DEF Spec

\* lib/server/queue.ts, clusterTaskEvidence: whatever the records and their order, records
\* that share an ID are one task, no record counts for two, a document makes no task and
\* joins none, and a report that fits two tasks belongs to neither.
THEOREM TasksIdentified == Spec => []TasksAreIdentities
<1>1. TypeOK => TasksAreIdentities
  <2> SUFFICES ASSUME TypeOK PROVE TasksAreIdentities
    OBVIOUS
  <2>1. \A g \in Generations : Sequence(evidence[g])
    BY EvidenceIsSequence DEF TypeOK
  <2>2. EvidenceIsNotSplit
    BY <2>1, TasksAreWhole DEF EvidenceIsNotSplit
  <2>3. DocumentsOnlyCorroborate
    <3> SUFFICES ASSUME NEW g \in Generations, NEW t \in Tasks(evidence[g])
                 PROVE  LET records == evidence[g]
                            work == {i \in t : records[i].provider # "document"}
                        IN /\ work # {}
                           /\ work \in WorkplaceClusters(records)
                           /\ \A d \in t \ work : Overlap(records[d].ids, ClusterIds(records, work))
      BY DEF DocumentsOnlyCorroborate
    <3>1. Sequence(evidence[g])
      BY <2>1
    <3>2. /\ Core(evidence[g], t) = {i \in t : evidence[g][i].provider # "document"}
          /\ Core(evidence[g], t) \in WorkplaceClusters(evidence[g])
          /\ \A d \in t \ Core(evidence[g], t) :
               Overlap(evidence[g][d].ids, ClusterIds(evidence[g], Core(evidence[g], t)))
      BY <3>1, TasksAre
    <3>3. Core(evidence[g], t) # {}
      BY <3>1, <3>2, ClustersAre
    <3>4. QED
      BY <3>2, <3>3
  <2>4. AmbiguousStaysApart
    BY <2>1, TasksApart DEF AmbiguousStaysApart
  <2>5. QED
    BY <2>2, <2>3, <2>4 DEF TasksAreIdentities
<1>2. QED
  BY <1>1, TypeCorrect, PTL
=============================================================================
