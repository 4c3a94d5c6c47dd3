------------------------ MODULE QueryWorkflowProofs ------------------------
(***************************************************************************)
(* Machine-checked proofs about QueryWorkflow: for any connectors,         *)
(* providers and sources, and any order in which HydraDB and the database  *)
(* answer.                                                                 *)
(***************************************************************************)
EXTENDS QueryWorkflow, FiniteSetTheorems, TLAPS

(***************************************************************************)
(* The inductive invariant.  Why the stored run is whole when the caller   *)
(* has the answer: every number the recorder has given out is a stored     *)
(* step or the event of a lane that is still writing it, and every call is *)
(* traced or waited for by a lane; a batch that ends well leaves neither.  *)
(***************************************************************************)
Over == {"failing", "failedReply", "serverError", "crashed"}
Writing(l) == lane[l] \in {"marking", "recording"}
Unanswered == {l \in Lanes : lane[l] \in {"marking", "asked"}}
NoneThrown == \A l \in Lanes : lane[l] # "thrown"
AllDone == \A l \in Lanes : lane[l] \in {"off", "ended"}
NoneQuerying == \A p \in Providers : activity[p] # "querying"
Kept == Cardinality(SourceIds(evidence))

\* A lane writes an event the recorder has numbered.
NoteInv == \A l \in Lanes : Writing(l) => note[l].sequence \in 1 .. sequence

\* Lanes run while the handler awaits their batch, or has given up on it.
LaneInv == pc \notin {"await", "failing", "failedReply"} => AllDone

StepInv ==
  pc \notin Over /\ NoneThrown =>
    \A n \in 1 .. sequence :
      \/ n \in steps
      \/ \E l \in Lanes : Writing(l) /\ note[l].sequence = n

CallInv == pc \notin Over /\ NoneThrown => issued = traced + Cardinality(Unanswered)

\* A provider shown as being queried has a lane that has not answered.
QueryingInv ==
  pc # "crashed" =>
    \A p \in Providers : activity[p] = "querying" =>
      \E l \in Lanes : /\ lane[l] \in {"marking", "asked", "thrown"}
                       /\ p \in ProvidersOf(Scope(l))

VerdictInv ==
  pc \in {"persist", "audit", "answered"} =>
    /\ verdict \in FinalStages
    /\ evidence = {} => verdict = "abstained"
    /\ run = [status |-> verdict, calls |-> issued, sources |-> Kept]

ReceiptInv ==
  /\ pc \in {"audit", "answered"} => receipt = [events |-> sequence, stage |-> verdict]
  /\ receipt # NoReceipt =>
       /\ pc \in {"audit", "answered"} \union Over
       /\ AllDone /\ NoneQuerying
       /\ 1 .. receipt.events \subseteq steps
       /\ evidence = {} => receipt.stage = "abstained"

IInv ==
  /\ NoteInv /\ LaneInv /\ StepInv /\ CallInv /\ QueryingInv
  /\ VerdictInv /\ ReceiptInv /\ ActivityIsTrue /\ EvidenceIsOwned

(***************************************************************************)
(* Lanes and sources.                                                      *)
(***************************************************************************)
LEMMA LanesFinite ==
  ASSUME NEW S \in SUBSET Lanes
  PROVE  IsFiniteSet(S) /\ Cardinality(S) \in Nat
<1>1. IsFiniteSet({"text"} \union {"hybrid"})
  BY FS_Singleton, FS_Union
<1>2. Variants = {"text"} \union {"hybrid"}
  BY DEF Variants
<1>3. IsFiniteSet(Lanes)
  BY <1>1, <1>2, LanesAssumption, FS_Union DEF Lanes
<1>4. QED
  BY <1>3, FS_Subset, FS_CardinalityType

LEMMA KeptIsNat ==
  ASSUME NEW kept \in SUBSET (Sources \X Connectors)
  PROVE  Cardinality(SourceIds(kept)) \in Nat
<1>1. SourceIds(kept) \subseteq Sources
  BY DEF SourceIds
<1>2. QED
  BY <1>1, LineageAssumption, FS_Subset, FS_CardinalityType

\* A kept source is attributed to a connector its lane asked, and that synced it.
LEMMA OwnersAreAsked ==
  ASSUME NEW l \in Lanes, NEW s \in Returnable(l), NEW c \in Owners(l, s)
  PROVE  c \in Scope(l) /\ c \in Connectors /\ Origin[s] = c
<1>1. s \in Sources /\ (l \in Connectors => Origin[s] = l)
  BY DEF Returnable
<1>2. Scope(l) \subseteq Connectors
  BY DEF Scope
<1>3. CASE c \in Strict(l, s)
  BY <1>1, <1>2, <1>3, LineageAssumption DEF Strict
<1>4. CASE c \in Attested(l, s)
  BY <1>1, <1>4 DEF Attested, Scope
<1>5. QED
  BY <1>3, <1>4 DEF Owners

\* The lanes of a batch take the next numbers, each its own and none left out.
LEMMA PlaceIsOnto ==
  ASSUME NEW batch \in SUBSET Lanes
  PROVE  /\ \A l \in batch : Place(batch, l) \in 1 .. Cardinality(batch)
         /\ \A n \in 1 .. Cardinality(batch) : \E l \in batch : Place(batch, l) = n
<1> DEFINE UpTo(l) == {k \in batch : Rank[k] <= Rank[l]}
           f == [l \in batch |-> Place(batch, l)]
<1>1. IsFiniteSet(batch) /\ Cardinality(batch) \in Nat
  BY LanesFinite
<1>2. \A l \in batch : Rank[l] \in Nat
  BY LanesAssumption
<1>3. ASSUME NEW l \in batch
      PROVE  IsFiniteSet(UpTo(l)) /\ Place(batch, l) = Cardinality(UpTo(l))
             /\ Place(batch, l) \in 1 .. Cardinality(batch)
  <2>1. UpTo(l) \in SUBSET batch /\ UpTo(l) # {}
    BY <1>2
  <2>2. /\ IsFiniteSet(UpTo(l)) /\ Cardinality(UpTo(l)) \in Nat
        /\ Cardinality(UpTo(l)) <= Cardinality(batch)
    BY <1>1, <2>1, FS_Subset, FS_CardinalityType
  <2>3. Cardinality(UpTo(l)) # 0
    BY <2>1, <2>2, FS_EmptySet
  <2>4. QED
    BY <1>1, <2>2, <2>3 DEF Place
<1>4. ASSUME NEW l \in batch, NEW k \in batch, Place(batch, l) = Place(batch, k), Rank[l] <= Rank[k]
      PROVE  l = k
  <2>1. UpTo(l) \in SUBSET UpTo(k)
    BY <1>2, <1>4
  <2>2. UpTo(l) = UpTo(k)
    BY <1>3, <1>4, <2>1, FS_Subset
  <2>3. Rank[k] <= Rank[l]
    BY <1>2, <2>2
  <2>4. QED
    BY <1>2, <1>4, <2>3, LanesAssumption
<1>5. f \in Injection(batch, 1 .. Cardinality(batch))
  <2>1. f \in [batch -> 1 .. Cardinality(batch)]
    BY <1>3
  <2>2. \A l, k \in batch : f[l] = f[k] => l = k
    BY <1>2, <1>4
  <2>3. QED
    BY <2>1, <2>2 DEF Injection, IsInjective
<1>6. IsFiniteSet(1 .. Cardinality(batch)) /\ Cardinality(1 .. Cardinality(batch)) = Cardinality(batch)
  <2> DEFINE n == Cardinality(batch)
  <2>1. n \in Int /\ 1 \in Int /\ n \in Nat
    BY <1>1
  <2> HIDE DEF n
  <2>2. IsFiniteSet(1 .. n) /\ Cardinality(1 .. n) = IF 1 > n THEN 0 ELSE n - 1 + 1
    BY <2>1, FS_Interval
  <2>3. IsFiniteSet(1 .. n) /\ Cardinality(1 .. n) = n
    BY <2>1, <2>2
  <2>4. QED
    BY <2>3 DEF n
<1> HIDE DEF f
<1>7. f \in Surjection(batch, 1 .. Cardinality(batch))
  BY <1>5, <1>6, FS_Injection
<1>8. \A n \in 1 .. Cardinality(batch) : \E l \in batch : f[l] = n
  BY <1>7 DEF Surjection
<1>9. QED
  BY <1>3, <1>8 DEF f

(***************************************************************************)
(* The invariant holds at first, and each step keeps it.                   *)
(***************************************************************************)
Inv == TypeOK /\ IInv

LEMMA InvInit == Init => Inv
<1> SUFFICES ASSUME Init PROVE Inv
  OBVIOUS
<1>1. TypeOK
  BY DEF Init, TypeOK, PcStates, LaneStates, NoRow, NoReceipt, Blank
<1>2. NoteInv /\ LaneInv /\ QueryingInv /\ VerdictInv /\ ReceiptInv
  BY DEF Init, NoteInv, Writing, LaneInv, AllDone, QueryingInv, VerdictInv, ReceiptInv
<1>3. StepInv
  BY DEF Init, StepInv
<1>4. CallInv
  <2>1. Unanswered = {}
    BY DEF Init, Unanswered
  <2>2. QED
    BY <2>1, FS_EmptySet DEF Init, CallInv
<1>5. ActivityIsTrue /\ EvidenceIsOwned
  BY DEF Init, ActivityIsTrue, EvidenceIsOwned, HasEvidence
<1>6. QED
  BY <1>1, <1>2, <1>3, <1>4, <1>5 DEF Inv, IInv

LEMMA KeptStays ==
  ASSUME evidence' = evidence
  PROVE  Kept' = Kept
  BY DEF Kept, SourceIds

\* The handler goes on, or gives up, without an event.
LEMMA MovesKeep ==
  ASSUME Inv, NEW to \in PcStates, pc' = to,
         UNCHANGED <<control, lane, note, recorderVars, callVars, rows>>,
         to \notin {"await", "failing", "failedReply"} => AllDone,
         to \notin Over => pc \notin Over,
         pc # "crashed",
         to \in {"persist", "audit", "answered"} => pc \in {"persist", "audit", "answered"},
         to \in {"audit", "answered"} => pc \in {"audit", "answered"},
         receipt # NoReceipt => to \in {"audit", "answered"} \union Over
  PROVE  Inv'
<1>1. /\ UNCHANGED mode /\ UNCHANGED phase /\ UNCHANGED repaired /\ UNCHANGED verdict
      /\ UNCHANGED lane /\ UNCHANGED note /\ UNCHANGED activity /\ UNCHANGED sequence
      /\ UNCHANGED latest /\ UNCHANGED issued /\ UNCHANGED traced /\ UNCHANGED evidence
      /\ UNCHANGED run /\ UNCHANGED steps /\ UNCHANGED receipt
  BY DEF control, recorderVars, callVars, rows
<1>2. Kept' = Kept
  BY <1>1, KeptStays
<1>3. TypeOK'
  BY <1>1 DEF Inv, TypeOK
<1>4. NoteInv' /\ LaneInv' /\ StepInv'
  BY <1>1 DEF Inv, IInv, NoteInv, LaneInv, StepInv, Writing, AllDone, NoneThrown
<1>5. CallInv' /\ QueryingInv' /\ ActivityIsTrue' /\ EvidenceIsOwned'
  BY <1>1 DEF Inv, IInv, CallInv, QueryingInv, ActivityIsTrue, EvidenceIsOwned, HasEvidence,
              Unanswered, NoneThrown
<1>6. VerdictInv' /\ ReceiptInv'
  BY <1>1, <1>2 DEF Inv, IInv, VerdictInv, ReceiptInv, AllDone, NoneQuerying
<1>7. QED
  BY <1>3, <1>4, <1>5, <1>6 DEF Inv, IInv

Quietly == HandlerThrows \/ EndRepair \/ Cancelled \/ BatchDone \/ BatchThrows \/ Proceed \/ ReadQueue

LEMMA QuietlyKeeps ==
  ASSUME Inv, Quietly
  PROVE  Inv'
<1>1. UNCHANGED <<control, lane, note, recorderVars, callVars, rows>>
  BY DEF Quietly, HandlerThrows, EndRepair, Cancelled, BatchDone, BatchThrows, Proceed, ReadQueue
<1>2. /\ pc \in {"client", "queue", "final", "persist", "repair", "thinking", "await", "decide"}
      /\ pc' \in {"failing", "decide", "repair", "linking", "thinking", "compiling-action"}
  BY DEF Quietly, HandlerThrows, EndRepair, Cancelled, BatchDone, BatchThrows, Proceed, ReadQueue
<1>3. pc = "await" /\ pc' # "failing" => AllDone
  BY DEF Quietly, HandlerThrows, EndRepair, Cancelled, BatchDone, BatchThrows, Proceed, ReadQueue, AllDone
<1>4. pc # "await" => AllDone
  BY <1>2 DEF Inv, IInv, LaneInv
<1>5. receipt = NoReceipt
  BY <1>2 DEF Inv, IInv, ReceiptInv, Over
<1>6. pc' \in PcStates /\ pc \notin Over
  BY <1>2 DEF PcStates, Over
<1>7. QED
  BY <1>1, <1>2, <1>3, <1>4, <1>5, <1>6, MovesKeep

LEMMA AuditKeeps ==
  ASSUME Inv, NEW o \in Outcomes, Audit(o)
  PROVE  Inv'
<1>1. /\ UNCHANGED <<control, lane, note, recorderVars, callVars, rows>>
      /\ pc = "audit" /\ pc' \in {"answered", "serverError"}
  BY DEF Audit
<1>2. AllDone
  BY <1>1 DEF Inv, IInv, LaneInv
<1>3. pc' \in PcStates /\ pc \notin Over /\ "serverError" \in Over
  BY <1>1 DEF PcStates, Replies, Over
<1>4. QED
  BY <1>1, <1>2, <1>3, MovesKeep

LEMMA StartRunKeeps ==
  ASSUME Inv, NEW o \in Outcomes, StartRun(o)
  PROVE  Inv'
<1>1. /\ pc = "idle" /\ pc' \in {"routing", "serverError"}
      /\ run' \in {run, [NoRow EXCEPT !.status = "routing"]}
      /\ UNCHANGED mode /\ UNCHANGED phase /\ UNCHANGED repaired /\ UNCHANGED verdict
      /\ UNCHANGED lane /\ UNCHANGED note /\ UNCHANGED activity /\ UNCHANGED sequence
      /\ UNCHANGED latest /\ UNCHANGED issued /\ UNCHANGED traced /\ UNCHANGED evidence
      /\ UNCHANGED steps /\ UNCHANGED receipt
  BY DEF StartRun, control, recorderVars, callVars
<1>2. [NoRow EXCEPT !.status = "routing"] \in
        [status : RunStages \union {"absent"}, calls : Nat, sources : Nat]
  BY DEF NoRow, RunStages
<1>3. TypeOK'
  <2>1. pc' \in PcStates
    BY <1>1 DEF PcStates, Replies
  <2>2. run' \in [status : RunStages \union {"absent"}, calls : Nat, sources : Nat]
    BY <1>1, <1>2 DEF Inv, TypeOK
  <2>3. QED
    BY <1>1, <2>1, <2>2 DEF Inv, TypeOK
<1>4. AllDone
  BY <1>1 DEF Inv, IInv, LaneInv
<1>5. NoteInv' /\ LaneInv' /\ StepInv'
  BY <1>1, <1>4 DEF Inv, IInv, NoteInv, LaneInv, StepInv, Writing, AllDone, NoneThrown, Over
<1>6. CallInv' /\ QueryingInv' /\ ActivityIsTrue' /\ EvidenceIsOwned'
  BY <1>1 DEF Inv, IInv, CallInv, QueryingInv, ActivityIsTrue, EvidenceIsOwned, HasEvidence,
              Unanswered, NoneThrown, Over
<1>7. VerdictInv' /\ ReceiptInv'
  BY <1>1 DEF Inv, IInv, VerdictInv, ReceiptInv, Over
<1>8. QED
  BY <1>3, <1>5, <1>6, <1>7 DEF Inv, IInv

LEMMA PersistKeeps ==
  ASSUME Inv, NEW o \in Outcomes, PersistReceipt(o)
  PROVE  Inv'
<1> DEFINE paper == [events |-> sequence, stage |-> verdict]
<1>1. /\ pc = "persist" /\ pc' \in {"audit", "failing"}
      /\ pc' = "audit" => receipt' = paper
      /\ receipt' \in {receipt, paper}
      /\ UNCHANGED mode /\ UNCHANGED phase /\ UNCHANGED repaired /\ UNCHANGED verdict
      /\ UNCHANGED lane /\ UNCHANGED note /\ UNCHANGED activity /\ UNCHANGED sequence
      /\ UNCHANGED latest /\ UNCHANGED issued /\ UNCHANGED traced /\ UNCHANGED evidence
      /\ UNCHANGED run /\ UNCHANGED steps
  BY DEF PersistReceipt, Applied, control, recorderVars, callVars
<1>2. Kept' = Kept
  BY <1>1, KeptStays
<1>3. AllDone /\ pc \notin Over /\ pc' \in {"audit", "answered"} \union Over
  BY <1>1 DEF Inv, IInv, LaneInv, Over
<1>4. verdict \in FinalStages /\ (evidence = {} => verdict = "abstained") /\ sequence \in Nat
  BY <1>1 DEF Inv, IInv, VerdictInv, TypeOK
<1>5. 1 .. sequence \subseteq steps
  BY <1>3 DEF Inv, IInv, StepInv, AllDone, NoneThrown, Writing
<1>6. NoneQuerying
  BY <1>1, <1>3 DEF Inv, IInv, QueryingInv, AllDone, NoneQuerying
<1>7. /\ paper \in [events : Nat, stage : FinalStages \union {"absent"}]
      /\ paper.events = sequence /\ paper.stage = verdict
  BY <1>4
<1> HIDE DEF paper
<1>8. TypeOK'
  <2>1. pc' \in PcStates
    BY <1>1 DEF PcStates, Replies
  <2>2. receipt' \in [events : Nat, stage : FinalStages \union {"absent"}]
    BY <1>1, <1>7 DEF Inv, TypeOK
  <2>3. QED
    BY <1>1, <2>1, <2>2 DEF Inv, TypeOK
<1>9. NoteInv' /\ LaneInv' /\ StepInv'
  BY <1>1, <1>3 DEF Inv, IInv, NoteInv, LaneInv, StepInv, Writing, AllDone, NoneThrown
<1>10. CallInv' /\ QueryingInv' /\ ActivityIsTrue' /\ EvidenceIsOwned'
  BY <1>1, <1>3 DEF Inv, IInv, CallInv, QueryingInv, ActivityIsTrue, EvidenceIsOwned, HasEvidence,
                    Unanswered, NoneThrown
<1>11. VerdictInv'
  BY <1>1, <1>2 DEF Inv, IInv, VerdictInv
<1>12. ReceiptInv'
  <2>1. receipt = NoReceipt
    BY <1>1 DEF Inv, IInv, ReceiptInv, Over
  <2>2. CASE receipt' = receipt
    BY <1>1, <2>1, <2>2 DEF ReceiptInv, paper
  <2>3. CASE receipt' = paper
    <3>1. pc' \in {"audit", "answered"} => receipt' = [events |-> sequence', stage |-> verdict']
      BY <1>1, <2>3 DEF paper
    <3>2. AllDone' /\ NoneQuerying'
      BY <1>1, <1>3, <1>6 DEF AllDone, NoneQuerying
    <3>3. 1 .. receipt'.events \subseteq steps' /\ (evidence' = {} => receipt'.stage = "abstained")
      BY <1>1, <1>4, <1>5, <1>7, <2>3
    <3>4. QED
      BY <1>3, <3>1, <3>2, <3>3 DEF ReceiptInv
  <2>4. QED
    BY <1>1, <2>2, <2>3
<1>13. QED
  BY <1>8, <1>9, <1>10, <1>11, <1>12 DEF Inv, IInv

\* An event of the handler: the next number, written to the steps and the run.
LEMMA RecordKeeps ==
  ASSUME Inv, NEW o \in Outcomes, NEW stage \in RunStages, NEW calls \in Nat, NEW next \in PcStates,
         RecordThen(o, stage, calls, next),
         phase' \in {"none", "primary", "delivery", "repair", "thinking"},
         repaired' = repaired, verdict' \in FinalStages \union {"absent"},
         pc # "crashed",
         next \notin {"await", "failing", "failedReply"} => AllDone,
         next \notin Over => pc \notin Over /\ o = "ok",
         next \notin {"audit", "answered"},
         next = "persist" =>
           /\ verdict' \in FinalStages /\ stage = verdict' /\ calls = issued
           /\ evidence = {} => verdict' = "abstained",
         receipt # NoReceipt => next \in Over
  PROVE  Inv'
<1>1. /\ pc' = next /\ sequence' = sequence + 1 /\ latest' = calls
      /\ UNCHANGED mode /\ UNCHANGED lane /\ UNCHANGED note /\ UNCHANGED activity
      /\ UNCHANGED issued /\ UNCHANGED traced /\ UNCHANGED evidence /\ UNCHANGED receipt
  BY DEF RecordThen, callVars
<1>2. \/ /\ steps' = steps \union {sequence + 1}
         /\ run' = [status |-> stage, calls |-> calls, sources |-> Kept]
      \/ steps' = steps /\ run' = run /\ o # "ok"
  BY DEF RecordThen, Write, Applied, Kept
<1>3. Kept \in Nat /\ Kept' = Kept
  BY <1>1, KeptIsNat, KeptStays DEF Inv, TypeOK, Kept
<1>4. sequence \in Nat /\ steps \subseteq 1 .. sequence
  BY DEF Inv, TypeOK
<1>5. 1 .. sequence + 1 = (1 .. sequence) \union {sequence + 1}
  BY <1>4
<1>6. TypeOK'
  <2>1. steps' \subseteq 1 .. sequence'
    BY <1>1, <1>2, <1>4, <1>5
  <2>2. run' \in [status : RunStages \union {"absent"}, calls : Nat, sources : Nat]
    BY <1>2, <1>3 DEF Inv, TypeOK
  <2>3. {sequence', latest', issued', traced'} \subseteq Nat
    BY <1>1, <1>4 DEF Inv, TypeOK
  <2>4. QED
    BY <1>1, <2>1, <2>2, <2>3 DEF Inv, TypeOK
<1>7. NoteInv' /\ LaneInv'
  BY <1>1, <1>4, <1>5 DEF Inv, IInv, NoteInv, LaneInv, Writing, AllDone
<1>8. StepInv'
  <2>1. SUFFICES ASSUME next \notin Over, NoneThrown, NEW n \in 1 .. sequence + 1
                 PROVE  \/ n \in steps'
                        \/ \E l \in Lanes : Writing(l)' /\ note'[l].sequence = n
    BY <1>1 DEF StepInv, NoneThrown
  <2>2. steps' = steps \union {sequence + 1}
    BY <1>2, <2>1
  <2>3. CASE n = sequence + 1
    BY <2>2, <2>3
  <2>4. CASE n \in 1 .. sequence
    <3>1. \/ n \in steps
          \/ \E l \in Lanes : Writing(l) /\ note[l].sequence = n
      BY <2>1, <2>4 DEF Inv, IInv, StepInv
    <3>2. QED
      BY <1>1, <2>2, <3>1 DEF Writing
  <2>5. QED
    BY <1>5, <2>3, <2>4
<1>9. CallInv' /\ QueryingInv' /\ ActivityIsTrue' /\ EvidenceIsOwned'
  BY <1>1 DEF Inv, IInv, CallInv, QueryingInv, ActivityIsTrue, EvidenceIsOwned, HasEvidence,
              Unanswered, NoneThrown
<1>10. VerdictInv'
  <2>1. SUFFICES ASSUME next = "persist"
                 PROVE  /\ verdict' \in FinalStages
                        /\ evidence = {} => verdict' = "abstained"
                        /\ run' = [status |-> verdict', calls |-> issued, sources |-> Kept]
    BY <1>1, <1>3 DEF VerdictInv
  <2>2. "persist" \notin Over
    BY DEF Over
  <2>3. QED
    BY <1>2, <2>1, <2>2
<1>11. ReceiptInv'
  <2>1. SUFFICES ASSUME receipt # NoReceipt
                 PROVE  /\ next \in Over /\ AllDone' /\ NoneQuerying'
                        /\ 1 .. receipt.events \subseteq steps'
                        /\ evidence = {} => receipt.stage = "abstained"
    BY <1>1 DEF ReceiptInv
  <2>2. /\ AllDone /\ NoneQuerying /\ 1 .. receipt.events \subseteq steps
        /\ evidence = {} => receipt.stage = "abstained"
    BY <2>1 DEF Inv, IInv, ReceiptInv
  <2>3. AllDone' /\ NoneQuerying'
    BY <1>1, <2>2 DEF AllDone, NoneQuerying
  <2>4. QED
    BY <1>2, <2>1, <2>2, <2>3
<1>12. QED
  BY <1>6, <1>7, <1>8, <1>9, <1>10, <1>11 DEF Inv, IInv

\* Outside a batch every call is traced.
LEMMA AllTraced ==
  ASSUME Inv, AllDone, pc \notin Over
  PROVE  traced = issued /\ traced \in Nat
<1>1. Unanswered = {} /\ NoneThrown
  BY DEF Unanswered, NoneThrown, AllDone
<1>2. Cardinality(Unanswered) = 0
  BY <1>1, FS_EmptySet
<1>3. QED
  BY <1>1, <1>2 DEF Inv, IInv, CallInv, TypeOK

Steady == {"routing", "decide", "linking", "checking-contradictions", "validating",
           "compiling-action", "final"}

\* The handler's events before the verdict: stages it passes through.
LEMMA StageKeeps ==
  ASSUME Inv, NEW o \in Outcomes, NEW stage \in RunStages,
         NEW next \in {"client", "repair", "thinking", "linking", "checking-contradictions",
                       "validating", "queue", "final"},
         pc \in Steady, Record(o, stage, next),
         phase' \in {"none", "primary", "delivery", "repair", "thinking"},
         repaired' = repaired, verdict' = verdict
  PROVE  Inv'
<1> DEFINE to == IF o = "ok" THEN next ELSE "failing"
<1>1. AllDone /\ pc \notin Over /\ receipt = NoReceipt /\ pc # "crashed"
  BY DEF Inv, IInv, LaneInv, ReceiptInv, Over, Steady
<1>2. traced = issued /\ traced \in Nat
  BY <1>1, AllTraced
<1>3. RecordThen(o, stage, traced, to)
  BY DEF Record
<1>4. to \in PcStates /\ to \notin {"audit", "answered", "persist"} /\ (to \notin Over => o = "ok")
  BY DEF PcStates, Over
<1>5. verdict' \in FinalStages \union {"absent"}
  BY DEF Inv, TypeOK
<1> HIDE DEF to
<1>6. QED
  BY <1>1, <1>2, <1>3, <1>4, <1>5, RecordKeeps

LEMMA RecordsKeep ==
  ASSUME Inv, NEW o \in Outcomes,
         RecordRouting(o) \/ ChooseDelivery(o) \/ ChooseCoverage(o) \/ Escalate(o) \/ KeepFast(o)
           \/ RecordStage(o)
  PROVE  Inv'
<1>1. phase \in {"none", "primary", "delivery", "repair", "thinking"}
  BY DEF Inv, TypeOK
<1>2. {"routing", "linking", "checking-contradictions", "validating", "compiling-action"} \subseteq RunStages
  BY DEF RunStages
<1>3. CASE RecordRouting(o)
  BY <1>1, <1>2, <1>3, StageKeeps DEF RecordRouting, Steady
<1>4. CASE ChooseDelivery(o)
  BY <1>2, <1>4, StageKeeps DEF ChooseDelivery, Steady
<1>5. CASE ChooseCoverage(o)
  BY <1>2, <1>5, StageKeeps DEF ChooseCoverage, Steady
<1>6. CASE Escalate(o)
  BY <1>1, <1>2, <1>6, StageKeeps DEF Escalate, Steady
<1>7. CASE KeepFast(o)
  BY <1>1, <1>2, <1>7, StageKeeps DEF KeepFast, Steady
<1>8. CASE RecordStage(o)
  <2>1. phase' = phase /\ repaired' = repaired /\ verdict' = verdict
    BY <1>8 DEF RecordStage
  <2>2. CASE pc = "linking" /\ Record(o, "linking", "checking-contradictions")
    BY <1>1, <1>2, <2>1, <2>2, StageKeeps DEF Steady
  <2>3. CASE pc = "checking-contradictions" /\ Record(o, "checking-contradictions", "validating")
    BY <1>1, <1>2, <2>1, <2>3, StageKeeps DEF Steady
  <2>4. CASE pc = "validating" /\ Record(o, "validating", "queue")
    BY <1>1, <1>2, <2>1, <2>4, StageKeeps DEF Steady
  <2>5. CASE pc = "compiling-action" /\ Record(o, "compiling-action", "final")
    BY <1>1, <1>2, <2>1, <2>5, StageKeeps DEF Steady
  <2>6. QED
    BY <1>8, <2>2, <2>3, <2>4, <2>5 DEF RecordStage
<1>9. QED
  BY <1>3, <1>4, <1>5, <1>6, <1>7, <1>8

LEMMA ConcludeKeeps ==
  ASSUME Inv, NEW o \in Outcomes, Conclude(o)
  PROVE  Inv'
<1> DEFINE to == IF o = "ok" THEN "persist" ELSE "failing"
<1>1. /\ pc = "final" /\ phase' = phase /\ repaired' = repaired
      /\ verdict' \in FinalStages /\ (evidence = {} => verdict' = "abstained")
      /\ RecordThen(o, verdict', traced, to)
  BY DEF Conclude, Record, FinalStages
<1>2. AllDone /\ pc \notin Over /\ receipt = NoReceipt
  BY <1>1 DEF Inv, IInv, LaneInv, ReceiptInv, Over
<1>3. traced = issued /\ traced \in Nat
  BY <1>2, AllTraced
<1>4. to \in PcStates /\ to \notin {"audit", "answered"} /\ (to \notin Over => o = "ok")
  BY DEF PcStates, Over
<1>5. verdict' \in RunStages /\ phase' \in {"none", "primary", "delivery", "repair", "thinking"}
  BY <1>1 DEF Inv, TypeOK, RunStages
<1> DEFINE v == verdict'
<1>6. v \in RunStages /\ RecordThen(o, v, traced, to) /\ verdict' = v
  BY <1>1, <1>5
<1> HIDE DEF to, v
<1>7. QED
  BY <1>1, <1>2, <1>3, <1>4, <1>5, <1>6, RecordKeeps

LEMMA FailedKeeps ==
  ASSUME Inv, NEW o \in Outcomes, RecordFailed(o)
  PROVE  Inv'
<1>1. /\ pc = "failing" /\ RecordThen(o, "failed", latest, "failedReply")
      /\ phase' = phase /\ repaired' = repaired /\ verdict' = verdict
  BY DEF RecordFailed
<1>2. latest \in Nat /\ verdict \in FinalStages \union {"absent"}
      /\ phase \in {"none", "primary", "delivery", "repair", "thinking"}
  BY DEF Inv, TypeOK
<1>3. "failed" \in RunStages /\ "failedReply" \in PcStates /\ "failedReply" \in Over
  BY DEF RunStages, PcStates, Replies, Over
<1>4. QED
  BY <1>1, <1>2, <1>3, RecordKeeps

\* A batch numbers the calls and events of its lanes together.
LEMMA BatchKeeps ==
  ASSUME Inv, NEW batch \in SUBSET Lanes, StartBatch(batch),
         pc \in {"client", "repair", "thinking"},
         phase' \in {"none", "primary", "delivery", "repair", "thinking"},
         repaired' \subseteq Providers
  PROVE  Inv'
<1> DEFINE n == Cardinality(batch)
           place(l) == Place(batch, l)
<1>1. /\ n \in Nat
      /\ \A l \in batch : place(l) \in 1 .. n
      /\ \A m \in 1 .. n : \E l \in batch : place(l) = m
  BY LanesFinite, PlaceIsOnto
<1>2. AllDone /\ pc \notin Over /\ receipt = NoReceipt
  BY DEF Inv, IInv, LaneInv, ReceiptInv, Over
<1>3. traced = issued /\ NoneThrown /\ \A l \in Lanes : ~Writing(l)
  BY <1>2, AllTraced DEF NoneThrown, Writing, AllDone
<1>4. 1 .. sequence \subseteq steps /\ NoneQuerying
  BY <1>2, <1>3 DEF Inv, IInv, StepInv, QueryingInv, NoneQuerying, AllDone, Over
<1>5. /\ sequence \in Nat /\ issued \in Nat /\ steps \subseteq 1 .. sequence
      /\ Cardinality(SourceIds(evidence)) \in Nat
  BY KeptIsNat DEF Inv, TypeOK
<1>6. /\ pc' = "await"
      /\ lane' = [l \in Lanes |-> IF l \in batch THEN "marking" ELSE "off"]
      /\ note' = [l \in Lanes |->
           IF l \in batch
           THEN [sequence |-> sequence + place(l), calls |-> issued + place(l),
                 sources |-> Cardinality(SourceIds(evidence))]
           ELSE Blank]
      /\ activity' = [p \in Providers |->
           IF p \in BatchProviders(batch) THEN "querying" ELSE activity[p]]
      /\ sequence' = sequence + n /\ issued' = issued + n /\ latest' = issued + n
  BY DEF StartBatch
<1>7. /\ UNCHANGED mode /\ UNCHANGED verdict /\ UNCHANGED evidence /\ UNCHANGED traced
      /\ UNCHANGED run /\ UNCHANGED steps /\ UNCHANGED receipt
  BY DEF StartBatch, rows
<1> HIDE DEF n, place
<1>8. TypeOK'
  <2>1. lane' \in [Lanes -> LaneStates]
    BY <1>6 DEF LaneStates
  <2>2. note' \in [Lanes -> [sequence : Nat, calls : Nat, sources : Nat]]
    <3>1. \A l \in batch : sequence + place(l) \in Nat /\ issued + place(l) \in Nat
      BY <1>1, <1>5
    <3>2. Blank \in [sequence : Nat, calls : Nat, sources : Nat]
      BY DEF Blank
    <3>3. QED
      BY <1>5, <1>6, <3>1, <3>2
  <2>3. activity' \in [Providers -> {"idle", "querying", "received", "partial", "failed"}]
    BY <1>6 DEF Inv, TypeOK
  <2>4. {sequence', latest', issued', traced'} \subseteq Nat
    BY <1>1, <1>5, <1>6, <1>7 DEF Inv, TypeOK
  <2>5. steps' \subseteq 1 .. sequence'
    BY <1>1, <1>5, <1>6, <1>7
  <2>6. pc' \in PcStates
    BY <1>6 DEF PcStates
  <2>7. QED
    BY <1>7, <2>1, <2>2, <2>3, <2>4, <2>5, <2>6 DEF Inv, TypeOK
<1>9. \A l \in Lanes : /\ l \in batch <=> Writing(l)'
                       /\ l \in batch => note'[l].sequence = sequence + place(l)
                       /\ l \in batch <=> lane'[l] = "marking"
                       /\ lane'[l] \in {"marking", "off"}
  BY <1>6 DEF Writing
<1>10. NoteInv' /\ LaneInv'
  <2>1. \A l \in batch : sequence + place(l) \in 1 .. sequence + n
    BY <1>1, <1>5
  <2>2. QED
    BY <1>6, <1>9, <2>1 DEF NoteInv, LaneInv
<1>11. StepInv'
  <2>1. SUFFICES ASSUME NEW m \in 1 .. sequence + n
                 PROVE  \/ m \in steps'
                        \/ \E l \in Lanes : Writing(l)' /\ note'[l].sequence = m
    BY <1>6 DEF StepInv
  <2>2. CASE m \in 1 .. sequence
    BY <1>4, <1>7, <2>2
  <2>3. CASE m \notin 1 .. sequence
    <3>1. m - sequence \in 1 .. n /\ m = sequence + (m - sequence)
      BY <1>1, <1>5, <2>1, <2>3
    <3>2. PICK l \in batch : place(l) = m - sequence
      BY <1>1, <3>1
    <3>3. QED
      BY <1>9, <3>1, <3>2
  <2>4. QED
    BY <2>2, <2>3
<1>12. CallInv'
  <2>1. Unanswered' = batch
    BY <1>9 DEF Unanswered
  <2>2. QED
    BY <1>1, <1>3, <1>5, <1>6, <1>7, <2>1 DEF CallInv, n
<1>13. QueryingInv'
  <2>1. SUFFICES ASSUME NEW p \in Providers, activity'[p] = "querying"
                 PROVE  \E l \in Lanes : /\ lane'[l] \in {"marking", "asked", "thrown"}
                                         /\ p \in ProvidersOf(Scope(l))
    BY DEF QueryingInv
  <2>2. p \in BatchProviders(batch)
    BY <1>4, <1>6, <2>1 DEF NoneQuerying
  <2>3. PICK l \in batch : p \in ProvidersOf(Scope(l))
    BY <2>2 DEF BatchProviders, ProvidersOf
  <2>4. QED
    BY <1>9, <2>3
<1>14. ActivityIsTrue' /\ EvidenceIsOwned'
  <2>1. \A p \in Providers : activity'[p] \in {"querying", activity[p]}
    BY <1>6
  <2>2. QED
    BY <1>7, <2>1 DEF Inv, IInv, ActivityIsTrue, EvidenceIsOwned, HasEvidence
<1>15. VerdictInv' /\ ReceiptInv'
  BY <1>2, <1>6, <1>7 DEF VerdictInv, ReceiptInv
<1>16. QED
  BY <1>8, <1>10, <1>11, <1>12, <1>13, <1>14, <1>15 DEF Inv, IInv

LEMMA BatchesKeep ==
  ASSUME Inv,
         \/ \E v \in SUBSET Variants : StartPrimary(v)
         \/ \E ps \in SUBSET ProvidersOf(Connectors) : DeliveryRepair(ps)
         \/ \E p \in ProvidersOf(Connectors) : CoverageRepair(p)
         \/ ThinkingFollowUp
  PROVE  Inv'
<1>1. /\ phase \in {"none", "primary", "delivery", "repair", "thinking"}
      /\ repaired \subseteq Providers
  BY DEF Inv, TypeOK
<1>2. ASSUME NEW v \in SUBSET Variants, StartPrimary(v) PROVE Inv'
  BY <1>1, <1>2, BatchKeeps DEF StartPrimary, Lanes
<1>3. ASSUME NEW ps \in SUBSET ProvidersOf(Connectors), DeliveryRepair(ps) PROVE Inv'
  <2> DEFINE batch == {c \in Connectors : ProviderOf[c] \in ps}
  <2>1. batch \in SUBSET Lanes
    BY DEF Lanes
  <2>2. /\ StartBatch(batch) /\ pc \in {"client", "repair", "thinking"}
        /\ phase' = phase /\ repaired' = repaired
    BY <1>3 DEF DeliveryRepair
  <2> HIDE DEF batch
  <2>3. QED
    BY <1>1, <2>1, <2>2, BatchKeeps
<1>4. ASSUME NEW p \in ProvidersOf(Connectors), CoverageRepair(p) PROVE Inv'
  <2> DEFINE batch == {c \in Connectors : ProviderOf[c] = p}
  <2>1. batch \in SUBSET Lanes /\ p \in Providers
    BY LanesAssumption DEF Lanes, ProvidersOf
  <2>2. /\ StartBatch(batch) /\ pc \in {"client", "repair", "thinking"}
        /\ phase' = phase /\ repaired' = repaired \union {p}
    BY <1>4 DEF CoverageRepair
  <2> HIDE DEF batch
  <2>3. QED
    BY <1>1, <2>1, <2>2, BatchKeeps
<1>5. ASSUME ThinkingFollowUp PROVE Inv'
  BY <1>1, <1>5, BatchKeeps DEF ThinkingFollowUp, Lanes, Variants
<1>6. QED
  BY <1>2, <1>3, <1>4, <1>5

\* A lane's event reaches the database, or the lane throws.
LEMMA WriteKeeps ==
  ASSUME Inv, NEW l \in Lanes, NEW o \in Outcomes, Writing(l), NEW to,
         lane' = [lane EXCEPT ![l] = to],
         to = IF o = "ok" THEN IF lane[l] = "marking" THEN "asked" ELSE "ended" ELSE "thrown",
         Write(o, "retrieving", note[l]),
         UNCHANGED <<pc, control, note, recorderVars, callVars, receipt>>
  PROVE  Inv'
<1>1. /\ UNCHANGED mode /\ UNCHANGED phase /\ UNCHANGED repaired /\ UNCHANGED verdict
      /\ UNCHANGED pc /\ UNCHANGED note /\ UNCHANGED activity /\ UNCHANGED sequence
      /\ UNCHANGED latest /\ UNCHANGED issued /\ UNCHANGED traced /\ UNCHANGED evidence
      /\ UNCHANGED receipt
  BY DEF control, recorderVars, callVars
<1>2. /\ lane \in [Lanes -> LaneStates] /\ note[l].sequence \in 1 .. sequence
      /\ note[l] \in [sequence : Nat, calls : Nat, sources : Nat]
      /\ steps \subseteq 1 .. sequence
  BY DEF Inv, TypeOK, IInv, NoteInv
<1>3. lane'[l] = to /\ \A k \in Lanes \ {l} : lane'[k] = lane[k]
  BY <1>2
<1>4. to \in {"asked", "ended", "thrown"} /\ (to = "ended" => lane[l] = "recording")
  BY DEF Writing
<1>5. pc \in {"await", "failing", "failedReply"} /\ receipt = NoReceipt
  BY DEF Inv, IInv, LaneInv, ReceiptInv, AllDone, Writing
<1>6. /\ o = "ok" => steps' = steps \union {note[l].sequence}
      /\ \/ steps' = steps /\ run' = run
         \/ /\ steps' = steps \union {note[l].sequence}
            /\ run' = [status |-> "retrieving", calls |-> note[l].calls, sources |-> note[l].sources]
  BY DEF Write, Applied
<1>7. TypeOK'
  <2>1. lane' \in [Lanes -> LaneStates]
    BY <1>2, <1>4 DEF LaneStates
  <2>2. steps' \subseteq 1 .. sequence
    BY <1>2, <1>6
  <2>3. run' \in [status : RunStages \union {"absent"}, calls : Nat, sources : Nat]
    <3>1. [status |-> "retrieving", calls |-> note[l].calls, sources |-> note[l].sources] \in
            [status : RunStages \union {"absent"}, calls : Nat, sources : Nat]
      BY <1>2 DEF RunStages
    <3>2. QED
      BY <1>6, <3>1 DEF Inv, TypeOK
  <2>4. QED
    BY <1>1, <2>1, <2>2, <2>3 DEF Inv, TypeOK
<1>8. \A k \in Lanes : Writing(k)' => k # l /\ Writing(k)
  BY <1>3, <1>4 DEF Writing
<1>9. NoneThrown' => NoneThrown /\ o = "ok"
  BY <1>3, <1>4 DEF NoneThrown, Writing
<1>10. NoteInv' /\ LaneInv'
  BY <1>1, <1>5, <1>8 DEF Inv, IInv, NoteInv, LaneInv
<1>11. StepInv'
  <2>1. SUFFICES ASSUME pc \notin Over, NoneThrown, o = "ok", NEW n \in 1 .. sequence
                 PROVE  \/ n \in steps'
                        \/ \E k \in Lanes : Writing(k)' /\ note[k].sequence = n
    BY <1>1, <1>9 DEF StepInv
  <2>2. steps' = steps \union {note[l].sequence}
    BY <1>6, <2>1
  <2>3. CASE n \in steps
    BY <2>2, <2>3
  <2>4. CASE n \notin steps
    <3>1. PICK k \in Lanes : Writing(k) /\ note[k].sequence = n
      BY <2>1, <2>4 DEF Inv, IInv, StepInv
    <3>2. CASE k = l
      BY <2>2, <3>1, <3>2
    <3>3. CASE k # l
      <4>1. Writing(k)'
        BY <1>3, <3>1, <3>3 DEF Writing
      <4>2. QED
        BY <3>1, <4>1
    <3>4. QED
      BY <3>2, <3>3
  <2>5. QED
    BY <2>3, <2>4
<1>12. CallInv'
  <2>1. SUFFICES ASSUME pc \notin Over, NoneThrown, o = "ok"
                 PROVE  issued = traced + Cardinality(Unanswered')
    BY <1>1, <1>9 DEF CallInv
  <2>2. Unanswered' = Unanswered
    <3>1. l \in Unanswered' <=> l \in Unanswered
      BY <1>3, <2>1 DEF Unanswered, Writing
    <3>2. \A k \in Lanes \ {l} : k \in Unanswered' <=> k \in Unanswered
      BY <1>3 DEF Unanswered
    <3>3. Unanswered \subseteq Lanes /\ Unanswered' \subseteq Lanes
      BY DEF Unanswered
    <3>4. QED
      BY <3>1, <3>2, <3>3
  <2>3. QED
    BY <2>1, <2>2 DEF Inv, IInv, CallInv
<1>13. QueryingInv'
  <2>1. \A k \in Lanes : lane[k] \in {"marking", "asked", "thrown"} =>
                          lane'[k] \in {"marking", "asked", "thrown"}
    BY <1>3, <1>4
  <2>2. QED
    BY <1>1, <2>1 DEF Inv, IInv, QueryingInv
<1>14. ActivityIsTrue' /\ EvidenceIsOwned'
  BY <1>1 DEF Inv, IInv, ActivityIsTrue, EvidenceIsOwned, HasEvidence
<1>15. VerdictInv' /\ ReceiptInv'
  BY <1>1, <1>5 DEF VerdictInv, ReceiptInv
<1>16. QED
  BY <1>7, <1>10, <1>11, <1>12, <1>13, <1>14, <1>15 DEF Inv, IInv

\* A lane has its answer, or gives up: it keeps what it can attribute.
LEMMA RespondKeeps ==
  ASSUME Inv, NEW l \in Lanes, NEW ok \in BOOLEAN, NEW kept \in SUBSET (Sources \X Connectors),
         \A e \in kept : Origin[e[1]] = e[2] /\ ProviderOf[e[2]] \in ProvidersOf(Scope(l)),
         Respond(l, ok, kept)
  PROVE  Inv'
<1>1. /\ lane[l] = "asked" /\ lane' = [lane EXCEPT ![l] = "recording"]
      /\ traced' = traced + 1 /\ evidence' = evidence \union kept
      /\ activity' = [p \in Providers |->
           IF p \in ProvidersOf(Scope(l)) THEN StatusAfter(p, ok, evidence') ELSE activity[p]]
      /\ sequence' = sequence + 1 /\ latest' = traced'
      /\ note' = [note EXCEPT ![l] =
           [sequence |-> sequence', calls |-> traced', sources |-> Cardinality(SourceIds(evidence'))]]
      /\ UNCHANGED mode /\ UNCHANGED phase /\ UNCHANGED repaired /\ UNCHANGED verdict
      /\ UNCHANGED pc /\ UNCHANGED issued /\ UNCHANGED run /\ UNCHANGED steps /\ UNCHANGED receipt
  BY DEF Respond, LaneMoves, control, rows
<1>2. /\ lane \in [Lanes -> LaneStates] /\ sequence \in Nat /\ traced \in Nat
      /\ note \in [Lanes -> [sequence : Nat, calls : Nat, sources : Nat]]
      /\ steps \subseteq 1 .. sequence
  BY DEF Inv, TypeOK
<1>3. lane'[l] = "recording" /\ \A k \in Lanes \ {l} : lane'[k] = lane[k]
  BY <1>1, <1>2
<1>4. evidence' \in SUBSET (Sources \X Connectors)
  BY <1>1 DEF Inv, TypeOK
<1>5. Cardinality(SourceIds(evidence')) \in Nat
  BY <1>4, KeptIsNat
<1>6. note'[l].sequence = sequence + 1 /\ \A k \in Lanes \ {l} : note'[k] = note[k]
  BY <1>1, <1>2
<1>7. pc \in {"await", "failing", "failedReply"} /\ receipt = NoReceipt
  BY <1>1 DEF Inv, IInv, LaneInv, ReceiptInv, AllDone
<1>8. 1 .. sequence + 1 = (1 .. sequence) \union {sequence + 1}
  BY <1>2
<1>9. TypeOK'
  <2>1. lane' \in [Lanes -> LaneStates]
    BY <1>1, <1>2 DEF LaneStates
  <2>2. note' \in [Lanes -> [sequence : Nat, calls : Nat, sources : Nat]]
    <3> DEFINE event == [sequence |-> sequence', calls |-> traced',
                         sources |-> Cardinality(SourceIds(evidence'))]
    <3>1. sequence' \in Nat /\ traced' \in Nat
      BY <1>1, <1>2
    <3>2. event \in [sequence : Nat, calls : Nat, sources : Nat]
      BY <1>5, <3>1
    <3>3. note' = [note EXCEPT ![l] = event]
      BY <1>1
    <3> HIDE DEF event
    <3>4. QED
      BY <1>2, <3>2, <3>3
  <2>3. activity' \in [Providers -> {"idle", "querying", "received", "partial", "failed"}]
    <3>1. \A p \in Providers : StatusAfter(p, ok, evidence') \in {"received", "partial", "failed"}
      BY DEF StatusAfter
    <3>2. QED
      BY <1>1, <3>1 DEF Inv, TypeOK
  <2>4. {sequence', latest', issued', traced'} \subseteq Nat
    BY <1>1, <1>2 DEF Inv, TypeOK
  <2>5. steps' \subseteq 1 .. sequence'
    BY <1>1, <1>2, <1>8
  <2>6. QED
    BY <1>1, <1>4, <2>1, <2>2, <2>3, <2>4, <2>5 DEF Inv, TypeOK
<1>10. \A k \in Lanes \ {l} : Writing(k)' <=> Writing(k)
  BY <1>3 DEF Writing
<1>11. NoteInv' /\ LaneInv'
  <2>1. NoteInv'
    <3>1. sequence + 1 \in 1 .. sequence + 1
      BY <1>2
    <3>2. QED
      BY <1>1, <1>6, <1>8, <1>10, <3>1 DEF Inv, IInv, NoteInv
  <2>2. QED
    BY <1>1, <1>7, <2>1 DEF LaneInv
<1>12. NoneThrown' => NoneThrown
  BY <1>1, <1>3 DEF NoneThrown
<1>13. StepInv'
  <2>1. SUFFICES ASSUME pc \notin Over, NoneThrown, NEW n \in 1 .. sequence + 1
                 PROVE  \/ n \in steps
                        \/ \E k \in Lanes : Writing(k)' /\ note'[k].sequence = n
    BY <1>1, <1>12 DEF StepInv
  <2>2. CASE n = sequence + 1
    BY <1>3, <1>6, <2>2 DEF Writing
  <2>3. CASE n \in 1 .. sequence /\ n \notin steps
    <3>1. PICK k \in Lanes : Writing(k) /\ note[k].sequence = n
      BY <2>1, <2>3 DEF Inv, IInv, StepInv
    <3>2. k # l
      BY <1>1, <3>1 DEF Writing
    <3>3. QED
      BY <1>6, <1>10, <3>1, <3>2
  <2>4. QED
    BY <1>8, <2>1, <2>2, <2>3
<1>14. CallInv'
  <2>1. SUFFICES ASSUME pc \notin Over, NoneThrown
                 PROVE  issued = traced + 1 + Cardinality(Unanswered')
    BY <1>1, <1>12 DEF CallInv
  <2>2. Unanswered' = Unanswered \ {l} /\ l \in Unanswered /\ Unanswered \in SUBSET Lanes
    BY <1>1, <1>3 DEF Unanswered
  <2>3. IsFiniteSet(Unanswered) /\ Cardinality(Unanswered) \in Nat
    BY <2>2, LanesFinite
  <2>4. Cardinality(Unanswered') = Cardinality(Unanswered) - 1
    BY <2>2, <2>3, FS_RemoveElement
  <2>5. issued = traced + Cardinality(Unanswered)
    BY <2>1 DEF Inv, IInv, CallInv
  <2>6. QED
    BY <1>2, <2>3, <2>4, <2>5
<1>15. QueryingInv'
  <2>1. SUFFICES ASSUME NEW p \in Providers, activity'[p] = "querying"
                 PROVE  \E k \in Lanes : /\ lane'[k] \in {"marking", "asked", "thrown"}
                                         /\ p \in ProvidersOf(Scope(k))
    BY DEF QueryingInv
  <2>2. p \notin ProvidersOf(Scope(l)) /\ activity[p] = "querying"
    BY <1>1, <2>1 DEF StatusAfter
  <2>3. PICK k \in Lanes : /\ lane[k] \in {"marking", "asked", "thrown"}
                           /\ p \in ProvidersOf(Scope(k))
    BY <1>7, <2>2 DEF Inv, IInv, QueryingInv
  <2>4. QED
    BY <1>3, <2>2, <2>3
<1>16. ActivityIsTrue'
  <2>1. SUFFICES ASSUME NEW p \in Providers
                 PROVE  /\ activity'[p] = "received" => HasEvidence(p, evidence')
                        /\ activity'[p] \in {"idle", "failed"} => ~HasEvidence(p, evidence')
    BY DEF ActivityIsTrue
  <2>2. CASE p \in ProvidersOf(Scope(l))
    BY <1>1, <2>2 DEF StatusAfter
  <2>3. CASE p \notin ProvidersOf(Scope(l))
    <3>1. HasEvidence(p, evidence') <=> HasEvidence(p, evidence)
      BY <1>1, <2>3 DEF HasEvidence
    <3>2. QED
      BY <1>1, <2>3, <3>1 DEF Inv, IInv, ActivityIsTrue
  <2>4. QED
    BY <2>2, <2>3
<1>17. EvidenceIsOwned'
  BY <1>1 DEF Inv, IInv, EvidenceIsOwned
<1>18. VerdictInv' /\ ReceiptInv'
  BY <1>1, <1>7 DEF VerdictInv, ReceiptInv
<1>19. QED
  BY <1>9, <1>11, <1>13, <1>14, <1>15, <1>16, <1>17, <1>18 DEF Inv, IInv

LEMMA LanesKeep ==
  ASSUME Inv, NEW l \in Lanes,
         LaneStep(l) \/ GiveUp(l) \/ \E returned \in SUBSET Sources : Answer(l, returned)
  PROVE  Inv'
<1>1. ASSUME NEW o \in Outcomes, WriteMark(l, o) PROVE Inv'
  BY <1>1, WriteKeeps DEF WriteMark, LaneMoves, Writing
<1>2. ASSUME NEW o \in Outcomes, WriteResponse(l, o) PROVE Inv'
  BY <1>2, WriteKeeps DEF WriteResponse, LaneMoves, Writing
<1>3. CASE GiveUp(l)
  <2> DEFINE none == {}
  <2>1. none \in SUBSET (Sources \X Connectors) /\ \A e \in none : FALSE
    OBVIOUS
  <2>2. Respond(l, FALSE, none)
    BY <1>3 DEF GiveUp
  <2> HIDE DEF none
  <2>3. QED
    BY <2>1, <2>2, RespondKeeps
<1>4. ASSUME NEW returned \in SUBSET Sources, Answer(l, returned) PROVE Inv'
  <2> DEFINE kept == Retained(l, returned)
  <2>1. returned \subseteq Returnable(l) /\ Respond(l, TRUE, kept)
    BY <1>4 DEF Answer
  <2>2. kept \in SUBSET (Sources \X Connectors)
    BY DEF Retained
  <2>3. ASSUME NEW e \in kept
        PROVE  Origin[e[1]] = e[2] /\ ProviderOf[e[2]] \in ProvidersOf(Scope(l))
    <3>1. e[1] \in Returnable(l) /\ e[2] \in Owners(l, e[1])
      BY <2>1 DEF Retained
    <3>2. QED
      BY <3>1, OwnersAreAsked DEF ProvidersOf
  <2> HIDE DEF kept
  <2>4. QED
    BY <2>1, <2>2, <2>3, RespondKeeps
<1>5. QED
  BY <1>1, <1>2, <1>3, <1>4 DEF LaneStep

LEMMA CrashKeeps ==
  ASSUME Inv, Crash
  PROVE  Inv'
<1>1. /\ pc' = "crashed" /\ lane' = [l \in Lanes |-> "off"]
      /\ UNCHANGED mode /\ UNCHANGED phase /\ UNCHANGED repaired /\ UNCHANGED verdict
      /\ UNCHANGED note /\ UNCHANGED activity /\ UNCHANGED sequence
      /\ UNCHANGED latest /\ UNCHANGED issued /\ UNCHANGED traced /\ UNCHANGED evidence
      /\ UNCHANGED run /\ UNCHANGED steps /\ UNCHANGED receipt
  BY DEF Crash, control, recorderVars, callVars, rows
<1>2. "crashed" \in PcStates /\ "crashed" \in Over
  BY DEF PcStates, Replies, Over
<1>3. TypeOK'
  <2>1. lane' \in [Lanes -> LaneStates]
    BY <1>1 DEF LaneStates
  <2>2. QED
    BY <1>1, <1>2, <2>1 DEF Inv, TypeOK
<1>4. AllDone' /\ \A l \in Lanes : ~Writing(l)'
  BY <1>1 DEF AllDone, Writing
<1>5. NoteInv' /\ LaneInv' /\ StepInv' /\ CallInv' /\ QueryingInv' /\ VerdictInv'
  BY <1>1, <1>2, <1>4 DEF NoteInv, LaneInv, StepInv, CallInv, QueryingInv, VerdictInv
<1>6. ReceiptInv'
  BY <1>1, <1>2, <1>4 DEF Inv, IInv, ReceiptInv, NoneQuerying
<1>7. ActivityIsTrue' /\ EvidenceIsOwned'
  BY <1>1 DEF Inv, IInv, ActivityIsTrue, EvidenceIsOwned, HasEvidence
<1>8. QED
  BY <1>3, <1>5, <1>6, <1>7 DEF Inv, IInv

LEMMA InvHolds == Spec => []Inv
<1>1. Inv /\ [Next]_vars => Inv'
  <2> SUFFICES ASSUME Inv, [Next]_vars PROVE Inv'
    OBVIOUS
  <2>1. CASE UNCHANGED vars
    <3>1. /\ UNCHANGED pc /\ UNCHANGED mode /\ UNCHANGED phase /\ UNCHANGED repaired
          /\ UNCHANGED verdict /\ UNCHANGED lane /\ UNCHANGED note /\ UNCHANGED activity
          /\ UNCHANGED sequence /\ UNCHANGED latest /\ UNCHANGED issued /\ UNCHANGED traced
          /\ UNCHANGED evidence /\ UNCHANGED run /\ UNCHANGED steps /\ UNCHANGED receipt
      BY <2>1 DEF vars, control, recorderVars, callVars, rows
    <3>2. Kept' = Kept
      BY <3>1, KeptStays
    <3>3. TypeOK' /\ NoteInv' /\ LaneInv' /\ StepInv'
      BY <3>1 DEF Inv, IInv, TypeOK, NoteInv, LaneInv, StepInv, Writing, AllDone, NoneThrown
    <3>4. CallInv' /\ QueryingInv' /\ ActivityIsTrue' /\ EvidenceIsOwned'
      BY <3>1 DEF Inv, IInv, CallInv, QueryingInv, ActivityIsTrue, EvidenceIsOwned, HasEvidence,
                  Unanswered, NoneThrown
    <3>5. VerdictInv' /\ ReceiptInv'
      BY <3>1, <3>2 DEF Inv, IInv, VerdictInv, ReceiptInv, AllDone, NoneQuerying
    <3>6. QED
      BY <3>3, <3>4, <3>5 DEF Inv, IInv
  <2>2. CASE Handle
    <3>1. CASE Quietly
      BY <3>1, QuietlyKeeps
    <3>2. ASSUME NEW o \in Outcomes,
                 RecordRouting(o) \/ ChooseDelivery(o) \/ ChooseCoverage(o)
                   \/ Escalate(o) \/ KeepFast(o) \/ RecordStage(o) \/ Conclude(o)
                   \/ PersistReceipt(o) \/ Audit(o) \/ RecordFailed(o)
          PROVE  Inv'
      BY <3>2, RecordsKeep, ConcludeKeeps, PersistKeeps, AuditKeeps, FailedKeeps
    <3>3. QED
      BY <2>2, <3>1, <3>2, BatchesKeep DEF Handle, Quietly
  <2>3. CASE \E o \in Outcomes : StartRun(o)
    BY <2>3, StartRunKeeps
  <2>4. ASSUME NEW l \in Lanes,
               LaneStep(l) \/ GiveUp(l) \/ \E returned \in SUBSET Sources : Answer(l, returned)
        PROVE  Inv'
    BY <2>4, LanesKeep
  <2>5. CASE Crash
    BY <2>5, CrashKeeps
  <2>6. QED
    BY <2>1, <2>2, <2>3, <2>4, <2>5 DEF Next
<1>2. QED
  BY <1>1, InvInit, PTL DEF Spec

\* Types of the variables.
THEOREM TypeCorrect == Spec => []TypeOK
  BY InvHolds, PTL DEF Inv

\* ask/route.ts: once the caller has the answer, the stored run has one step per event,
\* the verdict of the receipt, and the calls and sources of the whole run, whatever
\* order the parallel lanes' events reached the database in.
THEOREM AnswerRecorded == Spec => []AnswerIsRecorded
<1>1. Inv => AnswerIsRecorded
  <2> SUFFICES ASSUME Inv, pc = "answered"
               PROVE  /\ Quiet /\ steps = 1 .. sequence
                      /\ run = [status |-> receipt.stage, calls |-> issued,
                                sources |-> Cardinality(SourceIds(evidence))]
    BY DEF AnswerIsRecorded
  <2>1. AllDone /\ pc \notin Over
    BY DEF Inv, IInv, LaneInv, Over
  <2>2. Quiet
    BY <2>1 DEF Quiet, AllDone
  <2>3. 1 .. sequence \subseteq steps /\ steps \subseteq 1 .. sequence
    BY <2>1 DEF Inv, IInv, StepInv, TypeOK, AllDone, NoneThrown, Writing
  <2>4. receipt.stage = verdict
    BY DEF Inv, IInv, ReceiptInv
  <2>5. run = [status |-> verdict, calls |-> issued, sources |-> Kept]
    BY DEF Inv, IInv, VerdictInv
  <2>6. QED
    BY <2>2, <2>3, <2>4, <2>5 DEF Kept
<1>2. QED
  BY <1>1, InvHolds, PTL

\* retrieval.ts: every retained source was synced by the connector it is attributed to,
\* also when its lineage was left out and the connector's own query vouches for it.
THEOREM EvidenceOwned == Spec => []EvidenceIsOwned
  BY InvHolds, PTL DEF Inv, IInv

\* What is stored and shown while a run goes on, and after it failed, is backed: the
\* receipt by stored steps, each provider's activity by the evidence.
THEOREM RecordBacked == Spec => []RecordIsBacked
<1>1. Inv => RecordIsBacked
  BY DEF Inv, IInv, ReceiptInv, NoneQuerying, RecordIsBacked, ReceiptIsBacked
<1>2. QED
  BY <1>1, InvHolds, PTL
=============================================================================
