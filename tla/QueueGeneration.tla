-------------------------- MODULE QueueGeneration --------------------------
(***************************************************************************)
(* The next-action queue: generations that retrieve evidence, cluster it   *)
(* into tasks, and store the ranking they emit in one batch; and readers   *)
(* that list the latest ranking.                                           *)
(*                                                                         *)
(* A piece of evidence is the work IDs, product names and task wording it  *)
(* carries and the provider it came from; texts, dates, scores and the     *)
(* order of the ranking are left out.                                      *)
(***************************************************************************)
EXTENDS Integers, Sequences, FiniteSets, FiniteSetsExt, StatementFates

CONSTANTS
  Generations,   \* runs of generateQueueForWorkspace
  Readers,       \* GET /api/queue and the other callers of listQueueForWorkspace
  Retrievals,    \* what each generation's retrieval may return, in connector order
  MaxItems,      \* 18
  MaxClock,
  NoRun

\* A record of evidence has its provider ("document" for an upload), its exact IDs, the
\* product names it mentions, and a wording that stands for sameTaskWording: its tokens,
\* dates and named scopes.  Dates that keep equal product names apart are left out.
ASSUME EvidenceAssumption ==
  \A g \in Generations : \A records \in Retrievals[g] :
    /\ records \in Seq({records[i] : i \in DOMAIN records})
    /\ \A i \in DOMAIN records : IsFiniteSet(records[i].ids) /\ IsFiniteSet(records[i].entities)
ASSUME BoundsAssumption ==
  MaxItems \in Nat \ {0} /\ MaxClock \in Nat /\ NoRun \notin Generations

VARIABLES
  clock,     \* wall clock, in milliseconds that matter
  pc,        \* control state of each generation
  evidence,  \* what each generation retrieved
  emitted,   \* the tasks each generation means to store
  stamp,     \* completed_at, taken before the batch
  run,       \* ranking_runs and its ranking_items: per generation, absent or stored
  order,     \* the generations in the order their batches were stored (created_at)
  reader,    \* control state of each reader
  latest,    \* the run each reader selected
  listed     \* the stamp of the newest queue each reader has shown

generationVars == <<pc, evidence, emitted, stamp>>
stored == <<run, order>>
readerVars == <<reader, latest, listed>>
vars == <<clock, generationVars, stored, readerVars>>

(***************************************************************************)
(* clusterTaskEvidence: union-find over the records, by index.             *)
(***************************************************************************)
\* canOriginateQueueTask.
Workplace(records) == {i \in DOMAIN records : records[i].provider # "document"}
Documents(records) == DOMAIN records \ Workplace(records)

Overlap(a, b) == a \intersect b # {}
SharesId(a, b) == Overlap(a.ids, b.ids)
\* sameTaskWording across providers.  The code compares by overlap, here by equality.
SameWording(a, b) == a.provider # b.provider /\ a.wording = b.wording

\* A partition is the representative of each index.
Singletons(records) == [i \in Workplace(records) |-> i]
Union(classes, i, j) ==
  [k \in DOMAIN classes |-> IF classes[k] = classes[j] THEN classes[i] ELSE classes[k]]
UnionPairs(classes, pairs) ==
  FoldSet(LAMBDA p, acc : Union(acc, p[1], p[2]), classes, pairs)

Idless(records) == {i \in Workplace(records) : records[i].ids = {}}

\* Records with overlapping exact IDs.
ExactPairs(records) ==
  {p \in Workplace(records) \X Workplace(records) :
     p[1] < p[2] /\ SharesId(records[p[1]], records[p[2]])}

\* Unique, reciprocal matches of wording between records without IDs.
Peers(records, i) ==
  {j \in Idless(records) \ {i} : SameWording(records[i], records[j])}
ReciprocalPairs(records) ==
  {p \in Idless(records) \X Idless(records) :
     Peers(records, p[1]) = {p[2]} /\ Peers(records, p[2]) = {p[1]}}

\* The tracked records a record without IDs is worded like, or names a product of.
Tracked(records) == Workplace(records) \ Idless(records)
Worded(records, i) == {m \in Tracked(records) : SameWording(records[i], records[m])}
Named(records, i) == {m \in Tracked(records) : Overlap(records[i].entities, records[m].entities)}

\* exactComponents: their components, as classes stand.
Components(classes, members) == {classes[m] : m \in members}

\* Mutant: joins the first component that matches, though there are several.
JoinFirst(records, classes, i) ==
  LET matching == Components(classes, Worded(records, i) \union Named(records, i))
      first == {c \in matching : \A d \in matching : c <= d}
  IN UnionPairs(classes, {i} \X first)

\* By wording if that singles one out, else by product names.
Join(records, classes, i) ==
  LET worded == Components(classes, Worded(records, i))
      named == Components(classes, Named(records, i))
  IN IF Cardinality(worded) = 1 THEN UnionPairs(classes, {i} \X worded)
     ELSE IF worded = {} /\ Cardinality(named) = 1 THEN UnionPairs(classes, {i} \X named)
     ELSE classes

\* The records without IDs join one after the other, each seeing what the last one did.
Classes(records) ==
  LET paired == UnionPairs(UnionPairs(Singletons(records), ExactPairs(records)),
                           ReciprocalPairs(records))
      joined[k \in 0..Len(records)] ==
        IF k = 0 THEN paired
        ELSE IF k \in Idless(records) THEN Join(records, joined[k - 1], k)
        ELSE joined[k - 1]
  IN joined[Len(records)]

WorkplaceClusters(records) ==
  LET classes == Classes(records)
  IN {{j \in DOMAIN classes : classes[j] = classes[i]} : i \in DOMAIN classes}

ClusterIds(records, cluster) == UNION {records[i].ids : i \in cluster}

\* attachUnambiguousDocumentEvidence: the one cluster a document names, or none.
NamedBy(records, clusters, d) ==
  LET named == {c \in clusters : Overlap(records[d].ids, ClusterIds(records, c))}
  IN IF Cardinality(named) = 1 THEN named ELSE {}

Tasks(records) ==
  LET clusters == WorkplaceClusters(records)
  IN {c \union {d \in Documents(records) : c \in NamedBy(records, clusters, d)} :
        c \in clusters}

(***************************************************************************)
(* State.                                                                  *)
(***************************************************************************)
PcStates == {"idle", "retrieve", "stamp", "store", "audit", "replied", "refused",
             "noEvidence", "serverError", "crashed"}
ReaderStates == {"idle", "selected"}
AllEvidence == {<<>>} \union UNION {Retrievals[g] : g \in Generations}
AllTasks == SUBSET SUBSET UNION {DOMAIN records : records \in AllEvidence}
Absent == [stored |-> FALSE, tasks |-> {}]

TypeOK ==
  /\ clock \in 0..MaxClock
  /\ pc \in [Generations -> PcStates]
  /\ evidence \in [Generations -> AllEvidence]
  /\ emitted \in [Generations -> AllTasks]
  /\ \A g \in Generations : Cardinality(emitted[g]) <= MaxItems
  /\ stamp \in [Generations -> 0..MaxClock]
  /\ run \in [Generations -> [stored : BOOLEAN, tasks : AllTasks]]
  /\ order \in Seq(Generations) /\ \A m, n \in DOMAIN order : order[m] = order[n] => m = n
  /\ reader \in [Readers -> ReaderStates]
  /\ latest \in [Readers -> Generations \union {NoRun}]
  /\ listed \in [Readers -> [run : Generations \union {NoRun}, tasks : AllTasks]]

Init ==
  /\ clock = 0
  /\ pc = [g \in Generations |-> "idle"]
  /\ evidence = [g \in Generations |-> <<>>]
  /\ emitted = [g \in Generations |-> {}]
  /\ stamp = [g \in Generations |-> 0]
  /\ run = [g \in Generations |-> Absent]
  /\ order = <<>>
  /\ reader = [r \in Readers |-> "idle"]
  /\ latest = [r \in Readers |-> NoRun]
  /\ listed = [r \in Readers |-> [run |-> NoRun, tasks |-> {}]]

Moves(g, from, to) ==
  /\ pc[g] = from
  /\ pc' = [pc EXCEPT ![g] = to]

(***************************************************************************)
(* generateQueueForWorkspace.                                              *)
(***************************************************************************)
\* SELECT of the data_verified connectors.
BeginGeneration(g) ==
  /\ \E to \in {"retrieve", "refused"} : Moves(g, "idle", to)
  /\ UNCHANGED <<clock, evidence, emitted, stamp, stored, readerVars>>

\* One bounded query per connector, in parallel; the answers are concatenated in the
\* order of the connectors, whichever came first, and a failed query adds nothing.
Retrieve(g, records) ==
  /\ Moves(g, "retrieve", IF Workplace(records) = {} THEN "noEvidence" ELSE "stamp")
  /\ evidence' = [evidence EXCEPT ![g] = records]
  /\ UNCHANGED <<clock, emitted, stamp, stored, readerVars>>

\* Clustering, ranking and the first lines of the batch.  Scores of zero, and all tasks
\* but the MaxItems best, are left out.
RankAndStamp(g, kept) ==
  /\ Moves(g, "stamp", "store")
  /\ kept \subseteq Tasks(evidence[g]) /\ Cardinality(kept) <= MaxItems
  /\ emitted' = [emitted EXCEPT ![g] = kept]
  /\ stamp' = [stamp EXCEPT ![g] = clock]
  /\ UNCHANGED <<clock, evidence, stored, readerVars>>

\* Mutant: the items are written after the run, one by one; a failure leaves some out.
StoreItemByItem(g, o) ==
  /\ Moves(g, "store", Resume(o, "audit"))
  /\ \E saved \in SUBSET emitted[g] :
       /\ o = "ok" => saved = emitted[g]
       /\ run' = [run EXCEPT ![g] = [stored |-> TRUE, tasks |-> saved]]
  /\ order' = Append(order, g)
  /\ UNCHANGED <<clock, evidence, emitted, stamp, readerVars>>

\* db.batch: the run, its tasks, evidence, items and packets, and the snapshot.
Store(g, o) ==
  /\ Moves(g, "store", Resume(o, "audit"))
  /\ IF Applied(o)
     THEN /\ run' = [run EXCEPT ![g] = [stored |-> TRUE, tasks |-> emitted[g]]]
          /\ order' = Append(order, g)
     ELSE UNCHANGED stored
  /\ UNCHANGED <<clock, evidence, emitted, stamp, readerVars>>

AuditGeneration(g, o) ==
  /\ Moves(g, "audit", Resume(o, "replied"))
  /\ UNCHANGED <<clock, evidence, emitted, stamp, stored, readerVars>>

Crash(g) ==
  /\ pc[g] \in {"retrieve", "stamp", "store", "audit"}
  /\ pc' = [pc EXCEPT ![g] = "crashed"]
  /\ UNCHANGED <<clock, evidence, emitted, stamp, stored, readerVars>>

(***************************************************************************)
(* listQueueForWorkspace: two SELECTs.                                     *)
(***************************************************************************)
StoredRuns == {g \in Generations : run[g].stored}
StoredAt(g) == CHOOSE n \in DOMAIN order : order[n] = g

\* Mutant: ORDER BY created_at, the time of the batch.
NewestByBatch == {g \in StoredRuns : \A h \in StoredRuns : StoredAt(h) <= StoredAt(g)}

\* ORDER BY completed_at DESC, created_at DESC; created_at has seconds, so a tie is open.
Newest == {g \in StoredRuns : \A h \in StoredRuns : stamp[h] <= stamp[g]}

SelectLatest(r) ==
  /\ reader[r] = "idle"
  /\ Newest # {}
  /\ \E g \in Newest : latest' = [latest EXCEPT ![r] = g]
  /\ reader' = [reader EXCEPT ![r] = "selected"]
  /\ UNCHANGED <<clock, generationVars, stored, listed>>

SelectItems(r) ==
  /\ reader[r] = "selected"
  /\ reader' = [reader EXCEPT ![r] = "idle"]
  /\ listed' = [listed EXCEPT ![r] = [run |-> latest[r], tasks |-> run[latest[r]].tasks]]
  /\ UNCHANGED <<clock, generationVars, stored, latest>>

Tick ==
  /\ clock < MaxClock
  /\ clock' = clock + 1
  /\ UNCHANGED <<generationVars, stored, readerVars>>

Next ==
  \/ \E g \in Generations :
       \/ BeginGeneration(g)
       \/ \E records \in Retrievals[g] : Retrieve(g, records)
       \/ \E kept \in SUBSET Tasks(evidence[g]) : RankAndStamp(g, kept)
       \/ \E o \in Outcomes : Store(g, o) \/ AuditGeneration(g, o)
       \/ Crash(g)
  \/ \E r \in Readers : SelectLatest(r) \/ SelectItems(r)
  \/ Tick

Spec == Init /\ [][Next]_vars

(***************************************************************************)
(* Properties.                                                             *)
(***************************************************************************)
\* A reader is shown a whole ranking: everything the generation emitted, though the list
\* takes two statements and generations fail, lose answers or die around them.
ListedIsWhole ==
  \A r \in Readers : listed[r].run # NoRun => listed[r].tasks = emitted[listed[r].run]

\* The queue a reader sees is never replaced by one completed earlier, though batches of
\* overlapping generations may be stored out of order.
ListNeverGoesBack ==
  [][\A r \in Readers :
       listed[r].run # NoRun => stamp'[listed[r].run] <= stamp'[listed'[r].run]]_vars

\* Two records that share a work ID are never split over two tasks, however many records
\* link them, and no record, document or not, counts for two tasks.
EvidenceIsNotSplit ==
  \A g \in Generations :
    LET records == evidence[g]
        tasks == Tasks(records)
    IN /\ \A t, u \in tasks : t # u => t \intersect u = {}
       /\ \A i, j \in Workplace(records) : \A t \in tasks :
            SharesId(records[i], records[j]) /\ i \in t => j \in t

\* An uploaded document corroborates a task of the workplace; it never makes one, and
\* never brings two together.
DocumentsOnlyCorroborate ==
  \A g \in Generations : \A t \in Tasks(evidence[g]) :
    LET records == evidence[g]
        work == {i \in t : records[i].provider # "document"}
    IN /\ work # {}
       /\ work \in WorkplaceClusters(records)
       /\ \A d \in t \ work : Overlap(records[d].ids, ClusterIds(records, work))

\* A record without IDs that fits two unrelated tracked tasks is left on its own.
AmbiguousStaysApart ==
  \A g \in Generations :
    LET records == evidence[g] IN
    \A i \in Idless(records) : \A j, k \in Workplace(records) :
      /\ Peers(records, i) = {}
      /\ j # k /\ records[j].ids # {} /\ records[k].ids # {}
      /\ SameWording(records[i], records[j]) /\ SameWording(records[i], records[k])
      /\ \A t \in Tasks(records) : ~({j, k} \subseteq t)
      => \A t \in Tasks(records) : ~({i, j} \subseteq t)

\* Clustering is by identity: what shares an ID is one task, what merely resembles two tasks
\* belongs to neither, and documents only corroborate, whatever order the records come in.
TasksAreIdentities ==
  TypeOK /\ EvidenceIsNotSplit /\ DocumentsOnlyCorroborate /\ AmbiguousStaysApart

(***************************************************************************)
(* What the repository says and the code does not keep.  No run checks it: *)
(* README.md tells how each comes to be broken.                            *)
(***************************************************************************)
\* "Two disjoint exact-ID components are never collapsed" (lib/server/queue.ts): tracked
\* records end in one task only through a chain of shared IDs.
Linked(records, i) ==
  LET grow[n \in 0..Len(records)] ==
        IF n = 0 THEN {i}
        ELSE grow[n - 1] \union {j \in Workplace(records) :
                                   \E k \in grow[n - 1] : SharesId(records[j], records[k])}
  IN grow[Len(records)]

DisjointIdsStayApart ==
  \A g \in Generations : \A t \in Tasks(evidence[g]) :
    \A i, j \in t \intersect Workplace(evidence[g]) :
      evidence[g][i].ids # {} /\ evidence[g][j].ids # {} => j \in Linked(evidence[g], i)
=============================================================================
