--------------------------- MODULE QueryWorkflow ---------------------------
(***************************************************************************)
(* One run of POST /api/ask: the handler issues batches of HydraDB queries *)
(* (a primary batch, bounded connector-scoped repairs, a Thinking          *)
(* follow-up), keeps the sources whose lineage it can attribute, records   *)
(* every stage in query_steps and query_runs, and stores a receipt.        *)
(*                                                                         *)
(* A batch runs its lanes in parallel under one Promise.all.  Each lane    *)
(* writes an event, asks HydraDB, and writes another event; the events are *)
(* numbered in memory but reach the database in any order.  The first lane *)
(* to throw fails the run, and the other lanes keep going.                 *)
(***************************************************************************)
EXTENDS Integers, FiniteSets, StatementFates

CONSTANTS
  Connectors,    \* connectors in state data_verified: the scope of the run
  Providers,
  ProviderOf,    \* the provider of each connector
  Rank,          \* the order in which a batch starts its lanes
  Sources,       \* sources HydraDB may return
  Origin,        \* the connector that synced each source, or Foreign
  Matches,       \* connectors a source's returned lineage names
                 \* (sourceBelongsToConnector: its connector, or its selected resource)
  Reported,      \* the provider each source says it is from, or Unsaid
  Foreign,
  Unsaid,
  MaxRepairs     \* coverageRepairProviderOrder(...).slice(0, 3)

Variants == {"text", "hybrid"}
Lanes == Variants \union Connectors

ASSUME LanesAssumption ==
  /\ IsFiniteSet(Connectors)
  /\ Connectors \intersect Variants = {}
  /\ ProviderOf \in [Connectors -> Providers]
  /\ Rank \in [Lanes -> Nat]
  /\ \A k, l \in Lanes : Rank[k] = Rank[l] => k = l
  /\ MaxRepairs \in Nat

\* HydraDB omits lineage but does not invent it.
ASSUME LineageAssumption ==
  /\ IsFiniteSet(Sources)
  /\ Foreign \notin Connectors /\ Unsaid \notin Providers
  /\ Origin \in [Sources -> Connectors \union {Foreign}]
  /\ Matches \in [Sources -> SUBSET Connectors]
  /\ \A s \in Sources : Matches[s] \subseteq {Origin[s]}
  /\ Reported \in [Sources -> Providers \union {Unsaid}]

VARIABLES
  pc,         \* control state of the handler
  mode,       \* requested mode: "auto", "fast" or "thinking"
  phase,      \* the batch in flight, or the last one
  repaired,   \* providers the coverage repair has queried
  lane,       \* control state of each lane
  note,       \* the event each lane is writing
  activity,   \* recorder: status of each provider
  verdict,    \* finalStage
  evidence,   \* retained sources, each with the connector it is attributed to
  sequence,   \* recorder: number of the last event
  latest,     \* recorder: latestCallCount
  issued,     \* issuedCallCount
  traced,     \* trace.length
  run,        \* the query_runs row
  steps,      \* query_steps of the run, by sequence
  receipt     \* the query_receipts row

recorderVars == <<activity, sequence, latest>>
callVars == <<issued, traced, evidence>>
rows == <<run, steps, receipt>>
control == <<mode, phase, repaired, verdict>>
vars == <<pc, control, lane, note, recorderVars, callVars, rows>>

FinalStages == {"abstained", "partial", "complete"}
RunStages == {"routing", "retrieving", "linking", "checking-contradictions", "validating",
              "compiling-action", "failed"} \union FinalStages
Replies == {"answered", "failedReply", "serverError", "crashed"}
PcStates == {"idle", "routing", "client", "repair", "thinking", "await", "decide", "linking",
             "checking-contradictions", "validating", "queue", "compiling-action", "final",
             "persist", "audit", "failing"} \union Replies
LaneStates == {"off", "marking", "asked", "recording", "ended", "thrown"}
NoRow == [status |-> "absent", calls |-> 0, sources |-> 0]
NoReceipt == [events |-> 0, stage |-> "absent"]

TypeOK ==
  /\ pc \in PcStates
  /\ mode \in {"auto", "fast", "thinking"}
  /\ phase \in {"none", "primary", "delivery", "repair", "thinking"}
  /\ repaired \subseteq Providers
  /\ verdict \in FinalStages \union {"absent"}
  /\ lane \in [Lanes -> LaneStates]
  /\ note \in [Lanes -> [sequence : Nat, calls : Nat, sources : Nat]]
  /\ activity \in [Providers -> {"idle", "querying", "received", "partial", "failed"}]
  /\ evidence \subseteq Sources \X Connectors
  /\ {sequence, latest, issued, traced} \subseteq Nat
  /\ run \in [status : RunStages \union {"absent"}, calls : Nat, sources : Nat]
  /\ steps \subseteq 1..sequence
  /\ receipt \in [events : Nat, stage : FinalStages \union {"absent"}]

Blank == [sequence |-> 0, calls |-> 0, sources |-> 0]

Init ==
  /\ pc = "idle"
  /\ mode \in {"auto", "fast", "thinking"}
  /\ phase = "none"
  /\ repaired = {}
  /\ verdict = "absent"
  /\ lane = [l \in Lanes |-> "off"]
  /\ note = [l \in Lanes |-> Blank]
  /\ activity = [p \in Providers |-> "idle"]
  /\ evidence = {}
  /\ sequence = 0 /\ latest = 0 /\ issued = 0 /\ traced = 0
  /\ run = NoRow
  /\ steps = {}
  /\ receipt = NoReceipt

SourceIds(kept) == {e[1] : e \in kept}

\* The batch of record(): INSERT the step and overwrite the run.
Write(o, stage, event) ==
  IF Applied(o)
  THEN /\ steps' = steps \union {event.sequence}
       /\ run' = [status |-> stage, calls |-> event.calls, sources |-> event.sources]
  ELSE UNCHANGED <<steps, run>>

\* record() awaited by the handler itself.
RecordThen(o, stage, calls, next) ==
  /\ pc' = next
  /\ sequence' = sequence + 1
  /\ latest' = calls
  /\ Write(o, stage, [sequence |-> sequence + 1, calls |-> calls,
                      sources |-> Cardinality(SourceIds(evidence))])
  /\ UNCHANGED <<mode, lane, note, activity, callVars, receipt>>

\* Mutant: an event that could not be written is logged and forgotten.
RecordAndForget(o, stage, next) ==
  RecordThen(o, stage, traced, next)

Record(o, stage, next) ==
  RecordThen(o, stage, traced, IF o = "ok" THEN next ELSE "failing")

(***************************************************************************)
(* Lineage: which connector a returned source is attributed to.            *)
(***************************************************************************)
Scope(l) == IF l \in Connectors THEN {l} ELSE Connectors

\* Mutant: provider equality alone is taken for lineage.
StrictByProvider(l, s) ==
  LET named == {c \in Scope(l) : ProviderOf[c] = Reported[s]}
  IN {c \in named : \A d \in named : Rank[c] <= Rank[d]}

\* The first connector of the scope whose provider and lineage the source names.
Strict(l, s) ==
  LET named == {c \in Scope(l) \intersect Matches[s] : ProviderOf[c] = Reported[s]}
  IN {c \in named : \A d \in named : Rank[c] <= Rank[d]}

\* sourceAttestedByScopedConnectorQuery: a follow-up filtered to the one connector of
\* its provider vouches for sources that come back without lineage.
Attested(l, s) ==
  {c \in Connectors :
     /\ l = c
     /\ phase \in {"delivery", "repair"}
     /\ \A d \in Connectors : ProviderOf[d] = ProviderOf[c] => d = c
     /\ Reported[s] \in {Unsaid, ProviderOf[c]}}

Owners(l, s) == IF Strict(l, s) # {} THEN Strict(l, s) ELSE Attested(l, s)

\* What a lane keeps of the sources it got.  HydraDB honours the connector_id filter
\* a connector's own lane sends.
Returnable(l) == {s \in Sources : l \in Connectors => Origin[s] = l}
Retained(l, returned) ==
  {e \in returned \X Connectors : e[2] \in Owners(l, e[1])}

(***************************************************************************)
(* The handler.                                                            *)
(***************************************************************************)
\* INSERT INTO query_runs; failureContext is still null, so an error is a bare 500.
StartRun(o) ==
  /\ pc = "idle"
  /\ pc' = IF o = "ok" THEN "routing" ELSE "serverError"
  /\ run' = IF Applied(o) THEN [NoRow EXCEPT !.status = "routing"] ELSE run
  /\ UNCHANGED <<control, lane, note, recorderVars, callVars, steps, receipt>>

RecordRouting(o) ==
  /\ pc = "routing"
  /\ Record(o, "routing", "client")
  /\ UNCHANGED <<phase, repaired, verdict>>

\* The reads of the account (before the first batch) and of the queue may fail, and the
\* answer or the workflow may not pass its schema.
HandlerThrows ==
  /\ pc \in {"client", "queue", "final", "persist"}
  /\ pc' = "failing"
  /\ UNCHANGED <<control, lane, note, recorderVars, callVars, rows>>

Place(batch, l) == Cardinality({k \in batch : Rank[k] <= Rank[l]})

ProvidersOf(connectors) == {ProviderOf[c] : c \in connectors}
BatchProviders(batch) == ProvidersOf(UNION {Scope(l) : l \in batch})

\* Every lane of a batch reaches its first await before any other code runs: calls and
\* events are numbered together, and the lanes' first events are all in flight.
StartBatch(batch) ==
  /\ pc' = "await"
  /\ lane' = [l \in Lanes |-> IF l \in batch THEN "marking" ELSE "off"]
  /\ note' = [l \in Lanes |->
       IF l \in batch
       THEN [sequence |-> sequence + Place(batch, l), calls |-> issued + Place(batch, l),
             sources |-> Cardinality(SourceIds(evidence))]
       ELSE Blank]
  /\ activity' = [p \in Providers |->
       IF p \in BatchProviders(batch) THEN "querying" ELSE activity[p]]
  /\ sequence' = sequence + Cardinality(batch)
  /\ issued' = issued + Cardinality(batch)
  /\ latest' = issued + Cardinality(batch)
  /\ UNCHANGED <<mode, verdict, evidence, traced, rows>>

\* retrievalQueryVariants: both lanes for an exact identifier, else one.
StartPrimary(variants) ==
  /\ pc = "client"
  /\ variants # {}
  /\ StartBatch(variants)
  /\ phase' = "primary"
  /\ UNCHANGED repaired

\* One batch over every connector of up to three delivery providers.
DeliveryRepair(providers) ==
  /\ pc = "repair" /\ phase = "delivery"
  /\ providers # {} /\ Cardinality(providers) <= MaxRepairs
  /\ StartBatch({c \in Connectors : ProviderOf[c] \in providers})
  /\ UNCHANGED <<phase, repaired>>

\* Coverage repair: provider after provider, each over all its connectors.
CoverageRepair(p) ==
  /\ pc = "repair" /\ phase = "repair"
  /\ p \notin repaired /\ Cardinality(repaired) < MaxRepairs
  /\ StartBatch({c \in Connectors : ProviderOf[c] = p})
  /\ repaired' = repaired \union {p}
  /\ UNCHANGED phase

\* The repair found what it looked for, or nobody is left to ask.
EndRepair ==
  /\ pc = "repair" /\ phase = "repair"
  /\ pc' = "decide"
  /\ UNCHANGED <<control, lane, note, recorderVars, callVars, rows>>

ThinkingFollowUp ==
  /\ pc = "thinking"
  /\ StartBatch({"hybrid"})
  /\ phase' = "thinking"
  /\ UNCHANGED repaired

\* The caller hung up: the next batch throws before it issues anything.
Cancelled ==
  /\ pc \in {"client", "repair", "thinking"}
  /\ pc' = "failing"
  /\ UNCHANGED <<control, lane, note, recorderVars, callVars, rows>>

\* Mutant: the event of a response is written but not awaited.
BatchDoneUnwritten ==
  /\ pc = "await"
  /\ \A l \in Lanes : lane[l] \in {"off", "recording", "ended"}
  /\ pc' = IF phase = "repair" THEN "repair" ELSE "decide"
  /\ UNCHANGED <<control, lane, note, recorderVars, callVars, rows>>

\* Promise.all resolves when every lane has; it rejects with the first that throws.
BatchDone ==
  /\ pc = "await"
  /\ \A l \in Lanes : lane[l] \in {"off", "ended"}
  /\ pc' = IF phase = "repair" THEN "repair" ELSE "decide"
  /\ UNCHANGED <<control, lane, note, recorderVars, callVars, rows>>

BatchThrows ==
  /\ pc = "await"
  /\ \E l \in Lanes : lane[l] = "thrown"
  /\ pc' = "failing"
  /\ UNCHANGED <<control, lane, note, recorderVars, callVars, rows>>

\* What the preliminary answer shows decides, within what the mode allows.
ChooseDelivery(o) ==
  /\ pc = "decide" /\ phase = "primary" /\ mode # "thinking"
  /\ Record(o, "routing", "repair")
  /\ phase' = "delivery"
  /\ UNCHANGED <<repaired, verdict>>

ChooseCoverage(o) ==
  /\ pc = "decide" /\ phase = "primary"
  /\ Record(o, "routing", "repair")
  /\ phase' = "repair"
  /\ UNCHANGED <<repaired, verdict>>

Escalate(o) ==
  /\ pc = "decide" /\ mode = "auto" /\ phase \in {"primary", "repair"}
  /\ Record(o, "routing", "thinking")
  /\ UNCHANGED <<phase, repaired, verdict>>

KeepFast(o) ==
  /\ pc = "decide" /\ mode = "auto" /\ phase # "thinking"
  /\ Record(o, "routing", "linking")
  /\ UNCHANGED <<phase, repaired, verdict>>

\* An explicit mode is followed without an event; Investigate asks again if it can.
Proceed ==
  /\ pc = "decide" /\ (mode # "auto" \/ phase = "thinking")
  /\ \/ pc' = "linking"
     \/ pc' = "thinking" /\ mode = "thinking" /\ phase # "thinking"
  /\ UNCHANGED <<control, lane, note, recorderVars, callVars, rows>>

RecordStage(o) ==
  /\ \/ pc = "linking" /\ Record(o, "linking", "checking-contradictions")
     \/ pc = "checking-contradictions" /\ Record(o, "checking-contradictions", "validating")
     \/ pc = "validating" /\ Record(o, "validating", "queue")
     \/ pc = "compiling-action" /\ Record(o, "compiling-action", "final")
  /\ UNCHANGED <<phase, repaired, verdict>>

ReadQueue ==
  /\ pc = "queue"
  /\ pc' = "compiling-action"
  /\ UNCHANGED <<control, lane, note, recorderVars, callVars, rows>>

Conclude(o) ==
  /\ pc = "final"
  /\ verdict' \in (IF evidence = {} THEN {"abstained"} ELSE FinalStages)
  /\ Record(o, verdict', "persist")
  /\ UNCHANGED <<phase, repaired>>

PersistReceipt(o) ==
  /\ pc = "persist"
  /\ pc' = IF o = "ok" THEN "audit" ELSE "failing"
  /\ receipt' = IF Applied(o) THEN [events |-> sequence, stage |-> verdict] ELSE receipt
  /\ UNCHANGED <<control, lane, note, recorderVars, callVars, run, steps>>

\* failureContext is null again: an error here is a bare 500.
Audit(o) ==
  /\ pc = "audit"
  /\ pc' = IF o = "ok" THEN "answered" ELSE "serverError"
  /\ UNCHANGED <<control, lane, note, recorderVars, callVars, rows>>

\* The catch block: whether 'failed' could be recorded changes nothing.
RecordFailed(o) ==
  /\ pc = "failing"
  /\ RecordThen(o, "failed", latest, "failedReply")
  /\ UNCHANGED <<phase, repaired, verdict>>

\* The instance dies, with the lanes it still runs.
Crash ==
  /\ pc \notin {"idle", "answered", "serverError", "crashed"}
  /\ pc' = "crashed"
  /\ lane' = [l \in Lanes |-> "off"]
  /\ UNCHANGED <<control, note, recorderVars, callVars, rows>>

(***************************************************************************)
(* A lane.                                                                 *)
(***************************************************************************)
LaneMoves(l, from, to) ==
  /\ lane[l] = from
  /\ lane' = [lane EXCEPT ![l] = to]

WriteMark(l, o) ==
  /\ LaneMoves(l, "marking", IF o = "ok" THEN "asked" ELSE "thrown")
  /\ Write(o, "retrieving", note[l])
  /\ UNCHANGED <<pc, control, note, recorderVars, callVars, receipt>>

HasEvidence(p, kept) == \E e \in kept : ProviderOf[e[2]] = p

StatusAfter(p, ok, kept) ==
  CASE ok /\ HasEvidence(p, kept) -> "received"
    [] ~ok /\ ~HasEvidence(p, kept) -> "failed"
    [] OTHER -> "partial"

\* From the answer to the next await: the trace, the evidence, and the event.
Respond(l, ok, kept) ==
  /\ LaneMoves(l, "asked", "recording")
  /\ traced' = traced + 1
  /\ evidence' = evidence \union kept
  /\ activity' = [p \in Providers |->
       IF p \in ProvidersOf(Scope(l)) THEN StatusAfter(p, ok, evidence') ELSE activity[p]]
  /\ sequence' = sequence + 1
  /\ latest' = traced'
  /\ note' = [note EXCEPT ![l] =
       [sequence |-> sequence', calls |-> traced',
        sources |-> Cardinality(SourceIds(evidence'))]]
  /\ UNCHANGED <<pc, control, issued, rows>>

\* HydraDB answers, perhaps never.
Answer(l, returned) ==
  /\ returned \subseteq Returnable(l)
  /\ Respond(l, TRUE, Retained(l, returned))

\* Mutant: only an answer of HydraDB ends the wait.
GiveUpNever(l) == FALSE /\ Respond(l, FALSE, {})

\* HydraDB refuses the query, the caller hangs up, or the client's timeout (20 s, 16 s
\* for Thinking) ends the wait.
GiveUp(l) == Respond(l, FALSE, {})

WriteResponse(l, o) ==
  /\ LaneMoves(l, "recording", IF o = "ok" THEN "ended" ELSE "thrown")
  /\ Write(o, "retrieving", note[l])
  /\ UNCHANGED <<pc, control, note, recorderVars, callVars, receipt>>

(***************************************************************************)
(* The specification.                                                      *)
(***************************************************************************)
Handle ==
  \/ \E v \in SUBSET Variants : StartPrimary(v)
  \/ \E ps \in SUBSET ProvidersOf(Connectors) : DeliveryRepair(ps)
  \/ \E p \in ProvidersOf(Connectors) : CoverageRepair(p)
  \/ EndRepair \/ ThinkingFollowUp \/ Cancelled \/ HandlerThrows
  \/ BatchDone \/ BatchThrows \/ Proceed \/ ReadQueue
  \/ \E o \in Outcomes :
       \/ RecordRouting(o) \/ ChooseDelivery(o) \/ ChooseCoverage(o)
       \/ Escalate(o) \/ KeepFast(o) \/ RecordStage(o) \/ Conclude(o)
       \/ PersistReceipt(o) \/ Audit(o) \/ RecordFailed(o)

LaneStep(l) == \E o \in Outcomes : WriteMark(l, o) \/ WriteResponse(l, o)

Next ==
  \/ \E o \in Outcomes : StartRun(o)
  \/ Handle
  \/ \E l \in Lanes :
       \/ LaneStep(l)
       \/ GiveUp(l)
       \/ \E returned \in SUBSET Sources : Answer(l, returned)
  \/ Crash

Spec == Init /\ [][Next]_vars

\* An admitted request keeps running unless its instance dies; statements and timeouts
\* return.  Nothing is assumed of HydraDB.
FairSpec ==
  /\ Spec
  /\ WF_vars(Handle)
  /\ \A l \in Lanes : WF_vars(LaneStep(l)) /\ WF_vars(GiveUp(l))

(***************************************************************************)
(* Properties.                                                             *)
(***************************************************************************)
Quiet == \A l \in Lanes : lane[l] \in {"off", "ended", "thrown"}

\* Once the caller has the answer, the stored run agrees with it for good: one step per
\* event, the verdict, and the call and source counts of the whole run, though the
\* events of parallel lanes overwrite the row in any order.
AnswerIsRecorded ==
  pc = "answered" =>
    /\ Quiet
    /\ steps = 1..sequence
    /\ run = [status |-> receipt.stage, calls |-> issued,
              sources |-> Cardinality(SourceIds(evidence))]

\* A stored receipt lists only events that are in query_steps, shows no provider as
\* still being queried, and abstains when nothing was retained.
ReceiptIsBacked ==
  receipt # NoReceipt =>
    /\ 1..receipt.events \subseteq steps
    /\ \A p \in Providers : activity[p] # "querying"
    /\ evidence = {} => receipt.stage = "abstained"

\* Whatever order the lanes of a provider answer in, the provider is shown as having
\* returned evidence, or none, exactly when it did.
ActivityIsTrue ==
  \A p \in Providers :
    /\ activity[p] = "received" => HasEvidence(p, evidence)
    /\ activity[p] \in {"idle", "failed"} => ~HasEvidence(p, evidence)

\* What is stored and shown of a run while it goes on, and after it failed, is backed: the
\* receipt by the steps, the providers' activity by the evidence.
RecordIsBacked == TypeOK /\ ReceiptIsBacked /\ ActivityIsTrue

\* Every retained source was synced by the connector it is attributed to, also when
\* HydraDB leaves its lineage out.
EvidenceIsOwned == \A e \in evidence : Origin[e[1]] = e[2]

\* A run comes to an end, whatever HydraDB does, and leaves no lane behind that could
\* still write to its rows.
RunEnds == pc # "idle" ~> pc \in Replies /\ Quiet
=============================================================================
