------------------------- MODULE ConnectorLifecycle -------------------------
(***************************************************************************)
(* One connector of a workspace, from the reference adopted out of HydraDB *)
(* to data_verified: the control requests that discover, configure, sync   *)
(* and verify it, alone or as the pipeline of connect-all, interleaved.    *)
(*                                                                         *)
(* One action is one database statement (or batch) or one HydraDB round    *)
(* trip.  A round trip may succeed and still be reported as failed; a      *)
(* request may die between steps.                                          *)
(***************************************************************************)
EXTENDS FiniteSets, StatementFates

CONSTANTS
  Requests,
  Resources,    \* channels, repositories, mailboxes: what a connector may sync
  Foreign       \* an object of another connector of the same provider

ASSUME ForeignAssumption == Foreign \notin Resources

VARIABLES
  state,       \* connectors.state, "absent" before the reference is adopted
  status,      \* connector_resources.status of each resource
  selected,    \* resources whose row has selected = 1
  receipts,    \* connection_verifications of stage data_verified, by their objects
  configured,  \* HydraDB: the resources the connector is configured to sync
  indexed,     \* HydraDB: the resources whose objects can be queried
  pc, op,      \* control state and operation of each request
  scope,       \* resources a request selects, or was told HydraDB can read
  checked,     \* the selection each verification read
  health,      \* what HydraDB told each verification of the connector
  found        \* the objects each canary kept

rows == <<state, status, selected, receipts>>
hydra == <<configured, indexed>>
locals == <<scope, checked, health, found>>
connectorVars == <<rows, hydra, pc, op, locals>>

Operations == {"adopt", "discover", "configure", "sync", "verify", "connectAll"}
States == {"absent", "connector_created", "resources_discovered", "initial_sync_requested",
           "sync_in_progress", "data_verified", "degraded"}
Statuses == {"absent", "discovered", "configured", "verified"}
Replies == {"done", "refused", "unavailable", "unproven", "serverError", "crashed"}
PcStates == {"idle", "adopt", "call", "upsert", "discovered", "check", "configure", "select",
             "sync", "requested", "read", "health", "canary", "receipt", "verdict"}
            \union Replies
Health == [up : BOOLEAN, error : BOOLEAN, synced : BOOLEAN, cursors : SUBSET Resources]
Unknown == [up |-> FALSE, error |-> FALSE, synced |-> FALSE, cursors |-> {}]

ConnectorTypeOK ==
  /\ state \in States
  /\ status \in [Resources -> Statuses]
  /\ selected \subseteq {x \in Resources : status[x] # "absent"}
  /\ receipts \subseteq SUBSET (Resources \union {Foreign})
  /\ configured \subseteq Resources
  /\ indexed \subseteq Resources
  /\ pc \in [Requests -> PcStates]
  /\ op \in [Requests -> Operations]
  /\ scope \in [Requests -> SUBSET Resources]
  /\ checked \in [Requests -> SUBSET Resources]
  /\ health \in [Requests -> Health]
  /\ found \in [Requests -> SUBSET (Resources \union {Foreign})]

ConnectorInit ==
  /\ state = "absent"
  /\ status = [x \in Resources |-> "absent"]
  /\ selected = {} /\ receipts = {}
  /\ configured = {} /\ indexed = {}
  /\ pc = [r \in Requests |-> "idle"]
  /\ op \in [Requests -> Operations]
  /\ scope = [r \in Requests |-> {}]
  /\ checked = [r \in Requests |-> {}]
  /\ health = [r \in Requests |-> Unknown]
  /\ found = [r \in Requests |-> {}]

\* HydraDB accepts and answers, accepts and times out, or refuses.
Reach(o, next) == IF o = "ok" THEN next ELSE "unavailable"

RequestMoves(r, from, to) ==
  /\ pc[r] = from
  /\ pc' = [pc EXCEPT ![r] = to]

Known == {x \in Resources : status[x] # "absent"}

(***************************************************************************)
(* A request begins: the SELECT of the connector's row.                    *)
(***************************************************************************)
\* A selection is never empty.
Begin(r, chosen) ==
  /\ op[r] = "configure" <=> chosen # {}
  /\ RequestMoves(r, "idle",
       IF op[r] \in {"adopt", "connectAll"} THEN "adopt"
       ELSE IF state = "absent" THEN "refused"
       ELSE CASE op[r] = "discover" -> "call"
              [] op[r] = "configure" -> "check"
              [] op[r] = "sync" -> "sync"
              [] op[r] = "verify" -> "read")
  /\ scope' = [scope EXCEPT ![r] = chosen]
  /\ UNCHANGED <<rows, hydra, op, checked, health, found>>

(***************************************************************************)
(* Adoption: POST /api/connectors, the import of existing references, and  *)
(* connect-all.                                                            *)
(***************************************************************************)
\* INSERT OR IGNORE on (workspace_id, hydradb_connector_id).
Adopt(r, o) ==
  /\ RequestMoves(r, "adopt", Resume(o, IF op[r] = "connectAll" THEN "call" ELSE "done"))
  /\ state' = IF Applied(o) /\ state = "absent" THEN "connector_created" ELSE state
  /\ UNCHANGED <<status, selected, receipts, hydra, op, locals>>

(***************************************************************************)
(* Discovery: one upsert per resource HydraDB can read, then the state.    *)
(***************************************************************************)
Discover(r, readable) ==
  /\ RequestMoves(r, "call", IF readable = {} THEN "discovered" ELSE "upsert")
  /\ scope' = [scope EXCEPT ![r] = readable]
  /\ UNCHANGED <<rows, hydra, op, checked, health, found>>

DiscoveryFails(r) ==
  /\ RequestMoves(r, "call", "unavailable")
  /\ UNCHANGED <<rows, hydra, op, locals>>

\* Mutant: INSERT OR REPLACE, which starts the row over.
UpsertReplacing(r, x, o) ==
  /\ RequestMoves(r, "upsert", Resume(o, "upsert"))
  /\ x \in scope[r]
  /\ status' = IF Applied(o) THEN [status EXCEPT ![x] = "discovered"] ELSE status
  /\ selected' = IF Applied(o) THEN selected \ {x} ELSE selected
  /\ UNCHANGED <<state, receipts, hydra, op, locals>>

\* ON CONFLICT leaves selected and status alone.
Upsert(r, x, o) ==
  /\ RequestMoves(r, "upsert", Resume(o, "upsert"))
  /\ x \in scope[r]
  /\ status' = IF Applied(o) /\ status[x] = "absent"
               THEN [status EXCEPT ![x] = "discovered"] ELSE status
  /\ UNCHANGED <<state, selected, receipts, hydra, op, locals>>

\* The loop over the resources ends when each has its row.
UpsertsDone(r) ==
  /\ RequestMoves(r, "upsert", "discovered")
  /\ scope[r] \subseteq Known
  /\ UNCHANGED <<rows, hydra, op, locals>>

MarkDiscovered(r, o) ==
  /\ RequestMoves(r, "discovered",
       Resume(o, IF op[r] = "discover" THEN "done"
                 ELSE IF scope[r] = {} THEN "unavailable" ELSE "configure"))
  /\ state' = IF Applied(o) THEN "resources_discovered" ELSE state
  /\ UNCHANGED <<status, selected, receipts, hydra, op, locals>>

(***************************************************************************)
(* Configuration.                                                          *)
(***************************************************************************)
\* SELECT of the chosen rows: all of them must have been discovered.
CheckChosen(r) ==
  /\ RequestMoves(r, "check", IF scope[r] \subseteq Known THEN "configure" ELSE "refused")
  /\ UNCHANGED <<rows, hydra, op, locals>>

Configure(r, o) ==
  /\ RequestMoves(r, "configure", Reach(o, "select"))
  /\ configured' = IF Applied(o) THEN scope[r] ELSE configured
  /\ UNCHANGED <<rows, indexed, op, locals>>

\* One batch.  configure deselects every row and selects the chosen ones; connect-all
\* selects every row the connector has, discovered now or earlier.
SaveSelection(r, o) ==
  LET rowsOf == IF op[r] = "connectAll" THEN Known ELSE scope[r] \intersect Known IN
  /\ RequestMoves(r, "select", Resume(o, IF op[r] = "connectAll" THEN "sync" ELSE "done"))
  /\ IF Applied(o)
     THEN /\ selected' = rowsOf
          /\ status' = [x \in Resources |->
                         IF x \in rowsOf THEN "configured" ELSE status[x]]
          /\ state' = "initial_sync_requested"
     ELSE UNCHANGED <<selected, status, state>>
  /\ UNCHANGED <<receipts, hydra, op, locals>>

(***************************************************************************)
(* Synchronisation.                                                        *)
(***************************************************************************)
\* connect-all leaves the state as the selection set it.
RequestSync(r, o) ==
  /\ RequestMoves(r, "sync", Reach(o, IF op[r] = "connectAll" THEN "done" ELSE "requested"))
  /\ UNCHANGED <<rows, hydra, op, locals>>

MarkRequested(r, o) ==
  /\ RequestMoves(r, "requested", Resume(o, "done"))
  /\ state' = IF Applied(o) THEN "initial_sync_requested" ELSE state
  /\ UNCHANGED <<status, selected, receipts, hydra, op, locals>>

\* HydraDB syncs a configured resource, at its own pace.
Index(x) ==
  /\ x \in configured
  /\ indexed' = indexed \union {x}
  /\ UNCHANGED <<rows, configured, pc, op, locals>>

(***************************************************************************)
(* Verification.                                                           *)
(***************************************************************************)
ReadSelection(r) ==
  /\ RequestMoves(r, "read", "health")
  /\ checked' = [checked EXCEPT ![r] = selected]
  /\ UNCHANGED <<rows, hydra, op, scope, health, found>>

HasCursor(r, h) == checked[r] # {} /\ h.cursors = checked[r]
SyncEvidence(r, h) == HasCursor(r, h) \/ h.synced
CanRunCanary(r, h) == SyncEvidence(r, h) \/ (h.up /\ ~h.error)

\* connectorResources and getConnector, in parallel.
ReadHealth(r, h) ==
  /\ h.cursors \subseteq checked[r] \intersect indexed
  /\ h.synced => indexed # {}
  /\ RequestMoves(r, "health", IF CanRunCanary(r, h) THEN "canary" ELSE "receipt")
  /\ health' = [health EXCEPT ![r] = h]
  /\ UNCHANGED <<rows, hydra, op, scope, checked, found>>

\* Mutant: any object of the provider is taken for this connector's.
MatchingOfProvider(objects) == objects

\* sourceBelongsToConnector.
Matching(objects) == objects \ {Foreign}

\* The canary query, filtered to the connector; it fails, or returns nothing, alike.
Canary(r, objects) ==
  /\ objects \subseteq indexed \union {Foreign}
  /\ RequestMoves(r, "canary", "receipt")
  /\ found' = [found EXCEPT ![r] = Matching(objects)]
  /\ UNCHANGED <<rows, hydra, op, scope, checked, health>>

Verified(r) == health[r].up /\ found[r] # {} /\ ~health[r].error

NextState(r) ==
  CASE Verified(r) -> "data_verified"
    [] ~Verified(r) /\ ~HasCursor(r, health[r]) /\ health[r].up -> "sync_in_progress"
    [] OTHER -> "degraded"

\* INSERT INTO connection_verifications; only passing receipts are kept here.
InsertReceipt(r, o) ==
  /\ RequestMoves(r, "receipt", Resume(o, "verdict"))
  /\ receipts' = IF Applied(o) /\ Verified(r) THEN receipts \union {found[r]} ELSE receipts
  /\ UNCHANGED <<state, status, selected, hydra, op, locals>>

\* One batch: the state, and 'verified' on each row HydraDB has a cursor for.
SaveVerdict(r, o) ==
  /\ RequestMoves(r, "verdict", Resume(o, IF Verified(r) THEN "done" ELSE "unproven"))
  /\ IF Applied(o)
     THEN /\ state' = NextState(r)
          /\ status' = [x \in Resources |->
                         IF x \in health[r].cursors THEN "verified" ELSE status[x]]
     ELSE UNCHANGED <<state, status>>
  /\ UNCHANGED <<selected, receipts, hydra, op, locals>>

\* The instance dies before the next step.
Crash(r) ==
  /\ pc[r] \notin {"idle"} \union Replies
  /\ pc' = [pc EXCEPT ![r] = "crashed"]
  /\ UNCHANGED <<rows, hydra, op, locals>>

Step(r) ==
  \/ \E xs \in SUBSET Resources : Begin(r, xs) \/ Discover(r, xs)
  \/ \E h \in Health : ReadHealth(r, h)
  \/ \E objects \in SUBSET (Resources \union {Foreign}) : Canary(r, objects)
  \/ DiscoveryFails(r) \/ UpsertsDone(r) \/ CheckChosen(r) \/ ReadSelection(r)
  \/ \E o \in Outcomes :
       \/ Adopt(r, o) \/ MarkDiscovered(r, o) \/ Configure(r, o) \/ SaveSelection(r, o)
       \/ RequestSync(r, o) \/ MarkRequested(r, o) \/ InsertReceipt(r, o) \/ SaveVerdict(r, o)
       \/ \E x \in Resources : Upsert(r, x, o)
  \/ Crash(r)

ConnectorNext == (\E r \in Requests : Step(r)) \/ (\E x \in Resources : Index(x))

ConnectorSpec == ConnectorInit /\ [][ConnectorNext]_connectorVars

(***************************************************************************)
(* Properties.                                                             *)
(***************************************************************************)
\* A connector is data_verified only once a receipt is stored whose canary returned real
\* objects of this connector, whatever other requests and failures come between.
VerifiedIsProven ==
  state = "data_verified" =>
    \E objects \in receipts : objects # {} /\ objects \subseteq indexed

\* Rows are selected only after HydraDB took a configuration of the connector.
SelectionReachedHydra == selected # {} => configured # {}

\* The connector's rows claim no more than HydraDB did for it: a selection was configured,
\* a verification was proven.
RowsAreProven == ConnectorTypeOK /\ VerifiedIsProven /\ SelectionReachedHydra

\* Racing configurations, discoveries and connect-alls never leave a configured connector
\* without a selected resource, which would empty its scope for every later canary.
SelectionIsKept == [][selected # {} => selected' # {}]_connectorVars

\* Only a configuration takes a resource out of the selection.
OnlyConfigureDeselects ==
  [][selected \ selected' # {} =>
       \E r \in Requests : op[r] = "configure" /\ pc[r] = "select" /\ selected' = scope[r]]_connectorVars

\* The selection is never emptied, and never shrinks but by a configuration, however
\* configurations, discoveries and connect-alls interleave.
SelectionStands == SelectionIsKept /\ OnlyConfigureDeselects
=============================================================================
