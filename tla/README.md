# QueueProof in TLA+

TLA+ models, TLC runs and TLAPS proofs of QueueProof: a workspace that turns evidence from HydraDB connectors and
documents into answers, a ranked work queue, and approval-gated provider writes, with the browser tab in front of it and
the database adapter behind it.

The server is a set of Next.js route handlers over a libSQL database. No process of its own runs for long, so every
behaviour is an interleaving of HTTP handlers, and the models all cut time the same way:

* one action is one database statement, one `db.batch`, or one round trip to HydraDB or Linear: between two `await`s a
  handler is not interrupted;
* a statement may be applied and answered, applied with its answer lost (the libSQL client of `lib/server/d1-compat.ts`
  speaks HTTP), or not applied; a batch is applied as a whole. `LibsqlStorage` models the adapter itself and shows that
  it keeps this promise;
* an external call may succeed and still be reported as failed (15 s for Linear, 20 s for HydraDB);
* an instance may die between any two steps. Nothing resumes a request; only the rows it wrote stay. Where nothing waits
  for a request, its death is the state in which it takes no further step.

Quoted paths are relative to the repository.

## 1. Inventory

| Component | State it keeps | Operations | What is hard about it |
|---|---|---|---|
| **Action control plane** `app/api/actions/`, `packages/actions`, MCP `queueproof_propose_action` | `action_proposals` (unique workspace and key), `action_approvals`, `action_executions` (unique proposal); the issue at Linear | propose by review route or MCP, approve, claim, call Linear, settle | double approval, a provider call that times out and lands, a crash between claim and outcome, keys reused for other payloads |
| **Document ingestion** `app/api/documents/` | `documents` (unique workspace and hash), `document_ingestion_runs`; the source at HydraDB | upload, poll | racing uploads of a file, an ingest with a lost answer, polls that overwrite each other |
| **OAuth server and MCP gate** `lib/server/oauth-provider.ts`, `app/mcp/route.ts`, `app/api/mcp-tokens` | `mcp_clients`, `mcp_authorization_codes`, `mcp_tokens` | register, consent, redeem, mint, revoke, authenticate, handshake | two redemptions of a code, expiry and revocation against a call in flight, one ledger row for several workspaces |
| **Ask workflow** `app/api/ask/route.ts`, `lib/server/query-workflow.ts`, `hydradb-shapes.ts` | `query_runs`, `query_steps`, `decision_receipts`; the recorder's counters | run batches of HydraDB queries, repairs, a Thinking follow-up, attribute sources, store a receipt | parallel lanes under one `Promise.all`, events stored out of order, stragglers after a failure, missing lineage |
| **Connector lifecycle** `app/api/connectors/`, `app/api/workspace/connect-all` | `connectors.state`, `connector_resources`, `connection_verifications`; the configuration at HydraDB | adopt, discover, configure, sync, verify, connect-all | a verification that spends seconds on a selection being changed, partial discoveries, two configurations in two orders |
| **Next-action queue** `lib/server/queue.ts` | `ranking_runs`, `ranking_items`, `task_candidates`, `execution_packets`, `queue_snapshots` | generate, list | overlapping generations, clustering whose steps see each other's results |
| **MCP server tools** `packages/mcp/src/server.ts` | none of its own | search on the private and the public surface, sync a connector; propose (with the actions), read-only lists | a scope read in several statements while it changes, queries that fail in part, records without lineage |
| **Answer synthesis** `lib/server/synthesis.ts` | none | rank the records, pick claims in three passes, report contradictions and gaps | a limited number of slots, passes with different rules over one list |
| **Storage adapter** `lib/server/d1-compat.ts` | the connection and the transaction of a batch | a statement, a batch, over Hrana or `node:sqlite`; the choice of the backend | a batch is a chain of conditional steps the server may break anywhere, with the answer lost |
| **Benchmark publication** `app/api/lab/artifacts/`, `scripts/run-live-benchmark.mjs`, the release workflow | `benchmark_publication_tokens`, `benchmark_artifacts`; the job's files | gate, measure, publish a set, publish one, verify the lab page | production moves on while a job measures it, lost answers and retries, two publishers of one release |
| **Workspace provisioning, identity, accounts** `lib/server/store.ts`, `identity.ts`, `auth-principal.ts`, `mcp-auth.ts`, `hydradb-account.ts`, `app/api/session`, `app/api/workspace` | `users`, `auth_identities`, `workspaces`, `workspace_members`, `hydradb_accounts`, the owner cookie | identify the caller, provision a subject, create a workspace, attach a key, sign in and out, open a public workspace, migrate the schema | first requests that race, check and insert without a unique index, instances that migrate together |
| **Public rate limit** `lib/server/store.ts` | rows of `audit_events` | count, insert, recount | requests that pass the count together |
| **Workspace tab** `app/QueueProofApp.tsx` | the screen: its view, its lists, its dialogs, its requests | load and reconcile the session, ask, import connectors, upload and watch files, compose and approve proposals | answers that are late, out of order, lost, or of another session |
| Ranking formula, decision receipts, graph, contracts, runtime, raw query, scripts | none, or per request | pure functions, projections, plumbing | see section 7 |

**How they interact.** All server parts share the database, by workspace, and reach it through the storage adapter. A
request is first somebody (identity), then of a workspace (accounts); connect-all creates the workspace, attaches the key
and hands over to the connector lifecycle, which is what makes a connector `data_verified`. Ask, the queue and the MCP
search query exactly those connectors and take a source for a connector's when its lineage says so, or when a
connector-scoped query attests it; all three read `documents` of stage `indexed` too. Ask and the MCP search hand what
they kept to the synthesis. An ask receipt or a queue packet grounds a proposal: `action_proposals` cites evidence rows
that are never deleted. The MCP gate admits a call with the workspace and scopes of its token and then runs a tool over
the same functions. Approval stays with the web application. The tab calls the routes over HTTP and sees only their
answers.

**What makes each correct** is stated as its module's properties (section 4): one write per approval; one ingest per
content and no stage ahead of HydraDB; one token per code and consent; a stored run that agrees with the answer given;
no verified connector without proof; a queue that is whole, only goes forward and clusters by identity; an MCP answer
from its scope whose silence and gaps are real; a batch that happens whole or not at all; evidence of a release that was
measured on that release; accounts that keep their workspace; and a screen that shows what the server said about what
stands on it.

## 2. Modules

| Module | Models | Checked with |
|---|---|---|
| `ProviderWrite` | abstract: approve, attempt once, issue once | refinement target of `ActionExecution` |
| `ActionExecution` | propose, approve, execute | `MCActionExecution`: `action` |
| `DocumentIngestion` | upload and poll | `MCDocumentIngestion`: `documents` |
| `OAuthCodes` | registration, consent, redemption, tokens, `/mcp` gate | `MCOAuthCodes`: `oauth` |
| `QueryWorkflow` | one `POST /api/ask` and its lanes | `MCQueryWorkflow`: `ask` |
| `ConnectorLifecycle` | control requests on one connector | `MCConnectorLifecycle`: `connectors` |
| `QueueGeneration` | generations, clustering, listing | `MCQueueGeneration`: `queue` |
| `StatementFates` | what may become of a statement a handler awaits: answered, applied with its answer lost, or not applied | used by the request modules |
| `StoreStatements` | inserts, upserts and batches as values, and what they do to a table | used by the next three |
| `AtomicStore` | abstract: a batch takes effect whole, once, or never; what its caller may be told | refinement target, and the database of `BenchmarkPublication` |
| `LibsqlStorage` | the adapter: Hrana batches, `node:sqlite`, choice of the backend | `MCLibsqlStorage`: `storage` |
| `BenchmarkPublication` | CI jobs, the operator and the publication routes, over `AtomicStore` | `MCBenchmarkPublication`: `publication` |
| `SchemaMigration` | instances that migrate the schema together | part of `Accounts` |
| `PublicRateLimit` | the counts of one window | part of `Accounts` |
| `Accounts` | identity, provisioning, workspaces, keys, the owner's session | `MCAccounts`: `accounts` |
| `SequenceFilter` | `filter` as a fold | used by `AnswerSynthesis` and `AskScreen` |
| `AnswerSynthesis` | from kept records to claims, contradictions and gaps, as operators | part of `McpServer` |
| `McpServer` | one search, and the connectors changing beside it | `MCMcpServer`: `mcp`, `mcp_lineage` |
| `WorkspaceTab` | the tab's session, view, sources and requests | part of the next five |
| `AskScreen`, `ImportDialog`, `DocumentsPanel`, `ApprovalsScreen` | a screen each, with its side of the server | part of `WorkspaceClient` |
| `WorkspaceClient` | the tab with one of its screens | `MCWorkspaceClient`: `client` |
| `ActionExecutionProofs`, `QueryWorkflowProofs`, `QueueGenerationProofs`, `LibsqlStorageProofs`, `BenchmarkPublicationProofs`, `AccountsProofs` | theorems on the module each is named after (`AccountsProofs` also on the two that `Accounts` is built from) | TLAPS, section 5 |
| `SourceProofs` | theorems on the two ways evidence comes in, `DocumentIngestion` and `ConnectorLifecycle` | TLAPS, section 5 |
| `InterfaceProofs` | theorems on the two faces of the program: the MCP endpoint (`OAuthCodes`, `McpServer` with `AnswerSynthesis`) and the tab (`WorkspaceClient` with its screens) | TLAPS, section 5 |

Every MC module only names model values and gives the constants their values. The modules keep the control of the code
and abstract its data: a payload, a file, a source is a model value; an ID is the request that created it, since
`createId` never repeats. In the server modules `Outcomes` and `Resume` (`StatementFates`) stand for the three fates of a
statement and for the handler that answers an error with a 500, and `Crash...` for the death of the instance.

Operators whose comment begins with "Mutant" are not part of a specification: each is a plausible bug in the definition
after it, kept to show that the property it breaks depends on that definition.

Many properties a configuration lists are conjunctions of named parts, one of which is usually the type invariant: the
part that fails is found by naming it in the configuration instead.

## 3. Correspondence with the code

**ActionExecution.** `proposal`, `approval`, `execution` are the three tables; `wire` is what Linear did with a
request's call, which the server cannot see. `LookupProposal` and `InsertProposal` are the replay lookup and the insert
behind the UNIQUE index, for the review route (key derived from the payload) and the MCP tool (key chosen by the agent,
reply only for the same payload). An approve request walks
`AdmitApproval`, `LookupExecution`, `RecordApproval`, `ResolveCredential`, `ClaimExecution`, `CallLinear`,
`LinearConfirms` or `LinearFails`, `RecordSuccess`, `MarkProposalExecuted`, `AuditExecution`; the `catch` is
`RecordFailure`. `LinearHandles` is independent of the request: it may create the issue after the request gave up.

**DocumentIngestion.** `document` is the row of each content, `trail` the receipts of `document_ingestion_runs`,
`source` HydraDB's own state. Upload: `Detect` to `RecordProcessing`. Poll: `SelectDocument`, `AskStatus`,
`WriteStage`, `RecordPoll`, where `seen` keeps the stage read before the call. `AttachAccount` is the configuration of
a credential. Polls come with an `indexing_status` (`MayOmitStatus = FALSE`), see section 6.

**OAuthCodes.** `ledger` is `mcp_clients`, `code` and `token` their tables. `CheckCode` is the SELECT and the checks
of `redeemAuthorizationCode`, `ConsumeCode` the guarded UPDATE, `MintToken` the batch. A call does `Authenticate`,
then `Handshake` or `StampToolCall`, then `Serve`, with the workspace of the row it read. Secrets and challenges are
equal when the verifier matches. The tokens of Supabase at the same endpoint are in `Accounts`.

**QueryWorkflow.** `pc` is the handler, `lane` each query of a batch in flight; `note` is the event a lane is writing.
`sequence`, `latest`, `activity` are the recorder's memory; `steps`, `run`, `receipt` the rows. `WriteMark` and
`WriteResponse` may be applied in any order across lanes; `BatchThrows` is `Promise.all` rejecting while others go on.
`Strict` and `Attested` are `sourceBelongsToConnector` and `sourceAttestedByScopedConnectorQuery`.

**ConnectorLifecycle.** One connector. `state`, `status`, `selected`, `receipts` are its rows, `configured` and
`indexed` are HydraDB's side. A request is one operation; `connectAll` is the pipeline of connect-all, which goes on
through the same actions. `seen`, `health` and `found` are what a verification holds while others run.

**QueueGeneration.** `evidence` is what a generation retrieved, `emitted` what it is about to store, `stamp` its
`completed_at`, taken before the batch; `order` is the order of the batches. `Classes` is `clusterTaskEvidence`:
shared IDs, then reciprocal wording pairs, then the records without IDs one after another (`Join`). `Tasks` adds
the documents that name exactly one cluster. `SelectLatest` and `SelectItems` are the two statements of
`listQueueForWorkspace`.

**LibsqlStorage.** A batch over Hrana has the steps BEGIN, each statement, COMMIT and ROLLBACK; `Enabled` is the
condition each carries, `run` how far the server is and what the adapter will read of it. `Begin`, `Statement...`,
`Commit...`, `Rollback` are server steps, with `EndTransaction` for a server that ends a transaction on its own and
`DropConnection` for a connection that dies; `LoseAnswer` is the 20 s timeout, after which the server may go on. `Told`
is what the adapter makes of the results. `RunLocally` is `node:sqlite`, where a call is one step. `Resolve` and `Starts`
are `resolveStorage` and the production check. Under the refinement mapping a batch is applied when its COMMIT
succeeded.

**BenchmarkPublication.** A job walks `StartJob`, `SeesRelease` (production serves its commit), `PassGate`,
`ReadRelease`, `MeasureMode` and `MeasureDocument` for each kind in order, `Publish`, `HearReply`, `VerifyLab`.
An artifact is its kind, the release it names and the release that answered its questions, which the file does not say.
The route walks `Admit`, `ReadConsumed`, `Confirm` or `Batch`, `SendBatch`, `Recheck`, `VerifyRows`; every statement is a
call of `AtomicStore`, whose actions are `Database`. `Break` is a lost answer, `Deploy` the next release.

**Accounts.** A request runs `Begin` (who it is, by `Caller`: `Actor` is the order of the identity sources, `FromToken`
a token at `/mcp`), `Migrate` and `Ready` (`SchemaMigration`), for a Supabase subject `CheckIdentity`,
`ProvisionPrincipal` and `RereadPrincipal`, then `Resolve` (`workspaceForUser`) or, at `/mcp`, `RegisterClient`.
`Create`/`EnsureWorkspace`, `ProbeSupplied`/`ProbeAttachment` and `StoreSupplied`/`StoreAttachment` are the same steps of
the two routes that have them. `Limited` is the sign-in's rate limit (`PublicRateLimit`), `SignIn` the link of the
owner and the cookie. `ProvisionPublic` is the operator's script, `Deploy` a change of settings; a request keeps the
configured public workspace it began with. The public visitor's own workspace list is `WorkspacesFor`.

**McpServer, AnswerSynthesis.** `ReadConnectors`, `ReadResources`, `CountPeers` are the three SELECTs of a scope
(`chosen`, `snapshot`, `peers`); `ReadPublicConnectors` has connectors and counts in one. `lane` has a query for each
database and collection (`Queried`); `Reply` keeps what `Strict` or `Attested` attributes. `Finish` is the end of
`runSearch` and hands what was found to `Finalise`: the evidence is cut to `Limit` before any of it is ranked (`Cuts`:
place by place in the order the scope was read, which no statement fixes, so the cut goes through one place at most),
and what remains, `examined`, goes to `Synthesise`. A record stands for one piece of evidence, which in the code is a
chunk. `SearchCorpus` is the bundled corpus of the public surface, of which the best `CorpusLimit` come back.
`FindConnector`, `CallSync`, `StoreSync` are `queueproof_sync_connector`; `Verify` and `Configure` are what other
requests do to the rows (in full in `ConnectorLifecycle`). In `AnswerSynthesis`, `RankEvidence` puts the best record of
each provider a question names before the others and then cuts at `Slots`, so those too if they are more (`Spared`);
`FirstPass`, `Relax` and `CoverFacets` are the three passes over the candidate texts, `Contradictions` the
supersessions, date conflicts and open-though-complete pairs, `Missing` and `Status` what is left. A question carries
what the expressions that read text would find: the relevance and the units of each record, with score, dates and
facets.

**WorkspaceTab and its screens.** `session`, `owned` and `adopted` are the browser's cookies and the server's rows;
`view`, `sources`, `loaded` are React state; a call is sent, answered or refused by the server, and then delivered, in
any order, or timed out by `api`. `Reconcile` is the listener to auth events, `pageshow` and `visibilitychange`. The
screens add their own: `AskScreen` has `Submit`, `AskAnswered`, `Cancel`, `AskTimesOut` and the saved investigation of a
link (`Restored`); `ImportDialog` has `Open`, `PickRefs`, `Import`, `Imported`, `Refreshed`; `DocumentsPanel` has
`PanelTick`, the 10 s timer with its status checks and the list after them; `ApprovalsScreen` has `CreateProposal`,
`Review`, `Confirm`, `Approve`, each outcome followed by a new list. A screen is mounted exactly while the view is ready
(`Screens`).

## 4. Runs: what they check, the bounds, and why they are enough

| Run | Distinct states | Bound | Shows |
|---|---|---|---|
| `action` | 1.4 M | 2 proposes, 2 approvals, 2 keys, 2 payloads (one out of contract), 2 workspaces | `AtMostOneIssue`, `CallIsAuthorised`, `ExecutedIsConfirmed`, `ProposalIdentity`, `ExecutionOnlyAdvances`, `ClaimSettles`, `ImplementsProviderWrite` |
| `documents` | 43 k | 2 uploads, 2 polls, 1 accepted and 1 refused content | `OneIngestPerContent`, `StagesAreReal` (`IndexedIsReal`, `TrailIsTrue`), `IndexedStays` |
| `oauth` | 7.7 M | 1 consent, 2 redemptions, 1 owner token, 1 call, 2 workspaces, 2 redirects, 2 secrets, 2 scopes, clock 0..2 | `OneTokenPerCode`, `GrantsFollowConsent` (`TokenFollowsConsent`, `LedgerHasGrant`), `RevocationIsFinal` |
| `ask` | 867 k | 3 connectors, two of a provider; 3 sources: with lineage, without, without provider | `AnswerIsRecorded`, `RecordIsBacked` (`ReceiptIsBacked`, `ActivityIsTrue`), `EvidenceIsOwned`, `RunEnds` |
| `connectors` | 3.3 M | 3 requests of any of 6 operations, 2 resources | `RowsAreProven` (`VerifiedIsProven`, `SelectionReachedHydra`), `SelectionStands` (`SelectionIsKept`, `OnlyConfigureDeselects`) |
| `queue` | 840 k | 2 generations, 1 reader; one over all retrievals of up to 3 of 8 kinds of evidence | `ListedIsWhole`, `TasksAreIdentities` (`EvidenceIsNotSplit`, `DocumentsOnlyCorroborate`, `AmbiguousStaysApart`), `ListNeverGoesBack` |
| `storage` | 22 k | 2 calls, 3 batches over 2 keys, 5 deployments | `ImplementsAtomicStore`, `ConnectionsAreClean` (`NoOpenTransactionLeft`), `CallsAnswered` |
| `publication` | 1.5 M | 3 jobs (one with the one-time token) of which 2 run, 1 operator, 2 releases, 2 posts a job, 2 publications, 2 kinds | `EvidenceIsSound` (`EvidenceIsOfItsRelease`, `PublicationIsWhole`), `RepliesAreTrue` (`SuccessIsStored`, `ConflictWroteNothing`), `EvidenceOnlyAdvances` |
| `accounts` | 6.6 M | 3 browsers (anonymous, Supabase, gateway), 2 requests at a time and 3 in all, 1 change of settings, limits 1 and 2, 3 ledger rows, 1 added column, 2 new ids, 2 keys | `WithinLimits`, `ReadyIsMigrated`, `WorkspacesStayApart` (`SubjectHasItsWorkspace`, `VisitorIsConfined`, `KeyIsProven`) |
| `mcp` | 1.6 M | 3 connectors (two share provider and database), 9 records, 3 questions, 4 scopes, 2 changes of rows, 2 slots, 3 pieces of evidence, 1 in a lookup | `EvidenceIsAskedFor` (`EvidenceIsInScope`, `LookupsAreExact`), `AbsenceIsReal` (`SilenceIsComplete`, `GapIsReal`), `ClaimsStand` (`CitationsResolve`, `NoRestatement`), `NamedProviderIsHeard` |
| `mcp_lineage` | violation | as `mcp` | `LineageIsBelieved` fails |
| `client` | 1.1 M | 1 account and the visitor, 2 connector references, 2 questions, 1 text, 2 recorded runs, 2 posts, 2 proposals, 1 switch of session, 1 time limit | `AskIsCoherent` (`AnswerMatchesQuestion`, `WaitsForOneAnswer`), `LedgerIsMeant` (`SeededDraftIsOneProposal`, `NothingUnreviewed`), `ImportIsListed`, `TabFollowsSession`, `ProcessingRowSettles` |

Why small is enough:

* A race for one row needs two contenders, and a third to arrive after the outcome where the outcome is reversible:
  three control requests, three accounts requests. An approval that arrives after the outcome is the second of two that
  waited. Rows of different keys do not interact, which is why one content suffices for the races, and two keys are there
  where keys meet.
* The clock of `OAuthCodes` (`MaxNow = 2`) reaches a code at its last moment, expired, and a token expired.
* `ask` has a provider with two connectors, where lineage decides, and one with a single connector, where a scoped query
  attests. `MaxRepairs` is the code's own 3.
* `connectors` has two resources, so that a selection can shrink without emptying.
* `queue` has two tracked records of different IDs, one that names both, two reports worded like a task, one that
  names a product, a document that names both tasks and one that names one. Each retrieval is in the order the code
  produces, by provider. `MaxItems = 1` stands for 18, so that the cut happens. `MaxClock = 1` lets two stamps tie or
  differ.
* `storage` has batches that meet in both keys, in opposite orders, and a lone upsert that goes by another path. Two
  connections are all a lock is about. The deployments are one of each backend and two that resolve to none.
* `publication` has two releases, so that each can be served before, while and after the other is measured; two jobs of
  one release and an operator, so that sets and single files meet; and two posts of a job, so that a lost answer is
  retried. The clock counts artifacts, so that a file measured earlier may be published later.
* `accounts` has a caller of each source of identity; the two limits of the window are 1 and 2, so that either is the one
  that refuses, with three buckets. Three ledger rows are one more than the larger limit. Two identifiers let a first
  request create twice.
* `mcp` has the pairs attribution is about: same provider in one database, other provider elsewhere; records with
  connector lineage, with resource lineage and with none; two uploads of which one is in no scope; identifiers of which
  one begins the other. Two synthesis slots stand for 16, so that a named provider has to displace something, and three
  pieces of evidence for 48: a search can keep four, so that a provider is lost to the cut where it may be, and a slot
  reserved where it must. A lookup is cut at one for 6. The bundled corpus has three providers, one more than there are
  slots. The questions are a search that names three providers and asks for a date and an owner, of which the third pass
  has to find the owner; one about a change, where the date may be left open and the chain of authority counts; and a
  lookup of one identifier.
* `client` takes one screen at a time, because screens share nothing but the tab, whose interplay with each is in the
  run. One switch of session in another tab and one time limit already let every answer be late, lost or of the other
  session, since answers are delivered in any order; two questions, two drafts and two rows are what can be confused.
* `CHECK_DEADLOCK FALSE` everywhere: requests are finite, and a server without requests has nothing to do.
* Symmetry is declared in `documents`, `oauth`, `connectors`, `publication` and `accounts`, over requests, identifiers
  and jobs that the modules do not tell apart. None of these runs checks liveness.

### Fairness

Safety needs none. Four runs state it:

* `ClaimSettles` (`action`) assumes `WF_vars(Handle(a))`: an admitted request keeps taking steps. Waiting for
  Linear ends because `packages/actions` aborts the fetch at 15 s, so `LinearFails` is among the steps; Linear itself
  (`LinearHandles`) is assumed to do nothing. A crash stays possible at any time and is not fair, and the property
  names it as an exception.
* `RunEnds` (`ask`) assumes weak fairness of the handler, of each lane's own steps and of `GiveUp`, the client's
  timeout. It assumes nothing of HydraDB's `Answer`. The answer of a statement always returns, if only as an error.
* `CallsAnswered` (`storage`) assumes that a call's answer or the adapter's 20 s timeout comes, and that `node:sqlite`
  runs. It assumes nothing of the database server.
* `TabFollowsSession` and `ProcessingRowSettles` (`client`) assume that every kind of request ends, by its answer or by
  its time limit (`api` aborts each); that someone looks at the tab again, which is when its listeners run
  (`Reconcile`); that the panel's 10 s timer ticks (`PanelTick`); and that HydraDB finishes a file. Nothing forces a
  time limit to strike, a session to change or a user to act. Without the second glance a tab whose reload failed keeps
  its old view.

## 5. Proofs

TLAPS proves the theorems below for every value of the constants: any number of requests, callers, files, connectors,
records, texts, batches and limits. Every invariant a run checks is stated as `Spec => []Invariant`, and every action
property and refinement as `Spec => Property`; what is left to TLC alone is liveness.

| Module | Theorem | States |
|---|---|---|
| `ActionExecutionProofs` | `TypeCorrect`, `OneIssue`, `CallsAuthorised`, `ExecutionsConfirmed`, `ProposalsIdentified` | `TypeOK`, `AtMostOneIssue`, `CallIsAuthorised`, `ExecutedIsConfirmed`, `ProposalIdentity` |
| | `ExecutionAdvances`, `Refinement` | `ExecutionOnlyAdvances`, and that the control plane implements `ProviderWrite` |
| `SourceProofs` (documents) | `TypeCorrect`, `IngestedOnce`, `StagesTrue` | `TypeOK`, `OneIngestPerContent`, `StagesAreReal` |
| | `IndexedForGood` | `IndexedStays`, if every status answer has an `indexing_status` |
| `SourceProofs` (connectors) | `ConnectorTypes`, `RowsProven`, `SelectionSurvives` | type correctness, `RowsAreProven`, `SelectionStands` |
| `QueryWorkflowProofs` | `TypeCorrect`, `AnswerRecorded`, `EvidenceOwned`, `RecordBacked` | `TypeOK`, `AnswerIsRecorded`, `EvidenceIsOwned`, `RecordIsBacked` |
| `QueueGenerationProofs` | `TypeCorrect`, `ListsWhole`, `ListsNeverGoBack`, `TasksIdentified` | `TypeOK`, `ListedIsWhole`, `ListNeverGoesBack`, `TasksAreIdentities` |
| `LibsqlStorageProofs` | `ConnectionsClean`, `Refinement` | `ConnectionsAreClean`, and that the adapter implements `AtomicStore` |
| `BenchmarkPublicationProofs` | `EvidenceSound`, `RepliesTrue`, `OnlyAdvances` | `EvidenceIsSound`, `RepliesAreTrue`, `EvidenceOnlyAdvances` |
| `AccountsProofs` | `ServesMigrated`, `LimitsHold`, `WorkspacesApart` | `ReadyIsMigrated`, `WithinLimits`, `WorkspacesStayApart` |
| `InterfaceProofs` (OAuth) | `TypeCorrect`, `SingleUse`, `ConsentIsHonoured`, `RevocationStands` | `TypeOK`, `OneTokenPerCode`, `GrantsFollowConsent`, `RevocationIsFinal` |
| `InterfaceProofs` (search) | `EvidenceAskedFor`, `AbsenceReal`, `ClaimsStandTogether`, `NamedHeard` | `EvidenceIsAskedFor`, `AbsenceIsReal`, `ClaimsStand`, `NamedProviderIsHeard` |
| `InterfaceProofs` (tab) | `AskCoherent`, `LedgerMeant`, `ImportListed` | `AskIsCoherent`, `LedgerIsMeant`, `ImportIsListed` |

### The inductive invariants

Hardly a property is inductive as it stands: it speaks of what can be seen at the end, and the reason lies in what the
handlers hold in between. Each module has an inductive invariant that links the two, one lemma for each action or group
of actions that shows it is kept, and a last step that derives the property.

* **Actions.** That two requests cannot both have created an issue is a fact about the wire; the reason lies in the rows.
  `RowInv`: an execution row exists exactly when it has a claimant, and that claimant approved that very proposal.
  `OwnershipInv`: a request past its claim, or with something on the wire, owns its row, and before its claim owns none;
  with one claimant per row, one request at most can have issued. `AuthorityInv`: what each stage has already passed.
  `ConfirmationInv`: a stage, a row or a status that says success has a created issue behind it. `ProposalInv` and
  `OpenInv` do the same for proposals and for the history of a row.
* **Documents.** `OwnerInv`: a row belongs to the upload that inserted it, which alone may reach HydraDB. `SourceInv`: a
  source comes of an accepted call. `PollInv`: what a poll has read stays true until it writes, because a source that is
  indexed stays indexed; so `RowInv` and `TrailInv` hold though polls overwrite each other.
* **OAuth.** `HolderInv`: of the redemptions that hold a code, past the guarded UPDATE or with a token, there is one.
  `RedemptionInv` ties each stage to the checks it passed, `TokenInv` each token to its consent.
* **Ask.** `StepInv`: every event the recorder numbered is in the rows or in the hands of a lane, and `CallInv` counts the
  queries in the air, as long as no lane threw and the handler is not over. By `PlaceIsOnto` the lanes of a batch take
  the next numbers, each its own and none left out: an injection into as many places as there are lanes is onto.
* **Connectors.** `EvidenceInv`: what a canary kept, and what a receipt names, is indexed, whatever was configured since.
  `ScopeInv`: what is about to be configured or selected was discovered and is not empty.
* **Queue.** `ReaderInv`: between its two SELECTs a reader holds a stored run no older than the one it shows; `RunInv`:
  once stored, a run does not change.
* **Storage.** `LockInv`: one connection at a time holds uncommitted rows, each newer than the committed row. `ViewInv`: a
  connection whose statements all succeeded sees exactly the table they make of the rows committed *now*, not only of
  those at its BEGIN: either it holds the lock and nobody else commits, or none of its statements wrote, and they would
  not write to the newer table either. Hence COMMIT is one step of `AtomicStore`. `RunInv` ties each step of the chain to
  what its condition let pass.
* **Accounts.** `RankInv`: the row of a request that passed its second count is one of the first `Limit` of its bucket
  and stays so, as rows are added behind it and only leave before it. `SchemaInv`: an instance at a column has every
  earlier one behind it. `MemberInv`, `IdentityInv`, `KeyInv` and `RequestInv` say what each row and each half-done
  request may name; a subject's workspace is reached only through the digest of that subject.
* **Publication.** `MeasureInv`: the release named by a file is not younger than the one that answered its questions, and
  that one not younger than what production serves; a job that publishes has a file of each kind. `RequestInv` carries
  that into the route, where the release check turns it into `Evidence`: one release throughout, and no other answered.
  `SentInv`: what a call holds is the batch the route builds, so `Whole` and `Covered`, in which `StoreInv` expresses what
  stands in the tables, follow when it is applied, by induction over the batch. `RepliesAreTrue` is a conjunct itself: a
  reply stays true because rows are only ever replaced by newer ones.
* **Search.** `KeptInv`: what is kept was attributed by a query of the scope as it was read, whatever the rows are now.
  `LaneInv`: every place that has something of the scope is asked and none is left when the answer is made. `AnswerInv`:
  the answer is the synthesis of a cut of what was found. The rest is about the synthesis, for any question:
  `ContradictionsCite`, `AppendDistinct` and its uses in the three passes (no two claims share a text),
  `NamedIsConsidered` and `RankIsFull` (reserved slots), and `GapsAreReal`: a text that would close a facet still
  missing after the third pass repeats a claim already there.
* **Tab.** `ClientInv` speaks of the tab that is open; a screen that is not has left nothing behind (`NoAsk`, `NoDesk`).
  `AskInv`: the screen awaits exactly one request, and to the question above it; requests the screen gave up stay in the
  air and can no longer reach it. `DialogInv`: an import that was answered is in the workspace (`ImportStands`), and the
  list the dialog waits for was read after it (`ListsAwaited`). `DeskInv`: of the rows that carry a brief's key there is
  one for each text, every approval in the air is of a row that was ticked, and so is the row whose dialog shows a tick.

### Recursion

A batch is a recursive function of its statements (`Path`). The clustering folds unions over a set of pairs and then
lets the records without IDs join one after another (`Classes`). Both are reasoned about for every length.
`SetInduction` is induction over the naturals for a set, derived from their well-foundedness (`Least`). `PathEquation`,
`MergingExists`, `JoiningExists` and `FoldingExists` use it to show that the recursion has a solution, which a recursive
definition in TLA+ does not give by itself. `UnionPairsInduction` is then the rule for the fold, and `UnionOfPairs`,
`JoinIs` and `ClassesAre` are what it yields: shared IDs are together, nothing is taken apart again, and a report that
fits two classes is alone in its own. `TasksIdentified` follows without the state machine: it holds of any records.
`Keep` and the three passes of the synthesis are folds of the community modules; `FoldingExists` unrolls such a fold
into a sequence of steps (`KeepSteps`, `FirstPassSteps`, `RelaxSteps`, `CoverSteps`), over which `StepsIn` and
`SetInduction` argue.

### Assumptions

Those of the modules, which TLC evaluates in their runs:

* Constants are functions and sets of the right kind, and names that stand for nothing (`NoRequest`, `NoUpload`,
  `NoRun`, `Unbound`, `Foreign`, `Unsaid`) are not among those that stand for something (`ConstantsAssumption`,
  `FilesAssumption`, `OAuthAssumption`, `ForeignAssumption`, `LanesAssumption`, `LineageAssumption`, `BoundsAssumption`,
  `LoginAssumption`, `LimitAssumption`, `ColumnsAssumption`, `KindAssumption`, `PublisherAssumption`, `McpAssumption`,
  `TabAssumption`); bounds are naturals (`BoundAssumption`, `DeskAssumption`), and there is room for one question
  (`AskAssumption`).
* `NamesAssumption`: the public user is nobody else, the owner is no subject of the external issuer, and the names of the
  gateway or of local sign-in are not those of the issuer's subjects. The first two are constants of the code, a subject's
  name is a digest.
* `LineageAssumption`: HydraDB may omit the lineage of a source but does not invent one.
* `EvidenceAssumption`, `BatchesAssumption`: a retrieval and a batch are sequences; the IDs and product names of a record
  are finitely many.
* `SynthesisAssumption`, `IsQuestion`: a ranking, the units, the facets and the bridges of a question are sequences; the
  ranking leaves no record out, a unit is a text of some record; a record changes one date at most; there is a slot.
* `McpAssumption`: connectors are finitely many; a record of a connector is of the connector's provider, and from one of
  its resources; a text that mentions an identifier spells it; a search names connectors or documents and not both.
* `NewerAssumption`: which of two values is newer is transitive; the code compares columns of the rows.

`IndexedForGood` has the hypothesis `~MayOmitStatus`, as without it the property is false (section 6). No theorem bounds
a clock or a count beyond what the module's own guards do.

### Only model-checked

* Liveness (`ClaimSettles`, `RunEnds`, `CallsAnswered`, `TabFollowsSession`, `ProcessingRowSettles`): fairness and
  ENABLED are out of the prover's reach.
* That the findings of section 6 are reachable, which is a matter of one behaviour and not of all.

No module declares a RECURSIVE operator.

## 6. Findings

Shown by a run that is expected to be violated:

* **Attestation overrules lineage** (`mcp_lineage`; `lib/server/hydradb-shapes.ts:178`). The comment above it accepts a
  record for the one connector of its provider when HydraDB *omitted* its lineage; the function does not ask, and so
  also accepts a record whose lineage names another connector, or a resource that is not selected.

Stated in the modules, each as a definition after the properties; no run of the project lists them, but each fails when
named in its module's configuration (the fourth with the retrieval given there):

* `LostClaimWasARace` (`approve/route.ts:146`): every error of the claiming INSERT is answered "Another approval is
  already executing this proposal". One approval whose INSERT was applied with its answer lost breaks it; the row is the
  request's own and stays `pending` for good.
* `RetrievableOnceConfigured` (`documents/route.ts:146`): a document stored before the credential is never ingested,
  although its reply says "configure a HydraDB credential for this workspace to make it retrievable". Upload, attach the
  account, upload again: the second is answered from the row.
* `GrantedTokenIsUsable` (`oauth-provider.ts:88`): a client that asks for `queueproof:propose` alone gets a token that
  every call refuses, where the comment promises a usable read-only connection.
* `DisjointIdsStayApart` (`queue.ts:864`): two reports without IDs, paired by wording, each join another exact-ID
  component, and two tracked tasks become one. It takes four records of one wording (a tracked Gmail record and a tracked
  Slack one of different IDs, a Gmail report and a Slack report), one more than the retrievals of `queue`.
* `NamedReceiptSurvives` (`server.ts:570`): the slots of the synthesis are reserved for the providers a question names
  lest "document volume can erase a successful, attributable connector response" (`synthesis.ts:466`), but
  `finaliseSearch` first takes 48 pieces of evidence, 6 in a lookup (`server.ts:835`), in the order of the queried
  scopes and before it ranks any. A query returns up to 12 sources, each with all its chunks, so the places at the end
  may be dropped whole, with the best of what they returned and with a provider the question names.
  `NamedProviderIsHeard` has that exception.
* `SessionReachesWorkspace` (`session/route.ts:117`): the sign-in links the owner to the public workspace so that the
  session can reach the control plane. An owner who also created a workspace of their own, or a change of the public
  workspace between two sign-ins, leaves two memberships, and `workspaceForUser` answers 409 from then on
  (`store.ts:450`); the insert is at `session/route.ts:130`.

Seen while reading or modelling, not shown by a run of their own:

* approve: a reply of failure may follow a confirmed issue, when the statement after it fails (`approve/route.ts:187`);
  a proposal replayed by key may differ in its project, which the key leaves out (`packages/actions/src/index.ts:93`).
* documents: the poll of an ingest whose answer was lost says HydraDB never accepted the file (`status/route.ts:41`); a
  status answer without `indexing_status` takes `indexed` back to `processing` (`status/route.ts:65`), which is why
  `IndexedStays` is checked with `MayOmitStatus = FALSE`.
* oauth: the ledger row of a client follows the last workspace to redeem or handshake (`oauth-provider.ts:325`).
* ask: the `failed` event speaks of no verified receipt also when the receipt's INSERT was applied and its answer lost
  (`ask/route.ts:857`); a crash after the final stage leaves a complete run without a receipt, which no property forbids
  (`ask/route.ts:833`); lanes that outlive a failed batch may set a failed run back to `retrieving`; the coverage repair
  queries connectors of a run that was scoped to documents (`ask/route.ts:518`).
* connectors: a verification that races a configuration writes `data_verified` for a selection its canary never saw;
  `verified` needs only the canary, though `docs/CONNECTOR_PROOF.md` asks for sync or cursor evidence
  (`verify/route.ts:130`); resource rows become `verified` by their cursor when the verification failed
  (`verify/route.ts:172`); two configurations may reach HydraDB and the database in opposite orders; connect-all
  replaces a key configured between its read and its write (`connect-all/route.ts:112`); it asks for no owner role,
  where the comment at `store.ts:468` says that the control-plane routes do.
* accounts: two first requests of a gateway account may both create a workspace, after which every request is answered
  409; the cookie of an owner is still taken when legacy sign-in was switched off.
* queue: `completed_at` is stamped after a retrieval of many seconds, so of two overlapping generations the one with the
  older evidence can be the one that is shown (`queue.ts:1222`); a generation answers with the latest queue, which may
  be another generation's (`queue.ts:1387`); outcomes reported for a packet disappear with the next generation.
* publication: an operator's publication of the very artifact a job is about to store, between the job's read and its
  batch (`batch/route.ts:386`), is answered 409 although the rows agree; a rollback from one release to another and back
  while a job measures is not noticed.
* mcp: only `data_verified` connectors are counted as a provider's, so an unverified second connector is no obstacle to
  attestation (`hydradb-shapes.ts:194`); ask compares the provider a strictly owned record reports, the MCP search does
  not; the comment that the public surface "always" answers (`server.ts:450`) does not hold when HydraDB fails or no
  account is attached; the corpus search matches substrings (ATL-20 in ATL-204) where its comment speaks of exact
  identifiers (`demo-corpus.ts:276`).
* mcp, the cut: the answer does not say that evidence was dropped. `partial` counts failed queries only, and a facet
  reported missing may stand in a record beyond the cut: `AbsenceIsReal` speaks of the places that were heard and of the
  records that were looked at. The reserved slots are cut as well (`synthesis.ts:474`), if a question names more than 16
  providers.
* synthesis: the relaxed pass ignores the rule that a claim advances the question and the exclusion of the authority
  chain (`synthesis.ts:1169`); facets are covered in one pass, in a fixed order; a record that asserts two dates may
  contradict itself; a facet stays missing when its only text shares a long sentence with a claim already picked.
* tab: the saved questions removed by a sign-out come back when an ask under way answers after it
  (`QueueProofApp.tsx:822`), and other ways to sign out leave them, though `privacy/page.tsx:18` says they are cleared; a
  switch from one account to another in another tab is not reconciled, since only being signed in is compared
  (`QueueProofApp.tsx:540`), and the sources of the old workspace stay on screen until the list is read; a draft written
  without a brief gets a new identifier each time it is posted, so a retry after a lost answer seals it twice; two
  approvals share one `busy`; a list of documents that was asked before an upload and arrives after its own list hides
  the new row and stops the timer; one document whose check always fails keeps the list from being read again for all
  of them, as the checks are one `Promise.all` (`QueueProofApp.tsx:2030`); choosing a scope on a screen that still shows a
  connector as unverified takes a verified one back; a failed second question brings back the first one's answer.

## 7. Not modelled, and why

* **Ranking formula**: an arithmetic score of one task. `QueueGeneration` takes any subset of the tasks as the ranking.
* **Decision receipts and grounded actions**: functions from evidence to text; `QueryWorkflow` takes any receipt and
  `ActionExecution` any verdict on a payload.
* **Text**: extraction of a task from prose, the overlap measure of two wordings, the patterns that find dates, facets
  and identifiers. A wording is one value, so a wording match is an equality here, where the code's overlap need not be
  transitive; what the patterns of the synthesis find is given with the question.
* **Graph, public DTOs, contracts, runtime lookup, error replies, the raw query route**: projections and plumbing with no
  state; the modules keep the conditions handlers branch on.
* **MCP tools that read one row and print it, and `queueproof_report_execution_result`**, which is one batch on one
  packet.
* **Ask**: scopes of uploaded documents, and the limiter in front of the handler. Each use of the limiter has counters
  of its own, so the sign-in's stands for all.
* **The rest of the tab**: the queue, evaluation, agent and workspace screens, the connector setup and proof dialogs.
  They list rows or post one request each; the composition of an owner who signs out while files or approvals are on
  screen is left out (`Still`).
* **CLI, worker, other scripts, evals, media**: outside the running service.

## 8. Plan

Done: actions with `ProviderWrite`; documents, OAuth, ask, connectors, queue; the storage adapter with `AtomicStore`;
publication, rate limit, accounts and migration; MCP search and synthesis; the tab; and the theorems of section 5. Left,
in this order:

1. An abstract `SingleUse` specification (available, consumed, granted) that `OAuthCodes` implements, as
   `ActionExecution` does `ProviderWrite`; and an abstract verified connector for `ConnectorLifecycle`.
2. Composition: `ConnectorLifecycle` with `QueryWorkflow`, over a scope that changes while a question runs.
3. Screens: queue hand-off to the approvals, the connector dialogs.
