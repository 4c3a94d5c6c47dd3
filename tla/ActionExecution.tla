-------------------------- MODULE ActionExecution --------------------------
(***************************************************************************)
(* The action control plane: proposing a Linear issue (through the review  *)
(* route or the MCP tool), approving it, executing it at most once.        *)
(*                                                                         *)
(* One action is one database statement or one provider round trip, and    *)
(* every interleaving of the requests at those points is explored.  A      *)
(* statement may fail before it is applied, or be applied with its answer  *)
(* lost (the libSQL client talks HTTP), and a request may die between any  *)
(* two statements.                                                         *)
(***************************************************************************)
EXTENDS FiniteSets, StatementFates

CONSTANTS
  ProposeRequests,     \* requests that propose; createId() makes a row's id
                       \* unique to its request, so the request names the row
  ApproveRequests,     \* POST /api/actions/[id]/approve requests
  Actors,              \* authenticated actors that are not the public one
  Workspaces,
  WorkspaceOf,         \* [Actors -> Workspaces]: workspaceForUser
  Owners,              \* actors whose workspace_members.role is 'owner'
  DeploymentOwner,     \* DEPLOYMENT_OWNER_ACTOR_ID
  CredentialWorkspaces,\* {QUEUEPROOF_LINEAR_EXECUTION_WORKSPACE_ID}, or {} when
                       \* that id or LINEAR_API_KEY is not configured
  Payloads,            \* issue payloads: title, description, team, project
  Keys,                \* idempotency keys
  KeyOf,               \* [Payloads -> Keys]: idempotencyKeyFor
  Grounded,            \* pairs <<workspace, payload>> such that the workspace owns
                       \* the evidence the payload cites (rows are never deleted)
  Executable,          \* payloads inside the contract the approve route enforces
  NoRequest

ASSUME ConstantsAssumption ==
  /\ WorkspaceOf \in [Actors -> Workspaces]
  /\ Owners \subseteq Actors
  /\ KeyOf \in [Payloads -> Keys]
  /\ NoRequest \notin ApproveRequests

VARIABLES
  wanted,    \* what each propose request asks for
  proposing, \* control state of each propose request
  answered,  \* the row each propose request was answered with
  proposal,  \* action_proposals.status of the row each request inserted
  visit,     \* which proposal each approve request is for, and who sends it
  approving, \* control state of each approve request
  approval,  \* proposals that have their action_approvals row
  execution, \* action_executions, by its UNIQUE proposal_id
  wire       \* what became of each approve request's provider call

proposeVars == <<wanted, proposing, answered>>
vars == <<wanted, proposing, answered, proposal,
          visit, approving, approval, execution, wire>>

(***************************************************************************)
(* Types.                                                                  *)
(***************************************************************************)
ProposeReplies == {"created", "replayed", "rejected", "failed", "crashed"}
ApproveReplies ==
  {"refused", "alreadySucceeded", "alreadyClaimed", "lostClaim", "approvedOnly",
   "executed", "notExecuted", "serverError", "crashed"}
ProposeStates == {"idle", "insert"} \union ProposeReplies
ApproveStates ==
  {"idle", "lookup", "record", "resolve", "claim", "call", "await",
   "succeed", "settle", "audit", "fail"} \union ApproveReplies
ProposalStatus == {"absent", "proposed", "executed"}
ExecutionStatus == {"absent", "pending", "succeeded", "failed"}
WireStates == {"unsent", "sent", "created", "declined"}

\* The review route derives the key from the payload and accepts any that
\* fits its own bounds; the MCP tool takes the agent's key, and its schema
\* is the contract the approve route enforces later.
ReviewInput(i) == i.channel = "review" /\ i.key = KeyOf[i.payload]
McpInput(i) == i.channel = "mcp" /\ i.payload \in Executable
ProposeInput ==
  {i \in [channel : {"review", "mcp"}, ws : Workspaces,
          key : Keys, payload : Payloads] : ReviewInput(i) \/ McpInput(i)}
ApproveInput == [actor : Actors, target : ProposeRequests]
ExecutionRow == [status : ExecutionStatus,
                 claimant : ApproveRequests \union {NoRequest},
                 issue : BOOLEAN]     \* provider_response_id IS NOT NULL

TypeOK ==
  /\ wanted \in [ProposeRequests -> ProposeInput]
  /\ proposing \in [ProposeRequests -> ProposeStates]
  /\ answered \in [ProposeRequests -> ProposeRequests]
  /\ proposal \in [ProposeRequests -> ProposalStatus]
  /\ visit \in [ApproveRequests -> ApproveInput]
  /\ approving \in [ApproveRequests -> ApproveStates]
  /\ approval \in SUBSET ProposeRequests
  /\ execution \in [ProposeRequests -> ExecutionRow]
  /\ wire \in [ApproveRequests -> WireStates]

Init ==
  /\ wanted \in [ProposeRequests -> ProposeInput]
  /\ proposing = [r \in ProposeRequests |-> "idle"]
  /\ answered = [r \in ProposeRequests |-> r]
  /\ proposal = [r \in ProposeRequests |-> "absent"]
  /\ visit \in [ApproveRequests -> ApproveInput]
  /\ approving = [a \in ApproveRequests |-> "idle"]
  /\ approval = {}
  /\ execution = [p \in ProposeRequests |->
       [status |-> "absent", claimant |-> NoRequest, issue |-> FALSE]]
  /\ wire = [a \in ApproveRequests |-> "unsent"]

Proposes(r, from, to) ==
  /\ proposing[r] = from
  /\ proposing' = [proposing EXCEPT ![r] = to]

Approves(a, from, to) ==
  /\ approving[a] = from
  /\ approving' = [approving EXCEPT ![a] = to]

(***************************************************************************)
(* A database statement is applied and answered, applied and its answer    *)
(* lost, or not applied at all; the handler sees the last two as the same  *)
(* thrown error.                                                           *)
(***************************************************************************)
Continue(o, done, thrown) == IF o = "ok" THEN done ELSE thrown

(***************************************************************************)
(* POST /api/actions and queueproof_propose_action.                        *)
(***************************************************************************)
Holds(p, r) ==       \* p is the row UNIQUE(workspace_id, idempotency_key) keeps for r
  /\ proposal[p] # "absent"
  /\ wanted[p].ws = wanted[r].ws
  /\ wanted[p].key = wanted[r].key

SamePayload(p, r) == wanted[p].payload = wanted[r].payload

\* The evidence check and the SELECT by key.  The review route answers with the
\* row it finds; the MCP tool refuses a key bound to another payload.
LookupProposal(r) ==
  /\ \/ /\ <<wanted[r].ws, wanted[r].payload>> \notin Grounded
        /\ Proposes(r, "idle", "rejected")
        /\ UNCHANGED answered
     \/ /\ <<wanted[r].ws, wanted[r].payload>> \in Grounded
        /\ ~ \E p \in ProposeRequests : Holds(p, r)
        /\ Proposes(r, "idle", "insert")
        /\ UNCHANGED answered
     \/ /\ <<wanted[r].ws, wanted[r].payload>> \in Grounded
        /\ \E p \in ProposeRequests :
             /\ Holds(p, r)
             /\ \/ /\ wanted[r].channel = "review" \/ SamePayload(p, r)
                   /\ Proposes(r, "idle", "replayed")
                   /\ answered' = [answered EXCEPT ![r] = p]
                \/ /\ wanted[r].channel = "mcp" /\ ~ SamePayload(p, r)
                   /\ Proposes(r, "idle", "rejected")
                   /\ UNCHANGED answered
  /\ UNCHANGED <<wanted, proposal, visit, approving, approval, execution, wire>>

\* Mutant: no UNIQUE(workspace_id, idempotency_key) index behind the lookup.
InsertProposalUnindexed(r, o) ==
  /\ Proposes(r, "insert", Continue(o, "created", "failed"))
  /\ proposal' = IF Applied(o) THEN [proposal EXCEPT ![r] = "proposed"] ELSE proposal
  /\ UNCHANGED <<wanted, answered, visit, approving, approval, execution, wire>>

\* The INSERT.  The index refuses it when a row for the key got there first,
\* and the request ends in the route's generic error; so does a request whose
\* audit row, written after the INSERT, throws ("lost").
InsertProposal(r, o) ==
  LET inserts == Applied(o) /\ ~ \E p \in ProposeRequests : Holds(p, r) IN
  /\ Proposes(r, "insert",
       IF inserts THEN Continue(o, "created", "failed") ELSE "failed")
  /\ proposal' = IF inserts THEN [proposal EXCEPT ![r] = "proposed"] ELSE proposal
  /\ UNCHANGED <<wanted, answered, visit, approving, approval, execution, wire>>

CrashPropose(r) ==
  /\ Proposes(r, "insert", "crashed")
  /\ UNCHANGED <<wanted, answered, proposal, visit, approving, approval,
                 execution, wire>>

(***************************************************************************)
(* POST /api/actions/[id]/approve.                                         *)
(***************************************************************************)
Target(a) == visit[a].target
ActorOf(a) == visit[a].actor

\* The checks before the execution lookup.  All they read - role, row, payload,
\* evidence - is written once and never changed, so they are one step.
MayApprove(a) ==
  /\ ActorOf(a) \in Owners
  /\ proposal[Target(a)] # "absent"
  /\ wanted[Target(a)].ws = WorkspaceOf[ActorOf(a)]
  /\ wanted[Target(a)].payload \in Executable
  /\ <<wanted[Target(a)].ws, wanted[Target(a)].payload>> \in Grounded

AdmitApproval(a) ==
  /\ Approves(a, "idle", IF MayApprove(a) THEN "lookup" ELSE "refused")
  /\ UNCHANGED <<proposeVars, proposal, visit, approval, execution, wire>>

\* A proposal that has an execution row, in whatever state, is answered from it.
LookupExecution(a) ==
  /\ \/ /\ execution[Target(a)].status = "absent"
        /\ Approves(a, "lookup", "record")
     \/ /\ execution[Target(a)].status = "succeeded"
        /\ Approves(a, "lookup", "alreadySucceeded")
     \/ /\ execution[Target(a)].status \in {"pending", "failed"}
        /\ Approves(a, "lookup", "alreadyClaimed")
  /\ UNCHANGED <<proposeVars, proposal, visit, approval, execution, wire>>

\* Mutant: the approval is written without awaiting the statement's outcome.
RecordApprovalUnawaited(a, o) ==
  /\ Approves(a, "record", "resolve")
  /\ approval' = IF Applied(o) THEN approval \union {Target(a)} ELSE approval
  /\ UNCHANGED <<proposeVars, proposal, visit, execution, wire>>

\* INSERT OR IGNORE INTO action_approvals.
RecordApproval(a, o) ==
  /\ Approves(a, "record", Continue(o, "resolve", "serverError"))
  /\ approval' = IF Applied(o) THEN approval \union {Target(a)} ELSE approval
  /\ UNCHANGED <<proposeVars, proposal, visit, execution, wire>>

HasCredential(a) ==   \* deploymentLinearCredential # null
  /\ ActorOf(a) = DeploymentOwner
  /\ WorkspaceOf[ActorOf(a)] \in CredentialWorkspaces

\* The approval's audit row, which may throw, then the credential.
ResolveCredential(a, o) ==
  /\ Approves(a, "resolve",
       IF o # "ok" THEN "serverError"
       ELSE IF HasCredential(a) THEN "claim" ELSE "approvedOnly")
  /\ UNCHANGED <<proposeVars, proposal, visit, approval, execution, wire>>

\* Mutant: only the earlier SELECT guards the slot; no UNIQUE(proposal_id).
ClaimExecutionUnguarded(a, o) ==
  /\ Approves(a, "claim", Continue(o, "call", "lostClaim"))
  /\ execution' = IF Applied(o)
       THEN [execution EXCEPT ![Target(a)].status = "pending",
                              ![Target(a)].claimant = a]
       ELSE execution
  /\ UNCHANGED <<proposeVars, proposal, visit, approval, wire>>

\* INSERT INTO action_executions: UNIQUE(proposal_id) lets one request through.
\* The handler takes every thrown error for a lost race.
ClaimExecution(a, o) ==
  LET claims == Applied(o) /\ execution[Target(a)].status = "absent" IN
  /\ Approves(a, "claim",
       IF claims THEN Continue(o, "call", "lostClaim") ELSE "lostClaim")
  /\ execution' = IF claims
       THEN [execution EXCEPT ![Target(a)].status = "pending",
                              ![Target(a)].claimant = a]
       ELSE execution
  /\ UNCHANGED <<proposeVars, proposal, visit, approval, wire>>

\* createIssue puts the mutation on the wire.
CallLinear(a) ==
  /\ Approves(a, "call", "await")
  /\ wire' = [wire EXCEPT ![a] = "sent"]
  /\ UNCHANGED <<proposeVars, proposal, visit, approval, execution>>

\* Linear handles the mutation, even one whose caller has given up or died.
LinearHandles(a) ==
  /\ wire[a] = "sent"
  /\ \E w \in {"created", "declined"} : wire' = [wire EXCEPT ![a] = w]
  /\ UNCHANGED <<proposeVars, proposal, visit, approving, approval, execution>>

\* Mutant: a 200 answer is trusted whatever its success flag and issue say.
LinearConfirmsUnread(a) ==
  /\ wire[a] \in {"created", "declined"}
  /\ Approves(a, "await", "succeed")
  /\ UNCHANGED <<proposeVars, proposal, visit, approval, execution, wire>>

\* createIssue returns only when the answer confirms an issue.
LinearConfirms(a) ==
  /\ wire[a] = "created"
  /\ Approves(a, "await", "succeed")
  /\ UNCHANGED <<proposeVars, proposal, visit, approval, execution, wire>>

\* Mutant: no abort timer around the provider call.
LinearFailsWhenDeclined(a) ==
  /\ wire[a] = "declined"
  /\ Approves(a, "await", "fail")
  /\ UNCHANGED <<proposeVars, proposal, visit, approval, execution, wire>>

\* It throws on everything else: refusal, transport error, unreadable answer, and
\* the 15 s abort, whatever Linear did or will do with the request.
LinearFails(a) ==
  /\ Approves(a, "await", "fail")
  /\ UNCHANGED <<proposeVars, proposal, visit, approval, execution, wire>>

OwnRow(a) == execution[Target(a)].claimant = a      \* WHERE id = executionId

RecordSuccess(a, o) ==
  /\ Approves(a, "succeed", Continue(o, "settle", "fail"))
  /\ execution' = IF Applied(o) /\ OwnRow(a)
       THEN [execution EXCEPT ![Target(a)].status = "succeeded",
                              ![Target(a)].issue = TRUE]
       ELSE execution
  /\ UNCHANGED <<proposeVars, proposal, visit, approval, wire>>

MarkProposalExecuted(a, o) ==
  /\ Approves(a, "settle", Continue(o, "audit", "fail"))
  /\ proposal' = IF Applied(o)
       THEN [proposal EXCEPT ![Target(a)] = "executed"] ELSE proposal
  /\ UNCHANGED <<proposeVars, visit, approval, execution, wire>>

AuditExecution(a, o) ==
  /\ Approves(a, "audit", Continue(o, "executed", "fail"))
  /\ UNCHANGED <<proposeVars, proposal, visit, approval, execution, wire>>

\* Mutant: the failure path also clears provider_response_id.
RecordFailureClearing(a, o) ==
  /\ Approves(a, "fail", Continue(o, "notExecuted", "serverError"))
  /\ execution' = IF Applied(o) /\ OwnRow(a)
       THEN [execution EXCEPT ![Target(a)].status = "failed",
                              ![Target(a)].issue = FALSE] ELSE execution
  /\ UNCHANGED <<proposeVars, proposal, visit, approval, wire>>

\* Mutant: a failed execution gives its slot back so that it can be retried.
RecordFailureReleasing(a, o) ==
  /\ Approves(a, "fail", Continue(o, "notExecuted", "serverError"))
  /\ execution' = IF Applied(o) /\ OwnRow(a)
       THEN [execution EXCEPT ![Target(a)] =
               [status |-> "absent", claimant |-> NoRequest, issue |-> FALSE]]
       ELSE execution
  /\ UNCHANGED <<proposeVars, proposal, visit, approval, wire>>

\* The catch block: whatever threw after the claim, the row becomes 'failed'; its
\* provider_response_id is left as it is.  The audit row that follows may throw.
RecordFailure(a, o) ==
  /\ \E o2 \in Outcomes :
       Approves(a, "fail", IF o = "ok" /\ o2 = "ok" THEN "notExecuted" ELSE "serverError")
  /\ execution' = IF Applied(o) /\ OwnRow(a)
       THEN [execution EXCEPT ![Target(a)].status = "failed"] ELSE execution
  /\ UNCHANGED <<proposeVars, proposal, visit, approval, wire>>

\* The serverless instance running the request dies.
CrashApprove(a) ==
  /\ approving[a] \notin ApproveReplies \union {"idle"}
  /\ approving' = [approving EXCEPT ![a] = "crashed"]
  /\ UNCHANGED <<proposeVars, proposal, visit, approval, execution, wire>>

(***************************************************************************)
(* The specification.                                                      *)
(***************************************************************************)
Propose(r) ==
  LookupProposal(r) \/ \E o \in Outcomes : InsertProposal(r, o)

\* The handler's own steps; the provider call ends by answer or by abort.
Handle(a) ==
  \/ LookupExecution(a)
  \/ CallLinear(a)
  \/ LinearConfirms(a)
  \/ LinearFails(a)
  \/ \E o \in Outcomes :
       \/ RecordApproval(a, o)
       \/ ResolveCredential(a, o)
       \/ ClaimExecution(a, o)
       \/ RecordSuccess(a, o)
       \/ MarkProposalExecuted(a, o)
       \/ AuditExecution(a, o)
       \/ RecordFailure(a, o)

Next ==
  \/ \E r \in ProposeRequests : Propose(r) \/ CrashPropose(r)
  \/ \E a \in ApproveRequests :
       AdmitApproval(a) \/ Handle(a) \/ LinearHandles(a) \/ CrashApprove(a)

Spec == Init /\ [][Next]_vars

\* A request that was admitted keeps running unless its instance dies.
FairSpec == Spec /\ \A a \in ApproveRequests : WF_vars(Handle(a))

(***************************************************************************)
(* Safety.                                                                 *)
(***************************************************************************)
\* A proposal is issued at most once: of all requests that approve it, however
\* they race, crash, time out or lose their answers, at most one has created an
\* issue at Linear ("so a double click cannot create two issues").
AtMostOneIssue ==
  \A a, b \in ApproveRequests :
    wire[a] = "created" /\ wire[b] = "created" /\ Target(a) = Target(b) => a = b

\* A mutation goes on the wire only for a proposal whose approval is recorded, on
\* behalf of the deployment's owner in the credential's workspace, with the row
\* in that workspace and its payload executable and grounded, and only after the
\* sending request made the execution row its own.
CallIsAuthorised ==
  \A a \in ApproveRequests :
    wire[a] # "unsent" =>
      /\ execution[Target(a)].claimant = a
      /\ Target(a) \in approval
      /\ HasCredential(a)
      /\ MayApprove(a)

\* Whatever says that a proposal was executed - the approving request's reply, a
\* later request's reply, the execution row, the proposal row - says so only when
\* Linear holds the issue and the row holds its id.
ExecutedIsConfirmed ==
  \A a \in ApproveRequests :
    LET p == Target(a) IN
    \/ approving[a] \in {"executed", "alreadySucceeded"}
    \/ execution[p].status = "succeeded"
    \/ proposal[p] = "executed"
    => /\ execution[p].issue
       /\ \E b \in ApproveRequests : Target(b) = p /\ wire[b] = "created"

\* The UNIQUE(workspace_id, idempotency_key) index and the lookups before it keep
\* one row per key, and an MCP caller is answered only with a row that stores
\* exactly the payload it sent.
ProposalIdentity ==
  /\ \A p, q \in ProposeRequests :
       /\ proposal[p] # "absent" /\ proposal[q] # "absent"
       /\ wanted[p].ws = wanted[q].ws /\ wanted[p].key = wanted[q].key
       => p = q
  /\ \A r \in ProposeRequests :
       proposing[r] \in {"created", "replayed"} =>
         /\ proposal[answered[r]] # "absent"
         /\ Holds(answered[r], r)
         /\ wanted[r].channel = "mcp" => SamePayload(answered[r], r)

\* The history of an execution row: it never disappears, never changes hands, never
\* loses the issue id, never returns to 'pending', and a recorded failure is never
\* turned into a success.
ExecutionOnlyAdvances ==
  [][\A p \in ProposeRequests :
       execution[p].status # "absent" =>
         /\ execution'[p].claimant = execution[p].claimant
         /\ execution[p].issue => execution'[p].issue
         /\ execution'[p].status = "pending" => execution[p].status = "pending"
         /\ execution'[p].status # "absent"
         /\ execution[p].status = "failed" => execution'[p].status = "failed"]_vars

(***************************************************************************)
(* Liveness.                                                               *)
(***************************************************************************)
\* A claimed execution does not stay 'pending' behind a silent provider: its row is
\* settled, or the request that claimed it ended without being able to settle it
\* (its instance died, or a statement of its own was not answered).
ClaimSettles ==
  \A a \in ApproveRequests :
    approving[a] = "call" ~>
      \/ execution[Target(a)].status \in {"succeeded", "failed"}
      \/ approving[a] \in {"crashed", "serverError"}

(***************************************************************************)
(* The detailed specification implements ProviderWrite.                    *)
(***************************************************************************)
Provider == INSTANCE ProviderWrite WITH
  Proposals <- ProposeRequests,
  approved <- approval,
  attempted <- {p \in ProposeRequests : execution[p].status # "absent"},
  issued <- {p \in ProposeRequests :
               \E a \in ApproveRequests : Target(a) = p /\ wire[a] = "created"}

\* Seen from the provider, the control plane only ever approves, attempts each
\* approved proposal once, and lets each attempt create one issue.
ImplementsProviderWrite == Provider!Spec

(***************************************************************************)
(* What the repository says and the code does not keep.  No run checks it: *)
(* README.md tells how each comes to be broken.                            *)
(***************************************************************************)
\* approve/route.ts:151 answers a failed claim with "Another approval is already
\* executing this proposal".  The INSERT may have failed for another reason.
LostClaimWasARace ==
  \A a \in ApproveRequests :
    approving[a] = "lostClaim" =>
      /\ execution[Target(a)].status # "absent"
      /\ execution[Target(a)].claimant # a
=============================================================================
