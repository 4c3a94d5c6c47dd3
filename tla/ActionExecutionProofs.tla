----------------------- MODULE ActionExecutionProofs -----------------------
(***************************************************************************)
(* Machine-checked proofs about ActionExecution, for any number of         *)
(* requests, people, workspaces and payloads.                              *)
(***************************************************************************)
EXTENDS ActionExecution, TLAPS

(***************************************************************************)
(* Types.                                                                  *)
(***************************************************************************)
LEMMA TypeInit == Init => TypeOK
  BY ConstantsAssumption
  DEF Init, TypeOK, ProposeStates, ApproveStates, ProposalStatus, ExecutionRow,
      ExecutionStatus, WireStates

LEMMA TypeNext == TypeOK /\ [Next]_vars => TypeOK'
<1> SUFFICES ASSUME TypeOK, [Next]_vars PROVE TypeOK'
  OBVIOUS
<1> USE DEF TypeOK, ProposeStates, ProposeReplies, ApproveStates, ApproveReplies,
      ProposalStatus, ExecutionRow, ExecutionStatus, WireStates, ApproveInput,
      Outcomes, Proposes, Approves, Continue, proposeVars, Target
<1>1. ASSUME NEW r \in ProposeRequests, LookupProposal(r) PROVE TypeOK'
  <2>1. proposing' \in [ProposeRequests -> ProposeStates]
    <3>1. PICK s \in {"rejected", "insert", "replayed"} :
            proposing' = [proposing EXCEPT ![r] = s]
      BY <1>1, Zenon DEF LookupProposal
    <3>2. QED
      BY <3>1
  <2>2. answered' \in [ProposeRequests -> ProposeRequests]
    BY <1>1 DEF LookupProposal
  <2>3. QED
    BY <1>1, <2>1, <2>2 DEF LookupProposal
<1>2. ASSUME NEW r \in ProposeRequests, NEW o \in Outcomes, InsertProposal(r, o)
      PROVE TypeOK'
  BY <1>2 DEF InsertProposal
<1>3. ASSUME NEW r \in ProposeRequests, CrashPropose(r) PROVE TypeOK'
  BY <1>3 DEF CrashPropose
<1>4. ASSUME NEW a \in ApproveRequests, AdmitApproval(a) PROVE TypeOK'
  BY <1>4 DEF AdmitApproval
<1>5. ASSUME NEW a \in ApproveRequests, LookupExecution(a) PROVE TypeOK'
  BY <1>5 DEF LookupExecution
<1>6. ASSUME NEW a \in ApproveRequests, CallLinear(a) PROVE TypeOK'
  BY <1>6 DEF CallLinear
<1>7. ASSUME NEW a \in ApproveRequests, LinearConfirms(a) PROVE TypeOK'
  BY <1>7 DEF LinearConfirms
<1>8. ASSUME NEW a \in ApproveRequests, LinearFails(a) PROVE TypeOK'
  BY <1>8 DEF LinearFails
<1>9. ASSUME NEW a \in ApproveRequests, NEW o \in Outcomes, RecordApproval(a, o)
      PROVE TypeOK'
  BY <1>9 DEF RecordApproval
<1>10. ASSUME NEW a \in ApproveRequests, NEW o \in Outcomes, ResolveCredential(a, o)
       PROVE TypeOK'
  BY <1>10 DEF ResolveCredential
<1>11. ASSUME NEW a \in ApproveRequests, NEW o \in Outcomes, ClaimExecution(a, o)
       PROVE TypeOK'
  <2>1. approving' \in [ApproveRequests -> ApproveStates]
    BY <1>11 DEF ClaimExecution
  <2>2. execution' \in [ProposeRequests -> ExecutionRow]
    <3>1. \A row \in ExecutionRow :
            [row EXCEPT !.status = "pending", !.claimant = a] \in ExecutionRow
      OBVIOUS
    <3>2. QED
      BY <1>11, <3>1 DEF ClaimExecution
  <2>3. QED
    BY <1>11, <2>1, <2>2 DEF ClaimExecution
<1>12. ASSUME NEW a \in ApproveRequests, NEW o \in Outcomes, RecordSuccess(a, o)
       PROVE TypeOK'
  <2>1. approving' \in [ApproveRequests -> ApproveStates]
    BY <1>12 DEF RecordSuccess
  <2>2. execution' \in [ProposeRequests -> ExecutionRow]
    <3>1. \A row \in ExecutionRow :
            [row EXCEPT !.status = "succeeded", !.issue = TRUE] \in ExecutionRow
      OBVIOUS
    <3>2. QED
      BY <1>12, <3>1 DEF RecordSuccess
  <2>3. QED
    BY <1>12, <2>1, <2>2 DEF RecordSuccess
<1>13. ASSUME NEW a \in ApproveRequests, NEW o \in Outcomes, MarkProposalExecuted(a, o)
       PROVE TypeOK'
  BY <1>13 DEF MarkProposalExecuted
<1>14. ASSUME NEW a \in ApproveRequests, NEW o \in Outcomes, AuditExecution(a, o)
       PROVE TypeOK'
  BY <1>14 DEF AuditExecution
<1>15. ASSUME NEW a \in ApproveRequests, NEW o \in Outcomes, RecordFailure(a, o)
       PROVE TypeOK'
  <2>1. approving' \in [ApproveRequests -> ApproveStates]
    BY <1>15 DEF RecordFailure
  <2>2. execution' \in [ProposeRequests -> ExecutionRow]
    <3>1. \A row \in ExecutionRow : [row EXCEPT !.status = "failed"] \in ExecutionRow
      OBVIOUS
    <3>2. QED
      BY <1>15, <3>1 DEF RecordFailure
  <2>3. QED
    BY <1>15, <2>1, <2>2 DEF RecordFailure
<1>16. ASSUME NEW a \in ApproveRequests, LinearHandles(a) PROVE TypeOK'
  BY <1>16 DEF LinearHandles
<1>17. ASSUME NEW a \in ApproveRequests, CrashApprove(a) PROVE TypeOK'
  BY <1>17 DEF CrashApprove
<1>18. CASE UNCHANGED vars
  BY <1>18 DEF vars
<1>19. QED
  BY <1>1, <1>2, <1>3, <1>4, <1>5, <1>6, <1>7, <1>8, <1>9, <1>10, <1>11, <1>12,
     <1>13, <1>14, <1>15, <1>16, <1>17, <1>18 DEF Next, Propose, Handle

\* Every reachable state is well typed.
THEOREM TypeCorrect == Spec => []TypeOK
  BY TypeInit, TypeNext, PTL DEF Spec

(***************************************************************************)
(* The inductive invariant.  AtMostOneIssue is not inductive: it says      *)
(* nothing of a request between its claim and its call.  What makes it     *)
(* true is ownership - a request past its claim, or with anything on the   *)
(* wire, is the claimant of its proposal's row - and the history behind    *)
(* each row: approval before claim, confirmation before success.           *)
(***************************************************************************)
Unclaimed == {"idle", "lookup", "record", "resolve", "claim"}
Claimed == {"call", "await", "succeed", "settle", "audit", "fail",
            "executed", "notExecuted"}
Confirmed == {"succeed", "settle", "audit", "executed"}

\* A row exists exactly when it has a claimant, which approves that proposal.
RowInv ==
  \A p \in ProposeRequests :
    /\ execution[p].status = "absent" <=> execution[p].claimant = NoRequest
    /\ execution[p].status # "absent" =>
         /\ p \in approval
         /\ Target(execution[p].claimant) = p

\* Past the claim, or on the wire, a request owns its row; before it, it does not.
OwnershipInv ==
  \A a \in ApproveRequests :
    /\ approving[a] \in Claimed \/ wire[a] # "unsent" =>
         execution[Target(a)].claimant = a
    /\ approving[a] \in Unclaimed \union {"call"} => wire[a] = "unsent"
    /\ approving[a] \in Unclaimed =>
         \A p \in ProposeRequests : execution[p].claimant # a

\* What each request has passed on its way to the provider.
AuthorityInv ==
  \A a \in ApproveRequests :
    /\ approving[a] \in {"lookup", "record", "resolve", "claim"} \union Claimed
         \/ wire[a] # "unsent" => MayApprove(a)
    /\ approving[a] \in {"resolve", "claim"} => Target(a) \in approval
    /\ approving[a] \in {"claim"} \union Claimed \/ wire[a] # "unsent" =>
         HasCredential(a)

\* Success is recorded only behind a confirmed issue.
ConfirmationInv ==
  /\ \A a \in ApproveRequests :
       /\ approving[a] \in Confirmed => wire[a] = "created"
       /\ approving[a] \in {"settle", "audit", "executed", "alreadySucceeded"} =>
            execution[Target(a)].issue
  /\ \A p \in ProposeRequests :
       /\ execution[p].status = "succeeded" \/ proposal[p] = "executed" =>
            execution[p].issue
       /\ execution[p].issue =>
            /\ execution[p].claimant \in ApproveRequests
            /\ wire[execution[p].claimant] = "created"
            /\ Target(execution[p].claimant) = p

IInv == RowInv /\ OwnershipInv /\ AuthorityInv /\ ConfirmationInv

LEMMA InvInit == Init => IInv
  BY ConstantsAssumption
  DEF Init, IInv, RowInv, OwnershipInv, AuthorityInv, ConfirmationInv, Unclaimed,
      Claimed, Confirmed

\* Admission is never withdrawn: rows, payloads and roles are written once.
LEMMA MayApproveStable ==
  ASSUME TypeOK, [Next]_vars, NEW a \in ApproveRequests, MayApprove(a)
  PROVE  MayApprove(a)'
<1> USE DEF MayApprove, Target, ActorOf, TypeOK, proposeVars
<1>1. ASSUME NEW r \in ProposeRequests, Propose(r) \/ CrashPropose(r)
      PROVE MayApprove(a)'
  <2>1. wanted' = wanted /\ visit' = visit
    BY <1>1 DEF Propose, LookupProposal, InsertProposal, CrashPropose
  <2>2. visit[a].target \in ProposeRequests
    BY DEF ApproveInput
  <2>3. proposal'[visit[a].target] # "absent"
    BY <1>1, <2>2 DEF Propose, LookupProposal, InsertProposal, CrashPropose
  <2>4. QED
    BY <2>1, <2>3
<1>2. ASSUME NEW b \in ApproveRequests, NEW o \in Outcomes, MarkProposalExecuted(b, o)
      PROVE MayApprove(a)'
  BY <1>2 DEF MarkProposalExecuted
<1>3. ASSUME NEW b \in ApproveRequests,
             AdmitApproval(b) \/ Handle(b) \/ LinearHandles(b) \/ CrashApprove(b),
             ~ \E o \in Outcomes : MarkProposalExecuted(b, o)
      PROVE MayApprove(a)'
  BY <1>3 DEF AdmitApproval, Handle, LinearHandles, CrashApprove, LookupExecution,
     CallLinear, LinearConfirms, LinearFails, RecordApproval, ResolveCredential,
     ClaimExecution, RecordSuccess, AuditExecution, RecordFailure
<1>4. CASE UNCHANGED vars
  BY <1>4 DEF vars
<1>5. QED
  BY <1>1, <1>2, <1>3, <1>4 DEF Next

\* Proposing touches nothing the invariant relates, except that a row may appear.
LEMMA ProposeKeepsInv ==
  ASSUME TypeOK, IInv, NEW r \in ProposeRequests, Propose(r) \/ CrashPropose(r)
  PROVE  IInv'
<1> USE DEF TypeOK, Target, HasCredential, ActorOf
<1>1. UNCHANGED <<visit, approving, approval, execution, wire>>
  BY DEF Propose, LookupProposal, InsertProposal, CrashPropose
<1>2. RowInv' /\ OwnershipInv'
  BY <1>1 DEF IInv, RowInv, OwnershipInv
<1>3. AuthorityInv'
  <2>1. [Next]_vars
    BY DEF Next
  <2>2. QED
    BY <1>1, <2>1, MayApproveStable DEF IInv, AuthorityInv
<1>4. ConfirmationInv'
  <2>1. \A p \in ProposeRequests :
          proposal'[p] = "executed" => proposal[p] = "executed"
    BY DEF Propose, LookupProposal, InsertProposal, CrashPropose, Applied
  <2>2. QED
    BY <1>1, <2>1 DEF IInv, ConfirmationInv
<1>5. QED
  BY <1>2, <1>3, <1>4 DEF IInv

LEMMA AdmitApprovalKeepsInv ==
  ASSUME TypeOK, IInv, NEW a \in ApproveRequests, AdmitApproval(a)
  PROVE  IInv'
<1> USE ConstantsAssumption
    DEF TypeOK, ExecutionRow, ApproveInput, Target, Approves, Continue, proposeVars,
        Unclaimed, Claimed, Confirmed, AdmitApproval, IInv
<1>1. \A b \in ApproveRequests : MayApprove(b) => MayApprove(b)'
  <2>1. [Next]_vars
    BY DEF Next, Handle
  <2>2. QED
    BY <2>1, MayApproveStable
<1>2. RowInv'
  BY DEF RowInv, OwnershipInv
<1>3. OwnershipInv'
  BY DEF OwnershipInv, RowInv
<1>4. AuthorityInv'
  BY <1>1 DEF AuthorityInv, HasCredential, ActorOf
<1>5. ConfirmationInv'
  BY DEF ConfirmationInv, RowInv, OwnershipInv
<1>6. QED
  BY <1>2, <1>3, <1>4, <1>5

LEMMA LookupExecutionKeepsInv ==
  ASSUME TypeOK, IInv, NEW a \in ApproveRequests, LookupExecution(a)
  PROVE  IInv'
<1> USE ConstantsAssumption
    DEF TypeOK, ExecutionRow, ApproveInput, Target, Approves, Continue, proposeVars,
        Unclaimed, Claimed, Confirmed, LookupExecution, IInv
<1>1. \A b \in ApproveRequests : MayApprove(b) => MayApprove(b)'
  <2>1. [Next]_vars
    BY DEF Next, Handle
  <2>2. QED
    BY <2>1, MayApproveStable
<1>2. RowInv'
  BY DEF RowInv, OwnershipInv
<1>3. OwnershipInv'
  BY DEF OwnershipInv, RowInv
<1>4. AuthorityInv'
  BY <1>1 DEF AuthorityInv, HasCredential, ActorOf
<1>5. ConfirmationInv'
  BY DEF ConfirmationInv, RowInv, OwnershipInv
<1>6. QED
  BY <1>2, <1>3, <1>4, <1>5

LEMMA RecordApprovalKeepsInv ==
  ASSUME TypeOK, IInv, NEW a \in ApproveRequests, NEW o \in Outcomes, RecordApproval(a, o)
  PROVE  IInv'
<1> USE ConstantsAssumption
    DEF TypeOK, ExecutionRow, ApproveInput, Target, Approves, Continue, proposeVars,
        Unclaimed, Claimed, Confirmed, RecordApproval, IInv
<1>1. \A b \in ApproveRequests : MayApprove(b) => MayApprove(b)'
  <2>1. [Next]_vars
    BY DEF Next, Handle
  <2>2. QED
    BY <2>1, MayApproveStable
<1>2. RowInv'
  BY DEF RowInv, OwnershipInv
<1>3. OwnershipInv'
  BY DEF OwnershipInv, RowInv
<1>4. AuthorityInv'
  <2>1. /\ visit' = visit /\ wire' = wire /\ approval \subseteq approval'
        /\ approving'[a] = "resolve" => visit[a].target \in approval'
        /\ approving[a] = "record" /\ approving'[a] \in {"resolve", "serverError"}
        /\ \A b \in ApproveRequests : b # a => approving'[b] = approving[b]
    BY DEF Outcomes, Applied
  <2>2. ASSUME NEW b \in ApproveRequests
        PROVE  HasCredential(b)' <=> HasCredential(b)
    BY <2>1 DEF HasCredential, ActorOf
  <2>3. QED
    BY <1>1, <2>1, <2>2 DEF AuthorityInv
<1>5. ConfirmationInv'
  BY DEF ConfirmationInv, RowInv, OwnershipInv
<1>6. QED
  BY <1>2, <1>3, <1>4, <1>5

LEMMA ResolveCredentialKeepsInv ==
  ASSUME TypeOK, IInv, NEW a \in ApproveRequests, NEW o \in Outcomes, ResolveCredential(a, o)
  PROVE  IInv'
<1> USE ConstantsAssumption
    DEF TypeOK, ExecutionRow, ApproveInput, Target, Approves, Continue, proposeVars,
        Unclaimed, Claimed, Confirmed, ResolveCredential, IInv
<1>1. \A b \in ApproveRequests : MayApprove(b) => MayApprove(b)'
  <2>1. [Next]_vars
    BY DEF Next, Handle
  <2>2. QED
    BY <2>1, MayApproveStable
<1>2. RowInv'
  BY DEF RowInv, OwnershipInv
<1>3. OwnershipInv'
  BY DEF OwnershipInv, RowInv
<1>4. AuthorityInv'
  BY <1>1 DEF AuthorityInv, HasCredential, ActorOf
<1>5. ConfirmationInv'
  BY DEF ConfirmationInv, RowInv, OwnershipInv
<1>6. QED
  BY <1>2, <1>3, <1>4, <1>5

LEMMA ClaimExecutionKeepsInv ==
  ASSUME TypeOK, IInv, NEW a \in ApproveRequests, NEW o \in Outcomes, ClaimExecution(a, o)
  PROVE  IInv'
<1> USE ConstantsAssumption
    DEF TypeOK, ExecutionRow, ApproveInput, Target, Approves, Continue, proposeVars,
        Unclaimed, Claimed, Confirmed, ClaimExecution, IInv
<1>1. \A b \in ApproveRequests : MayApprove(b) => MayApprove(b)'
  <2>1. [Next]_vars
    BY DEF Next, Handle
  <2>2. QED
    BY <2>1, MayApproveStable
<1>2. RowInv'
  BY DEF RowInv, OwnershipInv
<1>3. OwnershipInv'
  BY DEF OwnershipInv, RowInv
<1>4. AuthorityInv'
  BY <1>1 DEF AuthorityInv, HasCredential, ActorOf
<1>5. ConfirmationInv'
  BY DEF ConfirmationInv, RowInv, OwnershipInv
<1>6. QED
  BY <1>2, <1>3, <1>4, <1>5

LEMMA CallLinearKeepsInv ==
  ASSUME TypeOK, IInv, NEW a \in ApproveRequests, CallLinear(a)
  PROVE  IInv'
<1> USE ConstantsAssumption
    DEF TypeOK, ExecutionRow, ApproveInput, Target, Approves, Continue, proposeVars,
        Unclaimed, Claimed, Confirmed, CallLinear, IInv
<1>1. \A b \in ApproveRequests : MayApprove(b) => MayApprove(b)'
  <2>1. [Next]_vars
    BY DEF Next, Handle
  <2>2. QED
    BY <2>1, MayApproveStable
<1>2. RowInv'
  BY DEF RowInv, OwnershipInv
<1>3. OwnershipInv'
  BY DEF OwnershipInv, RowInv
<1>4. AuthorityInv'
  BY <1>1 DEF AuthorityInv, HasCredential, ActorOf
<1>5. ConfirmationInv'
  BY DEF ConfirmationInv, RowInv, OwnershipInv
<1>6. QED
  BY <1>2, <1>3, <1>4, <1>5

LEMMA LinearConfirmsKeepsInv ==
  ASSUME TypeOK, IInv, NEW a \in ApproveRequests, LinearConfirms(a)
  PROVE  IInv'
<1> USE ConstantsAssumption
    DEF TypeOK, ExecutionRow, ApproveInput, Target, Approves, Continue, proposeVars,
        Unclaimed, Claimed, Confirmed, LinearConfirms, IInv
<1>1. \A b \in ApproveRequests : MayApprove(b) => MayApprove(b)'
  <2>1. [Next]_vars
    BY DEF Next, Handle
  <2>2. QED
    BY <2>1, MayApproveStable
<1>2. RowInv'
  BY DEF RowInv, OwnershipInv
<1>3. OwnershipInv'
  BY DEF OwnershipInv, RowInv
<1>4. AuthorityInv'
  BY <1>1 DEF AuthorityInv, HasCredential, ActorOf
<1>5. ConfirmationInv'
  BY DEF ConfirmationInv, RowInv, OwnershipInv
<1>6. QED
  BY <1>2, <1>3, <1>4, <1>5

LEMMA LinearFailsKeepsInv ==
  ASSUME TypeOK, IInv, NEW a \in ApproveRequests, LinearFails(a)
  PROVE  IInv'
<1> USE ConstantsAssumption
    DEF TypeOK, ExecutionRow, ApproveInput, Target, Approves, Continue, proposeVars,
        Unclaimed, Claimed, Confirmed, LinearFails, IInv
<1>1. \A b \in ApproveRequests : MayApprove(b) => MayApprove(b)'
  <2>1. [Next]_vars
    BY DEF Next, Handle
  <2>2. QED
    BY <2>1, MayApproveStable
<1>2. RowInv'
  BY DEF RowInv, OwnershipInv
<1>3. OwnershipInv'
  BY DEF OwnershipInv, RowInv
<1>4. AuthorityInv'
  BY <1>1 DEF AuthorityInv, HasCredential, ActorOf
<1>5. ConfirmationInv'
  BY DEF ConfirmationInv, RowInv, OwnershipInv
<1>6. QED
  BY <1>2, <1>3, <1>4, <1>5

LEMMA RecordSuccessKeepsInv ==
  ASSUME TypeOK, IInv, NEW a \in ApproveRequests, NEW o \in Outcomes, RecordSuccess(a, o)
  PROVE  IInv'
<1> USE ConstantsAssumption
    DEF TypeOK, ExecutionRow, ApproveInput, Target, Approves, Continue, proposeVars,
        Unclaimed, Claimed, Confirmed, RecordSuccess, IInv
<1>1. \A b \in ApproveRequests : MayApprove(b) => MayApprove(b)'
  <2>1. [Next]_vars
    BY DEF Next, Handle
  <2>2. QED
    BY <2>1, MayApproveStable
<1>2. RowInv'
  BY DEF RowInv, OwnershipInv
<1>3. OwnershipInv'
  BY DEF OwnershipInv, RowInv
<1>4. AuthorityInv'
  BY <1>1 DEF AuthorityInv, HasCredential, ActorOf
<1>5. ConfirmationInv'
  <2>1. /\ visit' = visit /\ wire' = wire /\ proposal' = proposal
        /\ approving[a] = "succeed" /\ approving'[a] \in {"settle", "fail"}
        /\ \A b \in ApproveRequests : b # a => approving'[b] = approving[b]
    OBVIOUS
  <2>2. wire[a] = "created" /\ execution[visit[a].target].claimant = a
    BY <2>1 DEF ConfirmationInv, OwnershipInv
  <2>3. ASSUME NEW p \in ProposeRequests
        PROVE  /\ execution'[p].claimant = execution[p].claimant
               /\ execution[p].issue => execution'[p].issue
               /\ execution'[p].issue /\ ~ execution[p].issue => p = visit[a].target
               /\ execution'[p].status = "succeeded" =>
                    execution'[p].issue \/ execution[p].status = "succeeded"
    BY DEF ConfirmationInv
  <2>4. approving'[a] = "settle" => execution'[visit[a].target].issue
    BY <2>2 DEF OwnRow, Applied
  <2>5. ASSUME NEW b \in ApproveRequests
        PROVE  /\ approving'[b] \in Confirmed => wire'[b] = "created"
               /\ approving'[b] \in {"settle", "audit", "executed", "alreadySucceeded"} =>
                    execution'[visit[b].target].issue
    BY <2>1, <2>2, <2>3, <2>4 DEF ConfirmationInv
  <2>6. ASSUME NEW p \in ProposeRequests
        PROVE  /\ execution'[p].status = "succeeded" \/ proposal'[p] = "executed" =>
                    execution'[p].issue
               /\ execution'[p].issue =>
                    /\ execution'[p].claimant \in ApproveRequests
                    /\ wire'[execution'[p].claimant] = "created"
                    /\ visit'[execution'[p].claimant].target = p
    BY <2>1, <2>2, <2>3 DEF ConfirmationInv
  <2>7. QED
    BY <2>1, <2>5, <2>6 DEF ConfirmationInv
<1>6. QED
  BY <1>2, <1>3, <1>4, <1>5

LEMMA MarkProposalExecutedKeepsInv ==
  ASSUME TypeOK, IInv, NEW a \in ApproveRequests, NEW o \in Outcomes, MarkProposalExecuted(a, o)
  PROVE  IInv'
<1> USE ConstantsAssumption
    DEF TypeOK, ExecutionRow, ApproveInput, Target, Approves, Continue, proposeVars,
        Unclaimed, Claimed, Confirmed, MarkProposalExecuted, IInv
<1>1. \A b \in ApproveRequests : MayApprove(b) => MayApprove(b)'
  <2>1. [Next]_vars
    BY DEF Next, Handle
  <2>2. QED
    BY <2>1, MayApproveStable
<1>2. RowInv'
  BY DEF RowInv, OwnershipInv
<1>3. OwnershipInv'
  BY DEF OwnershipInv, RowInv
<1>4. AuthorityInv'
  BY <1>1 DEF AuthorityInv, HasCredential, ActorOf
<1>5. ConfirmationInv'
  BY DEF ConfirmationInv, RowInv, OwnershipInv
<1>6. QED
  BY <1>2, <1>3, <1>4, <1>5

LEMMA AuditExecutionKeepsInv ==
  ASSUME TypeOK, IInv, NEW a \in ApproveRequests, NEW o \in Outcomes, AuditExecution(a, o)
  PROVE  IInv'
<1> USE ConstantsAssumption
    DEF TypeOK, ExecutionRow, ApproveInput, Target, Approves, Continue, proposeVars,
        Unclaimed, Claimed, Confirmed, AuditExecution, IInv
<1>1. \A b \in ApproveRequests : MayApprove(b) => MayApprove(b)'
  <2>1. [Next]_vars
    BY DEF Next, Handle
  <2>2. QED
    BY <2>1, MayApproveStable
<1>2. RowInv'
  BY DEF RowInv, OwnershipInv
<1>3. OwnershipInv'
  BY DEF OwnershipInv, RowInv
<1>4. AuthorityInv'
  BY <1>1 DEF AuthorityInv, HasCredential, ActorOf
<1>5. ConfirmationInv'
  BY DEF ConfirmationInv, RowInv, OwnershipInv
<1>6. QED
  BY <1>2, <1>3, <1>4, <1>5

LEMMA RecordFailureKeepsInv ==
  ASSUME TypeOK, IInv, NEW a \in ApproveRequests, NEW o \in Outcomes, RecordFailure(a, o)
  PROVE  IInv'
<1> USE ConstantsAssumption
    DEF TypeOK, ExecutionRow, ApproveInput, Target, Approves, Continue, proposeVars,
        Unclaimed, Claimed, Confirmed, RecordFailure, IInv
<1>1. \A b \in ApproveRequests : MayApprove(b) => MayApprove(b)'
  <2>1. [Next]_vars
    BY DEF Next, Handle
  <2>2. QED
    BY <2>1, MayApproveStable
<1>2. RowInv'
  BY DEF RowInv, OwnershipInv
<1>3. OwnershipInv'
  BY DEF OwnershipInv, RowInv
<1>4. AuthorityInv'
  BY <1>1 DEF AuthorityInv, HasCredential, ActorOf
<1>5. ConfirmationInv'
  BY DEF ConfirmationInv, RowInv, OwnershipInv
<1>6. QED
  BY <1>2, <1>3, <1>4, <1>5

LEMMA LinearHandlesKeepsInv ==
  ASSUME TypeOK, IInv, NEW a \in ApproveRequests, LinearHandles(a)
  PROVE  IInv'
<1> USE ConstantsAssumption
    DEF TypeOK, ExecutionRow, ApproveInput, Target, Approves, Continue, proposeVars,
        Unclaimed, Claimed, Confirmed, LinearHandles, IInv
<1>1. \A b \in ApproveRequests : MayApprove(b) => MayApprove(b)'
  <2>1. [Next]_vars
    BY DEF Next, Handle
  <2>2. QED
    BY <2>1, MayApproveStable
<1>2. RowInv'
  BY DEF RowInv, OwnershipInv
<1>3. OwnershipInv'
  BY DEF OwnershipInv, RowInv
<1>4. AuthorityInv'
  BY <1>1 DEF AuthorityInv, HasCredential, ActorOf
<1>5. ConfirmationInv'
  BY DEF ConfirmationInv, RowInv, OwnershipInv
<1>6. QED
  BY <1>2, <1>3, <1>4, <1>5

LEMMA CrashApproveKeepsInv ==
  ASSUME TypeOK, IInv, NEW a \in ApproveRequests, CrashApprove(a)
  PROVE  IInv'
<1> USE ConstantsAssumption
    DEF TypeOK, ExecutionRow, ApproveInput, Target, Approves, Continue, proposeVars,
        Unclaimed, Claimed, Confirmed, CrashApprove, IInv
<1>1. \A b \in ApproveRequests : MayApprove(b) => MayApprove(b)'
  <2>1. [Next]_vars
    BY DEF Next, Handle
  <2>2. QED
    BY <2>1, MayApproveStable
<1>2. RowInv'
  BY DEF RowInv, OwnershipInv
<1>3. OwnershipInv'
  BY DEF OwnershipInv, RowInv
<1>4. AuthorityInv'
  BY <1>1 DEF AuthorityInv, HasCredential, ActorOf
<1>5. ConfirmationInv'
  BY DEF ConfirmationInv, RowInv, OwnershipInv
<1>6. QED
  BY <1>2, <1>3, <1>4, <1>5

LEMMA InvNext == TypeOK /\ IInv /\ [Next]_vars => IInv'
<1> SUFFICES ASSUME TypeOK, IInv, [Next]_vars PROVE IInv'
  OBVIOUS
<1>1. ASSUME NEW r \in ProposeRequests, Propose(r) \/ CrashPropose(r) PROVE IInv'
  BY <1>1, ProposeKeepsInv
<1>2. ASSUME NEW a \in ApproveRequests, Handle(a) PROVE IInv'
  BY <1>2, LookupExecutionKeepsInv, CallLinearKeepsInv, LinearConfirmsKeepsInv,
     LinearFailsKeepsInv, RecordApprovalKeepsInv, ResolveCredentialKeepsInv,
     ClaimExecutionKeepsInv, RecordSuccessKeepsInv, MarkProposalExecutedKeepsInv,
     AuditExecutionKeepsInv, RecordFailureKeepsInv
  DEF Handle
<1>3. ASSUME NEW a \in ApproveRequests,
             AdmitApproval(a) \/ LinearHandles(a) \/ CrashApprove(a)
      PROVE IInv'
  BY <1>3, AdmitApprovalKeepsInv, LinearHandlesKeepsInv, CrashApproveKeepsInv
<1>4. CASE UNCHANGED vars
  BY <1>4
  DEF vars, IInv, RowInv, OwnershipInv, AuthorityInv, ConfirmationInv, MayApprove,
      HasCredential, Target, ActorOf
<1>5. QED
  BY <1>1, <1>2, <1>3, <1>4 DEF Next

LEMMA InvariantHolds == Spec => [](TypeOK /\ IInv)
  BY TypeInit, TypeNext, InvInit, InvNext, PTL DEF Spec

(***************************************************************************)
(* The safety properties.                                                  *)
(***************************************************************************)
\* However many requests approve a proposal, and however they race, fail and
\* crash, at most one of them creates an issue: both own the one execution row.
THEOREM OneIssue == Spec => []AtMostOneIssue
<1>1. TypeOK /\ IInv => AtMostOneIssue
  BY DEF TypeOK, IInv, OwnershipInv, AtMostOneIssue, ApproveInput, Target
<1>2. QED
  BY <1>1, InvariantHolds, PTL

\* Whatever reaches the wire was approved, claimed and authorised first.
THEOREM CallsAuthorised == Spec => []CallIsAuthorised
<1>1. TypeOK /\ IInv => CallIsAuthorised
  <2> SUFFICES ASSUME TypeOK, IInv, NEW a \in ApproveRequests, wire[a] # "unsent"
               PROVE  /\ execution[Target(a)].claimant = a
                      /\ Target(a) \in approval
                      /\ HasCredential(a)
                      /\ MayApprove(a)
    BY DEF CallIsAuthorised
  <2>1. execution[Target(a)].claimant = a
    BY DEF IInv, OwnershipInv
  <2>2. Target(a) \in approval
    BY <2>1, ConstantsAssumption DEF TypeOK, ApproveInput, IInv, RowInv, Target
  <2>3. HasCredential(a) /\ MayApprove(a)
    BY DEF IInv, AuthorityInv
  <2>4. QED
    BY <2>1, <2>2, <2>3
<1>2. QED
  BY <1>1, InvariantHolds, PTL

\* Nothing is reported or recorded as executed without a confirmed issue.
THEOREM ExecutionsConfirmed == Spec => []ExecutedIsConfirmed
<1>1. TypeOK /\ IInv => ExecutedIsConfirmed
  BY DEF TypeOK, IInv, ConfirmationInv, ExecutedIsConfirmed, ApproveInput, Target
<1>2. QED
  BY <1>1, InvariantHolds, PTL
(***************************************************************************)
(* Proposals: rows are born from their own request, and keep their key.    *)
(***************************************************************************)
ProposalInv ==
  /\ \A r \in ProposeRequests :
       /\ proposing[r] \in {"idle", "insert", "created"} => answered[r] = r
       /\ proposing[r] = "created" => proposal[r] # "absent"
       /\ proposing[r] = "replayed" =>
            /\ Holds(answered[r], r)
            /\ wanted[r].channel = "mcp" => SamePayload(answered[r], r)
  /\ \A p, q \in ProposeRequests :
       /\ proposal[p] # "absent" /\ proposal[q] # "absent"
       /\ wanted[p].ws = wanted[q].ws /\ wanted[p].key = wanted[q].key
       => p = q

LEMMA ProposalInvNext == TypeOK /\ IInv /\ ProposalInv /\ [Next]_vars => ProposalInv'
<1> SUFFICES ASSUME TypeOK, IInv, ProposalInv, [Next]_vars PROVE ProposalInv'
  OBVIOUS
<1> USE DEF TypeOK, ProposalInv, Holds, SamePayload, Proposes, proposeVars
<1>1. ASSUME NEW r \in ProposeRequests, LookupProposal(r) PROVE ProposalInv'
  BY <1>1 DEF LookupProposal
<1>2. ASSUME NEW r \in ProposeRequests, NEW o \in Outcomes, InsertProposal(r, o)
      PROVE ProposalInv'
  BY <1>2 DEF InsertProposal, Continue, Outcomes, Applied
<1>3. ASSUME NEW r \in ProposeRequests, CrashPropose(r) PROVE ProposalInv'
  BY <1>3 DEF CrashPropose
<1>4. ASSUME NEW a \in ApproveRequests, NEW o \in Outcomes, MarkProposalExecuted(a, o)
      PROVE ProposalInv'
  <2>1. Target(a) \in ProposeRequests /\ proposal[Target(a)] # "absent"
    BY <1>4 DEF MarkProposalExecuted, Approves, IInv, AuthorityInv, MayApprove,
       Claimed, Target, ApproveInput
  <2>2. /\ \A p \in ProposeRequests : proposal'[p] = "absent" <=> proposal[p] = "absent"
        /\ wanted' = wanted /\ proposing' = proposing /\ answered' = answered
    BY <1>4, <2>1 DEF MarkProposalExecuted
  <2>3. QED
    BY <2>2
<1>5. ASSUME UNCHANGED <<proposeVars, proposal>> PROVE ProposalInv'
  BY <1>5
<1>6. QED
  BY <1>1, <1>2, <1>3, <1>4, <1>5
  DEF Next, Propose, Handle, AdmitApproval, LinearHandles, CrashApprove,
      LookupExecution, CallLinear, LinearConfirms, LinearFails, RecordApproval,
      ResolveCredential, ClaimExecution, RecordSuccess, AuditExecution,
      RecordFailure, vars

\* A key names one row, and an MCP caller's answer stores exactly what it sent.
THEOREM ProposalsIdentified == Spec => []ProposalIdentity
<1>1. Init => ProposalInv
  BY DEF Init, ProposalInv
<1>2. TypeOK /\ ProposalInv => ProposalIdentity
  BY DEF TypeOK, ProposalInv, ProposalIdentity, Holds, SamePayload
<1>3. QED
  BY <1>1, <1>2, InvariantHolds, ProposalInvNext, PTL DEF Spec

(***************************************************************************)
(* The history of an execution row.                                        *)
(***************************************************************************)
RowAdvances ==
  \A p \in ProposeRequests :
    execution[p].status # "absent" =>
      /\ execution'[p].claimant = execution[p].claimant
      /\ execution[p].issue => execution'[p].issue
      /\ execution'[p].status = "pending" => execution[p].status = "pending"
      /\ execution'[p].status # "absent"
      /\ execution[p].status = "failed" => execution'[p].status = "failed"

\* RowInv's companion: the claimant still to record its outcome finds 'pending'.
OpenInv ==
  \A a \in ApproveRequests :
    approving[a] \in {"call", "await", "succeed"} =>
      execution[Target(a)].status = "pending"

LEMMA RowStep == TypeOK /\ IInv /\ OpenInv /\ [Next]_vars => RowAdvances /\ OpenInv'
<1> SUFFICES ASSUME TypeOK, IInv, OpenInv, [Next]_vars
             PROVE  RowAdvances /\ OpenInv'
  OBVIOUS
<1> USE ConstantsAssumption
    DEF TypeOK, ExecutionRow, ApproveInput, OpenInv, RowAdvances, Target, Approves,
        proposeVars
<1>1. ASSUME NEW r \in ProposeRequests, Propose(r) \/ CrashPropose(r)
      PROVE RowAdvances /\ OpenInv'
  BY <1>1 DEF Propose, LookupProposal, InsertProposal, CrashPropose
<1>2. ASSUME NEW a \in ApproveRequests, NEW o \in Outcomes, ClaimExecution(a, o)
      PROVE RowAdvances /\ OpenInv'
  BY <1>2 DEF ClaimExecution, Continue
<1>3. ASSUME NEW a \in ApproveRequests, NEW o \in Outcomes,
             RecordSuccess(a, o) \/ RecordFailure(a, o)
      PROVE RowAdvances /\ OpenInv'
  <2>1. \A b \in ApproveRequests :
          approving[b] \in {"call", "await", "succeed"} /\ Target(b) = Target(a) => b = a
    BY <1>3 DEF RecordSuccess, RecordFailure, IInv, OwnershipInv, Claimed
  <2>2. RecordSuccess(a, o) => execution[Target(a)].status = "pending"
    BY DEF RecordSuccess
  <2>3. RowAdvances
    BY <1>3, <2>2 DEF RecordSuccess, RecordFailure
  <2>4. OpenInv'
    BY <1>3, <2>1 DEF RecordSuccess, RecordFailure, Continue
  <2>5. QED
    BY <2>3, <2>4
<1>4. ASSUME NEW a \in ApproveRequests,
             \/ AdmitApproval(a) \/ LinearHandles(a) \/ CrashApprove(a)
             \/ LookupExecution(a) \/ CallLinear(a) \/ LinearConfirms(a) \/ LinearFails(a)
             \/ \E o \in Outcomes : \/ RecordApproval(a, o) \/ ResolveCredential(a, o)
                                    \/ MarkProposalExecuted(a, o) \/ AuditExecution(a, o)
      PROVE RowAdvances /\ OpenInv'
  BY <1>4
  DEF AdmitApproval, LinearHandles, CrashApprove, LookupExecution, CallLinear,
      LinearConfirms, LinearFails, RecordApproval, ResolveCredential,
      MarkProposalExecuted, AuditExecution, Continue
<1>5. CASE UNCHANGED vars
  BY <1>5 DEF vars
<1>6. QED
  BY <1>1, <1>2, <1>3, <1>4, <1>5 DEF Next, Handle

\* An execution row only moves forward: it is never handed to another request,
\* never reopened, never stripped of its issue id, and failure is final.
THEOREM ExecutionAdvances == Spec => ExecutionOnlyAdvances
<1>1. Init => OpenInv
  BY DEF Init, OpenInv
<1>2. RowAdvances => 
        \A p \in ProposeRequests :
          execution[p].status # "absent" =>
            /\ execution'[p].claimant = execution[p].claimant
            /\ execution[p].issue => execution'[p].issue
            /\ execution'[p].status = "pending" => execution[p].status = "pending"
            /\ execution'[p].status # "absent"
            /\ execution[p].status = "failed" => execution'[p].status = "failed"
  BY DEF RowAdvances
<1>3. QED
  BY <1>1, <1>2, RowStep, InvariantHolds, PTL DEF Spec, ExecutionOnlyAdvances

(***************************************************************************)
(* Refinement.                                                             *)
(***************************************************************************)
Attempted == {p \in ProposeRequests : execution[p].status # "absent"}
Issued == {p \in ProposeRequests :
             \E a \in ApproveRequests : Target(a) = p /\ wire[a] = "created"}

LEMMA ProviderInit == Init => Provider!Init
  BY DEF Init, Provider!Init

LEMMA ProviderStep ==
  TypeOK /\ IInv /\ [Next]_vars => [Provider!Next]_(Provider!vars)
<1> SUFFICES ASSUME TypeOK, IInv, [Next]_vars
             PROVE  [Provider!Next]_(Provider!vars)
  OBVIOUS
<1> USE DEF TypeOK, ExecutionRow, ApproveInput, Target, Approves, proposeVars
<1>1. ASSUME NEW a \in ApproveRequests, NEW o \in Outcomes, RecordApproval(a, o)
      PROVE  [Provider!Next]_(Provider!vars)
  <2>1. UNCHANGED <<Attempted, Issued>>
    BY <1>1 DEF RecordApproval, Attempted, Issued
  <2>2. approval' = approval \/ approval' = approval \union {Target(a)}
    BY <1>1 DEF RecordApproval
  <2>3. QED
    BY <2>1, <2>2 DEF Provider!Next, Provider!Approve, Provider!vars, Attempted, Issued
<1>2. ASSUME NEW a \in ApproveRequests, NEW o \in Outcomes, ClaimExecution(a, o)
      PROVE  [Provider!Next]_(Provider!vars)
  <2>1. UNCHANGED <<approval, Issued>>
    BY <1>2 DEF ClaimExecution, Issued
  <2>2. Target(a) \in approval
    BY <1>2 DEF ClaimExecution, IInv, AuthorityInv
  <2>3. \/ Attempted' = Attempted
        \/ Target(a) \notin Attempted /\ Attempted' = Attempted \union {Target(a)}
    BY <1>2 DEF ClaimExecution, Attempted
  <2>4. QED
    BY <2>1, <2>2, <2>3
    DEF Provider!Next, Provider!Attempt, Provider!vars, Attempted, Issued
<1>3. ASSUME NEW a \in ApproveRequests, LinearHandles(a)
      PROVE  [Provider!Next]_(Provider!vars)
  <2>1. UNCHANGED <<approval, Attempted>>
    BY <1>3 DEF LinearHandles, Attempted
  <2>2. wire[a] = "sent" /\ execution[Target(a)].claimant = a
    BY <1>3 DEF LinearHandles, IInv, OwnershipInv
  <2>3. Target(a) \in Attempted /\ Target(a) \notin Issued
    BY <2>2, ConstantsAssumption DEF IInv, RowInv, OwnershipInv, Attempted, Issued
  <2>4. Issued' = Issued \/ Issued' = Issued \union {Target(a)}
    BY <1>3, <2>2 DEF LinearHandles, Issued
  <2>5. QED
    BY <2>1, <2>3, <2>4
    DEF Provider!Next, Provider!Issue, Provider!vars, Attempted, Issued
<1>4. ASSUME NEW a \in ApproveRequests, NEW o \in Outcomes,
             RecordSuccess(a, o) \/ RecordFailure(a, o)
      PROVE  [Provider!Next]_(Provider!vars)
  <2>1. execution[Target(a)].status # "absent" \/ ~ OwnRow(a)
    BY ConstantsAssumption DEF OwnRow, IInv, RowInv
  <2>2. \A p \in ProposeRequests :
          execution'[p].status = "absent" <=> execution[p].status = "absent"
    <3>1. \A p \in ProposeRequests :
            \/ execution'[p].status = execution[p].status
            \/ p = Target(a) /\ OwnRow(a) /\ execution'[p].status \in {"succeeded", "failed"}
      BY <1>4 DEF RecordSuccess, RecordFailure
    <3>2. QED
      BY <2>1, <3>1
  <2>3. Attempted' = Attempted
    BY <2>2 DEF Attempted
  <2>4. UNCHANGED <<approval, Issued>>
    BY <1>4 DEF RecordSuccess, RecordFailure, Issued
  <2>5. QED
    BY <2>3, <2>4 DEF Provider!vars, Attempted, Issued
<1>5. ASSUME NEW a \in ApproveRequests, CallLinear(a)
      PROVE  [Provider!Next]_(Provider!vars)
  <2>1. wire[a] = "unsent"
    BY <1>5 DEF CallLinear, IInv, OwnershipInv
  <2>2. UNCHANGED <<approval, Attempted, Issued>>
    BY <1>5, <2>1 DEF CallLinear, Attempted, Issued
  <2>3. QED
    BY <2>2 DEF Provider!vars, Attempted, Issued
<1>6. ASSUME UNCHANGED <<visit, approval, execution, wire>>
      PROVE  [Provider!Next]_(Provider!vars)
  BY <1>6 DEF Provider!vars
<1>7. QED
  BY <1>1, <1>2, <1>3, <1>4, <1>5, <1>6
  DEF Next, Propose, Handle, LookupProposal, InsertProposal, CrashPropose,
      AdmitApproval, CrashApprove, LookupExecution, LinearConfirms, LinearFails,
      ResolveCredential, MarkProposalExecuted, AuditExecution, vars

\* The control plane implements its promise to the provider.
THEOREM Refinement == Spec => ImplementsProviderWrite
  BY ProviderInit, ProviderStep, InvariantHolds, PTL
  DEF Spec, ImplementsProviderWrite, Provider!Spec

=============================================================================
