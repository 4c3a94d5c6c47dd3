-------------------------- MODULE ApprovalsScreen ---------------------------
(***************************************************************************)
(* The approvals screen: a composer that seals proposals, the list of      *)
(* them, and the dialog in which the owner reads one, ticks that it was    *)
(* reviewed and approves it.  Every outcome is followed by a new list.     *)
(* Bound: the owner stays signed in.                                       *)
(***************************************************************************)
EXTENDS WorkspaceTab, Sequences

CONSTANTS
  Texts,          \* what the owner writes into the composer
  MaxProposals    \* bound

ASSUME DeskAssumption == MaxProposals \in Nat

VARIABLES
  proposals,  \* server: the proposals, in the order they were sealed
  reviewed,   \* the proposals the owner ticked, for the property
  desk        \* the screen, with its requests

deskVars == <<proposals, reviewed, desk>>
Ids == 1 .. MaxProposals
NoRow == [id |-> 0, status |-> "none"]
Composing == MaxProposals + 1    \* the value of busy while a proposal is created
Statuses == {"proposed", "approved", "executed", "failed"}
RowsShown == [id : Ids, status : Statuses]

DeskCalls ==
  [op : {"list", "propose", "approve"},
   after : {"nothing", "refresh", "propose", "approve", "failure"},
   id : {0} \union Ids, brief : BOOLEAN, keyed : BOOLEAN, text : Texts \union {"none"}, live : BOOLEAN,
   stage : {"sent", "answered", "refused"}, shown : SUBSET RowsShown]

DeskTypeOK ==
  /\ proposals \in Seq([brief : BOOLEAN, keyed : BOOLEAN, text : Texts, status : Statuses])
  /\ reviewed \subseteq Ids
  /\ desk \in [shown : SUBSET RowsShown, selected : RowsShown \union {NoRow},
              confirmed : BOOLEAN, composing : BOOLEAN, seeded : BOOLEAN,
              busy : 0 .. Composing, posts : SUBSET DeskCalls]

List(after) ==
  [op |-> "list", after |-> after, id |-> 0, brief |-> FALSE, keyed |-> FALSE,
   text |-> "none", live |-> TRUE, stage |-> "sent", shown |-> {}]

\* What was drafted from a brief, and whether the brief's id is sent along.
Propose(brief, keyed, text) ==
  [List("nothing") EXCEPT !.op = "propose", !.brief = brief, !.keyed = keyed, !.text = text]

Approval(id) == [List("nothing") EXCEPT !.op = "approve", !.id = id]

\* A screen for the packet it was handed, or for none.
Fresh(seeded, posts) ==
  [shown |-> {}, selected |-> NoRow, confirmed |-> FALSE, composing |-> seeded,
   seeded |-> seeded, busy |-> 0, posts |-> posts \union {List("nothing")}]

\* What was written is still served once the screen that sent it is gone.
Orphaned(posts) ==
  {[p EXCEPT !.live = FALSE] : p \in {p \in posts : p.op # "list" /\ p.stage = "sent"}}

DeskInit ==
  /\ proposals = <<>> /\ reviewed = {}
  /\ \E seeded \in BOOLEAN : desk = Fresh(seeded, {})

(***************************************************************************)
(* The server.                                                             *)
(***************************************************************************)
DeskReply(p, ok, shown) ==
  desk' = [desk EXCEPT !.posts = (@ \ {p}) \union
            (IF p.live THEN {[p EXCEPT !.stage = IF ok THEN "answered" ELSE "refused",
                                       !.shown = shown]} ELSE {})]

ServeDesk(p) ==
  /\ p.op = "list" /\ p.stage = "sent"
  /\ DeskReply(p, TRUE, {[id |-> i, status |-> proposals[i].status] : i \in DOMAIN proposals})
  /\ UNCHANGED <<tabVars, proposals, reviewed>>

\* The idempotency key is of the packet and the text; without a packet it is always new.
Sealed(p) == \E i \in DOMAIN proposals : p.keyed /\ proposals[i].keyed /\ proposals[i].text = p.text

ServePropose(p) ==
  /\ p.op = "propose" /\ p.stage = "sent"
  /\ DeskReply(p, TRUE, {})
  /\ proposals' = IF Sealed(p) THEN proposals
               ELSE Append(proposals, [brief |-> p.brief, keyed |-> p.keyed, text |-> p.text,
                                    status |-> "proposed"])
  /\ UNCHANGED <<tabVars, reviewed>>

\* One provider write, whose outcome is final, or an approval without one.
ServeApprove(p, outcome) ==
  /\ p.op = "approve" /\ p.stage = "sent"
  /\ outcome # "proposed"
  /\ LET acted == proposals[p.id].status \in {"executed", "failed"} IN
     /\ proposals' = IF acted THEN proposals ELSE [proposals EXCEPT ![p.id].status = outcome]
     /\ DeskReply(p, acted \/ outcome # "failed", {})
  /\ UNCHANGED <<tabVars, reviewed>>

(***************************************************************************)
(* The composer.                                                           *)
(***************************************************************************)
DeskSends(post, d) == desk' = [d EXCEPT !.posts = @ \union {post}]

OpenComposer ==
  /\ ~desk.composing /\ desk.selected = NoRow
  /\ desk' = [desk EXCEPT !.composing = TRUE]
  /\ UNCHANGED <<tabVars, proposals, reviewed>>

\* onSeedUsed: a screen that had a packet is replaced by one that has none.
SeedUsed(d) ==
  IF d.seeded THEN Fresh(FALSE, Orphaned(d.posts)) ELSE [d EXCEPT !.composing = FALSE]

CloseComposer ==
  /\ desk.composing
  /\ desk' = SeedUsed(desk)
  /\ UNCHANGED <<tabVars, proposals, reviewed>>

Unsealed ==
  /\ Len(proposals) + Cardinality({p \in desk.posts : p.op = "propose"}) < MaxProposals
  /\ Cardinality(desk.posts) < MaxPosts

\* Mutant: the packet's id is not sent along.
CreateUnseeded(text) ==
  /\ desk.composing /\ desk.busy # Composing
  /\ Unsealed
  /\ DeskSends(Propose(desk.seeded, FALSE, text), [desk EXCEPT !.busy = Composing])
  /\ UNCHANGED <<tabVars, proposals, reviewed>>

CreateProposal(text) ==
  /\ desk.composing /\ desk.busy # Composing
  /\ Unsealed
  /\ DeskSends(Propose(desk.seeded, desk.seeded, text), [desk EXCEPT !.busy = Composing])
  /\ UNCHANGED <<tabVars, proposals, reviewed>>

(***************************************************************************)
(* The review.                                                             *)
(***************************************************************************)
\* setSelected and setConfirmed(false), for a row or for none.
Show(d, row) == [d EXCEPT !.selected = row, !.confirmed = FALSE]

Review(row) ==
  /\ ~desk.composing
  /\ desk.selected = NoRow
  /\ row \in desk.shown
  /\ desk' = Show(desk, row)
  /\ UNCHANGED <<tabVars, proposals, reviewed>>

CloseReview ==
  /\ desk.selected # NoRow
  /\ desk' = Show(desk, NoRow)
  /\ UNCHANGED <<tabVars, proposals, reviewed>>

Undecided == desk.selected.status = "proposed"

Confirm ==
  /\ Undecided /\ ~desk.confirmed
  /\ desk' = [desk EXCEPT !.confirmed = TRUE]
  /\ reviewed' = reviewed \union {desk.selected.id}
  /\ UNCHANGED <<tabVars, proposals>>

Approve ==
  /\ Undecided /\ desk.confirmed /\ desk.busy # desk.selected.id
  /\ Cardinality(desk.posts) < MaxPosts
  /\ DeskSends(Approval(desk.selected.id), [desk EXCEPT !.busy = desk.selected.id])
  /\ UNCHANGED <<tabVars, proposals, reviewed>>

(***************************************************************************)
(* What follows an answer.                                                 *)
(***************************************************************************)
Finished(d) == [d EXCEPT !.busy = 0]
Without(p) == [desk EXCEPT !.posts = @ \ {p}]

RefreshProposals ==
  /\ ~desk.composing /\ desk.selected = NoRow
  /\ Cardinality(desk.posts) < MaxPosts
  /\ DeskSends(List("refresh"), desk)
  /\ UNCHANGED <<tabVars, proposals, reviewed>>

\* A write that succeeded: the list is read before anything closes.
Succeeded(p) ==
  /\ p.op # "list" /\ p.live /\ p.stage = "answered"
  /\ DeskSends(List(p.op), Without(p))
  /\ UNCHANGED <<tabVars, proposals, reviewed>>

\* The screen after a list that came, or did not.
ThenClose(p, d) ==
  CASE p.after \in {"nothing", "refresh"} -> d
    [] p.after = "propose" -> SeedUsed(Finished([d EXCEPT !.composing = FALSE]))
    [] OTHER -> Finished(Show(d, NoRow))

ShowProposals(p) ==
  /\ p.op = "list" /\ p.live /\ p.stage = "answered"
  /\ desk' = ThenClose(p, [Without(p) EXCEPT !.shown = p.shown])
  /\ UNCHANGED <<tabVars, proposals, reviewed>>

\* A failed approval, or the failed list after one, reads the list before the dialog closes;
\* a proposal that failed leaves the composer open.
Fails(p) ==
  LET rest == [desk EXCEPT !.posts = (@ \ {p}) \union
                 (IF p.op # "list" /\ p.stage = "sent" THEN {[p EXCEPT !.live = FALSE]} ELSE {})] IN
  CASE p.op = "approve" \/ p.after = "approve" -> DeskSends(List("failure"), rest)
    [] p.after = "failure" -> desk' = Finished(Show(rest, NoRow))
    [] p.op = "propose" \/ p.after = "propose" -> desk' = Finished(rest)
    [] OTHER -> desk' = rest

DeskRefused(p) ==
  /\ p.live /\ p.stage = "refused"
  /\ Fails(p)
  /\ UNCHANGED <<tabVars, proposals, reviewed>>

DeskTimesOut(p) ==
  /\ p.live
  /\ faults < MaxFaults
  /\ faults' = faults + 1
  /\ Fails(p)
  /\ UNCHANGED <<server, view, sources, loaded, calls, switches, proposals, reviewed>>

DeskNext ==
  \/ OpenComposer \/ CloseComposer \/ CloseReview \/ Confirm \/ Approve \/ RefreshProposals
  \/ \E text \in Texts : CreateProposal(text)
  \/ \E row \in RowsShown : Review(row)
  \/ \E p \in desk.posts :
       \/ ServeDesk(p) \/ ServePropose(p) \/ Succeeded(p) \/ ShowProposals(p)
       \/ DeskRefused(p) \/ DeskTimesOut(p)
       \/ \E outcome \in Statuses : ServeApprove(p, outcome)

(***************************************************************************)
(* Properties.                                                             *)
(***************************************************************************)
\* The draft of a task brief becomes one proposal, however often it is submitted again after
\* an answer that was lost (createProposal, idempotencyKeyFor).
SeededDraftIsOneProposal ==
  \A i, j \in DOMAIN proposals :
    proposals[i].brief /\ proposals[j].brief /\ proposals[i].text = proposals[j].text
    => i = j

\* Nothing leaves for the provider whose exact payload the owner did not tick as reviewed,
\* although dialogs close and open while approvals are under way (approve, ApprovalModal).
NothingUnreviewed ==
  \A i \in DOMAIN proposals : proposals[i].status # "proposed" => i \in reviewed
=============================================================================
