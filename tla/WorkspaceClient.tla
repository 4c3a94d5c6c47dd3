--------------------------- MODULE WorkspaceClient --------------------------
(***************************************************************************)
(* A tab with one of its screens: the question screen, the import dialog   *)
(* or the files of the Sources screen, the approvals screen, or one that   *)
(* keeps nothing.  Another route is another page, rendered anew; the two   *)
(* panels of Sources share nothing but the tab.                            *)
(***************************************************************************)
EXTENDS AskScreen, ImportDialog, DocumentsPanel, ApprovalsScreen

VARIABLE tab

Tabs == {"shell", "ask", "import", "documents", "approvals"}
screens == <<askVars, dialog, panelVars, deskVars>>
clientVars == <<tab, tabVars, screens>>

ClientTypeOK ==
  /\ tab \in Tabs
  /\ TabTypeOK
  /\ tab = "ask" => AskTypeOK
  /\ tab = "import" => DialogTypeOK
  /\ tab = "documents" => PanelTypeOK
  /\ tab = "approvals" => DeskTypeOK

\* The question screen hangs together: one question of its own under way at most, and no
\* answer but to the question above it, whatever links, stops and time limits come between.
AskIsCoherent == ClientTypeOK /\ AnswerMatchesQuestion /\ WaitsForOneAnswer

\* The ledger holds what the owner meant: a brief's draft once, though its answer is lost and
\* it is submitted again, and nothing sent whose payload was not ticked.
LedgerIsMeant == SeededDraftIsOneProposal /\ NothingUnreviewed

\* A screen that is not the tab's.
NoAsk == store = <<>> /\ ask = Blank(NoRun, {})
NoDialog == dialog = Closed({})
NoPanel == file = [stage |-> "none", finished |-> FALSE] /\ panel = [row |-> "none", posts |-> {}]
NoDesk == proposals = <<>> /\ reviewed = {} /\ desk = Fresh(FALSE, {})

\* Bounds: the tabs that show a screen start from a page that was rendered, in a browser whose
\* accounts have their workspaces; under the files and the approvals the shell stands still.
Still == tab \in {"documents", "approvals"}

ClientInit ==
  /\ tab \in Tabs
  /\ TabInit
  /\ tab # "shell" => Accounts \subseteq owned /\ view.kind # "failed"
  /\ Still => session \in Accounts /\ owned = Accounts /\ sources.refs = Proven
  /\ IF tab = "ask" THEN AskInit ELSE NoAsk
  /\ NoDialog
  /\ IF tab = "documents" THEN PanelInit ELSE NoPanel
  /\ IF tab = "approvals" THEN DeskInit ELSE NoDesk

(***************************************************************************)
(* The shell's steps; a screen is there exactly while the view is ready.   *)
(***************************************************************************)
Appears == ~Ready(view) /\ Ready(view')
Disappears == Ready(view) /\ ~Ready(view')

Screens ==
  /\ ask' = IF tab # "ask" THEN ask
            ELSE IF Appears THEN Mounted(ask.link)
            ELSE IF Disappears THEN Unmounted ELSE ask
  /\ dialog' = IF Disappears THEN DialogUnmounted ELSE dialog
  /\ UNCHANGED <<store, panelVars, deskVars>>

ShellStep == ~Still /\ TabNext /\ Screens /\ UNCHANGED tab

AskStep == tab = "ask" /\ AskNext /\ UNCHANGED <<tab, dialog, panelVars, deskVars>>
ImportStep == tab = "import" /\ DialogNext /\ UNCHANGED <<tab, askVars, panelVars, deskVars>>
FilesStep == tab = "documents" /\ PanelNext /\ UNCHANGED <<tab, askVars, dialog, deskVars>>
DeskStep == tab = "approvals" /\ DeskNext /\ UNCHANGED <<tab, askVars, dialog, panelVars>>

ClientNext == ShellStep \/ AskStep \/ ImportStep \/ FilesStep \/ DeskStep

(***************************************************************************)
(* Every request ends, by its answer or by its time limit; someone looks   *)
(* at the tab again and again; the panel's timer runs; HydraDB finishes.   *)
(***************************************************************************)
Shell(A) == ~Still /\ A /\ Screens /\ UNCHANGED tab
Files(A) == tab = "documents" /\ A /\ UNCHANGED <<tab, askVars, dialog, deskVars>>

Fairness ==
  /\ \A op \in Ops :
       /\ WF_clientVars(Shell(\E c \in calls : c.op = op /\ ServeTab(c)))
       /\ WF_clientVars(Shell(\E c \in calls : c.op = op /\ Deliver(c)))
  /\ WF_clientVars(Shell(Reconcile))
  /\ WF_clientVars(Files(HydraFinishes))
  /\ WF_clientVars(Files(PanelTick))
  /\ \A op \in {"list", "status", "upload"} :
       /\ WF_clientVars(Files(\E p \in panel.posts : p.op = op /\ PanelServe(p)))
       /\ WF_clientVars(Files(\E p \in panel.posts : p.op = op /\ PanelDeliver(p)))

ClientSpec == ClientInit /\ [][ClientNext]_clientVars /\ Fairness

\* A tab shows an account exactly if the browser is signed in to one, in the end, although
\* sign-ins and sign-outs happen in other tabs and answers to reloads come late or never
\* (the session listeners of QueueProofApp).
TabFollowsSession ==
  Still \/ <>[]((view.kind # "failed" \/ session # Nobody) => (Authenticated(view) <=> session # Nobody))
=============================================================================
