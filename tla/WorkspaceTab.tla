---------------------------- MODULE WorkspaceTab ----------------------------
(***************************************************************************)
(* One browser tab of QueueProof around whatever screen it shows: the view *)
(* it was rendered with, the sources it lists, and its requests, which the *)
(* server answers from the session the browser has when they arrive.       *)
(*                                                                         *)
(* The session belongs to the browser: another tab signs in and out of it. *)
(* An answer may come late, after a later one, or never; every request     *)
(* gives up after its time limit, whether or not the server acts on it.    *)
(***************************************************************************)
EXTENDS Naturals, FiniteSets

CONSTANTS
  Accounts,
  Nobody,        \* the session of a visitor: the public sandbox, if there is one
  Refs,          \* HydraDB connectors the attached key can read
  Proven,        \* those that are data_verified once a workspace has them
  MaxSwitches,   \* bound: sign-ins and sign-outs elsewhere
  MaxFaults,     \* bound: requests that fail or run out of time
  MaxPosts       \* bound: requests of a screen under way when its user sends another

ASSUME TabAssumption ==
  /\ Nobody \notin Accounts
  /\ Proven \subseteq Refs
  /\ MaxSwitches \in Nat /\ MaxFaults \in Nat /\ MaxPosts \in Nat

Sessions == Accounts \union {Nobody}

VARIABLES
  session,    \* the cookies the browser sends
  owned,      \* server: the sessions that have a workspace
  adopted,    \* server: the connectors of each workspace
  view,       \* the view on screen
  sources,    \* the connectors on screen, and whose they are
  loaded,     \* connectorsLoaded
  calls,      \* requests under way
  switches, faults

server == <<session, owned, adopted>>
bounds == <<switches, faults>>
tabVars == <<server, view, sources, loaded, calls, bounds>>

Kinds == {"ready", "no_workspace", "sign_in_required", "failed"}
Ops == {"view", "effect", "list", "create"}
Answers == [stage : {"sent", "answered", "refused"}, view : [kind : Kinds, who : Sessions],
            refs : SUBSET Refs]
TabCalls == [op : Ops, live : BOOLEAN, answer : Answers]

TabTypeOK ==
  /\ session \in Sessions
  /\ owned \subseteq Sessions
  /\ adopted \in [Sessions -> SUBSET Refs]
  /\ view \in [kind : Kinds, who : Sessions]
  /\ sources \in [who : Sessions, refs : SUBSET Refs]
  /\ loaded \in BOOLEAN
  /\ calls \subseteq TabCalls
  /\ switches \in 0 .. MaxSwitches
  /\ faults \in 0 .. MaxFaults

\* loadWorkspaceView.
ViewOf(s) ==
  [kind |-> IF s \in owned THEN "ready"
            ELSE IF s = Nobody THEN "sign_in_required" ELSE "no_workspace",
   who |-> s]

Failed == [kind |-> "failed", who |-> Nobody]
Ready(v) == v.kind = "ready"
ReadOnly(v) == v.who = Nobody

\* viewAuthenticated.
Authenticated(v) == v.kind = "no_workspace" \/ (Ready(v) /\ ~ReadOnly(v))

Request(op) ==
  [op |-> op, live |-> TRUE, answer |-> [stage |-> "sent", view |-> Failed, refs |-> {}]]

\* The page is rendered for a session, or its rendering failed.
TabInit ==
  /\ session \in Sessions
  /\ owned \in SUBSET Sessions
  /\ adopted \in {[s \in Sessions |-> IF s \in owned \intersect full THEN Proven ELSE {}]
               : full \in SUBSET Sessions}
  /\ view \in {ViewOf(session), Failed}
  /\ sources = [who |-> view.who, refs |-> IF Ready(view) THEN adopted[view.who] ELSE {}]
  /\ loaded = Ready(view)
  /\ calls = IF Ready(view) THEN {Request("effect")} ELSE {}
  /\ switches = 0 /\ faults = 0

(***************************************************************************)
(* The browser and the server.                                             *)
(***************************************************************************)
Switch(s) ==
  /\ switches < MaxSwitches
  /\ s # session
  /\ session' = s
  /\ switches' = switches + 1
  /\ UNCHANGED <<owned, adopted, view, sources, loaded, calls, faults>>

\* The routes the shell asks: GET /api/workspace, GET /api/connectors, POST /api/workspace.
AnswerTo(c) ==
  CASE c.op = "view" -> [stage |-> "answered", view |-> ViewOf(session), refs |-> {}]
    [] c.op = "create" ->
         [stage |-> IF session \in Accounts \ owned THEN "answered" ELSE "refused",
          view |-> ViewOf(session), refs |-> {}]
    [] OTHER ->
         [stage |-> IF session \in owned THEN "answered" ELSE "refused",
          view |-> ViewOf(session), refs |-> adopted[session]]

\* A request whose tab no longer waits is still served, and its answer falls on nobody.
ServeTab(c) ==
  /\ c.answer.stage = "sent"
  /\ calls' = (calls \ {c}) \union
              (IF c.live THEN {[c EXCEPT !.answer = AnswerTo(c)]} ELSE {})
  /\ owned' = IF c.op = "create" /\ session \in Accounts THEN owned \union {session} ELSE owned
  /\ UNCHANGED <<session, adopted, view, sources, loaded, bounds>>

(***************************************************************************)
(* What the tab sends.                                                     *)
(***************************************************************************)
\* Mutant: only a sign-in is looked for.
ReconcileSignIn ==
  /\ session # Nobody /\ ~Authenticated(view)
  /\ calls' = calls \union {Request("view")}
  /\ UNCHANGED <<server, view, sources, loaded, bounds>>

\* An auth event, pageshow or visibilitychange, with the claims it reads.
Reconcile ==
  /\ (session # Nobody) # Authenticated(view)
  /\ calls' = calls \union {Request("view")}
  /\ UNCHANGED <<server, view, sources, loaded, bounds>>

RetryBoot ==
  /\ view.kind = "failed"
  /\ calls' = calls \union {Request("view")}
  /\ UNCHANGED <<server, view, sources, loaded, bounds>>

\* WorkspaceSetup.
CreateWorkspace ==
  /\ view.kind = "no_workspace"
  /\ ~\E c \in calls : c.op = "create" /\ c.live
  /\ calls' = calls \union {Request("create")}
  /\ UNCHANGED <<server, view, sources, loaded, bounds>>

(***************************************************************************)
(* What it does with the answers.                                          *)
(***************************************************************************)
Workspace(v) == IF Ready(v) THEN {v.who} ELSE {}

\* The effect on workspaceId: a change of it stops the effect's request and sends another.
Effects(cs, v) ==
  IF Workspace(v) = Workspace(view) THEN cs
  ELSE {c \in cs : c.op # "effect"} \union
       (IF Ready(v) THEN {Request("effect")} ELSE {})

\* reloadWorkspace.
ShowView(c) ==
  /\ c.op = "view" /\ c.answer.stage = "answered"
  /\ view' = c.answer.view
  /\ calls' = Effects(calls \ {c}, c.answer.view)
  /\ UNCHANGED <<server, sources, loaded, bounds>>

WorkspaceCreated(c) ==
  /\ c.op = "create" /\ c.answer.stage = "answered"
  /\ calls' = (calls \ {c}) \union {Request("view")}
  /\ UNCHANGED <<server, view, sources, loaded, bounds>>

Listed(c) ==
  /\ c.op \in {"effect", "list"} /\ c.answer.stage = "answered"
  /\ sources' = [who |-> c.answer.view.who, refs |-> c.answer.refs]
  /\ loaded' = TRUE
  /\ calls' = calls \ {c}
  /\ UNCHANGED <<server, view, bounds>>

\* Every failure leaves the data on screen; the effect's also ends the loading state.
Rejected(c) ==
  /\ loaded' = (loaded \/ c.op = "effect")
  /\ UNCHANGED <<server, view, sources>>

Refused(c) ==
  /\ c.answer.stage = "refused"
  /\ calls' = calls \ {c}
  /\ Rejected(c)
  /\ UNCHANGED bounds

\* api gives up; a write may still reach the server.
TimeOut(c) ==
  /\ c.live
  /\ faults < MaxFaults
  /\ faults' = faults + 1
  /\ calls' = (calls \ {c}) \union
              (IF c.op = "create" /\ c.answer.stage = "sent"
               THEN {[c EXCEPT !.live = FALSE]} ELSE {})
  /\ Rejected(c)
  /\ UNCHANGED switches

Deliver(c) == ShowView(c) \/ WorkspaceCreated(c) \/ (c.op = "effect" /\ Listed(c))
              \/ (c.op # "list" /\ Refused(c))

\* "list" is answered to the screen that awaits it.
TabNext ==
  \/ \E s \in Sessions : Switch(s)
  \/ \E c \in calls : ServeTab(c) \/ Deliver(c) \/ (c.op # "list" /\ TimeOut(c))
  \/ Reconcile \/ RetryBoot \/ CreateWorkspace

=============================================================================
