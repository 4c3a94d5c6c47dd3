---------------------------- MODULE ImportDialog ----------------------------
(***************************************************************************)
(* The dialog of the Sources screen that adopts connectors the attached    *)
(* HydraDB account already has: it lists them, posts the chosen ones,      *)
(* refreshes the sources behind it and only then closes.                   *)
(***************************************************************************)
EXTENDS WorkspaceTab

VARIABLE dialog   \* the dialog, with its requests and whom its import was for

Phases == {"closed", "loading", "open", "failed", "submitting", "refreshing"}

DialogCalls ==
  [op : {"available", "import"}, refs : SUBSET Refs, live : BOOLEAN,
   stage : {"sent", "answered", "refused"}, of : Sessions]

DialogTypeOK ==
  dialog \in [phase : Phases, offered : SUBSET Refs, picked : SUBSET Refs, pending : BOOLEAN,
             of : Sessions, posts : SUBSET DialogCalls]

Sent(op, refs) ==
  [op |-> op, refs |-> refs, live |-> TRUE, stage |-> "sent", of |-> Nobody]

Closed(posts) ==
  [phase |-> "closed", offered |-> {}, picked |-> {}, pending |-> FALSE, of |-> Nobody,
   posts |-> posts]

\* Leaving the screen does not stop an import that was sent.
DialogUnmounted ==
  Closed({[p EXCEPT !.live = FALSE] : p \in {p \in dialog.posts : p.op = "import" /\ p.stage = "sent"}})

(***************************************************************************)
(* The server.                                                             *)
(***************************************************************************)
Owner == session # Nobody /\ session \in owned

\* GET /api/hydradb/connectors, less what is imported already.
ServeAvailable(p) ==
  /\ p.op = "available" /\ p.stage = "sent"
  /\ dialog' = [dialog EXCEPT !.posts = (@ \ {p}) \union
       {[p EXCEPT !.stage = IF Owner THEN "answered" ELSE "refused",
                  !.refs = IF Owner THEN Refs \ adopted[session] ELSE {}]}]
  /\ UNCHANGED tabVars

\* POST /api/hydradb/connectors: one INSERT OR IGNORE per chosen reference, in one batch.
ServeImport(p) ==
  /\ p.op = "import" /\ p.stage = "sent"
  /\ adopted' = IF Owner THEN [adopted EXCEPT ![session] = @ \union p.refs] ELSE adopted
  /\ dialog' = [dialog EXCEPT !.posts = (@ \ {p}) \union
       (IF p.live THEN {[p EXCEPT !.stage = IF Owner THEN "answered" ELSE "refused",
                                  !.of = session]} ELSE {})]
  /\ UNCHANGED <<session, owned, view, sources, loaded, calls, bounds>>

(***************************************************************************)
(* The dialog.                                                             *)
(***************************************************************************)
Load ==
  dialog' = [dialog EXCEPT !.phase = "loading", !.pending = FALSE,
                           !.posts = @ \union {Sent("available", {})}]

\* The owner opens it, or closes it unless it is busy.  Bound: it is not opened while the
\* refresh awaited by one that left the screen is under way.
Open ==
  /\ Ready(view) /\ ~ReadOnly(view)
  /\ dialog.phase = "closed"
  /\ ~\E c \in calls : c.op = "list"
  /\ Load
  /\ UNCHANGED tabVars

Close ==
  /\ dialog.phase \notin {"closed", "submitting", "refreshing"}
  /\ dialog' = Closed({p \in dialog.posts : ~p.live})
  /\ UNCHANGED tabVars

Offer(p) ==
  /\ p.op = "available" /\ p.stage = "answered"
  /\ dialog' = [dialog EXCEPT !.phase = "open", !.offered = p.refs, !.picked = {},
                              !.posts = @ \ {p}]
  /\ UNCHANGED tabVars

PickRefs(refs) ==
  /\ dialog.phase = "open"
  /\ refs \subseteq dialog.offered
  /\ dialog' = [dialog EXCEPT !.picked = refs]
  /\ UNCHANGED tabVars

\* importSelected: the button only asks for a selection and an idle dialog.
Import ==
  /\ dialog.phase \in {"open", "failed"}
  /\ dialog.picked # {}
  /\ dialog' = [dialog EXCEPT !.phase = "submitting",
                              !.posts = @ \union {Sent("import", dialog.picked)}]
  /\ UNCHANGED tabVars

\* Mutant: the dialog does not wait for the sources behind it.
ImportedUnawaited(p) ==
  /\ p.op = "import" /\ p.live /\ p.stage = "answered"
  /\ dialog' = Closed(dialog.posts \ {p})
  /\ calls' = calls \union {Request("list")}
  /\ UNCHANGED <<server, view, sources, loaded, bounds>>

\* onImported awaits reloadConnectors.
Imported(p) ==
  /\ p.op = "import" /\ p.live /\ p.stage = "answered"
  /\ dialog' = [dialog EXCEPT !.phase = "refreshing", !.pending = TRUE, !.of = p.of,
                              !.posts = @ \ {p}]
  /\ calls' = calls \union {Request("list")}
  /\ UNCHANGED <<server, view, sources, loaded, bounds>>

Refreshed(c) ==
  /\ c.op = "list" /\ Listed(c)
  /\ dialog' = IF dialog.phase = "refreshing" THEN Closed(dialog.posts) ELSE dialog

NotRefreshed(c) ==
  /\ c.op = "list" /\ (Refused(c) \/ TimeOut(c))
  /\ dialog' = [dialog EXCEPT !.phase = IF @ = "refreshing" THEN "failed" ELSE @]

\* recoverFromError: once an import was answered, only the sources are read again.
Recover ==
  /\ dialog.phase = "failed"
  /\ IF dialog.pending
     THEN /\ dialog' = [dialog EXCEPT !.phase = "refreshing"]
          /\ calls' = calls \union {Request("list")}
     ELSE Load /\ UNCHANGED calls
  /\ UNCHANGED <<server, view, sources, loaded, bounds>>

\* A list that cannot be read is emptied; what was selected in it stays selected.
FailsWith(p, rest) ==
  dialog' = [dialog EXCEPT !.phase = "failed",
                           !.offered = IF p.op = "available" THEN {} ELSE @,
                           !.posts = (@ \ {p}) \union rest]

DialogRefused(p) ==
  /\ p.stage = "refused"
  /\ FailsWith(p, {})
  /\ UNCHANGED tabVars

DialogTimesOut(p) ==
  /\ p.live
  /\ faults < MaxFaults
  /\ faults' = faults + 1
  /\ FailsWith(p, IF p.op = "import" /\ p.stage = "sent"
                  THEN {[p EXCEPT !.live = FALSE]} ELSE {})
  /\ UNCHANGED <<server, view, sources, loaded, calls, switches>>

DialogNext ==
  \/ Open \/ Close \/ Import \/ Recover
  \/ \E refs \in SUBSET Refs : PickRefs(refs)
  \/ \E c \in calls : Refreshed(c) \/ NotRefreshed(c)
  \/ \E p \in dialog.posts :
       \/ ServeAvailable(p) \/ ServeImport(p) \/ Offer(p) \/ Imported(p)
       \/ DialogRefused(p) \/ DialogTimesOut(p)

(***************************************************************************)
(* Property.                                                               *)
(***************************************************************************)
\* Whom an import that was answered was for.
ImportedFor ==
  {p.of : p \in {p \in dialog.posts : p.op = "import" /\ p.live /\ p.stage = "answered"}} \union
  (IF dialog.phase = "refreshing" THEN {dialog.of} ELSE {})

\* The dialog closes after an import only onto a list of sources that shows what it imported,
\* unless the browser has changed account meanwhile (onImported, importSelected).
ImportIsListed ==
  [][dialog'.phase = "closed" /\ Ready(view') /\ sources'.who \in ImportedFor
     => dialog.picked \subseteq sources'.refs]_<<tabVars, dialog>>
=============================================================================
