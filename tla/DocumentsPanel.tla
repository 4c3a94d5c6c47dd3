--------------------------- MODULE DocumentsPanel ---------------------------
(***************************************************************************)
(* The uploaded files of the Sources screen.  The server learns that a     *)
(* file is indexed only when it is asked for its status, so the panel asks *)
(* on a timer for every row it shows as processing, and reads the list     *)
(* again.  Lists may arrive in any order.  Bound: the panel is its         *)
(* owner's, who stays signed in.                                           *)
(***************************************************************************)
EXTENDS WorkspaceTab

VARIABLES
  file,    \* server: the file's stage, and whether HydraDB has finished with it
  panel    \* the row on screen, and the panel's requests

panelVars == <<file, panel>>
Stages == {"none", "processing", "indexed"}

PanelCalls ==
  [op : {"list", "status", "upload"}, live : BOOLEAN,
   stage : {"sent", "answered"}, row : Stages]

PanelTypeOK ==
  /\ file \in [stage : Stages, finished : BOOLEAN]
  /\ panel \in [row : Stages, posts : SUBSET PanelCalls]

ToServer(op) == [op |-> op, live |-> TRUE, stage |-> "sent", row |-> "none"]

\* Mounting reads the list; the row rendered with the page may be older.
PanelInit ==
  /\ file \in {[stage |-> s, finished |-> FALSE] : s \in {"none", "processing"}}
  /\ panel = [row |-> file.stage, posts |-> {ToServer("list")}]

(***************************************************************************)
(* HydraDB and the server.                                                 *)
(***************************************************************************)
HydraFinishes ==
  /\ file.stage = "processing" /\ ~file.finished
  /\ file' = [file EXCEPT !.finished = TRUE]
  /\ UNCHANGED <<tabVars, panel>>

PanelReply(p, row) ==
  panel' = [panel EXCEPT !.posts = (@ \ {p}) \union
             (IF p.live THEN {[p EXCEPT !.stage = "answered", !.row = row]} ELSE {})]

ServeList(p) ==
  /\ p.op = "list" /\ p.stage = "sent"
  /\ PanelReply(p, file.stage)
  /\ UNCHANGED <<tabVars, file>>

\* GET .../status asks HydraDB and stores what it says.
ServeStatus(p) ==
  /\ p.op = "status" /\ p.stage = "sent"
  /\ file' = IF file.finished THEN [file EXCEPT !.stage = "indexed"] ELSE file
  /\ PanelReply(p, "none")
  /\ UNCHANGED tabVars

\* POST /api/documents, of content that may be on the ledger already.
ServeUpload(p) ==
  /\ p.op = "upload" /\ p.stage = "sent"
  /\ file' = IF file.stage = "none" THEN [file EXCEPT !.stage = "processing"] ELSE file
  /\ PanelReply(p, "none")
  /\ UNCHANGED tabVars

(***************************************************************************)
(* The panel.                                                              *)
(***************************************************************************)
PanelSends(op) == panel' = [panel EXCEPT !.posts = @ \union {ToServer(op)}]
Waiting(op) == \E p \in panel.posts : p.op = op /\ p.live
Room == Cardinality(panel.posts) < MaxPosts

\* Mutant: the timer only reads the list again.
TickListing ==
  /\ panel.row = "processing" /\ ~Waiting("status")
  /\ PanelSends("list")
  /\ UNCHANGED <<tabVars, file>>

\* The timer, every ten seconds; the row's own Check button does the same.  Bound: one check
\* at a time.
PanelTick ==
  /\ panel.row = "processing" /\ ~Waiting("status")
  /\ PanelSends("status")
  /\ UNCHANGED <<tabVars, file>>

UploadFile ==
  /\ ~Waiting("upload") /\ Room
  /\ PanelSends("upload")
  /\ UNCHANGED <<tabVars, file>>

RefreshFiles ==
  /\ Room
  /\ PanelSends("list")
  /\ UNCHANGED <<tabVars, file>>

\* load.
ShowFiles(p) ==
  /\ p.op = "list" /\ p.stage = "answered"
  /\ panel' = [row |-> p.row, posts |-> panel.posts \ {p}]
  /\ UNCHANGED <<tabVars, file>>

\* A status or an upload that was answered is followed by load.
ThenList(p) ==
  /\ p.op # "list" /\ p.stage = "answered"
  /\ panel' = [panel EXCEPT !.posts = (@ \ {p}) \union {ToServer("list")}]
  /\ UNCHANGED <<tabVars, file>>

\* A refusal or a request that ran out of time; of the latter an upload may still be served.
PanelFails(p) ==
  /\ p.live
  /\ faults < MaxFaults
  /\ faults' = faults + 1
  /\ panel' = [panel EXCEPT !.posts = (@ \ {p}) \union
                 (IF p.op = "upload" /\ p.stage = "sent" THEN {[p EXCEPT !.live = FALSE]} ELSE {})]
  /\ UNCHANGED <<server, view, sources, loaded, calls, switches, file>>

PanelServe(p) == ServeList(p) \/ ServeStatus(p) \/ ServeUpload(p)
PanelDeliver(p) == ShowFiles(p) \/ ThenList(p)

PanelNext ==
  \/ HydraFinishes \/ PanelTick \/ UploadFile \/ RefreshFiles
  \/ \E p \in panel.posts : PanelServe(p) \/ PanelDeliver(p) \/ PanelFails(p)

(***************************************************************************)
(* Property.                                                               *)
(***************************************************************************)
\* A file is not shown as processing for ever, through failed checks and lists that arrive in
\* the wrong order, while its holder keeps looking (DocumentsPanel's timer).
ProcessingRowSettles ==
  (panel.row = "processing") ~> (panel.row # "processing")
=============================================================================
