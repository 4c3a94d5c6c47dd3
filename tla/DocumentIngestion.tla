------------------------- MODULE DocumentIngestion -------------------------
(***************************************************************************)
(* Document intake in one workspace: uploads that hash a file, store one   *)
(* row per content and hand it to HydraDB, and status polls that copy      *)
(* HydraDB's indexing state into the row.                                  *)
(*                                                                         *)
(* One action is one database statement or one HydraDB round trip.         *)
(* HydraDB answers late, or never (the client gives up after 20 s, whether *)
(* or not the request was accepted), and a handler may die between steps.  *)
(***************************************************************************)
EXTENDS FiniteSets, StatementFates

CONSTANTS
  Uploads,          \* POST /api/documents requests
  Polls,            \* GET /api/documents/[id]/status requests
  Files,            \* file contents; a content hash names the content
  Accepted,         \* contents detectFileType lets through
  MayOmitStatus,    \* HydraDB may answer a poll without an indexing_status
  NoUpload

ASSUME FilesAssumption ==
  /\ Accepted \subseteq Files
  /\ NoUpload \notin Uploads
  /\ MayOmitStatus \in BOOLEAN

VARIABLES
  account,    \* the workspace has a hydradb_accounts row
  file,       \* the content each upload sends
  uploading,  \* control state of each upload
  sawAccount, \* what each upload's account lookup returned
  ingest,     \* what became of each upload's ingest call
  document,   \* documents, by its UNIQUE(workspace_id, content_hash)
  trail,      \* stages in document_ingestion_runs, per content
  source,     \* HydraDB's state of each content's source
  polled,     \* the document each poll asks about
  polling,    \* control state of each poll
  seen,       \* documents.stage as each poll selected it
  observed    \* the stage each poll derived from HydraDB's answer

uploadVars == <<file, uploading, sawAccount, ingest>>
pollVars == <<polled, polling, seen, observed>>
vars == <<account, uploadVars, document, trail, source, pollVars>>

UploadReplies == {"rejected", "duplicate", "stored", "processing", "failed",
                  "serverError", "crashed"}
UploadStates == {"idle", "lookup", "repeat", "account", "insert", "receipts", "begin",
                 "send", "await", "accepted", "refuse", "fail", "processed"}
                \union UploadReplies
PollReplies == {"notFound", "neverAccepted", "unavailable", "answered",
                "serverError", "crashed"}
PollStates == {"idle", "ask", "write", "receipt"} \union PollReplies
Stages == {"validated", "uploading", "processing", "indexed", "failed"}
TrailStages == {"received", "hashed", "duplicate"} \union Stages
SourceStates == {"none", "processing", "completed", "errored"}
Document == [stage : Stages \union {"absent"}, source : BOOLEAN,
             owner : Uploads \union {NoUpload}]

TypeOK ==
  /\ account \in BOOLEAN
  /\ file \in [Uploads -> Files]
  /\ uploading \in [Uploads -> UploadStates]
  /\ sawAccount \in [Uploads -> BOOLEAN]
  /\ ingest \in [Uploads -> {"unsent", "sent", "accepted", "rejected"}]
  /\ document \in [Files -> Document]
  /\ trail \in [Files -> SUBSET TrailStages]
  /\ source \in [Files -> SourceStates]
  /\ polled \in [Polls -> Files]
  /\ polling \in [Polls -> PollStates]
  /\ seen \in [Polls -> Stages]
  /\ observed \in [Polls -> Stages]

Init ==
  /\ account \in BOOLEAN
  /\ file \in [Uploads -> Files]
  /\ uploading = [u \in Uploads |-> "idle"]
  /\ sawAccount = [u \in Uploads |-> FALSE]
  /\ ingest = [u \in Uploads |-> "unsent"]
  /\ document = [f \in Files |->
                  [stage |-> "absent", source |-> FALSE, owner |-> NoUpload]]
  /\ trail = [f \in Files |-> {}]
  /\ source = [f \in Files |-> "none"]
  /\ polled \in [Polls -> Files]
  /\ polling = [p \in Polls |-> "idle"]
  /\ seen = [p \in Polls |-> "validated"]
  /\ observed = [p \in Polls |-> "validated"]

Stored(f) == document[f].stage # "absent"

Moves(u, from, to) ==
  /\ uploading[u] = from
  /\ uploading' = [uploading EXCEPT ![u] = to]

PollMoves(p, from, to) ==
  /\ polling[p] = from
  /\ polling' = [polling EXCEPT ![p] = to]

\* recordStage: one INSERT into document_ingestion_runs.
RecordStage(u, o, stage) ==
  trail' = IF Applied(o) THEN [trail EXCEPT ![file[u]] = @ \union {stage}] ELSE trail

(***************************************************************************)
(* POST /api/documents.                                                    *)
(***************************************************************************)
\* The bytes are checked before anything is stored.
Detect(u) ==
  /\ Moves(u, "idle", IF file[u] \in Accepted THEN "lookup" ELSE "rejected")
  /\ UNCHANGED <<account, file, sawAccount, ingest, document, trail, source, pollVars>>

\* SELECT by content hash, whatever the stage of the row it finds.
LookupDocument(u) ==
  /\ Moves(u, "lookup", IF Stored(file[u]) THEN "repeat" ELSE "account")
  /\ UNCHANGED <<account, file, sawAccount, ingest, document, trail, source, pollVars>>

ReturnDuplicate(u, o) ==
  /\ Moves(u, "repeat", Resume(o, "duplicate"))
  /\ RecordStage(u, o, "duplicate")
  /\ UNCHANGED <<account, file, sawAccount, ingest, document, source, pollVars>>

ReadAccount(u) ==
  /\ Moves(u, "account", "insert")
  /\ sawAccount' = [sawAccount EXCEPT ![u] = account]
  /\ UNCHANGED <<account, file, ingest, document, trail, source, pollVars>>

NewDocument(u) ==
  [stage |-> IF sawAccount[u] THEN "uploading" ELSE "validated",
   source |-> FALSE, owner |-> u]

\* Mutant: no UNIQUE(workspace_id, content_hash) behind the lookup.
InsertDocumentUnindexed(u, o) ==
  /\ Moves(u, "insert", Resume(o, "receipts"))
  /\ document' = IF Applied(o)
       THEN [document EXCEPT ![file[u]] = NewDocument(u)] ELSE document
  /\ UNCHANGED <<account, file, sawAccount, ingest, trail, source, pollVars>>

\* The INSERT.  The index refuses it when another upload of the content got there first.
InsertDocument(u, o) ==
  LET inserts == Applied(o) /\ ~ Stored(file[u]) IN
  /\ Moves(u, "insert", IF inserts THEN Resume(o, "receipts") ELSE "serverError")
  /\ document' = IF inserts
       THEN [document EXCEPT ![file[u]] = NewDocument(u)] ELSE document
  /\ UNCHANGED <<account, file, sawAccount, ingest, trail, source, pollVars>>

\* received, validated, hashed and the audit row, in order; any of them may throw.
RecordReceipts(u) ==
  /\ \/ \E written \in {{}, {"received"}, {"received", "validated"},
                        {"received", "validated", "hashed"}} :
          /\ Moves(u, "receipts", "serverError")
          /\ trail' = [trail EXCEPT ![file[u]] = @ \union written]
     \/ /\ Moves(u, "receipts", IF sawAccount[u] THEN "begin" ELSE "stored")
        /\ trail' = [trail EXCEPT ![file[u]] = @ \union {"received", "validated", "hashed"}]
  /\ UNCHANGED <<account, file, sawAccount, ingest, document, source, pollVars>>

\* recordStage('uploading'), then the client, whose credential may not decrypt.
BeginUpload(u, o) ==
  /\ \/ Moves(u, "begin", Resume(o, "send"))
     \/ Moves(u, "begin", "serverError")
  /\ RecordStage(u, o, "uploading")
  /\ UNCHANGED <<account, file, sawAccount, ingest, document, source, pollVars>>

SendIngest(u) ==
  /\ Moves(u, "send", "await")
  /\ ingest' = [ingest EXCEPT ![u] = "sent"]
  /\ UNCHANGED <<account, file, sawAccount, document, trail, source, pollVars>>

\* HydraDB queues the file or rejects it, even when the uploader has given up.
HydraIngests(u) ==
  /\ ingest[u] = "sent"
  /\ \/ /\ ingest' = [ingest EXCEPT ![u] = "accepted"]
        /\ source' = [source EXCEPT ![file[u]] = "processing"]
     \/ /\ ingest' = [ingest EXCEPT ![u] = "rejected"]
        /\ UNCHANGED source
  /\ UNCHANGED <<account, file, uploading, sawAccount, document, trail, pollVars>>

\* The answer carries a source id.
IngestAccepted(u) ==
  /\ ingest[u] = "accepted"
  /\ Moves(u, "await", "accepted")
  /\ UNCHANGED <<account, file, sawAccount, ingest, document, trail, source, pollVars>>

\* An error status, a transport error, the 20 s timeout, or a 202 without a source id.
IngestFailed(u) ==
  /\ Moves(u, "await", "refuse")
  /\ UNCHANGED <<account, file, sawAccount, ingest, document, trail, source, pollVars>>

RecordRefusal(u, o) ==
  /\ Moves(u, "refuse", Resume(o, "fail"))
  /\ RecordStage(u, o, "failed")
  /\ UNCHANGED <<account, file, sawAccount, ingest, document, source, pollVars>>

\* The UPDATEs name the row by the id this request inserted.
SetDocument(u, o, row) ==
  document' = IF Applied(o) /\ document[file[u]].owner = u
              THEN [document EXCEPT ![file[u]] = row] ELSE document

MarkFailed(u, o) ==
  /\ Moves(u, "fail", Resume(o, "failed"))
  /\ SetDocument(u, o, [document[file[u]] EXCEPT !.stage = "failed"])
  /\ UNCHANGED <<account, file, sawAccount, ingest, trail, source, pollVars>>

\* Mutant: the 202 of the ingest call is taken for the end of indexing.
MarkIndexed(u, o) ==
  /\ Moves(u, "accepted", Resume(o, "processed"))
  /\ SetDocument(u, o, [document[file[u]] EXCEPT !.stage = "indexed", !.source = TRUE])
  /\ UNCHANGED <<account, file, sawAccount, ingest, trail, source, pollVars>>

MarkProcessing(u, o) ==
  /\ Moves(u, "accepted", Resume(o, "processed"))
  /\ SetDocument(u, o, [document[file[u]] EXCEPT !.stage = "processing", !.source = TRUE])
  /\ UNCHANGED <<account, file, sawAccount, ingest, trail, source, pollVars>>

RecordProcessing(u, o) ==
  /\ Moves(u, "processed", Resume(o, "processing"))
  /\ RecordStage(u, o, "processing")
  /\ UNCHANGED <<account, file, sawAccount, ingest, document, source, pollVars>>

CrashUpload(u) ==
  /\ uploading[u] \notin UploadReplies \union {"idle"}
  /\ uploading' = [uploading EXCEPT ![u] = "crashed"]
  /\ UNCHANGED <<account, file, sawAccount, ingest, document, trail, source, pollVars>>

(***************************************************************************)
(* GET /api/documents/[id]/status.                                         *)
(***************************************************************************)
\* Mutant: a document without a source id is polled all the same.
SelectDocumentSourceless(p) ==
  /\ PollMoves(p, "idle", IF Stored(polled[p]) THEN "ask" ELSE "notFound")
  /\ seen' = IF Stored(polled[p])
             THEN [seen EXCEPT ![p] = document[polled[p]].stage] ELSE seen
  /\ UNCHANGED <<account, uploadVars, document, trail, source, polled, observed>>

\* The SELECT.  The stage it returns is compared with HydraDB's answer later.
SelectDocument(p) ==
  /\ PollMoves(p, "idle",
       IF ~ Stored(polled[p]) THEN "notFound"
       ELSE IF ~ document[polled[p]].source THEN "neverAccepted" ELSE "ask")
  /\ seen' = IF Stored(polled[p])
             THEN [seen EXCEPT ![p] = document[polled[p]].stage] ELSE seen
  /\ UNCHANGED <<account, uploadVars, document, trail, source, polled, observed>>

\* indexing_status as a stage; every status but the two terminal ones is 'processing'.
StageReported(s) ==
  IF s = "completed" THEN "indexed"
  ELSE IF s = "errored" THEN "failed" ELSE "processing"

\* contextStatus: HydraDB's state of the source at this moment, an answer without an
\* indexing_status, or none.
AskStatus(p) ==
  /\ \/ /\ PollMoves(p, "ask", "unavailable")
        /\ UNCHANGED observed
     \/ \E s \in {source[polled[p]]} \union (IF MayOmitStatus THEN {"omitted"} ELSE {}) :
          /\ PollMoves(p, "ask",
               IF StageReported(s) = seen[p] THEN "answered" ELSE "write")
          /\ observed' = [observed EXCEPT ![p] = StageReported(s)]
  /\ UNCHANGED <<account, uploadVars, document, trail, source, polled, seen>>

WriteStage(p, o) ==
  /\ PollMoves(p, "write", Resume(o, "receipt"))
  /\ document' = IF Applied(o)
       THEN [document EXCEPT ![polled[p]].stage = observed[p]] ELSE document
  /\ UNCHANGED <<account, uploadVars, trail, source, polled, seen, observed>>

RecordPoll(p, o) ==
  /\ PollMoves(p, "receipt", Resume(o, "answered"))
  /\ trail' = IF Applied(o)
       THEN [trail EXCEPT ![polled[p]] = @ \union {observed[p]}] ELSE trail
  /\ UNCHANGED <<account, uploadVars, document, source, polled, seen, observed>>

CrashPoll(p) ==
  /\ polling[p] \notin PollReplies \union {"idle"}
  /\ polling' = [polling EXCEPT ![p] = "crashed"]
  /\ UNCHANGED <<account, uploadVars, document, trail, source, polled, seen, observed>>

(***************************************************************************)
(* The environment.                                                        *)
(***************************************************************************)
\* POST /api/hydradb/configure stores the workspace's credential.
AttachAccount ==
  /\ ~ account
  /\ account' = TRUE
  /\ UNCHANGED <<uploadVars, document, trail, source, pollVars>>

\* HydraDB finishes indexing; a terminal state is final.
HydraIndexes(f) ==
  /\ source[f] = "processing"
  /\ \E s \in {"completed", "errored"} : source' = [source EXCEPT ![f] = s]
  /\ UNCHANGED <<account, uploadVars, document, trail, pollVars>>

Upload(u) ==
  \/ Detect(u) \/ LookupDocument(u) \/ ReadAccount(u) \/ RecordReceipts(u) \/ SendIngest(u)
  \/ IngestAccepted(u) \/ IngestFailed(u)
  \/ \E o \in Outcomes :
       \/ ReturnDuplicate(u, o) \/ InsertDocument(u, o) \/ BeginUpload(u, o)
       \/ RecordRefusal(u, o) \/ MarkFailed(u, o)
       \/ MarkProcessing(u, o) \/ RecordProcessing(u, o)

Poll(p) ==
  \/ SelectDocument(p) \/ AskStatus(p)
  \/ \E o \in Outcomes : WriteStage(p, o) \/ RecordPoll(p, o)

Next ==
  \/ \E u \in Uploads : Upload(u) \/ HydraIngests(u) \/ CrashUpload(u)
  \/ \E p \in Polls : Poll(p) \/ CrashPoll(p)
  \/ \E f \in Files : HydraIndexes(f)
  \/ AttachAccount

Spec == Init /\ [][Next]_vars

(***************************************************************************)
(* Properties.                                                             *)
(***************************************************************************)
\* A content is handed to HydraDB at most once, however many uploads of it race or
\* follow a crash, so HydraDB never holds two sources for one document.
OneIngestPerContent ==
  \A u, v \in Uploads :
    ingest[u] # "unsent" /\ ingest[v] # "unsent" /\ file[u] = file[v] => u = v

\* A document is 'indexed' only when HydraDB finished the very source the row names,
\* whichever of several polls wrote last ("never advanced optimistically").
IndexedIsReal ==
  \A f \in Files :
    document[f].stage = "indexed" =>
      /\ document[f].source
      /\ source[f] = "completed"

\* "Stages describe operations that genuinely happened": each receipt in
\* document_ingestion_runs is backed by what HydraDB and the row went through.
TrailIsTrue ==
  \A f \in Files :
    /\ "uploading" \in trail[f] => account
    /\ "processing" \in trail[f] => document[f].source
    /\ "indexed" \in trail[f] => source[f] = "completed"
    /\ "failed" \in trail[f] => document[f].stage # "indexed"

\* What the database says of a file, in its row and in its receipts, is what happened to it,
\* whichever upload or poll wrote last and whichever answer was lost.
StagesAreReal == TypeOK /\ IndexedIsReal /\ TrailIsTrue

\* Once queryable, a document stays so: no poll that selected an older stage, and no
\* upload of the same content, takes 'indexed' back.
IndexedStays ==
  [][\A f \in Files :
       document[f].stage = "indexed" => document'[f].stage = "indexed"]_vars

(***************************************************************************)
(* What the repository says and the code does not keep.  No run checks it: *)
(* README.md tells how each comes to be broken.                            *)
(***************************************************************************)
\* documents/route.ts:193 tells the owner of a stored document to "configure a HydraDB
\* credential for this workspace to make it retrievable"; an upload of the file after
\* that is answered with the stored row, and nothing else ever ingests it.
RetrievableOnceConfigured ==
  [][\A u \in Uploads :
       uploading[u] = "repeat" /\ uploading'[u] = "duplicate" /\ account =>
         document[file[u]].stage # "validated"]_vars
=============================================================================
