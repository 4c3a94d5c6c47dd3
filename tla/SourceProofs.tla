---------------------------- MODULE SourceProofs ----------------------------
(***************************************************************************)
(* Machine-checked proofs about the two ways a workspace gets evidence:    *)
(* the files it uploads (DocumentIngestion, for any number of uploads,     *)
(* polls and file contents) and the connectors it links                    *)
(* (ConnectorLifecycle, for any number of requests and resources).  The    *)
(* two share no state; each theorem is about the specification of one.     *)
(***************************************************************************)
EXTENDS DocumentIngestion, ConnectorLifecycle, TLAPS

(***************************************************************************)
(* Documents: types.                                                       *)
(***************************************************************************)
LEMMA TypeInit == Init => TypeOK
  BY FilesAssumption
  DEF Init, TypeOK, UploadStates, UploadReplies, PollStates, PollReplies, Stages,
      Document, TrailStages, SourceStates

LEMMA TypeNext == TypeOK /\ [Next]_vars => TypeOK'
<1> SUFFICES ASSUME TypeOK, [Next]_vars PROVE TypeOK'
  OBVIOUS
<1> USE DEF TypeOK, uploadVars, pollVars, UploadStates, UploadReplies, PollStates,
      PollReplies, Stages, TrailStages, Moves, PollMoves, Resume, RecordStage
<1>1. ASSUME NEW u \in Uploads,
             Detect(u) \/ LookupDocument(u) \/ ReadAccount(u) \/ SendIngest(u)
               \/ IngestAccepted(u) \/ IngestFailed(u) \/ CrashUpload(u)
      PROVE TypeOK'
  BY <1>1 DEF Detect, LookupDocument, ReadAccount, SendIngest, IngestAccepted,
     IngestFailed, CrashUpload
<1>2. ASSUME NEW u \in Uploads, RecordReceipts(u) PROVE TypeOK'
  BY <1>2 DEF RecordReceipts
<1>3. ASSUME NEW u \in Uploads, NEW o \in Outcomes,
             ReturnDuplicate(u, o) \/ BeginUpload(u, o) \/ RecordRefusal(u, o)
               \/ RecordProcessing(u, o)
      PROVE TypeOK'
  BY <1>3 DEF ReturnDuplicate, BeginUpload, RecordRefusal, RecordProcessing
<1>4. ASSUME NEW u \in Uploads, NEW o \in Outcomes,
             InsertDocument(u, o) \/ MarkFailed(u, o) \/ MarkProcessing(u, o)
      PROVE TypeOK'
  <2>1. file[u] \in Files /\ document[file[u]] \in Document
    OBVIOUS
  <2>2. \A row \in Document : [document EXCEPT ![file[u]] = row] \in [Files -> Document]
    BY <2>1
  <2>3. /\ NewDocument(u) \in Document
        /\ [document[file[u]] EXCEPT !.stage = "failed"] \in Document
        /\ [document[file[u]] EXCEPT !.stage = "processing", !.source = TRUE] \in Document
    BY <2>1 DEF NewDocument, Document
  <2>4. document' \in [Files -> Document]
    BY <1>4, <2>2, <2>3 DEF InsertDocument, MarkFailed, MarkProcessing, SetDocument
  <2>5. uploading' \in [Uploads -> UploadStates]
    BY <1>4 DEF InsertDocument, MarkFailed, MarkProcessing
  <2>6. QED
    BY <1>4, <2>4, <2>5 DEF InsertDocument, MarkFailed, MarkProcessing
<1>5. ASSUME NEW u \in Uploads, HydraIngests(u) PROVE TypeOK'
  BY <1>5 DEF HydraIngests, SourceStates
<1>6. ASSUME NEW p \in Polls, SelectDocument(p) \/ AskStatus(p) \/ CrashPoll(p)
      PROVE TypeOK'
  <2>1. document[polled[p]] \in Document
    OBVIOUS
  <2>2. seen' \in [Polls -> Stages]
    BY <1>6, <2>1 DEF SelectDocument, AskStatus, CrashPoll, Stored, Document
  <2>3. polling' \in [Polls -> PollStates]
    BY <1>6 DEF SelectDocument, AskStatus, CrashPoll
  <2>4. observed' \in [Polls -> Stages]
    BY <1>6 DEF SelectDocument, AskStatus, CrashPoll, StageReported
  <2>5. QED
    BY <1>6, <2>2, <2>3, <2>4 DEF SelectDocument, AskStatus, CrashPoll
<1>7. ASSUME NEW p \in Polls, NEW o \in Outcomes, WriteStage(p, o) \/ RecordPoll(p, o)
      PROVE TypeOK'
  <2>1. document[polled[p]] \in Document
    OBVIOUS
  <2>2. document' \in [Files -> Document]
    BY <1>7, <2>1 DEF WriteStage, RecordPoll, Document
  <2>3. polling' \in [Polls -> PollStates]
    BY <1>7 DEF WriteStage, RecordPoll
  <2>4. trail' \in [Files -> SUBSET TrailStages]
    BY <1>7 DEF WriteStage, RecordPoll
  <2>5. QED
    BY <1>7, <2>2, <2>3, <2>4 DEF WriteStage, RecordPoll
<1>8. ASSUME NEW f \in Files, HydraIndexes(f) PROVE TypeOK'
  BY <1>8 DEF HydraIndexes, SourceStates
<1>9. CASE AttachAccount \/ UNCHANGED vars
  BY <1>9 DEF AttachAccount, vars
<1>10. QED
  BY <1>1, <1>2, <1>3, <1>4, <1>5, <1>6, <1>7, <1>8, <1>9 DEF Next, Upload, Poll

\* Every reachable state is well typed.
THEOREM TypeCorrect == Spec => []TypeOK
  BY TypeInit, TypeNext, PTL DEF Spec

(***************************************************************************)
(* The inductive invariant.  Neither property is inductive: both depend on *)
(* who may still write a row.  One upload, the row's owner, hands its      *)
(* content to HydraDB, so a source that HydraDB has finished is never      *)
(* begun again; and what a poll carries from its SELECT and its answer to  *)
(* its UPDATE remains true of the source for that reason.                  *)
(***************************************************************************)
Early == {"idle", "lookup", "repeat", "account", "insert"}
Unanswered == {"receipts", "begin", "send", "await", "accepted", "refuse", "fail"}
GivenUp == {"refuse", "fail", "failed", "serverError", "crashed"}

\* A row belongs to the upload that inserted it, which alone may reach HydraDB.
OwnerInv ==
  /\ \A u \in Uploads :
       /\ uploading[u] \in Early => document[file[u]].owner # u
       /\ uploading[u] \in Unanswered \union {"processed"} \/ ingest[u] # "unsent" =>
            document[file[u]].owner = u
       /\ uploading[u] \in {"receipts", "begin", "send"} => ingest[u] = "unsent"
       /\ uploading[u] \in Unanswered => ~document[file[u]].source
       /\ uploading[u] = "processed" => document[file[u]].source
       /\ uploading[u] = "begin" => sawAccount[u]
       /\ sawAccount[u] => account
  /\ \A f \in Files :
       ~Stored(f) => document[f].owner = NoUpload /\ ~document[f].source

\* A source comes of an accepted call.
SourceInv ==
  \A f \in Files :
    source[f] # "none" => \E u \in Uploads : file[u] = f /\ ingest[u] = "accepted"

\* What a stage says once HydraDB holds the source.
Backed(f, stage) ==
  /\ stage \in {"processing", "indexed", "failed"}
  /\ stage = "indexed" => source[f] = "completed"
  /\ stage = "failed" => source[f] = "errored"

RowInv ==
  \A f \in Files :
    /\ document[f].source => Backed(f, document[f].stage)
    /\ ~document[f].source => document[f].stage \notin {"processing", "indexed"}

\* What a poll has read stays true until it writes.
PollInv ==
  \A p \in Polls :
    /\ polling[p] \in {"ask", "write", "receipt"} => document[polled[p]].source
    /\ polling[p] = "ask" => Backed(polled[p], seen[p])
    /\ polling[p] \in {"write", "receipt"} => Backed(polled[p], observed[p])
    /\ polling[p] = "write" /\ observed[p] = "processing" => MayOmitStatus

\* A refusal is recorded for a source that HydraDB gave up, or for a row whose upload did.
TrailInv ==
  \A f \in Files :
    /\ "uploading" \in trail[f] => account
    /\ "processing" \in trail[f] => document[f].source
    /\ "indexed" \in trail[f] => source[f] = "completed"
    /\ "failed" \in trail[f] =>
         \/ source[f] = "errored"
         \/ /\ ~document[f].source
            /\ document[f].owner \in Uploads
            /\ file[document[f].owner] = f
            /\ uploading[document[f].owner] \in GivenUp

IInv == OwnerInv /\ SourceInv /\ RowInv /\ PollInv /\ TrailInv

LEMMA InvInit == Init => IInv
  BY FilesAssumption
  DEF Init, IInv, OwnerInv, SourceInv, RowInv, PollInv, TrailInv, Stored, Early,
      Unanswered

\* A step of an upload that changes neither rows nor sources, moves only forward
\* within what its ownership allows, and writes the receipts its state calls for.
Aside(u) ==
  /\ UNCHANGED <<account, file, sawAccount, document, source, pollVars>>
  /\ \A v \in Uploads : v # u => uploading'[v] = uploading[v] /\ ingest'[v] = ingest[v]

Forward(u) ==
  /\ \/ ingest'[u] = ingest[u]
     \/ ingest[u] = "unsent" /\ uploading[u] = "send" /\ uploading'[u] = "await"
  /\ \/ uploading[u] \in Early /\ uploading'[u] \in Early \union {"rejected", "duplicate"}
     \/ uploading[u] = "receipts" /\ uploading'[u] = "begin" /\ sawAccount[u]
     \/ uploading[u] = "begin" /\ uploading'[u] = "send"
     \/ uploading[u] = "send" /\ uploading'[u] = "await"
     \/ uploading[u] = "await" /\ uploading'[u] \in {"accepted", "refuse"}
     \/ uploading[u] = "refuse" /\ uploading'[u] = "fail"
     \/ uploading[u] \notin GivenUp /\ uploading'[u] \in {"stored", "processing"}
     \/ uploading'[u] \in {"serverError", "crashed"}

Receipted(u) ==
  \A f \in Files :
    \/ trail'[f] = trail[f]
    \/ /\ f = file[u]
       /\ \/ trail'[f] \subseteq trail[f] \union {"received", "hashed", "validated", "duplicate"}
          \/ uploading[u] = "begin" /\ trail'[f] \subseteq trail[f] \union {"uploading"}
          \/ uploading[u] = "refuse" /\ trail'[f] \subseteq trail[f] \union {"failed"}
          \/ uploading[u] = "processed" /\ trail'[f] \subseteq trail[f] \union {"processing"}

LEMMA UploadStepKeepsInv ==
  ASSUME TypeOK, IInv, NEW u \in Uploads, Aside(u), Forward(u), Receipted(u)
  PROVE  IInv'
<1> USE DEF Aside, Forward
<1> USE DEF IInv, pollVars
<1>1. OwnerInv'
  BY DEF OwnerInv, TypeOK, Stored, Early, Unanswered, GivenUp
<1>2. SourceInv'
  BY DEF SourceInv, TypeOK
<1>3. RowInv' /\ PollInv'
  BY DEF RowInv, PollInv, Backed
<1>4. TrailInv'
  <2>1. \A v \in Uploads : uploading[v] \in GivenUp => uploading'[v] \in GivenUp
    BY DEF GivenUp, Early
  <2> USE DEF Receipted
  <2>2. ASSUME NEW f \in Files, "failed" \in trail'[f], "failed" \notin trail[f]
        PROVE  /\ document[f].owner = u /\ ~document[f].source
               /\ f = file[u] /\ uploading'[u] \in GivenUp
    BY <2>2 DEF OwnerInv, Unanswered, GivenUp, Early
  <2>3. ASSUME NEW f \in Files PROVE "uploading" \in trail'[f] => account
    BY <2>3 DEF TrailInv, OwnerInv
  <2>4. ASSUME NEW f \in Files PROVE "processing" \in trail'[f] => document[f].source
    BY <2>4 DEF TrailInv, OwnerInv
  <2>5. ASSUME NEW f \in Files PROVE "indexed" \in trail'[f] => source[f] = "completed"
    BY <2>5 DEF TrailInv
  <2>6. QED
    BY <2>1, <2>2, <2>3, <2>4, <2>5 DEF TrailInv
<1>5. QED
  BY <1>1, <1>2, <1>3, <1>4

LEMMA UploadKeepsInv ==
  ASSUME TypeOK, IInv, NEW u \in Uploads,
         \/ Detect(u) \/ LookupDocument(u) \/ RecordReceipts(u) \/ SendIngest(u)
         \/ IngestAccepted(u) \/ IngestFailed(u) \/ CrashUpload(u)
         \/ \E o \in Outcomes :
              \/ ReturnDuplicate(u, o) \/ BeginUpload(u, o) \/ RecordRefusal(u, o)
              \/ RecordProcessing(u, o)
  PROVE  IInv'
<1>1. Aside(u)
  BY DEF Aside, TypeOK, Moves, Detect, LookupDocument, RecordReceipts, SendIngest,
     IngestAccepted, IngestFailed, CrashUpload, ReturnDuplicate, BeginUpload,
     RecordRefusal, RecordProcessing
<1>2. Forward(u)
  <2> USE DEF Forward, TypeOK, Moves, Early, GivenUp, Resume
  <2>1. CASE Detect(u) \/ LookupDocument(u) \/ IngestAccepted(u) \/ IngestFailed(u)
    BY <2>1 DEF Detect, LookupDocument, IngestAccepted, IngestFailed
  <2>2. CASE RecordReceipts(u)
    BY <2>2 DEF RecordReceipts
  <2>3. CASE SendIngest(u)
    BY <2>3 DEF SendIngest, IInv, OwnerInv
  <2>4. CASE CrashUpload(u)
    BY <2>4 DEF CrashUpload
  <2>5. CASE \E o \in Outcomes : ReturnDuplicate(u, o) \/ BeginUpload(u, o)
                                   \/ RecordRefusal(u, o) \/ RecordProcessing(u, o)
    BY <2>5 DEF ReturnDuplicate, BeginUpload, RecordRefusal, RecordProcessing
  <2>6. QED
    BY <2>1, <2>2, <2>3, <2>4, <2>5
<1>3. Receipted(u)
  <2> USE DEF Receipted, TypeOK, Moves, RecordStage
  <2>1. CASE RecordReceipts(u)
    BY <2>1 DEF RecordReceipts
  <2>2. CASE \E o \in Outcomes : ReturnDuplicate(u, o) \/ BeginUpload(u, o)
                                   \/ RecordRefusal(u, o) \/ RecordProcessing(u, o)
    BY <2>2 DEF ReturnDuplicate, BeginUpload, RecordRefusal, RecordProcessing
  <2>3. CASE trail' = trail
    BY <2>3
  <2>4. QED
    BY <2>1, <2>2, <2>3 DEF Detect, LookupDocument, SendIngest, IngestAccepted,
       IngestFailed, CrashUpload
<1>4. QED
  BY <1>1, <1>2, <1>3, UploadStepKeepsInv

LEMMA ReadAccountKeepsInv ==
  ASSUME TypeOK, IInv, NEW u \in Uploads, ReadAccount(u)
  PROVE  IInv'
<1> USE DEF IInv, pollVars, ReadAccount, Moves
<1>1. OwnerInv'
  BY DEF OwnerInv, TypeOK, Stored, Early, Unanswered
<1>2. SourceInv' /\ RowInv' /\ PollInv'
  BY DEF SourceInv, RowInv, PollInv, Backed
<1>3. TrailInv'
  BY DEF TrailInv, TypeOK, GivenUp
<1>4. QED
  BY <1>1, <1>2, <1>3

\* The unique index gives a content's row to one upload, and nothing else touches it yet.
LEMMA InsertKeepsInv ==
  ASSUME TypeOK, IInv, NEW u \in Uploads, NEW o \in Outcomes, InsertDocument(u, o)
  PROVE  IInv'
<1> USE FilesAssumption DEF IInv, pollVars, Moves, TypeOK
<1>1. CASE UNCHANGED document
  <2>1. /\ uploading[u] = "insert" /\ uploading'[u] = "serverError"
        /\ UNCHANGED <<account, file, sawAccount, ingest, trail, source, pollVars>>
        /\ \A v \in Uploads : v # u => uploading'[v] = uploading[v]
    <3>1. Applied(o) /\ ~Stored(file[u]) => document'[file[u]] = NewDocument(u)
      BY DEF InsertDocument
    <3>2. NewDocument(u).stage # "absent"
      BY DEF NewDocument
    <3>3. ~(Applied(o) /\ ~Stored(file[u]))
      BY <1>1, <3>1, <3>2 DEF Stored
    <3>4. QED
      BY <3>3 DEF InsertDocument
  <2>2. QED
    <3>1. Aside(u) /\ Forward(u) /\ Receipted(u)
      BY <1>1, <2>1 DEF Aside, Forward, Receipted
    <3>2. QED
      BY <3>1, UploadStepKeepsInv
<1>2. CASE document' # document
  <2>1. /\ Applied(o) /\ ~Stored(file[u])
        /\ document' = [document EXCEPT ![file[u]] = NewDocument(u)]
        /\ uploading[u] = "insert" /\ uploading'[u] \in {"receipts", "serverError"}
        /\ \A v \in Uploads : v # u => uploading'[v] = uploading[v]
        /\ UNCHANGED <<account, file, sawAccount, ingest, trail, source, pollVars>>
    BY <1>2 DEF InsertDocument, Resume
  <2>2. /\ document'[file[u]].owner = u /\ ~document'[file[u]].source
        /\ document'[file[u]].stage \in {"uploading", "validated"}
        /\ \A f \in Files : f # file[u] => document'[f] = document[f]
    BY <2>1 DEF NewDocument
  <2>3. /\ document[file[u]].owner = NoUpload /\ ~document[file[u]].source
        /\ NoUpload # u
    BY <2>1 DEF OwnerInv
  <2>4. \A v \in Uploads : file[v] = file[u] =>
          uploading[v] \notin Unanswered \union {"processed"} /\ ingest[v] = "unsent"
    BY <2>3 DEF OwnerInv
  <2>5. OwnerInv'
    BY <2>1, <2>2, <2>3, <2>4 DEF OwnerInv, Stored, Early, Unanswered
  <2>6. SourceInv'
    BY <2>1 DEF SourceInv
  <2>7. RowInv'
    BY <2>1, <2>2 DEF RowInv, Backed
  <2>8. PollInv'
    BY <2>1, <2>2, <2>3 DEF PollInv, Backed
  <2>9. TrailInv'
    BY <2>1, <2>2, <2>3 DEF TrailInv, GivenUp
  <2>10. QED
    BY <2>5, <2>6, <2>7, <2>8, <2>9
<1>3. QED
  BY <1>1, <1>2

\* The owner's last word on its row: failed without a source, or processing with one.
LEMMA MarkKeepsInv ==
  ASSUME TypeOK, IInv, NEW u \in Uploads, NEW o \in Outcomes,
         MarkFailed(u, o) \/ MarkProcessing(u, o)
  PROVE  IInv'
<1> USE FilesAssumption DEF IInv, pollVars, Moves, TypeOK
<1>1. /\ document[file[u]].owner = u /\ ~document[file[u]].source
      /\ document[file[u]] \in Document /\ file[u] \in Files
      /\ uploading[u] \in {"fail", "accepted"}
      /\ UNCHANGED <<account, file, sawAccount, ingest, trail, source, pollVars>>
      /\ \A v \in Uploads : v # u => uploading'[v] = uploading[v]
      /\ \A f \in Files : f # file[u] => document'[f] = document[f]
  BY DEF MarkFailed, MarkProcessing, SetDocument, OwnerInv, Unanswered
<1> DEFINE failed == [document[file[u]] EXCEPT !.stage = "failed"]
           queued == [document[file[u]] EXCEPT !.stage = "processing", !.source = TRUE]
<1>2. /\ failed.stage = "failed" /\ ~failed.source /\ failed.owner = u
      /\ queued.stage = "processing" /\ queued.source /\ queued.owner = u
  BY <1>1 DEF Document
<1>3. \/ MarkFailed(u, o) /\ document'[file[u]] = failed
      \/ MarkProcessing(u, o) /\ document'[file[u]] = queued
      \/ ~Applied(o) /\ document' = document
  BY <1>1 DEF MarkFailed, MarkProcessing, SetDocument
<1> HIDE DEF failed, queued
<1>4. \/ /\ MarkFailed(u, o) /\ uploading[u] = "fail"
         /\ uploading'[u] \in {"failed", "serverError"}
         /\ ~document'[file[u]].source
         /\ document'[file[u]].stage \in {document[file[u]].stage, "failed"}
      \/ /\ MarkProcessing(u, o) /\ uploading[u] = "accepted"
         /\ uploading'[u] = "serverError"
         /\ document' = document
      \/ /\ MarkProcessing(u, o) /\ uploading[u] = "accepted"
         /\ uploading'[u] \in {"processed", "serverError"}
         /\ document'[file[u]].source
         /\ document'[file[u]].stage = "processing"
  BY <1>1, <1>2, <1>3 DEF MarkFailed, MarkProcessing, Resume, Applied
<1>5. document'[file[u]].owner = u
      /\ (document'[file[u]].stage = "absent" => document[file[u]].stage = "absent")
  BY <1>1, <1>2, <1>3
<1>6. OwnerInv'
  BY <1>1, <1>4, <1>5 DEF OwnerInv, Stored, Early, Unanswered
<1>7. SourceInv'
  BY <1>1 DEF SourceInv
<1>8. RowInv'
  BY <1>1, <1>4 DEF RowInv, Backed
<1>9. PollInv'
  BY <1>1, <1>4 DEF PollInv, Backed
<1>10. TrailInv'
  <2>1. ASSUME NEW f \in Files, "failed" \in trail'[f], source'[f] # "errored"
        PROVE  /\ ~document'[f].source /\ document'[f].owner \in Uploads
               /\ file'[document'[f].owner] = f /\ uploading'[document'[f].owner] \in GivenUp
    BY <1>1, <1>4, <1>5, <2>1 DEF TrailInv, GivenUp
  <2>2. QED
    BY <1>1, <1>4, <2>1 DEF TrailInv
<1>11. QED
  BY <1>6, <1>7, <1>8, <1>9, <1>10

\* HydraDB begins a source once: its owner's call is the only one there is.
LEMMA HydraKeepsInv ==
  ASSUME TypeOK, IInv,
         (\E u \in Uploads : HydraIngests(u)) \/ (\E f \in Files : HydraIndexes(f))
  PROVE  /\ IInv'
         /\ \A f \in Files : source[f] \in {"completed", "errored"} => source'[f] = source[f]
<1> USE DEF IInv, pollVars, TypeOK
<1>1. UNCHANGED <<account, file, uploading, sawAccount, document, trail, pollVars>>
  BY DEF HydraIngests, HydraIndexes, uploadVars
<1>2. ASSUME NEW u \in Uploads, HydraIngests(u) PROVE source[file[u]] = "none"
  BY <1>2 DEF HydraIngests, SourceInv, OwnerInv
<1>3. \A f \in Files : source[f] \in {"completed", "errored"} => source'[f] = source[f]
  BY <1>2 DEF HydraIngests, HydraIndexes
<1>4. OwnerInv' /\ SourceInv'
  <2>1. \A v \in Uploads : ingest'[v] # "unsent" => ingest[v] # "unsent"
    BY DEF HydraIngests, HydraIndexes, uploadVars
  <2>2. \A v \in Uploads : ingest[v] = "unsent" => ingest'[v] = "unsent"
    BY DEF HydraIngests, HydraIndexes, uploadVars
  <2>3. \A v \in Uploads : ingest[v] = "accepted" => ingest'[v] = "accepted"
    BY DEF HydraIngests, HydraIndexes, uploadVars
  <2>4. OwnerInv'
    BY <1>1, <2>1, <2>2 DEF OwnerInv, Stored
  <2>5. \A f \in Files : source'[f] # "none" =>
          source[f] # "none" \/ \E u \in Uploads : file[u] = f /\ ingest'[u] = "accepted"
    BY DEF HydraIngests, HydraIndexes, uploadVars
  <2>6. SourceInv'
    BY <1>1, <2>3, <2>5 DEF SourceInv
  <2>7. QED
    BY <2>4, <2>6
<1>5. RowInv' /\ PollInv' /\ TrailInv'
  BY <1>1, <1>3 DEF RowInv, PollInv, TrailInv, Backed
<1>6. QED
  BY <1>3, <1>4, <1>5

\* A poll writes what is still true of the source, and never unwrites 'indexed'.
LEMMA PollKeepsInv ==
  ASSUME TypeOK, IInv, NEW p \in Polls, Poll(p) \/ CrashPoll(p)
  PROVE  /\ IInv'
         /\ \A f \in Files :
              ~MayOmitStatus /\ document[f].stage = "indexed" => document'[f].stage = "indexed"
<1> USE DEF IInv, PollMoves, TypeOK
<1>1. /\ UNCHANGED <<account, uploadVars, source, polled>>
      /\ polled[p] \in Files /\ document[polled[p]] \in Document
      /\ \A q \in Polls : q # p =>
           polling'[q] = polling[q] /\ seen'[q] = seen[q] /\ observed'[q] = observed[q]
  BY DEF Poll, SelectDocument, AskStatus, WriteStage, RecordPoll, CrashPoll
<1>2. \/ document' = document
      \/ /\ polling[p] = "write"
         /\ document' = [document EXCEPT ![polled[p]].stage = observed[p]]
  BY DEF Poll, SelectDocument, AskStatus, WriteStage, RecordPoll, CrashPoll
<1>3. polling[p] = "write" =>
        document[polled[p]].source /\ Backed(polled[p], observed[p])
  BY DEF PollInv
<1>4. \A f \in Files :
        /\ document'[f].source = document[f].source
        /\ document'[f].owner = document[f].owner
        /\ \/ document'[f].stage = document[f].stage
           \/ f = polled[p] /\ polling[p] = "write" /\ document'[f].stage = observed[p]
  BY <1>1, <1>2 DEF Document
<1>5. OwnerInv'
  <2>1. \A f \in Files : Stored(f)' <=> Stored(f)
    BY <1>3, <1>4 DEF Stored, Backed, OwnerInv
  <2>2. QED
    BY <1>1, <1>4, <2>1 DEF OwnerInv, uploadVars
<1>6. SourceInv'
  BY <1>1 DEF SourceInv, uploadVars
<1>7. RowInv'
  BY <1>1, <1>3, <1>4 DEF RowInv, Backed
<1>8. PollInv'
  <2>1. CASE SelectDocument(p)
    <3>1. polling'[p] = "ask" => document[polled[p]].source /\ seen'[p] = document[polled[p]].stage
      BY <1>1, <2>1 DEF SelectDocument
    <3>2. polling'[p] \in {"ask", "notFound", "neverAccepted"} /\ document' = document
      BY <2>1 DEF SelectDocument
    <3>3. QED
      BY <1>1, <3>1, <3>2 DEF PollInv, RowInv, Backed
  <2>2. CASE AskStatus(p)
    <3>1. /\ polling[p] = "ask" /\ document' = document /\ seen' = seen
          /\ polling'[p] \in {"unavailable", "answered", "write"}
      BY <2>2 DEF AskStatus
    <3>2. polling'[p] = "write" =>
            /\ observed'[p] # seen[p]
            /\ \/ observed'[p] = StageReported(source[polled[p]])
               \/ MayOmitStatus /\ observed'[p] = "processing"
      BY <2>2 DEF AskStatus, StageReported
    <3>3. Backed(polled[p], seen[p]) /\ document[polled[p]].source
      BY <3>1 DEF PollInv
    <3>4. polling'[p] = "write" =>
            /\ Backed(polled[p], observed'[p])
            /\ observed'[p] = "processing" => MayOmitStatus
      BY <3>2, <3>3 DEF Backed, StageReported
    <3>5. QED
      BY <1>1, <3>1, <3>3, <3>4 DEF PollInv, Backed
  <2>3. CASE \E o \in Outcomes : WriteStage(p, o) \/ RecordPoll(p, o)
    <3>1. /\ polling[p] \in {"write", "receipt"} /\ seen' = seen /\ observed' = observed
          /\ polling'[p] \in {"receipt", "answered", "serverError"}
      BY <2>3 DEF WriteStage, RecordPoll, Resume
    <3>2. QED
      BY <1>1, <1>4, <3>1 DEF PollInv, Backed
  <2>4. CASE CrashPoll(p)
    BY <1>1, <2>4 DEF CrashPoll, PollInv, Backed
  <2>5. QED
    BY <2>1, <2>2, <2>3, <2>4 DEF Poll
<1>9. TrailInv'
  <2>1. \A f \in Files : trail'[f] = trail[f]
          \/ /\ f = polled[p] /\ polling[p] = "receipt"
             /\ trail'[f] = trail[f] \union {observed[p]}
    BY DEF Poll, SelectDocument, AskStatus, WriteStage, RecordPoll, CrashPoll
  <2>2. polling[p] = "receipt" => document[polled[p]].source /\ Backed(polled[p], observed[p])
    BY DEF PollInv
  <2>3. QED
    BY <1>1, <1>4, <2>1, <2>2 DEF TrailInv, Backed, uploadVars
<1>10. \A f \in Files :
         ~MayOmitStatus /\ document[f].stage = "indexed" => document'[f].stage = "indexed"
  <2>1. ASSUME NEW f \in Files, document[f].stage = "indexed"
        PROVE  source[f] = "completed"
    BY <2>1 DEF RowInv, Backed
  <2>2. QED
    BY <1>3, <1>4, <2>1 DEF Backed, PollInv
<1>11. QED
  BY <1>5, <1>6, <1>7, <1>8, <1>9, <1>10

\* What each step keeps, of the invariant and of a document that is queryable.
IndexedKept ==
  \A f \in Files : document[f].stage = "indexed" => document'[f].stage = "indexed"

LEMMA InvNext ==
  TypeOK /\ IInv /\ [Next]_vars => IInv' /\ (~MayOmitStatus => IndexedKept)
<1> SUFFICES ASSUME TypeOK, IInv, [Next]_vars
             PROVE  IInv' /\ (~MayOmitStatus => IndexedKept)
  OBVIOUS
<1> USE DEF IndexedKept
<1>1. ASSUME NEW u \in Uploads, Upload(u) \/ CrashUpload(u) PROVE IInv' /\ IndexedKept
  <2>1. CASE UNCHANGED document
    BY <1>1, <2>1, UploadKeepsInv, ReadAccountKeepsInv, InsertKeepsInv, MarkKeepsInv
    DEF Upload
  <2>2. ASSUME NEW o \in Outcomes, InsertDocument(u, o) PROVE IInv' /\ IndexedKept
    BY <2>2, InsertKeepsInv DEF InsertDocument, Stored
  <2>3. ASSUME NEW o \in Outcomes, MarkFailed(u, o) \/ MarkProcessing(u, o)
        PROVE IInv' /\ IndexedKept
    <3>1. document[file[u]].stage # "indexed"
      BY <2>3 DEF MarkFailed, MarkProcessing, Moves, TypeOK, IInv, OwnerInv, RowInv, Unanswered
    <3>2. \A f \in Files : f # file[u] => document'[f] = document[f]
      BY <2>3 DEF MarkFailed, MarkProcessing, SetDocument, TypeOK
    <3>3. QED
      BY <2>3, <3>1, <3>2, MarkKeepsInv
  <2>4. QED
    BY <1>1, <2>1, <2>2, <2>3
    DEF Upload, Detect, LookupDocument, ReadAccount, RecordReceipts, SendIngest,
        IngestAccepted, IngestFailed, CrashUpload, ReturnDuplicate, BeginUpload,
        RecordRefusal, RecordProcessing
<1>2. ASSUME NEW u \in Uploads, HydraIngests(u) PROVE IInv' /\ IndexedKept
  BY <1>2, HydraKeepsInv DEF HydraIngests
<1>3. ASSUME NEW f \in Files, HydraIndexes(f) PROVE IInv' /\ IndexedKept
  BY <1>3, HydraKeepsInv DEF HydraIndexes
<1>4. ASSUME NEW p \in Polls, Poll(p) \/ CrashPoll(p)
      PROVE IInv' /\ (~MayOmitStatus => IndexedKept)
  BY <1>4, PollKeepsInv
<1>5. CASE AttachAccount \/ UNCHANGED vars
  BY <1>5 DEF AttachAccount, vars, uploadVars, pollVars, IInv, OwnerInv, SourceInv, RowInv,
     PollInv, TrailInv, Backed, Stored
<1>6. QED
  BY <1>1, <1>2, <1>3, <1>4, <1>5 DEF Next

LEMMA InvariantHolds == Spec => [](TypeOK /\ IInv)
  BY TypeInit, TypeNext, InvInit, InvNext, PTL DEF Spec

(***************************************************************************)
(* The safety properties.                                                  *)
(***************************************************************************)
\* A content reaches HydraDB through one upload at most: whoever sent it owns its row.
THEOREM IngestedOnce == Spec => []OneIngestPerContent
<1>1. TypeOK /\ IInv => OneIngestPerContent
  BY DEF TypeOK, IInv, OwnerInv, OneIngestPerContent
<1>2. QED
  BY <1>1, InvariantHolds, PTL

\* What the database says of a file is what happened to it: 'indexed' only of a source
\* HydraDB finished, and every receipt backed by what the row and HydraDB went through.
THEOREM StagesTrue == Spec => []StagesAreReal
<1>1. TypeOK /\ IInv => StagesAreReal
  <2> SUFFICES ASSUME TypeOK, IInv PROVE IndexedIsReal /\ TrailIsTrue
    BY DEF StagesAreReal
  <2>1. IndexedIsReal
    BY DEF IInv, RowInv, Backed, IndexedIsReal
  <2>2. TrailIsTrue
    BY DEF IInv, RowInv, Backed, TrailInv, TrailIsTrue
  <2>3. QED
    BY <2>1, <2>2
<1>2. QED
  BY <1>1, InvariantHolds, PTL

\* Once queryable a document stays so, if HydraDB's answers carry an indexing_status:
\* one without it reads as 'processing' and takes the stage back.
THEOREM IndexedForGood == ASSUME ~MayOmitStatus PROVE Spec => IndexedStays
<1>1. TypeOK /\ IInv /\ [Next]_vars =>
        \A f \in Files : document[f].stage = "indexed" => document'[f].stage = "indexed"
  BY InvNext DEF IndexedKept
<1>2. QED
  BY <1>1, InvariantHolds, PTL DEF Spec, IndexedStays

(***************************************************************************)
(* Connectors: types.                                                      *)
(***************************************************************************)
LEMMA ConnectorTypeInit == ConnectorInit => ConnectorTypeOK
  BY DEF ConnectorInit, ConnectorTypeOK, States, Statuses, PcStates, Operations, Health,
        Unknown

LEMMA ConnectorTypeNext == ConnectorTypeOK /\ [ConnectorNext]_connectorVars => ConnectorTypeOK'
<1> SUFFICES ASSUME ConnectorTypeOK, [ConnectorNext]_connectorVars PROVE ConnectorTypeOK'
  OBVIOUS
<1> USE DEF ConnectorTypeOK, rows, hydra, locals, States, Statuses, PcStates, Replies,
      RequestMoves, Resume, Reach, Known
<1>1. ASSUME NEW r \in Requests, NEW xs \in SUBSET Resources, Begin(r, xs) \/ Discover(r, xs)
      PROVE ConnectorTypeOK'
  BY <1>1 DEF Begin, Discover, Operations
<1>2. ASSUME NEW r \in Requests, NEW h \in Health, ReadHealth(r, h) PROVE ConnectorTypeOK'
  BY <1>2 DEF ReadHealth
<1>3. ASSUME NEW r \in Requests, NEW objects \in SUBSET (Resources \union {Foreign}),
             Canary(r, objects)
      PROVE ConnectorTypeOK'
  BY <1>3 DEF Canary, Matching
<1>4. ASSUME NEW r \in Requests,
             DiscoveryFails(r) \/ UpsertsDone(r) \/ CheckChosen(r) \/ ReadSelection(r)
               \/ Crash(r)
      PROVE ConnectorTypeOK'
  BY <1>4 DEF DiscoveryFails, UpsertsDone, CheckChosen, ReadSelection, Crash
<1>5. ASSUME NEW r \in Requests, NEW o \in Outcomes,
             Adopt(r, o) \/ MarkDiscovered(r, o) \/ Configure(r, o) \/ RequestSync(r, o)
               \/ MarkRequested(r, o)
      PROVE ConnectorTypeOK'
  BY <1>5 DEF Adopt, MarkDiscovered, Configure, RequestSync, MarkRequested
<1>6. ASSUME NEW r \in Requests, NEW o \in Outcomes, SaveSelection(r, o) PROVE ConnectorTypeOK'
  BY <1>6 DEF SaveSelection
<1>7. ASSUME NEW r \in Requests, NEW o \in Outcomes, InsertReceipt(r, o) PROVE ConnectorTypeOK'
  BY <1>7 DEF InsertReceipt
<1>8. ASSUME NEW r \in Requests, NEW o \in Outcomes, SaveVerdict(r, o) PROVE ConnectorTypeOK'
  <2>1. NextState(r) \in States
    BY DEF NextState
  <2>2. QED
    BY <1>8, <2>1 DEF SaveVerdict
<1>9. ASSUME NEW r \in Requests, NEW o \in Outcomes, NEW x \in Resources, Upsert(r, x, o)
      PROVE ConnectorTypeOK'
  BY <1>9 DEF Upsert
<1>10. ASSUME NEW x \in Resources, Index(x) PROVE ConnectorTypeOK'
  BY <1>10 DEF Index
<1>11. CASE UNCHANGED connectorVars
  BY <1>11 DEF connectorVars
<1>12. QED
  BY <1>1, <1>2, <1>3, <1>4, <1>5, <1>6, <1>7, <1>8, <1>9, <1>10, <1>11
  DEF ConnectorNext, Step

\* Every reachable state is well typed.
THEOREM ConnectorTypes == ConnectorSpec => []ConnectorTypeOK
  BY ConnectorTypeInit, ConnectorTypeNext, PTL DEF ConnectorSpec

(***************************************************************************)
(* The inductive invariant.  The rows are right because of what a request  *)
(* still holds when it writes them: a selection that was discovered and    *)
(* configured, whatever other requests configured since; a verdict whose   *)
(* receipt is stored.                                                      *)
(***************************************************************************)
\* Which operation each stage belongs to.
OperationInv ==
  \A r \in Requests :
    /\ pc[r] \in {"call", "upsert", "discovered"} => op[r] \in {"discover", "connectAll"}
    /\ pc[r] = "check" => op[r] = "configure"
    /\ pc[r] \in {"configure", "select"} => op[r] \in {"configure", "connectAll"}

\* What is about to be configured or selected is discovered, and is something.
ScopeInv ==
  \A r \in Requests :
    /\ pc[r] \in {"discovered", "configure", "select"} => scope[r] \subseteq Known
    /\ pc[r] \in {"check", "configure", "select"} => scope[r] # {}
    /\ pc[r] = "select" => configured # {}

\* What a canary kept, and what a receipt names, HydraDB has indexed.
EvidenceInv ==
  /\ \A r \in Requests :
       /\ found[r] \subseteq indexed
       /\ pc[r] = "verdict" /\ Verified(r) => found[r] \in receipts
  /\ \A objects \in receipts : objects # {} /\ objects \subseteq indexed

ResourceInv ==
  /\ state = "data_verified" => receipts # {}
  /\ selected # {} => configured # {}

ConnectorInv == OperationInv /\ ScopeInv /\ EvidenceInv /\ ResourceInv

\* What a step does to the selection.
SelectionStep ==
  /\ selected # {} => selected' # {}
  /\ selected \ selected' # {} =>
       \E r \in Requests : op[r] = "configure" /\ pc[r] = "select" /\ selected' = scope[r]

LEMMA ConnectorInvInit == ConnectorInit => ConnectorInv
  BY DEF ConnectorInit, ConnectorInv, OperationInv, ScopeInv, EvidenceInv, ResourceInv

\* A resource once discovered stays so, and what HydraDB indexed or was told to sync is
\* never taken back to nothing.
LEMMA Monotone ==
  ASSUME ConnectorTypeOK, ConnectorInv, [ConnectorNext]_connectorVars
  PROVE  /\ Known \subseteq Known'
         /\ indexed \subseteq indexed'
         /\ receipts \subseteq receipts'
         /\ configured # {} => configured' # {}
         /\ op' = op
<1> USE DEF rows, hydra, locals, Known
<1>1. CASE \E r \in Requests : \E o \in Outcomes : Configure(r, o)
  BY <1>1 DEF Configure, RequestMoves, ConnectorInv, ScopeInv
<1>2. CASE \E r \in Requests : \E o \in Outcomes : SaveSelection(r, o)
  BY <1>2 DEF SaveSelection
<1>3. CASE \E r \in Requests : \E o \in Outcomes : SaveVerdict(r, o)
  BY <1>3 DEF SaveVerdict
<1>4. CASE \E r \in Requests : \E o \in Outcomes : \E x \in Resources : Upsert(r, x, o)
  BY <1>4 DEF Upsert, ConnectorTypeOK
<1>5. CASE \E r \in Requests : \E o \in Outcomes :
             \/ Adopt(r, o) \/ MarkDiscovered(r, o) \/ RequestSync(r, o)
             \/ MarkRequested(r, o) \/ InsertReceipt(r, o)
  BY <1>5 DEF Adopt, MarkDiscovered, RequestSync, MarkRequested, InsertReceipt
<1>6. CASE \E r \in Requests :
             \/ \E xs \in SUBSET Resources : Begin(r, xs) \/ Discover(r, xs)
             \/ \E h \in Health : ReadHealth(r, h)
             \/ \E objects \in SUBSET (Resources \union {Foreign}) : Canary(r, objects)
             \/ DiscoveryFails(r) \/ UpsertsDone(r) \/ CheckChosen(r) \/ ReadSelection(r)
             \/ Crash(r)
  BY <1>6 DEF Begin, Discover, ReadHealth, Canary, DiscoveryFails, UpsertsDone, CheckChosen,
     ReadSelection, Crash
<1>7. CASE (\E x \in Resources : Index(x)) \/ UNCHANGED connectorVars
  BY <1>7 DEF Index, connectorVars
<1>8. QED
  BY <1>1, <1>2, <1>3, <1>4, <1>5, <1>6, <1>7 DEF ConnectorNext, Step

LEMMA OperationNext ==
  ConnectorTypeOK /\ ConnectorInv /\ [ConnectorNext]_connectorVars
    => OperationInv' /\ ScopeInv'
<1> SUFFICES ASSUME ConnectorTypeOK, ConnectorInv, [ConnectorNext]_connectorVars
             PROVE OperationInv' /\ ScopeInv'
  OBVIOUS
<1> USE Monotone DEF rows, hydra, locals, RequestMoves, Resume, Reach, ConnectorInv,
      OperationInv, ScopeInv, ConnectorTypeOK
<1>1. ASSUME NEW r \in Requests, NEW xs \in SUBSET Resources, Begin(r, xs) \/ Discover(r, xs)
      PROVE OperationInv' /\ ScopeInv'
  BY <1>1 DEF Begin, Discover, Operations
<1>2. ASSUME NEW r \in Requests, NEW o \in Outcomes, MarkDiscovered(r, o)
      PROVE OperationInv' /\ ScopeInv'
  BY <1>2 DEF MarkDiscovered
<1>3. ASSUME NEW r \in Requests, NEW o \in Outcomes, Configure(r, o)
      PROVE OperationInv' /\ ScopeInv'
  BY <1>3 DEF Configure, Applied
<1>4. ASSUME NEW r \in Requests, UpsertsDone(r) \/ CheckChosen(r)
      PROVE OperationInv' /\ ScopeInv'
  BY <1>4 DEF UpsertsDone, CheckChosen
<1>5. ASSUME NEW r \in Requests, NEW o \in Outcomes, Adopt(r, o)
      PROVE OperationInv' /\ ScopeInv'
  BY <1>5 DEF Adopt
<1>6. ASSUME NEW r \in Requests,
             \A q \in Requests : q # r => pc'[q] = pc[q],
             scope' = scope,
             \/ pc'[r] \notin {"call", "upsert", "discovered", "check", "configure", "select"}
             \/ pc[r] = "upsert" /\ pc'[r] = "upsert"
      PROVE OperationInv' /\ ScopeInv'
  BY <1>6
<1>7. ASSUME NEW r \in Requests, NEW o \in Outcomes,
             SaveSelection(r, o) \/ RequestSync(r, o) \/ MarkRequested(r, o)
               \/ InsertReceipt(r, o) \/ SaveVerdict(r, o)
               \/ \E x \in Resources : Upsert(r, x, o)
      PROVE OperationInv' /\ ScopeInv'
  BY <1>6, <1>7 DEF SaveSelection, RequestSync, MarkRequested, InsertReceipt, SaveVerdict,
     Upsert
<1>8. ASSUME NEW r \in Requests,
             \/ \E h \in Health : ReadHealth(r, h)
             \/ \E objects \in SUBSET (Resources \union {Foreign}) : Canary(r, objects)
             \/ DiscoveryFails(r) \/ ReadSelection(r) \/ Crash(r)
      PROVE OperationInv' /\ ScopeInv'
  BY <1>6, <1>8 DEF ReadHealth, Canary, DiscoveryFails, ReadSelection, Crash
<1>9. CASE (\E x \in Resources : Index(x)) \/ UNCHANGED connectorVars
  BY <1>9 DEF Index, connectorVars
<1>10. QED
  BY <1>1, <1>2, <1>3, <1>4, <1>5, <1>7, <1>8, <1>9 DEF ConnectorNext, Step

LEMMA EvidenceNext ==
  ConnectorTypeOK /\ ConnectorInv /\ [ConnectorNext]_connectorVars
    => EvidenceInv' /\ ResourceInv'
<1> SUFFICES ASSUME ConnectorTypeOK, ConnectorInv, [ConnectorNext]_connectorVars
             PROVE EvidenceInv' /\ ResourceInv'
  OBVIOUS
<1> USE Monotone DEF rows, hydra, locals, RequestMoves, Resume, Reach, ConnectorInv,
      EvidenceInv, ResourceInv, ConnectorTypeOK, Verified
<1>1. ASSUME NEW r \in Requests, NEW objects \in SUBSET (Resources \union {Foreign}),
             Canary(r, objects)
      PROVE EvidenceInv' /\ ResourceInv'
  BY <1>1 DEF Canary, Matching
<1>2. ASSUME NEW r \in Requests, NEW o \in Outcomes, InsertReceipt(r, o)
      PROVE EvidenceInv' /\ ResourceInv'
  <2>1. UNCHANGED <<state, selected, configured, indexed, found, health>>
    BY <1>2 DEF InsertReceipt
  <2>2. /\ \A q \in Requests : q # r => pc'[q] = pc[q]
        /\ pc'[r] = "verdict" => o = "ok"
        /\ \/ receipts' = receipts
           \/ receipts' = receipts \union {found[r]} /\ Verified(r)
        /\ o = "ok" /\ Verified(r) => found[r] \in receipts'
    BY <1>2 DEF InsertReceipt, Applied
  <2>3. found[r] \subseteq indexed /\ (Verified(r) => found[r] # {})
    OBVIOUS
  <2>4. EvidenceInv'
    BY <2>1, <2>2, <2>3
  <2>5. QED
    BY <2>1, <2>2, <2>4
<1>3. ASSUME NEW r \in Requests, NEW o \in Outcomes, SaveVerdict(r, o)
      PROVE EvidenceInv' /\ ResourceInv'
  BY <1>3 DEF SaveVerdict, NextState
<1>4. ASSUME NEW r \in Requests, NEW o \in Outcomes, SaveSelection(r, o)
      PROVE EvidenceInv' /\ ResourceInv'
  BY <1>4 DEF SaveSelection, ScopeInv
<1>5. ASSUME NEW r \in Requests, NEW h \in Health, ReadHealth(r, h)
      PROVE EvidenceInv' /\ ResourceInv'
  BY <1>5 DEF ReadHealth
<1>6. ASSUME NEW r \in Requests, NEW o \in Outcomes,
             Adopt(r, o) \/ MarkDiscovered(r, o) \/ Configure(r, o) \/ RequestSync(r, o)
               \/ MarkRequested(r, o) \/ \E x \in Resources : Upsert(r, x, o)
      PROVE EvidenceInv' /\ ResourceInv'
  BY <1>6 DEF Adopt, MarkDiscovered, Configure, RequestSync, MarkRequested, Upsert
<1>7. ASSUME NEW r \in Requests,
             \/ \E xs \in SUBSET Resources : Begin(r, xs) \/ Discover(r, xs)
             \/ DiscoveryFails(r) \/ UpsertsDone(r) \/ CheckChosen(r) \/ ReadSelection(r)
             \/ Crash(r)
      PROVE EvidenceInv' /\ ResourceInv'
  <2>1. UNCHANGED <<rows, hydra, health, found>>
    BY <1>7 DEF Begin, Discover, DiscoveryFails, UpsertsDone, CheckChosen, ReadSelection,
          Crash
  <2>2. \A q \in Requests : q # r => pc'[q] = pc[q]
    BY <1>7 DEF Begin, Discover, DiscoveryFails, UpsertsDone, CheckChosen, ReadSelection,
          Crash
  <2>3. pc'[r] # "verdict"
    BY <1>7 DEF Begin, Discover, DiscoveryFails, UpsertsDone, CheckChosen, ReadSelection,
       Crash, Operations
  <2>4. QED
    BY <2>1, <2>2, <2>3
<1>8. CASE (\E x \in Resources : Index(x)) \/ UNCHANGED connectorVars
  BY <1>8 DEF Index, connectorVars
<1>9. QED
  BY <1>1, <1>2, <1>3, <1>4, <1>5, <1>6, <1>7, <1>8 DEF ConnectorNext, Step

\* Only SaveSelection writes the selection: configure makes it its scope, and connect-all
\* every row there is.
LEMMA SelectionNext ==
  ConnectorTypeOK /\ ConnectorInv /\ [ConnectorNext]_connectorVars
    => SelectionStep
<1> SUFFICES ASSUME ConnectorTypeOK, ConnectorInv, [ConnectorNext]_connectorVars
             PROVE SelectionStep
  OBVIOUS
<1>1. ASSUME NEW r \in Requests, NEW o \in Outcomes, SaveSelection(r, o) PROVE SelectionStep
  <2>1. pc[r] = "select" /\ scope[r] # {} /\ scope[r] \subseteq Known
    BY <1>1 DEF SaveSelection, RequestMoves, ConnectorInv, ScopeInv
  <2>2. CASE op[r] = "connectAll"
    BY <1>1, <2>1, <2>2 DEF SaveSelection, SelectionStep, ConnectorTypeOK, Known
  <2>3. CASE op[r] = "configure"
    <3>1. selected' = selected \/ selected' = scope[r]
      BY <1>1, <2>1, <2>3 DEF SaveSelection
    <3>2. QED
      BY <2>1, <2>3, <3>1 DEF SelectionStep
  <2>4. QED
    BY <2>1, <2>2, <2>3 DEF ConnectorInv, OperationInv
<1>2. CASE selected' = selected
  BY <1>2 DEF SelectionStep
<1>3. QED
  BY <1>1, <1>2 DEF ConnectorNext, Step, rows, hydra, locals, connectorVars, Begin,
        Discover, ReadHealth, Canary, DiscoveryFails, UpsertsDone, CheckChosen,
        ReadSelection, Adopt, MarkDiscovered, Configure, RequestSync, MarkRequested,
        InsertReceipt, SaveVerdict, Upsert, Crash, Index

LEMMA ConnectorInvariant == ConnectorSpec => [](ConnectorTypeOK /\ ConnectorInv)
<1>1. ConnectorTypeOK /\ ConnectorInv /\ [ConnectorNext]_connectorVars => ConnectorInv'
  BY OperationNext, EvidenceNext DEF ConnectorInv
<1>2. QED
  BY <1>1, ConnectorTypeInit, ConnectorTypeNext, ConnectorInvInit, PTL DEF ConnectorSpec

(***************************************************************************)
(* The safety properties.                                                  *)
(***************************************************************************)
\* A connector is data_verified only behind a receipt of its own indexed objects, and
\* its rows are selected only once HydraDB took a configuration.
THEOREM RowsProven == ConnectorSpec => []RowsAreProven
<1>1. ConnectorTypeOK /\ ConnectorInv => RowsAreProven
  BY DEF ConnectorInv, EvidenceInv, ResourceInv, RowsAreProven, VerifiedIsProven,
        SelectionReachedHydra
<1>2. QED
  BY <1>1, ConnectorInvariant, PTL

\* No interleaving of configurations, discoveries and connect-alls empties the selection,
\* and only a configuration takes anything out of it.
THEOREM SelectionSurvives == ConnectorSpec => SelectionStands
<1>1. ConnectorTypeOK /\ ConnectorInv /\ [ConnectorNext]_connectorVars =>
        (selected # {} => selected' # {})
  BY SelectionNext DEF SelectionStep
<1>2. ConnectorTypeOK /\ ConnectorInv /\ [ConnectorNext]_connectorVars =>
        (selected \ selected' # {} =>
           \E r \in Requests : op[r] = "configure" /\ pc[r] = "select" /\ selected' = scope[r])
  BY SelectionNext DEF SelectionStep
<1>3. QED
  BY <1>1, <1>2, ConnectorInvariant, PTL
  DEF ConnectorSpec, SelectionStands, SelectionIsKept, OnlyConfigureDeselects
============================================================================
