------------------------ MODULE BenchmarkPublication ------------------------
(***************************************************************************)
(* Evidence of a release: a CI job waits until production serves its       *)
(* commit, runs the gate, measures one artifact per kind against           *)
(* production and publishes them in one batch; an operator may publish a   *)
(* single artifact; /api/lab shows what is stored for the release that     *)
(* serves it.  Production may move to the next release at any time, a job  *)
(* may be cancelled by the next, a post's answer may be lost, and the      *)
(* statements go to the database of AtomicStore.                           *)
(*                                                                         *)
(* An artifact stands for its measured file: the release it names, when it *)
(* was generated, and the release that answered its questions, which the   *)
(* file does not say.                                                      *)
(***************************************************************************)
EXTENDS Naturals, SequencesExt, FiniteSets, TLC

CONSTANTS Jobs, ReleaseOf,   \* CI jobs and the commit each one is for
          OneTime,           \* the jobs run by hand, with the one-time token
          Operators,         \* single publications with the operator's token
          KindOrder,         \* the kinds a job measures, in order
          MaxRelease, MaxJobs,
          MaxPosts,          \* how often a job's files are posted
          MaxCalls           \* publications altogether

Kinds == {KindOrder[i] : i \in DOMAIN KindOrder}

\* There is something to measure, and the operator is nobody's job.
ASSUME KindAssumption == KindOrder \in Seq(Kinds) /\ KindOrder # << >>
ASSUME PublisherAssumption == Jobs \intersect Operators = {}
ASSUME BoundAssumption == MaxRelease \in Nat \ {0} /\ MaxPosts \in Nat

VARIABLES store, sent, applied, refused, answer, durable,   \* see AtomicStore
          serving,   \* the release production serves
          clock,     \* artifacts generated so far
          job,       \* the state of each CI job
          op,        \* the state of each operator's publication
          req,       \* the route's state in each call
          response   \* what the route answered each call

storeVars == <<store, sent, applied, refused, answer, durable>>
pubVars == <<serving, clock, job, op, req, response>>
vars == <<storeVars, pubVars>>

JobCalls == Jobs \X (1..MaxPosts)
OperatorCalls == Operators \X {1}

None == [release |-> 0]
NoRequest == [at |-> "none", release |-> 0, files |-> << >>, token |-> None]

(***************************************************************************)
(* Tables                                                                  *)
(***************************************************************************)
ArtifactKey(kind, release) == [table |-> "artifacts", id |-> <<kind, release>>]
\* All of CI's short-lived tokens for one release are one identity; the
\* one-time token is another.
TokenKey(j, release) ==
  [table |-> "tokens", id |-> IF j \in OneTime THEN <<"once", 0>> ELSE <<"oidc", release>>]
AuditKey(c) == [table |-> "audit", id |-> c]

Has(key) == key \in DOMAIN store
StoredKinds(release) == {k \in Kinds : Has(ArtifactKey(k, release))}
StoredArtifact(kind, release) == store[ArtifactKey(kind, release)]

RowsMatch(files, release) ==
  \A k \in Kinds : k \in StoredKinds(release) /\ StoredArtifact(k, release) = files[k]

\* Mutant: the upsert replaces whatever is there.
NewerArtifactAlways(value, stored) == TRUE

\* The single endpoint's upsert keeps the newer measurement.
NewerArtifact(value, stored) == value.at > stored.at

Store == INSTANCE AtomicStore WITH Calls <- JobCalls \union OperatorCalls,
                                   Batches <- {}, Newer <- NewerArtifact

(***************************************************************************)
(* Initial state                                                           *)
(***************************************************************************)
Init ==
  /\ Store!Init /\ durable   \* production runs on hosted storage only
  /\ serving = 1 /\ clock = 0
  /\ job = [j \in Jobs |-> [at |-> "idle", start |-> 0, files |-> << >>, posts |-> 0]]
  /\ op = [o \in Operators |-> [at |-> "idle", kind |-> KindOrder[1], file |-> None]]
  /\ req = [c \in JobCalls |-> NoRequest]
  /\ response = [c \in JobCalls |-> "none"]

PublicationsSoFar ==
  Cardinality({c \in JobCalls : req[c].at # "none"}) + Cardinality({o \in Operators : op[o].at # "idle"})

Transition(j, to) == job' = [job EXCEPT ![j].at = to]

Deploy ==
  /\ serving < MaxRelease
  /\ serving' = serving + 1
  /\ UNCHANGED <<storeVars, clock, job, op, req, response>>

(***************************************************************************)
(* The CI job.  A wait that times out, a gate that fails, a failed case or *)
(* a missing identity token ends it: a job that takes no further step.     *)
(***************************************************************************)
Ended == {"idle", "failed", "unpublished", "done"}

\* The runner's files go with it.
Fail(state) == [state EXCEPT !.at = "failed", !.start = 0, !.files = << >>]

\* A push starts its job and cancels the one in progress; by hand, nothing is
\* cancelled.
StartJob(j) ==
  /\ job[j].at = "idle"
  /\ Cardinality({d \in Jobs : job[d].at # "idle"}) < MaxJobs
  /\ job' = [d \in Jobs |->
               IF d = j THEN [job[j] EXCEPT !.at = "waiting"]
               ELSE IF j \in OneTime \/ d \in OneTime \/ job[d].at \in Ended THEN job[d]
               ELSE Fail(job[d])]
  /\ UNCHANGED <<storeVars, serving, clock, op, req, response>>

SeesRelease(j) ==
  /\ job[j].at = "waiting" /\ serving = ReleaseOf[j]
  /\ Transition(j, "gating")
  /\ UNCHANGED <<storeVars, serving, clock, op, req, response>>

\* The gate asks for the release once more, then exercises the product.
PassGate(j) ==
  /\ job[j].at = "gating" /\ serving = ReleaseOf[j]
  /\ Transition(j, "measuring")
  /\ UNCHANGED <<storeVars, serving, clock, op, req, response>>

\* Each script reads the release once, before its questions.
ReadRelease(j) ==
  /\ job[j].at = "measuring" /\ job[j].start = 0
  /\ job' = [job EXCEPT ![j].start = serving]
  /\ UNCHANGED <<storeVars, serving, clock, op, req, response>>

Measured(release, answeredBy) == [release |-> release, at |-> clock + 1, by |-> answeredBy]

NextKind(j) == KindOrder[Cardinality(DOMAIN job[j].files) + 1]

\* A script writes its file after its last answer; it ends well only if every
\* case passed.
Write(j, answeredBy) ==
  LET files == [k \in DOMAIN job[j].files \union {NextKind(j)} |->
                  IF k = NextKind(j) THEN Measured(job[j].start, answeredBy)
                                     ELSE job[j].files[k]] IN
    /\ job' = [job EXCEPT ![j].files = files, ![j].start = 0,
                          ![j].at = IF DOMAIN files = Kinds THEN "publishing" ELSE @]
    /\ clock' = clock + 1
    /\ UNCHANGED <<storeVars, serving, op, req, response>>

MeasureMode(j) ==
  /\ job[j].at = "measuring" /\ job[j].start # 0
  /\ NextKind(j) # "pdf"
  /\ \E answeredBy \in job[j].start..serving : Write(j, answeredBy)

MeasureDocument(j) ==
  /\ job[j].at = "measuring" /\ job[j].start # 0
  /\ NextKind(j) = "pdf"
  /\ \E answeredBy \in job[j].start..serving : Write(j, answeredBy)

\* The publishing script insists on its commit in every file; it may be run
\* again by hand on the files of a job that did not get its answer.
Publish(j) ==
  LET c == <<j, job[j].posts + 1>> IN
    /\ job[j].at \in {"publishing", "unpublished"} /\ job[j].posts < MaxPosts
    /\ PublicationsSoFar < MaxCalls
    /\ \A k \in Kinds : job[j].files[k].release = ReleaseOf[j]
    /\ job' = [job EXCEPT ![j].at = "posted", ![j].posts = @ + 1]
    /\ req' = [req EXCEPT ![c].at = "received", ![c].release = serving,
                          ![c].files = job[j].files]
    /\ UNCHANGED <<storeVars, serving, clock, op, response>>

LastReply(j) == response[<<j, job[j].posts>>]

\* The answer arrives, or thirty seconds pass.
HearReply(j) ==
  /\ job[j].at = "posted"
  /\ \/ LastReply(j) \in {"published", "idempotent"} /\ Transition(j, "verifying")
     \/ LastReply(j) \notin {"published", "idempotent"} /\ Transition(j, "unpublished")
  /\ UNCHANGED <<storeVars, serving, clock, op, req, response>>

\* A row counts for a release only if it names it.
IsCurrentRelease(k, release) ==
  k \in StoredKinds(release) /\ StoredArtifact(k, release).release = release

\* /api/lab shows the rows of the release that serves it; the script waits for
\* every kind of them, measured and durable.
LabShows(release) == serving = release /\ \A k \in Kinds : IsCurrentRelease(k, release)

VerifyLab(j) ==
  /\ job[j].at = "verifying"
  /\ Transition(j, IF LabShows(ReleaseOf[j]) THEN "done" ELSE "failed")
  /\ UNCHANGED <<storeVars, serving, clock, op, req, response>>

(***************************************************************************)
(* POST /api/lab/artifacts/batch                                           *)
(***************************************************************************)
Respond(c, what) ==
  /\ response' = [response EXCEPT ![c] = what]
  /\ req' = [req EXCEPT ![c] = IF what \in {"unknown", "refused"}
                                 THEN [NoRequest EXCEPT !.at = "over"]
                                 ELSE [req[c] EXCEPT !.at = "over", !.token = None]]

\* Mutant: the files' own release is not compared with the running one.
AdmissibleAnyFile(c) == c[1] \in OneTime \/ ReleaseOf[c[1]] = req[c].release

\* The publisher's commit, each file's commit and each file's quality have to
\* be those of the running release.
Admissible(c) ==
  LET r == req[c] IN
    /\ c[1] \in OneTime \/ ReleaseOf[c[1]] = r.release
    /\ \A k \in Kinds : r.files[k].release = r.release

Admit(c) ==
  /\ req[c].at = "received"
  /\ IF Admissible(c)
       THEN req' = [req EXCEPT ![c].at = "consumed"] /\ UNCHANGED response
       ELSE Respond(c, "refused")
  /\ UNCHANGED <<storeVars, serving, clock, job, op>>

TokenNow(c) ==
  LET key == TokenKey(c[1], req[c].release)
  IN IF Has(key) THEN store[key] ELSE None

\* readConsumed, before the batch and again after it failed.
ReadConsumed(c) ==
  /\ \/ req[c].at = "consumed"
     \/ req[c].at = "sent" /\ answer[c] \in {"error", "conflict"}
  /\ req' = [req EXCEPT ![c].token = TokenNow(c),
                        ![c].at = IF req[c].at = "sent" THEN "recheck"
                                  ELSE IF TokenNow(c) = None THEN "stored" ELSE "confirm"]
  /\ UNCHANGED <<storeVars, serving, clock, job, op, response>>

Holds(c) ==
  /\ req[c].token = [release |-> req[c].release, set |-> req[c].files]
  /\ RowsMatch(req[c].files, req[c].release)

\* The identity was used before: the same set is a retry.
Confirm(c) ==
  /\ req[c].at = "confirm"
  /\ Respond(c, IF Holds(c) THEN "idempotent" ELSE "conflict")
  /\ UNCHANGED <<storeVars, serving, clock, job, op>>

\* The receipt, the artifacts that are missing, in any order, and the audit row, in one
\* batch.
Batch(c) ==
  LET r == req[c]
      missing == SetToSeq(Kinds \ StoredKinds(r.release))
  IN <<Store!Insert(TokenKey(c[1], r.release), [release |-> r.release, set |-> r.files])>>
       \o [i \in 1..Len(missing) |->
             Store!Insert(ArtifactKey(missing[i], r.release), r.files[missing[i]])]
       \o <<Store!Insert(AuditKey(c), [set |-> r.files])>>

SendBatch(c) ==
  /\ req[c].at = "stored"
  /\ IF \E k \in StoredKinds(req[c].release) :
          StoredArtifact(k, req[c].release) # req[c].files[k]
       THEN Respond(c, "conflict") /\ UNCHANGED storeVars
       ELSE /\ req' = [req EXCEPT ![c].at = "sent"]
            /\ Store!Send(c, Batch(c))
            /\ UNCHANGED response
  /\ UNCHANGED <<serving, clock, job, op>>

\* Mutant: any failure of the batch is reported as a conflict.
RecheckUnread(c) ==
  /\ req[c].at = "recheck"
  /\ Respond(c, IF Holds(c) THEN "idempotent" ELSE "conflict")
  /\ UNCHANGED <<storeVars, serving, clock, job, op>>

\* The batch failed: another request may have stored the same set.
Recheck(c) ==
  /\ req[c].at = "recheck"
  /\ Respond(c, IF Holds(c) THEN "idempotent"
                ELSE IF answer[c] = "conflict" THEN "conflict" ELSE "unknown")
  /\ UNCHANGED <<storeVars, serving, clock, job, op>>

VerifyRows(c) ==
  /\ req[c].at = "sent" /\ answer[c] = "ok"
  /\ Respond(c, IF RowsMatch(req[c].files, req[c].release) THEN "published" ELSE "unknown")
  /\ UNCHANGED <<storeVars, serving, clock, job, op>>

\* A read fails, or the platform ends the request; its batch goes on.
Break(c) ==
  /\ req[c].at \notin {"none", "over"}
  /\ Respond(c, "unknown")
  /\ UNCHANGED <<storeVars, serving, clock, job, op>>

(***************************************************************************)
(* POST /api/lab/artifacts, the operator's single publication              *)
(***************************************************************************)
\* A file of the operator's own, or one of a job's.
OperatorMeasures(o) ==
  /\ op[o].at = "idle" /\ PublicationsSoFar < MaxCalls
  /\ \E k \in Kinds :
       \E file \in {Measured(serving, serving)}
                    \union {job[j].files[k] : j \in {d \in Jobs : k \in DOMAIN job[d].files}} :
         /\ op' = [op EXCEPT ![o] = [at |-> "measured", kind |-> k, file |-> file]]
         /\ clock' = IF file.at > clock THEN file.at ELSE clock
  /\ UNCHANGED <<storeVars, serving, job, req, response>>

\* Any complete measurement that names the running release is taken.
OperatorPublishes(o) ==
  /\ op[o].at = "measured"
  /\ IF op[o].file.release = serving
       THEN /\ op' = [op EXCEPT ![o].at = "sent"]
            /\ Store!Send(<<o, 1>>, <<Store!Upsert(ArtifactKey(op[o].kind, serving), op[o].file)>>)
       ELSE op' = [op EXCEPT ![o].at = "refused"] /\ UNCHANGED storeVars
  /\ UNCHANGED <<serving, clock, job, req, response>>

\* It reads the row back: a newer one stays.  The audit row that follows may
\* fail, and the publisher then hears of an error.
OperatorConfirms(o) ==
  LET key == ArtifactKey(op[o].kind, op[o].file.release) IN
    /\ op[o].at = "sent" /\ answer[<<o, 1>>] # "waiting"
    /\ \E audited \in BOOLEAN :
         op' = [op EXCEPT ![o].at =
                  IF answer[<<o, 1>>] # "ok" THEN "unknown"
                  ELSE IF ~(Has(key) /\ store[key] = op[o].file) THEN "conflict"
                  ELSE IF audited THEN "published" ELSE "unknown"]
    /\ UNCHANGED <<storeVars, serving, clock, job, req, response>>

(***************************************************************************)
(* The specification                                                       *)
(***************************************************************************)
JobStep(j) ==
  \/ StartJob(j) \/ SeesRelease(j) \/ PassGate(j) \/ ReadRelease(j)
  \/ MeasureMode(j) \/ MeasureDocument(j)
  \/ Publish(j) \/ HearReply(j) \/ VerifyLab(j)

Proceed(c) ==
  \/ Admit(c) \/ ReadConsumed(c) \/ Confirm(c) \/ SendBatch(c)
  \/ Recheck(c) \/ VerifyRows(c)

OperatorStep(o) == OperatorMeasures(o) \/ OperatorPublishes(o) \/ OperatorConfirms(o)

\* The database applies what it was sent and answers, in any order.
Database ==
  /\ \E c \in JobCalls \union OperatorCalls :
       Store!Apply(c) \/ Store!Refuse(c) \/ Store!Tell(c)
  /\ UNCHANGED pubVars

Next ==
  \/ Deploy
  \/ \E j \in Jobs : JobStep(j)
  \/ \E c \in JobCalls : Proceed(c) \/ Break(c)
  \/ \E o \in Operators : OperatorStep(o)
  \/ Database

Spec == Init /\ [][Next]_vars

(***************************************************************************)
(* Properties                                                              *)
(***************************************************************************)
TypeOK ==
  /\ applied \subseteq JobCalls \union OperatorCalls /\ durable \in BOOLEAN
  /\ answer \in [JobCalls \union OperatorCalls ->
                  {"none", "waiting", "ok", "conflict", "error"}]
  /\ serving \in 1..MaxRelease /\ clock \in Nat
  /\ \A j \in Jobs : /\ job[j].at \in Ended \union {"waiting", "gating", "measuring",
                                        "publishing", "posted", "verifying"}
                     /\ job[j].posts \in 0..MaxPosts
                     /\ DOMAIN job[j].files \subseteq Kinds
  /\ \A c \in JobCalls :
       /\ req[c].at \in {"none", "received", "consumed", "confirm", "stored", "sent",
                         "recheck", "over"}
       /\ response[c] \in {"none", "refused", "published", "idempotent", "conflict", "unknown"}

\* Evidence stored for a release was measured on that release and its questions
\* were answered by it, although a job reads the release once and production may
\* move while it measures (app/api/lab/artifacts/batch/route.ts:261).
EvidenceIsOfItsRelease ==
  \A k \in Kinds, r \in 1..MaxRelease :
    k \in StoredKinds(r) => StoredArtifact(k, r).release = r /\ StoredArtifact(k, r).by = r

\* A consumed identity stands for a whole publication: its audit row is there,
\* and of each kind its own artifact or a newer one of the operator's, though
\* the stored kinds are read before the batch
\* (app/api/lab/artifacts/batch/route.ts:386).
PublicationIsWhole ==
  \A key \in DOMAIN store :
    key.table = "tokens" =>
      LET set == store[key].set
          r == store[key].release IN
        /\ \E c \in JobCalls : Has(AuditKey(c)) /\ store[AuditKey(c)].set = set
        /\ \A k \in Kinds : /\ k \in StoredKinds(r)
                            /\ \/ StoredArtifact(k, r) = set[k]
                               \/ StoredArtifact(k, r).at > set[k].at

\* What is stored as evidence of a release is of that release and, under a consumed
\* identity, all there.
EvidenceIsSound == TypeOK /\ EvidenceIsOfItsRelease /\ PublicationIsWhole

\* A publisher told of success has its own set stored, also when the batch's
\* answer was lost and a reread decided (app/api/lab/artifacts/batch/route.ts:431).
SuccessIsStored ==
  \A c \in JobCalls :
    response[c] \in {"published", "idempotent"} =>
      /\ Has(TokenKey(c[1], req[c].release))
      /\ store[TokenKey(c[1], req[c].release)].set = req[c].files

\* A publisher told of a conflict has published nothing and never will, even if
\* its batch was still running when the answer was lost
\* (app/api/lab/artifacts/batch/route.ts:440).
ConflictWroteNothing ==
  \A c \in JobCalls :
    response[c] = "conflict" => c \notin applied /\ (sent[c] # <<>> => c \in refused)

\* A publisher is told the truth, though the answer of its batch may be lost and its retry
\* race the batch.
RepliesAreTrue == SuccessIsStored /\ ConflictWroteNothing

\* Stored evidence is replaced only by a newer measurement, whoever publishes
\* and however late a statement lands (app/api/lab/artifacts/route.ts:155).
EvidenceOnlyAdvances ==
  [][\A k \in Kinds, r \in 1..MaxRelease :
         k \in StoredKinds(r) =>
           /\ k \in StoredKinds(r)'
           /\ \/ StoredArtifact(k, r)' = StoredArtifact(k, r)
              \/ StoredArtifact(k, r).at' > StoredArtifact(k, r).at]_vars
=============================================================================
