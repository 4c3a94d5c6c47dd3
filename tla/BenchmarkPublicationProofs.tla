--------------------- MODULE BenchmarkPublicationProofs ---------------------
(***************************************************************************)
(* Machine-checked proofs about BenchmarkPublication, for any jobs, kinds, *)
(* operators and releases.                                                 *)
(***************************************************************************)
EXTENDS BenchmarkPublication, FiniteSetTheorems, WellFoundedInduction, TLAPS

(***************************************************************************)
(* The invariant.                                                          *)
(***************************************************************************)
AllCalls == JobCalls \union OperatorCalls

File == [release : Nat, at : Nat, by : Nat]
FileSets == [Kinds -> File]
PartialFiles == UNION {[K -> File] : K \in SUBSET Kinds}
Receipts == [release : Nat, set : FileSets]

JobStates == Ended \union {"waiting", "gating", "measuring", "publishing", "posted", "verifying"}
RequestStates ==
  {"none", "received", "consumed", "confirm", "stored", "sent", "recheck", "over"}
Replies == {"none", "refused", "published", "idempotent", "conflict", "unknown"}
OperatorStates == {"idle", "measured", "sent", "refused", "unknown", "conflict", "published"}

ShapeInv ==
  /\ serving \in 1..MaxRelease /\ clock \in Nat /\ durable \in BOOLEAN
  /\ job \in [Jobs -> [at : JobStates, start : Nat, files : PartialFiles, posts : 0..MaxPosts]]
  /\ op \in [Operators -> [at : OperatorStates, kind : Kinds, file : File \union {None}]]
  /\ req \in [JobCalls -> [at : RequestStates, release : Nat, files : PartialFiles,
                           token : Receipts \union {None}]]
  /\ response \in [JobCalls -> Replies]
  /\ sent = [c \in AllCalls |-> sent[c]]
  /\ answer \in [AllCalls -> {"none", "waiting", "ok", "conflict", "error"}]
  /\ applied \subseteq AllCalls /\ refused \subseteq AllCalls

\* A file names the release its questions began on; a later one may have answered them.
Tested(file, now) == file.release <= file.by /\ file.by <= now

\* A set that is evidence of a release: it names that release throughout, and no other
\* answered its questions.
Evidence(set, r) ==
  /\ r \in Nat \ {0} /\ set \in FileSets
  /\ \A k \in Kinds : set[k].release = r /\ set[k].by = r

MeasureInv ==
  /\ \A j \in Jobs :
       /\ job[j].start <= serving
       /\ \A k \in DOMAIN job[j].files : Tested(job[j].files[k], serving)
       /\ job[j].at \in {"idle", "waiting", "gating", "measuring"} => DOMAIN job[j].files # Kinds
       /\ job[j].at \in {"publishing", "posted", "unpublished", "verifying"} =>
            DOMAIN job[j].files = Kinds
  /\ \A o \in Operators :
       /\ op[o].at \in {"measured", "sent"} => op[o].file \in File /\ Tested(op[o].file, serving)
       /\ op[o].at \in {"idle", "measured"} => answer[<<o, 1>>] = "none"

\* A request that was admitted holds evidence of the release it was served by.
RequestSound(c) ==
  /\ response[c] # "none" => req[c].at = "over"
  /\ c[2] > job[c[1]].posts => req[c].at = "none"
  /\ req[c].at = "received" =>
       /\ req[c].release # 0 /\ req[c].files \in FileSets
       /\ \A k \in Kinds : Tested(req[c].files[k], req[c].release)
  /\ \/ req[c].at \in {"consumed", "confirm", "stored", "sent", "recheck"}
     \/ response[c] \in {"published", "idempotent"}
     => Evidence(req[c].files, req[c].release)
  /\ req[c].at \in {"none", "received", "consumed", "confirm", "stored"} => answer[c] = "none"
  /\ req[c].at \in {"sent", "recheck"} =>
       /\ answer[c] # "none"
       /\ sent[c][1].value = [release |-> req[c].release, set |-> req[c].files]
  /\ req[c].at \in {"confirm", "recheck"} /\ req[c].token # None =>
       /\ Has(TokenKey(c[1], req[c].release))
       /\ req[c].token = store[TokenKey(c[1], req[c].release)]

RequestInv == \A c \in JobCalls : RequestSound(c)

CallInv ==
  \A c \in AllCalls :
    /\ answer[c] = "none" => sent[c] = << >>
    /\ c \in applied \union refused => answer[c] # "none"
    /\ c \notin applied \intersect refused
    /\ answer[c] = "ok" => c \in applied
    /\ answer[c] = "conflict" => c \in refused

\* The kind has a row that is the set's or newer.
Covered(k, r, set) ==
  /\ Has(ArtifactKey(k, r))
  /\ \/ StoredArtifact(k, r) = set[k]
     \/ StoredArtifact(k, r).at > set[k].at

\* What a job's batch inserts: the receipt, artifacts of its set and an audit row; a kind it
\* leaves out is covered already.
Publishes(c, batch, r, set) ==
  /\ Evidence(set, r)
  /\ Len(batch) \in Nat
  /\ \E n \in 1..Len(batch) : n # 1 /\ batch[n] = Store!Insert(AuditKey(c), [set |-> set])
  /\ batch[1] = Store!Insert(TokenKey(c[1], r), [release |-> r, set |-> set])
  /\ \A i \in 1..Len(batch) :
       \/ batch[i] = batch[1]
       \/ batch[i] = Store!Insert(AuditKey(c), [set |-> set])
       \/ \E k \in Kinds : batch[i] = Store!Insert(ArtifactKey(k, r), set[k])
  /\ \A k \in Kinds :
       \/ \E i \in 1..Len(batch) : batch[i] = Store!Insert(ArtifactKey(k, r), set[k])
       \/ Covered(k, r, set)

JobBatch(c) == Publishes(c, sent[c], sent[c][1].value.release, sent[c][1].value.set)

OperatorBatch(c) ==
  LET file == sent[c][1].value IN
    /\ file \in File /\ file.by = file.release
    /\ \E k \in Kinds : sent[c] = <<Store!Upsert(ArtifactKey(k, file.release), file)>>

SentInv ==
  /\ \A c \in JobCalls : answer[c] # "none" => JobBatch(c)
  /\ \A c \in OperatorCalls : answer[c] # "none" => OperatorBatch(c)
  /\ \A c \in JobCalls \intersect applied :
       Has(sent[c][1].key) /\ store[sent[c][1].key] = sent[c][1].value

Whole(r, set) ==
  /\ \E c \in JobCalls : Has(AuditKey(c)) /\ store[AuditKey(c)].set = set
  /\ \A k \in Kinds : Covered(k, r, set)

StoreInv ==
  \A key \in DOMAIN store :
    \/ \E k \in Kinds :
         /\ store[key] \in File /\ key = ArtifactKey(k, store[key].release)
         /\ store[key].by = store[key].release
    \/ /\ key.table = "tokens" /\ store[key] \in Receipts
       /\ Whole(store[key].release, store[key].set)
    \/ key.table = "audit"

IInv ==
  /\ ShapeInv /\ MeasureInv /\ RequestInv /\ CallInv /\ SentInv /\ StoreInv
  /\ RepliesAreTrue

(***************************************************************************)
(* Induction.                                                              *)
(***************************************************************************)
\* Every nonempty set of natural numbers has a least element.
LEMMA Least ==
  ASSUME NEW T \in SUBSET Nat, T # {}
  PROVE  \E n \in T : \A m \in T : ~(m < n)
<1> DEFINE R == OpToRel(<, Nat)
<1>1. \A x, y \in Nat : x < y => <<x, y>> \in R
  BY DEF OpToRel
<1>2. IsWellFoundedOn(R, Nat)
  BY NatLessThanWellFounded
<1> HIDE DEF R
<1>3. \A RR, S, TT : IsWellFoundedOn(RR, S) /\ TT \subseteq S /\ TT # {} =>
        \E x \in TT : \A y \in TT : ~(<<y, x>> \in RR)
  BY WFMin
<1>4. \E x \in T : \A y \in T : ~(<<y, x>> \in R)
  BY <1>2, <1>3
<1>5. QED
  BY <1>1, <1>4

\* Induction over the natural numbers, for a set.
LEMMA SetInduction ==
  ASSUME NEW T, 0 \in T, \A n \in Nat : n \in T => n + 1 \in T
  PROVE  Nat \subseteq T
<1> SUFFICES ASSUME Nat \ T # {} PROVE FALSE
  OBVIOUS
<1>1. PICK n \in Nat \ T : \A m \in Nat \ T : ~(m < n)
  <2>1. Nat \ T \in SUBSET Nat
    OBVIOUS
  <2>2. QED
    BY <2>1, Least
<1>2. n # 0 /\ n - 1 \in Nat /\ n - 1 < n
  OBVIOUS
<1>3. n - 1 \in T
  BY <1>1, <1>2
<1>4. (n - 1) + 1 = n
  OBVIOUS
<1>5. QED
  BY <1>2, <1>3, <1>4

(***************************************************************************)
(* What a batch leaves in the store.                                       *)
(***************************************************************************)
\* The tables of a path follow from each other.
LEMMA PathEquation ==
  ASSUME NEW b, NEW t, Len(b) \in Nat
  PROVE  Store!Path(b, t) = [i \in 0..Len(b) |->
                         IF i = 0 THEN t ELSE Store!After(b[i], Store!Path(b, t)[i - 1])]
<1> DEFINE Solves(f, n) == f = [i \in 0..n |-> IF i = 0 THEN t ELSE Store!After(b[i], f[i - 1])]
           T == {n \in Nat : \E f : Solves(f, n)}
<1>1. 0 \in T
  <2>1. Solves([i \in 0..0 |-> t], 0)
    OBVIOUS
  <2>2. QED
    BY <2>1
<1>2. \A n \in Nat : n \in T => n + 1 \in T
  <2> SUFFICES ASSUME NEW n \in Nat, NEW f, Solves(f, n) PROVE \E g : Solves(g, n + 1)
    OBVIOUS
  <2> DEFINE g == [i \in 0..(n + 1) |-> IF i = n + 1 THEN Store!After(b[n + 1], f[n]) ELSE f[i]]
  <2>1. \A i \in 0..(n + 1) : i # 0 => g[i - 1] = f[i - 1]
    OBVIOUS
  <2>2. \A i \in 0..(n + 1) : g[i] = IF i = 0 THEN t ELSE Store!After(b[i], g[i - 1])
    BY <2>1
  <2>3. Solves(g, n + 1)
    BY <2>2
  <2>4. QED
    BY <2>3
<1>3. \E f : Solves(f, Len(b))
  BY <1>1, <1>2, SetInduction
<1>4. Store!Path(b, t) = CHOOSE f : Solves(f, Len(b))
  BY DEF Store!Path
<1> HIDE DEF Solves
<1>5. Solves(Store!Path(b, t), Len(b))
  BY <1>3, <1>4
<1>6. QED
  BY <1>5 DEF Solves

\* Inserts that are accepted add their rows and leave the others alone.
LEMMA InsertsResult ==
  ASSUME NEW b, NEW t, Len(b) \in Nat, Store!Accepts(b, t),
         \A i \in 1..Len(b) : b[i].op = "insert"
  PROVE  /\ DOMAIN Store!Result(b, t) = DOMAIN t \union {b[i].key : i \in 1..Len(b)}
         /\ \A key \in DOMAIN t : Store!Result(b, t)[key] = t[key]
         /\ \A i \in 1..Len(b) : Store!Result(b, t)[b[i].key] = b[i].value
<1> DEFINE at == Store!Path(b, t)
           Good(n) == /\ DOMAIN at[n] = DOMAIN t \union {b[i].key : i \in 1..n}
                      /\ \A key \in DOMAIN t : at[n][key] = t[key]
                      /\ \A i \in 1..n : at[n][b[i].key] = b[i].value
           T == {n \in Nat : n <= Len(b) => Good(n)}
<1>1. /\ at[0] = t
      /\ \A n \in 1..Len(b) : at[n] = Store!After(b[n], at[n - 1])
  BY PathEquation
<1>2. \A n \in 1..Len(b) : b[n].key \notin DOMAIN at[n - 1]
  BY DEF Store!Accepts, Store!Fits
<1> HIDE DEF at
<1>3. 0 \in T
  BY <1>1
<1>4. ASSUME NEW n \in Nat, n + 1 <= Len(b), Good(n) PROVE Good(n + 1)
  <2> DEFINE m == n + 1
  <2>1. m \in 1..Len(b) /\ m - 1 = n /\ 1..m = 1..n \union {m}
    BY <1>4
  <2> HIDE DEF m
  <2>2. at[m] = Store!After(b[m], at[n]) /\ b[m].key \notin DOMAIN at[n]
    BY <1>1, <1>2, <2>1
  <2>3. /\ DOMAIN at[m] = DOMAIN at[n] \union {b[m].key}
        /\ at[m][b[m].key] = b[m].value
        /\ \A key \in DOMAIN at[n] : at[m][key] = at[n][key]
    BY <2>2 DEF Store!After, Store!Writes
  <2>4. DOMAIN at[m] = DOMAIN t \union {b[i].key : i \in 1..m}
    BY <1>4, <2>1, <2>3
  <2>5. \A i \in 1..m : at[m][b[i].key] = b[i].value
    BY <1>4, <2>1, <2>3
  <2>6. Good(m)
    BY <1>4, <2>3, <2>4, <2>5
  <2>7. QED
    BY <2>6 DEF m
<1> HIDE DEF Good
<1>5. Good(Len(b))
  <2>1. \A n \in Nat : n \in T => n + 1 \in T
    BY <1>4
  <2> HIDE DEF T
  <2>2. Nat \subseteq T
    BY <1>3, <2>1, SetInduction
  <2>3. QED
    BY <2>2 DEF T
<1>6. QED
  BY <1>5 DEF Good, at, Store!Result

\* One upsert writes its row unless a newer one is there.
LEMMA UpsertResult ==
  ASSUME NEW key, NEW value, NEW t
  PROVE  Store!Result(<<Store!Upsert(key, value)>>, t) =
           [k \in DOMAIN t \union {key} |->
              IF k = key /\ (key \in DOMAIN t => value.at > t[key].at) THEN value ELSE t[k]]
<1> DEFINE b == <<Store!Upsert(key, value)>>
<1>1. Len(b) = 1 /\ b[1] = Store!Upsert(key, value)
  OBVIOUS
<1> HIDE DEF b
<1>2. Store!Result(b, t) = Store!After(b[1], t)
  BY <1>1, PathEquation DEF Store!Result
<1>3. QED
  BY <1>1, <1>2 DEF b, Store!After, Store!Writes, Store!Upsert, NewerArtifact

(***************************************************************************)
(* The files of a job.                                                     *)
(***************************************************************************)
LEMMA PartialFile ==
  ASSUME NEW f \in PartialFiles
  PROVE  /\ DOMAIN f \subseteq Kinds
         /\ \A k \in DOMAIN f : f[k] \in File
         /\ DOMAIN f = Kinds => f \in FileSets
<1>1. PICK K \in SUBSET Kinds : f \in [K -> File]
  BY DEF PartialFiles
<1>2. QED
  BY <1>1 DEF FileSets

LEMMA NoFiles == << >> \in PartialFiles /\ DOMAIN << >> # Kinds /\ DOMAIN << >> = {}
<1>1. << >> \in [{} -> File] /\ DOMAIN << >> = {}
  OBVIOUS
<1>2. Kinds # {}
  BY KindAssumption DEF Kinds
<1>3. QED
  BY <1>1, <1>2 DEF PartialFiles

LEMMA MoreFiles ==
  ASSUME NEW f \in PartialFiles, NEW kind \in Kinds, NEW file \in File
  PROVE  [k \in DOMAIN f \union {kind} |-> IF k = kind THEN file ELSE f[k]] \in PartialFiles
<1> DEFINE K == DOMAIN f \union {kind}
           g == [k \in K |-> IF k = kind THEN file ELSE f[k]]
<1>1. K \in SUBSET Kinds
  BY PartialFile
<1>2. g \in [K -> File]
  BY PartialFile
<1>3. QED
  BY <1>1, <1>2 DEF PartialFiles

\* The kinds are counted by their order.
LEMMA KindsFinite == IsFiniteSet(Kinds) /\ Cardinality(Kinds) <= Len(KindOrder)
<1>1. Len(KindOrder) \in Nat /\ DOMAIN KindOrder = 1..Len(KindOrder)
  BY KindAssumption
<1>2. KindOrder \in Surjection(1..Len(KindOrder), Kinds)
  BY <1>1, KindAssumption DEF Surjection, Kinds
<1>3. IsFiniteSet(1..Len(KindOrder)) /\ Cardinality(1..Len(KindOrder)) = Len(KindOrder)
  <2>1. IsFiniteSet(1..Len(KindOrder)) /\ Cardinality(1..Len(KindOrder)) =
          IF 1 > Len(KindOrder) THEN 0 ELSE Len(KindOrder) - 1 + 1
    BY <1>1, FS_Interval
  <2>2. QED
    BY <1>1, <2>1
<1>4. QED
  BY <1>2, <1>3, FS_Surjection

\* A job that has not measured every kind has a next one.
LEMMA NextKindIs ==
  ASSUME NEW j \in Jobs, DOMAIN job[j].files \subseteq Kinds, DOMAIN job[j].files # Kinds
  PROVE  NextKind(j) \in Kinds
<1> DEFINE D == DOMAIN job[j].files
<1>1. IsFiniteSet(D) /\ Cardinality(D) \in Nat /\ Cardinality(Kinds) \in Nat
  BY KindsFinite, FS_Subset, FS_CardinalityType
<1>2. Cardinality(D) < Cardinality(Kinds)
  BY <1>1, KindsFinite, FS_Subset
<1>3. Cardinality(D) + 1 \in 1..Len(KindOrder)
  BY <1>1, <1>2, KindsFinite, KindAssumption
<1>4. QED
  BY <1>3, KindAssumption DEF NextKind, Kinds

(***************************************************************************)
(* The jobs.                                                               *)
(***************************************************************************)
LEMMA InvInit == Init => IInv
<1> SUFFICES ASSUME Init PROVE IInv
  OBVIOUS
<1> USE DEF Init, Store!Init, AllCalls
<1>1. KindOrder[1] \in Kinds
  BY KindAssumption DEF Kinds
<1>2. ShapeInv
  BY <1>1, NoFiles, BoundAssumption
  DEF ShapeInv, JobStates, Ended, OperatorStates, RequestStates, Replies, NoRequest
<1>3. MeasureInv
  BY NoFiles DEF MeasureInv, OperatorCalls
<1>4. RequestInv
  <2>1. \A c \in JobCalls : /\ req[c].at = "none" /\ response[c] = "none"
                            /\ answer[c] = "none" /\ c[1] \in Jobs
    BY DEF NoRequest, JobCalls
  <2>2. QED
    BY <2>1 DEF RequestInv, RequestSound
<1>5. CallInv
  BY DEF CallInv
<1>6. SentInv
  BY DEF SentInv
<1>7. StoreInv
  BY DEF StoreInv
<1>8. RepliesAreTrue
  BY DEF RepliesAreTrue, SuccessIsStored, ConflictWroteNothing
<1>9. QED
  BY <1>2, <1>3, <1>4, <1>5, <1>6, <1>7, <1>8 DEF IInv

\* What only concerns the database stays when it does.
LEMMA StoreFrame ==
  ASSUME IInv, UNCHANGED storeVars
  PROVE  CallInv' /\ SentInv' /\ StoreInv'
<1>1. CallInv'
  BY DEF IInv, CallInv, storeVars, AllCalls
<1>2. \A k, r, set : Covered(k, r, set)' <=> Covered(k, r, set)
  BY DEF Covered, storeVars, Has, StoredArtifact
<1>3. SentInv'
  BY <1>2 DEF IInv, SentInv, storeVars, JobBatch, OperatorBatch, Publishes, Has
<1>4. StoreInv'
  BY <1>2 DEF IInv, StoreInv, Whole, storeVars, Has
<1>5. QED
  BY <1>1, <1>3, <1>4

\* A step of the jobs, of the operators or of production leaves the requests alone.
LEMMA RequestFrame ==
  ASSUME IInv, UNCHANGED <<storeVars, req, response>>,
         \A j \in Jobs : job'[j].posts = job[j].posts, ShapeInv', MeasureInv'
  PROVE  IInv'
<1>1. RequestInv'
  BY DEF IInv, RequestInv, RequestSound, storeVars, JobCalls, Has
<1>2. RepliesAreTrue'
  BY DEF IInv, RepliesAreTrue, SuccessIsStored, ConflictWroteNothing, storeVars, Has
<1>3. QED
  BY <1>1, <1>2, StoreFrame DEF IInv

LEMMA DeployKeeps == IInv /\ Deploy => IInv'
<1> SUFFICES ASSUME IInv, Deploy PROVE IInv'
  OBVIOUS
<1>1. ShapeInv'
  BY BoundAssumption DEF IInv, ShapeInv, Deploy, storeVars
<1>2. \A file \in File : Tested(file, serving) => Tested(file, serving')
  BY DEF IInv, ShapeInv, Deploy, Tested, File
<1>3. \A j \in Jobs : \A k \in DOMAIN job[j].files : job[j].files[k] \in File
  BY PartialFile DEF IInv, ShapeInv
<1>4. MeasureInv'
  BY <1>2, <1>3 DEF IInv, ShapeInv, MeasureInv, Deploy, storeVars
<1>5. QED
  BY <1>1, <1>4, RequestFrame DEF Deploy

\* A job that only moves on.
LEMMA MoveKeeps ==
  ASSUME IInv, NEW j \in Jobs, NEW to \in JobStates, Transition(j, to),
         UNCHANGED <<storeVars, serving, clock, op, req, response>>,
         to \in {"waiting", "gating", "measuring"} =>
           job[j].at \in {"idle", "waiting", "gating", "measuring"},
         to # "idle",
         to \in {"publishing", "posted", "unpublished", "verifying"} =>
           job[j].at \in {"publishing", "posted", "unpublished", "verifying"}
  PROVE  IInv'
<1>1. /\ job' \in [Jobs -> [at : JobStates, start : Nat, files : PartialFiles,
                            posts : 0..MaxPosts]]
      /\ job'[j].at = to
      /\ \A d \in Jobs : /\ d # j => job'[d] = job[d]
                         /\ job'[d].files = job[d].files
                         /\ job'[d].start = job[d].start /\ job'[d].posts = job[d].posts
  BY DEF IInv, ShapeInv, Transition
<1>2. ShapeInv'
  BY <1>1 DEF IInv, ShapeInv, storeVars
<1>3. MeasureInv'
  BY <1>1 DEF IInv, MeasureInv, storeVars
<1>4. QED
  BY <1>1, <1>2, <1>3, RequestFrame

LEMMA StartKeeps == ASSUME IInv, NEW j \in Jobs, StartJob(j) PROVE IInv'
<1>1. \A d \in Jobs :
        \/ d = j /\ job[d].at = "idle" /\ job'[d] = [job[d] EXCEPT !.at = "waiting"]
        \/ d # j /\ job'[d] = job[d]
        \/ job'[d] = [job[d] EXCEPT !.at = "failed", !.start = 0, !.files = << >>]
  BY DEF StartJob, Fail
<1>2. \A d \in Jobs : job[d] \in [at : JobStates, start : Nat, files : PartialFiles,
                                  posts : 0..MaxPosts]
  BY DEF IInv, ShapeInv
<1>3. ASSUME NEW d \in Jobs
      PROVE  /\ job'[d] \in [at : JobStates, start : Nat, files : PartialFiles,
                              posts : 0..MaxPosts]
             /\ job'[d].posts = job[d].posts
             /\ \/ /\ job'[d].start = job[d].start /\ job'[d].files = job[d].files
                   /\ \/ job'[d].at = job[d].at
                      \/ job[d].at = "idle" /\ job'[d].at = "waiting"
                \/ job'[d].at = "failed" /\ job'[d].start = 0 /\ DOMAIN job'[d].files = {}
  <2> USE DEF JobStates, Ended
  <2>1. CASE d = j /\ job[d].at = "idle" /\ job'[d] = [job[d] EXCEPT !.at = "waiting"]
    BY <1>2, <2>1
  <2>2. CASE job'[d] = [job[d] EXCEPT !.at = "failed", !.start = 0, !.files = << >>]
    <3>1. << >> \in PartialFiles /\ DOMAIN << >> = {}
      BY NoFiles
    <3>2. /\ job'[d].at = "failed" /\ job'[d].start = 0 /\ job'[d].files = << >>
          /\ job'[d].posts = job[d].posts
          /\ job'[d] = [at |-> "failed", start |-> 0, files |-> << >>, posts |-> job[d].posts]
      BY <1>2, <2>2
    <3>3. job[d].posts \in 0..MaxPosts
      BY <1>2
    <3>4. QED
      BY <3>1, <3>2, <3>3
  <2>3. QED
    BY <1>1, <1>2, <2>1, <2>2
<1>4. job' = [d \in Jobs |-> job'[d]]
  BY DEF StartJob
<1>5. job' \in [Jobs -> [at : JobStates, start : Nat, files : PartialFiles,
                         posts : 0..MaxPosts]]
  BY <1>3, <1>4
<1>6. ShapeInv'
  BY <1>5 DEF IInv, ShapeInv, StartJob, storeVars
<1>9. 0 <= serving
  BY BoundAssumption DEF IInv, ShapeInv
<1>10. MeasureInv'
  BY <1>3, <1>9 DEF IInv, MeasureInv, StartJob, storeVars
<1>11. QED
  BY <1>3, <1>6, <1>10, RequestFrame DEF StartJob

LEMMA ReadReleaseKeeps == ASSUME IInv, NEW j \in Jobs, ReadRelease(j) PROVE IInv'
<1>1. serving \in Nat
  BY BoundAssumption DEF IInv, ShapeInv
<1>2. /\ job' \in [Jobs -> [at : JobStates, start : Nat, files : PartialFiles,
                            posts : 0..MaxPosts]]
      /\ job'[j].start = serving
      /\ \A d \in Jobs : /\ d # j => job'[d] = job[d]
                         /\ job'[d].files = job[d].files
                         /\ job'[d].at = job[d].at /\ job'[d].posts = job[d].posts
  BY <1>1 DEF IInv, ShapeInv, ReadRelease
<1>3. ShapeInv'
  BY <1>2 DEF IInv, ShapeInv, ReadRelease, storeVars
<1>4. MeasureInv'
  BY <1>1, <1>2 DEF IInv, MeasureInv, ReadRelease, storeVars
<1>5. QED
  BY <1>2, <1>3, <1>4, RequestFrame DEF ReadRelease

LEMMA WriteKeeps ==
  ASSUME IInv, NEW j \in Jobs, job[j].at = "measuring", job[j].start # 0,
         NEW answeredBy \in job[j].start..serving, Write(j, answeredBy)
  PROVE  IInv'
<1> DEFINE file == Measured(job[j].start, answeredBy)
           files == [k \in DOMAIN job[j].files \union {NextKind(j)} |->
                       IF k = NextKind(j) THEN file ELSE job[j].files[k]]
<1>1. /\ serving \in Nat /\ clock \in Nat
      /\ job[j] \in [at : JobStates, start : Nat, files : PartialFiles, posts : 0..MaxPosts]
  BY BoundAssumption DEF IInv, ShapeInv
<1>2. DOMAIN job[j].files \subseteq Kinds /\ DOMAIN job[j].files # Kinds
  BY <1>1, PartialFile DEF IInv, MeasureInv
<1>3. NextKind(j) \in Kinds
  BY <1>2, NextKindIs
<1>4. file \in File /\ Tested(file, serving)
  BY <1>1 DEF Measured, File, Tested
<1>5. files \in PartialFiles
  BY <1>1, <1>3, <1>4, MoreFiles
<1>6. \A k \in DOMAIN files : Tested(files[k], serving)
  BY <1>4 DEF IInv, MeasureInv
<1>7. /\ job' = [job EXCEPT ![j].files = files, ![j].start = 0,
                            ![j].at = IF DOMAIN files = Kinds THEN "publishing" ELSE @]
      /\ clock' = clock + 1
      /\ UNCHANGED <<storeVars, serving, op, req, response>>
  BY DEF Write
<1> HIDE DEF files, file
<1>8. /\ job' \in [Jobs -> [at : JobStates, start : Nat, files : PartialFiles,
                            posts : 0..MaxPosts]]
      /\ job'[j].start = 0 /\ job'[j].files = files /\ job'[j].posts = job[j].posts
      /\ job'[j].at = IF DOMAIN files = Kinds THEN "publishing" ELSE "measuring"
      /\ \A d \in Jobs : d # j => job'[d] = job[d]
  BY <1>1, <1>5, <1>7 DEF IInv, ShapeInv, JobStates
<1>9. ShapeInv'
  BY <1>1, <1>7, <1>8 DEF IInv, ShapeInv, storeVars
<1>10. MeasureInv'
  BY <1>1, <1>6, <1>7, <1>8 DEF IInv, MeasureInv, storeVars
<1>11. QED
  BY <1>7, <1>8, <1>9, <1>10, RequestFrame

LEMMA PublishKeeps == ASSUME IInv, NEW j \in Jobs, Publish(j) PROVE IInv'
<1>1. /\ serving \in Nat \ {0} /\ MaxPosts \in Nat
      /\ job[j] \in [at : JobStates, start : Nat, files : PartialFiles, posts : 0..MaxPosts]
  BY BoundAssumption DEF IInv, ShapeInv
<1>2. PICK c \in JobCalls : /\ c = <<j, job[j].posts + 1>>
                              /\ c[1] = j /\ c[2] = job[j].posts + 1 /\ c[2] > job[j].posts
  BY <1>1 DEF Publish, JobCalls
<1>3. /\ job[j].files \in PartialFiles /\ job[j].files \in FileSets
      /\ \A k \in Kinds : Tested(job[j].files[k], serving)
  <2>1. /\ DOMAIN job[j].files = Kinds
        /\ \A k \in DOMAIN job[j].files : Tested(job[j].files[k], serving)
    BY DEF IInv, MeasureInv, Publish
  <2>2. job[j].files \in FileSets
    BY <1>1, <2>1, PartialFile
  <2>3. QED
    BY <1>1, <2>1, <2>2
<1>4. /\ job' = [job EXCEPT ![j].at = "posted", ![j].posts = @ + 1]
      /\ req' = [req EXCEPT ![c].at = "received", ![c].release = serving,
                            ![c].files = job[j].files]
      /\ UNCHANGED <<storeVars, serving, clock, op, response>>
      /\ job[j].at \in {"publishing", "unpublished"} /\ job[j].posts < MaxPosts
  BY <1>2 DEF Publish
<1>5. req[c].at = "none" /\ response[c] = "none" /\ answer[c] = "none"
  BY <1>2 DEF IInv, RequestInv, RequestSound
<1>6. /\ req' \in [JobCalls -> [at : RequestStates, release : Nat, files : PartialFiles,
                           token : Receipts \union {None}]]
      /\ req'[c].at = "received" /\ req'[c].release = serving /\ req'[c].files = job[j].files
      /\ \A d \in JobCalls : d # c => req'[d] = req[d]
  <2> DEFINE Row == [at : RequestStates, release : Nat, files : PartialFiles,
                     token : Receipts \union {None}]
             new == [[[req[c] EXCEPT !.at = "received"] EXCEPT !.release = serving]
                       EXCEPT !.files = job[j].files]
  <2>1. req \in [JobCalls -> Row]
    BY DEF IInv, ShapeInv
  <2>2. /\ new \in Row /\ new.at = "received" /\ new.release = serving
        /\ new.files = job[j].files
    BY <1>1, <1>2, <1>3, <2>1 DEF RequestStates
  <2>3. req' = [req EXCEPT ![c] = new]
    BY <1>2, <1>4, <2>1
  <2> HIDE DEF Row, new
  <2>4. /\ req' \in [JobCalls -> Row] /\ req'[c] = new
        /\ \A d \in JobCalls : d # c => req'[d] = req[d]
    BY <1>2, <2>1, <2>2, <2>3
  <2>5. QED
    BY <2>2, <2>4 DEF Row
<1>7. /\ job' \in [Jobs -> [at : JobStates, start : Nat, files : PartialFiles,
                            posts : 0..MaxPosts]]
      /\ job'[j].posts = job[j].posts + 1 /\ job'[j].at = "posted"
      /\ job'[j].files = job[j].files /\ job'[j].start = job[j].start
      /\ \A d \in Jobs : d # j => job'[d] = job[d]
  BY <1>1, <1>4 DEF IInv, ShapeInv, JobStates
<1>8. ShapeInv'
  BY <1>4, <1>6, <1>7 DEF IInv, ShapeInv, storeVars
<1>9. MeasureInv'
  BY <1>4, <1>7 DEF IInv, MeasureInv, storeVars
<1>10. \A d \in JobCalls : d # c /\ d[2] > job'[d[1]].posts => req'[d].at = "none"
  <2> SUFFICES ASSUME NEW d \in JobCalls, d # c, d[2] > job'[d[1]].posts
               PROVE req[d].at = "none"
    BY <1>6
  <2>1. d[1] \in Jobs /\ d[2] \in Nat
    BY DEF JobCalls
  <2>2. d[2] > job[d[1]].posts
    BY <1>1, <1>7, <2>1
  <2>3. QED
    BY <2>2 DEF IInv, RequestInv, RequestSound
<1>11. /\ ~(c[2] > job'[c[1]].posts)
  BY <1>1, <1>2, <1>7
<1>12. RequestInv'
  <2> USE DEF RequestInv, RequestSound, IInv, storeVars, Has
  <2>1. RequestSound(c)'
    BY <1>1, <1>3, <1>4, <1>5, <1>6, <1>11
  <2>2. ASSUME NEW d \in JobCalls, d # c PROVE RequestSound(d)'
    BY <1>4, <1>6, <1>10, <2>2
  <2>3. QED
    BY <2>1, <2>2
<1>13. RepliesAreTrue'
  BY <1>4, <1>5, <1>6
  DEF IInv, RepliesAreTrue, SuccessIsStored, ConflictWroteNothing, storeVars, Has
<1>14. QED
  BY <1>4, <1>8, <1>9, <1>12, <1>13, StoreFrame DEF IInv

LEMMA JobKeeps == ASSUME IInv, NEW j \in Jobs, JobStep(j) PROVE IInv'
<1>1. CASE StartJob(j)
  BY <1>1, StartKeeps
<1>2. CASE SeesRelease(j)
  BY <1>2, MoveKeeps DEF SeesRelease, JobStates
<1>3. CASE PassGate(j)
  BY <1>3, MoveKeeps DEF PassGate, JobStates
<1>4. CASE ReadRelease(j)
  BY <1>4, ReadReleaseKeeps
<1>5. CASE MeasureMode(j) \/ MeasureDocument(j)
  BY <1>5, WriteKeeps DEF MeasureMode, MeasureDocument
<1>6. CASE Publish(j)
  BY <1>6, PublishKeeps
<1>7. CASE HearReply(j)
  BY <1>7, MoveKeeps DEF HearReply, JobStates, Ended
<1>8. CASE VerifyLab(j)
  BY <1>8, MoveKeeps DEF VerifyLab, JobStates, Ended
<1>9. QED
  BY <1>1, <1>2, <1>3, <1>4, <1>5, <1>6, <1>7, <1>8 DEF JobStep

LEMMA MeasuresKeeps == ASSUME IInv, NEW o \in Operators, OperatorMeasures(o) PROVE IInv'
<1> DEFINE FilesOf(k) == {Measured(serving, serving)}
                    \union {job[j].files[k] : j \in {d \in Jobs : k \in DOMAIN job[d].files}}
<1>0. PICK k \in Kinds : \E file \in FilesOf(k) :
        /\ op' = [op EXCEPT ![o] = [at |-> "measured", kind |-> k, file |-> file]]
        /\ clock' = IF file.at > clock THEN file.at ELSE clock
  BY DEF OperatorMeasures
<1>1. PICK file \in FilesOf(k) :
        /\ op' = [op EXCEPT ![o] = [at |-> "measured", kind |-> k, file |-> file]]
        /\ clock' = IF file.at > clock THEN file.at ELSE clock
  BY <1>0
<1>2. serving \in Nat /\ clock \in Nat
  BY BoundAssumption DEF IInv, ShapeInv
<1>3. file \in File /\ Tested(file, serving)
  <2>1. CASE file = Measured(serving, serving)
    BY <1>2, <2>1 DEF Measured, File, Tested
  <2>2. CASE \E j \in Jobs : k \in DOMAIN job[j].files /\ file = job[j].files[k]
    BY <2>2, PartialFile DEF IInv, ShapeInv, MeasureInv
  <2>3. QED
    BY <2>1, <2>2
<1>4. /\ op' \in [Operators -> [at : OperatorStates, kind : Kinds, file : File \union {None}]]
      /\ op'[o].at = "measured" /\ op'[o].file = file
      /\ \A d \in Operators : d # o => op'[d] = op[d]
  BY <1>1, <1>3 DEF IInv, ShapeInv, OperatorStates
<1>5. answer[<<o, 1>>] = "none"
  BY DEF IInv, MeasureInv, OperatorMeasures
<1>6. clock' \in Nat
  BY <1>1, <1>2, <1>3 DEF File
<1>7. ShapeInv'
  BY <1>4, <1>6 DEF IInv, ShapeInv, OperatorMeasures, storeVars
<1>8. MeasureInv'
  BY <1>3, <1>4, <1>5 DEF IInv, MeasureInv, OperatorMeasures, storeVars
<1>9. QED
  BY <1>7, <1>8, RequestFrame DEF OperatorMeasures

(***************************************************************************)
(* The requests.                                                           *)
(***************************************************************************)
\* A request that is answered, or broken off.
LEMMA RespondKeeps ==
  ASSUME IInv, NEW c \in JobCalls, NEW what \in Replies \ {"none"}, Respond(c, what),
         req[c].at \notin {"none", "over"},
         UNCHANGED <<storeVars, serving, clock, job, op>>,
         what \in {"published", "idempotent"} =>
           /\ req[c].at # "received"
           /\ Has(TokenKey(c[1], req[c].release))
           /\ store[TokenKey(c[1], req[c].release)].set = req[c].files,
         what = "conflict" => c \notin applied /\ (sent[c] # <<>> => c \in refused)
  PROVE  IInv'
<1>1. req[c] \in [at : RequestStates, release : Nat, files : PartialFiles,
                  token : Receipts \union {None}]
  BY DEF IInv, ShapeInv
<1>2. /\ response' \in [JobCalls -> Replies]
      /\ response'[c] = what
      /\ \A d \in JobCalls : d # c => response'[d] = response[d]
  BY DEF IInv, ShapeInv, Respond
<1>3. /\ req' \in [JobCalls -> [at : RequestStates, release : Nat, files : PartialFiles,
                                token : Receipts \union {None}]]
      /\ \A d \in JobCalls : d # c => req'[d] = req[d]
      /\ req'[c].at = "over"
      /\ what \notin {"unknown", "refused"} =>
           req'[c].release = req[c].release /\ req'[c].files = req[c].files
  <2>1. CASE what \in {"unknown", "refused"}
    <3> DEFINE q == [NoRequest EXCEPT !.at = "over"]
    <3>1. q = [at |-> "over", release |-> 0, files |-> << >>, token |-> None]
      BY DEF NoRequest
    <3> HIDE DEF q
    <3>2. req' = [req EXCEPT ![c] = q]
      BY <2>1 DEF Respond, q
    <3>3. q \in [at : RequestStates, release : Nat, files : PartialFiles,
                 token : Receipts \union {None}]
      BY <3>1, NoFiles DEF RequestStates
    <3>4. q.at = "over"
      BY <3>1
    <3>5. QED
      BY <2>1, <3>2, <3>3, <3>4 DEF IInv, ShapeInv
  <2>2. CASE what \notin {"unknown", "refused"}
    <3>1. req' = [req EXCEPT ![c] = [req[c] EXCEPT !.at = "over", !.token = None]]
      BY <2>2 DEF Respond
    <3>2. QED
      BY <1>1, <3>1 DEF IInv, ShapeInv, RequestStates
  <2>3. QED
    BY <2>1, <2>2
<1>4. ShapeInv'
  BY <1>2, <1>3 DEF IInv, ShapeInv, storeVars
<1>5. MeasureInv'
  BY DEF IInv, MeasureInv, storeVars
<1>6. RequestInv'
  <2> USE DEF RequestInv, RequestSound, IInv, storeVars, Has
  <2>1. req[c].at \in {"received", "consumed", "confirm", "stored", "sent", "recheck"}
    BY <1>1 DEF RequestStates
  <2>2. ~(c[2] > job[c[1]].posts)
    OBVIOUS
  <2>3. what \in {"published", "idempotent"} => Evidence(req[c].files, req[c].release)
    BY <2>1
  <2>4. RequestSound(c)'
    BY <1>2, <1>3, <2>2, <2>3
  <2>5. ASSUME NEW d \in JobCalls, d # c PROVE RequestSound(d)'
    BY <1>2, <1>3, <2>5
  <2>6. QED
    BY <2>4, <2>5
<1>7. RepliesAreTrue'
  BY <1>2, <1>3
  DEF IInv, RepliesAreTrue, SuccessIsStored, ConflictWroteNothing, storeVars, Has
<1>8. QED
  BY <1>4, <1>5, <1>6, <1>7, StoreFrame DEF IInv

\* A request that goes on.
LEMMA GoOnKeeps ==
  ASSUME IInv, NEW c \in JobCalls, NEW to \in RequestStates,
         NEW token \in Receipts \union {None},
         req' = [req EXCEPT ![c].token = token, ![c].at = to],
         UNCHANGED <<storeVars, serving, clock, job, op, response>>,
         req[c].at \notin {"none", "over"},
         to \in {"consumed", "confirm", "stored", "recheck"},
         Evidence(req[c].files, req[c].release),
         to \in {"consumed", "confirm", "stored"} => answer[c] = "none",
         to = "recheck" => req[c].at = "sent",
         to \in {"confirm", "recheck"} /\ token # None =>
           /\ Has(TokenKey(c[1], req[c].release))
           /\ token = store[TokenKey(c[1], req[c].release)]
  PROVE  IInv'
<1>1. /\ req' \in [JobCalls -> [at : RequestStates, release : Nat, files : PartialFiles,
                                token : Receipts \union {None}]]
      /\ \A d \in JobCalls : d # c => req'[d] = req[d]
      /\ req'[c].at = to /\ req'[c].token = token
      /\ req'[c].release = req[c].release /\ req'[c].files = req[c].files
  BY DEF IInv, ShapeInv
<1>2. ShapeInv'
  BY <1>1 DEF IInv, ShapeInv, storeVars
<1>3. MeasureInv'
  BY DEF IInv, MeasureInv, storeVars
<1>4. response[c] = "none" /\ ~(c[2] > job[c[1]].posts)
  BY DEF IInv, RequestInv, RequestSound
<1>5. RequestInv'
  <2> USE DEF RequestInv, RequestSound, IInv, storeVars, Has
  <2>1. RequestSound(c)'
    BY <1>1, <1>4
  <2>2. ASSUME NEW d \in JobCalls, d # c PROVE RequestSound(d)'
    BY <1>1, <2>2
  <2>3. QED
    BY <2>1, <2>2
<1>6. RepliesAreTrue'
  BY <1>1, <1>4
  DEF IInv, RepliesAreTrue, SuccessIsStored, ConflictWroteNothing, storeVars, Has
<1>7. QED
  BY <1>2, <1>3, <1>5, <1>6, StoreFrame DEF IInv

LEMMA AdmitKeeps == ASSUME IInv, NEW c \in JobCalls, Admit(c) PROVE IInv'
<1>1. CASE Admissible(c)
  <2>1. req' = [req EXCEPT ![c].token = req[c].token, ![c].at = "consumed"]
    BY <1>1 DEF Admit, IInv, ShapeInv
  <2>2. /\ req[c].at = "received" /\ req[c].token \in Receipts \union {None}
        /\ req[c].release \in Nat
    BY DEF Admit, IInv, ShapeInv
  <2>3. /\ req[c].release \in Nat \ {0} /\ req[c].files \in FileSets
        /\ \A k \in Kinds : /\ Tested(req[c].files[k], req[c].release)
                            /\ req[c].files[k].release = req[c].release
                            /\ req[c].files[k].by \in Nat
    BY <1>1, <2>2 DEF IInv, RequestInv, RequestSound, Admissible, FileSets, File
  <2>4. Evidence(req[c].files, req[c].release)
    BY <2>3 DEF Evidence, Tested
  <2>5. answer[c] = "none"
    BY <2>2 DEF IInv, RequestInv, RequestSound
  <2>6. UNCHANGED <<storeVars, serving, clock, job, op, response>>
    BY <1>1 DEF Admit
  <2>7. QED
    BY <2>1, <2>2, <2>4, <2>5, <2>6, GoOnKeeps DEF RequestStates
<1>2. CASE ~Admissible(c)
  BY <1>2, RespondKeeps DEF Admit, Replies
<1>3. QED
  BY <1>1, <1>2

\* A row of the token table is a receipt.
LEMMA TokenRows ==
  ASSUME IInv, NEW j, NEW r, Has(TokenKey(j, r))
  PROVE  /\ store[TokenKey(j, r)] \in Receipts
         /\ Whole(store[TokenKey(j, r)].release, store[TokenKey(j, r)].set)
<1>1. TokenKey(j, r).table = "tokens"
  BY DEF TokenKey
<1>2. \A k, s : ArtifactKey(k, s).table = "artifacts"
  BY DEF ArtifactKey
<1>3. QED
  BY <1>1, <1>2 DEF IInv, StoreInv, Has

LEMMA ReadConsumedKeeps == ASSUME IInv, NEW c \in JobCalls, ReadConsumed(c) PROVE IInv'
<1> DEFINE to == IF req[c].at = "sent" THEN "recheck"
                 ELSE IF TokenNow(c) = None THEN "stored" ELSE "confirm"
<1>1. TokenNow(c) \in Receipts \union {None}
  BY TokenRows DEF TokenNow
<1>2. TokenNow(c) # None => /\ Has(TokenKey(c[1], req[c].release))
                            /\ TokenNow(c) = store[TokenKey(c[1], req[c].release)]
  BY DEF TokenNow
<1>3. /\ req' = [req EXCEPT ![c].token = TokenNow(c), ![c].at = to]
      /\ UNCHANGED <<storeVars, serving, clock, job, op, response>>
      /\ req[c].at \in {"consumed", "sent"}
  BY DEF ReadConsumed
<1>4. /\ Evidence(req[c].files, req[c].release)
      /\ req[c].at = "consumed" => answer[c] = "none"
  BY <1>3 DEF IInv, RequestInv, RequestSound
<1>5. /\ to \in {"stored", "confirm", "recheck"} /\ to \in RequestStates
      /\ to = "recheck" <=> req[c].at = "sent"
  BY DEF RequestStates
<1> HIDE DEF to
<1>6. QED
  BY <1>1, <1>2, <1>3, <1>4, <1>5, GoOnKeeps

\* A receipt read back that names the request's release and set.
LEMMA HoldsIs ==
  ASSUME IInv, NEW c \in JobCalls, req[c].at \in {"confirm", "recheck"}, Holds(c)
  PROVE  /\ Has(TokenKey(c[1], req[c].release))
         /\ store[TokenKey(c[1], req[c].release)].set = req[c].files
<1>1. /\ req[c].token = [release |-> req[c].release, set |-> req[c].files]
      /\ req[c].release # 0
  BY DEF Holds, IInv, RequestInv, RequestSound, Evidence
<1>2. req[c].token.release # 0 /\ None.release = 0
  BY <1>1 DEF None
<1>3. req[c].token # None
  BY <1>2
<1>4. QED
  BY <1>1, <1>3 DEF IInv, RequestInv, RequestSound

LEMMA ConfirmKeeps == ASSUME IInv, NEW c \in JobCalls, Confirm(c) PROVE IInv'
<1>1. req[c].at = "confirm" /\ UNCHANGED <<storeVars, serving, clock, job, op>>
  BY DEF Confirm
<1>2. answer[c] = "none" /\ c \in AllCalls
  BY <1>1 DEF IInv, RequestInv, RequestSound, AllCalls
<1>3. sent[c] = <<>> /\ c \notin applied
  BY <1>2 DEF IInv, CallInv
<1>4. CASE Holds(c)
  BY <1>1, <1>4, HoldsIs, RespondKeeps DEF Confirm, Replies
<1>5. CASE ~Holds(c)
  BY <1>1, <1>3, <1>5, RespondKeeps DEF Confirm, Replies
<1>6. QED
  BY <1>4, <1>5

LEMMA RecheckKeeps == ASSUME IInv, NEW c \in JobCalls, Recheck(c) PROVE IInv'
<1>1. req[c].at = "recheck" /\ UNCHANGED <<storeVars, serving, clock, job, op>>
  BY DEF Recheck
<1>2. answer[c] = "conflict" => c \in refused /\ c \notin applied
  BY DEF IInv, CallInv, AllCalls
<1>3. CASE Holds(c)
  BY <1>1, <1>3, HoldsIs, RespondKeeps DEF Recheck, Replies
<1>4. CASE ~Holds(c) /\ answer[c] = "conflict"
  BY <1>1, <1>2, <1>4, RespondKeeps DEF Recheck, Replies
<1>5. CASE ~Holds(c) /\ answer[c] # "conflict"
  BY <1>1, <1>5, RespondKeeps DEF Recheck, Replies
<1>6. QED
  BY <1>3, <1>4, <1>5

LEMMA VerifyRowsKeeps == ASSUME IInv, NEW c \in JobCalls, VerifyRows(c) PROVE IInv'
<1>1. /\ req[c].at = "sent" /\ answer[c] = "ok"
      /\ UNCHANGED <<storeVars, serving, clock, job, op>>
  BY DEF VerifyRows
<1>2. c \in JobCalls \intersect applied
  BY <1>1 DEF IInv, CallInv, AllCalls
<1>3. /\ Has(sent[c][1].key) /\ store[sent[c][1].key] = sent[c][1].value
      /\ sent[c][1] = Store!Insert(TokenKey(c[1], sent[c][1].value.release),
           [release |-> sent[c][1].value.release, set |-> sent[c][1].value.set])
  BY <1>1, <1>2 DEF IInv, SentInv, JobBatch, Publishes
<1>4. sent[c][1].value = [release |-> req[c].release, set |-> req[c].files]
  BY <1>1 DEF IInv, RequestInv, RequestSound
<1>5. sent[c][1].key = TokenKey(c[1], req[c].release)
  BY <1>3, <1>4 DEF Store!Insert
<1>6. /\ Has(TokenKey(c[1], req[c].release))
      /\ store[TokenKey(c[1], req[c].release)].set = req[c].files
  BY <1>3, <1>4, <1>5
<1>7. CASE RowsMatch(req[c].files, req[c].release)
  BY <1>1, <1>6, <1>7, RespondKeeps DEF VerifyRows, Replies
<1>8. CASE ~RowsMatch(req[c].files, req[c].release)
  BY <1>1, <1>8, RespondKeeps DEF VerifyRows, Replies
<1>9. QED
  BY <1>7, <1>8

LEMMA BreakKeeps == ASSUME IInv, NEW c \in JobCalls, Break(c) PROVE IInv'
  BY RespondKeeps DEF Break, Replies

(***************************************************************************)
(* The batch of a request.                                                 *)
(***************************************************************************)
\* The sequence of a finite set has its elements.
LEMMA SeqOfSet ==
  ASSUME NEW S, IsFiniteSet(S)
  PROVE  /\ Cardinality(S) \in Nat
         /\ SetToSeq(S) \in [1..Cardinality(S) -> S]
         /\ \A x \in S : \E i \in 1..Cardinality(S) : SetToSeq(S)[i] = x
<1> DEFINE n == Cardinality(S)
<1>1. n \in Nat /\ ExistsBijection(1..n, S)
  BY FS_CardinalityType
<1> HIDE DEF n
<1>2. \E f \in [1..n -> S] : IsInjective(f)
  BY <1>1 DEF ExistsBijection, Bijection, Injection, Surjection, IsInjective
<1>3. SetToSeq(S) \in [1..n -> S] /\ IsInjective(SetToSeq(S))
  BY <1>2 DEF SetToSeq, n
<1>4. SetToSeq(S) \in Injection(1..n, S)
  BY <1>3 DEF Injection, IsInjective
<1>5. IsFiniteSet(1..n) /\ Cardinality(1..n) = n
  <2>1. /\ IsFiniteSet(1..n)
        /\ Cardinality(1..n) = IF 1 > n THEN 0 ELSE n - 1 + 1
    BY <1>1, FS_Interval
  <2>2. QED
    BY <1>1, <2>1
<1>6. SetToSeq(S) \in Surjection(1..n, S)
  BY <1>4, <1>5, FS_Injection DEF n
<1>7. \A x \in S : \E i \in 1..n : SetToSeq(S)[i] = x
  BY <1>6 DEF Surjection
<1>8. QED
  BY <1>1, <1>3, <1>7 DEF n

LEMMA Between ==
  ASSUME NEW n \in Nat, NEW x, NEW y, NEW U, x \in U, y \in U, NEW f \in [1..n -> U]
  PROVE  \E b : /\ b = <<x>> \o f \o <<y>>
                /\ Len(b) = n + 2 /\ b[1] = x /\ b[n + 2] = y
                /\ \A i \in 1..n : b[i + 1] = f[i]
<1>1. f \in Seq(U) /\ Len(f) = n /\ <<x>> \in Seq(U) /\ <<y>> \in Seq(U)
  OBVIOUS
<1>2. /\ <<x>> \o f \in Seq(U) /\ Len(<<x>> \o f) = n + 1
      /\ (<<x>> \o f)[1] = x
      /\ \A i \in 1..n : (<<x>> \o f)[i + 1] = f[i]
  BY <1>1
<1> DEFINE g == <<x>> \o f
<1> HIDE DEF g
<1>3. /\ g \in Seq(U) /\ Len(g) = n + 1 /\ g[1] = x
      /\ \A i \in 1..n : g[i + 1] = f[i]
  BY <1>2 DEF g
<1>4. /\ Len(g \o <<y>>) = n + 2
      /\ (g \o <<y>>)[n + 2] = y
      /\ \A i \in 1..(n + 1) : (g \o <<y>>)[i] = g[i]
  BY <1>1, <1>3
<1> DEFINE b == g \o <<y>>
<1>5. b = <<x>> \o f \o <<y>>
  BY DEF g
<1>6. /\ Len(b) = n + 2 /\ b[n + 2] = y
      /\ \A i \in 1..(n + 1) : b[i] = g[i]
  BY <1>4
<1> HIDE DEF b
<1>7. b[1] = x /\ \A i \in 1..n : b[i + 1] = f[i]
  BY <1>3, <1>6
<1>8. QED
  BY <1>5, <1>6, <1>7

LEMMA BatchPublishes ==
  ASSUME IInv, NEW c \in JobCalls, req[c].at = "stored",
         \A k \in StoredKinds(req[c].release) :
           StoredArtifact(k, req[c].release) = req[c].files[k]
  PROVE  /\ Publishes(c, Batch(c), req[c].release, req[c].files)
         /\ Batch(c)[1].value = [release |-> req[c].release, set |-> req[c].files]
<1> DEFINE r == req[c].release
           set == req[c].files
           S == Kinds \ StoredKinds(r)
           n == Cardinality(S)
           missing == SetToSeq(S)
           x == Store!Insert(TokenKey(c[1], r), [release |-> r, set |-> set])
           y == Store!Insert(AuditKey(c), [set |-> set])
           f == [i \in 1..n |-> Store!Insert(ArtifactKey(missing[i], r), set[missing[i]])]
           b == <<x>> \o f \o <<y>>
<1>1. Evidence(set, r)
  BY DEF IInv, RequestInv, RequestSound
<1>2. IsFiniteSet(S)
  BY KindsFinite, FS_Subset
<1>3. /\ n \in Nat /\ missing \in [1..n -> S]
      /\ \A k \in S : \E i \in 1..n : missing[i] = k
  BY <1>2, SeqOfSet
<1>4. Len(missing) = n
  BY <1>3
<1>5. Batch(c) = b
  BY <1>4 DEF Batch
<1> DEFINE U == {f[i] : i \in 1..n} \union {x, y}
<1>6. f \in [1..n -> U] /\ x \in U /\ y \in U
  OBVIOUS
<1> HIDE DEF S, n, missing, x, y, f, U
<1>7. /\ Len(b) = n + 2 /\ b[1] = x /\ b[n + 2] = y
      /\ \A i \in 1..n : b[i + 1] = f[i]
  BY <1>3, <1>6, Between
<1> HIDE DEF b
<1>8. \A i \in 1..n : /\ missing[i] \in Kinds
                      /\ f[i] = Store!Insert(ArtifactKey(missing[i], r), set[missing[i]])
  BY <1>3 DEF f, S
<1>9. \A i \in 1..(n + 2) : \/ b[i] = b[1] \/ b[i] = y
                            \/ \E k \in Kinds : b[i] = Store!Insert(ArtifactKey(k, r), set[k])
  <2> SUFFICES ASSUME NEW i \in 1..(n + 2), i # 1, i # n + 2
               PROVE \E k \in Kinds : b[i] = Store!Insert(ArtifactKey(k, r), set[k])
    BY <1>7
  <2>1. i - 1 \in 1..n /\ (i - 1) + 1 = i
    BY <1>3
  <2>2. QED
    BY <1>7, <1>8, <2>1
<1>10. \A k \in Kinds :
         \/ \E i \in 1..Len(b) : b[i] = Store!Insert(ArtifactKey(k, r), set[k])
         \/ Covered(k, r, set)
  <2> SUFFICES ASSUME NEW k \in Kinds
               PROVE  \/ \E i \in 1..Len(b) : b[i] = Store!Insert(ArtifactKey(k, r), set[k])
                      \/ Covered(k, r, set)
    OBVIOUS
  <2>1. CASE k \in S
    <3>1. PICK i \in 1..n : missing[i] = k
      BY <1>3, <2>1
    <3>2. i + 1 \in 1..Len(b) /\ b[i + 1] = Store!Insert(ArtifactKey(k, r), set[k])
      BY <1>3, <1>7, <1>8, <3>1
    <3>3. QED
      BY <3>2
  <2>2. CASE k \notin S
    BY <2>2 DEF S, Covered, StoredKinds
  <2>3. QED
    BY <2>1, <2>2
<1>11. /\ Len(b) \in Nat /\ n + 2 \in 1..Len(b) /\ n + 2 # 1
  BY <1>3, <1>7
<1>12. Publishes(c, b, r, set)
  BY <1>1, <1>7, <1>9, <1>10, <1>11 DEF Publishes, x, y
<1>13. b[1].value = [release |-> r, set |-> set]
  BY <1>7 DEF x, Store!Insert
<1>14. QED
  BY <1>5, <1>12, <1>13

LEMMA SendBatchKeeps == ASSUME IInv, NEW c \in JobCalls, SendBatch(c) PROVE IInv'
<1> DEFINE r == req[c].release
<1>1. req[c].at = "stored" /\ UNCHANGED <<serving, clock, job, op>>
  BY DEF SendBatch
<1>2. answer[c] = "none" /\ c \in AllCalls /\ response[c] = "none"
  BY <1>1 DEF IInv, RequestInv, RequestSound, AllCalls
<1>3. sent[c] = <<>> /\ c \notin applied /\ c \notin refused
  BY <1>2 DEF IInv, CallInv
<1>4. CASE \E k \in StoredKinds(r) : StoredArtifact(k, r) # req[c].files[k]
  <2>1. Respond(c, "conflict") /\ UNCHANGED storeVars
    BY <1>4 DEF SendBatch
  <2>2. QED
    BY <1>1, <1>3, <2>1, RespondKeeps DEF Replies
<1>5. CASE \A k \in StoredKinds(r) : StoredArtifact(k, r) = req[c].files[k]
  <2>1. /\ req' = [req EXCEPT ![c].at = "sent"]
        /\ sent' = [sent EXCEPT ![c] = Batch(c)]
        /\ answer' = [answer EXCEPT ![c] = "waiting"]
        /\ UNCHANGED <<store, applied, refused, durable, response>>
    BY <1>5 DEF SendBatch, Store!Send
  <2>2. /\ req' \in [JobCalls -> [at : RequestStates, release : Nat, files : PartialFiles,
                                  token : Receipts \union {None}]]
        /\ req'[c].at = "sent" /\ req'[c].release = r /\ req'[c].files = req[c].files
        /\ \A d \in JobCalls : d # c => req'[d] = req[d]
    BY <2>1 DEF IInv, ShapeInv, RequestStates
  <2>3. /\ answer' \in [AllCalls -> {"none", "waiting", "ok", "conflict", "error"}]
        /\ answer'[c] = "waiting" /\ sent'[c] = Batch(c)
        /\ sent' = [d \in AllCalls |-> sent'[d]]
        /\ \A d \in AllCalls : d # c => sent'[d] = sent[d] /\ answer'[d] = answer[d]
    BY <1>2, <2>1 DEF IInv, ShapeInv
  <2>4. /\ Publishes(c, Batch(c), r, req[c].files)
        /\ Batch(c)[1].value = [release |-> r, set |-> req[c].files]
    BY <1>1, <1>5, BatchPublishes
  <2>5. ShapeInv'
    BY <1>1, <2>1, <2>2, <2>3 DEF IInv, ShapeInv
  <2>6. \A o \in Operators : <<o, 1>> \in AllCalls /\ <<o, 1>> # c
    BY PublisherAssumption DEF AllCalls, OperatorCalls, JobCalls
  <2>7. MeasureInv'
    BY <1>1, <2>1, <2>3, <2>6 DEF IInv, MeasureInv
  <2>8. \A d \in JobCalls : d \in AllCalls
    BY DEF AllCalls
  <2>9. RequestInv'
    <3> USE DEF IInv, RequestInv, RequestSound, Has
    <3>1. Evidence(req[c].files, r) /\ ~(c[2] > job[c[1]].posts)
      BY <1>1
    <3>2. RequestSound(c)'
      BY <1>1, <1>2, <2>1, <2>2, <2>3, <2>4, <3>1
    <3>3. ASSUME NEW d \in JobCalls, d # c PROVE RequestSound(d)'
      BY <1>1, <2>1, <2>2, <2>3, <2>8, <3>3
    <3>4. QED
      BY <3>2, <3>3
  <2>10. CallInv'
    BY <1>3, <2>1, <2>3 DEF IInv, CallInv
  <2>11. \A k, s, set : Covered(k, s, set)' <=> Covered(k, s, set)
    BY <2>1 DEF Covered, Has, StoredArtifact
  <2>12. SentInv'
    <3>1. Publishes(c, sent[c], r, req[c].files)'
      BY <2>2, <2>3, <2>4, <2>11 DEF Publishes
    <3>2. JobBatch(c)'
      BY <2>2, <2>3, <2>4, <3>1 DEF JobBatch
    <3>3. ASSUME NEW d \in JobCalls, d # c, answer'[d] # "none" PROVE JobBatch(d)'
      BY <2>3, <2>8, <2>11, <3>3 DEF IInv, SentInv, JobBatch, Publishes
    <3>4. ASSUME NEW d \in OperatorCalls, answer'[d] # "none" PROVE OperatorBatch(d)'
      <4>1. d \in AllCalls /\ d # c
        BY PublisherAssumption DEF AllCalls, OperatorCalls, JobCalls
      <4>2. QED
        BY <2>3, <3>4, <4>1 DEF IInv, SentInv, OperatorBatch
    <3>5. \A d \in JobCalls \intersect applied :
         Has(sent[d][1].key)' /\ (store[sent[d][1].key] = sent[d][1].value)'
      BY <1>3, <2>1, <2>3, <2>8 DEF IInv, SentInv, Has
    <3>6. QED
      BY <2>1, <3>2, <3>3, <3>4, <3>5 DEF SentInv
  <2>13. StoreInv'
    BY <2>1, <2>11 DEF IInv, StoreInv, Whole, Has
  <2>14. RepliesAreTrue'
    BY <1>2, <2>1, <2>2, <2>3, <2>8
    DEF IInv, RepliesAreTrue, SuccessIsStored, ConflictWroteNothing, Has
  <2>15. QED
    BY <2>5, <2>7, <2>9, <2>10, <2>12, <2>13, <2>14 DEF IInv
<1>6. QED
  BY <1>4, <1>5

(***************************************************************************)
(* The operators.                                                          *)
(***************************************************************************)
LEMMA PublishesKeeps == ASSUME IInv, NEW o \in Operators, OperatorPublishes(o) PROVE IInv'
<1> DEFINE c == <<o, 1>>
           file == op[o].file
<1>1. /\ op[o].at = "measured" /\ UNCHANGED <<serving, clock, job, req, response>>
  BY DEF OperatorPublishes
<1>2. file \in File /\ Tested(file, serving) /\ serving \in Nat
  <2>1. file \in File /\ Tested(file, serving)
    BY <1>1 DEF IInv, MeasureInv
  <2>2. serving \in Nat
    BY BoundAssumption DEF IInv, ShapeInv
  <2>3. QED
    BY <2>1, <2>2
<1>3. c \in OperatorCalls /\ c \in AllCalls /\ c \notin JobCalls
  BY PublisherAssumption DEF AllCalls, OperatorCalls, JobCalls
<1>4. ASSUME NEW to \in OperatorStates, op' = [op EXCEPT ![o].at = to]
      PROVE  /\ op' \in [Operators -> [at : OperatorStates, kind : Kinds,
                                       file : File \union {None}]]
             /\ op'[o].at = to /\ op'[o].file = file
             /\ \A p \in Operators : p # o => op'[p] = op[p]
  BY <1>4 DEF IInv, ShapeInv
<1> HIDE DEF file
<1>5. CASE file.release # serving
  <2>1. op' = [op EXCEPT ![o].at = "refused"] /\ UNCHANGED storeVars
    BY <1>5 DEF OperatorPublishes, file
  <2>2. /\ op' \in [Operators -> [at : OperatorStates, kind : Kinds, file : File \union {None}]]
        /\ op'[o].at = "refused"
        /\ \A p \in Operators : p # o => op'[p] = op[p]
    BY <1>4, <2>1 DEF OperatorStates
  <2>3. ShapeInv'
    BY <1>1, <2>1, <2>2 DEF IInv, ShapeInv, storeVars
  <2>4. MeasureInv'
    BY <1>1, <2>1, <2>2 DEF IInv, MeasureInv, storeVars
  <2>5. QED
    BY <1>1, <2>1, <2>3, <2>4, RequestFrame
<1>6. CASE file.release = serving
  <2> DEFINE b == <<Store!Upsert(ArtifactKey(op[o].kind, serving), file)>>
  <2>1. /\ op' = [op EXCEPT ![o].at = "sent"]
        /\ answer[c] = "none"
        /\ sent' = [sent EXCEPT ![c] = b]
        /\ answer' = [answer EXCEPT ![c] = "waiting"]
        /\ UNCHANGED <<store, applied, refused, durable>>
    BY <1>6 DEF OperatorPublishes, Store!Send, file
  <2>2. /\ op' \in [Operators -> [at : OperatorStates, kind : Kinds, file : File \union {None}]]
        /\ op'[o].at = "sent" /\ op'[o].file = file
        /\ \A p \in Operators : p # o => op'[p] = op[p]
    BY <1>4, <2>1 DEF OperatorStates
  <2>3. /\ op[o].kind \in Kinds /\ file.by = file.release
    <3>1. op[o].kind \in Kinds
      BY DEF IInv, ShapeInv
    <3>2. file.by = file.release
      BY <1>2, <1>6 DEF Tested, File
    <3>3. QED
      BY <3>1, <3>2
  <2>4. /\ b[1].value = file
        /\ b = <<Store!Upsert(ArtifactKey(op[o].kind, file.release), file)>>
    BY <1>6 DEF Store!Upsert
  <2> HIDE DEF b, c
  <2>5. /\ answer' \in [AllCalls -> {"none", "waiting", "ok", "conflict", "error"}]
        /\ answer'[c] = "waiting" /\ sent'[c] = b
        /\ sent' = [d \in AllCalls |-> sent'[d]]
        /\ \A d \in AllCalls : d # c => sent'[d] = sent[d] /\ answer'[d] = answer[d]
    BY <1>3, <2>1 DEF IInv, ShapeInv
  <2>6. \A d \in JobCalls : sent'[d] = sent[d] /\ answer'[d] = answer[d]
    BY <1>3, <2>5 DEF AllCalls
  <2>7. ShapeInv'
    BY <1>1, <2>1, <2>2, <2>5 DEF IInv, ShapeInv
  <2>8. \A p \in Operators : /\ <<p, 1>> \in AllCalls
                             /\ p # o => <<p, 1>> # c
    BY DEF AllCalls, OperatorCalls, c
  <2>9. MeasureInv'
    BY <1>1, <1>2, <2>2, <2>5, <2>8 DEF IInv, MeasureInv
  <2>10. RequestInv'
    BY <1>1, <2>1, <2>6 DEF IInv, RequestInv, RequestSound, Has
  <2>11. c \notin applied /\ c \notin refused
    BY <1>3, <2>1 DEF IInv, CallInv
  <2>12. CallInv'
    BY <2>1, <2>5, <2>11 DEF IInv, CallInv
  <2>13. \A k, s, set : Covered(k, s, set)' <=> Covered(k, s, set)
    BY <2>1 DEF Covered, Has, StoredArtifact
  <2>14. SentInv'
    <3>1. ASSUME NEW d \in JobCalls, answer'[d] # "none" PROVE JobBatch(d)'
      <4>1. sent'[d] = sent[d] /\ JobBatch(d)
        BY <2>6, <3>1 DEF IInv, SentInv
      <4>2. QED
        BY <4>1, <2>13 DEF JobBatch, Publishes
    <3>2. /\ sent'[c][1].value \in File
          /\ sent'[c][1].value.by = sent'[c][1].value.release
          /\ \E k \in Kinds :
               sent'[c] = <<Store!Upsert(ArtifactKey(k, sent'[c][1].value.release),
                                         sent'[c][1].value)>>
      BY <1>2, <2>3, <2>4, <2>5
    <3>3. ASSUME NEW d \in OperatorCalls, answer'[d] # "none" PROVE OperatorBatch(d)'
      <4>1. CASE d = c
        BY <3>2, <4>1 DEF OperatorBatch
      <4>2. CASE d # c
        BY <2>5, <3>3, <4>2 DEF IInv, SentInv, OperatorBatch, AllCalls
      <4>3. QED
        BY <4>1, <4>2
    <3>4. \A d \in JobCalls \intersect applied :
             Has(sent[d][1].key)' /\ (store[sent[d][1].key] = sent[d][1].value)'
      BY <2>1, <2>6 DEF IInv, SentInv, Has
    <3>5. QED
      BY <2>1, <3>1, <3>3, <3>4 DEF SentInv
  <2>15. StoreInv'
    BY <2>1, <2>13 DEF IInv, StoreInv, Whole, Has
  <2>16. RepliesAreTrue'
    BY <1>1, <2>1, <2>6
    DEF IInv, RepliesAreTrue, SuccessIsStored, ConflictWroteNothing, Has
  <2>17. QED
    BY <2>7, <2>9, <2>10, <2>12, <2>14, <2>15, <2>16 DEF IInv
<1>7. QED
  BY <1>5, <1>6

LEMMA OperatorConfirmsKeeps ==
  ASSUME IInv, NEW o \in Operators, OperatorConfirms(o) PROVE IInv'
<1>1. PICK to \in {"unknown", "conflict", "published"} : op' = [op EXCEPT ![o].at = to]
  BY DEF OperatorConfirms
<1>2. UNCHANGED <<storeVars, serving, clock, job, req, response>>
  BY DEF OperatorConfirms
<1>3. /\ op' \in [Operators -> [at : OperatorStates, kind : Kinds, file : File \union {None}]]
      /\ op'[o].at = to
      /\ \A p \in Operators : p # o => op'[p] = op[p]
  BY <1>1 DEF IInv, ShapeInv, OperatorStates
<1>4. ShapeInv'
  BY <1>2, <1>3 DEF IInv, ShapeInv, storeVars
<1>5. MeasureInv'
  BY <1>2, <1>3 DEF IInv, MeasureInv, storeVars
<1>6. QED
  BY <1>2, <1>4, <1>5, RequestFrame

(***************************************************************************)
(* The database.                                                           *)
(***************************************************************************)
LEMMA ArtifactRows ==
  ASSUME IInv, NEW k \in Kinds, NEW r, Has(ArtifactKey(k, r))
  PROVE  /\ StoredArtifact(k, r) \in File
         /\ StoredArtifact(k, r).release = r /\ StoredArtifact(k, r).by = r
<1> DEFINE key == ArtifactKey(k, r)
<1>1. key.table = "artifacts" /\ key.id[1] = k /\ key.id[2] = r
  BY DEF ArtifactKey
<1>2. \A l, s : ArtifactKey(l, s).id[2] = s
  BY DEF ArtifactKey
<1>3. key \in DOMAIN store
  BY DEF Has
<1> HIDE DEF key
<1>4. PICK l \in Kinds : /\ store[key] \in File /\ key = ArtifactKey(l, store[key].release)
                         /\ store[key].by = store[key].release
  BY <1>1, <1>3 DEF IInv, StoreInv
<1>5. store[key].release = r
  BY <1>1, <1>2, <1>4
<1>6. QED
  BY <1>4, <1>5 DEF StoredArtifact, key

\* A row stays as it is, or an artifact gives way to a newer one.
RowStays(key) ==
  /\ key \in DOMAIN store'
  /\ \/ store'[key] = store[key]
     \/ /\ key.table = "artifacts" /\ store[key] \in File /\ store'[key] \in File
        /\ store'[key].at > store[key].at

LEMMA CoveredStays ==
  ASSUME IInv, \A key \in DOMAIN store : RowStays(key),
         NEW k \in Kinds, NEW r, NEW set \in FileSets, Covered(k, r, set)
  PROVE  Covered(k, r, set)'
<1> DEFINE key == ArtifactKey(k, r)
<1>1. /\ key \in DOMAIN store /\ store[key] \in File /\ RowStays(key)
      /\ store[key] = set[k] \/ store[key].at > set[k].at
  BY ArtifactRows DEF Covered, Has, StoredArtifact
<1>2. set[k].at \in Nat /\ store[key].at \in Nat
  BY <1>1 DEF FileSets, File
<1>3. store'[key].at \in Nat
  BY <1>1 DEF RowStays, File
<1>4. key \in DOMAIN store' /\ (store'[key] = set[k] \/ store'[key].at > set[k].at)
  BY <1>1, <1>2, <1>3 DEF RowStays
<1>5. QED
  BY <1>4 DEF Covered, Has, StoredArtifact

LEMMA PublicationIsNotEmpty ==
  ASSUME IInv, NEW c \in JobCalls, answer[c] # "none"
  PROVE  sent[c] # <<>>
<1>1. \E n \in 1..Len(sent[c]) : n # 1
  BY DEF IInv, SentInv, JobBatch, Publishes
<1>2. QED
  BY <1>1

\* A batch takes effect: what it leaves of the rows there, and what of its own, decides.
LEMMA AppliedKeeps ==
  ASSUME IInv, NEW c \in AllCalls, Store!Apply(c), UNCHANGED pubVars,
         \A key \in DOMAIN store : RowStays(key),
         c \in JobCalls => /\ sent[c][1].key \in DOMAIN store'
                           /\ store'[sent[c][1].key] = sent[c][1].value,
         StoreInv'
  PROVE  IInv'
<1>1. /\ answer[c] \in {"waiting", "error"} /\ c \notin applied /\ c \notin refused
      /\ applied' = applied \union {c}
      /\ UNCHANGED <<sent, refused, answer, durable>>
  BY DEF Store!Apply, Store!Undecided
<1> USE DEF pubVars
<1>2. ShapeInv'
  BY <1>1 DEF IInv, ShapeInv
<1>3. MeasureInv'
  BY <1>1 DEF IInv, MeasureInv
<1>4. \A j, r : Has(TokenKey(j, r)) =>
        Has(TokenKey(j, r))' /\ store'[TokenKey(j, r)] = store[TokenKey(j, r)]
  <2>1. \A j, r : TokenKey(j, r).table = "tokens"
    BY DEF TokenKey
  <2>2. QED
    BY <2>1 DEF Has, RowStays
<1>5. RequestInv'
  BY <1>1, <1>4 DEF IInv, RequestInv, RequestSound
<1>6. CallInv'
  BY <1>1 DEF IInv, CallInv
<1>7. SentInv'
  <2>1. ASSUME NEW d \in JobCalls, answer[d] # "none" PROVE JobBatch(d)'
    <3> DEFINE b == sent[d]
               r == sent[d][1].value.release
               set == sent[d][1].value.set
    <3>1. Publishes(d, b, r, set)
      BY <2>1 DEF IInv, SentInv, JobBatch
    <3>2. set \in FileSets
      BY <3>1 DEF Publishes, Evidence
    <3>3. \A k \in Kinds : Covered(k, r, set) => Covered(k, r, set)'
      <4> SUFFICES ASSUME NEW k \in Kinds, Covered(k, r, set) PROVE Covered(k, r, set)'
        OBVIOUS
      <4>1. PICK r0, set0 : r0 = r /\ set0 = set
        OBVIOUS
      <4>2. Covered(k, r0, set0)'
        BY <3>2, <4>1, CoveredStays
      <4>3. QED
        BY <1>1, <4>1, <4>2 DEF Covered
    <3>4. QED
      BY <1>1, <3>1, <3>3 DEF JobBatch, Publishes
  <2>2. ASSUME NEW d \in OperatorCalls, answer[d] # "none" PROVE OperatorBatch(d)'
    BY <1>1, <2>2 DEF IInv, SentInv, OperatorBatch
  <2>3. ASSUME NEW d \in JobCalls \intersect applied
        PROVE  Has(sent[d][1].key)' /\ (store[sent[d][1].key] = sent[d][1].value)'
    <3>1. answer[d] # "none"
      BY DEF IInv, CallInv, AllCalls
    <3>2. sent[d][1] = Store!Insert(TokenKey(d[1], sent[d][1].value.release),
           [release |-> sent[d][1].value.release, set |-> sent[d][1].value.set])
      BY <3>1 DEF IInv, SentInv, JobBatch, Publishes
    <3>3. sent[d][1].key = TokenKey(d[1], sent[d][1].value.release)
      BY <3>2 DEF Store!Insert
    <3>4. Has(sent[d][1].key) /\ store[sent[d][1].key] = sent[d][1].value
      BY DEF IInv, SentInv
    <3>5. sent[d][1].key \in DOMAIN store' /\ store'[sent[d][1].key] = sent[d][1].value
      BY <1>4, <3>3, <3>4 DEF Has
    <3>6. QED
      BY <1>1, <3>5 DEF Has
  <2>4. QED
    BY <1>1, <2>1, <2>2, <2>3 DEF SentInv, Has
<1>8. RepliesAreTrue'
  <2>1. SuccessIsStored'
    BY <1>4 DEF IInv, RepliesAreTrue, SuccessIsStored
  <2>2. c \in JobCalls => response[c] # "conflict"
    BY <1>1, PublicationIsNotEmpty DEF IInv, RepliesAreTrue, ConflictWroteNothing
  <2>3. ConflictWroteNothing'
    BY <1>1, <2>2 DEF IInv, RepliesAreTrue, ConflictWroteNothing
  <2>4. QED
    BY <2>1, <2>3 DEF RepliesAreTrue
<1>9. QED
  BY <1>2, <1>3, <1>5, <1>6, <1>7, <1>8 DEF IInv

\* What is stored as a whole stays so.
LEMMA WholeStays ==
  ASSUME IInv, \A key \in DOMAIN store : RowStays(key), NEW r, NEW set \in FileSets, Whole(r, set)
  PROVE  Whole(r, set)'
<1>1. \A d : AuditKey(d).table = "audit"
  BY DEF AuditKey
<1>2. \E d \in JobCalls : Has(AuditKey(d))' /\ store'[AuditKey(d)].set = set
  BY <1>1 DEF Whole, Has, RowStays
<1>3. \A k \in Kinds : Covered(k, r, set)'
  BY CoveredStays DEF Whole
<1>4. QED
  BY <1>2, <1>3 DEF Whole

\* The rows that were there.
LEMMA OldRows ==
  ASSUME IInv, \A key \in DOMAIN store : RowStays(key), NEW key \in DOMAIN store,
         store'[key] = store[key]
  PROVE  \/ \E k \in Kinds :
              /\ store'[key] \in File /\ key = ArtifactKey(k, store'[key].release)
              /\ store'[key].by = store'[key].release
         \/ /\ key.table = "tokens" /\ store'[key] \in Receipts
            /\ Whole(store[key].release, store[key].set)'
         \/ key.table = "audit"
<1>1. CASE key.table = "tokens" /\ store[key] \in Receipts
           /\ Whole(store[key].release, store[key].set)
  <2>1. PICK r, set : r = store[key].release /\ set = store[key].set
    OBVIOUS
  <2>2. set \in FileSets /\ Whole(r, set)
    BY <1>1, <2>1 DEF Receipts
  <2>3. Whole(r, set)'
    BY <2>2, WholeStays
  <2>4. r = store'[key].release /\ set = store'[key].set
    BY <2>1
  <2>5. Whole(store[key].release, store[key].set)'
    BY <2>3, <2>4 DEF Whole, Covered
  <2>6. QED
    BY <1>1, <2>5
<1>2. QED
  BY <1>1 DEF IInv, StoreInv

LEMMA ApplyJobKeeps ==
  ASSUME IInv, NEW c \in JobCalls, Store!Apply(c), UNCHANGED pubVars
  PROVE  /\ \A key \in DOMAIN store : key \in DOMAIN store' /\ store'[key] = store[key]
         /\ IInv'
<1> DEFINE b == sent[c]
           r == b[1].value.release
           set == b[1].value.set
<1>1. /\ answer[c] # "none" /\ Store!Accepts(b, store) /\ store' = Store!Result(b, store)
  BY DEF Store!Apply, Store!Undecided
<1>2. Publishes(c, b, r, set)
  BY <1>1 DEF IInv, SentInv, JobBatch
<1>3. /\ Len(b) \in Nat /\ 1 \in 1..Len(b)
      /\ \A i \in 1..Len(b) : b[i].op = "insert"
  <2>1. Len(b) \in Nat /\ 1 \in 1..Len(b)
    BY <1>2 DEF Publishes
  <2>2. \A k, v : Store!Insert(k, v).op = "insert"
    BY DEF Store!Insert
  <2>3. b[1].op = "insert"
    BY <1>2, <2>2 DEF Publishes
  <2>4. QED
    BY <1>2, <2>1, <2>2, <2>3 DEF Publishes
<1>4. /\ DOMAIN store' = DOMAIN store \union {b[i].key : i \in 1..Len(b)}
      /\ \A key \in DOMAIN store : store'[key] = store[key]
      /\ \A i \in 1..Len(b) : store'[b[i].key] = b[i].value
  <2>1. \A bb : /\ Len(bb) \in Nat /\ Store!Accepts(bb, store)
                /\ \A i \in 1..Len(bb) : bb[i].op = "insert"
          => /\ DOMAIN Store!Result(bb, store) = DOMAIN store \union {bb[i].key : i \in 1..Len(bb)}
             /\ \A key \in DOMAIN store : Store!Result(bb, store)[key] = store[key]
             /\ \A i \in 1..Len(bb) : Store!Result(bb, store)[bb[i].key] = bb[i].value
    BY InsertsResult
  <2> HIDE DEF b
  <2>2. QED
    BY <1>1, <1>3, <2>1
<1>5. \A key \in DOMAIN store : RowStays(key)
  BY <1>4 DEF RowStays
<1>6. PICK r0, set0 : r0 = r /\ set0 = set
  OBVIOUS
<1>7. Publishes(c, b, r0, set0)
  BY <1>2, <1>6
<1>8. /\ set0 \in FileSets /\ r0 \in Nat
      /\ \A k \in Kinds : set0[k] \in File /\ set0[k].release = r0 /\ set0[k].by = r0
  BY <1>7 DEF Publishes, Evidence, FileSets
<1>9. \A i \in 1..Len(b) : b[i].key \in DOMAIN store' /\ store'[b[i].key] = b[i].value
  BY <1>4
<1>10. Whole(r0, set0)'
  <2>1. Has(AuditKey(c))' /\ store'[AuditKey(c)].set = set0
    <3>1. PICK n \in 1..Len(b) : b[n] = Store!Insert(AuditKey(c), [set |-> set0])
      BY <1>7 DEF Publishes
    <3>2. b[n].key = AuditKey(c) /\ b[n].value.set = set0
      BY <3>1 DEF Store!Insert
    <3>3. QED
      BY <1>9, <3>2 DEF Has
  <2>2. ASSUME NEW k \in Kinds PROVE Covered(k, r0, set0)'
    <3>1. CASE Covered(k, r0, set0)
      BY <1>5, <1>8, <3>1, CoveredStays
    <3>2. CASE \E i \in 1..Len(b) : b[i] = Store!Insert(ArtifactKey(k, r0), set0[k])
      <4>1. PICK i \in 1..Len(b) : b[i] = Store!Insert(ArtifactKey(k, r0), set0[k])
        BY <3>2
      <4>2. b[i].key = ArtifactKey(k, r0) /\ b[i].value = set0[k]
        BY <4>1 DEF Store!Insert
      <4>3. QED
        BY <1>9, <4>2 DEF Covered, Has, StoredArtifact
    <3>3. QED
      BY <1>7, <3>1, <3>2 DEF Publishes
  <2>3. QED
    BY <2>1, <2>2 DEF Whole
<1>11. StoreInv'
  <2> SUFFICES ASSUME NEW key \in DOMAIN store'
      PROVE  \/ \E k \in Kinds :
                  /\ store'[key] \in File /\ key = ArtifactKey(k, store'[key].release)
                  /\ store'[key].by = store'[key].release
             \/ /\ key.table = "tokens" /\ store'[key] \in Receipts
                /\ Whole(store[key].release, store[key].set)'
             \/ key.table = "audit"
    BY DEF StoreInv
  <2>1. CASE key \in DOMAIN store
    BY <1>4, <1>5, <2>1, OldRows
  <2>2. CASE \E i \in 1..Len(b) : key = b[i].key
    <3>1. PICK i \in 1..Len(b) : key = b[i].key
      BY <2>2
    <3>2. CASE b[i] = b[1]
      <4>1. b[i] = Store!Insert(TokenKey(c[1], r0), [release |-> r0, set |-> set0])
        BY <1>7, <3>2 DEF Publishes
      <4>2. /\ key.table = "tokens" /\ store'[key] = [release |-> r0, set |-> set0]
        BY <1>9, <3>1, <4>1 DEF Store!Insert, TokenKey
      <4>3. store'[key].release = r0 /\ store'[key].set = set0
        BY <4>2
      <4>4. Whole(store[key].release, store[key].set)'
        BY <1>10, <4>3 DEF Whole, Covered
      <4>5. QED
        BY <1>8, <4>2, <4>4 DEF Receipts
    <3>3. CASE b[i] = Store!Insert(AuditKey(c), [set |-> set0])
      BY <3>1, <3>3 DEF Store!Insert, AuditKey
    <3>4. CASE \E k \in Kinds : b[i] = Store!Insert(ArtifactKey(k, r0), set0[k])
      <4>1. PICK k \in Kinds : b[i] = Store!Insert(ArtifactKey(k, r0), set0[k])
        BY <3>4
      <4>2. key = ArtifactKey(k, r0) /\ store'[key] = set0[k]
        BY <1>9, <3>1, <4>1 DEF Store!Insert
      <4>3. QED
        BY <1>8, <4>2
    <3>5. QED
      BY <1>7, <3>2, <3>3, <3>4 DEF Publishes
  <2>3. QED
    BY <1>4, <2>1, <2>2
<1>12. IInv'
  BY <1>3, <1>5, <1>9, <1>11, AppliedKeeps DEF AllCalls
<1>13. QED
  BY <1>4, <1>12

LEMMA ApplyOperatorKeeps ==
  ASSUME IInv, NEW c \in OperatorCalls, Store!Apply(c), UNCHANGED pubVars
  PROVE  /\ \A key \in DOMAIN store : RowStays(key)
         /\ IInv'
<1>1. answer[c] # "none" /\ store' = Store!Result(sent[c], store)
  BY DEF Store!Apply, Store!Undecided
<1>2. PICK file \in File, k \in Kinds :
        /\ file.by = file.release
        /\ sent[c] = <<Store!Upsert(ArtifactKey(k, file.release), file)>>
  BY <1>1 DEF IInv, SentInv, OperatorBatch
<1>3. PICK key0 : key0 = ArtifactKey(k, file.release)
  OBVIOUS
<1>4. store' = [key \in DOMAIN store \union {key0} |->
                  IF key = key0 /\ (key0 \in DOMAIN store => file.at > store[key0].at)
                    THEN file ELSE store[key]]
  BY <1>1, <1>2, <1>3, UpsertResult
<1>5. /\ key0.table = "artifacts"
      /\ key0 \in DOMAIN store => store[key0] \in File /\ store[key0].release = file.release
                                  /\ store[key0].by = file.release
  <2>1. key0.table = "artifacts"
    BY <1>3 DEF ArtifactKey
  <2>2. key0 \in DOMAIN store => Has(ArtifactKey(k, file.release))
    BY <1>3 DEF Has
  <2>3. QED
    BY <1>3, <2>1, <2>2, ArtifactRows DEF StoredArtifact
<1>6. \A key \in DOMAIN store : RowStays(key)
  BY <1>4, <1>5 DEF RowStays
<1>7. StoreInv'
  <2> SUFFICES ASSUME NEW key \in DOMAIN store'
      PROVE  \/ \E l \in Kinds :
                  /\ store'[key] \in File /\ key = ArtifactKey(l, store'[key].release)
                  /\ store'[key].by = store'[key].release
             \/ /\ key.table = "tokens" /\ store'[key] \in Receipts
                /\ Whole(store[key].release, store[key].set)'
             \/ key.table = "audit"
    BY DEF StoreInv
  <2>1. CASE key = key0
    <3>1. \/ store'[key] = file
          \/ key0 \in DOMAIN store /\ store'[key] = store[key0]
      BY <1>4, <2>1
    <3>2. /\ store'[key] \in File /\ store'[key].release = file.release
          /\ store'[key].by = file.release
      BY <1>2, <1>5, <3>1
    <3>3. QED
      BY <1>3, <2>1, <3>2
  <2>2. CASE key # key0
    <3>1. key \in DOMAIN store /\ store'[key] = store[key]
      BY <1>4, <2>2
    <3>2. QED
      BY <1>6, <3>1, OldRows
  <2>3. QED
    BY <2>1, <2>2
<1>8. c \in AllCalls /\ c \notin JobCalls
  BY PublisherAssumption DEF AllCalls, OperatorCalls, JobCalls
<1>9. IInv'
  BY <1>6, <1>7, <1>8, AppliedKeeps
<1>10. QED
  BY <1>6, <1>9

LEMMA RefuseKeeps ==
  ASSUME IInv, NEW c \in AllCalls, Store!Refuse(c), UNCHANGED pubVars PROVE IInv'
<1>1. /\ answer[c] \in {"waiting", "error"} /\ c \notin applied /\ c \notin refused
      /\ refused' = refused \union {c}
      /\ UNCHANGED <<store, sent, applied, answer, durable>>
  BY DEF Store!Refuse, Store!Undecided
<1> USE DEF pubVars
<1>2. ShapeInv'
  BY <1>1 DEF IInv, ShapeInv
<1>3. MeasureInv'
  BY <1>1 DEF IInv, MeasureInv
<1>4. RequestInv'
  BY <1>1 DEF IInv, RequestInv, RequestSound, Has
<1>5. CallInv'
  BY <1>1 DEF IInv, CallInv
<1>6. \A k, s, set : Covered(k, s, set)' <=> Covered(k, s, set)
  BY <1>1 DEF Covered, Has, StoredArtifact
<1>7. SentInv'
  BY <1>1, <1>6 DEF IInv, SentInv, JobBatch, OperatorBatch, Publishes, Has
<1>8. StoreInv'
  BY <1>1, <1>6 DEF IInv, StoreInv, Whole, Has
<1>9. RepliesAreTrue'
  BY <1>1 DEF IInv, RepliesAreTrue, SuccessIsStored, ConflictWroteNothing, Has
<1>10. QED
  BY <1>2, <1>3, <1>4, <1>5, <1>7, <1>8, <1>9 DEF IInv

LEMMA TellKeeps ==
  ASSUME IInv, NEW c \in AllCalls, Store!Tell(c), UNCHANGED pubVars PROVE IInv'
<1>1. PICK told \in {"ok", "conflict", "error"} :
        /\ answer[c] = "waiting" /\ answer' = [answer EXCEPT ![c] = told]
        /\ told = "ok" => c \in applied
        /\ told = "conflict" => c \in refused
        /\ UNCHANGED <<store, sent, applied, refused, durable>>
  BY DEF Store!Tell
<1>2. /\ answer' \in [AllCalls -> {"none", "waiting", "ok", "conflict", "error"}]
      /\ answer'[c] = told
      /\ \A d \in AllCalls : d # c => answer'[d] = answer[d]
      /\ \A d \in AllCalls : answer'[d] = "none" <=> answer[d] = "none"
  BY <1>1 DEF IInv, ShapeInv
<1> USE DEF pubVars
<1>3. ShapeInv'
  BY <1>1, <1>2 DEF IInv, ShapeInv
<1>4. \A o \in Operators : <<o, 1>> \in AllCalls
  BY DEF AllCalls, OperatorCalls
<1>5. MeasureInv'
  BY <1>1, <1>2, <1>4 DEF IInv, MeasureInv
<1>6. \A d \in JobCalls \union OperatorCalls : d \in AllCalls
  BY DEF AllCalls
<1>7. RequestInv'
  BY <1>1, <1>2, <1>6 DEF IInv, RequestInv, RequestSound, Has
<1>8. CallInv'
  BY <1>1, <1>2 DEF IInv, CallInv
<1>9. \A k, s, set : Covered(k, s, set)' <=> Covered(k, s, set)
  BY <1>1 DEF Covered, Has, StoredArtifact
<1>10. SentInv'
  BY <1>1, <1>2, <1>6, <1>9 DEF IInv, SentInv, JobBatch, OperatorBatch, Publishes, Has
<1>11. StoreInv'
  BY <1>1, <1>9 DEF IInv, StoreInv, Whole, Has
<1>12. RepliesAreTrue'
  BY <1>1 DEF IInv, RepliesAreTrue, SuccessIsStored, ConflictWroteNothing, Has
<1>13. QED
  BY <1>3, <1>5, <1>7, <1>8, <1>10, <1>11, <1>12 DEF IInv

(***************************************************************************)
(* The theorems.                                                           *)
(***************************************************************************)
LEMMA InvNext == IInv /\ [Next]_vars => IInv'
<1> SUFFICES ASSUME IInv, [Next]_vars PROVE IInv'
  OBVIOUS
<1>1. CASE Deploy
  BY <1>1, DeployKeeps
<1>2. ASSUME NEW j \in Jobs, JobStep(j) PROVE IInv'
  BY <1>2, JobKeeps
<1>3. ASSUME NEW c \in JobCalls, Proceed(c) \/ Break(c) PROVE IInv'
  BY <1>3, AdmitKeeps, ReadConsumedKeeps, ConfirmKeeps, SendBatchKeeps, RecheckKeeps,
     VerifyRowsKeeps, BreakKeeps DEF Proceed
<1>4. ASSUME NEW o \in Operators, OperatorStep(o) PROVE IInv'
  BY <1>4, MeasuresKeeps, PublishesKeeps, OperatorConfirmsKeeps DEF OperatorStep
<1>5. CASE Database
  BY <1>5, ApplyJobKeeps, ApplyOperatorKeeps, RefuseKeeps, TellKeeps DEF Database, AllCalls
<1>6. CASE UNCHANGED vars
  <2>1. /\ UNCHANGED <<storeVars, req, response>> /\ UNCHANGED <<serving, clock, job, op>>
    BY <1>6 DEF vars, pubVars
  <2>2. ShapeInv' /\ MeasureInv'
    BY <2>1 DEF IInv, ShapeInv, MeasureInv, storeVars
  <2>3. QED
    BY <2>1, <2>2, RequestFrame
<1>7. QED
  BY <1>1, <1>2, <1>3, <1>4, <1>5, <1>6 DEF Next

LEMMA InvariantHolds == Spec => []IInv
  BY InvInit, InvNext, PTL DEF Spec

\* Whatever the deployments, the operators and the order in which batches land: what is
\* stored as evidence of a release was measured on it and answered by it, and a consumed
\* identity's publication is all there.
THEOREM EvidenceSound == Spec => []EvidenceIsSound
<1>1. IInv => TypeOK
  <2> SUFFICES ASSUME IInv PROVE TypeOK
    OBVIOUS
  <2>1. \A j \in Jobs : /\ job[j].at \in JobStates /\ job[j].posts \in 0..MaxPosts
                        /\ DOMAIN job[j].files \subseteq Kinds
    BY PartialFile DEF IInv, ShapeInv
  <2>2. \A c \in JobCalls : req[c].at \in RequestStates /\ response[c] \in Replies
    BY DEF IInv, ShapeInv
  <2>3. QED
    BY <2>1, <2>2 DEF IInv, ShapeInv, TypeOK, AllCalls, JobStates, RequestStates, Replies
<1>2. IInv => EvidenceIsOfItsRelease
  BY ArtifactRows DEF EvidenceIsOfItsRelease, StoredKinds
<1>3. IInv => PublicationIsWhole
  <2> SUFFICES ASSUME IInv, NEW key \in DOMAIN store, key.table = "tokens"
               PROVE  Whole(store[key].release, store[key].set)
    BY DEF PublicationIsWhole, Whole, Covered, StoredKinds
  <2>1. \A k, r : ArtifactKey(k, r).table = "artifacts"
    BY DEF ArtifactKey
  <2>2. QED
    BY <2>1 DEF IInv, StoreInv
<1>4. QED
  BY <1>1, <1>2, <1>3, InvariantHolds, PTL DEF EvidenceIsSound

\* A publisher who is told of success has its set stored, and one told of a conflict never
\* stores it, also when the answer of its batch is lost.
THEOREM RepliesTrue == Spec => []RepliesAreTrue
  BY InvariantHolds, PTL DEF IInv

\* Rows change only when a batch takes effect.
LEMMA RowsStay == IInv /\ [Next]_vars => \A key \in DOMAIN store : RowStays(key)
<1> SUFFICES ASSUME IInv, [Next]_vars PROVE \A key \in DOMAIN store : RowStays(key)
  OBVIOUS
<1>1. CASE store' = store
  BY <1>1 DEF RowStays
<1>2. CASE \E c \in JobCalls : Store!Apply(c) /\ UNCHANGED pubVars
  BY <1>2, ApplyJobKeeps DEF RowStays
<1>3. CASE \E c \in OperatorCalls : Store!Apply(c) /\ UNCHANGED pubVars
  BY <1>3, ApplyOperatorKeeps
<1>4. QED
  BY <1>1, <1>2, <1>3
  DEF Next, Deploy, JobStep, StartJob, SeesRelease, PassGate, ReadRelease, MeasureMode,
      MeasureDocument, Write, Publish, HearReply, VerifyLab, Proceed, Admit, ReadConsumed,
      Confirm, SendBatch, Recheck, VerifyRows, Break, OperatorStep, OperatorMeasures,
      OperatorPublishes, OperatorConfirms, Database, Store!Send, Store!Refuse, Store!Tell,
      storeVars, vars

\* A stored measurement gives way to a newer one only, whoever publishes and however late
\* a batch takes effect.
THEOREM OnlyAdvances == Spec => EvidenceOnlyAdvances
<1> DEFINE Step == \A k \in Kinds, r \in 1..MaxRelease :
             k \in StoredKinds(r) =>
               /\ k \in StoredKinds(r)'
               /\ \/ StoredArtifact(k, r)' = StoredArtifact(k, r)
                  \/ StoredArtifact(k, r).at' > StoredArtifact(k, r).at
<1>1. IInv /\ [Next]_vars => Step
  BY RowsStay DEF RowStays, StoredKinds, StoredArtifact, Has
<1>2. QED
  BY <1>1, InvariantHolds, PTL DEF Spec, EvidenceOnlyAdvances
=============================================================================
