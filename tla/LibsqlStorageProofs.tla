------------------------ MODULE LibsqlStorageProofs ------------------------
(***************************************************************************)
(* Theorems about LibsqlStorage, for any number of calls, any batches and  *)
(* any deployments: no transaction outlives its batch, and the adapter     *)
(* implements AtomicStore.                                                 *)
(*                                                                         *)
(* What a batch does is a recursive function of it (Path).  The first part *)
(* derives induction over the natural numbers from their well-foundedness  *)
(* and from it the equation of Path.                                       *)
(***************************************************************************)
EXTENDS LibsqlStorage, WellFoundedInduction, TLAPS

(***************************************************************************)
(* The inductive invariant.                                                *)
(***************************************************************************)
Values == UNION {{b[i].value : i \in DOMAIN b} : b \in Batches}

Table(t) == t = [k \in DOMAIN t |-> t[k]] /\ \A k \in DOMAIN t : t[k] \in Values

ShapeInv ==
  /\ TypeOK
  /\ sent \in [Calls -> Batches \union {<<>>}] /\ run \in [Calls -> Runs]
  /\ pending = [c \in Calls |-> pending[c]]
  /\ Table(store) /\ \A c \in Calls : Table(pending[c])

\* Only a complete batch is reported, and nothing runs before it is sent.
CallInv ==
  \A c \in Calls :
    /\ answer[c] = "none" => sent[c] = <<>>
    /\ sent[c] = <<>> => run[c] = NotRun
    /\ answer[c] \in {"ok", "conflict"} => Complete(c)

\* A transaction is opened by its BEGIN; until its COMMIT is tried nothing is
\* committed, and after a failure no step succeeds.
RunInv ==
  \A c \in Calls :
    /\ run[c].step = 0 => run[c] = NotRun /\ c \notin open
    /\ backend # "libsql" => run[c].step = 0 \/ Complete(c)
    /\ c \in open => Transactional(c)
    /\ Transactional(c) /\ run[c].step <= CommitStep(c) =>
         /\ ~run[c].committed
         /\ run[c].last = "ok" => run[c].failure = "none"

\* One connection at a time holds uncommitted rows, each newer than the
\* committed one.
LockInv ==
  /\ \A c, d \in Calls : pending[c] # << >> /\ pending[d] # << >> => c = d
  /\ \A c \in Calls : \A k \in DOMAIN pending[c] \intersect DOMAIN store :
       Newer(pending[c][k], store[k])

Ready(c) == c \in open /\ run[c].last = "ok" /\ run[c].step <= CommitStep(c)

\* A connection whose statements all succeeded sees the table they make of the
\* committed one, now and not only when they ran: either it holds the lock or
\* none of them wrote.
ViewIs(c, played, table) ==
  /\ View(c) = Path(sent[c], table)[played]
  /\ \A i \in 1..played : Fits(sent[c][i], Path(sent[c], table)[i - 1])
  /\ pending[c] = << >> => \A i \in 1..played : ~Writes(sent[c][i], table)

ViewInv == \A c \in Calls : Ready(c) => ViewIs(c, run[c].step - 1, store)

IInv == ShapeInv /\ CallInv /\ RunInv /\ NoOpenTransactionLeft /\ LockInv /\ ViewInv

(***************************************************************************)
(* Induction, and the equation of Path.                                    *)
(***************************************************************************)
\* Every nonempty set of natural numbers has a least element.
LEMMA Least ==
  ASSUME NEW T \in SUBSET Nat, T # {}
  PROVE  \E n \in T : \A m \in T : ~(m < n)
<1> DEFINE R == OpToRel(<, Nat)
<1>1. \A x, y \in Nat : x < y => <<x, y>> \in R
  BY DEF OpToRel
<1>2. IsWellFoundedOn(R, Nat)
  BY NatLessThanWellFounded
<1> HIDE DEF R
<1>3. \A RR, S, TT : IsWellFoundedOn(RR, S) /\ TT \subseteq S /\ TT # {} =>
        \E x \in TT : \A y \in TT : ~(<<y, x>> \in RR)
  BY WFMin
<1>4. \E x \in T : \A y \in T : ~(<<y, x>> \in R)
  BY <1>2, <1>3
<1>5. QED
  BY <1>1, <1>4

\* Induction over the natural numbers, for a set.
LEMMA SetInduction ==
  ASSUME NEW T, 0 \in T, \A n \in Nat : n \in T => n + 1 \in T
  PROVE  Nat \subseteq T
<1> SUFFICES ASSUME Nat \ T # {} PROVE FALSE
  OBVIOUS
<1>1. PICK n \in Nat \ T : \A m \in Nat \ T : ~(m < n)
  <2>1. Nat \ T \in SUBSET Nat
    OBVIOUS
  <2>2. QED
    BY <2>1, Least
<1>2. n # 0 /\ n - 1 \in Nat /\ n - 1 < n
  OBVIOUS
<1>3. n - 1 \in T
  BY <1>1, <1>2
<1>4. (n - 1) + 1 = n
  OBVIOUS
<1>5. QED
  BY <1>2, <1>3, <1>4

\* The tables of a path follow from each other.
LEMMA PathEquation ==
  ASSUME NEW b, NEW t, Len(b) \in Nat
  PROVE  Path(b, t) = [i \in 0..Len(b) |->
                         IF i = 0 THEN t ELSE After(b[i], Path(b, t)[i - 1])]
<1> DEFINE Solves(f, n) == f = [i \in 0..n |-> IF i = 0 THEN t ELSE After(b[i], f[i - 1])]
           T == {n \in Nat : \E f : Solves(f, n)}
<1>1. 0 \in T
  <2>1. Solves([i \in 0..0 |-> t], 0)
    OBVIOUS
  <2>2. QED
    BY <2>1
<1>2. \A n \in Nat : n \in T => n + 1 \in T
  <2> SUFFICES ASSUME NEW n \in Nat, NEW f, Solves(f, n) PROVE \E g : Solves(g, n + 1)
    OBVIOUS
  <2> DEFINE g == [i \in 0..(n + 1) |-> IF i = n + 1 THEN After(b[n + 1], f[n]) ELSE f[i]]
  <2>1. \A i \in 0..(n + 1) : i # 0 => g[i - 1] = f[i - 1]
    OBVIOUS
  <2>2. \A i \in 0..(n + 1) : g[i] = IF i = 0 THEN t ELSE After(b[i], g[i - 1])
    BY <2>1
  <2>3. Solves(g, n + 1)
    BY <2>2
  <2>4. QED
    BY <2>3
<1>3. \E f : Solves(f, Len(b))
  BY <1>1, <1>2, SetInduction
<1>4. Path(b, t) = CHOOSE f : Solves(f, Len(b))
  BY DEF Path
<1> HIDE DEF Solves
<1>5. Solves(Path(b, t), Len(b))
  BY <1>3, <1>4
<1>6. QED
  BY <1>5 DEF Solves

\* A statement that does not write leaves the table as it is.
LEMMA IdleAfter ==
  ASSUME NEW s, NEW t, t = [k \in DOMAIN t |-> t[k]], ~Writes(s, t)
  PROVE  After(s, t) = t
<1>1. s.key \in DOMAIN t
  BY DEF Writes
<1>2. After(s, t) = [k \in DOMAIN t |-> t[k]]
  <2>1. DOMAIN t \union {s.key} = DOMAIN t
    BY <1>1
  <2>2. QED
    BY <2>1 DEF After
<1>3. QED
  BY <1>2

\* As long as no statement writes, the path stays at the table it began with.
LEMMA IdlePath ==
  ASSUME NEW b, NEW t, Len(b) \in Nat, t = [k \in DOMAIN t |-> t[k]],
         NEW n \in 0..Len(b), \A i \in 1..n : ~Writes(b[i], t)
  PROVE  \A i \in 0..n : Path(b, t)[i] = t
<1> DEFINE T == {i \in Nat : i <= n => Path(b, t)[i] = t}
<1>1. 0 \in T
  BY PathEquation
<1>2. \A i \in Nat : i \in T => i + 1 \in T
  <2> SUFFICES ASSUME NEW i \in Nat, i \in T, i + 1 <= n PROVE Path(b, t)[i + 1] = t
    OBVIOUS
  <2>1. Path(b, t)[i] = t
    OBVIOUS
  <2>2. i + 1 \in 0..Len(b) /\ i + 1 # 0 /\ (i + 1) - 1 = i
    OBVIOUS
  <2>3. Path(b, t)[i + 1] = After(b[i + 1], Path(b, t)[i])
    BY <2>2, PathEquation
  <2>4. ~Writes(b[i + 1], t)
    OBVIOUS
  <2>5. QED
    BY <2>1, <2>3, <2>4, IdleAfter
<1>3. Nat \subseteq T
  BY <1>1, <1>2, SetInduction
<1>4. QED
  BY <1>3

(***************************************************************************)
(* What the steps of a batch write.                                        *)
(***************************************************************************)
\* A batch is a sequence, and what it writes are values.
LEMMA BatchShape ==
  ASSUME ShapeInv, NEW c \in Calls
  PROVE  /\ Len(sent[c]) \in Nat
         /\ sent[c] # <<>> => Len(sent[c]) >= 1
         /\ \A i \in 1..Len(sent[c]) : sent[c][i].value \in Values
<1>1. CASE sent[c] = <<>>
  BY <1>1
<1>2. CASE sent[c] # <<>>
  <2>1. sent[c] \in Batches
    BY <1>2 DEF ShapeInv
  <2>2. sent[c] \in Seq({sent[c][i] : i \in DOMAIN sent[c]})
    BY <2>1, BatchesAssumption
  <2>3. Len(sent[c]) \in Nat /\ DOMAIN sent[c] = 1..Len(sent[c])
    BY <2>2
  <2>4. Len(sent[c]) # 0
    BY <1>2, <2>2
  <2>5. \A i \in 1..Len(sent[c]) : sent[c][i].value \in Values
    BY <2>1, <2>3 DEF Values
  <2>6. QED
    BY <2>3, <2>4, <2>5
<1>3. QED
  BY <1>1, <1>2

LEMMA SucceedIs ==
  ASSUME run \in [Calls -> Runs], NEW c \in Calls, NEW commits \in BOOLEAN, Succeed(c, commits)
  PROVE  \E r \in Runs : /\ run' = [run EXCEPT ![c] = r]
                         /\ r.step = run[c].step + 1 /\ r.last = "ok"
                         /\ r.failure = run[c].failure
                         /\ r.committed = (run[c].committed \/ commits)
<1> DEFINE r == [step |-> run[c].step + 1, last |-> "ok", failure |-> run[c].failure,
              committed |-> run[c].committed \/ commits]
<1>1. run[c] \in Runs
  OBVIOUS
<1>2. r \in Runs
  BY <1>1 DEF Runs
<1>3. run' = [run EXCEPT ![c] = r]
  <2>1. run' = [d \in Calls |-> run'[d]] /\ \A d \in Calls \ {c} : run'[d] = run[d]
    BY DEF Succeed
  <2>2. run'[c] = r
    BY <1>1 DEF Succeed, Runs
  <2>3. QED
    BY <2>1, <2>2
<1>4. /\ r.step = run[c].step + 1 /\ r.last = "ok" /\ r.failure = run[c].failure
      /\ r.committed = (run[c].committed \/ commits)
  BY <1>1 DEF Runs
<1>5. QED
  BY <1>2, <1>3, <1>4

LEMMA FailIs ==
  ASSUME run \in [Calls -> Runs], NEW c \in Calls, NEW failure \in {"error", "constraint"},
         Fail(c, failure)
  PROVE  \E r \in Runs : /\ run' = [run EXCEPT ![c] = r]
                         /\ r.step = run[c].step + 1 /\ r.last = "failed"
                         /\ r.failure = IF run[c].failure = "none" THEN failure
                                        ELSE run[c].failure
                         /\ r.committed = run[c].committed
<1> DEFINE r == [step |-> run[c].step + 1, last |-> "failed", committed |-> run[c].committed,
              failure |-> IF run[c].failure = "none" THEN failure ELSE run[c].failure]
<1>1. run[c] \in Runs
  OBVIOUS
<1>2. r \in Runs
  BY <1>1 DEF Runs
<1>3. run' = [run EXCEPT ![c] = r]
  <2>1. run' = [d \in Calls |-> run'[d]] /\ \A d \in Calls \ {c} : run'[d] = run[d]
    BY DEF Fail
  <2>2. run'[c] = r
    BY <1>1 DEF Fail, Runs
  <2>3. QED
    BY <2>1, <2>2
<1>4. /\ r.step = run[c].step + 1 /\ r.last = "failed" /\ r.committed = run[c].committed
      /\ r.failure = IF run[c].failure = "none" THEN failure ELSE run[c].failure
  BY <1>1 DEF Runs
<1>5. QED
  BY <1>2, <1>3, <1>4

LEMMA SkipIs ==
  ASSUME run \in [Calls -> Runs], NEW c \in Calls, Skip(c)
  PROVE  \E r \in Runs : /\ run' = [run EXCEPT ![c] = r]
                         /\ r.step = run[c].step + 1 /\ r.last = "skipped"
                         /\ r.failure = run[c].failure /\ r.committed = run[c].committed
<1> DEFINE r == [step |-> run[c].step + 1, last |-> "skipped", failure |-> run[c].failure,
              committed |-> run[c].committed]
<1>1. run[c] \in Runs
  OBVIOUS
<1>2. r \in Runs
  BY <1>1 DEF Runs
<1>3. run' = [run EXCEPT ![c] = r]
  <2>1. run' = [d \in Calls |-> run'[d]] /\ \A d \in Calls \ {c} : run'[d] = run[d]
    BY DEF Skip
  <2>2. run'[c] = r
    BY <1>1 DEF Skip, Runs
  <2>3. QED
    BY <2>1, <2>2
<1>4. /\ r.step = run[c].step + 1 /\ r.last = "skipped"
      /\ r.failure = run[c].failure /\ r.committed = run[c].committed
  BY <1>1 DEF Runs
<1>5. QED
  BY <1>2, <1>3, <1>4

\* A step of the server on one call's batch: the part of the invariant that is
\* about each call alone.
LEMMA ServerFrame ==
  ASSUME IInv, NEW c \in Calls, Running(c), NEW r \in Runs, NEW p,
         r.step = run[c].step + 1, run' = [run EXCEPT ![c] = r],
         pending' = [pending EXCEPT ![c] = p], Table(p), Table(store)',
         open' \subseteq open \union {c}, open \ {c} \subseteq open',
         UNCHANGED <<sent, answer, backend, closed>>,
         p # << >> => c \in open',
         c \in open' => Transactional(c) /\ r.step # Steps(c),
         Transactional(c) /\ r.step <= CommitStep(c) =>
           ~r.committed /\ (r.last = "ok" => r.failure = "none")
  PROVE  ShapeInv' /\ CallInv' /\ RunInv' /\ NoOpenTransactionLeft'
<1> USE DEF IInv
<1>1. /\ run' \in [Calls -> Runs] /\ run'[c] = r
      /\ \A d \in Calls \ {c} : run'[d] = run[d]
  BY DEF ShapeInv
<1>2. /\ pending' = [d \in Calls |-> pending'[d]] /\ pending'[c] = p
      /\ \A d \in Calls \ {c} : pending'[d] = pending[d]
  BY DEF ShapeInv
<1>3. \A d \in Calls : /\ Steps(d)' = Steps(d) /\ CommitStep(d)' = CommitStep(d)
                       /\ Transactional(d)' = Transactional(d)
                       /\ sent'[d] = sent[d] /\ answer'[d] = answer[d]
  BY DEF Steps, CommitStep, Transactional
<1>4. /\ Len(sent[c]) \in Nat /\ Len(sent[c]) >= 1
      /\ Steps(c) \in Nat /\ run[c].step \in Nat /\ run[c].step < Steps(c)
  <2>1. Len(sent[c]) \in Nat /\ Len(sent[c]) >= 1
    BY BatchShape DEF Running
  <2>2. run[c].step \in Nat /\ run[c].step <= Steps(c)
    BY DEF ShapeInv, TypeOK, Runs
  <2>3. run[c].step # Steps(c)
    BY DEF Running, Complete
  <2>4. QED
    BY <2>1, <2>2, <2>3 DEF Steps
<1>5. \A d \in Calls \ {c} : /\ Complete(d)' = Complete(d) /\ Running(d)' = Running(d)
                             /\ d \in open' <=> d \in open
  BY <1>1, <1>3 DEF Complete, Running
<1>6. ShapeInv'
  <2>1. TypeOK'
    <3>1. \A d \in Calls : run'[d] \in Runs /\ run'[d].step <= Steps(d)'
      BY <1>1, <1>3, <1>4 DEF ShapeInv, TypeOK
    <3>2. open' \subseteq Calls
      BY DEF ShapeInv, TypeOK
    <3>3. QED
      BY <3>1, <3>2, <1>3 DEF ShapeInv, TypeOK
  <2>2. \A d \in Calls : Table(pending[d])'
    <3>1. \A d \in Calls : Table(pending'[d])
      BY <1>2 DEF ShapeInv
    <3>2. QED
      BY <3>1 DEF Table
  <2>3. QED
    BY <2>1, <2>2, <1>1, <1>2 DEF ShapeInv
<1>7. CallInv'
  <2>1. answer[c] \notin {"none", "ok", "conflict"} /\ sent[c] # <<>>
    BY DEF CallInv, Running
  <2>2. QED
    BY <2>1, <1>1, <1>3, <1>5 DEF CallInv
<1>8. RunInv'
  <2>1. run'[c].step # 0
    BY <1>1, <1>4
  <2>2. backend' = "libsql"
    BY DEF Running
  <2>3. QED
    BY <2>1, <2>2, <1>1, <1>3, <1>5 DEF RunInv
<1>9. NoOpenTransactionLeft'
  <2>1. c \in open' => Running(c)'
    BY <1>1, <1>3 DEF Running, Complete
  <2>2. QED
    BY <2>1, <1>2, <1>5 DEF NoOpenTransactionLeft
<1>10. QED
  BY <1>6, <1>7, <1>8, <1>9

\* A step that leaves the committed rows alone and adds no uncommitted ones.
LEMMA QuietFrame ==
  ASSUME IInv, NEW c \in Calls, NEW p,
         pending' = [pending EXCEPT ![c] = p], p \in {<< >>, pending[c]},
         \A d \in Calls \ {c} : run'[d] = run[d],
         open' \subseteq open \union {c},
         UNCHANGED <<sent, store>>,
         Ready(c)' => ViewIs(c, run[c].step - 1, store)'
  PROVE  LockInv' /\ ViewInv'
<1> USE DEF IInv
<1>1. pending'[c] = p /\ \A d \in Calls \ {c} : pending'[d] = pending[d]
  BY DEF ShapeInv
<1>2. LockInv'
  <2>1. \A d \in Calls : pending'[d] \in {<< >>, pending[d]}
    BY <1>1
  <2>2. \A d, e \in Calls : pending'[d] # << >> /\ pending'[e] # << >> => d = e
    BY <2>1 DEF LockInv
  <2>3. \A d \in Calls : \A k \in DOMAIN pending'[d] \intersect DOMAIN store' :
          Newer(pending'[d][k], store'[k])
    <3> SUFFICES ASSUME NEW d \in Calls, NEW k \in DOMAIN pending'[d] \intersect DOMAIN store'
                 PROVE  Newer(pending'[d][k], store'[k])
      OBVIOUS
    <3>1. pending'[d] = pending[d]
      BY <2>1
    <3>2. QED
      BY <3>1 DEF LockInv
  <2>4. QED
    BY <2>2, <2>3 DEF LockInv
<1>3. ASSUME NEW d \in Calls, Ready(d)' PROVE ViewIs(d, run[d].step - 1, store)'
  <2>1. CASE d = c
    BY <2>1, <1>3
  <2>2. CASE d # c
    <3>1. Ready(d) /\ run'[d].step = run[d].step
      BY <2>2, <1>3 DEF Ready, CommitStep
    <3>2. ViewIs(d, run[d].step - 1, store)
      BY <3>1 DEF ViewInv
    <3>3. pending'[d] = pending[d] /\ sent'[d] = sent[d] /\ store' = store
      BY <2>2, <1>1
    <3>4. QED
      BY <3>1, <3>2, <3>3 DEF ViewIs, View
  <2>3. QED
    BY <2>1, <2>2
<1>4. QED
  BY <1>2, <1>3 DEF ViewInv

(***************************************************************************)
(* One lemma per action.                                                   *)
(***************************************************************************)
\* Where a batch stands while its transaction is open.
LEMMA Standing ==
  ASSUME IInv, NEW c \in Calls, Running(c), Transactional(c)
  PROVE  /\ Len(sent[c]) \in Nat /\ Len(sent[c]) > 1
         /\ run[c] \in Runs /\ run[c].step \in Nat
         /\ CommitStep(c) = Len(sent[c]) + 1 /\ Steps(c) = Len(sent[c]) + 3
         /\ run[c].step < Steps(c)
         /\ c \notin open => pending[c] = << >>
         /\ run \in [Calls -> Runs]
         /\ Table(store) /\ Table(pending[c]) /\ Table(<< >>)
<1>1. Len(sent[c]) \in Nat /\ Len(sent[c]) > 1
  BY BatchShape DEF IInv, Transactional
<1>2. run[c] \in Runs /\ run[c].step \in Nat /\ run[c].step <= Steps(c)
  BY DEF IInv, ShapeInv, TypeOK, Runs
<1>3. run[c].step # Steps(c)
  BY DEF Running, Complete
<1>4. CommitStep(c) = Len(sent[c]) + 1 /\ Steps(c) = Len(sent[c]) + 3
  BY DEF CommitStep, Steps
<1>5. Table(<< >>)
  BY DEF Table
<1>6. QED
  BY <1>1, <1>2, <1>3, <1>4, <1>5 DEF IInv, ShapeInv, NoOpenTransactionLeft

\* A connection without rows of its own sees the committed ones.
LEMMA IdleView ==
  ASSUME NEW c \in Calls, pending[c] = << >>, Table(store)
  PROVE  View(c) = store
<1>1. DOMAIN pending[c] = {}
  OBVIOUS
<1>2. View(c) = [k \in DOMAIN store |-> store[k]]
  BY <1>1 DEF View
<1>3. QED
  BY <1>2 DEF Table

LEMMA BeginKeeps ==
  ASSUME IInv, NEW c \in Calls, Begin(c)
  PROVE  IInv'
<1> USE DEF Begin
<1>1. /\ Len(sent[c]) \in Nat /\ Len(sent[c]) > 1 /\ run[c] \in Runs /\ run \in [Calls -> Runs]
      /\ CommitStep(c) = Len(sent[c]) + 1 /\ Steps(c) = Len(sent[c]) + 3
      /\ Table(store) /\ Table(pending[c])
  BY Standing
<1>2. c \notin open /\ run[c] = NotRun
  BY DEF IInv, RunInv
<1>3. pending[c] = << >> /\ pending' = [pending EXCEPT ![c] = pending[c]]
  BY <1>2 DEF IInv, NoOpenTransactionLeft, ShapeInv
<1>4. PICK r \in Runs :
        /\ run' = [run EXCEPT ![c] = r] /\ r.step = run[c].step + 1
        /\ r.failure \in {"none", "error"} /\ ~r.committed
        /\ \/ r.last = "ok" /\ r.failure = "none" /\ open' = open \union {c}
           \/ r.last = "failed" /\ open' = open
  <2>1. run[c].failure = "none" /\ run[c].committed = FALSE
    BY <1>2 DEF NotRun
  <2>2. CASE Succeed(c, FALSE) /\ open' = open \union {c}
    <3>1. PICK r \in Runs : /\ run' = [run EXCEPT ![c] = r]
                            /\ r.step = run[c].step + 1 /\ r.last = "ok"
                            /\ r.failure = run[c].failure
                            /\ r.committed = (run[c].committed \/ FALSE)
      BY <2>2, <1>1, SucceedIs
    <3>2. QED
      BY <2>1, <2>2, <3>1
  <2>3. CASE Fail(c, "error") /\ UNCHANGED open
    BY <2>1, <2>3, <1>1, FailIs
  <2>4. QED
    BY <2>2, <2>3
<1>5. run'[c] = r /\ run[c].step = 0 /\ r.step = 1 /\ \A d \in Calls \ {c} : run'[d] = run[d]
  BY <1>1, <1>2, <1>4 DEF NotRun
<1>6. ShapeInv' /\ CallInv' /\ RunInv' /\ NoOpenTransactionLeft'
  <2>1. Table(store)'
    BY <1>1 DEF Table
  <2>2. open' \subseteq open \union {c} /\ open \ {c} \subseteq open'
    BY <1>4
  <2>3. c \in open' => Transactional(c) /\ r.step # Steps(c)
    BY <1>1, <1>5
  <2>4. Transactional(c) /\ r.step <= CommitStep(c) =>
           ~r.committed /\ (r.last = "ok" => r.failure = "none")
    BY <1>4
  <2>5. QED
    BY <1>1, <1>3, <1>4, <2>1, <2>2, <2>3, <2>4, ServerFrame
<1>7. LockInv' /\ ViewInv'
  <2>1. (ViewIs(c, 0, store))'
    <3>1. Path(sent[c], store)[0] = store
      BY <1>1, PathEquation
    <3>2. View(c) = store
      BY <1>1, <1>3, IdleView
    <3>3. ViewIs(c, 0, store)
      BY <3>1, <3>2 DEF ViewIs
    <3>4. QED
      BY <3>3 DEF ViewIs, View
  <2>2. Ready(c)' => ViewIs(c, run[c].step - 1, store)'
    BY <2>1, <1>5
  <2>3. open' \subseteq open \union {c}
    BY <1>4
  <2>4. QED
    BY <1>3, <1>5, <2>2, <2>3, QuietFrame
<1>8. QED
  BY <1>6, <1>7 DEF IInv

LEMMA SkippedKeeps ==
  ASSUME IInv, NEW c \in Calls, StatementSkipped(c)
  PROVE  IInv'
<1> USE DEF StatementSkipped, InBody
<1>1. /\ Len(sent[c]) \in Nat /\ Len(sent[c]) > 1 /\ run[c] \in Runs /\ run \in [Calls -> Runs]
      /\ CommitStep(c) = Len(sent[c]) + 1 /\ Steps(c) = Len(sent[c]) + 3
      /\ Table(store) /\ Table(pending[c]) /\ run[c].step \in Nat
  BY Standing
<1>2. PICK r \in Runs :
        /\ run' = [run EXCEPT ![c] = r] /\ r.step = run[c].step + 1 /\ r.last = "skipped"
        /\ r.failure = run[c].failure /\ r.committed = run[c].committed
  BY <1>1, SkipIs
<1>3. ~r.committed
  BY <1>1, <1>2 DEF IInv, RunInv
<1>4. run'[c] = r /\ \A d \in Calls \ {c} : run'[d] = run[d]
  BY <1>1, <1>2
<1>5. pending' = [pending EXCEPT ![c] = pending[c]]
  BY DEF IInv, ShapeInv
<1>6. ShapeInv' /\ CallInv' /\ RunInv' /\ NoOpenTransactionLeft'
  <2>1. Table(store)'
    BY <1>1 DEF Table
  <2>2. pending[c] # << >> => c \in open'
    BY DEF IInv, NoOpenTransactionLeft
  <2>3. r.step # Steps(c)
    BY <1>1, <1>2
  <2>4. QED
    BY <1>1, <1>2, <1>3, <1>5, <2>1, <2>2, <2>3, ServerFrame
<1>7. LockInv' /\ ViewInv'
  <2>1. ~Ready(c)'
    BY <1>2, <1>4 DEF Ready
  <2>2. QED
    BY <2>1, <1>4, <1>5, QuietFrame
<1>8. QED
  BY <1>6, <1>7 DEF IInv

LEMMA FailsKeeps ==
  ASSUME IInv, NEW c \in Calls, StatementFails(c)
  PROVE  IInv'
<1> USE DEF StatementFails, InBody
<1>1. /\ Len(sent[c]) \in Nat /\ Len(sent[c]) > 1 /\ run[c] \in Runs /\ run \in [Calls -> Runs]
      /\ CommitStep(c) = Len(sent[c]) + 1 /\ Steps(c) = Len(sent[c]) + 3
      /\ Table(store) /\ Table(pending[c]) /\ Table(<< >>) /\ run[c].step \in Nat
  BY Standing
<1>2. PICK failure \in {"error", "constraint"} : Fail(c, failure)
  BY DEF Failures
<1>3. PICK r \in Runs :
        /\ run' = [run EXCEPT ![c] = r] /\ r.step = run[c].step + 1 /\ r.last = "failed"
        /\ r.committed = run[c].committed
  BY <1>1, <1>2, FailIs
<1>4. ~r.committed
  BY <1>1, <1>3 DEF IInv, RunInv
<1>5. run'[c] = r /\ \A d \in Calls \ {c} : run'[d] = run[d]
  BY <1>1, <1>3
<1>6. PICK p \in {<< >>, pending[c]} :
        /\ pending' = [pending EXCEPT ![c] = p]
        /\ open' \subseteq open /\ open \ {c} \subseteq open' /\ (p # << >> => c \in open')
  <2>1. CASE EndTransaction(c)
    BY <2>1 DEF EndTransaction
  <2>2. CASE UNCHANGED <<open, pending>>
    <3>1. pending' = [pending EXCEPT ![c] = pending[c]]
      BY <2>2 DEF IInv, ShapeInv
    <3>2. pending[c] # << >> => c \in open'
      BY <2>2 DEF IInv, NoOpenTransactionLeft
    <3>3. QED
      BY <3>1, <3>2, <2>2
  <2>3. QED
    BY <2>1, <2>2
<1>7. ShapeInv' /\ CallInv' /\ RunInv' /\ NoOpenTransactionLeft'
  <2>1. Table(store)' /\ Table(p)
    BY <1>1, <1>6 DEF Table
  <2>2. open' \subseteq open \union {c}
    BY <1>6
  <2>3. r.step # Steps(c)
    BY <1>1, <1>3
  <2>4. r.last # "ok"
    BY <1>3
  <2>5. QED
    BY <1>3, <1>4, <1>6, <2>1, <2>2, <2>3, <2>4, ServerFrame
<1>8. LockInv' /\ ViewInv'
  <2>1. ~Ready(c)'
    BY <1>3, <1>5 DEF Ready
  <2>2. open' \subseteq open \union {c}
    BY <1>6
  <2>3. QED
    BY <2>1, <2>2, <1>5, <1>6, QuietFrame
<1>9. QED
  BY <1>7, <1>8 DEF IInv

LEMMA CommitFailsKeeps ==
  ASSUME IInv, NEW c \in Calls, CommitFails(c)
  PROVE  IInv'
<1> USE DEF CommitFails, AtCommit
<1>1. /\ Len(sent[c]) \in Nat /\ Len(sent[c]) > 1 /\ run[c] \in Runs /\ run \in [Calls -> Runs]
      /\ CommitStep(c) = Len(sent[c]) + 1 /\ Steps(c) = Len(sent[c]) + 3
      /\ Table(store) /\ Table(pending[c]) /\ Table(<< >>)
  BY Standing
<1>2. PICK r \in Runs : /\ run' = [run EXCEPT ![c] = r] /\ r.step = run[c].step + 1
                        /\ r.last # "ok"
  BY <1>1, FailIs, SkipIs
<1>3. run'[c] = r /\ \A d \in Calls \ {c} : run'[d] = run[d]
  BY <1>1, <1>2
<1>4. PICK p \in {<< >>, pending[c]} :
        /\ pending' = [pending EXCEPT ![c] = p]
        /\ open' \subseteq open /\ open \ {c} \subseteq open' /\ (p # << >> => c \in open')
  <2>1. CASE EndTransaction(c)
    BY <2>1 DEF EndTransaction
  <2>2. CASE UNCHANGED <<open, pending>>
    <3>1. pending' = [pending EXCEPT ![c] = pending[c]]
      BY <2>2 DEF IInv, ShapeInv
    <3>2. pending[c] # << >> => c \in open'
      BY <2>2 DEF IInv, NoOpenTransactionLeft
    <3>3. QED
      BY <3>1, <3>2, <2>2
  <2>3. QED
    BY <2>1, <2>2
<1>5. ShapeInv' /\ CallInv' /\ RunInv' /\ NoOpenTransactionLeft'
  <2>1. Table(store)' /\ Table(p)
    BY <1>1, <1>4 DEF Table
  <2>2. open' \subseteq open \union {c}
    BY <1>4
  <2>3. r.step # Steps(c) /\ ~(r.step <= CommitStep(c))
    BY <1>1, <1>2
  <2>4. QED
    BY <1>2, <1>4, <2>1, <2>2, <2>3, ServerFrame
<1>6. LockInv' /\ ViewInv'
  <2>1. ~Ready(c)'
    BY <1>2, <1>3 DEF Ready
  <2>2. open' \subseteq open \union {c}
    BY <1>4
  <2>3. QED
    BY <2>1, <2>2, <1>3, <1>4, QuietFrame
<1>7. QED
  BY <1>5, <1>6 DEF IInv

LEMMA RollbackKeeps ==
  ASSUME IInv, NEW c \in Calls, Rollback(c)
  PROVE  IInv'
<1> USE DEF Rollback
<1>1. /\ Len(sent[c]) \in Nat /\ Len(sent[c]) > 1 /\ run[c] \in Runs /\ run \in [Calls -> Runs]
      /\ CommitStep(c) = Len(sent[c]) + 1 /\ Steps(c) = Len(sent[c]) + 3
      /\ Table(store) /\ Table(<< >>)
  BY Standing
<1>2. PICK r \in Runs : run' = [run EXCEPT ![c] = r] /\ r.step = run[c].step + 1
  <2>1. run[c].committed \in BOOLEAN
    BY <1>1 DEF Runs
  <2>2. Skip(c) \/ Succeed(c, FALSE) \/ Fail(c, "error")
    BY <2>1
  <2>3. QED
    BY <2>2, <1>1, SkipIs, SucceedIs, FailIs
<1>3. run'[c] = r /\ \A d \in Calls \ {c} : run'[d] = run[d]
  BY <1>1, <1>2
<1>4. /\ pending' = [pending EXCEPT ![c] = << >>] /\ c \notin open'
      /\ open' \subseteq open \union {c} /\ open \ {c} \subseteq open'
  BY DEF EndTransaction
<1>5. ShapeInv' /\ CallInv' /\ RunInv' /\ NoOpenTransactionLeft'
  <2>1. Table(store)'
    BY <1>1 DEF Table
  <2>2. ~(r.step <= CommitStep(c))
    BY <1>1, <1>2
  <2>3. QED
    BY <1>1, <1>2, <1>4, <2>1, <2>2, ServerFrame
<1>6. LockInv' /\ ViewInv'
  <2>1. ~Ready(c)'
    BY <1>4 DEF Ready
  <2>2. QED
    BY <2>1, <1>3, <1>4, QuietFrame
<1>7. QED
  BY <1>5, <1>6 DEF IInv

\* What a statement that may write makes of a table.
LEMMA AfterWrites ==
  ASSUME NEW s, NEW t, Table(t), s.value \in Values
  PROVE  /\ Table(After(s, t))
         /\ s.key \in DOMAIN After(s, t) /\ After(s, t) # << >>
         /\ DOMAIN t \subseteq DOMAIN After(s, t)
         /\ \A k \in DOMAIN t : \/ After(s, t)[k] = t[k]
                                \/ Newer(After(s, t)[k], t[k])
<1>1. /\ DOMAIN After(s, t) = DOMAIN t \union {s.key}
      /\ \A k \in DOMAIN After(s, t) :
           After(s, t)[k] = IF k = s.key /\ Writes(s, t) THEN s.value ELSE t[k]
      /\ After(s, t) = [k \in DOMAIN After(s, t) |-> After(s, t)[k]]
  BY DEF After
<1>2. \A k \in DOMAIN After(s, t) : After(s, t)[k] \in Values
  BY <1>1 DEF Table, Writes
<1>3. After(s, t) # << >>
  <2>1. DOMAIN << >> = {}
    OBVIOUS
  <2>2. QED
    BY <1>1, <2>1
<1>4. \A k \in DOMAIN t : After(s, t)[k] = t[k] \/ Newer(After(s, t)[k], t[k])
  BY <1>1 DEF Writes
<1>5. QED
  BY <1>1, <1>2, <1>3, <1>4 DEF Table

LEMMA NewerIsTransitive ==
  ASSUME NEW u \in Values, NEW v \in Values, NEW w \in Values, Newer(u, v), Newer(v, w)
  PROVE  Newer(u, w)
  BY NewerAssumption DEF Values

\* A batch of which nothing was written yet finds nothing to write in a table whose
\* rows are as new.
LEMMA IdleStays ==
  ASSUME IInv, NEW d \in Calls, NEW n \in 0..Len(sent[d]),
         pending[d] = << >>, ViewIs(d, n, store),
         NEW t, Table(t), DOMAIN store \subseteq DOMAIN t,
         \A k \in DOMAIN store : t[k] = store[k] \/ Newer(t[k], store[k])
  PROVE  /\ \A i \in 1..n : ~Writes(sent[d][i], t)
         /\ \A i \in 0..n : Path(sent[d], t)[i] = t
         /\ \A i \in 1..n : Fits(sent[d][i], Path(sent[d], t)[i - 1])
<1>1. /\ Len(sent[d]) \in Nat /\ Table(store)
      /\ \A i \in 1..Len(sent[d]) : sent[d][i].value \in Values
  BY BatchShape DEF IInv, ShapeInv
<1>2. \A i \in 1..n : ~Writes(sent[d][i], store)
  BY DEF ViewIs
<1>3. \A i \in 0..n : Path(sent[d], store)[i] = store
  BY <1>1, <1>2, IdlePath DEF Table
<1>4. ASSUME NEW i \in 1..n
      PROVE  ~Writes(sent[d][i], t) /\ sent[d][i].op # "insert"
  <2> DEFINE s == sent[d][i]
  <2>1. s.key \in DOMAIN store /\ ~Newer(s.value, store[s.key])
    BY <1>2 DEF Writes
  <2>2. s.value \in Values /\ store[s.key] \in Values /\ t[s.key] \in Values
    BY <1>1, <2>1 DEF Table
  <2>3. ~Newer(s.value, t[s.key])
    BY <2>1, <2>2, NewerIsTransitive
  <2>4. Fits(s, store)
    <3>1. i - 1 \in 0..n
      OBVIOUS
    <3>2. Fits(s, Path(sent[d], store)[i - 1])
      BY DEF ViewIs
    <3>3. QED
      BY <3>1, <3>2, <1>3
  <2>5. QED
    BY <2>1, <2>3, <2>4 DEF Writes, Fits
<1>5. \A i \in 0..n : Path(sent[d], t)[i] = t
  BY <1>1, <1>4, IdlePath DEF Table
<1>6. QED
  BY <1>4, <1>5 DEF Fits

\* A step that commits: whoever is not alone with its rows has none.
LEMMA CommitFrame ==
  ASSUME IInv, NEW c \in Calls,
         pending' = [pending EXCEPT ![c] = << >>], c \notin open', open' \subseteq open \union {c},
         \A d \in Calls \ {c} : run'[d] = run[d],
         sent' = sent,
         store' = store \/ \A d \in Calls \ {c} : pending[d] = << >>,
         Table(store'), DOMAIN store \subseteq DOMAIN store',
         \A k \in DOMAIN store : store'[k] = store[k] \/ Newer(store'[k], store[k])
  PROVE  LockInv' /\ ViewInv'
<1> USE DEF IInv
<1>1. pending'[c] = << >> /\ \A d \in Calls \ {c} : pending'[d] = pending[d]
  BY DEF ShapeInv
<1>2. LockInv'
  <2>1. \A d, e \in Calls : pending'[d] # << >> /\ pending'[e] # << >> => d = e
    BY <1>1 DEF LockInv
  <2>2. ASSUME NEW d \in Calls, NEW k \in DOMAIN pending'[d] \intersect DOMAIN store'
        PROVE  Newer(pending'[d][k], store'[k])
    <3>1. DOMAIN << >> = {}
      OBVIOUS
    <3>2. pending'[d] # << >>
      BY <2>2, <3>1
    <3>3. d # c /\ pending'[d] = pending[d] /\ store' = store
      BY <3>2, <1>1
    <3>4. QED
      BY <2>2, <3>3 DEF LockInv
  <2>3. QED
    BY <2>1, <2>2 DEF LockInv
<1>3. ASSUME NEW d \in Calls, Ready(d)' PROVE ViewIs(d, run[d].step - 1, store)'
  <2>1. d # c /\ pending'[d] = pending[d] /\ sent'[d] = sent[d] /\ run'[d] = run[d]
    BY <1>1, <1>3 DEF Ready
  <2>2. Ready(d)
    BY <2>1, <1>3 DEF Ready, CommitStep
  <2>3. ViewIs(d, run[d].step - 1, store)
    BY <2>2 DEF ViewInv
  <2>4. CASE store' = store
    BY <2>1, <2>3, <2>4 DEF ViewIs, View
  <2>5. CASE pending[d] = << >>
    <3>1. run[d].step - 1 \in 0..Len(sent[d])
      <4>1. run[d].step \in Nat /\ run[d].step # 0
        BY <2>2 DEF ShapeInv, TypeOK, Runs, RunInv, Ready
      <4>2. Len(sent[d]) \in Nat
        BY BatchShape
      <4>3. QED
        BY <4>1, <4>2, <2>2 DEF Ready, CommitStep
    <3>2. /\ \A i \in 1..(run[d].step - 1) : ~Writes(sent[d][i], store')
          /\ Path(sent[d], store')[run[d].step - 1] = store'
          /\ \A i \in 1..(run[d].step - 1) : Fits(sent[d][i], Path(sent[d], store')[i - 1])
      <4>1. run[d].step - 1 \in 0..(run[d].step - 1)
        BY <3>1
      <4>2. QED
        BY <3>1, <4>1, <2>3, <2>5, IdleStays
    <3>3. View(d)' = store'
      <4>1. DOMAIN pending'[d] = {}
        BY <2>1, <2>5
      <4>2. View(d)' = [k \in DOMAIN store' |-> store'[k]]
        BY <4>1 DEF View
      <4>3. QED
        BY <4>2 DEF Table
    <3>4. QED
      BY <2>1, <3>2, <3>3 DEF ViewIs
  <2>6. QED
    BY <2>1, <2>4, <2>5
<1>4. QED
  BY <1>2, <1>3 DEF ViewInv

LEMMA SucceedsKeeps ==
  ASSUME IInv, NEW c \in Calls, StatementSucceeds(c)
  PROVE  IInv'
<1> DEFINE n == run[c].step
           s == Statement(c)
           p == IF Writes(s, View(c)) THEN After(s, pending[c]) ELSE pending[c]
<1> USE DEF StatementSucceeds, InBody, Statement
<1>1. /\ Len(sent[c]) \in Nat /\ Len(sent[c]) > 1 /\ run[c] \in Runs /\ run \in [Calls -> Runs]
      /\ CommitStep(c) = Len(sent[c]) + 1 /\ Steps(c) = Len(sent[c]) + 3
      /\ Table(store) /\ Table(pending[c]) /\ n \in Nat
  BY Standing
<1>2. n \in 1..Len(sent[c]) /\ s = sent[c][n] /\ s.value \in Values /\ c \in open
  BY <1>1, BatchShape DEF IInv, Enabled
<1>3. /\ ViewIs(c, n - 1, store) /\ ~run[c].committed /\ run[c].failure = "none"
  <2>1. n <= CommitStep(c) /\ run[c].last = "ok"
    BY <1>1, <1>2 DEF Enabled
  <2>2. QED
    BY <1>2, <2>1 DEF IInv, ViewInv, RunInv, Ready
<1>4. PICK r \in Runs :
        /\ run' = [run EXCEPT ![c] = r] /\ r.step = n + 1 /\ r.last = "ok"
        /\ r.failure = "none" /\ ~r.committed
  <2>1. FALSE \in BOOLEAN /\ Succeed(c, FALSE)
    OBVIOUS
  <2>2. PICK r \in Runs : /\ run' = [run EXCEPT ![c] = r]
                          /\ r.step = run[c].step + 1 /\ r.last = "ok"
                          /\ r.failure = run[c].failure
                          /\ r.committed = (run[c].committed \/ FALSE)
    BY <1>1, <2>1, SucceedIs
  <2>3. QED
    BY <1>3, <2>2
<1>5. /\ pending' = [pending EXCEPT ![c] = p] /\ pending'[c] = p
      /\ UNCHANGED <<store, sent, open>> /\ Fits(s, View(c))
  BY DEF IInv, ShapeInv
<1>6. /\ run'[c] = r /\ \A d \in Calls \ {c} : run'[d] = run[d]
      /\ \A d \in Calls \ {c} : pending'[d] = pending[d]
  BY <1>1, <1>4 DEF IInv, ShapeInv
<1>7. Table(p)
  BY <1>1, <1>2, AfterWrites
<1>8. ShapeInv' /\ CallInv' /\ RunInv' /\ NoOpenTransactionLeft'
  <2>1. Table(store)'
    BY <1>1 DEF Table
  <2>2. c \in open' => Transactional(c) /\ r.step # Steps(c)
    BY <1>1, <1>2, <1>4
  <2>3. p # << >> => c \in open'
    BY <1>2
  <2> HIDE DEF p
  <2>4. QED
    BY <1>4, <1>5, <1>7, <2>1, <2>2, <2>3, ServerFrame
<1>9. \A d \in Calls \ {c} : pending[d] = << >>
  BY DEF Locked, IInv, NoOpenTransactionLeft
<1> HIDE DEF StatementSucceeds, InBody, Statement, s
<1>10. LockInv'
  <2>1. \A d, e \in Calls : pending'[d] # << >> /\ pending'[e] # << >> => d = e
    BY <1>6, <1>9
  <2>2. ASSUME NEW d \in Calls, NEW k \in DOMAIN pending'[d] \intersect DOMAIN store'
        PROVE  Newer(pending'[d][k], store'[k])
    <3>1. CASE d # c
      <4>1. DOMAIN pending'[d] = {}
        BY <3>1, <1>6, <1>9
      <4>2. QED
        BY <2>2, <4>1
    <3>2. CASE d = c /\ k \in DOMAIN pending[c] /\ p[k] = pending[c][k]
      BY <3>2, <2>2, <1>5 DEF IInv, LockInv
    <3>3. CASE d = c /\ ~(k \in DOMAIN pending[c] /\ p[k] = pending[c][k])
      <4>1. Writes(s, View(c)) /\ k = s.key /\ p[k] = s.value
        <5>1. pending'[d] = p /\ k \in DOMAIN p
          BY <3>3, <2>2, <1>5
        <5>2. Writes(s, View(c))
          <6>1. ~Writes(s, View(c)) => p = pending[c]
            OBVIOUS
          <6> HIDE DEF p
          <6>2. QED
            BY <3>3, <5>1, <6>1
        <5>3. Writes(s, pending[c])
          BY <5>2 DEF Writes, View
        <5>4. /\ p = After(s, pending[c])
              /\ DOMAIN p = DOMAIN pending[c] \union {s.key}
              /\ \A l \in DOMAIN p : p[l] = IF l = s.key THEN s.value ELSE pending[c][l]
          BY <5>2, <5>3 DEF After
        <5> HIDE DEF p
        <5>5. QED
          BY <3>3, <5>1, <5>2, <5>4
      <4>2. k \in DOMAIN View(c) /\ Newer(s.value, View(c)[k])
        BY <4>1, <2>2, <1>5 DEF Writes, View
      <4>3. CASE k \in DOMAIN pending[c]
        <5>1. Newer(s.value, pending[c][k]) /\ Newer(pending[c][k], store[k])
          BY <4>2, <4>3, <2>2, <1>5 DEF View, IInv, LockInv
        <5>2. s.value \in Values /\ pending[c][k] \in Values /\ store[k] \in Values
          BY <1>1, <1>2, <1>5, <4>3, <2>2 DEF Table
        <5>3. QED
          BY <5>1, <5>2, <4>1, <3>3, <1>5, NewerIsTransitive
      <4>4. CASE k \notin DOMAIN pending[c]
        <5>1. View(c)[k] = store[k] /\ store' = store /\ k \in DOMAIN store
          BY <4>2, <4>4, <2>2, <1>5 DEF View
        <5>2. pending'[d][k] = s.value
          BY <4>1, <3>3, <1>5
        <5>3. QED
          BY <4>2, <5>1, <5>2
      <4>5. QED
        BY <4>3, <4>4
    <3>4. QED
      BY <3>1, <3>2, <3>3
  <2>3. QED
    BY <2>1, <2>2 DEF LockInv
<1>11. ViewInv'
  <2>1. View(c)' = After(s, View(c))
    <3>1. CASE Writes(s, View(c))
      <4>1. /\ p = After(s, pending[c])
            /\ DOMAIN p = DOMAIN pending[c] \union {s.key}
            /\ \A k \in DOMAIN p : p[k] = IF k = s.key THEN s.value ELSE pending[c][k]
        BY <3>1 DEF After, Writes, View
      <4>2. View(c)' = [k \in DOMAIN p \union DOMAIN store |->
                          IF k \in DOMAIN p THEN p[k] ELSE store[k]]
        BY <1>5 DEF View
      <4>3. After(s, View(c)) = [k \in DOMAIN View(c) \union {s.key} |->
                                   IF k = s.key THEN s.value ELSE View(c)[k]]
        BY <3>1 DEF After
      <4>4. DOMAIN View(c) = DOMAIN pending[c] \union DOMAIN store
        BY DEF View
      <4>5. DOMAIN p \union DOMAIN store = DOMAIN View(c) \union {s.key}
        BY <4>1, <4>4
      <4>6. \A k \in DOMAIN p \union DOMAIN store :
              (IF k \in DOMAIN p THEN p[k] ELSE store[k])
                = (IF k = s.key THEN s.value ELSE View(c)[k])
        BY <4>1 DEF View
      <4> HIDE DEF p
      <4>7. QED
        BY <4>2, <4>3, <4>5, <4>6
    <3>2. CASE ~Writes(s, View(c))
      <4>1. View(c)' = View(c)
        BY <3>2, <1>5 DEF View
      <4>2. View(c) = [k \in DOMAIN View(c) |-> View(c)[k]]
        BY DEF View
      <4>3. QED
        BY <3>2, <4>1, <4>2, IdleAfter
    <3>3. QED
      BY <3>1, <3>2
  <2>2. View(c)' = Path(sent[c], store)[n]
    <3>1. Path(sent[c], store)[n] = After(sent[c][n], Path(sent[c], store)[n - 1])
      BY <1>1, <1>2, PathEquation
    <3>2. QED
      BY <3>1, <2>1, <1>2, <1>3 DEF ViewIs
  <2>3. \A i \in 1..n : Fits(sent[c][i], Path(sent[c], store)[i - 1])
    <3>1. Fits(sent[c][n], Path(sent[c], store)[n - 1])
      BY <1>2, <1>3, <1>5 DEF ViewIs
    <3>2. \A i \in 1..(n - 1) : Fits(sent[c][i], Path(sent[c], store)[i - 1])
      BY <1>3 DEF ViewIs
    <3>3. \A i \in 1..n : i = n \/ i \in 1..(n - 1)
      BY <1>2
    <3> HIDE DEF n
    <3>4. QED
      BY <3>1, <3>2, <3>3
  <2>4. p = << >> => \A i \in 1..n : ~Writes(sent[c][i], store)
    <3> SUFFICES ASSUME p = << >> PROVE \A i \in 1..n : ~Writes(sent[c][i], store)
      OBVIOUS
    <3>1. ~Writes(s, View(c)) /\ pending[c] = << >>
      BY <1>1, <1>2, AfterWrites
    <3>2. View(c) = store
      BY <3>1, <1>1, IdleView
    <3>3. ~Writes(sent[c][n], store)
      BY <3>1, <3>2, <1>2
    <3>4. \A i \in 1..(n - 1) : ~Writes(sent[c][i], store)
      BY <3>1, <1>3 DEF ViewIs
    <3>5. \A i \in 1..n : i = n \/ i \in 1..(n - 1)
      BY <1>2
    <3> HIDE DEF n, p
    <3>6. QED
      BY <3>3, <3>4, <3>5
  <2>5. ViewIs(c, run[c].step - 1, store)'
    <3>1. sent' = sent /\ store' = store
      BY <1>5
    <3>2. run'[c].step - 1 = n
      BY <1>1, <1>4, <1>6
    <3> HIDE DEF n, p
    <3>3. QED
      BY <3>1, <3>2, <2>2, <2>3, <2>4, <1>5 DEF ViewIs
  <2>6. ASSUME NEW d \in Calls, Ready(d)' PROVE ViewIs(d, run[d].step - 1, store)'
    <3>1. CASE d = c
      BY <3>1, <2>5
    <3>2. CASE d # c
      <4>1. Ready(d) /\ run'[d] = run[d]
        BY <3>2, <2>6, <1>5, <1>6 DEF Ready, CommitStep
      <4>2. ViewIs(d, run[d].step - 1, store)
        BY <4>1 DEF IInv, ViewInv
      <4>3. pending'[d] = pending[d] /\ sent'[d] = sent[d] /\ store' = store
        BY <3>2, <1>5, <1>6
      <4>4. QED
        BY <4>1, <4>2, <4>3 DEF ViewIs, View
    <3>3. QED
      BY <3>1, <3>2
  <2>7. QED
    BY <2>6 DEF ViewInv
<1>12. QED
  BY <1>8, <1>10, <1>11 DEF IInv

LEMMA CommitKeeps ==
  ASSUME IInv, NEW c \in Calls, Commit(c)
  PROVE  IInv'
<1> USE DEF Commit, AtCommit
<1>1. /\ Len(sent[c]) \in Nat /\ Len(sent[c]) > 1 /\ run[c] \in Runs /\ run \in [Calls -> Runs]
      /\ CommitStep(c) = Len(sent[c]) + 1 /\ Steps(c) = Len(sent[c]) + 3
      /\ Table(store) /\ Table(pending[c]) /\ Table(<< >>)
  BY Standing
<1>2. PICK r \in Runs : run' = [run EXCEPT ![c] = r] /\ r.step = run[c].step + 1
  BY <1>1, SucceedIs
<1>3. run'[c] = r /\ \A d \in Calls \ {c} : run'[d] = run[d]
  BY <1>1, <1>2
<1>4. /\ pending' = [pending EXCEPT ![c] = << >>] /\ c \notin open'
      /\ open' \subseteq open \union {c} /\ open \ {c} \subseteq open'
  BY DEF EndTransaction
<1>5. /\ Table(store') /\ DOMAIN store \subseteq DOMAIN store'
      /\ \A k \in DOMAIN store : store'[k] = store[k] \/ Newer(store'[k], store[k])
  <2>1. /\ DOMAIN store' = DOMAIN pending[c] \union DOMAIN store
        /\ store' = [k \in DOMAIN store' |-> store'[k]]
        /\ \A k \in DOMAIN store' : store'[k] = IF k \in DOMAIN pending[c] THEN pending[c][k]
                                                ELSE store[k]
    BY DEF View
  <2>2. \A k \in DOMAIN pending[c] \intersect DOMAIN store : Newer(pending[c][k], store[k])
    BY DEF IInv, LockInv
  <2>3. QED
    BY <1>1, <2>1, <2>2 DEF Table
<1>6. store' = store \/ \A d \in Calls \ {c} : pending[d] = << >>
  <2>1. CASE pending[c] = << >>
    BY <2>1, <1>1, IdleView
  <2>2. CASE pending[c] # << >>
    BY <2>2 DEF IInv, LockInv
  <2>3. QED
    BY <2>1, <2>2
<1>7. ShapeInv' /\ CallInv' /\ RunInv' /\ NoOpenTransactionLeft'
  <2>1. ~(r.step <= CommitStep(c))
    BY <1>1, <1>2
  <2>2. Table(store)'
    BY <1>5 DEF Table
  <2>3. QED
    BY <1>1, <1>2, <1>4, <2>1, <2>2, ServerFrame
<1>8. LockInv' /\ ViewInv'
  BY <1>3, <1>4, <1>5, <1>6, CommitFrame
<1>9. QED
  BY <1>7, <1>8 DEF IInv

\* A batch of one statement runs alone.
LEMMA Alone ==
  ASSUME IInv, NEW c \in Calls, Running(c), ~Transactional(c)
  PROVE  /\ Len(sent[c]) = 1 /\ Steps(c) = 1 /\ run[c] = NotRun /\ run \in [Calls -> Runs]
         /\ c \notin open /\ pending[c] = << >> /\ pending = [pending EXCEPT ![c] = << >>]
         /\ sent[c][1].value \in Values
         /\ Table(store) /\ Table(<< >>)
<1>1. Len(sent[c]) = 1 /\ sent[c][1].value \in Values
  <2>1. /\ Len(sent[c]) \in Nat /\ Len(sent[c]) >= 1 /\ ~(Len(sent[c]) > 1)
        /\ \A i \in 1..Len(sent[c]) : sent[c][i].value \in Values
    BY BatchShape DEF IInv, Running, Transactional
  <2>2. Len(sent[c]) = 1
    <3> DEFINE n == Len(sent[c])
    <3>1. n \in Nat /\ n >= 1 /\ ~(n > 1)
      BY <2>1
    <3> HIDE DEF n
    <3>2. n = 1
      BY <3>1
    <3>3. QED
      BY <3>2 DEF n
  <2>3. 1 \in 1..Len(sent[c])
    BY <2>2
  <2>4. QED
    BY <2>1, <2>2, <2>3
<1>2. Steps(c) = 1
  BY DEF Steps
<1>3. run[c].step = 0
  <2>1. run[c].step \in Nat /\ run[c].step <= Steps(c)
    BY DEF IInv, ShapeInv, TypeOK, Runs
  <2>2. run[c].step # Steps(c)
    BY DEF Running, Complete
  <2>3. QED
    BY <1>2, <2>1, <2>2
<1>4. run[c] = NotRun /\ c \notin open
  BY <1>3 DEF IInv, RunInv
<1>5. pending[c] = << >>
  BY <1>4 DEF IInv, NoOpenTransactionLeft
<1>6. pending = [pending EXCEPT ![c] = << >>]
  BY <1>5 DEF IInv, ShapeInv
<1>7. Table(<< >>)
  BY DEF Table
<1>8. QED
  BY <1>1, <1>2, <1>4, <1>5, <1>6, <1>7 DEF IInv, ShapeInv

LEMMA SingleKeeps ==
  ASSUME IInv, NEW c \in Calls, SingleStatement(c)
  PROVE  IInv'
<1> USE DEF SingleStatement
<1>1. /\ Len(sent[c]) = 1 /\ Steps(c) = 1 /\ run[c] = NotRun /\ run \in [Calls -> Runs]
      /\ c \notin open /\ pending[c] = << >> /\ pending = [pending EXCEPT ![c] = << >>]
      /\ sent[c][1].value \in Values
      /\ Table(store) /\ Table(<< >>)
  BY Alone
<1>2. PICK r \in Runs : run' = [run EXCEPT ![c] = r] /\ r.step = run[c].step + 1
  <2>1. Succeed(c, TRUE) \/ Fail(c, "error") \/ Fail(c, "constraint")
    BY DEF Failures
  <2>2. QED
    BY <2>1, <1>1, SucceedIs, FailIs
<1>3. run'[c] = r /\ \A d \in Calls \ {c} : run'[d] = run[d]
  BY <1>1, <1>2
<1>4. /\ Table(store') /\ DOMAIN store \subseteq DOMAIN store'
      /\ \A k \in DOMAIN store : store'[k] = store[k] \/ Newer(store'[k], store[k])
      /\ store' = store \/ \A d \in Calls \ {c} : pending[d] = << >>
  <2>1. CASE store' = store
    BY <2>1, <1>1
  <2>2. CASE ~Locked(c) /\ store' = After(sent[c][1], store)
    <3>1. \A d \in Calls \ {c} : pending[d] = << >>
      BY <2>2 DEF Locked, IInv, NoOpenTransactionLeft
    <3>2. QED
      BY <2>2, <3>1, <1>1, AfterWrites
  <2>3. QED
    BY <2>1, <2>2
<1>5. pending' = [pending EXCEPT ![c] = << >>] /\ c \notin open' /\ open' = open
  BY <1>1
<1>6. ShapeInv' /\ CallInv' /\ RunInv' /\ NoOpenTransactionLeft'
  <2>1. Table(store)'
    BY <1>4 DEF Table
  <2>2. QED
    BY <1>1, <1>2, <1>5, <2>1, ServerFrame
<1>7. LockInv' /\ ViewInv'
  BY <1>3, <1>4, <1>5, CommitFrame
<1>8. QED
  BY <1>6, <1>7 DEF IInv

LEMMA DropKeeps ==
  ASSUME IInv, NEW c \in Calls, DropConnection(c)
  PROVE  IInv'
<1> USE DEF DropConnection, EndTransaction, IInv
<1>1. /\ pending' = [d \in Calls |-> pending'[d]] /\ pending'[c] = << >>
      /\ \A d \in Calls \ {c} : pending'[d] = pending[d]
  BY DEF ShapeInv
<1>2. \A d \in Calls : /\ Steps(d)' = Steps(d) /\ CommitStep(d)' = CommitStep(d)
                       /\ Transactional(d)' = Transactional(d) /\ Complete(d)' = Complete(d)
                       /\ (d # c => Running(d)' = Running(d))
  BY DEF Steps, CommitStep, Transactional, Complete, Running
<1>3. ShapeInv'
  <2>1. TypeOK'
    <3>1. \A d \in Calls : sent'[d] \in Batches \union {<<>>} /\ run'[d] \in Runs
                           /\ run'[d].step <= Steps(d)'
      BY <1>2 DEF ShapeInv, TypeOK
    <3>2. open' \subseteq Calls /\ closed' \subseteq Calls
      BY DEF ShapeInv, TypeOK
    <3>3. QED
      BY <3>1, <3>2 DEF ShapeInv, TypeOK
  <2>2. \A d \in Calls : Table(pending[d])'
    <3>1. Table(<< >>)
      BY DEF Table
    <3>2. \A d \in Calls : Table(pending'[d])
      BY <1>1, <3>1 DEF ShapeInv
    <3>3. QED
      BY <3>2 DEF Table
  <2>3. Table(store)'
    BY DEF ShapeInv, Table
  <2>4. QED
    BY <2>1, <2>2, <2>3, <1>1 DEF ShapeInv
<1>4. CallInv'
  BY <1>2 DEF CallInv
<1>5. RunInv'
  BY <1>2 DEF RunInv
<1>6. NoOpenTransactionLeft'
  BY <1>1, <1>2 DEF NoOpenTransactionLeft
<1>7. LockInv' /\ ViewInv'
  <2>1. ~Ready(c)' /\ open' \subseteq open \union {c}
    BY DEF Ready
  <2>2. \A d \in Calls \ {c} : run'[d] = run[d]
    OBVIOUS
  <2>3. QED
    BY <2>1, <2>2, QuietFrame
<1>8. QED
  BY <1>3, <1>4, <1>5, <1>6, <1>7

\* A step after which every connection is as it was.
LEMMA ConnectionsFrame ==
  ASSUME IInv, UNCHANGED <<store, run, open, pending>>,
         \A d \in open : sent'[d] = sent[d]
  PROVE  LockInv' /\ ViewInv'
<1> USE DEF IInv
<1>1. LockInv'
  BY DEF LockInv
<1>2. ASSUME NEW d \in Calls, Ready(d)' PROVE ViewIs(d, run[d].step - 1, store)'
  <2>1. sent'[d] = sent[d]
    BY <1>2 DEF Ready
  <2>2. Ready(d)
    BY <2>1, <1>2 DEF Ready, CommitStep
  <2>3. ViewIs(d, run[d].step - 1, store)
    BY <2>2 DEF ViewInv
  <2>4. QED
    BY <2>1, <2>3 DEF ViewIs, View
<1>3. QED
  BY <1>1, <1>2 DEF ViewInv

LEMMA ExecuteKeeps ==
  ASSUME IInv, NEW c \in Calls, NEW batch \in Batches, Execute(c, batch)
  PROVE  IInv'
<1> USE DEF Execute, IInv
<1>1. sent[c] = <<>> /\ run[c] = NotRun /\ c \notin open
  BY DEF CallInv, RunInv, NotRun
<1>2. /\ sent' \in [Calls -> Batches \union {<<>>}]
      /\ \A d \in Calls \ {c} : sent'[d] = sent[d] /\ answer'[d] = answer[d]
      /\ sent'[c] = batch /\ answer'[c] = "waiting"
  BY DEF ShapeInv, TypeOK
<1>3. \A d \in Calls \ {c} :
        /\ Steps(d)' = Steps(d) /\ CommitStep(d)' = CommitStep(d)
        /\ Transactional(d)' = Transactional(d)
        /\ Complete(d)' = Complete(d) /\ Running(d)' = Running(d)
  BY <1>2 DEF Steps, CommitStep, Transactional, Complete, Running
<1>4. Len(sent'[c]) \in Nat
  BY <1>2, BatchesAssumption
<1>5. ShapeInv'
  <2>1. 0 <= Steps(c)'
    BY <1>4 DEF Steps, Transactional
  <2>2. \A d \in Calls : run'[d].step <= Steps(d)'
    BY <1>1, <1>3, <2>1 DEF ShapeInv, TypeOK, NotRun
  <2>3. answer' \in [Calls -> {"none", "waiting", "ok", "conflict", "error"}]
    BY DEF ShapeInv, TypeOK
  <2>4. TypeOK'
    BY <1>2, <2>2, <2>3 DEF ShapeInv, TypeOK
  <2>5. Table(store)' /\ \A d \in Calls : Table(pending[d])'
    BY DEF ShapeInv, Table
  <2>6. QED
    BY <1>2, <2>4, <2>5 DEF ShapeInv
<1>6. CallInv'
  BY <1>1, <1>2, <1>3 DEF CallInv
<1>7. RunInv'
  BY <1>1, <1>3 DEF RunInv, NotRun
<1>8. NoOpenTransactionLeft'
  BY <1>1, <1>3 DEF NoOpenTransactionLeft
<1>9. LockInv' /\ ViewInv'
  <2>1. \A d \in open : sent'[d] = sent[d]
    BY <1>1, <1>2 DEF ShapeInv, TypeOK
  <2>2. QED
    BY <2>1, ConnectionsFrame
<1>10. QED
  BY <1>5, <1>6, <1>7, <1>8, <1>9

LEMMA AnswerKeeps ==
  ASSUME IInv, NEW c \in Calls, Reply(c) \/ LoseAnswer(c)
  PROVE  IInv'
<1> USE DEF IInv
<1>1. PICK told \in {"ok", "conflict", "error"} :
        /\ answer[c] = "waiting" /\ answer' = [answer EXCEPT ![c] = told]
        /\ told # "error" => Complete(c)
        /\ UNCHANGED <<store, sent, backend, run, open, pending, closed>>
  BY DEF Reply, LoseAnswer, Told
<1>2. \A d \in Calls : /\ Steps(d)' = Steps(d) /\ CommitStep(d)' = CommitStep(d)
                       /\ Transactional(d)' = Transactional(d) /\ Complete(d)' = Complete(d)
                       /\ Running(d)' = Running(d)
  BY <1>1 DEF Steps, CommitStep, Transactional, Complete, Running
<1>3. ShapeInv'
  <2>1. TypeOK'
    BY <1>1, <1>2 DEF ShapeInv, TypeOK
  <2>2. Table(store)' /\ \A d \in Calls : Table(pending[d])'
    BY <1>1 DEF ShapeInv, Table
  <2>3. QED
    BY <1>1, <2>1, <2>2 DEF ShapeInv
<1>4. CallInv'
  BY <1>1, <1>2 DEF CallInv, ShapeInv, TypeOK
<1>5. RunInv' /\ NoOpenTransactionLeft'
  BY <1>1, <1>2 DEF RunInv, NoOpenTransactionLeft
<1>6. LockInv' /\ ViewInv'
  BY <1>1, ConnectionsFrame
<1>7. QED
  BY <1>3, <1>4, <1>5, <1>6

\* Away from libSQL there are no connections.
LEMMA NoConnections ==
  ASSUME IInv, backend # "libsql"
  PROVE  open = {} /\ \A c \in Calls : pending[c] = << >>
  BY DEF IInv, NoOpenTransactionLeft, Running, ShapeInv, TypeOK

LEMMA LocalFrame ==
  ASSUME IInv, backend # "libsql", UNCHANGED <<open, pending>>
  PROVE  LockInv' /\ ViewInv'
<1>1. open' = {} /\ \A c \in Calls : pending'[c] = << >>
  BY NoConnections
<1>2. DOMAIN << >> = {}
  OBVIOUS
<1>3. QED
  BY <1>1, <1>2 DEF LockInv, ViewInv, Ready

\* What a batch makes of a table is a table.
LEMMA PathTable ==
  ASSUME ShapeInv, NEW c \in Calls
  PROVE  \A i \in 0..Len(sent[c]) : Table(Path(sent[c], store)[i])
<1> DEFINE P == Path(sent[c], store)
           T == {i \in Nat : i <= Len(sent[c]) => Table(P[i])}
<1>1. Len(sent[c]) \in Nat /\ Table(store)
  BY BatchShape DEF ShapeInv
<1>2. 0 \in T
  BY <1>1, PathEquation
<1>3. \A i \in Nat : i \in T => i + 1 \in T
  <2> SUFFICES ASSUME NEW i \in Nat, i \in T, i + 1 <= Len(sent[c]) PROVE Table(P[i + 1])
    OBVIOUS
  <2>1. Table(P[i])
    BY <1>1
  <2>2. i + 1 \in 0..Len(sent[c]) /\ i + 1 # 0 /\ (i + 1) - 1 = i
    BY <1>1
  <2>3. P[i + 1] = After(sent[c][i + 1], P[i])
    BY <1>1, <2>2, PathEquation
  <2>4. sent[c][i + 1].value \in Values
    BY <2>2, BatchShape
  <2> HIDE DEF P
  <2>5. QED
    BY <2>1, <2>3, <2>4, AfterWrites
<1> HIDE DEF P
<1>4. Nat \subseteq T
  BY <1>2, <1>3, SetInduction
<1>5. QED
  BY <1>1, <1>4 DEF P

LEMMA LocalKeeps ==
  ASSUME IInv, NEW c \in Calls, RunLocally(c)
  PROVE  IInv'
<1>1. /\ backend # "libsql" /\ sent[c] # <<>>
      /\ UNCHANGED <<sent, answer, backend, open, pending, closed>>
      /\ store' = store \/ store' = Result(sent[c], store)
  BY DEF RunLocally
<1>2. Len(sent[c]) \in Nat /\ Len(sent[c]) >= 1 /\ Steps(c) \in Nat /\ Steps(c) >= 1
  <2>1. Len(sent[c]) \in Nat /\ Len(sent[c]) >= 1
    BY <1>1, BatchShape DEF IInv
  <2>2. QED
    BY <2>1 DEF Steps
<1>3. PICK r \in Runs : /\ run' = [run EXCEPT ![c] = r] /\ r.step = Steps(c)
                        /\ (Transactional(c) => ~(r.step <= CommitStep(c)))
  <2>1. PICK r : /\ run' = [run EXCEPT ![c] = r]
                 /\ \/ r = [NotRun EXCEPT !.step = Steps(c), !.committed = TRUE]
                    \/ \E failure \in {"error", "constraint"} :
                         r = [NotRun EXCEPT !.step = Steps(c), !.failure = failure]
    BY DEF RunLocally, Failures
  <2>2. r \in Runs /\ r.step = Steps(c)
    BY <2>1, <1>2 DEF NotRun, Runs
  <2>3. Transactional(c) => ~(Steps(c) <= CommitStep(c))
    BY <1>2 DEF Steps, CommitStep
  <2>4. QED
    BY <2>1, <2>2, <2>3
<1>4. run' \in [Calls -> Runs] /\ run'[c] = r /\ \A d \in Calls \ {c} : run'[d] = run[d]
  BY <1>3 DEF IInv, ShapeInv
<1>5. \A d \in Calls : /\ Steps(d)' = Steps(d) /\ CommitStep(d)' = CommitStep(d)
                       /\ Transactional(d)' = Transactional(d)
                       /\ (d # c => Complete(d)' = Complete(d))
  BY <1>1, <1>4 DEF Steps, CommitStep, Transactional, Complete
<1>6. Complete(c)'
  BY <1>1, <1>3, <1>4, <1>5 DEF Complete
<1>7. open = {} /\ open' = {} /\ \A d \in Calls : pending'[d] = << >>
  BY <1>1, NoConnections
<1>8. ShapeInv'
  <2>1. TypeOK'
    <3>1. \A d \in Calls : run'[d] \in Runs /\ run'[d].step <= Steps(d)'
      BY <1>2, <1>3, <1>4, <1>5 DEF IInv, ShapeInv, TypeOK
    <3>2. QED
      BY <3>1, <1>1 DEF IInv, ShapeInv, TypeOK
  <2>2. Table(store)'
    <3>1. CASE store' = store
      BY <3>1 DEF IInv, ShapeInv, Table
    <3>2. CASE store' = Result(sent[c], store)
      <4>1. Table(Path(sent[c], store)[Len(sent[c])])
        BY <1>2, PathTable DEF IInv
      <4>2. Table(store')
        BY <3>2, <4>1 DEF Result
      <4>3. QED
        BY <4>2 DEF Table
    <3>3. QED
      BY <3>1, <3>2, <1>1
  <2>3. \A d \in Calls : Table(pending[d])'
    BY <1>1 DEF IInv, ShapeInv, Table
  <2>4. QED
    BY <1>1, <1>4, <2>1, <2>2, <2>3 DEF IInv, ShapeInv
<1>9. CallInv'
  BY <1>1, <1>4, <1>5, <1>6 DEF IInv, CallInv
<1>10. RunInv'
  <2>1. r.step # 0
    BY <1>2, <1>3
  <2>2. QED
    BY <2>1, <1>1, <1>3, <1>4, <1>5, <1>6, <1>7 DEF IInv, RunInv
<1>11. NoOpenTransactionLeft'
  BY <1>7 DEF NoOpenTransactionLeft
<1>12. LockInv' /\ ViewInv'
  BY <1>1, LocalFrame
<1>13. QED
  BY <1>8, <1>9, <1>10, <1>11, <1>12 DEF IInv

LEMMA ColdStartKeeps ==
  ASSUME IInv, ColdStart
  PROVE  IInv'
<1> USE DEF ColdStart
<1>1. \A d \in Calls : /\ Steps(d)' = Steps(d) /\ CommitStep(d)' = CommitStep(d)
                       /\ Transactional(d)' = Transactional(d) /\ Complete(d)' = Complete(d)
                       /\ Running(d)' = Running(d)
  BY DEF Steps, CommitStep, Transactional, Complete, Running
<1>2. ShapeInv'
  <2>1. TypeOK'
    BY <1>1 DEF IInv, ShapeInv, TypeOK
  <2>2. Table(store)' /\ \A d \in Calls : Table(pending[d])'
    BY DEF IInv, ShapeInv, Table
  <2>3. QED
    BY <2>1, <2>2 DEF IInv, ShapeInv
<1>3. CallInv' /\ RunInv' /\ NoOpenTransactionLeft'
  BY <1>1 DEF IInv, CallInv, RunInv, NoOpenTransactionLeft
<1>4. LockInv' /\ ViewInv'
  BY LocalFrame
<1>5. QED
  BY <1>2, <1>3, <1>4 DEF IInv

(***************************************************************************)
(* The invariant holds.                                                    *)
(***************************************************************************)
LEMMA InvInit == Init => IInv
<1> SUFFICES ASSUME Init PROVE IInv
  OBVIOUS
<1> USE DEF Init
<1>1. \A c \in Calls : Steps(c) \in Nat
  BY DEF Steps, Transactional
<1>2. \A c \in Calls : run[c] = NotRun /\ NotRun \in Runs /\ run[c].step = 0
  BY DEF NotRun, Runs
<1>3. ShapeInv
  <2>1. backend \in {"libsql", "sqlite", "ephemeral", "none"}
    BY DEF Resolve
  <2>2. \A c \in Calls : run[c].step <= Steps(c)
    BY <1>1, <1>2
  <2>3. TypeOK
    BY <1>2, <2>1, <2>2 DEF TypeOK
  <2>4. Table(<< >>)
    BY DEF Table
  <2>5. QED
    BY <1>2, <2>3, <2>4 DEF ShapeInv
<1>4. CallInv /\ RunInv /\ NoOpenTransactionLeft
  BY <1>2 DEF CallInv, RunInv, NoOpenTransactionLeft, NotRun
<1>5. LockInv /\ ViewInv
  BY DEF LockInv, ViewInv, Ready
<1>6. QED
  BY <1>3, <1>4, <1>5 DEF IInv

LEMMA InvNext == IInv /\ [Next]_vars => IInv'
<1> SUFFICES ASSUME IInv, [Next]_vars PROVE IInv'
  OBVIOUS
<1>1. ASSUME NEW c \in Calls, NEW batch \in Batches, Execute(c, batch) PROVE IInv'
  BY <1>1, ExecuteKeeps
<1>2. ASSUME NEW c \in Calls, ServerStep(c) PROVE IInv'
  BY <1>2, BeginKeeps, SkippedKeeps, SucceedsKeeps, FailsKeeps, CommitKeeps, CommitFailsKeeps,
     RollbackKeeps, SingleKeeps DEF ServerStep
<1>3. ASSUME NEW c \in Calls, DropConnection(c) \/ RunLocally(c) \/ Reply(c) \/ LoseAnswer(c)
      PROVE  IInv'
  BY <1>3, DropKeeps, LocalKeeps, AnswerKeeps
<1>4. CASE ColdStart
  BY <1>4, ColdStartKeeps
<1>5. CASE UNCHANGED vars
  <2>1. UNCHANGED <<store, sent, answer, backend, run, open, pending, closed>>
    BY <1>5 DEF vars
  <2>2. \A d \in Calls : /\ Steps(d)' = Steps(d) /\ CommitStep(d)' = CommitStep(d)
                         /\ Transactional(d)' = Transactional(d)
                         /\ Complete(d)' = Complete(d) /\ Running(d)' = Running(d)
    BY <2>1 DEF Steps, CommitStep, Transactional, Complete, Running
  <2>3. ShapeInv'
    BY <2>1, <2>2 DEF IInv, ShapeInv, TypeOK, Table
  <2>4. CallInv' /\ RunInv' /\ NoOpenTransactionLeft'
    BY <2>1, <2>2 DEF IInv, CallInv, RunInv, NoOpenTransactionLeft
  <2>5. LockInv' /\ ViewInv'
    BY <2>1, ConnectionsFrame
  <2>6. QED
    BY <2>3, <2>4, <2>5 DEF IInv
<1>6. QED
  BY <1>1, <1>2, <1>3, <1>4, <1>5 DEF Next

LEMMA InvariantHolds == Spec => []IInv
  BY InvInit, InvNext, PTL DEF Spec

(***************************************************************************)
(* The safety properties.                                                  *)
(***************************************************************************)
\* No transaction outlives its batch, whichever step failed and whoever closed the
\* connection: it returns with nothing uncommitted and no lock.
THEOREM ConnectionsClean == Spec => []ConnectionsAreClean
<1>1. IInv => ConnectionsAreClean
  BY DEF IInv, ShapeInv, ConnectionsAreClean
<1>2. QED
  BY <1>1, InvariantHolds, PTL

(***************************************************************************)
(* The adapter implements AtomicStore: a batch is applied when its COMMIT  *)
(* succeeds, and refused when a constraint stops it.                       *)
(***************************************************************************)
LEMMA SameStatements ==
  ASSUME NEW b, NEW t
  PROVE  /\ Promise!Accepts(b, t) <=> Accepts(b, t)
         /\ Promise!Result(b, t) = Result(b, t)
<1>1. \A s, u : /\ Promise!After(s, u) = After(s, u)
                /\ Promise!Fits(s, u) <=> Fits(s, u)
  BY DEF Promise!After, After, Promise!Writes, Writes, Promise!Fits, Fits
<1>2. Promise!Path(b, t) = Path(b, t)
  BY DEF Promise!Path, Path, Promise!After, After, Promise!Writes, Writes
<1>3. QED
  BY <1>1, <1>2 DEF Promise!Accepts, Accepts, Promise!Result, Result

\* A batch the adapter has not seen the end of is not answered for good.
LEMMA StillUndecided ==
  ASSUME IInv, NEW c \in Calls, sent[c] # <<>>, ~Complete(c)
  PROVE  answer[c] \in {"waiting", "error"}
  BY DEF IInv, CallInv, ShapeInv, TypeOK

\* A step of the server that neither commits nor meets a constraint.
LEMMA MapQuiet ==
  ASSUME run \in [Calls -> Runs], NEW c \in Calls, NEW r \in Runs, run' = [run EXCEPT ![c] = r],
         r.committed = run[c].committed,
         r.failure = "constraint" <=> run[c].failure = "constraint",
         UNCHANGED <<store, sent, answer, backend>>
  PROVE  UNCHANGED Promise!vars
<1>1. \A d \in Calls : /\ run'[d].committed = run[d].committed
                       /\ run'[d].failure = "constraint" <=> run[d].failure = "constraint"
  OBVIOUS
<1>2. /\ {d \in Calls : run'[d].committed} = {d \in Calls : run[d].committed}
      /\ {d \in Calls : run'[d].failure = "constraint"}
           = {d \in Calls : run[d].failure = "constraint"}
  BY <1>1
<1>3. (backend # "ephemeral")' = (backend # "ephemeral")
  OBVIOUS
<1>4. QED
  BY <1>2, <1>3 DEF Promise!vars

\* A step that commits a batch.
LEMMA MapApply ==
  ASSUME run \in [Calls -> Runs], NEW c \in Calls, NEW r \in Runs, run' = [run EXCEPT ![c] = r],
         answer[c] \in {"waiting", "error"}, r.committed, ~run[c].committed,
         r.failure # "constraint", run[c].failure # "constraint",
         Accepts(sent[c], store), store' = Result(sent[c], store),
         UNCHANGED <<sent, answer, backend>>
  PROVE  Promise!Apply(c)
<1>1. \A d \in Calls : /\ run'[d].committed <=> run[d].committed \/ d = c
                       /\ run'[d].failure = "constraint" <=> run[d].failure = "constraint"
  OBVIOUS
<1>2. /\ {d \in Calls : run'[d].committed} = {d \in Calls : run[d].committed} \union {c}
      /\ {d \in Calls : run'[d].failure = "constraint"}
           = {d \in Calls : run[d].failure = "constraint"}
  BY <1>1
<1>3. Promise!Undecided(c)
  BY DEF Promise!Undecided
<1>4. (backend # "ephemeral")' = (backend # "ephemeral")
  OBVIOUS
<1>5. QED
  BY <1>2, <1>3, <1>4, SameStatements DEF Promise!Apply

\* A step that meets a constraint.
LEMMA MapRefuse ==
  ASSUME run \in [Calls -> Runs], NEW c \in Calls, NEW r \in Runs, run' = [run EXCEPT ![c] = r],
         answer[c] \in {"waiting", "error"}, ~r.committed, ~run[c].committed,
         r.failure = "constraint", run[c].failure # "constraint",
         ~Accepts(sent[c], store),
         UNCHANGED <<store, sent, answer, backend>>
  PROVE  Promise!Refuse(c)
<1>1. \A d \in Calls : /\ run'[d].committed <=> run[d].committed
                       /\ run'[d].failure = "constraint"
                            <=> run[d].failure = "constraint" \/ d = c
  OBVIOUS
<1>2. /\ {d \in Calls : run'[d].committed} = {d \in Calls : run[d].committed}
      /\ {d \in Calls : run'[d].failure = "constraint"}
           = {d \in Calls : run[d].failure = "constraint"} \union {c}
  BY <1>1
<1>3. Promise!Undecided(c)
  BY DEF Promise!Undecided
<1>4. (backend # "ephemeral")' = (backend # "ephemeral")
  OBVIOUS
<1>5. QED
  BY <1>2, <1>3, <1>4, SameStatements DEF Promise!Refuse

LEMMA MapExecute ==
  ASSUME IInv, NEW c \in Calls, NEW batch \in Batches, Execute(c, batch)
  PROVE  Promise!Send(c, batch)
  BY DEF Execute, Promise!Send

LEMMA MapAnswer ==
  ASSUME IInv, NEW c \in Calls, Reply(c) \/ LoseAnswer(c)
  PROVE  Promise!Tell(c)
<1>1. PICK told \in {"ok", "conflict", "error"} :
        /\ answer[c] = "waiting" /\ answer' = [answer EXCEPT ![c] = told]
        /\ told = "ok" => run[c].committed
        /\ told = "conflict" => run[c].failure = "constraint"
        /\ UNCHANGED <<store, sent, backend, run, open, pending, closed>>
  BY DEF Reply, LoseAnswer, Told
<1>2. QED
  BY <1>1 DEF Promise!Tell

\* Skipping a step, succeeding without committing and failing on the server's account.
LEMMA MapStep ==
  ASSUME run \in [Calls -> Runs], NEW c \in Calls,
         Skip(c) \/ Succeed(c, FALSE) \/ Fail(c, "error"),
         UNCHANGED <<store, sent, answer, backend>>
  PROVE  UNCHANGED Promise!vars
<1>1. run[c].committed \in BOOLEAN
  BY DEF Runs
<1>2. CASE Skip(c)
  BY <1>2, SkipIs, MapQuiet
<1>3. CASE Succeed(c, FALSE)
  <2>1. PICK r \in Runs : /\ run' = [run EXCEPT ![c] = r]
                          /\ r.step = run[c].step + 1 /\ r.last = "ok"
                          /\ r.failure = run[c].failure
                          /\ r.committed = (run[c].committed \/ FALSE)
    BY <1>3, SucceedIs
  <2>2. r.committed = run[c].committed
    BY <1>1, <2>1
  <2>3. QED
    BY <2>1, <2>2, MapQuiet
<1>4. CASE Fail(c, "error")
  <2>1. PICK r \in Runs : /\ run' = [run EXCEPT ![c] = r]
                          /\ r.committed = run[c].committed
                          /\ r.failure = IF run[c].failure = "none" THEN "error"
                                         ELSE run[c].failure
    BY <1>4, FailIs
  <2>2. r.failure = "constraint" <=> run[c].failure = "constraint"
    BY <2>1
  <2>3. QED
    BY <2>1, <2>2, MapQuiet
<1>5. QED
  BY <1>2, <1>3, <1>4

\* A statement that a constraint stops is one the whole batch cannot pass.
LEMMA MapFails ==
  ASSUME IInv, NEW c \in Calls, StatementFails(c)
  PROVE  Promise!Refuse(c) \/ UNCHANGED Promise!vars
<1> DEFINE n == run[c].step
<1> USE DEF StatementFails, InBody
<1>1. /\ Len(sent[c]) \in Nat /\ Len(sent[c]) > 1 /\ run \in [Calls -> Runs] /\ n \in Nat
      /\ CommitStep(c) = Len(sent[c]) + 1
  BY Standing
<1>2. n \in 1..Len(sent[c]) /\ Enabled(c) /\ Ready(c)
  BY <1>1 DEF Enabled, Ready
<1>3. ViewIs(c, n - 1, store) /\ ~run[c].committed /\ run[c].failure = "none"
  BY <1>2 DEF IInv, ViewInv, RunInv, Ready
<1>4. PICK failure \in Failures(<<Statement(c)>>, View(c)) : Fail(c, failure)
  OBVIOUS
<1>5. CASE failure = "error"
  BY <1>1, <1>4, <1>5, MapStep
<1>6. CASE failure # "error"
  <2>1. failure = "constraint" /\ ~Accepts(<<Statement(c)>>, View(c))
    BY <1>4, <1>6 DEF Failures
  <2>2. ~Fits(Statement(c), View(c))
    <3> DEFINE b == <<Statement(c)>>
    <3>1. Len(b) = 1 /\ b[1] = Statement(c)
      OBVIOUS
    <3> HIDE DEF b
    <3>2. Path(b, View(c))[0] = View(c)
      BY <3>1, PathEquation
    <3>3. \A i \in 1..Len(b) : i = 1 /\ i - 1 = 0
      BY <3>1
    <3>4. ~Accepts(b, View(c))
      BY <2>1 DEF b
    <3>5. QED
      BY <3>1, <3>2, <3>3, <3>4 DEF Accepts
  <2>3. ~Accepts(sent[c], store)
    <3>1. View(c) = Path(sent[c], store)[n - 1]
      BY <1>3 DEF ViewIs
    <3>2. ~Fits(sent[c][n], Path(sent[c], store)[n - 1])
      BY <2>2, <3>1 DEF Statement
    <3>3. QED
      BY <3>2, <1>2 DEF Accepts
  <2>4. PICK r \in Runs : /\ run' = [run EXCEPT ![c] = r]
                          /\ r.committed = run[c].committed /\ r.failure = "constraint"
    <3>1. Fail(c, "constraint")
      BY <1>4, <2>1
    <3>2. QED
      BY <1>1, <1>3, <3>1, FailIs
  <2>5. answer[c] \in {"waiting", "error"}
    BY StillUndecided DEF Running
  <2>6. Promise!Refuse(c)
    BY <1>1, <1>3, <2>3, <2>4, <2>5, MapRefuse
  <2>7. QED
    BY <2>6
<1>7. QED
  BY <1>5, <1>6

\* COMMIT makes of the committed rows what the whole batch makes of them now.
LEMMA MapCommit ==
  ASSUME IInv, NEW c \in Calls, Commit(c)
  PROVE  Promise!Apply(c)
<1> USE DEF Commit, AtCommit
<1>1. /\ Len(sent[c]) \in Nat /\ run \in [Calls -> Runs] /\ CommitStep(c) = Len(sent[c]) + 1
      /\ run[c].step = Len(sent[c]) + 1
  BY Standing
<1>2. Enabled(c) /\ Ready(c)
  BY <1>1 DEF Enabled, Ready
<1>3. ViewIs(c, Len(sent[c]), store) /\ ~run[c].committed /\ run[c].failure = "none"
  <2>1. ViewIs(c, run[c].step - 1, store)
    BY <1>2 DEF IInv, ViewInv
  <2>2. run[c].step - 1 = Len(sent[c])
    BY <1>1
  <2>3. ~run[c].committed /\ run[c].failure = "none"
    BY <1>2 DEF IInv, RunInv, Ready
  <2>4. QED
    BY <2>1, <2>2, <2>3
<1>4. Accepts(sent[c], store) /\ store' = Result(sent[c], store)
  BY <1>3 DEF ViewIs, Accepts, Result
<1>5. PICK r \in Runs : /\ run' = [run EXCEPT ![c] = r]
                        /\ r.failure = run[c].failure
                        /\ r.committed = (run[c].committed \/ TRUE)
  BY <1>1, SucceedIs
<1>6. answer[c] \in {"waiting", "error"}
  BY StillUndecided DEF Running
<1>7. QED
  BY <1>1, <1>3, <1>4, <1>5, <1>6, MapApply

LEMMA MapSingle ==
  ASSUME IInv, NEW c \in Calls, SingleStatement(c)
  PROVE  Promise!Apply(c) \/ Promise!Refuse(c) \/ UNCHANGED Promise!vars
<1> USE DEF SingleStatement
<1>1. Len(sent[c]) = 1 /\ run[c] = NotRun /\ run \in [Calls -> Runs]
  BY Alone
<1>2. run[c].failure = "none" /\ ~run[c].committed /\ answer[c] \in {"waiting", "error"}
  BY <1>1, StillUndecided DEF NotRun, Running
<1>3. CASE /\ Fits(sent[c][1], store) /\ store' = After(sent[c][1], store)
           /\ Succeed(c, TRUE)
  <2>1. Accepts(sent[c], store) /\ store' = Result(sent[c], store)
    <3>1. Path(sent[c], store)[0] = store
      BY <1>1, PathEquation
    <3>2. Path(sent[c], store)[1] = After(sent[c][1], store)
      BY <1>1, <3>1, PathEquation
    <3>3. \A i \in 1..Len(sent[c]) : i = 1 /\ i - 1 = 0
      BY <1>1
    <3>4. QED
      BY <1>1, <1>3, <3>1, <3>2, <3>3 DEF Accepts, Result
  <2>2. PICK r \in Runs : /\ run' = [run EXCEPT ![c] = r]
                          /\ r.failure = run[c].failure
                          /\ r.committed = (run[c].committed \/ TRUE)
    BY <1>1, <1>3, SucceedIs
  <2>3. Promise!Apply(c)
    BY <1>1, <1>2, <2>1, <2>2, MapApply
  <2>4. QED
    BY <2>3
<1>4. CASE Fail(c, "error") /\ UNCHANGED store
  BY <1>1, <1>4, MapStep
<1>5. CASE Fail(c, "constraint") /\ UNCHANGED store /\ ~Accepts(sent[c], store)
  <2>1. PICK r \in Runs : /\ run' = [run EXCEPT ![c] = r]
                          /\ r.committed = run[c].committed /\ r.failure = "constraint"
    BY <1>1, <1>2, <1>5, FailIs
  <2>2. Promise!Refuse(c)
    BY <1>1, <1>2, <1>5, <2>1, MapRefuse
  <2>3. QED
    BY <2>2
<1>6. QED
  BY <1>3, <1>4, <1>5 DEF Failures

LEMMA MapLocal ==
  ASSUME IInv, NEW c \in Calls, RunLocally(c)
  PROVE  Promise!Apply(c) \/ Promise!Refuse(c) \/ UNCHANGED Promise!vars
<1>1. /\ backend # "libsql" /\ sent[c] # <<>> /\ ~Complete(c)
      /\ UNCHANGED <<sent, answer, backend>>
  BY DEF RunLocally
<1>2. /\ Steps(c) \in Nat /\ run \in [Calls -> Runs] /\ run[c] = NotRun
  <2>1. Len(sent[c]) \in Nat
    BY BatchShape DEF IInv
  <2>2. Steps(c) \in Nat
    BY <2>1 DEF Steps
  <2>3. run[c] = NotRun
    BY <1>1 DEF IInv, RunInv
  <2>4. QED
    BY <2>2, <2>3 DEF IInv, ShapeInv
<1>3. run[c].failure = "none" /\ ~run[c].committed /\ answer[c] \in {"waiting", "error"}
  BY <1>1, <1>2, StillUndecided DEF NotRun
<1>4. CASE /\ Accepts(sent[c], store) /\ store' = Result(sent[c], store)
           /\ run' = [run EXCEPT ![c] = [NotRun EXCEPT !.step = Steps(c), !.committed = TRUE]]
  <2> DEFINE r == [NotRun EXCEPT !.step = Steps(c), !.committed = TRUE]
  <2>1. run' = [run EXCEPT ![c] = r]
    BY <1>4
  <2>2. r \in Runs /\ r.committed /\ r.failure # "constraint"
    BY <1>2 DEF NotRun, Runs
  <2> HIDE DEF r
  <2>3. Promise!Apply(c)
    BY <1>1, <1>2, <1>3, <1>4, <2>1, <2>2, MapApply
  <2>4. QED
    BY <2>3
<1>5. ASSUME NEW failure \in Failures(sent[c], store), UNCHANGED store,
             run' = [run EXCEPT ![c] = [NotRun EXCEPT !.step = Steps(c), !.failure = failure]]
      PROVE  Promise!Refuse(c) \/ UNCHANGED Promise!vars
  <2> DEFINE r == [NotRun EXCEPT !.step = Steps(c), !.failure = failure]
  <2>1. run' = [run EXCEPT ![c] = r]
    BY <1>5
  <2>2. \/ failure = "error"
        \/ failure = "constraint" /\ ~Accepts(sent[c], store)
    BY <1>5 DEF Failures
  <2>3. r \in Runs /\ r.committed = FALSE /\ r.failure = failure
    BY <1>2, <2>2 DEF NotRun, Runs
  <2> HIDE DEF r
  <2>4. CASE failure = "error"
    <3>1. run[c].committed = FALSE
      BY <1>2 DEF NotRun
    <3>2. QED
      BY <1>1, <1>2, <1>3, <1>5, <2>1, <2>3, <2>4, <3>1, MapQuiet
  <2>5. CASE failure = "constraint" /\ ~Accepts(sent[c], store)
    <3>1. Promise!Refuse(c)
      BY <1>1, <1>2, <1>3, <1>5, <2>1, <2>3, <2>5, MapRefuse
    <3>2. QED
      BY <3>1
  <2>6. QED
    BY <2>2, <2>4, <2>5
<1>6. QED
  BY <1>4, <1>5 DEF RunLocally

LEMMA PromiseInit == Init => Promise!Init
<1> SUFFICES ASSUME Init PROVE Promise!Init
  OBVIOUS
<1>1. \A c \in Calls : ~run[c].committed /\ run[c].failure # "constraint"
  BY DEF Init, NotRun
<1>2. /\ {c \in Calls : run[c].committed} = {}
      /\ {c \in Calls : run[c].failure = "constraint"} = {}
  BY <1>1
<1>3. QED
  BY <1>2 DEF Init, Promise!Init

LEMMA PromiseStep == IInv /\ [Next]_vars => [Promise!Next]_(Promise!vars)
<1> SUFFICES ASSUME IInv, [Next]_vars PROVE [Promise!Next]_(Promise!vars)
  OBVIOUS
<1>1. ASSUME NEW c \in Calls, NEW batch \in Batches, Execute(c, batch)
      PROVE  [Promise!Next]_(Promise!vars)
  BY <1>1, MapExecute DEF Promise!Next
<1>2. ASSUME NEW c \in Calls, ServerStep(c) \/ RunLocally(c)
      PROVE  Promise!Apply(c) \/ Promise!Refuse(c) \/ UNCHANGED Promise!vars
  <2>1. run \in [Calls -> Runs]
    BY DEF IInv, ShapeInv
  <2>2. CASE Begin(c)
    BY <2>1, <2>2, MapStep DEF Begin
  <2>3. CASE StatementSkipped(c)
    BY <2>1, <2>3, MapStep DEF StatementSkipped
  <2>4. CASE StatementSucceeds(c)
    BY <2>1, <2>4, MapStep DEF StatementSucceeds
  <2>5. CASE CommitFails(c)
    BY <2>1, <2>5, MapStep DEF CommitFails
  <2>6. CASE Rollback(c)
    <3>1. run[c].committed \in BOOLEAN
      BY <2>1 DEF Runs
    <3>2. Skip(c) \/ Succeed(c, FALSE) \/ Fail(c, "error")
      BY <3>1, <2>6 DEF Rollback
    <3>3. QED
      BY <3>2, <2>1, <2>6, MapStep DEF Rollback
  <2>7. QED
    BY <1>2, <2>2, <2>3, <2>4, <2>5, <2>6, MapFails, MapCommit, MapSingle, MapLocal
    DEF ServerStep
<1>3. ASSUME NEW c \in Calls, Reply(c) \/ LoseAnswer(c)
      PROVE  [Promise!Next]_(Promise!vars)
  BY <1>3, MapAnswer DEF Promise!Next
<1>4. ASSUME NEW c \in Calls, DropConnection(c)
      PROVE  UNCHANGED Promise!vars
  BY <1>4 DEF DropConnection, Promise!vars
<1>5. CASE ColdStart
  <2>1. Promise!Forget
    BY <1>5 DEF ColdStart, Promise!Forget
  <2>2. QED
    BY <2>1 DEF Promise!Next
<1>6. CASE UNCHANGED vars
  BY <1>6 DEF vars, Promise!vars
<1>7. ASSUME NEW c \in Calls, ServerStep(c) \/ RunLocally(c)
      PROVE  [Promise!Next]_(Promise!vars)
  BY <1>2, <1>7 DEF Promise!Next
<1>8. QED
  BY <1>1, <1>3, <1>4, <1>5, <1>6, <1>7 DEF Next

\* The adapter keeps the promise of AtomicStore: a batch takes effect as a whole, once, or
\* never, and "ok" and "conflict" are said only of the batches they are true of, whatever
\* fails between BEGIN and ROLLBACK and whoever writes meanwhile.
THEOREM Refinement == Spec => ImplementsAtomicStore
  BY PromiseInit, PromiseStep, InvariantHolds, PTL DEF Spec, ImplementsAtomicStore, Promise!Spec
=============================================================================
