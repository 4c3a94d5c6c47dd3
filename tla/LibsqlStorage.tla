--------------------------- MODULE LibsqlStorage ---------------------------
(***************************************************************************)
(* The storage adapter, lib/server/d1-compat.ts.  The code's statements    *)
(* and batches reach one of two backends:                                  *)
(*                                                                         *)
(*  - libSQL over HTTP.  A batch becomes the steps BEGIN, the statements,  *)
(*    COMMIT and ROLLBACK of one Hrana batch, each under a condition on    *)
(*    the step before it; the server runs them while other connections     *)
(*    run theirs.  A single statement is a pipeline of its own.            *)
(*  - node:sqlite, in the process: a call runs to its end before another   *)
(*    starts.                                                              *)
(*                                                                         *)
(* The HTTP answer may be lost or late, in which case the caller is told   *)
(* "error" and the server goes on.  resolveStorage picks the backend from  *)
(* the environment.                                                        *)
(***************************************************************************)
EXTENDS StoreStatements

CONSTANTS Calls,         \* each sends one statement or batch
          Batches,       \* the batches they may send
          Environments   \* the deployments' settings, records of Settings

ASSUME BatchesAssumption == \A b \in Batches : b \in Seq({b[i] : i \in DOMAIN b})

\* Which of two values is the newer is a comparison of their columns.
ASSUME NewerAssumption ==
  LET Values == UNION {{b[i].value : i \in DOMAIN b} : b \in Batches}
  IN \A u, v, w \in Values : Newer(u, v) /\ Newer(v, w) => Newer(u, w)

VARIABLES store,     \* the committed rows
          sent,      \* the batch of each call, <<>> before it is sent
          answer,    \* what each caller was told
          backend,   \* what resolveStorage chose
          run,       \* how far the server has run each call's batch
          open,      \* the calls whose connection is inside a transaction
          pending,   \* the rows a connection wrote and did not commit
          closed     \* the calls whose connection the server closed

vars == <<store, sent, answer, backend, run, open, pending, closed>>

\* Of the step results the adapter reads: the outcome of the step before, the
\* first failure, and whether COMMIT succeeded.
Runs ==
  [step : Nat, last : {"none", "ok", "failed", "skipped"},
   failure : {"none", "error", "constraint"}, committed : BOOLEAN]
NotRun == [step |-> 0, last |-> "none", failure |-> "none", committed |-> FALSE]

Settings ==
  [production : BOOLEAN, url : BOOLEAN, token : BOOLEAN, path : BOOLEAN,
   ephemeral : BOOLEAN, builtin : BOOLEAN]

(***************************************************************************)
(* Choosing the backend                                                    *)
(***************************************************************************)
\* A production runtime without hosted storage refuses to start.
Starts(e) == e.production => e.url /\ e.token

\* Hosted storage wins; a local file needs node:sqlite; instance-local
\* storage has to be asked for.
Resolve(e) ==
  CASE e.url /\ e.token -> "libsql"
    [] ~(e.url /\ e.token) /\ e.path -> IF e.builtin THEN "sqlite" ELSE "none"
    [] ~(e.url /\ e.token) /\ ~e.path /\ e.ephemeral ->
         IF e.builtin THEN "ephemeral" ELSE "none"
    [] OTHER -> "none"

Init ==
  /\ store = << >>
  /\ sent = [c \in Calls |-> <<>>]
  /\ answer = [c \in Calls |-> "none"]
  /\ backend \in {Resolve(e) : e \in {f \in Environments : Starts(f)}}
  /\ run = [c \in Calls |-> NotRun]
  /\ open = {}
  /\ pending = [c \in Calls |-> << >>]
  /\ closed = {}

(***************************************************************************)
(* The caller's side                                                       *)
(***************************************************************************)
Execute(c, batch) ==
  /\ backend # "none"
  /\ answer[c] = "none"
  /\ sent' = [sent EXCEPT ![c] = batch]
  /\ answer' = [answer EXCEPT ![c] = "waiting"]
  /\ UNCHANGED <<store, backend, run, open, pending, closed>>

\* BEGIN, the statements, COMMIT and ROLLBACK; a single statement goes alone.
Transactional(c) == Len(sent[c]) > 1
CommitStep(c) == Len(sent[c]) + 1
Steps(c) == IF Transactional(c) THEN Len(sent[c]) + 3 ELSE 1
Complete(c) == sent[c] # <<>> /\ run[c].step = Steps(c)

\* The adapter reads a complete batch response: success means every step but
\* the rollback ran and none failed; the error it throws is the first failed
\* step's own, so a caller can tell a violated constraint.
Told(c) ==
  IF run[c].failure = "none" /\ run[c].committed THEN "ok"
  ELSE IF run[c].failure = "constraint" THEN "conflict"
  ELSE "error"

Reply(c) ==
  /\ answer[c] = "waiting" /\ Complete(c)
  /\ answer' = [answer EXCEPT ![c] = Told(c)]
  /\ UNCHANGED <<store, sent, backend, run, open, pending, closed>>

\* Mutant: no timeout on the request.
LoseAnswerNever(c) == FALSE

\* The request timed out, failed, or its answer was malformed.
LoseAnswer(c) ==
  /\ answer[c] = "waiting" /\ backend = "libsql"
  /\ answer' = [answer EXCEPT ![c] = "error"]
  /\ UNCHANGED <<store, sent, backend, run, open, pending, closed>>

(***************************************************************************)
(* The libSQL server                                                       *)
(***************************************************************************)
Running(c) ==
  /\ backend = "libsql" /\ sent[c] # <<>>
  /\ c \notin closed /\ ~Complete(c)

\* One connection at a time holds uncommitted writes.
Locked(c) == \E d \in open \ {c} : pending[d] # << >>

\* Its own rows hide the committed ones.
View(c) ==
  [k \in DOMAIN pending[c] \union DOMAIN store |->
     IF k \in DOMAIN pending[c] THEN pending[c][k] ELSE store[k]]

Succeed(c, commits) ==
  run' = [run EXCEPT ![c].step = @ + 1, ![c].last = "ok",
                     ![c].committed = @ \/ commits]

Fail(c, failure) ==
  run' = [run EXCEPT ![c].step = @ + 1, ![c].last = "failed",
                     ![c].failure = IF @ = "none" THEN failure ELSE @]

Skip(c) == run' = [run EXCEPT ![c].step = @ + 1, ![c].last = "skipped"]

\* Mutant: the steps carry no conditions, as in a Hrana v2 pipeline.
EnabledAlways(c) == c \in Calls

\* The step before succeeded and the transaction it belongs to is still open.
Enabled(c) == run[c].last = "ok" /\ c \in open

EndTransaction(c) ==
  /\ open' = open \ {c}
  /\ pending' = [pending EXCEPT ![c] = << >>]

Begin(c) ==
  /\ Running(c) /\ Transactional(c) /\ run[c].step = 0
  /\ \/ Succeed(c, FALSE) /\ open' = open \union {c}
     \/ Fail(c, "error") /\ UNCHANGED open
  /\ UNCHANGED <<store, sent, answer, backend, pending, closed>>

\* The statement whose turn it is.
InBody(c) == Running(c) /\ Transactional(c) /\ run[c].step \in 1..Len(sent[c])
Statement(c) == sent[c][run[c].step]

StatementSkipped(c) ==
  /\ InBody(c) /\ ~Enabled(c)
  /\ Skip(c)
  /\ UNCHANGED <<store, sent, answer, backend, open, pending, closed>>

StatementSucceeds(c) ==
  LET s == Statement(c) IN
    /\ InBody(c) /\ Enabled(c) /\ ~Locked(c)
    /\ Fits(s, View(c))
    /\ pending' = [pending EXCEPT ![c] =
                     IF Writes(s, View(c)) THEN After(s, @) ELSE @]
    /\ Succeed(c, FALSE)
    /\ UNCHANGED <<store, sent, answer, backend, open, closed>>

\* A constraint, another writer's lock or the server: the statement is undone,
\* and some failures end the transaction with it.
Failures(batch, table) ==
  {"error"} \union (IF Accepts(batch, table) THEN {} ELSE {"constraint"})

StatementFails(c) ==
  /\ InBody(c) /\ Enabled(c)
  /\ \E failure \in Failures(<<Statement(c)>>, View(c)) : Fail(c, failure)
  /\ EndTransaction(c) \/ UNCHANGED <<open, pending>>
  /\ UNCHANGED <<store, sent, answer, backend, closed>>

AtCommit(c) == Running(c) /\ Transactional(c) /\ run[c].step = CommitStep(c)

Commit(c) ==
  /\ AtCommit(c) /\ Enabled(c)
  /\ store' = View(c)
  /\ EndTransaction(c)
  /\ Succeed(c, TRUE)
  /\ UNCHANGED <<sent, answer, backend, closed>>

CommitFails(c) ==
  /\ AtCommit(c)
  /\ IF Enabled(c)
       THEN Fail(c, "error") /\ (EndTransaction(c) \/ UNCHANGED <<open, pending>>)
       ELSE Skip(c) /\ UNCHANGED <<open, pending>>
  /\ UNCHANGED <<store, sent, answer, backend, closed>>

\* Mutant: the rollback runs only when the commit was tried and failed.
RollbackAfterCommit(c) ==
  /\ Running(c) /\ Transactional(c) /\ run[c].step = CommitStep(c) + 1
  /\ IF run[c].last = "failed" /\ c \in open
       THEN Succeed(c, FALSE) /\ EndTransaction(c)
       ELSE Skip(c) /\ UNCHANGED <<open, pending>>
  /\ UNCHANGED <<store, sent, answer, backend, closed>>

\* Runs unless the commit succeeded, and fails outside a transaction.
Rollback(c) ==
  /\ Running(c) /\ Transactional(c) /\ run[c].step = CommitStep(c) + 1
  /\ CASE run[c].committed -> Skip(c)
       [] ~run[c].committed /\ c \in open -> Succeed(c, FALSE)
       [] OTHER -> Fail(c, "error")
  /\ EndTransaction(c)
  /\ UNCHANGED <<store, sent, answer, backend, closed>>

\* A statement outside a transaction commits by itself.
SingleStatement(c) ==
  /\ Running(c) /\ ~Transactional(c)
  /\ \/ /\ ~Locked(c) /\ Fits(sent[c][1], store)
        /\ store' = After(sent[c][1], store)
        /\ Succeed(c, TRUE)
     \/ /\ \E failure \in Failures(sent[c], store) : Fail(c, failure)
        /\ UNCHANGED store
  /\ UNCHANGED <<sent, answer, backend, open, pending, closed>>

\* The server loses the connection and what it did not commit.
DropConnection(c) ==
  /\ Running(c)
  /\ EndTransaction(c)
  /\ closed' = closed \union {c}
  /\ UNCHANGED <<store, sent, answer, backend, run>>

ServerStep(c) ==
  \/ Begin(c) \/ StatementSkipped(c) \/ StatementSucceeds(c) \/ StatementFails(c)
  \/ Commit(c) \/ CommitFails(c) \/ Rollback(c) \/ SingleStatement(c)

(***************************************************************************)
(* node:sqlite                                                             *)
(***************************************************************************)
\* The calls block the process: nothing runs between a batch's statements.
RunLocally(c) ==
  /\ backend \in {"sqlite", "ephemeral"} /\ sent[c] # <<>> /\ ~Complete(c)
  /\ \/ /\ Accepts(sent[c], store)
        /\ store' = Result(sent[c], store)
        /\ run' = [run EXCEPT ![c] = [NotRun EXCEPT !.step = Steps(c), !.committed = TRUE]]
     \/ /\ \E failure \in Failures(sent[c], store) :
             run' = [run EXCEPT ![c] = [NotRun EXCEPT !.step = Steps(c), !.failure = failure]]
        /\ UNCHANGED store
  /\ UNCHANGED <<sent, answer, backend, open, pending, closed>>

\* Instance-local storage is lost with its instance.
ColdStart ==
  /\ backend = "ephemeral" /\ store # << >>
  /\ store' = << >>
  /\ UNCHANGED <<sent, answer, backend, run, open, pending, closed>>

Next ==
  \/ \E c \in Calls :
       \/ \E batch \in Batches : Execute(c, batch)
       \/ ServerStep(c) \/ DropConnection(c) \/ RunLocally(c)
       \/ Reply(c) \/ LoseAnswer(c)
  \/ ColdStart

Spec == Init /\ [][Next]_vars

\* The adapter's timeout and the process's own statements come about; a server
\* owes nothing.
FairSpec ==
  /\ Spec
  /\ \A c \in Calls : WF_vars(Reply(c) \/ LoseAnswer(c) \/ RunLocally(c))

(***************************************************************************)
(* Properties                                                              *)
(***************************************************************************)
TypeOK ==
  /\ backend \in {"libsql", "sqlite", "ephemeral", "none"}
  /\ answer \in [Calls -> {"none", "waiting", "ok", "conflict", "error"}]
  /\ \A c \in Calls : /\ sent[c] \in Batches \union {<<>>}
                      /\ run[c] \in Runs /\ run[c].step <= Steps(c)
  /\ open \subseteq Calls /\ closed \subseteq Calls

\* The adapter keeps the promise the routes rely on: a batch takes effect as a
\* whole or not at all, whatever fails between BEGIN and ROLLBACK and whoever
\* writes meanwhile, "ok" is said only of a batch that did and "conflict" only
\* of one that never will (lib/server/d1-compat.ts:286).
Promise ==
  INSTANCE AtomicStore WITH applied <- {c \in Calls : run[c].committed},
                            refused <- {c \in Calls : run[c].failure = "constraint"},
                            durable <- backend # "ephemeral"

ImplementsAtomicStore == Promise!Spec

\* No transaction outlives its batch: whichever step failed, the connection
\* returns with nothing uncommitted and no lock
\* (lib/server/d1-compat.ts:308).
NoOpenTransactionLeft ==
  \A c \in Calls :
    /\ pending[c] # << >> => c \in open
    /\ c \in open => Running(c)

\* A connection that returns is clean, and the adapter is in a state it knows.
ConnectionsAreClean == TypeOK /\ NoOpenTransactionLeft

\* Every call is answered, though the server may say nothing
\* (lib/server/d1-compat.ts:217).
CallsAnswered ==
  \A c \in Calls : answer[c] = "waiting" ~> answer[c] \in {"ok", "conflict", "error"}
=============================================================================
