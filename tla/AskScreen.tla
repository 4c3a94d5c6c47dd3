----------------------------- MODULE AskScreen ------------------------------
(***************************************************************************)
(* The question screen of a tab: one question at a time, its answer, and   *)
(* the saved investigation a link names, which is fetched whenever nothing *)
(* is shown or awaited.                                                    *)
(***************************************************************************)
EXTENDS WorkspaceTab, SequenceFilter

CONSTANTS
  Prompts,
  MaxRuns      \* bound: investigations the server records

ASSUME AskAssumption == MaxRuns \in Nat \ {0}

VARIABLES
  store,   \* server: the recorded investigations, whose and of what question
  ask      \* the screen, with its requests

askVars == <<store, ask>>
Runs == 1 .. MaxRuns
NoRun == 0
NoQuestion == "none"

Posts == [op : {"ask", "restore"}, question : Prompts \union {NoQuestion},
          run : Runs \union {NoRun}, live : BOOLEAN, stage : {"sent", "answered", "refused"}]

AskTypeOK ==
  /\ store \in Seq([of : Sessions, question : Prompts])
  /\ Len(store) <= MaxRuns
  /\ ask \in [submitted : Prompts \union {NoQuestion}, busy : BOOLEAN,
             result : {NoRun} \union DOMAIN store, turns : Seq(DOMAIN store),
             restored : {NoRun} \union DOMAIN store, link : {NoRun} \union DOMAIN store,
             posts : SUBSET Posts]

Post(op, q, run) ==
  [op |-> op, question |-> q, run |-> run, live |-> TRUE, stage |-> "sent"]

Blank(link, posts) ==
  [submitted |-> NoQuestion, busy |-> FALSE, result |-> NoRun, turns |-> <<>>,
   restored |-> NoRun, link |-> link, posts |-> posts]

(***************************************************************************)
(* The effect on busy and result.                                          *)
(***************************************************************************)
Restores(a) ==
  a.link # NoRun /\ a.restored # a.link /\ a.result = NoRun /\ ~a.busy

\* Mutant: the answer to a request the effect made earlier still counts.
StillActive(posts) == posts

\* Its cleanup: the answer to a request it made earlier no longer counts.
Inactive(posts) == {p \in posts : p.op # "restore"}

\* The screen once busy or result has changed and the effect has run.
Rendered(a) ==
  LET idle == Inactive(a.posts) IN
  IF Restores(a)
  THEN [a EXCEPT !.restored = a.link,
                 !.posts = idle \union {Post("restore", NoQuestion, a.link)}]
  ELSE [a EXCEPT !.posts = idle]

Mounted(link) == Rendered(Blank(link, ask.posts))

\* Leaving the screen aborts its question; the server may not notice.
Abandoned(posts) == {[p EXCEPT !.live = FALSE] : p \in {p \in posts : p.op = "ask" /\ p.stage = "sent"}}
Unmounted == Blank(ask.link, Abandoned(ask.posts))

\* Links name investigations that were recorded.
AskInit ==
  /\ store \in {<<>>} \union {<<[of |-> s, question |-> q]>> : s \in Sessions, q \in Prompts}
  /\ \E link \in {NoRun} \union DOMAIN store :
       ask = IF Ready(view) THEN Rendered(Blank(link, {})) ELSE Blank(link, {})

(***************************************************************************)
(* The server.                                                             *)
(***************************************************************************)
\* POST /api/ask records an investigation of the session's workspace and answers with it.
ServeAsk(p) ==
  /\ p.op = "ask" /\ p.stage = "sent"
  /\ LET admitted == session \in owned
         served == [p EXCEPT !.stage = IF admitted THEN "answered" ELSE "refused",
                             !.run = IF admitted THEN Len(store) + 1 ELSE NoRun] IN
     /\ store' = IF admitted THEN Append(store, [of |-> session, question |-> p.question]) ELSE store
     /\ ask' = [ask EXCEPT !.posts = (@ \ {p}) \union (IF p.live THEN {served} ELSE {})]
  /\ UNCHANGED tabVars

\* GET /api/ask/[id] answers with an investigation of the session's workspace.
ServeRestore(p) ==
  /\ p.op = "restore" /\ p.stage = "sent"
  /\ LET mine == session \in owned /\ store[p.run].of = session IN
     ask' = [ask EXCEPT !.posts = (@ \ {p}) \union
                          {[p EXCEPT !.stage = IF mine THEN "answered" ELSE "refused"]}]
  /\ UNCHANGED <<tabVars, store>>

(***************************************************************************)
(* run, cancelRun and the effect's answer.                                 *)
(***************************************************************************)
Pending == {p \in ask.posts : p.op = "ask"}

Submit(q) ==
  /\ Ready(view) /\ loaded /\ sources.refs \intersect Proven # {}
  /\ ~ask.busy
  /\ Len(store) + Cardinality(Pending) < MaxRuns
  /\ ask' = Rendered([ask EXCEPT !.submitted = q, !.busy = TRUE, !.result = NoRun,
                                 !.posts = @ \union {Post("ask", q, NoRun)}])
  /\ UNCHANGED <<tabVars, store>>

AskAnswered(p) ==
  /\ p.op = "ask" /\ p.live /\ p.stage = "answered"
  /\ ask' = Rendered([ask EXCEPT !.busy = FALSE, !.result = p.run, !.link = p.run,
                                 !.turns = Append(Keep(@, Runs \ {p.run}), p.run),
                                 !.posts = @ \ {p}])
  /\ UNCHANGED <<tabVars, store>>

\* The question failed, or is no longer waited for.
GivesUp(p, rest) ==
  ask' = Rendered([ask EXCEPT !.busy = FALSE, !.posts = (ask.posts \ {p}) \union rest])

Orphan(p) == IF p.stage = "sent" THEN {[p EXCEPT !.live = FALSE]} ELSE {}

AskRefused(p) ==
  /\ p.op = "ask" /\ p.live /\ p.stage = "refused"
  /\ GivesUp(p, {})
  /\ UNCHANGED <<tabVars, store>>

Cancel(p) ==
  /\ p.op = "ask" /\ p.live
  /\ GivesUp(p, Orphan(p))
  /\ UNCHANGED <<tabVars, store>>

AskTimesOut(p) ==
  /\ p.op = "ask" /\ p.live
  /\ faults < MaxFaults
  /\ faults' = faults + 1
  /\ GivesUp(p, Orphan(p))
  /\ UNCHANGED <<server, view, sources, loaded, calls, switches, store>>

Restored(p) ==
  /\ p.op = "restore" /\ p.stage = "answered"
  /\ ask' = Rendered([ask EXCEPT !.result = p.run, !.submitted = store[p.run].question,
                                 !.turns = <<p.run>>, !.posts = @ \ {p}])
  /\ UNCHANGED <<tabVars, store>>

\* A receipt that cannot be fetched is not fetched again.
NotRestored(p) ==
  /\ p.op = "restore"
  /\ \/ p.stage = "refused" /\ UNCHANGED faults
     \/ p.stage = "sent" /\ faults < MaxFaults /\ faults' = faults + 1
  /\ ask' = [ask EXCEPT !.posts = @ \ {p}]
  /\ UNCHANGED <<server, view, sources, loaded, calls, switches, store>>

AskNext ==
  \/ \E q \in Prompts : Submit(q)
  \/ \E p \in ask.posts :
       \/ ServeAsk(p) \/ ServeRestore(p) \/ AskAnswered(p) \/ AskRefused(p)
       \/ Cancel(p) \/ AskTimesOut(p) \/ Restored(p) \/ NotRestored(p)

(***************************************************************************)
(* Properties.                                                             *)
(***************************************************************************)
\* The answer on screen is to the question above it and closes the list of turns, however
\* late a saved investigation is fetched and whatever is asked meanwhile (AskScreen.run and
\* its restore effect).
AnswerMatchesQuestion ==
  ask.result # NoRun =>
    /\ store[ask.result].question = ask.submitted
    /\ ask.turns # <<>> /\ Last(ask.turns) = ask.result

\* The screen waits exactly while one question of its own is under way, so that a hung
\* request surfaces as an error and no second one is sent beside it (runPending, api).
WaitsForOneAnswer ==
  LET waiting == {p \in ask.posts : p.op = "ask" /\ p.live} IN
  /\ Cardinality(waiting) <= 1
  /\ ask.busy <=> waiting # {}
  /\ ask.busy => ask.result = NoRun
=============================================================================
