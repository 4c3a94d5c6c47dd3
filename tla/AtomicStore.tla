---------------------------- MODULE AtomicStore ----------------------------
(***************************************************************************)
(* What the routes take the database to promise.  A caller sends a batch   *)
(* of statements; the batch takes effect as a whole, once, or not at all;  *)
(* the caller is told "ok" only after it took effect, "conflict" only when *)
(* a row it inserts was there and it never takes effect, and "error" says  *)
(* nothing: it may have taken effect, or may still.                        *)
(***************************************************************************)
EXTENDS StoreStatements

CONSTANTS Calls,   \* each sends one batch
          Batches  \* the batches they may send

VARIABLES store,     \* the committed rows: a function from keys to values
          sent,      \* the batch of each call, <<>> before it is sent
          applied,   \* the calls whose batch took effect
          refused,   \* those that met a row they insert
          answer,    \* what each caller was told
          durable    \* does the store outlive the instance that serves it?

vars == <<store, sent, applied, refused, answer, durable>>

Init ==
  /\ store = << >>
  /\ sent = [c \in Calls |-> <<>>]
  /\ applied = {} /\ refused = {}
  /\ answer = [c \in Calls |-> "none"]
  /\ durable \in BOOLEAN

Send(c, batch) ==
  /\ answer[c] = "none"
  /\ sent' = [sent EXCEPT ![c] = batch]
  /\ answer' = [answer EXCEPT ![c] = "waiting"]
  /\ UNCHANGED <<store, applied, refused, durable>>

Undecided(c) == answer[c] \in {"waiting", "error"} /\ c \notin applied \union refused

Apply(c) ==
  /\ Undecided(c)
  /\ Accepts(sent[c], store)
  /\ store' = Result(sent[c], store)
  /\ applied' = applied \union {c}
  /\ UNCHANGED <<sent, refused, answer, durable>>

Refuse(c) ==
  /\ Undecided(c)
  /\ ~Accepts(sent[c], store)
  /\ refused' = refused \union {c}
  /\ UNCHANGED <<store, sent, applied, answer, durable>>

Tell(c) ==
  /\ answer[c] = "waiting"
  /\ \E told \in {"ok", "conflict", "error"} :
       /\ told = "ok" => c \in applied
       /\ told = "conflict" => c \in refused
       /\ answer' = [answer EXCEPT ![c] = told]
  /\ UNCHANGED <<store, sent, applied, refused, durable>>

\* Only instance-local storage forgets, with its instance.
Forget ==
  /\ ~durable
  /\ store' = << >>
  /\ UNCHANGED <<sent, applied, refused, answer, durable>>

Next ==
  \/ \E c \in Calls : (\E batch \in Batches : Send(c, batch))
                      \/ Apply(c) \/ Refuse(c) \/ Tell(c)
  \/ Forget

Spec == Init /\ [][Next]_vars
=============================================================================
