-------------------------- MODULE PublicRateLimit --------------------------
(***************************************************************************)
(* enforcePublicRateLimit of lib/server/store.ts, over the audit ledger.   *)
(* A request of the public sandbox counts the rows of its bucket and of    *)
(* the whole deployment, adds its own row, and counts again.  A browser    *)
(* that kept its signed cookie comes back in its bucket; one that lost it, *)
(* or never had one, gets a new bucket; without a signing secret all share *)
(* one.                                                                    *)
(***************************************************************************)
EXTENDS Naturals, Sequences, FiniteSets

CONSTANTS Requests,     \* the requests being served
          Buckets,      \* what publicRateLimitBucketId may answer
          Limit,        \* rows of one bucket in a window
          GlobalLimit,  \* rows of all buckets in a window
          MaxRows       \* bound: rows of one window

ASSUME LimitAssumption ==
  /\ Limit \in Nat /\ GlobalLimit \in Nat /\ MaxRows \in Nat
  /\ Buckets # {}

VARIABLES ledger,   \* the window's rows, oldest first
          limiter   \* how far each request is

limits == <<ledger, limiter>>

Rows == [bucket : Buckets, by : Requests, admitted : BOOLEAN]
Passed == {"idle", "count", "countAll", "insert", "recount", "recountAll",
           "admitted", "refused"}

Idle == [at |-> "idle", bucket |-> CHOOSE b \in Buckets : TRUE]

LimitInit ==
  /\ ledger = <<>>
  /\ limiter = [r \in Requests |-> Idle]

RowsOf(b) == {i \in DOMAIN ledger : ledger[i].bucket = b}

Arrive(r) ==
  /\ \E b \in Buckets : limiter' = [limiter EXCEPT ![r] = [at |-> "count", bucket |-> b]]
  /\ UNCHANGED ledger

Move(r, to) == limiter' = [limiter EXCEPT ![r].at = to]

\* The first count keeps a full window from growing.
Count(r) ==
  /\ limiter[r].at = "count"
  /\ Move(r, IF Cardinality(RowsOf(limiter[r].bucket)) >= Limit
               THEN "refused" ELSE "countAll")
  /\ UNCHANGED ledger

CountAll(r) ==
  /\ limiter[r].at = "countAll"
  /\ Move(r, IF Len(ledger) >= GlobalLimit THEN "refused" ELSE "insert")
  /\ UNCHANGED ledger

AddRow(r) ==
  /\ limiter[r].at = "insert"
  /\ Len(ledger) < MaxRows
  /\ ledger' = Append(ledger, [bucket |-> limiter[r].bucket, by |-> r, admitted |-> FALSE])
  /\ Move(r, "recount")

\* Mutant: the second count refuses nobody.
RecountUnread(r) ==
  /\ limiter[r].at = "recount"
  /\ Move(r, "recountAll")
  /\ UNCHANGED ledger

\* The second count sees the rows of everyone who passed the first one too.
Recount(r) ==
  /\ limiter[r].at = "recount"
  /\ Move(r, IF Cardinality(RowsOf(limiter[r].bucket)) > Limit
               THEN "refused" ELSE "recountAll")
  /\ UNCHANGED ledger

\* Its own row is the last one it added, if the window still holds it.
OwnRow(r) ==
  {i \in DOMAIN ledger : /\ ledger[i].by = r
                         /\ \A j \in DOMAIN ledger : ledger[j].by = r => j <= i}

\* Mutant: the second deployment-wide count is off by one.
RecountAllOneMore(r) ==
  /\ limiter[r].at = "recountAll"
  /\ IF Len(ledger) > GlobalLimit + 1
       THEN Move(r, "refused") /\ UNCHANGED ledger
       ELSE /\ Move(r, "admitted")
            /\ ledger' = [i \in DOMAIN ledger |->
                 IF i \in OwnRow(r) THEN [ledger[i] EXCEPT !.admitted = TRUE] ELSE ledger[i]]

RecountAll(r) ==
  /\ limiter[r].at = "recountAll"
  /\ IF Len(ledger) > GlobalLimit
       THEN Move(r, "refused") /\ UNCHANGED ledger
       ELSE /\ Move(r, "admitted")
            /\ ledger' = [i \in DOMAIN ledger |->
                 IF i \in OwnRow(r) THEN [ledger[i] EXCEPT !.admitted = TRUE] ELSE ledger[i]]

Leave(r) == limiter' = [limiter EXCEPT ![r] = Idle] /\ UNCHANGED ledger

\* The window slides past its oldest row.
WindowSlides ==
  /\ ledger # <<>>
  /\ ledger' = Tail(ledger)
  /\ UNCHANGED limiter

LimitStep(r) ==
  Count(r) \/ CountAll(r) \/ AddRow(r) \/ Recount(r) \/ RecountAll(r)

Admitted(b) == {i \in RowsOf(b) : ledger[i].admitted}
=============================================================================
