---------------------------- MODULE MCMcpServer ----------------------------
(***************************************************************************)
(* A Linear connector and two GitHub connectors that share a database,     *)
(* two uploads, and a bundled corpus of three providers.  Of the three     *)
(* records of the GitHub connectors one has its resource as lineage and    *)
(* two have none.  A search may keep four records and looks at three.      *)
(***************************************************************************)
EXTENDS McpServer

CONSTANTS a, b, d, linear, github, document, home, hub, issue, change, note, copy,
          upload, draft, bundled, sent, told, chat, board, repo, ATL20, ATL204, sync,
          when, owner, May, June

Provider == [c \in Connectors |-> IF c = a THEN linear ELSE github]
Place == [x \in Connectors \union Records |->
            IF x \in {a, issue} THEN home ELSE hub]
Source == [r \in Records |->
  CASE r = issue -> a [] r \in {change, note} -> b [] r = copy -> d
    [] r \in {upload, draft} -> Upload [] OTHER -> Bundled]
Trace == [r \in Records |->
  CASE r = issue -> "connector" [] r = change -> "resource" [] OTHER -> "none"]
Resource == [r \in Records |->
  IF r = issue THEN board ELSE repo]
RecordProvider == [r \in Records |->
  CASE r \in {issue, sent} -> linear [] r \in {change, note, copy, bundled} -> github
    [] r = told -> chat [] OTHER -> document]
Label == [r \in Records |-> IF r = note THEN github ELSE Unsaid]
Named == [r \in Records |-> IF r \in {issue, copy} THEN {ATL20} ELSE {ATL204}]
Spelled == [r \in Records |-> Named[r] \union {ATL20}]
Searches == {[connectors |-> {b}, documents |-> {}],
             [connectors |-> {b, d}, documents |-> {}],
             [connectors |-> {a, b}, documents |-> {}],
             [connectors |-> {}, documents |-> {upload}]}
SyncedBy == [s \in Syncs |-> d]

Given == [r \in Records |->
  CASE r \in {issue, copy} -> {May} [] r = change -> {May, June} [] r = note -> {June}
    [] OTHER -> {}]
Replaced == [r \in Records |-> IF r = change THEN {May} ELSE {}]

Says(r, sentence, value, n, mine, closes, refers) ==
  [record |-> r, says |-> {sentence, value}, score |-> n, direct |-> mine,
   joins |-> FALSE, linked |-> r \in {issue, note}, covers |-> closes, names |-> refers]
Units ==
  << Says(change, "ships", "june", 20, 9, {when}, {issue}),
     Says(copy, "ships again", "june", 18, 9, {when}, {}),
     Says(bundled, "helios", "june", 14, 7, {}, {}),
     Says(upload, "draft plan", "plan", 12, 8, {}, {}),
     Says(note, "review", "note", 11, 8, {}, {}),
     Says(issue, "blocked", "blocked", 7, 3, {}, {}),
     Says(issue, "owned by ana", "ana", 1, 0, {owner}, {}) >>

Base == [ranking |-> <<change, copy, bundled, told, upload, note, draft, sent, issue>>,
         relevant |-> Records \ {draft}, units |-> Units, facets |-> <<when, owner>>,
         named |-> {}, waived |-> {}, chain |-> FALSE, changes |-> FALSE,
         bridges |-> <<issue>>,
         identifier |-> NoIdentifier, narrow |-> FALSE]
Asks == {[Base EXCEPT !.named = {linear, github, chat}],
         [Base EXCEPT !.changes = TRUE, !.facets = <<when>>, !.waived = {when}, !.chain = TRUE],
         [Base EXCEPT !.identifier = ATL20, !.narrow = TRUE, !.facets = <<>>]}
=============================================================================
