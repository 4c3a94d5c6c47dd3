----------------------------- MODULE McpServer -----------------------------
(***************************************************************************)
(* The tools of QueueProof's MCP server that read evidence: one call of    *)
(* queueproof_search, on the authenticated or on the public surface, while *)
(* other calls sync, verify and reconfigure the connectors.                *)
(*                                                                         *)
(* A search reads its scope in up to three statements, asks HydraDB once   *)
(* per database and collection, in parallel, keeps what it can attribute,  *)
(* and synthesises an answer from that.  Connectors are synced, verified   *)
(* and reconfigured between any two of these steps.                        *)
(***************************************************************************)
EXTENDS AnswerSynthesis, StatementFates

CONSTANTS
  Connectors,
  ConnectorProvider,
  PlaceOf,      \* database and collection of each connector, and of each record
  Origin,       \* where each record comes from: a connector, Upload or Bundled
  Lineage,      \* what HydraDB says of that: "connector", "resource" or "none"
  Resources,
  ResourceOf,   \* the resource each record came from
  Reported,     \* the provider HydraDB says each record is from, or Unsaid
  Noise,        \* records of QueueProof's own releases
  Identifiers,
  Mentions,     \* the identifiers each record names
  Spells,       \* those whose letters its text has, in a longer identifier even
  Questions,
  SearchScopes,       \* what the callers of the authenticated surface ask to search
  Syncs,        \* calls of queueproof_sync_connector
  SyncOf,       \* the connector each one syncs
  EvidenceLimit,      \* 48: pieces of evidence a search looks at
  LookupLimit,        \* 6: those of an exact lookup
  CorpusLimit,        \* 12: records the bundled corpus returns
  MaxChanges,   \* bound on what else changes the connectors
  Upload, Bundled, Unsaid, NoIdentifier

Places == {PlaceOf[c] : c \in Connectors} \union {PlaceOf[r] : r \in Records}
Documents == {r \in Records : Origin[r] = Upload}
Corpus == {r \in Records : Origin[r] = Bundled}

\* A question also has the identifier it looks up, and says whether it is narrow: one
\* identifier, no second clause, a plan of one fast pass.
ASSUME McpAssumption ==
  /\ IsFiniteSet(Connectors)
  /\ Origin \in [Records -> Connectors \union {Upload, Bundled}]
  /\ \A r \in Records : Origin[r] \in Connectors =>
       ProviderOf[r] = ConnectorProvider[Origin[r]] /\ ResourceOf[r] \in Resources
  /\ Lineage \in [Records -> {"connector", "resource", "none"}]
  /\ \A r \in Records : Mentions[r] \subseteq Spells[r]
  /\ \A q \in Questions : IsQuestion(q)
  /\ \A q \in Questions : q.identifier \in Identifiers \union {NoIdentifier}
  /\ \A q \in Questions : q.narrow => q.identifier # NoIdentifier
  /\ \A s \in SearchScopes : (s.connectors = {}) # (s.documents = {})
  /\ {EvidenceLimit, LookupLimit, CorpusLimit, MaxChanges} \subseteq Nat
  /\ NoIdentifier \notin Identifiers /\ Connectors \intersect {Upload, Bundled} = {}

VARIABLES
  verified,   \* connectors in state data_verified
  selected,   \* connector_resources with selected = 1
  indexed,    \* documents of stage indexed
  changes,    \* how often verification and configuration changed the first two
  surface,    \* "private", "public" or "unprovisioned": no reviewer workspace
  pc,         \* control state of the search
  question, scope, thinking,  \* its input: mode "thinking" was asked for, or not
  chosen,     \* the connectors it read
  snapshot,   \* the resources it read for them
  peers,      \* the verified connectors it counted
  lane,       \* its queries, by place
  accepted,   \* the records it kept, each with whom it is attributed to
  answer,
  syncing     \* control state of each sync

rows == <<verified, selected, indexed, changes>>
input == <<surface, question, scope, thinking>>
reads == <<chosen, snapshot, peers>>
retrieval == <<lane, accepted>>
search == <<pc, input, reads, retrieval, answer>>
mcpVars == <<rows, search, syncing>>

NoAnswer == [claims |-> <<>>, contradictions |-> {}, missing |-> {}, status |-> "none",
             examined |-> {}, considered |-> {}, evidence |-> {}, partial |-> FALSE]
PcStates == {"idle", "scope", "resources", "count", "open", "corpus", "retrieve",
             "answered", "refused", "failed"}

McpTypeOK ==
  /\ verified \subseteq Connectors
  /\ selected \in [Connectors -> SUBSET Resources]
  /\ indexed \subseteq Documents
  /\ changes \in 0..MaxChanges
  /\ surface \in {"private", "public", "unprovisioned"}
  /\ pc \in PcStates
  /\ question \in Questions /\ scope \in SearchScopes /\ thinking \in BOOLEAN
  /\ chosen \subseteq Connectors
  /\ snapshot \in [Connectors -> SUBSET Resources]
  /\ peers \subseteq Connectors
  /\ lane \in [Places -> {"off", "asked", "answered", "failed"}]
  /\ accepted \subseteq Records \X (Connectors \union {Upload, Bundled})
  /\ DOMAIN answer = DOMAIN NoAnswer
  /\ answer.evidence \subseteq answer.examined /\ answer.examined \subseteq accepted
  /\ syncing \in [Syncs -> {"idle", "call", "update", "queued", "refused", "error"}]

Public == surface # "private"

McpInit ==
  /\ verified = Connectors
  /\ selected = [c \in Connectors |-> {ResourceOf[r] : r \in {s \in Records : Origin[s] = c}}]
  /\ indexed \in SUBSET Documents
  /\ changes = 0
  /\ surface \in {"private", "public", "unprovisioned"}
  /\ pc = "idle"
  /\ question \in Questions /\ thinking \in BOOLEAN
  /\ scope \in SearchScopes     \* the public surface takes none: one stands for all
  /\ Public => scope = CHOOSE s \in SearchScopes : TRUE
  /\ thinking => question.narrow                     \* it matters to these only
  /\ chosen = {} /\ peers = {}
  /\ snapshot = [c \in Connectors |-> {}]
  /\ lane = [p \in Places |-> "off"]
  /\ accepted = {}
  /\ answer = NoAnswer
  /\ syncing = [s \in Syncs |-> "idle"]

SearchMoves(from, to) == pc = from /\ pc' = to

(***************************************************************************)
(* The scope of a search: validateSearchScope.                             *)
(***************************************************************************)
\* hostileQueryReason refuses a question, or it goes on.
Ask ==
  /\ \E to \in {"scope", "refused"} : SearchMoves("idle", to)
  /\ UNCHANGED <<rows, input, reads, retrieval, answer, syncing>>

\* Every connector of the scope must be the workspace's and verified.
ReadConnectors ==
  /\ ~Public /\ scope.documents = {}
  /\ SearchMoves("scope", IF scope.connectors \subseteq verified THEN "resources" ELSE "refused")
  /\ chosen' = scope.connectors \intersect verified
  /\ UNCHANGED <<rows, input, snapshot, peers, retrieval, answer, syncing>>

\* publicWorkspaceConnectors: the connectors and the counts in one statement.  Without
\* a verified connector the bundled corpus answers.
ReadPublicConnectors ==
  LET found == IF surface = "public" THEN verified ELSE {} IN
  /\ Public
  /\ SearchMoves("scope", IF found = {} THEN "corpus" ELSE "resources")
  /\ chosen' = found /\ peers' = found
  /\ UNCHANGED <<rows, input, snapshot, retrieval, answer, syncing>>

\* Every document of the scope must be the workspace's and indexed.
ReadDocuments ==
  /\ ~Public /\ scope.documents # {}
  /\ SearchMoves("scope", IF scope.documents \subseteq indexed THEN "open" ELSE "refused")
  /\ UNCHANGED <<rows, input, reads, retrieval, answer, syncing>>

ReadResources ==
  /\ SearchMoves("resources", IF Public THEN "open" ELSE "count")
  /\ snapshot' = [c \in Connectors |-> IF c \in chosen THEN selected[c] ELSE {}]
  /\ UNCHANGED <<rows, input, chosen, peers, retrieval, answer, syncing>>

CountPeers ==
  /\ SearchMoves("count", "open")
  /\ peers' = verified
  /\ UNCHANGED <<rows, input, chosen, snapshot, retrieval, answer, syncing>>

\* A read that throws fails the authenticated call; the public one falls back.
ReadFails ==
  /\ pc \in {"scope", "resources", "count"}
  /\ pc' = IF Public THEN "corpus" ELSE "failed"
  /\ chosen' = {} /\ snapshot' = [c \in Connectors |-> {}] /\ peers' = {}
  /\ UNCHANGED <<rows, input, retrieval, answer, syncing>>

(***************************************************************************)
(* Retrieval: one query per place.                                         *)
(***************************************************************************)
\* Connectors or documents answer, and not the bundled corpus.
FromHydra == chosen # {} \/ ~Public

NamedInScope ==
  question.named \intersect (IF FromHydra THEN {ConnectorProvider[c] : c \in chosen}
                             ELSE {ProviderOf[r] : r \in Corpus})
Narrow == question.narrow /\ ~thinking /\ Cardinality(NamedInScope) <= 1

\* A narrow lookup that names one provider asks that provider only.
Asked ==
  IF Narrow /\ NamedInScope # {}
  THEN {c \in chosen : ConnectorProvider[c] \in NamedInScope} ELSE chosen
Group(p) == {c \in Asked : PlaceOf[c] = p}
Wanted(p) == IF Public THEN {} ELSE {d \in scope.documents : PlaceOf[d] = p}
Queried == {p \in Places : Group(p) \union Wanted(p) # {}}

\* hydraClientForWorkspace: the workspace's account, or none.
OpenClient ==
  /\ \/ /\ SearchMoves("open", "retrieve")
        /\ lane' = [p \in Places |-> IF p \in Queried THEN "asked" ELSE "off"]
     \/ SearchMoves("open", "failed") /\ UNCHANGED lane
  /\ UNCHANGED <<rows, input, reads, accepted, answer, syncing>>

\* What HydraDB may return.  The query for one connector is filtered to it, or only to
\* its provider by a tenant that does not index connector_id.
Returnable(p) ==
  {r \in Records : /\ PlaceOf[r] = p /\ r \notin Corpus
                    /\ \A c \in Connectors : Group(p) = {c} =>
                         Origin[r] \in Connectors /\ ProviderOf[r] = ConnectorProvider[c]}

\* sourceBelongsToConnector.
Strict(p, r) ==
  CASE Lineage[r] = "connector" -> Group(p) \intersect {Origin[r]}
    [] Lineage[r] = "resource"  -> {c \in Group(p) : ResourceOf[r] \in snapshot[c]}
    [] Lineage[r] = "none"      -> {}

\* Mutant: the query of a group attests as the query of one connector does.
AttestedInGroup(p, r) ==
  {c \in Group(p) : Reported[r] \in {Unsaid, ConnectorProvider[c]}}

\* sourceAttestedByScopedConnectorQuery: the query of one connector vouches for records
\* without lineage, if that connector is the only verified one of its provider.
Attested(p, r) ==
  {c \in Group(p) :
     /\ Group(p) = {c}
     /\ Cardinality({d \in peers : ConnectorProvider[d] = ConnectorProvider[c]}) = 1
     /\ Reported[r] \in {Unsaid, ConnectorProvider[c]}}

Owners(p, r) == IF Strict(p, r) # {} THEN Strict(p, r) ELSE Attested(p, r)

\* Documents must be among those asked for, the rest must have an owner.
Accepted(p, returned) ==
  {<<r, Upload>> : r \in returned \intersect Wanted(p)}
    \union {<<r, CHOOSE c \in Owners(p, r) : TRUE>> :
              r \in {s \in returned : Group(p) # {} /\ Owners(p, s) # {}}}

Reply(p, returned) ==
  /\ pc = "retrieve" /\ lane[p] = "asked"
  /\ lane' = [lane EXCEPT ![p] = "answered"]
  /\ accepted' = accepted \union Accepted(p, returned)
  /\ UNCHANGED <<rows, pc, input, reads, answer, syncing>>

\* An error status, an exception or the timeout.
QueryFails(p) ==
  /\ pc = "retrieve" /\ lane[p] = "asked"
  /\ lane' = [lane EXCEPT ![p] = "failed"]
  /\ UNCHANGED <<rows, pc, input, reads, accepted, answer, syncing>>

(***************************************************************************)
(* The answer: finaliseSearch.                                             *)
(***************************************************************************)
CitedBy(synthesis) == Cited(synthesis.claims) \union UNION synthesis.contradictions

RecordsOf(entries) == {e[1] : e \in entries}
PlacesOf(entries) == {PlaceOf[r] : r \in RecordsOf(entries)}

\* evidenceLimit, and what it leaves.  The evidence comes place by place, in the order the
\* scope was read, which no statement fixes, and within a place in HydraDB's: the cut goes
\* through one place at most, and takes all of those after it.
Limit == IF FromHydra /\ Narrow THEN LookupLimit ELSE EvidenceLimit
Cuts(found) ==
  {kept \in Slices(found, Limit) :
     Cardinality(PlacesOf(kept) \intersect PlacesOf(found \ kept)) <= 1}

\* The records a claim or a contradiction cites, and no other, go with the answer.
AnswerFrom(examined, spared, partial) ==
  LET synthesis == Synthesise(question, RecordsOf(examined), spared) IN
  [claims |-> synthesis.claims, contradictions |-> synthesis.contradictions,
   missing |-> synthesis.missing, status |-> synthesis.status,
   examined |-> examined, considered |-> synthesis.considered,
   evidence |-> {e \in examined : e[1] \in CitedBy(synthesis)}, partial |-> partial]

\* The evidence is cut before any of it is ranked.
Finalise(found, partial) ==
  \E examined \in Cuts(found) :
    \E spared \in Spared(question, RecordsOf(examined)) :
      answer' = AnswerFrom(examined, spared, partial)

\* The public surface drops release noise; an exact lookup keeps the records that
\* name the identifier.
Presentable(e) ==
  /\ Public => e[1] \notin Noise
  /\ Narrow => question.identifier \in Mentions[e[1]]

\* Mutant: a failed query counts as one without results.
PartialOnlyWhenNothing(failed) == failed # {} /\ accepted = {}

\* failedScopeCount > 0.
Partial(failed) == failed # {}

Finish ==
  LET failed == {p \in Places : lane[p] = "failed"}
      done == {p \in Places : lane[p] = "answered"}
  IN /\ \A p \in Places : lane[p] # "asked"
     /\ SearchMoves("retrieve", IF done = {} THEN "failed" ELSE "answered")
     /\ IF done = {} THEN UNCHANGED answer
        ELSE Finalise({e \in accepted : Presentable(e)}, Partial(failed))
     /\ UNCHANGED <<rows, input, reads, retrieval, syncing>>

\* searchDemoCorpus: the best of what scores at all.  An exact lookup keeps the records
\* whose text contains the identifier.
Hits ==
  LET found == {r \in Corpus : Narrow => question.identifier \in Spells[r]}
      limit == IF Narrow THEN LookupLimit ELSE CorpusLimit
  IN {hits \in SUBSET found : Cardinality(hits) <= limit}

SearchCorpus ==
  /\ SearchMoves("corpus", "answered")
  /\ \E hits \in Hits : accepted' = {<<r, Bundled>> : r \in hits}
  /\ Finalise(accepted', FALSE)
  /\ UNCHANGED <<rows, input, reads, lane, syncing>>

(***************************************************************************)
(* queueproof_sync_connector, and what else changes the connectors: their  *)
(* verification and their selection (ConnectorLifecycle).                  *)
(***************************************************************************)
SyncMoves(s, from, to) ==
  /\ syncing[s] = from
  /\ syncing' = [syncing EXCEPT ![s] = to]

FindConnector(s) ==
  /\ SyncMoves(s, "idle", "call")
  /\ UNCHANGED <<rows, search>>

CallSync(s) ==
  /\ \E to \in {"update", "refused"} : SyncMoves(s, "call", to)
  /\ UNCHANGED <<rows, search>>

\* The UPDATE has no condition on the state, so it also undoes a verification.
StoreSync(s, o) ==
  /\ SyncMoves(s, "update", IF o = "ok" THEN "queued" ELSE "error")
  /\ verified' = IF o = "refused" THEN verified ELSE verified \ {SyncOf[s]}
  /\ UNCHANGED <<selected, indexed, changes, search>>

Change == changes < MaxChanges /\ changes' = changes + 1

\* A verification ends in data_verified, or in a state that is not.
Verify(c) ==
  /\ Change
  /\ verified' \in {verified \union {c}, verified \ {c}}
  /\ UNCHANGED <<selected, indexed, search, syncing>>

\* One batch: the selection, and the state back to initial_sync_requested.
Configure(c, x) ==
  /\ Change
  /\ selected' = [selected EXCEPT ![c] = {x}]
  /\ verified' = verified \ {c}
  /\ UNCHANGED <<indexed, search, syncing>>


McpNext ==
  \/ Ask \/ ReadConnectors \/ ReadPublicConnectors \/ ReadDocuments
  \/ ReadResources \/ CountPeers \/ ReadFails
  \/ OpenClient
  \/ \E p \in Places :
       \/ \E returned \in SUBSET Returnable(p) : Reply(p, returned)
       \/ QueryFails(p)
  \/ Finish \/ SearchCorpus
  \/ \E s \in Syncs :
       \/ FindConnector(s) \/ CallSync(s)
       \/ \E o \in Outcomes : StoreSync(s, o)
  \/ \E c \in Connectors : Verify(c)
  \/ \E c \in Connectors, x \in Resources : Configure(c, x)

McpSpec == McpInit /\ [][McpNext]_mcpVars

(***************************************************************************)
(* Properties.                                                             *)
(***************************************************************************)
Answered == pc = "answered"

\* server.ts:750: a search cites nothing outside its scope.  A document was asked for; the
\* bundled corpus stands in only where no connector was read; and what a connector is
\* credited with is its own, or of a resource selected for it, or comes from a connector
\* that was not verified beside it when they were counted.
EvidenceIsInScope ==
  Answered => \A e \in answer.evidence :
    \/ e[2] = Bundled /\ ~FromHydra
    \/ e[2] = Upload /\ e[1] \in scope.documents
    \/ /\ e[2] \in chosen
       /\ \/ Origin[e[1]] = e[2]
          \/ Lineage[e[1]] = "resource" /\ ResourceOf[e[1]] \in snapshot[e[2]]
          \/ ~({Origin[e[1]], e[2]} \subseteq peers)

\* server.ts:616: an answer that does not call itself partial, above all one that finds
\* nothing, heard every database and collection of the connectors and documents in scope.
SilenceIsComplete ==
  Answered /\ FromHydra /\ ~answer.partial =>
    /\ \A c \in chosen : lane[PlaceOf[c]] = "answered" \/ c \notin Asked
    /\ ~Public => \A d \in scope.documents : lane[PlaceOf[d]] = "answered"

\* server.ts:582: every record a claim or a contradiction cites is in the answer, and the
\* records it only considered are not.
CitationsResolve ==
  Answered => {e[1] : e \in answer.evidence} = CitedBy(answer)

\* server.ts:829: an answer to a lookup of one record is about that record, never about one
\* whose identifier it begins.
LookupsAreExact ==
  Answered /\ FromHydra /\ Narrow =>
    \A e \in answer.evidence : question.identifier \in Mentions[e[1]]

\* synthesis.ts:1083: no claim repeats a sentence or a value of another, in whichever pass
\* each was picked.
NoRestatement ==
  \A i, j \in DOMAIN answer.claims :
    i # j => answer.claims[i].says \intersect answer.claims[j].says = {}

\* synthesis.ts:466: a provider the question names takes part in the answer if anything
\* relevant of it was kept, whatever else scores better.  It is lost only where every slot
\* went to another provider the question names, or where the evidence that came before it
\* already filled the limit of server.ts:570.
NamedProviderIsHeard ==
  Answered =>
    \A e \in accepted :
      /\ Presentable(e) /\ e[1] \in question.relevant
      /\ ProviderOf[e[1]] \in question.named
      => \/ \E r \in answer.considered : ProviderOf[r] = ProviderOf[e[1]]
         \/ /\ Cardinality(answer.considered) = Slots
            /\ \A r \in answer.considered : ProviderOf[r] \in question.named
            /\ \A r, s \in answer.considered : ProviderOf[r] = ProviderOf[s] => r = s
         \/ e \notin answer.examined /\ Cardinality(answer.examined) = Limit

\* synthesis.ts:1180: a facet is reported missing only if no text of the records the first
\* claim cites or names, and that scores, would have closed it.
GapIsReal ==
  Answered /\ answer.claims # <<>> /\ Len(answer.claims) < 5 =>
    \A facet \in answer.missing, i \in DOMAIN question.units :
      LET u == question.units[i] IN
      /\ u.record \in answer.considered
      /\ facet \in u.covers /\ u.score > 0
      /\ u.record \in {answer.claims[1].record} \union answer.claims[1].names
      => Restates(answer.claims, u)

\* An answer is about what was asked: from the scope, and of the record looked up.
EvidenceIsAskedFor == EvidenceIsInScope /\ LookupsAreExact

\* What an answer says it did not find is not there to be found: every place in scope was
\* heard, and no cited record closes a facet reported missing.
AbsenceIsReal == SilenceIsComplete /\ GapIsReal

\* Claims hold together: each cites records the answer carries, and none repeats another.
ClaimsStand == McpTypeOK /\ CitationsResolve /\ NoRestatement

(***************************************************************************)
(* What the repository says and the code does not keep.                    *)
(***************************************************************************)
\* hydradb-shapes.ts:173: "Some HydraDB connector results omit connector/resource lineage
\* on the returned source ... The omission is accepted only when the full request receipt
\* proves" it.  The attestation does not ask whether lineage was omitted: it also accepts a
\* record that says it is another connector's, or of a resource that is not selected.
LineageIsBelieved ==
  Answered => \A e \in answer.evidence :
    e[2] \in Connectors =>
      CASE Lineage[e[1]] = "connector" -> Origin[e[1]] = e[2]
        [] Lineage[e[1]] = "resource"  -> ResourceOf[e[1]] \in snapshot[e[2]]
        [] Lineage[e[1]] = "none"      -> TRUE

\* synthesis.ts:466: "Reserve one of the 16 synthesis slots for the best genuinely relevant
\* receipt from each provider the user explicitly named; otherwise document volume can erase
\* a successful, attributable connector response."  The cut at server.ts:570 comes before the
\* slots and spares nothing.
NamedReceiptSurvives ==
  Answered => \A e \in accepted :
    /\ Presentable(e) /\ e[1] \in question.relevant /\ ProviderOf[e[1]] \in question.named
    => \E r \in answer.considered : ProviderOf[r] = ProviderOf[e[1]]
=============================================================================
