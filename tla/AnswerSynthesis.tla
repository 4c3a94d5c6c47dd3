-------------------------- MODULE AnswerSynthesis --------------------------
(***************************************************************************)
(* synthesiseGroundedAnswer: from the records a retrieval returned, the    *)
(* claims of the answer, the contradictions it reports and what it says is *)
(* missing.  A claim is a unit of text copied out of one record.           *)
(*                                                                         *)
(* The expressions that score text are left out: a question carries, for   *)
(* every record and every unit of text, what they find there.  The         *)
(* selection that works on their result is the code's.                     *)
(***************************************************************************)
EXTENDS Integers, SequenceFilter

CONSTANTS
  Records,      \* records of evidence
  ProviderOf,   \* their providers
  Dates,        \* the dates each record gives
  MovedFrom,    \* the dates each record says were replaced ("moved from")
  Completes,    \* records that report work complete
  StaysOpen,    \* records that report its ticket open
  Slots         \* 16: records the synthesis looks at

\* A unit of text:
\*   record   the record it is copied from
\*   says     its long sentences and the values it carries
\*   score    how well it answers, and direct, by its own words
\*   joins    it joins two sources, names a record of the question or carries a value
\*   linked   its record belongs to the question's authority chain
\*   covers   the facets of a question it supports
\*   names    records whose identifier it mentions
\* A question:
\*   ranking  the records, best first, and relevant: those that score at all
\*   units    the units of text, best first
\*   facets   the facets it asks for, in the order of REQUESTED_FACETS
\*   waived   those it only seems to ask for, whose absence is not reported
\*   named    the providers it names
\*   chain    it asks about authority and names a record
\*   bridges  records of the tracker it asks about, when it asks for an open ticket of
\*            finished work, best first
\*   changes  it asks about a change, a conflict or a deadline
ASSUME SynthesisAssumption ==
  /\ Slots \in Nat \ {0}
  /\ Dates \in [Records -> SUBSET UNION {Dates[r] : r \in Records}]
  /\ \A r \in Records : MovedFrom[r] \subseteq Dates[r] /\ Cardinality(MovedFrom[r]) <= 1
  /\ Completes \subseteq Records /\ StaysOpen \subseteq Records

IsQuestion(q) ==
  /\ q.ranking \in Seq(Records) /\ Records \subseteq ToSet(q.ranking)
  /\ q.units \in Seq(ToSet(q.units)) /\ \A u \in ToSet(q.units) : u.record \in Records
  /\ q.facets \in Seq(ToSet(q.facets))
  /\ q.bridges \in Seq(Records)

\* slice(0, n) of what S holds, in an order that is not modelled: what it may leave.
Slices(S, n) ==
  {kept \in SUBSET S : Cardinality(kept) <= n /\ (kept # S => Cardinality(kept) = n)}

AtMost(m, n) == IF m <= n THEN m ELSE n
First(n, s) == SubSeq(s, 1, AtMost(n, Len(s)))

(***************************************************************************)
(* rankEvidenceForQuestion.                                                *)
(***************************************************************************)
\* relevance(question, record) > 0.
Relevant(q, retrieved) == Keep(q.ranking, retrieved \intersect q.relevant)

\* The relevant records, best first; if none is, the three that come first.
Pool(q, retrieved) ==
  IF Relevant(q, retrieved) # <<>> THEN Relevant(q, retrieved)
  ELSE First(3, Keep(q.ranking, retrieved))

\* The best record of each provider the question names goes before the others.
Reserved(q, pool) ==
  {pool[i] : i \in {j \in DOMAIN pool :
     /\ ProviderOf[pool[j]] \in q.named
     /\ \A k \in 1..(j - 1) : ProviderOf[pool[k]] # ProviderOf[pool[j]]}}

\* If the question names more providers than there are slots, those whose evidence came
\* first keep theirs.
Spared(q, retrieved) == Slices(Reserved(q, Pool(q, retrieved)), Slots)

\* Mutant: the slots go to the best records, whoever was named.
RankUnreserved(q, retrieved, spared) == First(Slots, Pool(q, retrieved))

RankEvidence(q, retrieved, spared) ==
  LET pool == Pool(q, retrieved)
      free == Slots - Cardinality(spared)
      others == First(free, Keep(pool, ToSet(pool) \ Reserved(q, pool)))
  IN Keep(pool, spared \union ToSet(others))

(***************************************************************************)
(* The claims: a first pass, a relaxed one, and one for missing facets.    *)
(***************************************************************************)
\* sentences: the units of text of one record.
UnitsOf(q, r) == {q.units[i] : i \in {j \in DOMAIN q.units : q.units[j].record = r}}

\* The units of the records it looks at, best first.
Candidates(q, ranked) ==
  Keep(q.units, UNION {UnitsOf(q, r) : r \in ToSet(ranked)})

\* scoreFloor: 6, or three tenths of the best.
OverFloor(units, u) == u.score >= 6 /\ 10 * u.score >= 3 * units[1].score

\* duplicatesPicked: it carries a sentence, or a value, some picked claim carries.
Restates(picked, u) == \E i \in DOMAIN picked : picked[i].says \intersect u.says # {}

Covered(picked) == UNION {picked[i].covers : i \in DOMAIN picked}
Uncovered(q, picked) == ToSet(q.facets) \ Covered(picked)
Cited(picked) == {picked[i].record : i \in DOMAIN picked}

\* crossSourceBridgeScore > 0, a record of the question is named, or a value it asks for.
Joins(u) == u.joins

\* authorityContext: its record is linked to a record the question names.
InChain(q, u) == q.chain /\ u.linked

\* advancesQuestion.  The last disjunct is text that only reads alike.
AdvancesQuestion(q, picked, u) ==
  \/ picked = <<>>
  \/ Joins(u)
  \/ InChain(q, u)
  \/ u.covers \intersect Uncovered(q, picked) # {}
  \/ /\ q.facets = <<>> \/ Uncovered(q, picked) # {}
     /\ u.direct >= 6
     /\ \A i \in DOMAIN picked : 10 * u.direct >= 6 * picked[i].direct

\* Providers, and records, take turns while others are still to be heard.
Crowds(ranked, units, picked, u) ==
  LET providers == {ProviderOf[r] : r \in ToSet(ranked)}
      strong == {v.record : v \in {w \in ToSet(units) : OverFloor(units, w)}}
  IN \/ /\ ProviderOf[u.record] \in {ProviderOf[r] : r \in Cited(picked)}
        /\ Len(picked) < AtMost(3, Cardinality(providers))
     \/ /\ u.record \in Cited(picked)
        /\ Cardinality(Cited(picked)) < AtMost(3, Cardinality(strong))

Pick(q, ranked, units, picked, u) ==
  IF /\ Len(picked) < 4
     /\ OverFloor(units, u) /\ ~Restates(picked, u)
     /\ AdvancesQuestion(q, picked, u)
     /\ (\E i \in DOMAIN units : InChain(q, units[i])) => InChain(q, u)
     /\ ~Crowds(ranked, units, picked, u)
  THEN Append(picked, u) ELSE picked

FirstPass(q, ranked, units) ==
  FoldLeft(LAMBDA picked, u : Pick(q, ranked, units, picked, u), <<>>, units)

\* Mutant: the relaxed pass drops the duplicate check with the quotas.
RelaxAll(units, picked) ==
  IF Len(picked) >= 2 THEN picked
  ELSE FoldLeft(LAMBDA kept, u :
         IF Len(kept) < 3 /\ OverFloor(units, u) THEN Append(kept, u) ELSE kept, picked, units)

\* With fewer than two claims, the quotas go; the floor and the duplicate check stay.
PickMore(units, kept, u) ==
  IF Len(kept) < 3 /\ OverFloor(units, u) /\ ~Restates(kept, u) THEN Append(kept, u) ELSE kept

Relax(units, picked) ==
  IF Len(picked) >= 2 THEN picked
  ELSE FoldLeft(LAMBDA kept, u : PickMore(units, kept, u), picked, units)

\* Text that supports a facet, from a record the answer names or has cited.
NamedBy(picked) == UNION {picked[i].names : i \in DOMAIN picked}
Eligible(units, picked, facet) ==
  Keep(units, {u \in ToSet(units) :
    /\ facet \in u.covers /\ ~Restates(picked, u)
    /\ \/ u.record \in NamedBy(picked)
       \/ u.record \in Cited(picked) /\ u.score > 0})

Cover(units, kept, facet) ==
  LET eligible == Eligible(units, kept, facet)
      joined == Keep(eligible, {u \in ToSet(eligible) : u.record \in NamedBy(kept)})
  IN IF Len(kept) >= 5 \/ facet \in Covered(kept) \/ eligible = <<>> THEN kept
     ELSE Append(kept, IF joined # <<>> THEN joined[1] ELSE eligible[1])

CoverFacets(q, units, picked) ==
  FoldLeft(LAMBDA kept, facet : Cover(units, kept, facet), picked, q.facets)

Claims(q, ranked) ==
  LET units == Candidates(q, ranked)
  IN CoverFacets(q, units, Relax(units, FirstPass(q, ranked, units)))

(***************************************************************************)
(* contradictions: the records each one cites.                             *)
(***************************************************************************)
Asserted(r) == Dates[r] \ MovedFrom[r]

\* The records that give a date another record says was replaced.
Stale(ranked, r) == {s \in ToSet(ranked) \ {r} : Asserted(s) \intersect MovedFrom[r] # {}}
Supersession(ranked) ==
  LET moved == Keep(ranked, {r \in ToSet(ranked) :
                 MovedFrom[r] # {} /\ Asserted(r) # {} /\ Stale(ranked, r) # {}})
  IN IF moved = <<>> THEN {} ELSE {{moved[1]} \union Stale(ranked, moved[1])}

\* The records that first give each of the first three dates, when the question is
\* about a change.
DateConflict(q, ranked) ==
  LET given(n) == UNION {Asserted(ranked[i]) : i \in 1..n}
      shown == {i \in DOMAIN ranked :
                  /\ Cardinality(given(i - 1)) < 3
                  /\ Asserted(ranked[i]) \ given(i - 1) # {}}
  IN IF q.changes /\ Cardinality(given(Len(ranked))) > 1
     THEN {{ranked[i] : i \in shown}} ELSE {}

\* A ticket still open though the work is reported complete.  Where one record reports
\* both, the tracker's own record of another provider is cited too.
OpenThoughComplete(q, ranked) ==
  LET complete == Keep(ranked, Completes)
      open == Keep(ranked, {r \in StaysOpen : r \notin Completes \/ r = complete[1]})
      tracker == Keep(q.bridges, {r \in ToSet(ranked) :
                   complete[1] = open[1] /\ ProviderOf[r] # ProviderOf[complete[1]]})
  IN IF complete = <<>> \/ open = <<>> THEN {}
     ELSE {{complete[1], open[1]} \union ToSet(First(1, tracker))}

Contradictions(q, ranked) ==
  (IF Supersession(ranked) # {} THEN Supersession(ranked) ELSE DateConflict(q, ranked))
    \union OpenThoughComplete(q, ranked)

(***************************************************************************)
(* The answer.                                                             *)
(***************************************************************************)
Missing(q, claims) == IF claims = <<>> THEN {"claim"} ELSE Uncovered(q, claims) \ q.waived
Status(q, claims) ==
  IF claims = <<>> THEN "abstained"
  ELSE IF Missing(q, claims) # {} THEN "partial" ELSE "grounded"

Synthesise(q, retrieved, spared) ==
  LET ranked == RankEvidence(q, retrieved, spared)
      claims == Claims(q, ranked)
  IN [considered |-> ToSet(ranked),
      claims |-> claims,
      contradictions |-> Contradictions(q, ranked),
      missing |-> Missing(q, claims),
      status |-> Status(q, claims)]
=============================================================================
