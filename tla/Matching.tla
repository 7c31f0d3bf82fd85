------------------------------ MODULE Matching -------------------------------
(***************************************************************************)
(* Which assignment of a feature an environment gets: the ones whose target*)
(* labels the environment carries, of these the one with most labels, of   *)
(* these the one created last.  The source has this rule several times, in *)
(* SQL for the pages and in Go for the reconcile loop and other pages; the *)
(* copies are kept apart here so that they can be compared.                *)
(***************************************************************************)
EXTENDS Store

\* envLabels[k] of a Go map: the zero value "" when k is absent.
LabelAt(labels, k) == IF k \in DOMAIN labels THEN labels[k] ELSE EmptyValue

\* labelsContain of the reconciler.
labelsContain(labels, target) ==
    \A k \in DOMAIN target : LabelAt(labels, k) = target[k]

\* Mutant: the labels have to be equal (labels = target).
jsonbContainsMutant(labels, target) == labels = target
\* The jsonb operator labels @> target.
jsonbContains(labels, target) ==
    \A k \in DOMAIN target : k \in DOMAIN labels /\ labels[k] = target[k]

IsMoreSpecific(candidate, existing) ==
    \/ Cardinality(DOMAIN candidate.target) > Cardinality(DOMAIN existing.target)
    \/ /\ Cardinality(DOMAIN candidate.target) = Cardinality(DOMAIN existing.target)
       /\ candidate.created > existing.created

\* What the reconcile loop matches environments with.
ListLatestFeatureAssignments ==
    {[id |-> d.id, feature |-> d.feature, version |-> d.version, target |-> d.target,
      created |-> d.created, chart |-> ChartOf(d)] :
        d \in DistinctOnTarget(ActiveAssignments)}
matchAssignments(rows, labels) == {d \in rows : labelsContain(labels, d.target)}

\* The loops of both mostSpecificPerFeature: what no candidate replaces in the
\* end.  Two assignments are never created at the same time, so that is one per
\* feature.
mostSpecificPerFeature(rows) ==
    {d \in rows : \A candidate \in rows :
        candidate.feature = d.feature => ~IsMoreSpecific(candidate, d)}
\* The same loop over assignments of one feature.
winnerOf(rows) == One(mostSpecificPerFeature(rows))

-----------------------------------------------------------------------------
(* The SQL side, internal/featureassignment *)

ListFeatureAssignmentsForEnvironment(e) ==
    DistinctOnTarget({d \in ActiveAssignments :
        jsonbContains(environments[e].labels, d.target)})

ListFeatureAssignmentsForFeatureInEnvironment(e, f) ==
    DistinctOnTarget({d \in ActiveAssignments :
        d.feature = f /\ jsonbContains(environments[e].labels, d.target)})

\* ListForEnvironment: the winners of an environment.
ListForEnvironment(e) ==
    mostSpecificPerFeature(ListFeatureAssignmentsForEnvironment(e))

\* mostSpecificAssignment, behind WinningAssignment and FeatureForEnvironment.
mostSpecificAssignment(e, f) ==
    winnerOf(ListFeatureAssignmentsForFeatureInEnvironment(e, f))
WinningAssignment(e, f) == mostSpecificAssignment(e, f)
FeatureForEnvironment(e, f) ==
    LET d == mostSpecificAssignment(e, f)
    IN  IF d = NoRow THEN NoRow ELSE ChartOf(d)
=============================================================================
