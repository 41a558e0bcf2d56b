-------------------------- MODULE MCResearchService --------------------------
(* Small instances of ResearchService for TLC.                              *)
EXTENDS ResearchService

CONSTANTS a, b

MCUniverse    == <<a, b>>
MCImport      == <<a>>
NoRequests    == {}
OneSymbol     == <<a>>
AnyRequest    == {[kind |-> "import", list |-> <<>>], [kind |-> "update", list |-> <<>>]}
NoInheritance == {}

\* Records the previous release could leave: it processed the first k symbols,
\* refreshed ok of them, kept the errors it had room for and no retry list,
\* and ended, was stopped by its breaker, or was running when it died, perhaps
\* after it had refreshed one more symbol than it had saved.
LegacyRecord(k, ok, late, total, end) ==
    LET bad == ToSet(SubSeq(Universe, 1, k)) \ ok
    IN [job |-> [NoJob EXCEPT
                   !.date = 0, !.processed = k, !.rows = Cardinality(ok),
                   !.failures = Cardinality(bad), !.total = total,
                   !.errors = IF Cardinality(bad) <= ErrorCap THEN bad
                              ELSE CHOOSE E \in SUBSET bad : Cardinality(E) = ErrorCap,
                   !.error = IF end = "running" THEN "none" ELSE end,
                   !.state = IF end = "running" THEN "running"
                             ELSE IF end = "none" THEN "succeeded"
                             ELSE IF ok = {} THEN "failed" ELSE "partial"],
        done |-> ok \cup late]

OldRelease ==
    {LegacyRecord(k, ok, late, total, end) :
        <<k, ok, late, total, end>> \in
          {<<k, ok, late, total, end>> \in
             (0 .. Len(Universe)) \X (SUBSET Symbols) \X (SUBSET Symbols)
               \X {0, Len(Universe)} \X {"none", "some_failed", "stopped", "running"} :
             /\ ok \subseteq ToSet(SubSeq(Universe, 1, k))
             /\ late \subseteq {Universe[n] : n \in {k + 1} \cap DOMAIN Universe}
             /\ end # "running" => k > 0 /\ late = {}
             /\ end = "none" => ok = Symbols
             /\ end = "some_failed" => k = Len(Universe) /\ ok # Symbols
             /\ end = "stopped" => k < Len(Universe) /\ ok = {}}}
=============================================================================
