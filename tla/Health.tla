------------------------------- MODULE Health -------------------------------
(***************************************************************************)
(* The status sources and their aggregate (health.go), as operators.  What *)
(* a source answered is abstracted to what the checks tell apart.          *)
(***************************************************************************)
EXTENDS Naturals

CONSTANTS
    Sources,        \* configured sources: [kind, legacy, provider]
    Policy,         \* healthCheckOptions.Policy: "any" or "all"
    UnknownPolicy,  \* healthCheckOptions.UnknownPolicy: "canary" or "block"
    NoModel, AnyProvider

HealthAssumption ==
    /\ Policy \in {"any", "all"}
    /\ UnknownPolicy \in {"canary", "block"}

States == {"healthy", "unhealthy", "unknown"}

\* The answer of a plain URL.
HttpReports == {"2xx", "other", "unreachable"}

\* The answer of a dashboard: was a well-formed document fetched, how many of
\* its entries name the model, is the sample fresh, what does it say.
TypedReports ==
    [fetched : BOOLEAN, matches : 0..2, fresh : BOOLEAN,
     status : {"up", "down", "other", "missing"}]

Reports(source) == IF source.kind = "http" THEN HttpReports ELSE TypedReports

\* An unreachable URL counts as unhealthy only in the legacy --health-url.
HttpState(source, report) ==
    CASE report = "2xx" -> "healthy"
      [] report = "unreachable" /\ ~source.legacy -> "unknown"
      [] OTHER -> "unhealthy"

\* uptimeKumaHealthSource.check and inputIMHealthSource.check: every doubt about
\* the document leaves the state unknown.
TypedState(model, report) ==
    IF /\ model # NoModel /\ report.fetched /\ report.matches = 1
       /\ report.fresh /\ report.status \in {"up", "down"}
    THEN IF report.status = "up" THEN "healthy" ELSE "unhealthy"
    ELSE "unknown"

SourceState(source, model, report) ==
    IF source.kind = "http" THEN HttpState(source, report) ELSE TypedState(model, report)

\* A source that names a provider is asked for that provider only.
Selected(provider) == {s \in Sources : s.provider \in {AnyProvider, provider}}

\* healthChecker.check: the aggregate of the selected sources' states.
GateState(observed) ==
    LET all(state) == \A s \in DOMAIN observed : observed[s] = state
        some(state) == \E s \in DOMAIN observed : observed[s] = state
    IN  IF DOMAIN observed = {} THEN "unknown"
        ELSE CASE Policy = "any" /\ some("healthy") -> "healthy"
               [] Policy = "any" /\ all("unhealthy") -> "unhealthy"
               [] Policy = "all" /\ some("unhealthy") -> "unhealthy"
               [] Policy = "all" /\ all("healthy") -> "healthy"
               [] OTHER -> "unknown"

\* What one round of checks for a target may come to.
GateStates(target) ==
    LET possible(s) == {SourceState(s, target.model, r) : r \in Reports(s)}
    IN  {GateState(f) : f \in {f \in [Selected(target.provider) -> States] :
                                \A s \in DOMAIN f : f[s] \in possible(s)}}
=============================================================================
