-------------------------- MODULE TraceProjection --------------------------
(***************************************************************************)
(* What the trace reader concludes from a record's events (src/interop/      *)
(* mintid-trace-records-v2/mintid_trace/reader.py: inspect_events, derive    *)
(* and paths).  The rows are taken in the order of the file; decisions and   *)
(* the lines of the verifier's log are collected by session, the log is      *)
(* bound to the decisions, the observations a record makes once are looked   *)
(* up, and then each result of the summary is bound to recorded decisions    *)
(* and given the ring and the refresh observation of its subject.            *)
(*                                                                          *)
(* Of a time, a bound or a policy digest the model keeps whether it passes   *)
(* its check; fields that are only copied are left out.                      *)
(***************************************************************************)
EXTENDS Naturals, Sequences, SequencesExt, FiniteSets

CONSTANTS
    Files,       \* the sequences of rows a file may hold
    Results,     \* what an entry of the summary's results may be
    Sessions, Agents,
    MaxResults,  \* bound: results of a summary
    Nobody,      \* an agent, a decision or a line that is not there
    Control, Refreshed,   \* the agents "sibling_control" and "sibling_refreshed"
    BadRoot      \* a root whose fields do not have their types

VARIABLES
    pc,
    events, row,  \* the file and its next row
    decisions,    \* [Sessions -> the event | Nobody]
    logs,         \* [Sessions -> the line | Nobody]
    services,     \* deployment.services: [name -> what is known of it | Nobody]
    seen,         \* the paths that have a result
    out,          \* the rows of the projection
    refusal

vars == <<pc, events, row, decisions, logs, services, seen, out, refusal>>

Services == {"verifier", "issuer"}

(* What the properties need of the data: a file is a sequence of objects, a    *)
(* session identifies a decision and a line of the log, and a ring at the      *)
(* denial is part of the decision that denied.                                *)
FilesFit ==
    \A file \in Files :
      /\ file \in Seq(ToSet(file))
      /\ \A e \in ToSet(file) :
           /\ e # Nobody
           /\ e.kind \in {"decision", "decision_log_line"} => e.session \in Sessions \cup {Nobody}
           /\ e.kind = "decision_log_line" => e.line # Nobody

ItemFits(item) ==
    /\ item = [key |-> item.key, last |-> item.last, no |-> item.no, ring |-> item.ring,
               failed |-> item.failed]
    /\ \A named \in {item.last, item.no} \ {Nobody} : named.session \in Sessions
    /\ item.no = Nobody => item.ring = <<>>

ResultsFit ==
    \A result \in Results :
      ~result.skipped /\ result.path # "unreachable" =>
        IF result.path = "cascade"
        THEN /\ IsFiniteSet(DOMAIN result.per_agent)
             /\ \A agent \in DOMAIN result.per_agent : ItemFits(result.per_agent[agent])
        ELSE ItemFits(result.item)

Init ==
    /\ pc = "events"
    /\ events \in Files /\ row = 1
    /\ decisions = [s \in Sessions |-> Nobody]
    /\ logs = [s \in Sessions |-> Nobody]
    /\ services = [name \in Services |-> Nobody]
    /\ seen = {} /\ out = <<>>
    /\ refusal = "none"

Refuse(class) ==
    /\ pc' = "refused"
    /\ refusal' = class
    /\ UNCHANGED <<events, row, decisions, logs, services, seen, out>>

(* The first refusal of a list of checks, in the order they are made. *)
Check(condition, class) == IF condition THEN "none" ELSE class
FirstOf(checks) ==
    LET failed == {i \in DOMAIN checks : checks[i] # "none"}
    IN  IF failed = {} THEN "none" ELSE checks[Min(failed)]

----------------------------------------------------------------------------
(* inspect_events: one row.                                                 *)

CheckDecision(e) ==
    FirstOf(<<Check(decisions[e.session] = Nobody, "AmbiguousDecision"),
              Check(e.shaped, "DecisionShape")>>)

CheckLogAtOnce(e) ==
    FirstOf(<<Check(logs[e.session] = Nobody, "AmbiguousDecisionLog"),
              Check(e.line.session = e.session /\ e.line.shaped, "DecisionLogShape"),
              Check(decisions[e.session] # Nobody, "UnboundDecisionLog")>>)
CheckLog(e) ==
    FirstOf(<<Check(logs[e.session] = Nobody, "AmbiguousDecisionLog"),
              Check(e.line.session = e.session /\ e.line.shaped, "DecisionLogShape")>>)

Decision(e) ==
    /\ e.kind = "decision"
    /\ IF CheckDecision(e) # "none" THEN Refuse(CheckDecision(e))
       ELSE /\ decisions' = [decisions EXCEPT ![e.session] = e]
            /\ row' = row + 1
            /\ UNCHANGED <<pc, events, logs, services, seen, out, refusal>>

DecisionLogLine(e) ==
    /\ e.kind = "decision_log_line"
    /\ IF CheckLog(e) # "none" THEN Refuse(CheckLog(e))
       ELSE /\ logs' = [logs EXCEPT ![e.session] = e.line]
            /\ row' = row + 1
            /\ UNCHANGED <<pc, events, decisions, services, seen, out, refusal>>

Other(e) ==
    /\ e.kind \notin {"decision", "decision_log_line"}
    /\ row' = row + 1
    /\ UNCHANGED <<pc, events, decisions, logs, services, seen, out, refusal>>

Unidentified(e) ==
    e.kind \in {"decision", "decision_log_line"} /\ e.session = Nobody

Inspect ==
    /\ pc = "events"
    /\ row <= Len(events)
    /\ IF Unidentified(events[row]) THEN Refuse("EventShape")
       ELSE Decision(events[row]) \/ DecisionLogLine(events[row]) \/ Other(events[row])

(* Every line of the log belongs to a decision and says the same of it. *)
Bound(s) ==
    logs[s] = Nobody \/ (/\ decisions[s] # Nobody
                         /\ logs[s].accepted = decisions[s].accepted
                         /\ logs[s].reason = decisions[s].reason)

BindLogs ==
    /\ pc = "events"
    /\ row > Len(events)
    /\ IF \A s \in Sessions : Bound(s)
       THEN pc' = "derive" /\ UNCHANGED <<events, row, decisions, logs, services, seen, out, refusal>>
       ELSE \E s \in Sessions :
              /\ ~Bound(s)
              /\ Refuse(IF decisions[s] = Nobody THEN "UnboundDecisionLog" ELSE "DecisionLogMismatch")

----------------------------------------------------------------------------
(* one: the only event of its kind, if there is one. *)

Matching(match(_)) == {i \in DOMAIN events : match(events[i])}
First(rows) == IF rows = {} THEN Nobody ELSE events[Min(rows)]
CheckOne(match(_)) == Check(Cardinality(Matching(match)) <= 1, "AmbiguousEvent")
One(match(_)) == First(Matching(match))

CheckOneOf(kind) == CheckOne(LAMBDA e : e.kind = kind)
OneOf(kind) == One(LAMBDA e : e.kind = kind)
CheckStatus(moment) == CheckOne(LAMBDA e : e.kind = "verifier_status" /\ e.when = moment)

(* delta, utc, root: the shapes of what is consumed. *)
Delta(at, origin) ==
    Check("none" \in {at, origin} \/ {at, origin} = {"number"}, "InvalidTime")
Utc(value) == Check(value # "wrong", "TimestampShape")
CheckRoot(root) == Check(root # BadRoot, "RootShape")

----------------------------------------------------------------------------
(* derive: what a record says of the services it observed.  A revision the   *)
(* build endpoint served counts; without one the operator's statement does,  *)
(* as a statement.                                                           *)
Stated == IF OneOf("source") = Nobody THEN Nobody ELSE OneOf("source").stated

Service(name) ==
    LET served == OneOf("build")[name]
    IN  IF served.revision # Nobody
        THEN [revision |-> served.revision, release |-> served.release, basis |-> "build-info"]
        ELSE [revision |-> Stated, release |-> Nobody,
              basis |-> IF Stated # Nobody THEN "stated" ELSE Nobody]

CheckObservations(stated) ==
    FirstOf(<<CheckOneOf("stack"), CheckOneOf("source"), CheckOneOf("build"),
              CheckOneOf("policy"), CheckStatus("before"), CheckStatus("after"),
              CheckOneOf("parameters"), CheckOneOf("summary"),
              Check(OneOf("summary") # Nobody, "MissingSummary"),
              Check(stated, "StatedShape"),
              Check(OneOf("policy") = Nobody \/ OneOf("policy").hashes, "PolicyHashMismatch"),
              Utc(Head(events).utc), CheckOneOf("decision_log")>>)

(* stated: whether the manifest's operator statements have their shape. *)
Derive ==
    /\ pc = "derive"
    /\ \E stated \in BOOLEAN :
         IF CheckObservations(stated) # "none" THEN Refuse(CheckObservations(stated))
         ELSE /\ services' = [name \in Services |->
                                IF OneOf("build") = Nobody \/ OneOf("build").issuer = Nobody
                                THEN Nobody ELSE Service(name)]
              /\ pc' = "results"
              /\ UNCHANGED <<events, row, decisions, logs, seen, out, refusal>>

----------------------------------------------------------------------------
(* decision: a decision the summary names, for the given path, clock, agents  *)
(* and outcomes.                                                            *)

Anyone == Agents
AnyOutcome == {TRUE, FALSE}

Decide(named, path, clock, agents, outcomes) ==
    IF named = Nobody THEN "none"
    ELSE LET recorded == decisions[named.session]
         IN  IF recorded = Nobody THEN "UnboundSummaryDecision"
             ELSE FirstOf(<<Check(named = recorded, "SummaryDecisionMismatch"),
                            Check(recorded.path = path, "DecisionPathMismatch"),
                            Check(recorded.agent \in agents, "DecisionAgentMismatch"),
                            Check(recorded.accepted \in outcomes, "DecisionOutcomeMismatch"),
                            Delta(named.unix, clock)>>)

(* refresh: what the holder's refreshes on this path showed.                  *)
Refusals == {"credential_revoked", "witness_not_usable"}

RefreshesOfAny(path, agent) ==
    Matching(LAMBDA e : e.kind = "holder_refresh" /\ e.path = path /\ agent \in {e.agent, Nobody})
RefreshesOf(path, agent) ==
    Matching(LAMBDA e : /\ e.kind = "holder_refresh" /\ e.path = path
                        /\ agent # Nobody /\ e.agent = agent)

(* The refresh that is reported: a refusal before anything else.              *)
RefreshHit(path, agent, control) ==
    LET refused == {i \in RefreshesOf(path, agent) : events[i].outcome \in Refusals}
        usual   == IF control THEN "refreshed" ELSE "not_refused_within_budget"
        other   == {i \in RefreshesOf(path, agent) : events[i].outcome = usual}
    IN  IF refused # {} THEN First(refused) ELSE First(other)

Refresh(path, agent, control) ==
    LET hit == RefreshHit(path, agent, control)
    IN  IF hit = Nobody THEN "not_recorded"
        ELSE IF hit.outcome \in Refusals THEN "refused" ELSE hit.outcome

CheckRefresh(path, agent, clock, control) ==
    LET hit == RefreshHit(path, agent, control)
    IN  IF hit = Nobody THEN "none" ELSE FirstOf(<<Utc(hit.utc), Delta(hit.unix, clock)>>)

----------------------------------------------------------------------------
(* paths: one result of the summary.  A cascade result has an item for each   *)
(* of its agents, any other has one item for whoever it selects.              *)

Items(result) ==
    IF result.path = "cascade"
    THEN LET keys == SetToSeq(DOMAIN result.per_agent)
         IN  [i \in 1..Len(keys) |-> [result.per_agent[keys[i]] EXCEPT !.key = keys[i]]]
    ELSE <<result.item>>

Selected(item) == IF item.no # Nobody THEN item.no ELSE item.last

Label(item) ==
    IF item.key # Nobody THEN item.key
    ELSE IF Selected(item) = Nobody THEN Nobody
    ELSE decisions[Selected(item).session].agent

CheckItemAlone(result, item) ==
    LET agents == IF item.key = Nobody THEN Anyone ELSE {item.key}
    IN  FirstOf(<<Check(item.key = Nobody \/ Selected(item) # Nobody, "AgentBindingUnavailable"),
                  Decide(item.last, result.path, result.t0, agents, {TRUE}),
                  Decide(item.no, result.path, result.t0, agents, {FALSE})>>)

CheckHistory(result, item) ==
    IF CheckItemAlone(result, item) # "none" \/ item.last = Nobody
    THEN CheckItemAlone(result, item)
    ELSE Check(decisions[item.last.session].agent = Label(item), "DecisionAgentMismatch")

(* The ring at the denial is the one event recorded for that path and agent.  *)
RingsAt(path, agent) ==
    Matching(LAMBDA e : e.kind = "ring_at_denial" /\ e.path = path /\ e.agent = agent)

CheckRing(result, item) ==
    IF item.ring = <<>> THEN "none"
    ELSE LET rings == RingsAt(result.path, item.no.agent)
         IN  FirstOf(<<Check(Cardinality(rings) <= 1, "AmbiguousEvent"),
                       Check(First(rings) # Nobody /\ First(rings).ring = item.ring,
                             "RingBindingMismatch"),
                       CheckRoot(Last(item.ring))>>)

CheckItem(result, item) ==
    IF CheckHistory(result, item) # "none" THEN CheckHistory(result, item)
    ELSE FirstOf(<<CheckRing(result, item), CheckRoot(result.carrying),
                   IF Label(item) = Nobody THEN "none" ELSE Delta(item.failed, result.t0),
                   CheckRefresh(result.path, Label(item), result.t0, FALSE)>>)

(* The issuer path also has decisions of holders that were never revoked. *)
CheckSiblings(result) ==
    IF result.path # "issuer" \/ result.control = Nobody THEN "none"
    ELSE FirstOf([i \in DOMAIN result.control |->
                    Decide(result.control[i], "issuer", result.t0, {Control}, AnyOutcome)]
                 \o <<Check(Nobody \notin ToSet(result.control), "DecisionShape"),
                      Decide(result.refreshed, "issuer", result.t0, {Refreshed}, {TRUE}),
                      CheckRefresh("issuer", Control, result.t0, TRUE)>>)

Row(result, item) ==
    [path |-> result.path, key |-> item.key, last |-> item.last, no |-> item.no,
     agent |-> Label(item), refresh |-> Refresh(result.path, Label(item), FALSE),
     root |-> IF item.ring = <<>> THEN Nobody ELSE Last(item.ring),
     control |-> IF result.path = "issuer" /\ result.control # Nobody
                 THEN Refresh("issuer", Control, TRUE) ELSE "none"]

CheckPathShape(result) ==
    Check(result.bound /\ (result.path = "cascade" => DOMAIN result.per_agent # {}), "PathShape")
CheckUnseen(result) == Check(result.path \notin seen, "PathShape")

Project(result, check, rows) ==
    IF check # "none" THEN Refuse(check)
    ELSE /\ seen' = seen \cup {result.path}
         /\ out' = out \o rows
         /\ UNCHANGED <<pc, events, row, decisions, logs, services, refusal>>

Skipped(result) ==
    /\ result.skipped
    /\ Project(result, CheckUnseen(result), <<>>)

Revocation(result) ==
    /\ ~result.skipped
    /\ result.path # "unreachable"
    /\ Project(result,
               FirstOf(<<CheckUnseen(result), CheckPathShape(result)>>
                       \o [i \in DOMAIN Items(result) |-> CheckItem(result, Items(result)[i])]
                       \o <<CheckSiblings(result)>>),
               [i \in DOMAIN Items(result) |-> Row(result, Items(result)[i])])

(* What was observed while the issuer could not be reached: each challenge is *)
(* bound before any decision is.                                             *)
CheckChallenge(observed) ==
    FirstOf(<<Check(observed \in ToSet(events), "UnboundOutageChallenge"),
              Check(observed.path = "unreachable", "OutagePathMismatch")>>)

CheckOutage(result) ==
    LET decided    == SelectSeq(result.during, LAMBDA e : e.kind = "decision")
        challenged == SelectSeq(result.during, LAMBDA e : e.kind = "challenge_during_outage")
    IN  FirstOf([i \in DOMAIN challenged |-> CheckChallenge(challenged[i])]
                \o <<Delta(result.restored, result.t0)>>
                \o [i \in DOMAIN decided |->
                      Decide(decided[i], "unreachable", result.t0, Anyone, AnyOutcome)]
                \o [i \in DOMAIN challenged |->
                      FirstOf(<<Utc(challenged[i].utc), Delta(challenged[i].unix, result.t0)>>)]
                \o <<Decide(result.after, "unreachable", result.restored, Anyone, {TRUE})>>)

Outage(result) ==
    /\ ~result.skipped
    /\ result.path = "unreachable"
    /\ Project(result, FirstOf(<<CheckUnseen(result), CheckOutage(result)>>), <<>>)

Result ==
    /\ pc = "results"
    /\ Cardinality(seen) < MaxResults
    /\ \E result \in Results : Skipped(result) \/ Revocation(result) \/ Outage(result)

Derived ==
    /\ pc = "results"
    /\ pc' = "derived"
    /\ UNCHANGED <<events, row, decisions, logs, services, seen, out, refusal>>

Next == Inspect \/ BindLogs \/ Derive \/ Result \/ Derived

Spec == Init /\ [][Next]_vars

----------------------------------------------------------------------------
At(kind, s) == {i \in DOMAIN events : events[i].kind = kind /\ events[i].session = s}

(* A file is sound whatever the order of its rows: a session has one decision   *)
(* and one log line at most, and a log line says what the decision says.        *)
Sound ==
  /\ \A i \in DOMAIN events : ~Unidentified(events[i])
  /\ \A s \in Sessions :
      /\ Cardinality(At("decision", s)) <= 1
      /\ Cardinality(At("decision_log_line", s)) <= 1
      /\ \A i \in At("decision", s) : events[i].shaped
      /\ \A i \in At("decision_log_line", s) :
           /\ events[i].line.session = s /\ events[i].line.shaped
           /\ \E j \in At("decision", s) :
                /\ events[i].line.accepted = events[j].accepted
                /\ events[i].line.reason = events[j].reason

(* inspect_events accepts exactly the sound files: a log line may come before   *)
(* its decision, and nothing is let through by an order that hides it.          *)
InspectionDecides ==
    /\ pc \in {"derive", "results", "derived"} => Sound
    /\ pc = "refused" /\ (row <= Len(events) \/ \E s \in Sessions : ~Bound(s)) => ~Sound

(* A row of the projection is the history of one holder on one path: what it    *)
(* selects was recorded, on that path, with the outcome its slot is named for,  *)
(* and both selections are of the same holder, the one the row (and a cascade's *)
(* key) names (PROFILE.md, "Both selected revoked decisions must share one      *)
(* actual agent"); and the root at its denial closes the only ring recorded for   *)
(* that holder on that path.                                                    *)
RowIsOneHistory ==
    \A r \in ToSet(out) :
      /\ \A selected \in {r.last, r.no} \ {Nobody} :
           /\ selected \in ToSet(events)
           /\ selected.path = r.path /\ selected.agent = r.agent
      /\ r.last # Nobody => r.last.accepted
      /\ r.no # Nobody => ~r.no.accepted
      /\ r.key \in {Nobody, r.agent}
      /\ r.root # Nobody =>
           /\ r.no # Nobody
           /\ \E i \in DOMAIN events :
                /\ {j \in DOMAIN events : /\ events[j].kind = "ring_at_denial"
                                         /\ events[j].path = r.path
                                         /\ events[j].agent = r.agent} = {i}
                /\ r.root = Last(events[i].ring)

(* Without a selected decision the holder is unknown, and then so is the        *)
(* refresh: no recorded refresh, of a named holder or of none, is taken for an  *)
(* observation of it.  With one, an observed refusal is that holder's own       *)
(* (PROFILE.md, "An anonymous holder or another named holder cannot identify    *)
(* that missing subject").                                                     *)
RefreshIsOfTheSubject ==
    \A r \in ToSet(out) :
      /\ {r.last, r.no} = {Nobody} => r.agent = Nobody /\ r.refresh = "not_recorded"
      /\ r.refresh # "not_recorded" =>
           \E e \in ToSet(events), d \in {r.last, r.no} \ {Nobody} :
             e.kind = "holder_refresh" /\ e.agent = d.agent /\ e.path = d.path
============================================================================
