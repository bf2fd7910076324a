------------------------- MODULE MCTraceProjection -------------------------
(***************************************************************************)
(* Rows and results for checking TraceProjection: two sessions, two holders *)
(* of which one doubles as the control, refreshes with and without a        *)
(* holder, rings of the same and of another holder, and the observations a  *)
(* record makes once.                                                       *)
(***************************************************************************)
EXTENDS TraceProjection

CONSTANTS a1, a2, s1, s2, r1, r2    \* r1, r2: roots, and revisions of services

At0(record) == record @@ [session |-> Nobody, utc |-> "string", unix |-> "number"]

D(session, agent, path, accepted) ==
    [kind |-> "decision", agent |-> agent, path |-> path, accepted |-> accepted,
     reason |-> "r", shaped |-> TRUE, session |-> session, utc |-> "string", unix |-> "number"]

Line(session, says, accepted) ==
    [kind |-> "decision_log_line", session |-> session, utc |-> "string", unix |-> "number",
     line |-> [session |-> says, accepted |-> accepted, reason |-> "r", shaped |-> TRUE]]

Holder(agent, outcome) ==
    At0([kind |-> "holder_refresh", path |-> "issuer", agent |-> agent, outcome |-> outcome])
Challenge(path) == At0([kind |-> "challenge_during_outage", path |-> path])
Ring(agent, ring) ==
    At0([kind |-> "ring_at_denial", path |-> "issuer", agent |-> agent, ring |-> ring])
Summary == At0([kind |-> "summary"])

MCEvents ==
    {D(s1, a1, "issuer", TRUE), D(s1, a1, "cascade", TRUE), D(s2, a1, "issuer", FALSE),
     D(s2, a2, "issuer", FALSE), D(s2, a1, "cascade", FALSE), D(s2, a2, "unreachable", TRUE),
     [D(s1, a2, "issuer", TRUE) EXCEPT !.shaped = FALSE],
     [D(s2, a1, "issuer", FALSE) EXCEPT !.unix = "wrong"],
     [D(s2, a1, "issuer", FALSE) EXCEPT !.session = Nobody],
     Line(s1, s1, TRUE), Line(s2, s1, TRUE), Line(s2, s2, FALSE),
     Holder(a1, "credential_revoked"), Holder(a1, "not_refused_within_budget"),
     Holder(a2, "credential_revoked"), Holder(a2, "refreshed"),
     [Holder(a1, "credential_revoked") EXCEPT !.utc = "wrong"],
     Holder(Nobody, "witness_not_usable"), Challenge("unreachable"), Challenge("issuer"),
     Ring(a1, <<r1, r2>>), Ring(a2, <<r1>>), Ring(a1, <<BadRoot>>)}

Served(revision) == [revision |-> revision, release |-> r2]
Once ==
    {At0([kind |-> "source", stated |-> stated]) : stated \in {Nobody, r2}}
    \cup {At0([kind |-> "build", issuer |-> Served(revision), verifier |-> Served(Nobody)])
            : revision \in {Nobody, r1}}
    \cup {At0([kind |-> "build", issuer |-> Nobody, verifier |-> Served(r1)])}
    \cup {At0([kind |-> "policy", hashes |-> hashes]) : hashes \in BOOLEAN}
    \cup {At0([kind |-> "verifier_status", when |-> when]) : when \in {"before", "after"}}
    \cup {At0([kind |-> kind]) : kind \in {"stack", "parameters", "decision_log"}}
    \cup {[Summary EXCEPT !.utc = "wrong"], D(s1, a1, "issuer", TRUE)}

(* Bound: files of up to three rows before the summary. *)
MCFiles ==
    {Append(f, Summary) : f \in UNION {[1..n -> MCEvents] : n \in 0..3}
                                \cup UNION {[1..n -> Once] : n \in 0..3}}
    \cup [1..1 -> MCEvents]

Named == {D(s1, a1, "issuer", TRUE), D(s1, a1, "cascade", TRUE), D(s2, a1, "cascade", FALSE),
          D(s2, a1, "issuer", FALSE), D(s2, a2, "issuer", FALSE), Nobody}

Item(last, no) == [key |-> Nobody, last |-> last, no |-> no, ring |-> <<>>, failed |-> "none"]

Issuer(item, control, refreshed) ==
    [path |-> "issuer", skipped |-> FALSE, t0 |-> "number", bound |-> TRUE, carrying |-> r1,
     item |-> item, control |-> control, refreshed |-> refreshed]

Cascade(per_agent) ==
    [path |-> "cascade", skipped |-> FALSE, t0 |-> "none", bound |-> TRUE, carrying |-> Nobody,
     per_agent |-> per_agent]

Unreachable(during, after) ==
    [path |-> "unreachable", skipped |-> FALSE, t0 |-> "number", restored |-> "number",
     during |-> during, after |-> after]

Revoked == Issuer(Item(D(s1, a1, "issuer", TRUE), D(s2, a1, "issuer", FALSE)), Nobody, Nobody)

MCResults ==
    {Issuer(Item(last, no), Nobody, Nobody) : last \in Named, no \in Named}
    \cup {Issuer(Item(Nobody, Nobody), control, refreshed) :
            control \in {<<D(s2, a2, "issuer", FALSE)>>, <<Nobody>>, <<>>},
            refreshed \in {Nobody, D(s1, a1, "issuer", TRUE)}}
    \cup {Issuer([Item(Nobody, D(s2, agent, "issuer", FALSE)) EXCEPT !.ring = ring], Nobody, Nobody) :
            agent \in {a1, a2}, ring \in {<<r1, r2>>, <<r1>>, <<BadRoot>>}}
    \cup {[Revoked EXCEPT !.t0 = "wrong"], [Revoked EXCEPT !.bound = FALSE],
          [Revoked EXCEPT !.carrying = BadRoot], [Revoked EXCEPT !.item.failed = "wrong"],
          Issuer(Item(Nobody, [D(s2, a1, "issuer", FALSE) EXCEPT !.unix = "wrong"]), Nobody, Nobody)}
    \cup {Cascade(<<>>)}
    \cup {Cascade([a \in {agent} |-> Item(last, no)]) :
            agent \in {a1, a2}, last \in Named, no \in Named}
    \cup {Unreachable(during, after) :
            during \in {<<>>, <<Challenge("unreachable")>>, <<Challenge("issuer")>>,
                        <<D(s2, a2, "unreachable", TRUE)>>},
            after \in {Nobody, D(s2, a2, "unreachable", TRUE)}}
    \cup {[Unreachable(<<>>, Nobody) EXCEPT !.restored = "wrong"]}
    \cup {[path |-> "issuer", skipped |-> TRUE]}
============================================================================
