------------------------------- MODULE Trace -------------------------------
(***************************************************************************)
(* The two halves of the trace reader: the reading of a record (TraceReader) *)
(* and what is concluded from its events (TraceProjection).  They share no   *)
(* state, and a behaviour is of one of them: TraceReader has the outcome of  *)
(* the projection as one condition.                                          *)
(***************************************************************************)
EXTENDS TraceReader

CONSTANTS Files, Results, Sessions, Agents, MaxResults, Nobody, Control, Refreshed, BadRoot

VARIABLES at, events, position, decisions, logs, services, seen, out, refused

Projection == INSTANCE TraceProjection WITH pc <- at, row <- position, refusal <- refused

ASSUME FilesAssumption == Projection!FilesFit
ASSUME ResultsAssumption == Projection!ResultsFit

projectionVars == <<at, events, position, decisions, logs, services, seen, out, refused>>

NoRecord ==
    /\ done = 0 /\ used = Fresh /\ status = "open"
    /\ files = Nowhere /\ replaced = 0
    /\ pc = "none" /\ member = 1 /\ stream = NotRead
    /\ raw = Nowhere /\ captured = Nowhere /\ remaining = 0
    /\ row = 1 /\ admitted = <<>> /\ refusal = "none"
NoProjection ==
    /\ at = "none" /\ events = <<>> /\ position = 1 /\ decisions = Nobody /\ logs = Nobody
    /\ services = Nobody /\ seen = {} /\ out = <<>> /\ refused = "none"

AnyInit == \/ Init /\ NoProjection
           \/ Projection!Init /\ NoRecord

AnyNext == \/ pc # "none" /\ Next /\ UNCHANGED projectionVars
           \/ at # "none" /\ Projection!Next /\ UNCHANGED vars

AnySpec == AnyInit /\ [][AnyNext]_<<vars, projectionVars>>

----------------------------------------------------------------------------
(* inspect_events accepts exactly the sound files, whatever the order of their *)
(* rows.                                                                      *)
InspectionDecides == Projection!InspectionDecides

(* A row of the projection is the history of one holder on one path.           *)
RowIsOneHistory == Projection!RowIsOneHistory

(* A refresh is reported of a known holder only, and is that holder's own.      *)
RefreshIsOfTheSubject == Projection!RefreshIsOfTheSubject
============================================================================
