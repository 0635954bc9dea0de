----------------------------- MODULE GatedIngress -----------------------------
(***************************************************************************)
(* The gate and the client together, as integration.py:467-471 uses them:  *)
(* before some payload lines the occupancy is asked for, and each line is  *)
(* pushed or written past the cache by the flag that results.  Other calls *)
(* of the same client (markers, fields, the guest's words) come between    *)
(* lines, also after an error, which ends the lines.                       *)
(***************************************************************************)
EXTENDS GateController, Transport

CONSTANTS
    OtherOps,   \* the calls that are not about payload lines
    MaxOthers   \* bound on them

VARIABLE stage     \* what the present line waits for

gvars == <<vars, transport, stage>>

Push == "ncp_write"

PastCache == "ncp_nc_write"

Query == "query"

(* A marker may be pushed by the same method as a line; here that is a     *)
(* call of another name.                                                   *)
ASSUME IngressAssumption ==
    /\ {Push, PastCache, Query} \subseteq Ops
    /\ OtherOps \subseteq Ops \ {Push, PastCache, Query}

GInit == Init /\ TransportInit /\ stage = "next"

LastCall == calls[Len(calls)]

(* A call for a line begins; if that fails no line follows.                *)
CallForLine(op, then) ==
    \/ Send(op) /\ stage' = then
    \/ (SendFails(op) \/ (closed /\ TurnAway(op))) /\ stage' = "over"

(* Without a sample the occupancy plays no part in the choice.             *)
TakeLine ==
    /\ stage = "next" /\ lines < MaxLines
    /\ IF Sampling
       THEN CallForLine(Query, "asked") /\ UNCHANGED vars
       ELSE ChoosePush(TRUE) /\ stage' = "chosen" /\ UNCHANGED transport

(* Mutant: the first answer is kept.                                       *)
FirstAnswer ==
    performed[Min({n \in 1..Len(performed) : performed[n].op = Query})].value

Answer == performed[LastCall.answer].value

ChooseAsked ==
    /\ stage = "asked" /\ ~receiving
    /\ IF LastCall.status = "returned"
       THEN ChoosePush(Answer) /\ stage' = "chosen"
       ELSE stage' = "over" /\ UNCHANGED vars
    /\ UNCHANGED transport

(* Mutant: the line goes by what was asked for, not by what is in force.   *)
RequestedPlace == IF requested THEN Push ELSE PastCache

Place == IF pushes[lines - 1] THEN Push ELSE PastCache

WriteLine ==
    /\ stage = "chosen"
    /\ CallForLine(Place, "written")
    /\ UNCHANGED vars

LineWritten ==
    /\ stage = "written" /\ ~receiving
    /\ stage' = IF LastCall.status = "returned" THEN "next" ELSE "over"
    /\ UNCHANGED <<vars, transport>>

OtherCall ==
    /\ stage \in {"next", "over"}
    /\ Cardinality({n \in 1..Len(calls) : calls[n].op \in OtherOps}) < MaxOthers
    /\ \E op \in OtherOps : Send(op) \/ SendFails(op) \/ TurnAway(op)
    /\ UNCHANGED <<vars, stage>>

Rest == (Close \/ Await \/ Serve \/ ServerStops) /\ UNCHANGED <<vars, stage>>

GNext ==
    \/ TakeLine \/ ChooseAsked \/ WriteLine \/ LineWritten \/ OtherCall \/ Rest

GSpec == GInit /\ [][GNext]_gvars /\ WF_gvars(Await /\ UNCHANGED <<vars, stage>>)
--------------------------------------------------------------------------------
LineOps == {Push, PastCache}

(* How many lines the server carried out before its k-th operation.        *)
LinesBefore(k) ==
    Cardinality({j \in 1..(k - 1) : performed[j].op \in LineOps})

LinesIn == LinesBefore(Len(performed) + 1)

(* The lines are carried out by the server in order, each once and the way *)
(* the gate decided; while the client is open none is missing.             *)
LinesPlacedAsDecided ==
    /\ LinesIn <= lines
    /\ \A k \in 1..Len(performed) :
        performed[k].op \in LineOps =>
            performed[k].op = IF pushes[LinesBefore(k)] THEN Push ELSE PastCache
    /\ stage = "next" /\ ~closed => LinesIn = lines

(* A sample is taken when all earlier lines are in and no later one, and   *)
(* it is what the line it was taken for went by.                           *)
SamplesAreCurrent ==
    \A k \in 1..Len(performed) :
        performed[k].op = Query /\ LinesBefore(k) < lines =>
            /\ sample_every_lines # Instant => LinesBefore(k) % sample_every_lines = 0
            /\ below[LinesBefore(k)] = performed[k].value
================================================================================
