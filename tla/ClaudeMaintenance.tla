------------------------- MODULE ClaudeMaintenance --------------------------
(***************************************************************************)
(* The maintenance sessions of a Claude operator store: the mode observed  *)
(* once, or twice with a pause between (claude_maintenance_mode.py), the   *)
(* three observations of a qualification (claude_startup_qualification.py) *)
(* and an attended login (claude_maintenance_login.py), each inside        *)
(* run_maintenance_session (claude_maintenance_session.py).                *)
(***************************************************************************)
EXTENDS ClaudeRead

VARIABLES
    m,                  \* the conversation
    outcome             \* what the session, or the task, reported

MFresh == [at |-> IF world.mode = "login" THEN "line" ELSE "write", n |-> 1, ui |-> 0, elapsed |-> FALSE]
MRefuse(d) == [d EXCEPT !.at = "refused"]
MEnded == m.at \in {"completed", "refused"}
MActive == h.at = "maintaining" /\ ~ MEnded /\ outcome = "none"

\* _check: the deadline; a qualification also asks for the binding, the other sessions once the
\* exchange is over.
MLost == lost \cap (IF world.mode = "qualify" THEN {"late", "binding"} ELSE {"late"})
MChecked(d) == IF MLost = {} THEN d ELSE MRefuse(m)

\* _response: the verdict asked for; a first ambiguous mode is asked for again, once, when observing.
Observed(d, r) ==
    LET v == Verdict(r, d.n) IN
    CASE v = "match" -> [d EXCEPT !.at = "closing"]
      [] v = "ambiguous" /\ world.mode = "observe" /\ d.n = 1 -> [d EXCEPT !.n = 2, !.at = "spacing"]
      [] OTHER -> MRefuse(d)

\* _judge_control: of three replies each must match.
Qualified(d, r) ==
    IF Verdict(r, d.n) # "match" THEN MRefuse(d)
    ELSE IF d.n < 3 THEN [d EXCEPT !.n = @ + 1, !.at = "write"] ELSE [d EXCEPT !.at = "closing"]

\* _ui and _consume_ui_records: nothing but display records outside a response, and few of them.
MTaken(d, r) ==
    IF world.mode = "login" THEN d
    ELSE IF r.kind = "damaged" THEN MRefuse(d)
    ELSE IF r.kind = "ui" /\ r.body # "foreign" /\ d.ui < UiRecords /\ ~ (d.at = "write" /\ world.mode # "qualify")
    THEN [d EXCEPT !.ui = @ + 1]
    ELSE IF d.at = "response" /\ r.kind # "ui" THEN IF world.mode = "qualify" THEN Qualified(d, r) ELSE Observed(d, r)
    ELSE MRefuse(d)

MTake ==
    /\ MActive /\ Framed
    /\ m' = MChecked(MTaken(m, Head(recs))) /\ Consume

\* _write, _write_control and the end of _spacing: on a quiet stream only.
MWrite ==
    /\ MActive /\ (m.at = "write" \/ (m.at = "spacing" /\ m.elapsed)) /\ Still
    /\ m' = MChecked([m EXCEPT !.at = "response"])
    /\ IF MLost = {} THEN Post(Req("control", m.n)) ELSE UNCHANGED streamVars
\* ... and what is not quiet at a write is a refusal.
MStuck ==
    /\ MActive /\ m.at = "write" /\ ~ Framed /\ torn
    /\ m' = MRefuse(m) /\ UNCHANGED streamVars
SpacingElapses ==
    /\ MActive /\ m.at = "spacing" /\ ~ m.elapsed
    /\ m' = [m EXCEPT !.elapsed = TRUE] /\ UNCHANGED streamVars

\* ClaudeLoginConversation._drive: one line from the operator, spent before it is delivered.
OperatorTypes ==
    /\ MActive /\ m.at = "line" /\ ~ eof
    /\ m' = MChecked([m EXCEPT !.at = "closing"])
    /\ IF MLost = {} THEN Post(Req("line", 0)) ELSE UNCHANGED streamVars

MClose ==
    /\ MActive /\ m.at = "closing" /\ ~ eof /\ (Framed => world.mode = "login")
    /\ m' = MChecked([m EXCEPT !.at = "drain"])
    /\ IF MLost = {} THEN Post(Req("close", 0)) ELSE UNCHANGED streamVars
MStreamEnds ==
    /\ MActive /\ ~ Framed /\ eof
    /\ m' = MChecked(IF m.at = "drain" /\ (~ torn \/ world.mode = "login") THEN [m EXCEPT !.at = "completed"] ELSE MRefuse(m))
    /\ UNCHANGED streamVars
MInterrupted ==
    /\ MActive /\ "late" \in lost
    /\ m' = MRefuse(m) /\ UNCHANGED streamVars
MClientKilled ==
    /\ h.at = "maintaining" /\ m.at = "refused" /\ ~ ended /\ Kill /\ UNCHANGED m

\* run_maintenance_session, once the exchange has joined: custody is observed again.
SessionEnds ==
    /\ h.at = "maintaining" /\ MEnded /\ ended /\ outcome = "none"
    /\ outcome' = IF m.at = "completed" /\ clean /\ lost = {} THEN "joined"
                  ELSE IF "late" \in lost THEN "incomplete" ELSE "refused"
    /\ UNCHANGED <<streamVars, m>>

MaintenanceStep ==
    /\ \/ SessionEnds
       \/ /\ UNCHANGED outcome
          /\ \/ MTake \/ MWrite \/ MStuck \/ SpacingElapses \/ OperatorTypes \/ MClose
             \/ MStreamEnds \/ MInterrupted \/ MClientKilled
    /\ UNCHANGED readVars
=============================================================================
