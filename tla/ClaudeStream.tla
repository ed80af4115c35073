---------------------------- MODULE ClaudeStream ----------------------------
(***************************************************************************)
(* The native Claude client as its conversations see it: a process that    *)
(* writes records on a pipe, of which the host has captured some, framed   *)
(* some, and read one in part.                                             *)
(*                                                                         *)
(* The pipe is `wire', the bytes the host's ProcessIO captured and no read *)
(* returned yet are `held', and the complete records of the conversation's *)
(* own buffer are `recs'.  A conversation sees only `recs', whether its    *)
(* buffer ends inside a record, and the end of file a read returned; the   *)
(* callback barrier of a task also sees how much was captured.             *)
(*                                                                         *)
(* A record is its kind, the id it correlates by, and what the rules read  *)
(* of its body: a verdict, a method, a state, or that it is "foreign" (of  *)
(* another session, or not of the exact shape).                            *)
(***************************************************************************)
EXTENDS Naturals, Sequences, FiniteSets, SequencesExt

CONSTANTS
    Worlds,             \* [mode, adds, replies, calls, input, room, trouble]: see MCClaudeHandle
    UiRecords           \* UI_RECORDS

VARIABLES
    world,
    wire, held, recs,   \* written, captured, framed
    torn,               \* whether the buffer ends inside a record
    ended, clean,       \* whether the client closed its output, and whether it exited cleanly
    captured, eof,      \* whether the end of file was captured, and read
    inbox,              \* what was written to the client and it has not acted on
    left                \* the records it may still add of its own

streamVars == <<wire, held, recs, torn, ended, clean, captured, eof, inbox, left>>

Rec(kind, id, body) == [kind |-> kind, id |-> id, body |-> body]
Req(kind, id) == [kind |-> kind, id |-> id]

StreamInit ==
    /\ wire = <<>> /\ held = <<>> /\ recs = <<>> /\ torn = FALSE
    /\ ended = FALSE /\ clean = FALSE /\ captured = FALSE /\ eof = FALSE
    /\ inbox = <<>> /\ left = world.adds

(***************************************************************************)
(* The client (external).  It answers what it is asked, unless its world   *)
(* makes it silent, and adds what its world lets it add at any moment: a   *)
(* record, half of one ("cut") or nothing ("gone") before it exits.        *)
(***************************************************************************)
Task == world.mode \in {"read", "write"}
Handshake == <<"initialize", "initialized", "list">>
HandshakeId(k) == 10 + k
CallId(k) == 20 + k

Finale == <<Rec("assistant", 0, ""), Rec("result", 0, "success"), Rec("lifecycle", 0, "completed")>>
NextCall(k) == IF k <= world.calls THEN <<Rec("mcp", CallId(k), "call")>> ELSE Finale

Response(q) ==
    CASE q.kind = "control" /\ world.replies[q.id] # "silent" ->
            <<Rec("reply", q.id, world.replies[q.id])>>
            \o (IF Task /\ q.id \in {4, 5} THEN <<Rec("background", 0, "")>> ELSE <<>>)
            \o (IF Task /\ q.id = 4 THEN <<Rec("mcp", HandshakeId(1), Handshake[1])>> ELSE <<>>)
      [] q.kind = "user" -> <<Rec("init", 0, "")>> \o NextCall(1)
      [] q.kind = "answer" /\ q.id < 20 ->
            IF q.id < HandshakeId(3) THEN <<Rec("mcp", q.id + 1, Handshake[q.id - 9])>> ELSE <<>>
      [] q.kind = "answer" /\ ~ (q.id < 20) -> <<Rec("user", 0, "")>> \o NextCall(q.id - 19)
      [] OTHER -> <<>>

ClientAnswers ==
    /\ inbox # <<>> /\ ~ ended
    /\ inbox' = Tail(inbox)
    /\ wire' = wire \o Response(Head(inbox))
    /\ ended' = (Head(inbox).kind = "close") /\ clean' = ended'
    /\ UNCHANGED <<held, recs, torn, captured, eof, left>>

ClientAdds ==
    /\ left # <<>> /\ ~ ended
    /\ wire' = IF Head(left).kind = "gone" THEN wire ELSE Append(wire, Head(left))
    /\ left' = Tail(left)
    /\ ended' = (Head(left).kind \in {"cut", "gone"})
    /\ UNCHANGED <<held, recs, torn, clean, captured, eof, inbox>>

(***************************************************************************)
(* ProcessIO and the conversation's one pending read.                      *)
(***************************************************************************)
Capture ==
    /\ wire # <<>>
    /\ held' = Append(held, Head(wire)) /\ wire' = Tail(wire)
    /\ UNCHANGED <<recs, torn, ended, clean, captured, eof, inbox, left>>

CaptureEnd ==
    /\ ended /\ wire = <<>> /\ ~ captured /\ captured' = TRUE
    /\ UNCHANGED <<wire, held, recs, torn, ended, clean, eof, inbox, left>>

\* Only a last record can lack its newline: one "cut" by the client's exit, which never gets it.
Whole(s) == IF s # <<>> /\ s[Len(s)].kind = "cut" THEN Front(s) ELSE s

\* _receive, the end of a read: a chunk may end inside the next record.
Receive(part) ==
    /\ held # <<>> /\ (part => wire # <<>>)
    /\ recs' = recs \o Whole(held) /\ held' = <<>>
    /\ torn' = (part \/ Whole(held) # held)
    /\ UNCHANGED <<wire, ended, clean, captured, eof, inbox, left>>

ReceiveEnd ==
    /\ captured /\ held = <<>> /\ ~ eof /\ eof' = TRUE
    /\ UNCHANGED <<wire, held, recs, torn, ended, clean, captured, inbox, left>>

\* The launcher ends the client of an exchange that failed.
Kill ==
    /\ ended' = TRUE
    /\ UNCHANGED <<wire, held, recs, torn, clean, captured, eof, inbox, left>>

StreamStep == ClientAnswers \/ ClientAdds \/ Capture \/ CaptureEnd \/ ReceiveEnd \/ \E part \in BOOLEAN : Receive(part)

(***************************************************************************)
(* What every conversation shares.                                         *)
(***************************************************************************)
Framed == recs # <<>>
\* Nothing framed, nothing in part, and no end: what lets a conversation write.
Still == ~ Framed /\ ~ torn /\ ~ eof
\* The callback barrier: also nothing captured that was not framed.
Settled == Still /\ held = <<>> /\ ~ captured
Said == SubSeq(world.adds, 1, Len(world.adds) - Len(left))

Consume == /\ recs' = Tail(recs)
           /\ UNCHANGED <<wire, held, torn, ended, clean, captured, eof, inbox, left>>
Post(q) == /\ inbox' = Append(inbox, q)
           /\ UNCHANGED <<wire, held, recs, torn, ended, clean, captured, eof, left>>
ConsumeAndPost(q) ==
           /\ recs' = Tail(recs) /\ inbox' = Append(inbox, q)
           /\ UNCHANGED <<wire, held, torn, ended, clean, captured, eof, left>>

\* observe_initialize, judge_settings, judge_hooks: the reply to this request, and its verdict.
Verdict(r, id) ==
    IF r.kind # "reply" THEN "response-invalid" ELSE IF r.id # id THEN "request-mismatch" ELSE r.body
=============================================================================
