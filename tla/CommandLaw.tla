---------------------------- MODULE CommandLaw ----------------------------
(***************************************************************************)
(* What the command ledger promises a caller, whatever process drives the  *)
(* command and however often: one command gets one answer, every caller    *)
(* that hears an answer hears that one, "committed" means the planned      *)
(* mutation is in the store, and "rejected" means it is not there and      *)
(* never will be.  A Deferred command (runs_resume) is committed when its  *)
(* launch is accepted: its mutation, the attempt, may still follow.  Of a  *)
(* Contested command (a promotion or a rollback) the answer Lost promises  *)
(* nothing: a second driver may have made the move, or may make it yet.    *)
(***************************************************************************)
CONSTANTS
    Commands,
    Responses,
    Committed,      \* one of the Responses
    Lost,           \* another
    Contested,
    Deferred,
    Silent          \* none of them

VARIABLES answer,   \* the one answer of a command, Silent before it has one
          done,     \* the commands whose planned mutation is in the store
          heard     \* the answers callers of a command were given

lawVars == <<answer, done, heard>>

Init ==
    /\ answer = [c \in Commands |-> Silent]
    /\ done = {}
    /\ heard = [c \in Commands |-> {}]

\* One transaction may complete the mutation of several commands: two of them can name
\* the same promotion proof.
Mutate ==
    /\ done \subseteq done' /\ done' \subseteq Commands
    /\ \A c \in done' \ done :
        \/ answer[c] = Silent
        \/ answer[c] = Committed /\ c \in Deferred
        \/ answer[c] = Lost /\ c \in Contested
    /\ UNCHANGED <<answer, heard>>

Answer(c) ==
    /\ answer[c] = Silent
    /\ \E r \in Responses :
        /\ r = Committed => c \in done \cup Deferred
        /\ r # Committed => c \notin done \/ (r = Lost /\ c \in Contested)
        /\ answer' = [answer EXCEPT ![c] = r]
        /\ heard' = [heard EXCEPT ![c] = @ \cup {r}]
    /\ UNCHANGED done

Tell(c) ==
    /\ answer[c] # Silent
    /\ heard' = [heard EXCEPT ![c] = @ \cup {answer[c]}]
    /\ UNCHANGED <<answer, done>>

Next == Mutate \/ \E c \in Commands : Answer(c) \/ Tell(c)

Spec == Init /\ [][Next]_lawVars
=============================================================================
