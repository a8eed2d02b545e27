----------------------------- MODULE MCSessions -----------------------------
(* What runs beside the loop of a session, for TLC: ExecutionLease, with an   *)
(* attempt and its successor, and with two processes of one attempt under a   *)
(* clock that may be set back; ShellTasks, with two sessions and one          *)
(* background task.  A behaviour is of one of these parts; the variables of   *)
(* the other stay as they are.                                                *)
EXTENDS ExecutionLease, TLC

CONSTANTS p1, p2, o1, o2, Sessions, Tasks, Streams, Block, Limits, MaxOutput, Inside, Outside

VARIABLES part, proc, task, watcher, caller, cwd, down, out

svars == <<proc, task, watcher, caller, cwd, down, out>>
all == <<part, vars, svars>>

\* An attempt and its successor, with a steady clock, and two processes of one
\* attempt, with one that may be set back (and a single write).
MCSites == {[owner |-> (p1 :> o1) @@ (p2 :> o2), adjustable |-> FALSE, writes |-> 2],
            [owner |-> (p1 :> o1) @@ (p2 :> o1), adjustable |-> TRUE, writes |-> 1]}

\* The second session asks once: about its own task or about the other's.
MaxCalls == <<3, 1>>

S == INSTANCE ShellTasks

MCInit ==
    /\ part \in {"lease", "shell"}
    /\ Init /\ (part = "lease" \/ site.adjustable)
    /\ S!Init

MCNext ==
    /\ UNCHANGED part
    /\ \/ part = "lease" /\ Next /\ UNCHANGED svars
       \/ part = "shell" /\ S!Next /\ UNCHANGED vars

\* A watcher thread and a call in progress go on.
MCSpec ==
    /\ MCInit /\ [][MCNext]_all
    /\ \A s \in Sessions : WF_svars(part = "shell" /\ S!Caller(s))
    /\ \A t \in Tasks : WF_svars(part = "shell" /\ S!Watcher(t))

\* What a session is told of its background task over any number of polls,
\* waits and kills is true (ShellTasks!ReportsAreTrue); the command ends, because
\* its watcher kills it when its time is over (_watch), unless the signal has no
\* effect, and every call about it returns (ShellTasks!TasksEnd).
TasksServed == []S!ReportsAreTrue /\ S!TasksEnd
=============================================================================
