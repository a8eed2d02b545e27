------------------------------ MODULE ShellTasks ------------------------------
(***************************************************************************)
(* The process-local shell of the core toolkit (toolkits/builtin/core/     *)
(* shell_runtime.py): foreground commands, and background tasks with their *)
(* reader threads and timeout watchers, polled, waited for and killed by   *)
(* the session that started them.  Output is a sequence of bytes: an ASCII *)
(* character, or the two halves of a longer one.                           *)
(***************************************************************************)
EXTENDS Naturals, Sequences, FiniteSets, SequencesExt

CONSTANTS
    Sessions,   \* session keys
    Tasks,      \* task ids, in the order they are used: 1 .. n
    Streams,    \* standard output and standard error
    Block,      \* bytes a reader thread asks for at once (4096)
    Limits,     \* values of max_output_chars
    MaxOutput,  \* bound on the bytes a command writes to a stream
    MaxCalls,   \* [session -> bound on its tool calls]
    Inside,     \* directories of the workspace
    Outside     \* directories outside of it

VARIABLES
    proc,       \* [task -> the operating-system process]
    task,       \* [task -> _BackgroundTask]
    watcher,    \* [task -> its timeout thread]
    caller,     \* [session -> its tool call]
    cwd,        \* [session -> cwd_by_session]
    down,       \* shutdown was called
    out         \* history: [task -> what was delivered, and what was told of it]

vars == <<proc, task, watcher, caller, cwd, down, out>>

\* immune is a history: a signal to the process had no effect.
NoProc == [alive |-> FALSE, by |-> "none", code |-> 0, held |-> FALSE, immune |-> FALSE,
           written |-> [x \in Streams |-> <<>>]]

Started(t) == proc[t].by # "none" \/ proc[t].alive

Idle == [pc |-> "idle", calls |-> 0]

At(s, pc) == caller[s].pc = pc

Free(s) == At(s, "idle") /\ caller[s].calls < MaxCalls[s] /\ ~down

Returned(s) == [pc |-> "idle", calls |-> caller[s].calls + 1]

Calls(s, pc, action, t, n) ==
    [pc |-> pc, calls |-> caller[s].calls, action |-> action, task |-> t, limit |-> n,
     chunks |-> [x \in Streams |-> <<>>], truncated |-> FALSE]

\* The bytes a command writes, told apart by their place.
Letters == <<"a", "b", "c", "d">>

Half(b) == b \in {"first", "second"}

\* _decode_bytes of one block: a character cut by the end of the block is replaced.
_decode_bytes(block) ==
    LET whole(i) == i < Len(block) /\ block[i] = "first" /\ block[i + 1] = "second"
        piece(i) == IF ~Half(block[i]) THEN <<block[i]>>
                    ELSE IF whole(i) THEN <<"char">>
                    ELSE IF i > 1 /\ whole(i - 1) THEN <<>> ELSE <<"replaced">>
    IN  FlattenSeq([i \in DOMAIN block |-> piece(i)])

----------------------------------------------------------------------------
(* Foreground commands.                                                   *)

\* A directory the model asks for must be in the workspace and exist.
resolve_cwd(s, dir) == IF dir = "default" THEN cwd[s] ELSE dir

_read_captured_cwd(dir, fallback) == IF dir \in Inside THEN dir ELSE fallback

\* A command that ends leaves the session where it went; one that times out does not.
_run_foreground(s, dir, final, timed_out) ==
    /\ Free(s)
    /\ LET at == resolve_cwd(s, dir)
       IN  cwd' = [cwd EXCEPT ![s] =
               IF at \notin Inside \/ timed_out THEN @ ELSE _read_captured_cwd(final, at)]
    /\ caller' = [caller EXCEPT ![s] = Returned(s)]
    /\ UNCHANGED <<proc, task, watcher, down, out>>

----------------------------------------------------------------------------
(* Background tasks.                                                      *)

\* The process, its readers and its watcher start; the answer says it is running.
_run_background(s, t) ==
    /\ Free(s) /\ ~Started(t) /\ \A u \in Tasks : u < t => Started(u)
    /\ proc' = [proc EXCEPT ![t].alive = TRUE]
    /\ task' = [task EXCEPT ![t] =
           [session |-> s, buffer |-> [x \in Streams |-> <<>>], offset |-> [x \in Streams |-> 0],
            taken |-> [x \in Streams |-> 0], timed_out |-> FALSE, killed |-> FALSE]]
    /\ watcher' = [watcher EXCEPT ![t] = "wait"]
    /\ caller' = [caller EXCEPT ![s] = Returned(s)]
    /\ UNCHANGED <<cwd, down, out>>

\* The command writes, ends, and may leave children that hold its output open.
CommandWrites(t, x, wide) ==
    LET n == Len(proc[t].written[x])
        bytes == IF wide THEN <<"first", "second">> ELSE <<Letters[n + 1]>>
    IN  /\ proc[t].alive \/ proc[t].held
        /\ n + Len(bytes) <= MaxOutput
        /\ proc' = [proc EXCEPT ![t].written[x] = @ \o bytes]
        /\ UNCHANGED <<task, watcher, caller, cwd, down, out>>

CommandEnds(t, code, held) ==
    /\ proc[t].alive
    /\ proc' = [proc EXCEPT ![t].alive = FALSE, ![t].by = "itself", ![t].code = code, ![t].held = held]
    /\ UNCHANGED <<task, watcher, caller, cwd, down, out>>

ChildrenEnd(t) ==
    /\ proc[t].held
    /\ proc' = [proc EXCEPT ![t].held = FALSE]
    /\ UNCHANGED <<task, watcher, caller, cwd, down, out>>

\* A reader waits for a whole block, or for the end of the stream.
_reader(t, x) ==
    LET rest == Len(proc[t].written[x]) - task[t].taken[x]
        n == IF rest >= Block THEN Block ELSE rest
        block == SubSeq(proc[t].written[x], task[t].taken[x] + 1, task[t].taken[x] + n)
    IN  /\ Started(t) /\ rest > 0
        /\ rest >= Block \/ ~(proc[t].alive \/ proc[t].held)
        /\ task' = [task EXCEPT ![t].taken[x] = @ + n, ![t].buffer[x] = @ \o _decode_bytes(block)]
        /\ UNCHANGED <<proc, watcher, caller, cwd, down, out>>

\* What the signal of _terminate_task does: it kills the process group; or, with
\* PowerShell or when killpg fails, the process and not its children; or nothing that
\* shows within the bounded wait, and the error is swallowed.
Signals == {"group", "process", "nothing"}

Killed(p, how) ==
    IF how = "nothing" THEN [p EXCEPT !.immune = TRUE]
    ELSE [p EXCEPT !.alive = FALSE, !.by = "signal", !.code = 9, !.held = (how = "process")]

\* The timeout is over, then _terminate_task: a process that ended meanwhile is
\* still marked; another is killed, reaped, and marked afterwards.
_watch(t) ==
    /\ watcher[t] = "wait"
    /\ \/ watcher' = [watcher EXCEPT ![t] = "expired"]
       \/ ~proc[t].alive /\ watcher' = [watcher EXCEPT ![t] = "done"]
    /\ UNCHANGED <<proc, task, caller, cwd, down, out>>

\* The task is marked, and its process goes on.
WatcherOnlyMarks(t) ==
    /\ watcher[t] = "expired"
    /\ watcher' = [watcher EXCEPT ![t] = "mark"]
    /\ UNCHANGED <<proc, task, caller, cwd, down, out>>

WatcherSignals(t) ==
    /\ watcher[t] = "expired"
    /\ IF proc[t].alive THEN \E how \in Signals : proc' = [proc EXCEPT ![t] = Killed(@, how)]
                        ELSE UNCHANGED proc
    /\ watcher' = [watcher EXCEPT ![t] = "mark"]
    /\ UNCHANGED <<task, caller, cwd, down, out>>

WatcherMarks(t) ==
    /\ watcher[t] = "mark"
    /\ task' = [task EXCEPT ![t].timed_out = TRUE]
    /\ watcher' = [watcher EXCEPT ![t] = "done"]
    /\ UNCHANGED <<proc, caller, cwd, down, out>>

----------------------------------------------------------------------------
(* Calls about a task.                                                    *)

\* Somebody else's task is missing.
_task_for_session(s, t) == Started(t) /\ task[t].session = s

CallTask(s, action, t, n) ==
    /\ Free(s)
    /\ caller' = [caller EXCEPT ![s] =
           IF _task_for_session(s, t) THEN Calls(s, action, action, t, n) ELSE Returned(s)]
    /\ UNCHANGED <<proc, task, watcher, cwd, down, out>>

\* wait: until the process ends or the time is over, then a poll.
wait(s) ==
    /\ At(s, "wait")
    /\ caller' = [caller EXCEPT ![s].pc = "poll"]
    /\ UNCHANGED <<proc, task, watcher, cwd, down, out>>

\* kill: _terminate_task unless the process already ended.
kill(s) ==
    /\ At(s, "kill")
    /\ LET t == caller[s].task
       IN  IF proc[t].alive
           THEN /\ \E how \in Signals : proc' = [proc EXCEPT ![t] = Killed(@, how)]
                /\ caller' = [caller EXCEPT ![s].pc = "mark"]
           ELSE /\ caller' = [caller EXCEPT ![s].pc = "poll"]
                /\ UNCHANGED proc
    /\ UNCHANGED <<task, watcher, cwd, down, out>>

KillMarks(s) ==
    /\ At(s, "mark")
    /\ task' = [task EXCEPT ![caller[s].task].killed = TRUE]
    /\ caller' = [caller EXCEPT ![s].pc = "poll"]
    /\ UNCHANGED <<proc, watcher, cwd, down, out>>

\* What is new since the last call, cut at the limit; the rest waits.
consume_increment(t, x, n) ==
    LET rest == SubSeq(task[t].buffer[x], task[t].offset[x] + 1, Len(task[t].buffer[x]))
        chunk == IF Len(rest) > n THEN SubSeq(rest, 1, n) ELSE rest
    IN  [chunk |-> chunk, offset |-> task[t].offset[x] + Len(chunk), truncated |-> Len(rest) > n]

poll(s) ==
    /\ At(s, "poll")
    /\ LET t == caller[s].task
           got == [x \in Streams |-> consume_increment(t, x, caller[s].limit)]
       IN  /\ task' = [task EXCEPT ![t].offset = [x \in Streams |-> got[x].offset]]
           /\ caller' = [caller EXCEPT ![s].pc = "status",
                                       ![s].chunks = [x \in Streams |-> got[x].chunk],
                                       ![s].truncated = \E x \in Streams : got[x].truncated]
    /\ UNCHANGED <<proc, watcher, cwd, down, out>>

\* The state of the task is looked at after its output was taken.
OkOf(t, action) == action # "kill" /\ ~proc[t].alive /\ proc[t].code = 0 /\ ~task[t].timed_out /\ ~task[t].killed

PollAnswers(s) ==
    /\ At(s, "status")
    /\ LET t == caller[s].task
           a == caller[s].action
       IN  out' = [out EXCEPT
               ![t].text = [x \in Streams |-> @[x] \o caller[s].chunks[x]],
               ![t].told = @ \cup {[kill |-> a = "kill", ok |-> OkOf(t, a),
                                    completed |-> a = "kill" \/ ~proc[t].alive]}]
    /\ caller' = [caller EXCEPT ![s] = Returned(s)]
    /\ UNCHANGED <<proc, task, watcher, cwd, down>>

\* Every task is killed and forgotten.
shutdown ==
    /\ ~down /\ \A s \in Sessions : At(s, "idle")
    /\ down' = TRUE
    /\ \E how \in [Tasks -> Signals] :
           proc' = [t \in Tasks |-> IF proc[t].alive THEN Killed(proc[t], how[t]) ELSE proc[t]]
    /\ UNCHANGED <<task, watcher, caller, cwd, out>>

----------------------------------------------------------------------------

Init ==
    /\ proc = [t \in Tasks |-> NoProc]
    /\ task = [t \in Tasks |-> NoProc]
    /\ watcher = [t \in Tasks |-> "none"]
    /\ caller = [s \in Sessions |-> Idle]
    /\ \E root \in Inside : cwd = [s \in Sessions |-> root]
    /\ down = FALSE
    /\ out = [t \in Tasks |-> [text |-> [x \in Streams |-> <<>>], told |-> {}]]

Caller(s) == wait(s) \/ kill(s) \/ KillMarks(s) \/ poll(s) \/ PollAnswers(s)

Watcher(t) == _watch(t) \/ WatcherSignals(t) \/ WatcherMarks(t)

Next ==
    \/ \E s \in Sessions :
        \/ \E dir \in Inside \cup Outside \cup {"default"}, final \in Inside \cup Outside, late \in BOOLEAN :
               _run_foreground(s, dir, final, late)
        \/ \E t \in Tasks : _run_background(s, t)
        \/ \E action \in {"poll", "wait", "kill"}, t \in Tasks, n \in Limits : CallTask(s, action, t, n)
        \/ Caller(s)
    \/ \E t \in Tasks :
        \/ \E x \in Streams, wide \in BOOLEAN : CommandWrites(t, x, wide)
        \/ \E code \in {0, 1}, held \in BOOLEAN : CommandEnds(t, code, held)
        \/ ChildrenEnd(t)
        \/ \E x \in Streams : _reader(t, x)
        \/ Watcher(t)
    \/ shutdown

\* The threads of the runtime are scheduled; the commands owe nothing.
Fairness ==
    /\ \A s \in Sessions : WF_vars(Caller(s))
    /\ \A t \in Tasks : WF_vars(Watcher(t))

Spec == Init /\ [][Next]_vars /\ Fairness

----------------------------------------------------------------------------
(* Properties.                                                            *)

\* What the readers would have collected if every block were read in order.
Blocks(t, x) ==
    FlattenSeq([i \in 1 .. ((Len(proc[t].written[x]) + Block - 1) \div Block) |->
        _decode_bytes(SubSeq(proc[t].written[x], (i - 1) * Block + 1,
                             IF i * Block < Len(proc[t].written[x]) THEN i * Block ELSE Len(proc[t].written[x])))])

\* ReportsAreTrue: what a session is told of its background task over any number
\* of polls, waits and kills is true: the pieces of output put together are the
\* beginning of what the command wrote, without a gap or a repetition, whatever
\* limits the calls had; a task is called completed only when its process is gone,
\* unless the call is a kill whose signal had no effect; and a success only when it
\* ended by itself with status 0, although the watcher, a kill and the end of the
\* command race with the answer.
ReportsAreTrue ==
    \A t \in Tasks :
        /\ \A x \in Streams : IsPrefix(out[t].text[x], Blocks(t, x))
        /\ \A r \in out[t].told :
            /\ r.completed /\ proc[t].alive => r.kill /\ proc[t].immune
            /\ r.ok => proc[t].by = "itself" /\ proc[t].code = 0

\* TasksEnd: every background process ends, because its watcher kills it when its
\* time is over, or a signal to it has had no effect; and every call about a task
\* returns either way.
TasksEnd ==
    /\ \A t \in Tasks : proc[t].alive ~> ~proc[t].alive \/ proc[t].immune
    /\ \A s \in Sessions : ~At(s, "idle") ~> At(s, "idle")
=============================================================================
