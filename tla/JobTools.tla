------------------------------- MODULE JobTools -------------------------------
(***************************************************************************)
(* The shell tool over durable jobs (jobs/plugin.py) behind an approval:   *)
(* the runtime manifest of a background command binds what would run, an   *)
(* approval is asked for and answered in another process later             *)
(* (tools/execution.py, tools/runtime.py), and the job is started under    *)
(* the id of the call (jobs/process.py, modelled in DurableJobs).          *)
(*                                                                         *)
(* What a command resolves to depends on the process: the directory the    *)
(* session went to, and the environment profile of its supervisor.         *)
(***************************************************************************)
EXTENDS Naturals, FiniteSets, Functions, TLC

CONSTANTS
    Ids,         \* ids of the tool calls of a session
    Dirs,        \* directories of the workspace
    Root,        \* the first of them
    Envs,        \* environment profiles of a deployment
    Arguments,   \* arguments of the shell tool: action, command, cwd, background
    CacheSize,   \* intents a plugin remembers (256)
    MaxRestarts  \* bound on the restarts of the process

VARIABLES
    host,        \* the process: cwd of the session, environment, _approved_intents
    pending,     \* [call -> the stored interaction request], durable
    jobs,        \* [call -> the job under its idempotency key], durable
    running,     \* the call inside execute, with what it may run, or NoCall
    answers,     \* history: [call -> what the person agreed to]
    restarts

vars == <<host, pending, jobs, running, answers, restarts>>

NoCall == [call |-> 0]

Invalid(a) == [valid |-> FALSE, of |-> a]

\* The intent of a background command: its directory and environment now.
_resolve_job_intent(a, env) ==
    IF a.command = "" THEN Invalid(a)
    ELSE [valid |-> TRUE, command |-> a.command, env |-> env,
          cwd |-> IF a.cwd = "default" THEN host.cwd ELSE a.cwd]

can_handle(a) == a.action = "run" /\ a.background

\* What the approval binds: only what the model asked for.
ManifestOfArguments(a) == Invalid(a)

\* The operation of the runtime manifest: the digest of the intent, or of the error.
durable_runtime_manifest(a) == _resolve_job_intent(a, host.env)

\* The intents remembered after the manifest of a call was made.
Remembered(c, a) ==
    LET others == Restrict(host.intents, DOMAIN host.intents \ {c})
        kept == IF Cardinality(DOMAIN others) < CacheSize THEN others
                ELSE Restrict(others, DOMAIN others \ {CHOOSE d \in DOMAIN others : TRUE})
    IN  IF _resolve_job_intent(a, host.env).valid
        THEN kept @@ (c :> [args |-> a, intent |-> _resolve_job_intent(a, host.env)])
        ELSE others

Forgotten(c) == Restrict(host.intents, DOMAIN host.intents \ {c})

----------------------------------------------------------------------------

Free == running = NoCall

\* A foreground command of the session ends elsewhere.
Cd(d) ==
    /\ Free /\ d # host.cwd
    /\ host' = [host EXCEPT !.cwd = d]
    /\ UNCHANGED <<pending, jobs, running, answers, restarts>>

\* The model wants a command in the background: the approval is stored and the run
\* suspends.
Ask(c, a) ==
    /\ Free /\ c \notin DOMAIN pending \cup DOMAIN jobs /\ can_handle(a)
    /\ pending' = pending @@ (c :> [args |-> a, bound |-> durable_runtime_manifest(a)])
    /\ host' = [host EXCEPT !.intents = Remembered(c, a)]
    /\ UNCHANGED <<jobs, running, answers, restarts>>

\* The run resumes with an answer.  The same request is made again and must be the
\* stored one; then the plugin makes its manifest once more and executes.
Resume(c) ==
    /\ Free /\ c \in DOMAIN pending
    /\ durable_runtime_manifest(pending[c].args) = pending[c].bound
    /\ host' = [host EXCEPT !.intents = Remembered(c, pending[c].args)]
    /\ running' = [call |-> c, args |-> pending[c].args, bound |-> pending[c].bound]
    /\ UNCHANGED <<pending, jobs, answers, restarts>>

\* No approval is stored: a callback is asked while the call runs.
Execute(c, a) ==
    /\ Free /\ c \notin DOMAIN pending \cup DOMAIN jobs /\ can_handle(a)
    /\ host' = [host EXCEPT !.intents = Remembered(c, a)]
    /\ running' = [call |-> c, args |-> a, bound |-> durable_runtime_manifest(a)]
    /\ UNCHANGED <<pending, jobs, answers, restarts>>

Ended(c) ==
    /\ running' = NoCall
    /\ pending' = Restrict(pending, DOMAIN pending \ {c})

Denied ==
    /\ running # NoCall
    /\ Ended(running.call)
    /\ host' = [host EXCEPT !.intents = Forgotten(running.call)]
    /\ UNCHANGED <<jobs, answers, restarts>>

\* _start: the remembered intent while the arguments are the same; other arguments
\* are resolved now, in the remembered environment.
IntentToStart(c, a) ==
    LET known == c \in DOMAIN host.intents
    IN  IF known /\ host.intents[c].args = a THEN host.intents[c].intent
        ELSE _resolve_job_intent(a, IF known THEN host.intents[c].intent.env ELSE host.env)

\* The supervisor starts one job for a call: the same intent finds it, another is
\* refused.
supervisor_start(c, intent) ==
    IF c \in DOMAIN jobs THEN jobs ELSE jobs @@ (c :> [intent |-> intent, state |-> "running"])

\* The person agrees, perhaps to other arguments; a crash may hit before the result
\* of the call is recorded, and the stored approval is answered again.
_start(a, crash) ==
    LET c == running.call
        ok == a.background /\ IntentToStart(c, a).valid
    IN  /\ running # NoCall
        /\ c \in DOMAIN answers => answers[c].args = a
        /\ jobs' = IF ok THEN supervisor_start(c, IntentToStart(c, a)) ELSE jobs
        /\ answers' = answers @@ (c :> [args |-> a, shown |-> running.args, bound |-> running.bound])
        /\ IF crash
           THEN /\ running' = NoCall /\ UNCHANGED pending
                /\ host' = [cwd |-> Root, env |-> host.env, intents |-> <<>>]
                /\ restarts' = restarts + 1
           ELSE /\ Ended(c)
                /\ host' = [host EXCEPT !.intents = Forgotten(c)]
                /\ UNCHANGED restarts

\* poll and wait find the end of the job; kill cancels it.
_lifecycle(c, action) ==
    /\ Free /\ c \in DOMAIN jobs /\ jobs[c].state = "running"
    /\ jobs' = [jobs EXCEPT ![c].state = IF action = "kill" THEN "cancelled" ELSE "succeeded"]
    /\ UNCHANGED <<host, pending, running, answers, restarts>>

\* The process is started again, perhaps with another environment.
Restart(env) ==
    /\ restarts < MaxRestarts
    /\ host' = [cwd |-> Root, env |-> env, intents |-> <<>>]
    /\ running' = NoCall
    /\ restarts' = restarts + 1
    /\ UNCHANGED <<pending, jobs, answers>>

Init ==
    /\ \E env \in Envs : host = [cwd |-> Root, env |-> env, intents |-> <<>>]
    /\ pending = <<>> /\ jobs = <<>> /\ answers = <<>>
    /\ running = NoCall
    /\ restarts = 0

Next ==
    \/ \E d \in Dirs : Cd(d)
    \/ \E c \in Ids, a \in Arguments : Ask(c, a)
    \/ \E c \in Ids : Resume(c)
    \/ \E c \in Ids, a \in Arguments : Execute(c, a)
    \/ Denied
    \/ \E a \in Arguments, crash \in BOOLEAN : (crash => restarts < MaxRestarts) /\ _start(a, crash)
    \/ \E c \in Ids, action \in {"wait", "kill"} : _lifecycle(c, action)
    \/ \E env \in Envs : Restart(env)

Spec == Init /\ [][Next]_vars

----------------------------------------------------------------------------

\* JobAsApproved: a job that runs for a call whose arguments the person left alone
\* is the command, in the directory and the environment, that the approval bound
\* when it was asked for, although the session went elsewhere, the process was
\* restarted with another environment, or the call was resumed twice meanwhile.
JobAsApproved ==
    \A c \in DOMAIN jobs :
        answers[c].args = answers[c].shown => jobs[c].intent = answers[c].bound
=============================================================================
