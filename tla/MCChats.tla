------------------------------ MODULE MCChats ------------------------------
(* What a chat leaves in the databases, for TLC: ChatGenerations, with at    *)
(* most two chats and two executions; GraphExecution, with two hosts;        *)
(* Curator, with three completions, two workers and candidates that aim at   *)
(* one path.  A behaviour is of one of these parts; the variables of the     *)
(* others stay as they are.                                                  *)
EXTENDS ChatGenerations, FiniteSetsExt, TLC

CONSTANTS
    Parts,
    Hosts, Scenarios,
    Triggers, Isolating, Candidates, PathOf, Elsewhere, Workers, JobOps, Limit, User, Nothing,
    Refs, Below, CuratorSites

VARIABLES
    part,
    scenario, journal, lease, host, sidecar, cut, lost, crashes,
    usite, cands, jobs, claims, isolated, requests, ws, reviews, worker

gvars == <<scenario, journal, lease, host, sidecar, cut, lost, crashes>>
uvars == <<usite, cands, jobs, claims, isolated, requests, ws, reviews, worker>>
all == <<part, vars, gvars, uvars>>

ChatSite(cs, xs, gens, srcs, atts, ops, events, services) ==
    [chats |-> cs, execs |-> xs, gens |-> gens, sources |-> srcs, attempts |-> atts,
     ops |-> ops, events |-> events, services |-> services]
OneChat == kSubset(1, Chats)
Every == {"rebase", "advance", "bind", "bootstrap"}

\* One chat with three generations; two chats that compete for two executions;
\* one chat served by every service; one whose history is bootstrapped, late as
\* well, where nobody advances it.
MCSites ==
    {ChatSite(C, X, 3, 3, 3, 3, 5, {"rebase", "bind"}) :
        C \in OneChat, X \in kSubset(1, Execs)}
    \cup {ChatSite(Chats, Execs, 2, 2, 2, 2, 2, {"rebase", "bind"})}
    \cup {ChatSite(c, Execs, 3, 2, 1, 3, 3, Every) : c \in OneChat}
    \cup {ChatSite(c, Execs, 2, 2, 1, 2, 3, Every \ {"advance"}) : c \in OneChat}

\* One chat served by the lifecycle service.
Advancing == {ChatSite(C, Execs, 2, 2, 2, 2, 3, {"advance"}) : C \in OneChat}

ASSUME ChatAssumption == SitesFit /\ NoneFits

\* Two steps with a suspension and a crash; one step that prompts, waits for a
\* callback and calls a tool; one step that asks twice; one step whose host may
\* lose its lease or be stopped; two steps whose hosts start from old readings as
\* well; one step that waits for a larger budget.
MCScenarios ==
    {[steps |-> 2, outcomes |-> {"completed", "failed", "cancelled", "max"},
      asks |-> 1, tools |-> 0, lost |-> 0, crashes |-> 1, stale |-> FALSE],
     [steps |-> 1, outcomes |-> {"completed", "failed", "max", "prompt", "callback"},
      asks |-> 1, tools |-> 1, lost |-> 0, crashes |-> 0, stale |-> FALSE],
     [steps |-> 1, outcomes |-> {"completed", "callback"},
      asks |-> 2, tools |-> 0, lost |-> 0, crashes |-> 0, stale |-> FALSE],
     [steps |-> 1, outcomes |-> {"completed", "failed", "stop"},
      asks |-> 0, tools |-> 0, lost |-> 1, crashes |-> 0, stale |-> FALSE],
     [steps |-> 2, outcomes |-> {"completed", "stop"},
      asks |-> 0, tools |-> 0, lost |-> 1, crashes |-> 0, stale |-> TRUE],
     [steps |-> 1, outcomes |-> {"completed", "max_wait"},
      asks |-> 0, tools |-> 0, lost |-> 1, crashes |-> 0, stale |-> TRUE]}

\* One step, started from an old reading.
Stale == {[steps |-> 1, outcomes |-> {"completed"}, asks |-> 0, tools |-> 0,
           lost |-> 0, crashes |-> 0, stale |-> TRUE]}

G == INSTANCE GraphExecution

ASSUME GraphAssumption == G!ScenariosFit

MCCandidates == {"a", "b"}
MCPathOf == [c \in MCCandidates |-> "p"]
MCBelow == {<<"p", "e">>}

\* Runners report an entry and a review that nobody has written.
MCRefs == {[kind |-> "memory", id |-> [by |-> User, n |-> 9], rev |-> 1],
           [kind |-> "memory_review", t |-> CHOOSE t \in Isolating : TRUE, c |-> "a", binding |-> 2,
            id |-> [by |-> User, n |-> 9], rev |-> 1]}

Site(T, c, O, retryable, maxSpace) ==
    [triggers |-> T, candidates |-> c, ops |-> O, retryable |-> retryable,
     maxSpace |-> maxSpace]

\* Three completions race for one candidate; a job of two candidates that aim
\* at one path; one candidate while the user edits the workspace.
MCCuratorSites ==
    LET One == kSubset(1, Triggers \ Isolating)
    IN  {Site(Triggers, {"a"}, JobOps, TRUE, 1)}
        \union {Site(T, {"a", "b"}, JobOps, FALSE, 1) : T \in One}
        \union {Site(T, {"a"}, JobOps, FALSE, 3) : T \in One}

U == INSTANCE Curator WITH Ops <- JobOps, Sites <- CuratorSites, site <- usite

ASSUME CuratorAssumption == U!SitesFit /\ U!NoneFits

\* Workers, operation ids, the completions that do not isolate, chats,
\* executions and hosts are interchangeable.  The parts share model values, so
\* that one permutation serves them all.
MCSymmetry ==
    Permutations(Workers) \union Permutations(JobOps) \union Permutations(Triggers \ Isolating)

NoGraph ==
    /\ scenario = 0 /\ journal = 0 /\ lease = 0 /\ host = 0 /\ sidecar = 0 /\ cut = 0
    /\ lost = 0 /\ crashes = 0

NoCurator ==
    /\ usite = 0 /\ cands = 0 /\ jobs = 0 /\ claims = 0 /\ isolated = 0 /\ requests = 0
    /\ ws = 0 /\ reviews = 0 /\ worker = 0

MCInit ==
    /\ part \in Parts
    /\ Init /\ (part = "chats" \/ site.chats = Chats)
    /\ IF part = "graph" THEN G!Init ELSE NoGraph
    /\ IF part = "curator" THEN U!Init ELSE NoCurator

MCNext ==
    /\ UNCHANGED part
    /\ \/ part = "chats" /\ Next /\ UNCHANGED <<gvars, uvars>>
       \/ part = "graph" /\ G!Next /\ UNCHANGED <<vars, uvars>>
       \/ part = "curator" /\ U!Next /\ UNCHANGED <<vars, gvars>>

MCSpec == MCInit /\ [][MCNext]_all

\* The journal of a graph stays one a rebase accepts, as long as its hosts start
\* from current readings and keep their leases and nobody stops it
\* (GraphExecution!JournalStaysRebasable).
JournalStaysRebasable == part = "graph" => G!JournalStaysRebasable

\* The recovery scan and the rebase preflight read one journal alike, under the
\* same condition (GraphExecution!ReadersAgree).
ReadersAgree == part = "graph" => G!ReadersAgree

\* A graph is cut over only when nothing of it runs, under the same condition
\* (GraphExecution!CutOnlyWhenDead).
CutOnlyWhenDead == [][part = "graph" => G!CutStep]_all

\* "a terminal written here would become a second one and quarantine the chat":
\* an attempt has one terminal (GraphExecution!OneTerminal).
OneTerminal == part = "graph" => G!OneTerminal

\* Every job carries the current rows of its candidates, which belong to no other
\* job (Curator!SnapshotsAgree).
SnapshotsAgree == part = "curator" => U!SnapshotsAgree

\* Only candidates of jobs reach the workspace, each once (Curator!AppliedOnce).
AppliedOnce == part = "curator" => U!AppliedOnce

\* An entry is replaced only as it was reviewed, and only the latest claim ends a
\* job (Curator!DecidedAsReviewed).
DecidedAsReviewed == [][part = "curator" => U!ReviewedStep]_all
=============================================================================
