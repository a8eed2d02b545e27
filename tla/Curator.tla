------------------------------ MODULE Curator ------------------------------
(***************************************************************************)
(* The memory curator: candidates an agent run proposes, the consolidation *)
(* job a completed root run turns them into, the workers that lease the    *)
(* job and apply its candidates to the memory workspace, and the user's    *)
(* decision on a candidate that would overwrite an entry.                  *)
(*   persistence/sqlite_curator_v2.py             the tables               *)
(*   memory/curator/coordinator.py, host.py       enqueue, claim, process  *)
(*   persistence/sqlite_memory_host_v2.py         what a worker may apply  *)
(*   persistence/sqlite_curator_review_decision_v2.py   decide             *)
(* Each transaction is one step; what a worker reads in one transaction it *)
(* uses in a later one.  A call that only raises, or answers from its      *)
(* receipt, changes nothing and is no step.  The wall clock appears as the *)
(* expiry of a lease and the end of a retry delay.  All workers share one  *)
(* worker id, the default of MemoryAgentHostConfig, and a claim's operation*)
(* id comes from the host, which may repeat it.                            *)
(***************************************************************************)
EXTENDS MemoryWorkspace

CONSTANTS
    Triggers,    \* root-run completions (session, attempt, run) of one root run
    Isolating,   \* those of a failed, cancelled or partly captured run
    Candidates,
    PathOf,      \* the target path of each candidate
    Elsewhere,   \* another path
    Workers,     \* worker processes
    Ops,         \* operation ids of process_next
    Limit,       \* MAX_CANDIDATES_PER_JOB
    User,        \* author of the entries written outside curation
    Refs,        \* references a runner may report besides the recorded reviews
    None, Nothing,
    Sites        \* see SiteType

\* The completions, candidates and operation ids that occur, whether a runner
\* failure may be retryable, and the space revision user edits stop at.
SiteType == [triggers : SUBSET Triggers, candidates : SUBSET Candidates,
             ops : SUBSET Ops, retryable : BOOLEAN, maxSpace : Nat]

SitesFit ==
    /\ Isolating \subseteq Triggers /\ IsFiniteSet(Triggers)
    /\ Candidates = DOMAIN PathOf /\ User \notin Candidates
    /\ Limit \in Nat
    /\ Sites \subseteq SiteType

VARIABLES
    site,       \* one of Sites
    cands,      \* candidate rows: status, binding revision, result
    jobs,       \* consolidation jobs by trigger, None before enqueue
    claims,     \* receipts of claim_next by operation id
    isolated,   \* triggers with an isolation receipt
    requests,   \* enqueue calls between listing and writing: [t, set]
    ws,         \* the memory workspace
    reviews,    \* memory_review_proposals rows
    worker      \* what each worker process holds

vars == <<site, cands, jobs, claims, isolated, requests, ws, reviews, worker>>

Idle == [pc |-> "idle", job |-> None, call |-> None]

Terminal == {"completed", "failed", "cancelled"}
Resolved == {"applied", "superseded", "rejected", "isolated"}

(***************************************************************************)
(* The rows of the tables and what a worker holds.                         *)
(***************************************************************************)
Paths == {PathOf[c] : c \in Candidates} \union {Elsewhere}
Authors == Candidates \union {User}
EntryIds == [by : Authors, n : Nat]
Entries == [path : Paths, kind : {"file", "folder"}, rev : Nat \ {0}, from : Authors,
            deleted : BOOLEAN]
Revisions == [id : EntryIds, rev : Nat \ {0}, from : Authors]
Receipts == [space : Nat, id : EntryIds, rev : Nat]

IsWorkspace(w) ==
    /\ w = [space |-> w.space, entries |-> w.entries, revisions |-> w.revisions,
            receipts |-> w.receipts]
    /\ w.space \in Nat
    /\ DOMAIN w.entries \subseteq EntryIds /\ w.entries \in [DOMAIN w.entries -> Entries]
    /\ w.revisions \subseteq Revisions
    /\ DOMAIN w.receipts \subseteq EntryIds /\ w.receipts \in [DOMAIN w.receipts -> Receipts]

EntryRefs == [kind : {"memory"}, id : EntryIds, rev : Nat]
Reviews == [kind : {"memory_review"}, t : Triggers, c : Candidates, binding : Nat,
            id : EntryIds, rev : Nat]
Results == {None} \union EntryRefs \union Reviews
Rows == [status : {"absent", "pending", "queued", "processing", "awaiting_user"}
                    \union Resolved,
         rev : Nat, result : Results]

Leases == [op : Ops, rev : Nat, expired : BOOLEAN]
Claims == [t : Triggers, rev : Nat]
Requests == [t : Triggers, set : SUBSET Candidates]

\* The jobs of the candidates D, and what a worker holds of one of them.
Jobs(D) ==
    [status : {"pending", "leased"} \union Terminal, rev : Nat, due : BOOLEAN,
     lease : {None} \union Leases, created : Nat, cands : [D -> Rows]]
Held(D) == [t : Triggers, rev : Nat, cands : [D -> Rows]]
Calls == [tool : {"apply"}, c : Candidates, space : Nat]
           \union [tool : {"review"}, c : Candidates, id : EntryIds, rev : Nat]
Holdings(D) ==
    [pc : {"idle", "claimed", "running"}, job : {None} \union Held(D),
     call : {None} \union Calls]

\* None is no row, and a runner reports references to entries and to reviews.
NoneFits ==
    /\ Refs \subseteq EntryRefs \union Reviews
    /\ None \notin Leases
    /\ \A D \in SUBSET Candidates : None \notin Jobs(D) /\ None \notin Held(D)

Snapshot(status, rev, result) ==
    [status |-> status, rev |-> rev, result |-> result]

Init ==
    /\ site \in Sites
    /\ cands = [c \in Candidates |-> Snapshot("absent", 0, None)]
    /\ jobs = [t \in Triggers |-> None]
    /\ claims = [o \in Ops |-> None]
    /\ isolated = {}
    /\ requests = {}
    /\ ws = EmptyWorkspace
    /\ reviews = {}
    /\ worker = [w \in Workers |-> Idle]

(***************************************************************************)
(* Candidates and the enqueue of a job.                                    *)
(***************************************************************************)
Pending == {c \in Candidates : cands[c].status = "pending"}

\* with_outcome: the next binding revision of every candidate of a job.
Outcome(snapshots, res) ==
    [c \in DOMAIN snapshots |->
        Snapshot(res[c].outcome, snapshots[c].rev + 1, res[c].ref)]

Alike(snapshots, status) ==
    Outcome(snapshots, [c \in DOMAIN snapshots |-> [outcome |-> status, ref |-> None]])

Propose(c) ==
    /\ cands[c].status = "absent"
    /\ cands' = [cands EXCEPT ![c] = [@ EXCEPT !.status = "pending"]]
    /\ UNCHANGED <<jobs, claims, isolated, requests, ws, reviews, worker>>

\* A list of the pending candidates holds Limit + 1 of them at most.
Listed(set) ==
    /\ set = Pending \/ Cardinality(set) = Limit + 1
    /\ Cardinality(set) <= Limit + 1

IsolateCandidates(t) ==
    /\ t \in Isolating \ isolated
    /\ isolated' = isolated \union {t}
    /\ \E set \in SUBSET Pending :
         /\ Listed(set)
         /\ cands' = Overlay([c \in set |-> Snapshot("isolated", 1, None)], cands)
    /\ UNCHANGED <<jobs, claims, requests, ws, reviews, worker>>

EnqueueList(t) ==
    /\ t \notin Isolating
    /\ jobs[t] = None
    /\ Cardinality(Pending) \in 1 .. Limit
    /\ requests' = requests \union {[t |-> t, set |-> Pending]}
    /\ UNCHANGED <<cands, jobs, claims, isolated, ws, reviews, worker>>

Job(status, rev, due, lease, created, snapshots) ==
    [status |-> status, rev |-> rev, due |-> due, lease |-> lease, created |-> created,
     cands |-> snapshots]

PendingJob(set) ==
    Job("pending", 1, TRUE, None, Cardinality({t \in Triggers : jobs[t] # None}),
        [c \in set |-> Snapshot("queued", 1, None)])

StillPending(q) == jobs[q.t] = None /\ q.set \subseteq Pending

EnqueueWrite(q) ==
    /\ requests' = requests \ {q}
    /\ IF StillPending(q)
       THEN /\ jobs' = [jobs EXCEPT ![q.t] = PendingJob(q.set)]
            /\ cands' = Overlay(PendingJob(q.set).cands, cands)
       ELSE UNCHANGED <<jobs, cands>>
    /\ UNCHANGED <<claims, isolated, ws, reviews, worker>>

(***************************************************************************)
(* The lifecycle of a job: claim, complete, fail, cancel.                  *)
(***************************************************************************)
Claimable(t) ==
    /\ jobs[t] # None
    /\ \/ jobs[t].status = "pending" /\ jobs[t].due
       \/ jobs[t].status = "leased" /\ jobs[t].lease.expired

Oldest(t) ==
    \A u \in Triggers : Claimable(u) => jobs[t].created <= jobs[u].created

\* with_lease: a job taken over after its lease expired keeps its candidates
\* as they are; only a pending job moves them on to processing.
Leased(t, o) ==
    LET job == jobs[t] IN
    Job("leased", job.rev + 1, TRUE, [op |-> o, rev |-> job.rev, expired |-> FALSE],
        job.created,
        IF job.status = "pending" THEN Alike(job.cands, "processing") ELSE job.cands)

Holding(w, t, job) ==
    worker' = [worker EXCEPT
        ![w] = [pc |-> "claimed", job |-> [t |-> t, rev |-> job.rev, cands |-> job.cands],
                call |-> None]]

ClaimNew(w, o) ==
    /\ worker[w] = Idle
    /\ claims[o] = None
    /\ IF \E t \in Triggers : Claimable(t)
       THEN \E t \in Triggers :
              /\ Claimable(t) /\ Oldest(t)
              /\ jobs' = [jobs EXCEPT ![t] = Leased(t, o)]
              /\ cands' = Overlay(Leased(t, o).cands, cands)
              /\ claims' = [claims EXCEPT ![o] = [t |-> t, rev |-> Leased(t, o).rev]]
              /\ Holding(w, t, Leased(t, o))
       ELSE /\ claims' = [claims EXCEPT ![o] = Nothing]
            /\ UNCHANGED <<jobs, cands, worker>>
    /\ UNCHANGED <<isolated, requests, ws, reviews>>

\* The recorded lease, or one the clock has already passed: claim_next raises
\* on a job whose lease is over, and process_claimed drops a superseded one.
ClaimReplayed(w, o) ==
    /\ worker[w] = Idle
    /\ claims[o] \notin {None, Nothing}
    /\ LET t == claims[o].t IN
       /\ jobs[t].rev = claims[o].rev
       /\ ~jobs[t].lease.expired
       /\ Holding(w, t, jobs[t])
    /\ UNCHANGED <<cands, jobs, claims, isolated, requests, ws, reviews>>

\* _assert_fence_in_transaction: the job is still leased at this revision
\* under this token, and the lease has not expired.
Fenced(w) ==
    LET mine == worker[w].job
        now == jobs[mine.t]
    IN  /\ now.status = "leased"
        /\ now.rev = mine.rev
        /\ ~now.lease.expired

Drop(w) == worker' = [worker EXCEPT ![w] = Idle]

\* MemoryAgentHostAdapter._build_runner and the checks of process_claimed.
Start(w) ==
    /\ worker[w].pc = "claimed"
    /\ IF Fenced(w)
       THEN worker' = [worker EXCEPT ![w] = [@ EXCEPT !.pc = "running"]]
       ELSE Drop(w)
    /\ UNCHANGED <<cands, jobs, claims, isolated, requests, ws, reviews>>

\* A mutant: the head of the job moves, the candidate rows do not.
MovedHeadOnly(t, status, due, snapshots) ==
    /\ jobs' = [jobs EXCEPT ![t] =
                   Job(status, @.rev + 1, due, None, @.created, snapshots)]
    /\ cands' = cands

Moved(t, status, due, snapshots) ==
    /\ jobs' = [jobs EXCEPT ![t] =
                   Job(status, @.rev + 1, due, None, @.created, snapshots)]
    /\ cands' = Overlay(snapshots, cands)

IsolatedAll(t) == Alike(jobs[t].cands, "isolated")

Ready(w) == worker[w].pc = "running" /\ worker[w].call = None

\* The resolutions a runner may give: applied and superseded name an entry,
\* awaiting_user names a review.  Neither the runner nor reconcile_and_complete
\* looks the entry or the review up.
Reports ==
    [outcome : {"applied", "superseded"}, ref : {x \in Refs : x.kind = "memory"}]
    \union [outcome : {"awaiting_user"},
            ref : reviews \union {x \in Refs : x.kind = "memory_review"}]
    \union [outcome : {"rejected", "isolated"}, ref : {None}]

ReconcileAndComplete(w) ==
    /\ Ready(w)
    /\ IF Fenced(w)
       THEN LET t == worker[w].job.t IN
            \E res \in [DOMAIN jobs[t].cands -> Reports] :
               Moved(t, "completed", TRUE, Outcome(jobs[t].cands, res))
       ELSE UNCHANGED <<jobs, cands>>
    /\ Drop(w)
    /\ UNCHANGED <<claims, isolated, requests, ws, reviews>>

\* A retryable failure requeues the job after a delay; any other isolates
\* its candidates for good.  Neither does anything once the fence is lost.
FailRetryable(w) ==
    /\ site.retryable
    /\ Ready(w)
    /\ IF Fenced(w)
       THEN LET t == worker[w].job.t IN
            Moved(t, "pending", FALSE,
                  Alike(jobs[t].cands, "queued"))
       ELSE UNCHANGED <<jobs, cands>>
    /\ Drop(w)
    /\ UNCHANGED <<claims, isolated, requests, ws, reviews>>

FailTerminal(w) ==
    /\ Ready(w)
    /\ IF Fenced(w)
       THEN LET t == worker[w].job.t IN Moved(t, "failed", TRUE, IsolatedAll(t))
       ELSE UNCHANGED <<jobs, cands>>
    /\ Drop(w)
    /\ UNCHANGED <<claims, isolated, requests, ws, reviews>>

Cancel(t) ==
    /\ jobs[t] # None
    /\ jobs[t].status \notin Terminal
    /\ Moved(t, "cancelled", TRUE, IsolatedAll(t))
    /\ UNCHANGED <<claims, isolated, requests, ws, reviews, worker>>

LeaseExpires(t) ==
    /\ jobs[t] # None
    /\ jobs[t].status = "leased" /\ ~jobs[t].lease.expired
    /\ LET job == jobs[t]
           over == [op |-> job.lease.op, rev |-> job.lease.rev, expired |-> TRUE]
       IN  jobs' = [jobs EXCEPT ![t] =
                       Job(job.status, job.rev, job.due, over, job.created, job.cands)]
    /\ UNCHANGED <<cands, claims, isolated, requests, ws, reviews, worker>>

RetryDue(t) ==
    /\ jobs[t] # None
    /\ jobs[t].status = "pending" /\ ~jobs[t].due
    /\ jobs' = [jobs EXCEPT ![t] = [@ EXCEPT !.due = TRUE]]
    /\ UNCHANGED <<cands, claims, isolated, requests, ws, reviews, worker>>

WorkerDies(w) ==
    /\ worker[w] # Idle
    /\ Drop(w)
    /\ UNCHANGED <<cands, jobs, claims, isolated, requests, ws, reviews>>

(***************************************************************************)
(* What a running worker does to the workspace.  The fence is checked in   *)
(* one transaction and the effect written in a later one.                  *)
(***************************************************************************)
\* _mutation_candidate: the durable candidate is the claimed one, fence held.
MayMutate(w, c) ==
    /\ Ready(w)
    /\ c \in DOMAIN worker[w].job.cands
    /\ cands[c] = worker[w].job.cands[c]
    /\ Fenced(w)

\* A mutant: the identity follows the revision of the leased job.
EntryOfLease(w, c) == [by |-> c, n |-> worker[w].job.rev]

\* _stable_entry_id: the same for every lease of one binding revision.
StableEntry(w, c) == [by |-> c, n |-> worker[w].job.cands[c].rev]

Call(w, call) == worker' = [worker EXCEPT ![w] = [@ EXCEPT !.call = call]]

Exists(w, c) == StableEntry(w, c) \in DOMAIN ws.entries

\* apply_new, up to its last look at the fence.  The candidate's entry, when it
\* exists, is the answer, or an error when somebody has changed it.
ApplyNewCheck(w, c) ==
    /\ MayMutate(w, c)
    /\ ~Exists(w, c)
    /\ Occupants(ws, PathOf[c], None) = {}
    /\ Call(w, [tool |-> "apply", c |-> c, space |-> ws.space])
    /\ UNCHANGED <<cands, jobs, claims, isolated, requests, ws, reviews>>

ApplyRequest(w, call) ==
    [op |-> StableEntry(w, call.c), id |-> StableEntry(w, call.c),
     space |-> call.space, expected |-> 0, recursive |-> FALSE,
     entry |-> Entry(PathOf[call.c], "file", 1, call.c, FALSE)]

\* A conflict is reported to the runner and writes nothing.
ApplyNewWrite(w) ==
    LET call == worker[w].call
    IN  /\ worker[w].pc = "running" /\ call # None /\ call.tool = "apply"
        /\ ws' = Apply(ws, ApplyRequest(w, call)).ws
        /\ Call(w, None)
        /\ UNCHANGED <<cands, jobs, claims, isolated, requests, reviews>>

ProposeReviewCheck(w, c) ==
    /\ MayMutate(w, c)
    /\ \E id \in Occupants(ws, PathOf[c], None) :
         Call(w, [tool |-> "review", c |-> c, id |-> id, rev |-> ws.entries[id].rev])
    /\ UNCHANGED <<cands, jobs, claims, isolated, requests, ws, reviews>>

Review(w, call) ==
    [kind |-> "memory_review", t |-> worker[w].job.t, c |-> call.c,
     binding |-> worker[w].job.cands[call.c].rev, id |-> call.id, rev |-> call.rev]

ProposeReviewWrite(w) ==
    LET call == worker[w].call IN
    /\ worker[w].pc = "running" /\ call # None /\ call.tool = "review"
    /\ reviews' = reviews \union {Review(w, call)}
    /\ Call(w, None)
    /\ UNCHANGED <<cands, jobs, claims, isolated, requests, ws>>

(***************************************************************************)
(* The user's decision on a review, and the user's own edits.              *)
(***************************************************************************)
\* _verified_review_publication, and the current candidate and job behind it.
Undecided(r) ==
    /\ cands[r.c] = Snapshot("awaiting_user", r.binding + 1, r)
    /\ jobs[r.t].status = "completed"
    /\ cands[r.c] = jobs[r.t].cands[r.c]

\* A mutant: the decision overwrites whatever the entry has become.
TargetAnyRevision(r) == Occupants(ws, PathOf[r.c], r.id) = {}

\* _apply_workspace: the target is exactly the reviewed revision, and still
\* the only entry at the candidate's path.
TargetUnchanged(r) ==
    /\ ws.entries[r.id].rev = r.rev
    /\ Occupants(ws, PathOf[r.c], r.id) = {}

Decided(r, status, ref) ==
    LET after == Snapshot(status, cands[r.c].rev + 1, ref) IN
    /\ cands' = [cands EXCEPT ![r.c] = after]
    /\ jobs' = [jobs EXCEPT ![r.t] =
                   Job(@.status, @.rev + 1, @.due, @.lease, @.created,
                       [@.cands EXCEPT ![r.c] = after])]
    /\ UNCHANGED <<claims, isolated, requests, reviews, worker>>

DecideApply(r) ==
    LET next == ws.entries[r.id].rev + 1 IN
    /\ Undecided(r)
    /\ TargetUnchanged(r)
    /\ ws' = [WithRevision(ws, r.id, Entry(PathOf[r.c], "file", next, r.c, FALSE))
                EXCEPT !.space = @ + 1]
    /\ Decided(r, "applied", [kind |-> "memory", id |-> r.id, rev |-> next])

DecideReject(r) ==
    /\ Undecided(r)
    /\ UNCHANGED ws
    /\ Decided(r, "rejected", None)

UserWrites(id, expected, entry, recursive) ==
    LET done == Apply(ws, [op |-> [by |-> User, n |-> ws.space], id |-> id,
                           space |-> ws.space, expected |-> expected,
                           recursive |-> recursive, entry |-> entry])
    IN  /\ ws.space < site.maxSpace
        /\ done.ok
        /\ ws' = done.ws
        /\ UNCHANGED <<cands, jobs, claims, isolated, requests, reviews, worker>>

UserCreate(path, kind) ==
    UserWrites([by |-> User, n |-> ws.space], 0, Entry(path, kind, 1, User, FALSE), FALSE)

\* write_markdown on an entry, move and archive; archived entries stay so.
UserEdit(id) ==
    LET e == ws.entries[id] IN
    /\ ~e.deleted
    /\ UserWrites(id, e.rev, Entry(e.path, e.kind, e.rev + 1, User, FALSE), FALSE)

UserMove(id, path) ==
    LET e == ws.entries[id] IN
    /\ ~e.deleted
    /\ path # e.path
    /\ UserWrites(id, e.rev, Entry(path, e.kind, e.rev + 1, e.from, FALSE), FALSE)

UserArchive(id, recursive) ==
    LET e == ws.entries[id] IN
    /\ ~e.deleted
    /\ recursive => e.kind = "folder"
    /\ UserWrites(id, e.rev, Archived(e), recursive)

(***************************************************************************)
(* The system.                                                             *)
(***************************************************************************)
CandidateStep == \E c \in site.candidates : Propose(c)

JobStep ==
    \/ \E t \in site.triggers : IsolateCandidates(t) \/ EnqueueList(t) \/ Cancel(t)
                             \/ LeaseExpires(t) \/ RetryDue(t)
    \/ \E q \in requests : EnqueueWrite(q)

WorkerStep(w) ==
    \/ \E o \in site.ops : ClaimNew(w, o) \/ ClaimReplayed(w, o)
    \/ Start(w)
    \/ ReconcileAndComplete(w)
    \/ FailRetryable(w)
    \/ FailTerminal(w)
    \/ WorkerDies(w)
    \/ ApplyNewWrite(w)
    \/ ProposeReviewWrite(w)
    \/ \E c \in Candidates : ApplyNewCheck(w, c) \/ ProposeReviewCheck(w, c)

DecisionStep == \E r \in reviews : DecideApply(r) \/ DecideReject(r)

UserStep ==
    \/ \E p \in Paths, k \in {"file", "folder"} : UserCreate(p, k)
    \/ \E id \in DOMAIN ws.entries :
         \/ UserEdit(id)
         \/ \E p \in Paths : UserMove(id, p)
         \/ \E recursive \in BOOLEAN : UserArchive(id, recursive)

Step == CandidateStep \/ JobStep \/ (\E w \in Workers : WorkerStep(w))
          \/ DecisionStep \/ UserStep

Next == Step /\ UNCHANGED site

Spec == Init /\ [][Next]_vars

(***************************************************************************)
(* Properties.                                                             *)
(***************************************************************************)
\* The rows of the curator tables keep their shape, and no two live
\* workspace entries share a path (idx_entries_active_path).
TypeOK ==
    /\ site \in Sites
    /\ cands \in [Candidates -> Rows]
    /\ DOMAIN jobs = Triggers
    /\ claims \in [Ops -> {None, Nothing} \union Claims]
    /\ requests \subseteq Requests
    /\ IsWorkspace(ws)
    /\ reviews \subseteq Reviews
    /\ DOMAIN worker = Workers
    /\ \A w \in Workers : \E D \in SUBSET Candidates : worker[w] \in Holdings(D)
    /\ \A t \in Triggers : jobs[t] # None =>
         /\ \E D \in SUBSET Candidates : jobs[t] \in Jobs(D)
         /\ (jobs[t].lease # None) = (jobs[t].status = "leased")
         /\ DOMAIN jobs[t].cands # {}
    /\ \A id \in Live(ws) : Occupants(ws, ws.entries[id].path, id) = {}

\* Every job head carries exactly the current rows of its candidates, and a
\* candidate belongs to at most one job.  A job for which this failed could
\* never be claimed, completed, failed or cancelled again: each transition
\* starts by comparing the two (_write_candidate_transition).
SnapshotsAgree ==
    /\ TypeOK
    /\ \A t \in Triggers : jobs[t] # None =>
         \A c \in DOMAIN jobs[t].cands : cands[c] = jobs[t].cands[c]
    /\ \A t, u \in Triggers : t # u /\ jobs[t] # None /\ jobs[u] # None =>
         DOMAIN jobs[t].cands \cap DOMAIN jobs[u].cands = {}
    /\ \A c \in Candidates : cands[c].status \in {"queued", "processing"} =>
         \E t \in Triggers : jobs[t] # None /\ c \in DOMAIN jobs[t].cands

\* Nothing of a candidate is in the workspace unless a job has it: nothing of one
\* that was isolated with its failed or partly captured run, although a stale
\* enqueue may still name it.  And without retryable failures a candidate creates
\* at most one entry, however often its job is taken over, whatever a late worker
\* still writes, and even if the user moves the entry away in between
\* (_stable_effect_operation_id).
AppliedOnce ==
    /\ \A r \in ws.revisions : r.from \in Candidates =>
         \E t \in Triggers : jobs[t] # None /\ r.from \in DOMAIN jobs[t].cands
    /\ ~site.retryable => \A c \in Candidates :
         Cardinality({r \in ws.revisions : r.from = c /\ r.rev = 1}) <= 1

\* A candidate replaces an entry only by the user's decision on a review of
\* exactly that revision: an entry edited after the review is never lost.  A
\* job reaches "completed" only by the worker whose claim is the latest
\* (reconcile_and_complete), and what became of a candidate is final: applied,
\* superseded, rejected and isolated never change, and a review waits for the user,
\* whatever workers that were taken over, a late cancellation or a repeated
\* completion callback do.
ReviewedStep ==
    /\ \A r \in ws'.revisions \ ws.revisions :
            r.from \in Candidates /\ r.rev > 1 /\ ~ws'.entries[r.id].deleted
               /\ ws.entries[r.id].from # r.from =>
            /\ cands[r.from].status = "awaiting_user"
            /\ cands[r.from].result.id = r.id
            /\ cands[r.from].result.rev = ws.entries[r.id].rev
    /\ \A t \in Triggers :
            jobs[t] # None /\ jobs[t].status # "completed" /\ jobs'[t].status = "completed"
            => \E w \in Workers : /\ worker[w].job # None
                                  /\ worker[w].job.t = t
                                  /\ worker[w].job.rev = jobs[t].rev
                                  /\ worker'[w] = Idle
    /\ \A c \in Candidates :
            /\ cands[c].status \in Resolved => cands'[c] = cands[c]
            /\ cands[c].status = "awaiting_user" /\ cands'[c] # cands[c] =>
                 cands'[c].status \in {"applied", "rejected"}
DecidedAsReviewed == [][ReviewedStep]_vars
=============================================================================
