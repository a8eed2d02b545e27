--------------------------- MODULE CuratorSafety ---------------------------
(***************************************************************************)
(* What the curator keeps to, for every set of completions, candidates,    *)
(* workers and operation ids: a job carries the rows of its candidates,    *)
(* nothing of a candidate is in the workspace unless a job has it, and an  *)
(* entry is replaced only as the user reviewed it.  IInv is the invariant  *)
(* these rest on.                                                          *)
(***************************************************************************)
EXTENDS Curator, FiniteSetTheorems, TLAPS

\* Most steps need no arithmetic; the ones that do name the SMT solver.
USE ZenonT(30)

(***************************************************************************)
(* The inductive invariant.                                                *)
(***************************************************************************)
\* The record sets of Curator, each as a fact about one record.
IsRows(f) == DOMAIN f \subseteq Candidates /\ f \in [DOMAIN f -> Rows]

IsJob(j) ==
    /\ j = [status |-> j.status, rev |-> j.rev, due |-> j.due, lease |-> j.lease,
            created |-> j.created, cands |-> j.cands]
    /\ j.status \in {"pending", "leased"} \union Terminal
    /\ j.rev \in Nat /\ j.due \in BOOLEAN /\ j.created \in Nat
    /\ IF j.status = "leased" THEN j.lease \in Leases ELSE j.lease = None
    /\ IsRows(j.cands) /\ DOMAIN j.cands # {}

IsHeld(j) ==
    /\ j = [t |-> j.t, rev |-> j.rev, cands |-> j.cands]
    /\ j.t \in Triggers /\ j.rev \in Nat /\ IsRows(j.cands)

IsHolding(h) ==
    /\ h = [pc |-> h.pc, job |-> h.job, call |-> h.call]
    /\ h.pc \in {"idle", "claimed", "running"}
    /\ h.job = None \/ IsHeld(h.job)
    /\ h.call = None \/ h.call \in Calls

\* The candidates of a job stand where its status says; without retries the
\* binding revision of a candidate counts the steps of its job.
Stand(status, snapshots, retryable) ==
    \A c \in DOMAIN snapshots :
      /\ status = "pending" => snapshots[c].status = "queued"
      /\ status = "leased" => snapshots[c].status = "processing"
      /\ status = "completed" => snapshots[c].status \in Resolved \union {"awaiting_user"}
      /\ status \in {"failed", "cancelled"} => snapshots[c].status = "isolated"
      /\ ~retryable =>
           /\ status = "pending" => snapshots[c].rev = 1
           /\ status = "leased" => snapshots[c].rev = 2

\* A receipt of claim_next names a lease of the job, the current one or an
\* earlier one.
ClaimStands(claim, js) ==
    /\ js[claim.t] # None
    /\ claim.rev <= js[claim.t].rev
    /\ claim.rev = js[claim.t].rev => js[claim.t].status = "leased"

\* A review is of a candidate of its job and of an entry of the workspace.
ReviewStands(r, js, w) ==
    /\ js[r.t] # None
    /\ r.c \in DOMAIN js[r.t].cands
    /\ r.id \in DOMAIN w.entries

\* Some job has candidate c.
HasJob(c, js) == \E t \in Triggers : js[t] # None /\ c \in DOMAIN js[t].cands

\* What a worker holds is of a job on file, and a review under way is of an
\* entry on file.
WorkerStands(h, js, w, retryable) ==
    /\ h.pc = "idle" => h = Idle
    /\ h.pc # "idle" =>
         /\ IsHeld(h.job)
         /\ js[h.job.t] # None
         /\ DOMAIN h.job.cands = DOMAIN js[h.job.t].cands
         /\ ~retryable => \A c \in DOMAIN h.job.cands : h.job.cands[c].rev = 2
    /\ h.call # None =>
         /\ h.pc = "running"
         /\ h.call.c \in DOMAIN h.job.cands
         /\ h.call.tool = "review" => h.call.id \in DOMAIN w.entries

\* Heads and receipts have their revision on file, the first revision of an
\* entry is by the author its id names, and no two live entries share a path.
Filed(w) ==
    /\ \A id \in DOMAIN w.entries :
         [id |-> id, rev |-> w.entries[id].rev, from |-> w.entries[id].from] \in w.revisions
    /\ \A r \in w.revisions : r.rev = 1 => r.from = r.id.by
    /\ \A op \in DOMAIN w.receipts : \E r \in w.revisions :
         r.id = w.receipts[op].id /\ r.rev = w.receipts[op].rev
    /\ \A id \in Live(w) : Occupants(w, w.entries[id].path, id) = {}

\* Without retries a candidate has one entry id, that of its second binding.
OneId(w) ==
    \A r \in w.revisions : r.rev = 1 /\ r.from \in Candidates => r.id.n = 2

\* The candidate rows and the jobs.
Tables ==
    /\ cands \in [Candidates -> Rows]
    /\ DOMAIN jobs = Triggers
    /\ \A t \in Triggers : jobs[t] # None =>
         IsJob(jobs[t]) /\ Stand(jobs[t].status, jobs[t].cands, site.retryable)
    /\ \A t \in Triggers : jobs[t] # None =>
         \A c \in DOMAIN jobs[t].cands : cands[c] = jobs[t].cands[c]
    /\ \A t, u \in Triggers : t # u /\ jobs[t] # None /\ jobs[u] # None =>
         DOMAIN jobs[t].cands \cap DOMAIN jobs[u].cands = {}
    /\ \A c \in Candidates : cands[c].status \in {"queued", "processing"} =>
         \E t \in Triggers : jobs[t] # None /\ c \in DOMAIN jobs[t].cands

Claimed ==
    /\ claims \in [Ops -> {None, Nothing} \union Claims]
    /\ \A o \in Ops : claims[o] \notin {None, Nothing} => ClaimStands(claims[o], jobs)

Requested == requests \subseteq Requests /\ \A q \in requests : q.set # {}

Reviewed == reviews \subseteq Reviews /\ \A r \in reviews : ReviewStands(r, jobs, ws)

Working ==
    /\ DOMAIN worker = Workers
    /\ \A w \in Workers :
         IsHolding(worker[w]) /\ WorkerStands(worker[w], jobs, ws, site.retryable)

Applied == \A r \in ws.revisions : r.from \in Candidates => HasJob(r.from, jobs)

Archive == IsWorkspace(ws) /\ Filed(ws) /\ (~site.retryable => OneId(ws))

IInv ==
    /\ site \in Sites
    /\ Tables /\ Claimed /\ Requested /\ Reviewed /\ Working /\ Applied /\ Archive

(***************************************************************************)
(* Records and None.                                                       *)
(***************************************************************************)
\* A job of IsJob is one of Jobs, and so is not None.
LEMMA JobIsRow ==
    ASSUME NoneFits, NEW j, IsJob(j)
    PROVE  j \in Jobs(DOMAIN j.cands) /\ DOMAIN j.cands \in SUBSET Candidates /\ j # None
<1>1. j \in Jobs(DOMAIN j.cands)
  BY SMT DEF IsJob, Jobs, IsRows
<1>2. QED BY <1>1 DEF NoneFits, IsJob, IsRows

\* What a worker holds of a job is not None.
LEMMA HeldIsRow ==
    ASSUME NoneFits, NEW j, IsHeld(j)
    PROVE  j \in Held(DOMAIN j.cands) /\ DOMAIN j.cands \in SUBSET Candidates /\ j # None
<1>1. j \in Held(DOMAIN j.cands)
  BY SMT DEF IsHeld, Held, IsRows
<1>2. QED BY <1>1 DEF NoneFits, IsHeld, IsRows

\* A holding of IsHolding is one of Holdings.
LEMMA HoldingIsRow ==
    ASSUME NoneFits, NEW h, IsHolding(h)
    PROVE  \E D \in SUBSET Candidates : h \in Holdings(D)
<1>1. CASE h.job = None
  <2>1. h \in Holdings({}) BY <1>1, SMT DEF IsHolding, Holdings
  <2>2. {} \in SUBSET Candidates OBVIOUS
  <2>3. QED BY <2>1, <2>2
<1>2. CASE IsHeld(h.job)
  <2>1. h.job \in Held(DOMAIN h.job.cands) /\ DOMAIN h.job.cands \in SUBSET Candidates
    BY <1>2, HeldIsRow
  <2>2. h \in Holdings(DOMAIN h.job.cands) BY <2>1, SMT DEF IsHolding, Holdings
  <2>3. QED BY <2>1, <2>2
<1>3. QED BY <1>1, <1>2 DEF IsHolding

\* The invariant gives the property of the run.
LEMMA InvariantSuffices ==
    ASSUME SitesFit, NoneFits, IInv
    PROVE  SnapshotsAgree
<1>1. \A t \in Triggers : jobs[t] # None =>
         /\ \E D \in SUBSET Candidates : jobs[t] \in Jobs(D)
         /\ (jobs[t].lease # None) = (jobs[t].status = "leased")
         /\ DOMAIN jobs[t].cands # {}
  <2> SUFFICES ASSUME NEW t \in Triggers, jobs[t] # None
      PROVE  /\ \E D \in SUBSET Candidates : jobs[t] \in Jobs(D)
             /\ (jobs[t].lease # None) = (jobs[t].status = "leased")
             /\ DOMAIN jobs[t].cands # {}
    OBVIOUS
  <2>1. IsJob(jobs[t]) BY DEF IInv, Tables
  <2>2. \E D \in SUBSET Candidates : jobs[t] \in Jobs(D) BY <2>1, JobIsRow
  <2>3. (jobs[t].lease # None) = (jobs[t].status = "leased")
    BY <2>1 DEF IsJob, NoneFits
  <2>4. QED BY <2>1, <2>2, <2>3 DEF IsJob
<1>2. TypeOK
  BY <1>1, HoldingIsRow DEF TypeOK, IInv, Tables, Claimed, Requested, Reviewed, Working, Archive, Filed
<1>3. QED BY <1>2 DEF SnapshotsAgree, IInv, Tables

(***************************************************************************)
(* The workspace.                                                          *)
(***************************************************************************)
IsRequest(req) ==
    /\ req.op \in EntryIds /\ req.id \in EntryIds
    /\ req.space \in Nat /\ req.expected \in Nat /\ req.recursive \in BOOLEAN
    /\ req.entry \in Entries
    /\ req.expected = 0 => req.entry.from = req.id.by

Row(id, e) == [id |-> id, rev |-> e.rev, from |-> e.from]

\* The entries a recursive archive takes with it, as it leaves them.
Removed(w, req) ==
    IF req.entry.deleted /\ req.recursive THEN Descendants(w, req.id) ELSE {}
Tombstones(w, req) ==
    [e \in Removed(w, req) |-> Archived(w.entries[e])]

\* The workspace after an accepted request.
After(w, req) ==
    [space |-> w.space + 1,
     entries |-> Put(Overlay(Tombstones(w, req), w.entries), req.id, req.entry),
     revisions |-> (w.revisions \union {Row(e, Tombstones(w, req)[e]) : e \in Removed(w, req)})
                      \union {Row(req.id, req.entry)},
     receipts |-> Put(w.receipts, req.op,
                      [space |-> req.space, id |-> req.id, rev |-> req.entry.rev])]

\* The record of a workspace, with some of its fields replaced.
LEMMA WithFields ==
    ASSUME NEW w, NEW s, NEW e, NEW r, NEW c, NEW e1, NEW r1,
           w = [space |-> s, entries |-> e, revisions |-> r, receipts |-> c]
    PROVE  /\ w.space = s /\ w.entries = e /\ w.revisions = r /\ w.receipts = c
           /\ [w EXCEPT !.entries = e1, !.revisions = r1] =
                [space |-> s, entries |-> e1, revisions |-> r1, receipts |-> c]
           /\ [w EXCEPT !.space = e1, !.receipts = r1] =
                [space |-> e1, entries |-> e, revisions |-> r, receipts |-> r1]
           /\ [w EXCEPT !.space = e1] =
                [space |-> e1, entries |-> e, revisions |-> r, receipts |-> c]
<1>1. w.space = s /\ w.entries = e /\ w.revisions = r /\ w.receipts = c
  BY SMT
<1>2. [w EXCEPT !.space = e1] =
        [space |-> e1, entries |-> e, revisions |-> r, receipts |-> c]
  BY SMT
<1>3. [w EXCEPT !.entries = e1, !.revisions = r1] =
        [space |-> s, entries |-> e1, revisions |-> r1, receipts |-> c]
  <2>1. [w EXCEPT !.entries = e1, !.revisions = r1] =
          [[w EXCEPT !.entries = e1] EXCEPT !.revisions = r1]
    OBVIOUS
  <2>2. [w EXCEPT !.entries = e1] =
          [space |-> s, entries |-> e1, revisions |-> r, receipts |-> c]
    BY SMT
  <2>3. [[space |-> s, entries |-> e1, revisions |-> r, receipts |-> c]
            EXCEPT !.revisions = r1] =
          [space |-> s, entries |-> e1, revisions |-> r1, receipts |-> c]
    BY SMT
  <2>4. QED BY <2>1, <2>2, <2>3
<1>4. [w EXCEPT !.space = e1, !.receipts = r1] =
        [space |-> e1, entries |-> e, revisions |-> r, receipts |-> r1]
  <2>1. [w EXCEPT !.space = e1, !.receipts = r1] =
          [[w EXCEPT !.space = e1] EXCEPT !.receipts = r1]
    OBVIOUS
  <2>2. [[space |-> e1, entries |-> e, revisions |-> r, receipts |-> c]
            EXCEPT !.receipts = r1] =
          [space |-> e1, entries |-> e, revisions |-> r, receipts |-> r1]
    BY SMT
  <2>3. QED BY <1>2, <2>1, <2>2
<1>5. QED BY <1>1, <1>2, <1>3, <1>4

\* A request is answered from its receipt, refused, or carried out.
LEMMA ApplyCases ==
    ASSUME NEW w, IsWorkspace(w), NEW req, IsRequest(req)
    PROVE  \/ Replays(w, req) /\ Apply(w, req) = [ok |-> TRUE, ws |-> w]
           \/ Apply(w, req) = [ok |-> FALSE, ws |-> w]
           \/ Acceptable(w, req) /\ Apply(w, req) = [ok |-> TRUE, ws |-> After(w, req)]
<1> DEFINE written == WithRevision(WithRevisions(w, Tombstones(w, req)), req.id, req.entry)
           final == [written EXCEPT
                       !.space = @ + 1,
                       !.receipts = Put(@, req.op, [space |-> req.space, id |-> req.id,
                                                    rev |-> req.entry.rev])]
<1>1. DOMAIN Tombstones(w, req) = Removed(w, req)
  BY DEF Tombstones
<1>2. final = After(w, req)
  <2> DEFINE r1 == w.revisions \union {Row(e, Tombstones(w, req)[e]) : e \in Removed(w, req)}
             e1 == Overlay(Tombstones(w, req), w.entries)
             w1 == WithRevisions(w, Tombstones(w, req))
  <2>1. w1 = [w EXCEPT !.entries = e1, !.revisions = r1]
    BY <1>1 DEF WithRevisions, Row
  <2>2. w1 = [space |-> w.space, entries |-> e1, revisions |-> r1, receipts |-> w.receipts]
    BY <2>1, WithFields DEF IsWorkspace
  <2> HIDE DEF w1, e1, r1
  <2>3. written = [w1 EXCEPT !.entries = Put(@, req.id, req.entry),
                             !.revisions = @ \union {Row(req.id, req.entry)}]
    BY DEF WithRevision, Row, w1
  <2>4. written = [space |-> w.space, entries |-> Put(e1, req.id, req.entry),
                   revisions |-> r1 \union {Row(req.id, req.entry)},
                   receipts |-> w.receipts]
    <3>1. w1.entries = e1 /\ w1.revisions = r1 BY <2>2, WithFields
    <3>2. written = [w1 EXCEPT !.entries = Put(e1, req.id, req.entry),
                               !.revisions = r1 \union {Row(req.id, req.entry)}]
      BY <2>3, <3>1
    <3>3. QED BY <2>2, <3>2, WithFields
  <2> HIDE DEF written
  <2>5. final = [space |-> w.space + 1, entries |-> Put(e1, req.id, req.entry),
                 revisions |-> r1 \union {Row(req.id, req.entry)},
                 receipts |-> Put(w.receipts, req.op,
                                [space |-> req.space, id |-> req.id, rev |-> req.entry.rev])]
    <3>1. written.space = w.space /\ written.receipts = w.receipts BY <2>4, WithFields
    <3> DEFINE c1 == Put(w.receipts, req.op,
                         [space |-> req.space, id |-> req.id, rev |-> req.entry.rev])
               e2 == Put(e1, req.id, req.entry)
               r2 == r1 \union {Row(req.id, req.entry)}
               n == w.space + 1
    <3>2. final = [written EXCEPT !.space = n, !.receipts = c1]
      BY <3>1
    <3>3. written = [space |-> w.space, entries |-> e2, revisions |-> r2, receipts |-> w.receipts]
      BY <2>4
    <3> HIDE DEF final, c1, e2, r2, n
    <3>4. final = [space |-> n, entries |-> e2, revisions |-> r2, receipts |-> c1]
      BY <3>2, <3>3, WithFields
    <3>5. QED BY <3>4 DEF n, e2, r2, c1
  <2>6. QED BY <2>5 DEF After, e1, r1
<1>3. Apply(w, req) =
        CASE Replays(w, req) -> [ok |-> TRUE, ws |-> w]
          [] req.op \in DOMAIN w.receipts -> [ok |-> FALSE, ws |-> w]
          [] Acceptable(w, req) -> [ok |-> TRUE, ws |-> final]
          [] OTHER -> [ok |-> FALSE, ws |-> w]
  BY DEF Apply, Tombstones, Removed
<1> HIDE DEF final
<1>4. QED BY <1>2, <1>3, SMT

\* The fields of an entry.
LEMMA EntryFields ==
    ASSUME NEW e \in Entries
    PROVE  /\ e = Entry(e.path, e.kind, e.rev, e.from, e.deleted)
           /\ e.path \in Paths /\ e.kind \in {"file", "folder"}
           /\ e.rev \in Nat \ {0} /\ e.rev + 1 \in Nat \ {0} /\ e.rev + 1 > 1
           /\ e.from \in Authors /\ e.deleted \in BOOLEAN
<1>1. e = Entry(e.path, e.kind, e.rev, e.from, e.deleted)
  BY SMT DEF Entry, Entries
<1>2. /\ e.path \in Paths /\ e.kind \in {"file", "folder"}
      /\ e.rev \in Nat \ {0} /\ e.from \in Authors /\ e.deleted \in BOOLEAN
  BY DEF Entries
<1>3. e.rev + 1 \in Nat \ {0} /\ e.rev + 1 > 1
  BY <1>2, SMT
<1>4. QED BY <1>1, <1>2, <1>3

\* What makes an entry.
LEMMA EntryType ==
    ASSUME NEW p \in Paths, NEW k \in {"file", "folder"}, NEW n \in Nat \ {0},
           NEW g \in Authors, NEW d \in BOOLEAN
    PROVE  Entry(p, k, n, g, d) \in Entries
BY DEF Entry, Entries

\* An archived entry is the next revision of the entry, by the same author.
LEMMA ArchivedEntry ==
    ASSUME NEW e \in Entries
    PROVE  /\ Archived(e) \in Entries
           /\ Archived(e).rev = e.rev + 1 /\ Archived(e).rev > 1
           /\ Archived(e).deleted
           /\ Archived(e).from = e.from /\ Archived(e).path = e.path
<1>1. Archived(e) \in Entries BY EntryFields, EntryType DEF Archived
<1>2. /\ Archived(e).rev = e.rev + 1 /\ Archived(e).deleted
      /\ Archived(e).from = e.from /\ Archived(e).path = e.path
  BY DEF Archived, Entry
<1>3. QED BY <1>1, <1>2, EntryFields

\* Archiving what lies below keeps the entries of the workspace typed.
LEMMA TombstonesType ==
    ASSUME NEW w, IsWorkspace(w), NEW req, IsRequest(req)
    PROVE  /\ Removed(w, req) \subseteq Live(w)
           /\ Removed(w, req) \subseteq DOMAIN w.entries
           /\ DOMAIN Tombstones(w, req) = Removed(w, req)
           /\ \A e \in Removed(w, req) :
                /\ Tombstones(w, req)[e] \in Entries
                /\ Tombstones(w, req)[e].rev > 1
                /\ Tombstones(w, req)[e].deleted
                /\ Tombstones(w, req)[e].from = w.entries[e].from
<1>1. Removed(w, req) \subseteq Live(w) BY DEF Removed, Descendants
<1>2. Removed(w, req) \subseteq DOMAIN w.entries BY <1>1 DEF Live
<1>3. ASSUME NEW e \in Removed(w, req)
      PROVE  /\ Tombstones(w, req)[e] \in Entries
             /\ Tombstones(w, req)[e].rev > 1
             /\ Tombstones(w, req)[e].deleted
             /\ Tombstones(w, req)[e].from = w.entries[e].from
  <2>1. w.entries[e] \in Entries BY <1>2 DEF IsWorkspace
  <2>2. Tombstones(w, req)[e] = Archived(w.entries[e]) BY DEF Tombstones
  <2>3. QED BY <2>1, <2>2, ArchivedEntry
<1>4. QED BY <1>1, <1>2, <1>3 DEF Tombstones

\* An accepted request leaves a workspace, and takes nothing away.
LEMMA AfterType ==
    ASSUME NEW w, IsWorkspace(w), NEW req, IsRequest(req)
    PROVE  /\ IsWorkspace(After(w, req))
           /\ DOMAIN w.entries \subseteq DOMAIN After(w, req).entries
           /\ req.id \in DOMAIN After(w, req).entries
           /\ w.revisions \subseteq After(w, req).revisions
           /\ Row(req.id, req.entry) \in After(w, req).revisions
<1> DEFINE old == Overlay(Tombstones(w, req), w.entries)
           a == After(w, req)
<1>0. /\ a.entries = Put(old, req.id, req.entry)
      /\ a.space = w.space + 1
      /\ a.revisions = (w.revisions \union {Row(e, Tombstones(w, req)[e]) : e \in Removed(w, req)})
                          \union {Row(req.id, req.entry)}
      /\ a.receipts = Put(w.receipts, req.op,
                         [space |-> req.space, id |-> req.id, rev |-> req.entry.rev])
      /\ a = [space |-> a.space, entries |-> a.entries, revisions |-> a.revisions,
              receipts |-> a.receipts]
  BY SMT DEF After
<1>1. DOMAIN old = DOMAIN w.entries
  BY TombstonesType DEF Overlay
<1>2. \A e \in DOMAIN old : old[e] \in Entries
  BY TombstonesType DEF Overlay, IsWorkspace
<1> HIDE DEF old, a
<1>3. DOMAIN a.entries = DOMAIN w.entries \union {req.id}
  BY <1>0, <1>1 DEF Put
<1>4. DOMAIN a.entries \subseteq EntryIds /\ a.entries \in [DOMAIN a.entries -> Entries]
  BY <1>0, <1>1, <1>2, <1>3, SMT DEF Put, IsWorkspace, IsRequest
<1>5. a.revisions \subseteq Revisions
  <2>1. Row(req.id, req.entry) \in Revisions
    BY SMT DEF IsRequest, Row, Revisions, Entries
  <2>2. ASSUME NEW e \in Removed(w, req) PROVE Row(e, Tombstones(w, req)[e]) \in Revisions
    BY TombstonesType, SMT DEF Row, Revisions, Entries, IsWorkspace
  <2>3. QED BY <2>1, <2>2, <1>0 DEF IsWorkspace
<1>6. DOMAIN a.receipts \subseteq EntryIds /\ a.receipts \in [DOMAIN a.receipts -> Receipts]
  <2>1. [space |-> req.space, id |-> req.id, rev |-> req.entry.rev] \in Receipts
    BY SMT DEF IsRequest, Receipts, Entries
  <2>2. QED BY <2>1, <1>0, SMT DEF Put, IsWorkspace, IsRequest
<1>7. a.space \in Nat BY <1>0, SMT DEF IsWorkspace
<1>8. IsWorkspace(a) BY <1>0, <1>4, <1>5, <1>6, <1>7 DEF IsWorkspace
<1>9. QED BY <1>0, <1>3, <1>8 DEF a

\* The entries after an accepted request: the one it names, those archived with
\* it, and the others as they were.
LEMMA AfterEntries ==
    ASSUME NEW w, IsWorkspace(w), NEW req, IsRequest(req),
           NEW id \in DOMAIN After(w, req).entries
    PROVE  \/ id = req.id /\ After(w, req).entries[id] = req.entry
           \/ /\ id # req.id /\ id \in Removed(w, req)
              /\ After(w, req).entries[id] = Tombstones(w, req)[id]
           \/ /\ id # req.id /\ id \in DOMAIN w.entries
              /\ After(w, req).entries[id] = w.entries[id]
<1> DEFINE old == Overlay(Tombstones(w, req), w.entries)
<1>1. After(w, req).entries = Put(old, req.id, req.entry) BY DEF After
<1>2. DOMAIN old = DOMAIN w.entries BY TombstonesType DEF Overlay
<1>3. \A e \in DOMAIN w.entries :
        \/ e \in Removed(w, req) /\ old[e] = Tombstones(w, req)[e]
        \/ old[e] = w.entries[e]
  BY TombstonesType DEF Overlay
<1> HIDE DEF old
<1>4. QED BY <1>1, <1>2, <1>3 DEF Put

\* The revisions an accepted request adds: its own, and the next one of every
\* entry it archives.
LEMMA AfterRevisions ==
    ASSUME NEW w, IsWorkspace(w), NEW req, IsRequest(req),
           NEW r \in After(w, req).revisions
    PROVE  \/ r \in w.revisions
           \/ r = Row(req.id, req.entry)
           \/ r.rev > 1 /\ r.id \in DOMAIN w.entries /\ r.from = w.entries[r.id].from
<1>1. After(w, req).revisions =
        (w.revisions \union {Row(e, Tombstones(w, req)[e]) : e \in Removed(w, req)})
           \union {Row(req.id, req.entry)}
  BY DEF After
<1>2. ASSUME NEW e \in Removed(w, req), r = Row(e, Tombstones(w, req)[e])
      PROVE  r.id = e /\ r.rev > 1 /\ e \in DOMAIN w.entries /\ r.from = w.entries[e].from
  BY <1>2, TombstonesType DEF Row
<1>3. QED BY <1>1, <1>2

\* An accepted request leaves every head and receipt with its revision, and
\* no two live entries at one path.
LEMMA AfterFiled ==
    ASSUME NEW w, IsWorkspace(w), Filed(w), NEW req, IsRequest(req), Acceptable(w, req)
    PROVE  Filed(After(w, req))
<1> DEFINE a == After(w, req)
<1>1. ASSUME NEW id \in DOMAIN a.entries
      PROVE  Row(id, a.entries[id]) \in a.revisions
  <2>1. CASE id = req.id /\ a.entries[id] = req.entry
    BY <2>1, AfterType
  <2>2. CASE id \in Removed(w, req) /\ a.entries[id] = Tombstones(w, req)[id]
    BY <2>2 DEF After
  <2>3. CASE id \in DOMAIN w.entries /\ a.entries[id] = w.entries[id]
    BY <2>3, AfterType DEF Filed, Row
  <2>4. QED BY <2>1, <2>2, <2>3, AfterEntries
<1>2. ASSUME NEW r \in a.revisions, r.rev = 1
      PROVE  r.from = r.id.by
  <2>1. CASE r \in w.revisions BY <2>1, <1>2 DEF Filed
  <2>2. CASE r = Row(req.id, req.entry)
    <3>1. req.entry.rev = 1 BY <1>2, <2>2 DEF Row
    <3>2. req.expected = 0
      BY <3>1, SMT DEF Acceptable, RevisionsMatch, IsRequest
    <3>3. QED BY <2>2, <3>2 DEF IsRequest, Row
  <2>3. CASE r.rev > 1 BY <2>3, <1>2, SMT
  <2>4. QED BY <2>1, <2>2, <2>3, AfterRevisions
<1>3. ASSUME NEW op \in DOMAIN a.receipts
      PROVE  \E r \in a.revisions : r.id = a.receipts[op].id /\ r.rev = a.receipts[op].rev
  <2>0. a.receipts = Put(w.receipts, req.op,
                         [space |-> req.space, id |-> req.id, rev |-> req.entry.rev])
    BY DEF After
  <2>1. CASE op = req.op
    <3>1. a.receipts[op].id = req.id /\ a.receipts[op].rev = req.entry.rev
      <4>1. a.receipts[op] = [space |-> req.space, id |-> req.id, rev |-> req.entry.rev]
        BY <2>0, <2>1 DEF Put
      <4> HIDE DEF a
      <4>2. QED BY <4>1, SMT
    <3>2. Row(req.id, req.entry) \in a.revisions BY AfterType
    <3>3. Row(req.id, req.entry).id = req.id /\ Row(req.id, req.entry).rev = req.entry.rev
      BY DEF Row
    <3>4. QED BY <3>1, <3>2, <3>3
  <2>2. CASE op # req.op
    <3>1. op \in DOMAIN w.receipts /\ a.receipts[op] = w.receipts[op]
      BY <2>0, <2>2 DEF Put
    <3>2. QED BY <3>1, AfterType DEF Filed
  <2>3. QED BY <2>1, <2>2
<1>4. ASSUME NEW e \in Live(a), e # req.id
      PROVE  e \in Live(w) /\ a.entries[e] = w.entries[e]
  <2>1. e \in DOMAIN a.entries /\ ~a.entries[e].deleted BY DEF Live
  <2>2. e \in DOMAIN w.entries /\ a.entries[e] = w.entries[e]
    <3>1. ~(e \in Removed(w, req) /\ a.entries[e] = Tombstones(w, req)[e])
      BY <2>1, TombstonesType
    <3>2. QED BY <2>1, <3>1, <1>4, AfterEntries
  <2>3. QED BY <2>1, <2>2 DEF Live
<1>5. ASSUME NEW id \in Live(a), NEW e \in Live(a), e # id, a.entries[e].path = a.entries[id].path
      PROVE  FALSE
  <2>0. req.id \in Live(a) => a.entries[req.id] = req.entry
    BY AfterEntries DEF Live
  <2>1. CASE id = req.id
    BY <1>4, <1>5, <2>0, <2>1 DEF Acceptable, Occupants
  <2>2. CASE e = req.id
    BY <1>4, <1>5, <2>0, <2>2 DEF Acceptable, Occupants
  <2>3. CASE id # req.id /\ e # req.id
    BY <1>4, <1>5, <2>3 DEF Filed, Occupants
  <2>4. QED BY <2>1, <2>2, <2>3
<1>6. \A id \in Live(a) : Occupants(a, a.entries[id].path, id) = {}
  BY <1>5 DEF Occupants
<1>7. QED BY <1>1, <1>2, <1>3, <1>6 DEF Filed, Row

\* The same for every answer of apply; a request that is granted has its
\* revision on file, and nothing is ever taken away.
LEMMA ApplyKeeps ==
    ASSUME NEW w, IsWorkspace(w), Filed(w), NEW req, IsRequest(req),
           NEW done, done = Apply(w, req)
    PROVE  /\ IsWorkspace(done.ws) /\ Filed(done.ws)
           /\ DOMAIN w.entries \subseteq DOMAIN done.ws.entries
           /\ w.revisions \subseteq done.ws.revisions
           /\ done.ok => \E r \in done.ws.revisions : r.id = req.id /\ r.rev = req.entry.rev
           /\ \A r \in done.ws.revisions \ w.revisions :
                \/ r = Row(req.id, req.entry)
                \/ /\ r.rev > 1 /\ r.id \in DOMAIN w.entries
                   /\ r.from = w.entries[r.id].from
           /\ (req.expected = 0 /\ req.entry.from \in Candidates => req.id.n = 2)
                /\ OneId(w) => OneId(done.ws)
<1>1. CASE Replays(w, req) /\ done = [ok |-> TRUE, ws |-> w]
  <2>1. done.ws = w /\ done.ok = TRUE BY <1>1, SMT
  <2>2. \E r \in w.revisions : r.id = req.id /\ r.rev = req.entry.rev
    <3>1. req.op \in DOMAIN w.receipts
          /\ w.receipts[req.op].id = req.id /\ w.receipts[req.op].rev = req.entry.rev
      BY <1>1, SMT DEF Replays
    <3>2. PICK r \in w.revisions : r.id = w.receipts[req.op].id /\ r.rev = w.receipts[req.op].rev
      BY <3>1 DEF Filed
    <3>3. QED BY <3>1, <3>2
  <2>3. QED BY <2>1, <2>2
<1>2. CASE done = [ok |-> FALSE, ws |-> w]
  <2>1. done.ws = w /\ done.ok = FALSE BY <1>2, SMT
  <2>2. QED BY <2>1
<1>3. CASE Acceptable(w, req) /\ done = [ok |-> TRUE, ws |-> After(w, req)]
  <2>1. done.ws = After(w, req) BY <1>3, SMT
  <2>2. Row(req.id, req.entry).id = req.id /\ Row(req.id, req.entry).rev = req.entry.rev
        /\ Row(req.id, req.entry).from = req.entry.from
    BY DEF Row
  <2>3. \A r \in After(w, req).revisions \ w.revisions :
                \/ r = Row(req.id, req.entry)
                \/ /\ r.rev > 1 /\ r.id \in DOMAIN w.entries
                   /\ r.from = w.entries[r.id].from
    BY AfterRevisions
  <2>4. ASSUME req.expected = 0 /\ req.entry.from \in Candidates => req.id.n = 2, OneId(w)
        PROVE  OneId(After(w, req))
    <3> SUFFICES ASSUME NEW r \in After(w, req).revisions, r.rev = 1, r.from \in Candidates
                 PROVE  r.id.n = 2
      BY DEF OneId
    <3>1. CASE r \in w.revisions BY <3>1, <2>4 DEF OneId
    <3>2. CASE r = Row(req.id, req.entry)
      <4>1. req.expected = 0
        BY <1>3, <2>2, <3>2, SMT DEF Acceptable, RevisionsMatch, IsRequest
      <4>2. QED BY <4>1, <2>2, <2>4, <3>2
    <3>3. CASE r.rev > 1 BY <3>3, SMT
    <3>4. QED BY <3>1, <3>2, <3>3, <2>3
  <2>5. IsWorkspace(done.ws) /\ Filed(done.ws)
    BY <1>3, <2>1, AfterType, AfterFiled
  <2>6. /\ DOMAIN w.entries \subseteq DOMAIN done.ws.entries
        /\ w.revisions \subseteq done.ws.revisions
        /\ Row(req.id, req.entry) \in done.ws.revisions
    BY <2>1, AfterType
  <2>7. QED BY <2>1, <2>2, <2>3, <2>4, <2>5, <2>6
<1>4. QED BY <1>1, <1>2, <1>3, ApplyCases

(***************************************************************************)
(* The candidate rows and the jobs.                                        *)
(***************************************************************************)
\* No step takes a job, a candidate of a job, an entry or a revision away, and
\* the revision of a job moves with its status.
JobsKept(js, ks) ==
    \A t \in Triggers : js[t] # None =>
      /\ ks[t] # None
      /\ DOMAIN ks[t].cands = DOMAIN js[t].cands
      /\ js[t].rev \in Nat /\ ks[t].rev \in Nat /\ js[t].rev <= ks[t].rev
      /\ ks[t].rev = js[t].rev => ks[t].status = js[t].status

WorkspaceKept(w, v) ==
    DOMAIN w.entries \subseteq DOMAIN v.entries /\ w.revisions \subseteq v.revisions

\* A receipt, a review and a worker's holding stand as long as jobs and the
\* workspace are kept.
LEMMA KeptClaim ==
    ASSUME NEW js, NEW ks, JobsKept(js, ks), NEW claim \in Claims, ClaimStands(claim, js)
    PROVE  ClaimStands(claim, ks)
<1>1. claim.t \in Triggers /\ claim.rev \in Nat BY DEF Claims
<1>2. QED BY <1>1, SMT DEF JobsKept, ClaimStands

LEMMA KeptReview ==
    ASSUME NEW js, NEW ks, JobsKept(js, ks), NEW w, NEW v, WorkspaceKept(w, v),
           NEW r \in Reviews, ReviewStands(r, js, w)
    PROVE  ReviewStands(r, ks, v)
<1>1. r.t \in Triggers BY DEF Reviews
<1>2. QED BY <1>1 DEF JobsKept, ReviewStands, WorkspaceKept

LEMMA KeptWorker ==
    ASSUME NEW js, NEW ks, JobsKept(js, ks), NEW w, NEW v, WorkspaceKept(w, v),
           NEW h, NEW retryable, WorkerStands(h, js, w, retryable)
    PROVE  WorkerStands(h, ks, v, retryable)
<1>1. CASE h.pc = "idle"
  BY <1>1 DEF WorkerStands, WorkspaceKept
<1>2. CASE h.pc # "idle"
  <2>1. h.job.t \in Triggers BY <1>2 DEF WorkerStands, IsHeld
  <2>2. ks[h.job.t] # None /\ DOMAIN ks[h.job.t].cands = DOMAIN h.job.cands
    BY <1>2, <2>1 DEF WorkerStands, JobsKept
  <2>3. QED BY <1>2, <2>2 DEF WorkerStands, WorkspaceKept
<1>3. QED BY <1>1, <1>2

\* The parts of the invariant that follow: receipts, reviews and workers that
\* a step leaves alone still stand after it.
LEMMA ClaimedKept ==
    ASSUME Claimed, JobsKept(jobs, jobs'), claims' = claims
    PROVE  Claimed'
BY KeptClaim DEF Claimed

LEMMA ReviewedKept ==
    ASSUME Reviewed, JobsKept(jobs, jobs'), WorkspaceKept(ws, ws'), reviews' = reviews
    PROVE  Reviewed'
BY KeptReview DEF Reviewed

LEMMA WorkingKept ==
    ASSUME Working, JobsKept(jobs, jobs'), WorkspaceKept(ws, ws'), site' = site,
           worker' = worker
    PROVE  Working'
BY KeptWorker DEF Working

\* One worker's holding is replaced by another that stands.
LEMMA WorkingPut ==
    ASSUME Working, JobsKept(jobs, jobs'), WorkspaceKept(ws, ws'), site' = site,
           NEW w \in Workers, NEW h, IsHolding(h),
           WorkerStands(h, jobs', ws', site.retryable),
           worker' = [worker EXCEPT ![w] = h]
    PROVE  Working'
<1>1. DOMAIN worker' = Workers BY DEF Working
<1>2. ASSUME NEW v \in Workers
      PROVE  IsHolding(worker'[v]) /\ WorkerStands(worker'[v], jobs', ws', site.retryable)
  <2>1. CASE v = w BY <2>1 DEF Working
  <2>2. CASE v # w
    <3>1. worker'[v] = worker[v] BY <2>2 DEF Working
    <3>2. QED BY <3>1, KeptWorker DEF Working
  <2>3. QED BY <2>1, <2>2
<1>3. QED BY <1>1, <1>2 DEF Working

\* A dropped claim stands for nothing.
LEMMA IdleStands ==
    ASSUME NEW js, NEW w, NEW retryable
    PROVE  IsHolding(Idle) /\ WorkerStands(Idle, js, w, retryable)
<1>1. Idle.pc = "idle" /\ Idle.job = None /\ Idle.call = None BY DEF Idle
<1>2. Idle = [pc |-> Idle.pc, job |-> Idle.job, call |-> Idle.call] BY DEF Idle
<1>3. QED BY <1>1, <1>2 DEF IsHolding, WorkerStands

\* Jobs that do not change are kept.
LEMMA SameKept ==
    ASSUME NoneFits, Tables
    PROVE  JobsKept(jobs, jobs)
<1>1. ASSUME NEW t \in Triggers, jobs[t] # None PROVE jobs[t].rev \in Nat
  BY <1>1 DEF Tables, IsJob
<1>2. QED BY <1>1, SMT DEF JobsKept

\* A candidate of a job is neither absent nor pending.
LEMMA InJob ==
    ASSUME Tables, NEW t \in Triggers, jobs[t] # None, NEW c \in DOMAIN jobs[t].cands
    PROVE  /\ c \in Candidates
           /\ cands[c] = jobs[t].cands[c]
           /\ cands[c].status \notin {"absent", "pending"}
<1>1. cands[c] = jobs[t].cands[c] BY DEF Tables
<1>2. c \in Candidates BY DEF Tables, IsJob, IsRows
<1>3. jobs[t].status \in {"pending", "leased", "completed", "failed", "cancelled"}
  BY DEF Tables, IsJob, Terminal
<1>4. Stand(jobs[t].status, jobs[t].cands, site.retryable) BY DEF Tables
<1>5. QED BY <1>1, <1>2, <1>3, <1>4, SMT DEF Stand, Resolved

\* A job is replaced by another state of itself, and its candidates follow.
LEMMA JobReplaced ==
    ASSUME NoneFits, Tables, site' = site,
           NEW t \in Triggers, jobs[t] # None,
           NEW new, IsJob(new), Stand(new.status, new.cands, site.retryable),
           DOMAIN new.cands = DOMAIN jobs[t].cands,
           jobs[t].rev < new.rev \/ (new.rev = jobs[t].rev /\ new.status = jobs[t].status),
           jobs' = [jobs EXCEPT ![t] = new],
           cands' = Overlay(new.cands, cands)
    PROVE  Tables' /\ JobsKept(jobs, jobs')
<1>0. new # None BY JobIsRow
<1>1. DOMAIN jobs' = Triggers /\ jobs'[t] = new
      /\ \A u \in Triggers : u # t => jobs'[u] = jobs[u]
  BY DEF Tables
<1>2. DOMAIN new.cands \subseteq Candidates /\ new.cands \in [DOMAIN new.cands -> Rows]
  BY DEF IsJob, IsRows
<1>3. cands' = [c \in Candidates |-> IF c \in DOMAIN new.cands THEN new.cands[c] ELSE cands[c]]
  <2>1. DOMAIN new.cands \union DOMAIN cands = Candidates BY <1>2 DEF Tables
  <2>2. QED BY <2>1 DEF Overlay
<1>4. cands' \in [Candidates -> Rows]
  <2>1. \A c \in Candidates :
          (IF c \in DOMAIN new.cands THEN new.cands[c] ELSE cands[c]) \in Rows
    BY <1>2 DEF Tables
  <2>2. QED BY <1>3, <2>1
<1>5. \A u \in Triggers : jobs'[u] # None => IsJob(jobs'[u]) /\ Stand(jobs'[u].status, jobs'[u].cands, site.retryable)
  BY <1>1 DEF Tables
<1>6. ASSUME NEW u \in Triggers, jobs'[u] # None, NEW c \in DOMAIN jobs'[u].cands
      PROVE  cands'[c] = jobs'[u].cands[c]
  <2>1. CASE u = t BY <2>1, <1>1, <1>2, <1>3, <1>6
  <2>2. CASE u # t
    <3>1. jobs[u] # None /\ c \in DOMAIN jobs[u].cands BY <2>2, <1>1, <1>6
    <3>2. c \notin DOMAIN new.cands BY <2>2, <3>1 DEF Tables
    <3>3. c \in Candidates /\ cands[c] = jobs[u].cands[c] BY <3>1, InJob
    <3>4. QED BY <2>2, <3>2, <3>3, <1>1, <1>3
  <2>3. QED BY <2>1, <2>2
<1>7. \A u, v \in Triggers : u # v /\ jobs'[u] # None /\ jobs'[v] # None =>
         DOMAIN jobs'[u].cands \cap DOMAIN jobs'[v].cands = {}
  <2> SUFFICES ASSUME NEW u \in Triggers, NEW v \in Triggers, u # v, jobs'[u] # None, jobs'[v] # None
      PROVE  DOMAIN jobs'[u].cands \cap DOMAIN jobs'[v].cands = {}
    OBVIOUS
  <2>1. \A x \in Triggers : jobs'[x] # None =>
           jobs[x] # None /\ DOMAIN jobs'[x].cands = DOMAIN jobs[x].cands
    BY <1>1
  <2>2. QED BY <2>1 DEF Tables
<1>8. ASSUME NEW c \in Candidates, cands'[c].status \in {"queued", "processing"}
      PROVE  \E u \in Triggers : jobs'[u] # None /\ c \in DOMAIN jobs'[u].cands
  <2>1. CASE c \in DOMAIN new.cands BY <2>1, <1>0, <1>1
  <2>2. CASE c \notin DOMAIN new.cands
    <3>1. cands'[c] = cands[c] BY <2>2, <1>3
    <3>2. PICK u \in Triggers : jobs[u] # None /\ c \in DOMAIN jobs[u].cands
      BY <3>1, <1>8 DEF Tables
    <3>3. QED BY <2>2, <3>2, <1>1
  <2>3. QED BY <2>1, <2>2
<1>9. Tables'
  BY <1>1, <1>4, <1>5, <1>6, <1>7, <1>8 DEF Tables
<1>10. JobsKept(jobs, jobs')
  <2>1. ASSUME NEW u \in Triggers, jobs[u] # None PROVE jobs[u].rev \in Nat
    BY <2>1 DEF Tables, IsJob
  <2>2. new.rev \in Nat BY DEF IsJob
  <2>3. ASSUME NEW u \in Triggers, jobs[u] # None
        PROVE  /\ jobs'[u] # None /\ DOMAIN jobs'[u].cands = DOMAIN jobs[u].cands
               /\ jobs[u].rev \in Nat /\ jobs'[u].rev \in Nat /\ jobs[u].rev <= jobs'[u].rev
               /\ jobs'[u].rev = jobs[u].rev => jobs'[u].status = jobs[u].status
    <3>1. CASE u = t BY <3>1, <2>1, <2>2, <1>0, <1>1, SMT
    <3>2. CASE u # t BY <3>2, <2>1, <2>3, <1>1, SMT
    <3>3. QED BY <3>1, <3>2
  <2>4. QED BY <2>3 DEF JobsKept
<1>11. QED BY <1>9, <1>10

\* A job is added for candidates that were pending.
LEMMA JobAdded ==
    ASSUME NoneFits, Tables, site' = site,
           NEW t \in Triggers, jobs[t] = None,
           NEW new, IsJob(new), Stand(new.status, new.cands, site.retryable),
           DOMAIN new.cands \subseteq Pending,
           jobs' = [jobs EXCEPT ![t] = new],
           cands' = Overlay(new.cands, cands)
    PROVE  Tables' /\ JobsKept(jobs, jobs')
<1>0. new # None BY JobIsRow
<1>1. DOMAIN jobs' = Triggers /\ jobs'[t] = new
      /\ \A u \in Triggers : u # t => jobs'[u] = jobs[u]
  BY DEF Tables
<1>2. DOMAIN new.cands \subseteq Candidates /\ new.cands \in [DOMAIN new.cands -> Rows]
  BY DEF IsJob, IsRows
<1>3. cands' = [c \in Candidates |-> IF c \in DOMAIN new.cands THEN new.cands[c] ELSE cands[c]]
  <2>1. DOMAIN new.cands \union DOMAIN cands = Candidates BY <1>2 DEF Tables
  <2>2. QED BY <2>1 DEF Overlay
<1>4. cands' \in [Candidates -> Rows]
  <2>1. \A c \in Candidates :
          (IF c \in DOMAIN new.cands THEN new.cands[c] ELSE cands[c]) \in Rows
    BY <1>2 DEF Tables
  <2>2. QED BY <1>3, <2>1
<1>5. \A u \in Triggers : jobs'[u] # None => IsJob(jobs'[u]) /\ Stand(jobs'[u].status, jobs'[u].cands, site.retryable)
  BY <1>1 DEF Tables
<1>p. ASSUME NEW u \in Triggers, jobs[u] # None
      PROVE  DOMAIN jobs[u].cands \cap DOMAIN new.cands = {}
  BY <1>p, InJob DEF Pending
<1>6. ASSUME NEW u \in Triggers, jobs'[u] # None, NEW c \in DOMAIN jobs'[u].cands
      PROVE  cands'[c] = jobs'[u].cands[c]
  <2>1. CASE u = t BY <2>1, <1>1, <1>2, <1>3, <1>6
  <2>2. CASE u # t
    <3>1. jobs[u] # None /\ c \in DOMAIN jobs[u].cands BY <2>2, <1>1, <1>6
    <3>2. c \notin DOMAIN new.cands BY <3>1, <1>p
    <3>3. c \in Candidates /\ cands[c] = jobs[u].cands[c] BY <3>1, InJob
    <3>4. QED BY <2>2, <3>2, <3>3, <1>1, <1>3
  <2>3. QED BY <2>1, <2>2
<1>7. \A u, v \in Triggers : u # v /\ jobs'[u] # None /\ jobs'[v] # None =>
         DOMAIN jobs'[u].cands \cap DOMAIN jobs'[v].cands = {}
  <2> SUFFICES ASSUME NEW u \in Triggers, NEW v \in Triggers, u # v, jobs'[u] # None, jobs'[v] # None
      PROVE  DOMAIN jobs'[u].cands \cap DOMAIN jobs'[v].cands = {}
    OBVIOUS
  <2>1. CASE u = t
    <3>1. jobs[v] # None /\ jobs'[v] = jobs[v] BY <2>1, <1>1
    <3>2. DOMAIN jobs[v].cands \cap DOMAIN new.cands = {} BY <3>1, <1>p
    <3>3. QED BY <2>1, <3>1, <3>2, <1>1
  <2>2. CASE v = t
    <3>1. jobs[u] # None /\ jobs'[u] = jobs[u] BY <2>2, <1>1
    <3>2. DOMAIN jobs[u].cands \cap DOMAIN new.cands = {} BY <3>1, <1>p
    <3>3. QED BY <2>2, <3>1, <3>2, <1>1
  <2>3. CASE u # t /\ v # t BY <2>3, <1>1 DEF Tables
  <2>4. QED BY <2>1, <2>2, <2>3
<1>8. ASSUME NEW c \in Candidates, cands'[c].status \in {"queued", "processing"}
      PROVE  \E u \in Triggers : jobs'[u] # None /\ c \in DOMAIN jobs'[u].cands
  <2>1. CASE c \in DOMAIN new.cands BY <2>1, <1>0, <1>1
  <2>2. CASE c \notin DOMAIN new.cands
    <3>1. cands'[c] = cands[c] BY <2>2, <1>3
    <3>2. PICK u \in Triggers : jobs[u] # None /\ c \in DOMAIN jobs[u].cands
      BY <3>1, <1>8 DEF Tables
    <3>3. QED BY <3>2, <1>1
  <2>3. QED BY <2>1, <2>2
<1>9. Tables'
  BY <1>1, <1>4, <1>5, <1>6, <1>7, <1>8 DEF Tables
<1>10. JobsKept(jobs, jobs')
  <2>1. ASSUME NEW u \in Triggers, jobs[u] # None
        PROVE  jobs'[u] = jobs[u] /\ jobs[u].rev \in Nat
    BY <2>1, <1>1 DEF Tables, IsJob
  <2>2. QED BY <2>1, SMT DEF JobsKept
<1>11. QED BY <1>9, <1>10

\* Candidates of no job move, and not into one.
LEMMA CandidatesMoved ==
    ASSUME Tables, site' = site, jobs' = jobs,
           cands' \in [Candidates -> Rows],
           \A c \in Candidates :
             \/ cands'[c] = cands[c]
             \/ /\ cands[c].status \in {"absent", "pending"}
                /\ cands'[c].status \notin {"queued", "processing"}
    PROVE  Tables'
<1>1. ASSUME NEW t \in Triggers, jobs[t] # None, NEW c \in DOMAIN jobs[t].cands
      PROVE  cands'[c] = jobs[t].cands[c]
  BY <1>1, InJob
<1>2. \A c \in Candidates : cands'[c].status \in {"queued", "processing"} =>
         \E t \in Triggers : jobs[t] # None /\ c \in DOMAIN jobs[t].cands
  BY DEF Tables
<1>3. \A t \in Triggers : jobs[t] # None => IsJob(jobs[t]) /\ Stand(jobs[t].status, jobs[t].cands, site.retryable)
  BY DEF Tables
<1>4. \A t, u \in Triggers : t # u /\ jobs[t] # None /\ jobs[u] # None =>
         DOMAIN jobs[t].cands \cap DOMAIN jobs[u].cands = {}
  BY DEF Tables
<1>5. DOMAIN jobs = Triggers BY DEF Tables
<1>6. QED BY <1>1, <1>2, <1>3, <1>4, <1>5, SMT DEF Tables

(***************************************************************************)
(* What a step may do, and the rows it writes.                             *)
(***************************************************************************)
\* The three parts of ReviewedStep.
ReplacesAsReviewed ==
    \A r \in ws'.revisions \ ws.revisions :
        r.from \in Candidates /\ r.rev > 1 /\ ~ws'.entries[r.id].deleted
           /\ ws.entries[r.id].from # r.from =>
        /\ cands[r.from].status = "awaiting_user"
        /\ cands[r.from].result.id = r.id
        /\ cands[r.from].result.rev = ws.entries[r.id].rev

CompletesAsHolder ==
    \A t \in Triggers :
        jobs[t] # None /\ jobs[t].status # "completed" /\ jobs'[t].status = "completed"
        => \E w \in Workers : /\ worker[w].job # None
                              /\ worker[w].job.t = t
                              /\ worker[w].job.rev = jobs[t].rev
                              /\ worker'[w] = Idle

OutcomesFinal ==
    \A c \in Candidates :
        /\ cands[c].status \in Resolved => cands'[c] = cands[c]
        /\ cands[c].status = "awaiting_user" /\ cands'[c] # cands[c] =>
             cands'[c].status \in {"applied", "rejected"}

\* The parts of ReviewedStep, and steps that leave one of them nothing to do.
LEMMA ReviewedParts ==
    ASSUME ReplacesAsReviewed, CompletesAsHolder, OutcomesFinal
    PROVE  ReviewedStep
BY DEF ReviewedStep, ReplacesAsReviewed, CompletesAsHolder, OutcomesFinal

LEMMA QuietWorkspace == ASSUME ws' = ws PROVE ReplacesAsReviewed /\ WorkspaceKept(ws, ws')
BY DEF ReplacesAsReviewed, WorkspaceKept

LEMMA QuietJobs ==
    ASSUME NoneFits, Tables, jobs' = jobs
    PROVE  CompletesAsHolder /\ JobsKept(jobs, jobs')
BY SameKept DEF CompletesAsHolder

LEMMA QuietCandidates == ASSUME cands' = cands PROVE OutcomesFinal
BY DEF OutcomesFinal

\* A candidate that has a job keeps it.
LEMMA HasJobKept ==
    ASSUME NEW js, NEW ks, JobsKept(js, ks), NEW c, HasJob(c, js)
    PROVE  HasJob(c, ks)
<1>1. PICK t \in Triggers : js[t] # None /\ c \in DOMAIN js[t].cands BY DEF HasJob
<1>2. ks[t] # None /\ c \in DOMAIN ks[t].cands BY <1>1 DEF JobsKept
<1>3. QED BY <1>2 DEF HasJob

\* The authors of new revisions are the user and candidates that have a job.
NewHaveJobs ==
    \A r \in ws'.revisions \ ws.revisions : r.from \in Candidates => HasJob(r.from, jobs)

\* What is in the workspace of a candidate stays that of one with a job.
LEMMA AppliedKept ==
    ASSUME Applied, JobsKept(jobs, jobs'), NewHaveJobs
    PROVE  Applied'
<1>1. ASSUME NEW r \in ws'.revisions, r.from \in Candidates
      PROVE  HasJob(r.from, jobs')
  <2>1. HasJob(r.from, jobs) BY <1>1 DEF Applied, NewHaveJobs
  <2>2. PICK js, ks : js = jobs /\ ks = jobs' OBVIOUS
  <2>3. HasJob(r.from, ks) BY <2>1, <2>2, HasJobKept
  <2>4. QED BY <2>2, <2>3
<1>2. QED BY <1>1 DEF Applied

LEMMA AppliedQuiet ==
    ASSUME Applied, JobsKept(jobs, jobs'), ws' = ws
    PROVE  Applied'
<1>1. NewHaveJobs BY DEF NewHaveJobs
<1>2. QED BY <1>1, AppliedKept

\* Job builds a job.
LEMMA JobType ==
    ASSUME NEW s \in {"pending", "leased"} \union Terminal, NEW n \in Nat, NEW d \in BOOLEAN,
           NEW l, IF s = "leased" THEN l \in Leases ELSE l = None, NEW m \in Nat,
           NEW cs, IsRows(cs), DOMAIN cs # {}
    PROVE  IsJob(Job(s, n, d, l, m, cs))
<1> DEFINE j == Job(s, n, d, l, m, cs)
<1>1. j.status = s /\ j.rev = n /\ j.due = d /\ j.lease = l /\ j.created = m /\ j.cands = cs
  BY DEF Job
<1>2. j = [status |-> s, rev |-> n, due |-> d, lease |-> l, created |-> m, cands |-> cs]
  BY DEF Job
<1> HIDE DEF j
<1>3. IsJob(j) BY <1>1, <1>2 DEF IsJob
<1>4. QED BY <1>3 DEF j

\* What reconcile_and_complete hands to with_outcome.
OutcomesFit(cs, res) ==
    \A c \in DOMAIN cs :
      /\ res[c].outcome \in {"absent", "pending", "queued", "processing", "awaiting_user"}
                              \union Resolved
      /\ res[c].ref \in Results

\* with_outcome gives every candidate its outcome and the next revision.
LEMMA OutcomeRows ==
    ASSUME NEW cs, IsRows(cs), NEW res, OutcomesFit(cs, res)
    PROVE  /\ IsRows(Outcome(cs, res)) /\ DOMAIN Outcome(cs, res) = DOMAIN cs
           /\ \A c \in DOMAIN cs :
                /\ cs[c].rev \in Nat
                /\ Outcome(cs, res)[c].status = res[c].outcome
                /\ Outcome(cs, res)[c].rev = cs[c].rev + 1
                /\ Outcome(cs, res)[c].result = res[c].ref
<1>1. ASSUME NEW c \in DOMAIN cs
      PROVE  /\ cs[c].rev \in Nat
             /\ Outcome(cs, res)[c] \in Rows
             /\ Outcome(cs, res)[c].status = res[c].outcome
             /\ Outcome(cs, res)[c].rev = cs[c].rev + 1
             /\ Outcome(cs, res)[c].result = res[c].ref
  <2>1. cs[c].rev \in Nat BY DEF IsRows, Rows
  <2>2. cs[c].rev + 1 \in Nat BY <2>1, SMT
  <2>3. Outcome(cs, res)[c] = Snapshot(res[c].outcome, cs[c].rev + 1, res[c].ref)
    BY DEF Outcome
  <2>4. PICK o, n, x : /\ o = res[c].outcome /\ n = cs[c].rev + 1 /\ x = res[c].ref
                       /\ o \in {"absent", "pending", "queued", "processing", "awaiting_user"}
                                \union Resolved
                       /\ n \in Nat /\ x \in Results
    BY <2>2 DEF OutcomesFit
  <2>5. /\ Snapshot(o, n, x) \in Rows /\ Snapshot(o, n, x).status = o
        /\ Snapshot(o, n, x).rev = n /\ Snapshot(o, n, x).result = x
    BY <2>4 DEF Snapshot, Rows
  <2>6. Outcome(cs, res)[c] = Snapshot(o, n, x) BY <2>3, <2>4
  <2>7. QED BY <2>1, <2>4, <2>5, <2>6
<1>2. DOMAIN Outcome(cs, res) = DOMAIN cs BY DEF Outcome
<1>3. Outcome(cs, res) \in [DOMAIN cs -> Rows]
  BY <1>1 DEF Outcome
<1>4. QED BY <1>1, <1>2, <1>3 DEF IsRows

\* The same with one status for all of them.
LEMMA AlikeRows ==
    ASSUME NEW cs, IsRows(cs), NEW s \in {"queued", "processing", "isolated"}
    PROVE  /\ IsRows(Alike(cs, s)) /\ DOMAIN Alike(cs, s) = DOMAIN cs
           /\ \A c \in DOMAIN cs :
                /\ cs[c].rev \in Nat
                /\ Alike(cs, s)[c].status = s
                /\ Alike(cs, s)[c].rev = cs[c].rev + 1
<1> DEFINE res == [c \in DOMAIN cs |-> [outcome |-> s, ref |-> None]]
<1>1. \A c \in DOMAIN cs : res[c].outcome = s /\ res[c].ref = None OBVIOUS
<1>2. s \in {"absent", "pending", "queued", "processing", "awaiting_user"} \union Resolved
      /\ None \in Results
  BY DEF Resolved, Results
<1>3. Alike(cs, s) = Outcome(cs, res) BY DEF Alike
<1> HIDE DEF res
<1>4. OutcomesFit(cs, res) BY <1>1, <1>2 DEF OutcomesFit
<1>5. /\ IsRows(Outcome(cs, res)) /\ DOMAIN Outcome(cs, res) = DOMAIN cs
      /\ \A c \in DOMAIN cs :
                /\ cs[c].rev \in Nat
                /\ Outcome(cs, res)[c].status = res[c].outcome
                /\ Outcome(cs, res)[c].rev = cs[c].rev + 1
  BY <1>4, OutcomeRows, SMT
<1>6. QED BY <1>1, <1>3, <1>5

\* Where Overlay takes a row from.
LEMMA OverlayAt ==
    ASSUME NEW f, NEW g, NEW x
    PROVE  /\ x \in DOMAIN f => Overlay(f, g)[x] = f[x]
           /\ x \in DOMAIN g /\ x \notin DOMAIN f => Overlay(f, g)[x] = g[x]
BY DEF Overlay

\* _transition_job: an open job moves on with its candidates.
LEMMA MovedTables ==
    ASSUME NoneFits, Tables, site' = site,
           NEW t \in Triggers, jobs[t] # None, jobs[t].status \in {"pending", "leased"},
           NEW status \in {"pending", "completed", "failed", "cancelled"}, NEW due \in BOOLEAN,
           NEW snapshots, IsRows(snapshots), DOMAIN snapshots = DOMAIN jobs[t].cands,
           Stand(status, snapshots, site.retryable),
           Moved(t, status, due, snapshots)
    PROVE  /\ Tables' /\ JobsKept(jobs, jobs') /\ OutcomesFinal
           /\ status # "completed" => CompletesAsHolder
           /\ \A c \in Candidates : cands'[c] # cands[c] =>
                c \in DOMAIN snapshots /\ cands'[c] = snapshots[c]
<1> DEFINE new == Job(status, jobs[t].rev + 1, due, None, jobs[t].created, snapshots)
<1>1. IsJob(jobs[t]) BY DEF Tables
<1>2. jobs[t].rev \in Nat /\ jobs[t].rev + 1 \in Nat /\ jobs[t].rev < jobs[t].rev + 1
  <2>1. jobs[t].rev \in Nat BY <1>1 DEF IsJob
  <2>2. QED BY <2>1, SMT
<1>3. new.status = status /\ new.rev = jobs[t].rev + 1 /\ new.cands = snapshots
  BY DEF Job
<1>4. IsJob(new)
  <2>1. status \in {"pending", "leased"} \union Terminal /\ status # "leased" BY DEF Terminal
  <2>2. jobs[t].created \in Nat /\ DOMAIN snapshots # {} BY <1>1 DEF IsJob
  <2>3. QED BY <2>1, <2>2, <1>2, JobType
<1>5. jobs' = [jobs EXCEPT ![t] = new] /\ cands' = Overlay(snapshots, cands)
  BY DEF Moved
<1> HIDE DEF new
<1>6. Tables' /\ JobsKept(jobs, jobs')
  BY <1>2, <1>3, <1>4, <1>5, JobReplaced
<1>7. ASSUME NEW c \in Candidates
      PROVE  \/ cands'[c] = cands[c]
             \/ /\ c \in DOMAIN snapshots /\ cands'[c] = snapshots[c]
                /\ cands[c].status \in {"queued", "processing"}
  <2>1. CASE c \in DOMAIN snapshots
    <3>1. cands'[c] = snapshots[c] BY <2>1, <1>5, OverlayAt, SMT
    <3>2. cands[c] = jobs[t].cands[c] BY <2>1, InJob
    <3>3. jobs[t].cands[c].status \in {"queued", "processing"} BY <2>1 DEF Tables, Stand
    <3>4. QED BY <2>1, <3>1, <3>2, <3>3
  <2>2. CASE c \notin DOMAIN snapshots
    <3>1. c \in DOMAIN cands BY DEF Tables
    <3>2. QED BY <2>2, <3>1, <1>5, OverlayAt, SMT
  <2>3. QED BY <2>1, <2>2
<1>8. OutcomesFinal
  BY <1>7 DEF OutcomesFinal, Resolved
<1>9. status # "completed" => CompletesAsHolder
  <2> SUFFICES ASSUME status # "completed", NEW u \in Triggers, jobs[u] # None,
                      jobs[u].status # "completed", jobs'[u].status = "completed"
               PROVE  FALSE
    BY DEF CompletesAsHolder
  <2>1. DOMAIN jobs = Triggers BY DEF Tables
  <2>2. CASE u = t BY <2>1, <2>2, <1>3, <1>5
  <2>3. CASE u # t
    <3>1. jobs'[u] = jobs[u] BY <2>1, <2>3, <1>5
    <3>2. QED BY <3>1
  <2>4. QED BY <2>2, <2>3
<1>10. \A c \in Candidates : cands'[c] # cands[c] =>
         c \in DOMAIN snapshots /\ cands'[c] = snapshots[c]
  BY <1>7
<1>11. QED BY <1>6, <1>8, <1>9, <1>10

(***************************************************************************)
(* Candidates and the enqueue of a job.                                    *)
(***************************************************************************)
\* A candidate not yet proposed belongs to no job.
LEMMA ProposeStep ==
    ASSUME SitesFit, NoneFits, IInv, site' = site, NEW c \in Candidates, Propose(c)
    PROVE  IInv' /\ ReviewedStep
<1>0. /\ jobs' = jobs /\ claims' = claims /\ requests' = requests /\ ws' = ws
      /\ reviews' = reviews /\ worker' = worker
  BY DEF Propose
<1>t. Tables /\ cands \in [Candidates -> Rows] BY DEF IInv, Tables
<1> DEFINE row == [cands[c] EXCEPT !.status = "pending"]
<1>1. row \in Rows /\ row.status = "pending"
  BY <1>t, SMT DEF Rows
<1>2. cands' = [cands EXCEPT ![c] = row] BY DEF Propose
<1> HIDE DEF row
<1>3. cands' \in [Candidates -> Rows] BY <1>t, <1>1, <1>2
<1>4. ASSUME NEW d \in Candidates, cands'[d] # cands[d]
      PROVE  cands[d].status = "absent" /\ cands'[d].status = "pending"
  <2>1. d = c BY <1>t, <1>2, <1>4
  <2>2. QED BY <2>1, <1>t, <1>1, <1>2 DEF Propose
<1>5. Tables'
  BY <1>0, <1>t, <1>3, <1>4, CandidatesMoved
<1>6. JobsKept(jobs, jobs') /\ CompletesAsHolder BY <1>0, <1>t, QuietJobs
<1>7. WorkspaceKept(ws, ws') /\ ReplacesAsReviewed BY <1>0, QuietWorkspace
<1>8. OutcomesFinal BY <1>4 DEF OutcomesFinal, Resolved
<1>9. Applied' BY <1>0, <1>6, AppliedQuiet DEF IInv
<1>10. Claimed' /\ Reviewed' /\ Working'
  BY <1>0, <1>6, <1>7, ClaimedKept, ReviewedKept, WorkingKept DEF IInv
<1>11. Requested' /\ Archive' BY <1>0 DEF IInv, Requested, Archive
<1>12. QED BY <1>5, <1>6, <1>7, <1>8, <1>9, <1>10, <1>11, ReviewedParts DEF IInv

\* Isolation takes pending candidates, which belong to no job.
LEMMA IsolateStep ==
    ASSUME SitesFit, NoneFits, IInv, site' = site, NEW t \in Triggers, IsolateCandidates(t)
    PROVE  IInv' /\ ReviewedStep
<1>0. /\ jobs' = jobs /\ claims' = claims /\ requests' = requests /\ ws' = ws
      /\ reviews' = reviews /\ worker' = worker
  BY DEF IsolateCandidates
<1>t. Tables /\ cands \in [Candidates -> Rows] BY DEF IInv, Tables
<1> DEFINE row == Snapshot("isolated", 1, None)
<1>1. row \in Rows /\ row.status = "isolated"
  <2>1. "isolated" \in Resolved /\ None \in Results /\ 1 \in Nat BY DEF Resolved, Results
  <2>2. QED BY <2>1 DEF Snapshot, Rows
<1>s. PICK set \in SUBSET Pending : cands' = Overlay([d \in set |-> row], cands)
  BY DEF IsolateCandidates
<1>2. cands' = [d \in Candidates |-> IF d \in set THEN row ELSE cands[d]]
  <2>1. DOMAIN [d \in set |-> row] \union DOMAIN cands = Candidates
    BY <1>t DEF Pending
  <2>2. QED BY <1>s, <2>1 DEF Overlay
<1> HIDE DEF row
<1>3. cands' \in [Candidates -> Rows]
  <2>1. \A d \in Candidates : (IF d \in set THEN row ELSE cands[d]) \in Rows
    BY <1>t, <1>1
  <2>2. QED BY <1>2, <2>1
<1>4. ASSUME NEW d \in Candidates, cands'[d] # cands[d]
      PROVE  cands[d].status = "pending" /\ cands'[d].status = "isolated"
  <2>1. d \in Pending /\ cands'[d] = row BY <1>2, <1>4, <1>s
  <2>2. QED BY <2>1, <1>1 DEF Pending
<1>5. Tables'
  BY <1>0, <1>t, <1>3, <1>4, CandidatesMoved
<1>6. JobsKept(jobs, jobs') /\ CompletesAsHolder BY <1>0, <1>t, QuietJobs
<1>7. WorkspaceKept(ws, ws') /\ ReplacesAsReviewed BY <1>0, QuietWorkspace
<1>8. OutcomesFinal BY <1>4 DEF OutcomesFinal, Resolved
<1>9. Applied' BY <1>0, <1>6, AppliedQuiet DEF IInv
<1>10. Claimed' /\ Reviewed' /\ Working'
  BY <1>0, <1>6, <1>7, ClaimedKept, ReviewedKept, WorkingKept DEF IInv
<1>11. Requested' /\ Archive' BY <1>0 DEF IInv, Requested, Archive
<1>12. QED BY <1>5, <1>6, <1>7, <1>8, <1>9, <1>10, <1>11, ReviewedParts DEF IInv

\* Steps that touch neither the candidates nor the jobs nor the workspace.
LEMMA QuietTables ==
    ASSUME SitesFit, NoneFits, IInv, site' = site, cands' = cands, jobs' = jobs, ws' = ws
    PROVE  /\ Tables' /\ Applied' /\ Archive' /\ ReviewedStep
           /\ JobsKept(jobs, jobs') /\ WorkspaceKept(ws, ws')
<1>1. Tables BY DEF IInv
<1>2. JobsKept(jobs, jobs') /\ CompletesAsHolder BY <1>1, QuietJobs
<1>3. WorkspaceKept(ws, ws') /\ ReplacesAsReviewed BY QuietWorkspace
<1>4. OutcomesFinal BY QuietCandidates
<1>5. Tables'
  <2>1. cands' \in [Candidates -> Rows] /\ \A c \in Candidates : cands'[c] = cands[c]
    BY <1>1 DEF Tables
  <2>2. QED BY <1>1, <2>1, CandidatesMoved
<1>6. Applied' BY <1>2, AppliedQuiet DEF IInv
<1>7. Archive' BY DEF IInv, Archive
<1>8. QED BY <1>2, <1>3, <1>4, <1>5, <1>6, <1>7, ReviewedParts

\* A request lists at least one candidate.
LEMMA EnqueueListStep ==
    ASSUME SitesFit, NoneFits, IInv, site' = site, NEW t \in Triggers, EnqueueList(t)
    PROVE  IInv' /\ ReviewedStep
<1>0. /\ cands' = cands /\ jobs' = jobs /\ claims' = claims /\ ws' = ws
      /\ reviews' = reviews /\ worker' = worker
  BY DEF EnqueueList
<1>1. /\ Tables' /\ Applied' /\ Archive' /\ ReviewedStep
      /\ JobsKept(jobs, jobs') /\ WorkspaceKept(ws, ws')
  BY <1>0, QuietTables
<1>2. Claimed' /\ Reviewed' /\ Working'
  BY <1>0, <1>1, ClaimedKept, ReviewedKept, WorkingKept DEF IInv
<1>3. Requested'
  <2>1. Pending # {}
    <3>1. Cardinality({}) = 0 BY FS_EmptySet
    <3>2. Cardinality(Pending) # 0 BY SMT DEF EnqueueList, SitesFit
    <3>3. QED BY <3>1, <3>2
  <2>2. [t |-> t, set |-> Pending] \in Requests BY DEF Requests, Pending
  <2>3. [t |-> t, set |-> Pending].set = Pending OBVIOUS
  <2>4. requests' = requests \union {[t |-> t, set |-> Pending]} BY DEF EnqueueList
  <2>5. QED BY <2>1, <2>2, <2>3, <2>4 DEF IInv, Requested
<1>4. QED BY <1>1, <1>2, <1>3 DEF IInv

\* A new job takes candidates that are still pending, so no other job has them.
LEMMA EnqueueWriteStep ==
    ASSUME SitesFit, NoneFits, IInv, site' = site, NEW q \in requests, EnqueueWrite(q)
    PROVE  IInv' /\ ReviewedStep
<1>0. /\ claims' = claims /\ ws' = ws /\ reviews' = reviews /\ worker' = worker
      /\ requests' = requests \ {q}
  BY DEF EnqueueWrite
<1>1. Requested' BY <1>0 DEF IInv, Requested
<1>2. CASE ~StillPending(q)
  <2>1. cands' = cands /\ jobs' = jobs BY <1>2 DEF EnqueueWrite
  <2>2. /\ Tables' /\ Applied' /\ Archive' /\ ReviewedStep
        /\ JobsKept(jobs, jobs') /\ WorkspaceKept(ws, ws')
    BY <1>0, <2>1, QuietTables
  <2>3. Claimed' /\ Reviewed' /\ Working'
    BY <1>0, <2>2, ClaimedKept, ReviewedKept, WorkingKept DEF IInv
  <2>4. QED BY <1>1, <2>2, <2>3 DEF IInv
<1>3. CASE StillPending(q)
  <2> DEFINE snapshots == [c \in q.set |-> Snapshot("queued", 1, None)]
             age == Cardinality({t \in Triggers : jobs[t] # None})
             new == Job("pending", 1, TRUE, None, age, snapshots)
  <2>t. Tables BY DEF IInv
  <2>1. q.t \in Triggers /\ q.set \subseteq Candidates /\ q.set # {}
    BY DEF IInv, Requested, Requests
  <2>2. age \in Nat
    <3>1. {t \in Triggers : jobs[t] # None} \subseteq Triggers OBVIOUS
    <3>2. IsFiniteSet({t \in Triggers : jobs[t] # None}) BY <3>1, FS_Subset DEF SitesFit
    <3>3. QED BY <3>2, FS_CardinalityType
  <2>3. \A c \in q.set : snapshots[c] \in Rows /\ snapshots[c].status = "queued"
                           /\ snapshots[c].rev = 1
    <3>1. None \in Results /\ 1 \in Nat BY DEF Results
    <3>2. QED BY <3>1 DEF Snapshot, Rows
  <2>4. DOMAIN snapshots = q.set /\ IsRows(snapshots)
    BY <2>1, <2>3 DEF IsRows
  <2>5. PendingJob(q.set) = new BY DEF PendingJob
  <2> HIDE DEF snapshots, age
  <2>6. new.status = "pending" /\ new.rev = 1 /\ new.cands = snapshots BY DEF Job
  <2>7. IsJob(new)
    <3>1. "pending" \in {"pending", "leased"} \union Terminal /\ "pending" # "leased" /\ 1 \in Nat
      OBVIOUS
    <3>2. QED BY <3>1, <2>1, <2>2, <2>4, JobType
  <2> HIDE DEF new
  <2>8. Stand(new.status, new.cands, site.retryable) BY <2>3, <2>4, <2>6 DEF Stand
  <2>9. jobs[q.t] = None /\ DOMAIN new.cands \subseteq Pending
    BY <1>3, <2>4, <2>6 DEF StillPending
  <2>10. jobs' = [jobs EXCEPT ![q.t] = new] /\ cands' = Overlay(new.cands, cands)
    BY <1>3, <2>5 DEF EnqueueWrite
  <2>11. Tables' /\ JobsKept(jobs, jobs')
    BY <2>t, <2>1, <2>7, <2>8, <2>9, <2>10, JobAdded
  <2>12. ASSUME NEW c \in Candidates, cands'[c] # cands[c]
         PROVE  cands[c].status = "pending" /\ cands'[c].status = "queued"
    <3>0. c \in DOMAIN cands BY <2>t DEF Tables
    <3>1. c \in DOMAIN snapshots /\ cands'[c] = snapshots[c]
      BY <3>0, <2>6, <2>10, <2>12, OverlayAt, SMT
    <3>2. QED BY <3>1, <2>3, <2>4, <2>6, <2>9 DEF Pending
  <2>13. OutcomesFinal BY <2>12 DEF OutcomesFinal, Resolved
  <2>14. WorkspaceKept(ws, ws') /\ ReplacesAsReviewed BY <1>0, QuietWorkspace
  <2>15. CompletesAsHolder
    <3> SUFFICES ASSUME NEW u \in Triggers, jobs[u] # None, jobs[u].status # "completed",
                        jobs'[u].status = "completed"
                 PROVE  FALSE
      BY DEF CompletesAsHolder
    <3>1. DOMAIN jobs = Triggers BY <2>t DEF Tables
    <3>2. jobs'[u] = jobs[u] BY <3>1, <2>9, <2>10
    <3>3. QED BY <3>2
  <2>16. Applied' BY <1>0, <2>11, AppliedQuiet DEF IInv
  <2>17. Claimed' /\ Reviewed' /\ Working'
    BY <1>0, <2>11, <2>14, ClaimedKept, ReviewedKept, WorkingKept DEF IInv
  <2>18. Archive' BY <1>0 DEF IInv, Archive
  <2>19. QED
    BY <1>1, <2>11, <2>13, <2>14, <2>15, <2>16, <2>17, <2>18, ReviewedParts DEF IInv
<1>4. QED BY <1>2, <1>3

(***************************************************************************)
(* The lifecycle of a job.                                                 *)
(***************************************************************************)
\* Steps of the tables that leave the rest alone, but for a dropped claim.
LEMMA RestKept ==
    ASSUME IInv, site' = site, JobsKept(jobs, jobs'), ws' = ws, claims' = claims,
           requests' = requests, reviews' = reviews,
           worker' = worker \/ \E w \in Workers : Drop(w)
    PROVE  /\ Claimed' /\ Requested' /\ Reviewed' /\ Working' /\ Archive'
           /\ WorkspaceKept(ws, ws') /\ ReplacesAsReviewed
<1>1. WorkspaceKept(ws, ws') /\ ReplacesAsReviewed BY QuietWorkspace
<1>2. Claimed' /\ Reviewed' BY <1>1, ClaimedKept, ReviewedKept DEF IInv
<1>3. Requested' /\ Archive' BY DEF IInv, Requested, Archive
<1>4. Working'
  <2>1. CASE worker' = worker BY <2>1, <1>1, WorkingKept DEF IInv
  <2>2. ASSUME NEW w \in Workers, Drop(w) PROVE Working'
    <3>1. IsHolding(Idle) /\ WorkerStands(Idle, jobs', ws', site.retryable) BY IdleStands
    <3>2. worker' = [worker EXCEPT ![w] = Idle] BY <2>2 DEF Drop
    <3>3. QED BY <3>1, <3>2, <1>1, WorkingPut DEF IInv
  <2>3. QED BY <2>1, <2>2
<1>5. QED BY <1>1, <1>2, <1>3, <1>4

\* A step that touches nothing, but for a dropped claim.
LEMMA QuietStep ==
    ASSUME SitesFit, NoneFits, IInv, site' = site, cands' = cands, jobs' = jobs, ws' = ws,
           claims' = claims, requests' = requests, reviews' = reviews,
           worker' = worker \/ \E w \in Workers : Drop(w)
    PROVE  IInv' /\ ReviewedStep
<1>1. /\ Tables' /\ Applied' /\ Archive' /\ ReviewedStep
      /\ JobsKept(jobs, jobs') /\ WorkspaceKept(ws, ws')
  BY QuietTables
<1>2. Claimed' /\ Requested' /\ Reviewed' /\ Working' BY <1>1, RestKept
<1>3. QED BY <1>1, <1>2 DEF IInv

\* A job that moves on without an outcome for its candidates.
LEMMA MovedStep ==
    ASSUME SitesFit, NoneFits, IInv, site' = site,
           NEW t \in Triggers, jobs[t] # None, jobs[t].status \in {"pending", "leased"},
           NEW status \in {"pending", "failed", "cancelled"}, NEW due \in BOOLEAN,
           NEW s \in {"queued", "isolated"},
           status = "pending" => s = "queued" /\ site.retryable,
           status # "pending" => s = "isolated",
           Moved(t, status, due, Alike(jobs[t].cands, s)),
           ws' = ws, claims' = claims, requests' = requests, reviews' = reviews,
           worker' = worker \/ \E w \in Workers : Drop(w)
    PROVE  IInv' /\ ReviewedStep
<1> DEFINE snapshots == Alike(jobs[t].cands, s)
<1>t. Tables BY DEF IInv
<1>1. IsRows(jobs[t].cands) BY <1>t DEF Tables, IsJob
<1>2. /\ IsRows(snapshots) /\ DOMAIN snapshots = DOMAIN jobs[t].cands
      /\ \A c \in DOMAIN jobs[t].cands : snapshots[c].status = s
  <2>1. PICK cs : cs = jobs[t].cands /\ IsRows(cs) BY <1>1
  <2>2. s \in {"queued", "processing", "isolated"} OBVIOUS
  <2>3. /\ IsRows(Alike(cs, s)) /\ DOMAIN Alike(cs, s) = DOMAIN cs
        /\ \A c \in DOMAIN cs : Alike(cs, s)[c].status = s
    BY <2>1, <2>2, AlikeRows, SMT
  <2>4. QED BY <2>1, <2>3
<1> HIDE DEF snapshots
<1>3. Stand(status, snapshots, site.retryable) BY <1>2 DEF Stand
<1>4. Moved(t, status, due, snapshots) BY DEF snapshots
<1>5. status \in {"pending", "completed", "failed", "cancelled"} /\ status # "completed" OBVIOUS
<1>6. /\ Tables' /\ JobsKept(jobs, jobs') /\ OutcomesFinal /\ CompletesAsHolder
      /\ \A c \in Candidates : cands'[c] # cands[c] =>
           c \in DOMAIN snapshots /\ cands'[c] = snapshots[c]
  <2>1. IsRows(snapshots) /\ DOMAIN snapshots = DOMAIN jobs[t].cands BY <1>2
  <2>2. QED BY <1>t, <1>3, <1>4, <1>5, <2>1, MovedTables, SMTT(20)
<1>7. /\ Claimed' /\ Requested' /\ Reviewed' /\ Working' /\ Archive'
      /\ WorkspaceKept(ws, ws') /\ ReplacesAsReviewed
  BY <1>6, RestKept
<1>8. Applied' BY <1>6, AppliedQuiet DEF IInv
<1>9. QED BY <1>6, <1>7, <1>8, ReviewedParts DEF IInv

\* A cancelled job was open.
LEMMA CancelStep ==
    ASSUME SitesFit, NoneFits, IInv, site' = site, NEW t \in Triggers, Cancel(t)
    PROVE  IInv' /\ ReviewedStep
<1>1. jobs[t] # None BY DEF Cancel
<1>2. jobs[t].status \in {"pending", "leased"} BY <1>1 DEF Cancel, IInv, Tables, IsJob
<1>3. Moved(t, "cancelled", TRUE, Alike(jobs[t].cands, "isolated"))
  BY DEF Cancel, IsolatedAll
<1>4. /\ ws' = ws /\ claims' = claims /\ requests' = requests /\ reviews' = reviews
      /\ worker' = worker
  BY DEF Cancel
<1>5. /\ "cancelled" \in {"pending", "failed", "cancelled"} /\ "cancelled" # "pending"
      /\ "isolated" \in {"queued", "isolated"} /\ TRUE \in BOOLEAN
  OBVIOUS
<1>6. QED BY <1>1, <1>2, <1>3, <1>4, <1>5, MovedStep

\* A worker that is not idle holds a job on file.
LEMMA HoldsJob ==
    ASSUME IInv, NEW w \in Workers, worker[w].pc # "idle"
    PROVE  /\ IsHolding(worker[w]) /\ IsHeld(worker[w].job)
           /\ WorkerStands(worker[w], jobs, ws, site.retryable)
           /\ worker[w].job.t \in Triggers /\ jobs[worker[w].job.t] # None
           /\ IsJob(jobs[worker[w].job.t])
           /\ DOMAIN worker[w].job.cands = DOMAIN jobs[worker[w].job.t].cands
<1>1. IsHolding(worker[w]) /\ WorkerStands(worker[w], jobs, ws, site.retryable)
  BY DEF IInv, Working
<1>2. /\ IsHeld(worker[w].job) /\ jobs[worker[w].job.t] # None
      /\ DOMAIN worker[w].job.cands = DOMAIN jobs[worker[w].job.t].cands
  BY <1>1 DEF WorkerStands
<1>3. worker[w].job.t \in Triggers BY <1>2 DEF IsHeld
<1>4. QED BY <1>1, <1>2, <1>3 DEF IInv, Tables

\* A requeued job was leased by the worker that failed.
LEMMA FailRetryableStep ==
    ASSUME SitesFit, NoneFits, IInv, site' = site, NEW w \in Workers, FailRetryable(w)
    PROVE  IInv' /\ ReviewedStep
<1>0. /\ ws' = ws /\ claims' = claims /\ requests' = requests /\ reviews' = reviews
      /\ Drop(w) /\ site.retryable
  BY DEF FailRetryable
<1>1. CASE ~Fenced(w)
  <2>1. cands' = cands /\ jobs' = jobs BY <1>1 DEF FailRetryable
  <2>2. QED BY <1>0, <2>1, QuietStep
<1>2. CASE Fenced(w)
  <2>1. worker[w].pc # "idle" BY DEF FailRetryable, Ready
  <2>2. PICK t \in Triggers : t = worker[w].job.t /\ jobs[t] # None BY <2>1, HoldsJob
  <2>3. jobs[t].status \in {"pending", "leased"} BY <1>2, <2>2 DEF Fenced
  <2>4. Moved(t, "pending", FALSE, Alike(jobs[t].cands, "queued"))
    BY <1>2, <2>2 DEF FailRetryable
  <2>5. /\ "pending" \in {"pending", "failed", "cancelled"}
        /\ "queued" \in {"queued", "isolated"} /\ FALSE \in BOOLEAN
    OBVIOUS
  <2>6. QED BY <1>0, <2>2, <2>3, <2>4, <2>5, MovedStep
<1>3. QED BY <1>1, <1>2

\* A failed job was leased by the worker that failed.
LEMMA FailTerminalStep ==
    ASSUME SitesFit, NoneFits, IInv, site' = site, NEW w \in Workers, FailTerminal(w)
    PROVE  IInv' /\ ReviewedStep
<1>0. /\ ws' = ws /\ claims' = claims /\ requests' = requests /\ reviews' = reviews
      /\ Drop(w)
  BY DEF FailTerminal
<1>1. CASE ~Fenced(w)
  <2>1. cands' = cands /\ jobs' = jobs BY <1>1 DEF FailTerminal
  <2>2. QED BY <1>0, <2>1, QuietStep
<1>2. CASE Fenced(w)
  <2>1. worker[w].pc # "idle" BY DEF FailTerminal, Ready
  <2>2. PICK t \in Triggers : t = worker[w].job.t /\ jobs[t] # None BY <2>1, HoldsJob
  <2>3. jobs[t].status \in {"pending", "leased"} BY <1>2, <2>2 DEF Fenced
  <2>4. Moved(t, "failed", TRUE, Alike(jobs[t].cands, "isolated"))
    BY <1>2, <2>2 DEF FailTerminal, IsolatedAll
  <2>5. /\ "failed" \in {"pending", "failed", "cancelled"} /\ "failed" # "pending"
        /\ "isolated" \in {"queued", "isolated"} /\ TRUE \in BOOLEAN
    OBVIOUS
  <2>6. QED BY <1>0, <2>2, <2>3, <2>4, <2>5, MovedStep
<1>3. QED BY <1>1, <1>2

\* A worker that dies leaves the tables as they are.
LEMMA WorkerDiesStep ==
    ASSUME SitesFit, NoneFits, IInv, site' = site, NEW w \in Workers, WorkerDies(w)
    PROVE  IInv' /\ ReviewedStep
BY QuietStep DEF WorkerDies

\* The fence makes the worker that completes a job its latest holder.
LEMMA ReconcileStep ==
    ASSUME SitesFit, NoneFits, IInv, site' = site, NEW w \in Workers, ReconcileAndComplete(w)
    PROVE  IInv' /\ ReviewedStep
<1>0. /\ ws' = ws /\ claims' = claims /\ requests' = requests /\ reviews' = reviews
      /\ Drop(w)
  BY DEF ReconcileAndComplete
<1>1. CASE ~Fenced(w)
  <2>1. cands' = cands /\ jobs' = jobs BY <1>1 DEF ReconcileAndComplete
  <2>2. QED BY <1>0, <2>1, QuietStep
<1>2. CASE Fenced(w)
  <2>t. Tables BY DEF IInv
  <2>1. worker[w].pc # "idle" BY DEF ReconcileAndComplete, Ready
  <2>2. PICK t \in Triggers :
          t = worker[w].job.t /\ jobs[t] # None /\ IsJob(jobs[t])
            /\ DOMAIN worker[w].job.cands = DOMAIN jobs[t].cands
    BY <2>1, HoldsJob
  <2>3. /\ jobs[t].status = "leased" /\ jobs[t].rev = worker[w].job.rev
        /\ jobs[t].status \in {"pending", "leased"}
    BY <1>2, <2>2 DEF Fenced
  <2>4. PICK res \in [DOMAIN jobs[t].cands -> Reports] :
          Moved(t, "completed", TRUE, Outcome(jobs[t].cands, res))
    BY <1>2, <2>2 DEF ReconcileAndComplete
  <2>5. \A c \in DOMAIN jobs[t].cands :
          /\ res[c].outcome \in Resolved \union {"awaiting_user"}
          /\ res[c].ref \in Results
    <3>1. ASSUME NEW x \in Reports
          PROVE  x.outcome \in Resolved \union {"awaiting_user"} /\ x.ref \in Results
      <4>1. Refs \subseteq Results /\ reviews \subseteq Results /\ None \in Results
        BY DEF NoneFits, Results, IInv, Reviewed
      <4>2. QED BY <4>1, SMT DEF Reports, Resolved
    <3>2. \A c \in DOMAIN jobs[t].cands : res[c] \in Reports BY <2>4
    <3>3. QED BY <3>1, <3>2
  <2>6. OutcomesFit(jobs[t].cands, res) BY <2>5 DEF OutcomesFit, Resolved
  <2> DEFINE snapshots == Outcome(jobs[t].cands, res)
  <2>7. IsRows(jobs[t].cands) BY <2>2 DEF IsJob
  <2>8. /\ IsRows(snapshots) /\ DOMAIN snapshots = DOMAIN jobs[t].cands
        /\ \A c \in DOMAIN jobs[t].cands :
             snapshots[c].status = res[c].outcome /\ snapshots[c].result = res[c].ref
    <3>1. PICK cs : cs = jobs[t].cands /\ IsRows(cs) /\ OutcomesFit(cs, res) BY <2>6, <2>7
    <3>2. /\ IsRows(Outcome(cs, res)) /\ DOMAIN Outcome(cs, res) = DOMAIN cs
          /\ \A c \in DOMAIN cs : /\ Outcome(cs, res)[c].status = res[c].outcome
                                  /\ Outcome(cs, res)[c].result = res[c].ref
      BY <3>1, OutcomeRows, SMT
    <3>3. QED BY <3>1, <3>2
  <2>9. Moved(t, "completed", TRUE, snapshots) BY <2>4
  <2> HIDE DEF snapshots
  <2>10. Stand("completed", snapshots, site.retryable) BY <2>5, <2>8 DEF Stand
  <2>11. /\ Tables' /\ JobsKept(jobs, jobs') /\ OutcomesFinal
         /\ \A c \in Candidates : cands'[c] # cands[c] =>
              c \in DOMAIN snapshots /\ cands'[c] = snapshots[c]
    <3>1. PICK s \in {"pending", "completed", "failed", "cancelled"}, due \in BOOLEAN :
            Moved(t, s, due, snapshots) /\ Stand(s, snapshots, site.retryable)
      BY <2>9, <2>10
    <3>2. IsRows(snapshots) /\ DOMAIN snapshots = DOMAIN jobs[t].cands BY <2>8
    <3>3. jobs[t] # None /\ jobs[t].status \in {"pending", "leased"} BY <2>2, <2>3
    <3>4. QED BY <3>1, <3>2, <3>3, <2>t, MovedTables, SMTT(20)
  <2>12. /\ Claimed' /\ Requested' /\ Reviewed' /\ Working' /\ Archive'
         /\ WorkspaceKept(ws, ws') /\ ReplacesAsReviewed
    BY <1>0, <2>11, RestKept
  <2>13. Applied' BY <1>0, <2>11, AppliedQuiet DEF IInv
  <2>14. CompletesAsHolder
    <3> SUFFICES ASSUME NEW u \in Triggers, jobs[u] # None, jobs[u].status # "completed",
                        jobs'[u].status = "completed"
                 PROVE  \E v \in Workers : /\ worker[v].job # None
                                           /\ worker[v].job.t = u
                                           /\ worker[v].job.rev = jobs[u].rev
                                           /\ worker'[v] = Idle
      BY DEF CompletesAsHolder
    <3>1. u = t
      <4>1. DOMAIN jobs = Triggers BY <2>t DEF Tables
      <4>2. u # t => jobs'[u] = jobs[u] BY <4>1, <2>9 DEF Moved
      <4>3. QED BY <4>2
    <3>2. worker[w].job # None BY <2>1, HoldsJob, HeldIsRow
    <3>3. worker'[w] = Idle BY <1>0 DEF Drop, IInv, Working
    <3>4. QED BY <3>1, <3>2, <3>3, <2>2, <2>3
  <2>15. QED BY <2>11, <2>12, <2>13, <2>14, ReviewedParts DEF IInv
<1>3. QED BY <1>1, <1>2

\* The rows a job carries are the current ones.
LEMMA OverlaySame ==
    ASSUME Tables, NEW t \in Triggers, jobs[t] # None
    PROVE  Overlay(jobs[t].cands, cands) = cands
<1>1. DOMAIN jobs[t].cands \subseteq Candidates /\ DOMAIN cands = Candidates
  BY DEF Tables, IsJob, IsRows
<1>2. \A c \in DOMAIN jobs[t].cands : jobs[t].cands[c] = cands[c] BY DEF Tables
<1>3. Overlay(jobs[t].cands, cands) =
        [c \in Candidates |-> IF c \in DOMAIN jobs[t].cands THEN jobs[t].cands[c] ELSE cands[c]]
  <2>1. DOMAIN jobs[t].cands \union DOMAIN cands = Candidates BY <1>1
  <2>2. QED BY <2>1 DEF Overlay
<1>4. cands = [c \in Candidates |-> cands[c]] BY DEF Tables
<1>5. QED BY <1>2, <1>3, <1>4

\* The clock moves a job: its lease expires, or its retry is due.
LEMMA ClockStep ==
    ASSUME SitesFit, NoneFits, IInv, site' = site, NEW t \in Triggers, jobs[t] # None,
           NEW due \in BOOLEAN, NEW lease,
           IF jobs[t].status = "leased" THEN lease \in Leases ELSE lease = None,
           jobs' = [jobs EXCEPT ![t] = Job(jobs[t].status, jobs[t].rev, due, lease,
                                           jobs[t].created, jobs[t].cands)],
           cands' = cands, ws' = ws, claims' = claims, requests' = requests,
           reviews' = reviews, worker' = worker
    PROVE  IInv' /\ ReviewedStep
<1> DEFINE new == Job(jobs[t].status, jobs[t].rev, due, lease, jobs[t].created, jobs[t].cands)
<1>t. Tables BY DEF IInv
<1>1. IsJob(jobs[t]) /\ Stand(jobs[t].status, jobs[t].cands, site.retryable)
  BY <1>t DEF Tables
<1>2. new.status = jobs[t].status /\ new.rev = jobs[t].rev /\ new.cands = jobs[t].cands
  BY DEF Job
<1>3. IsJob(new)
  <2>1. PICK s, n, m, cs :
          /\ s = jobs[t].status /\ n = jobs[t].rev /\ m = jobs[t].created /\ cs = jobs[t].cands
          /\ s \in {"pending", "leased"} \union Terminal /\ n \in Nat /\ m \in Nat
          /\ IsRows(cs) /\ DOMAIN cs # {}
    BY <1>1 DEF IsJob
  <2>2. IF s = "leased" THEN lease \in Leases ELSE lease = None BY <2>1
  <2>3. IsJob(Job(s, n, due, lease, m, cs)) BY <2>1, <2>2, JobType
  <2>4. QED BY <2>1, <2>3
<1>4. jobs' = [jobs EXCEPT ![t] = new] OBVIOUS
<1> HIDE DEF new
<1>5. cands' = Overlay(new.cands, cands) BY <1>t, <1>2, OverlaySame
<1>6. Tables' /\ JobsKept(jobs, jobs')
  <2>1. Stand(new.status, new.cands, site.retryable) /\ DOMAIN new.cands = DOMAIN jobs[t].cands
    BY <1>1, <1>2
  <2>2. QED BY <1>t, <1>2, <1>3, <1>4, <1>5, <2>1, JobReplaced
<1>7. /\ Claimed' /\ Requested' /\ Reviewed' /\ Working' /\ Archive'
      /\ WorkspaceKept(ws, ws') /\ ReplacesAsReviewed
  BY <1>6, RestKept
<1>8. OutcomesFinal BY QuietCandidates
<1>9. Applied' BY <1>6, AppliedQuiet DEF IInv
<1>10. CompletesAsHolder
  <2>1. DOMAIN jobs = Triggers BY <1>t DEF Tables
  <2>2. \A u \in Triggers : jobs'[u].status = jobs[u].status BY <2>1, <1>2, <1>4
  <2>3. QED BY <2>2 DEF CompletesAsHolder
<1>11. QED BY <1>6, <1>7, <1>8, <1>9, <1>10, ReviewedParts DEF IInv

\* An expired lease is still a lease.
LEMMA LeaseExpiresStep ==
    ASSUME SitesFit, NoneFits, IInv, site' = site, NEW t \in Triggers, LeaseExpires(t)
    PROVE  IInv' /\ ReviewedStep
<1>1. jobs[t] # None /\ jobs[t].status = "leased" /\ IsJob(jobs[t])
  BY DEF LeaseExpires, IInv, Tables
<1>2. PICK lease \in Leases :
        lease = [op |-> jobs[t].lease.op, rev |-> jobs[t].lease.rev, expired |-> TRUE]
  <2>1. jobs[t].lease \in Leases BY <1>1 DEF IsJob
  <2>2. QED BY <2>1 DEF Leases
<1>3. PICK due \in BOOLEAN : due = jobs[t].due BY <1>1 DEF IsJob
<1>4. jobs' = [jobs EXCEPT ![t] = Job(jobs[t].status, jobs[t].rev, due, lease,
                                      jobs[t].created, jobs[t].cands)]
  BY <1>2, <1>3 DEF LeaseExpires
<1>5. IF jobs[t].status = "leased" THEN lease \in Leases ELSE lease = None
  BY <1>1
<1>6. /\ cands' = cands /\ ws' = ws /\ claims' = claims /\ requests' = requests
      /\ reviews' = reviews /\ worker' = worker
  BY DEF LeaseExpires
<1>7. QED BY <1>1, <1>4, <1>5, <1>6, ClockStep

\* A job due for its retry is still pending.
LEMMA RetryDueStep ==
    ASSUME SitesFit, NoneFits, IInv, site' = site, NEW t \in Triggers, RetryDue(t)
    PROVE  IInv' /\ ReviewedStep
<1>1. PICK j : j = jobs[t] /\ j # None /\ j.status = "pending" /\ IsJob(j)
  BY DEF RetryDue, IInv, Tables
<1>2. PICK lease : lease = j.lease OBVIOUS
<1>3. IF jobs[t].status = "leased" THEN lease \in Leases ELSE lease = None
  BY <1>1, <1>2 DEF IsJob
<1>6. PICK due \in BOOLEAN : due = TRUE OBVIOUS
<1>4. [j EXCEPT !.due = due] = Job(j.status, j.rev, due, lease, j.created, j.cands)
  <2>1. j = [status |-> j.status, rev |-> j.rev, due |-> j.due, lease |-> j.lease,
             created |-> j.created, cands |-> j.cands]
    BY <1>1 DEF IsJob
  <2>2. QED BY <1>2, <2>1, SMT DEF Job
<1>5. jobs' = [jobs EXCEPT ![t] = [j EXCEPT !.due = TRUE]]
  BY <1>1 DEF RetryDue
<1>7. jobs' = [jobs EXCEPT ![t] = Job(jobs[t].status, jobs[t].rev, due, lease,
                                      jobs[t].created, jobs[t].cands)]
  BY <1>1, <1>4, <1>5, <1>6
<1>8. /\ cands' = cands /\ ws' = ws /\ claims' = claims /\ requests' = requests
      /\ reviews' = reviews /\ worker' = worker
  BY DEF RetryDue
<1>9. QED BY <1>1, <1>3, <1>7, <1>8, ClockStep

\* What claim_next hands to a worker.
LEMMA HoldingStands ==
    ASSUME NoneFits, NEW js, NEW t \in Triggers, NEW w, NEW retryable,
           js[t] # None, IsJob(js[t]), js[t].status = "leased",
           Stand(js[t].status, js[t].cands, retryable),
           NEW h, h = [pc |-> "claimed", job |-> [t |-> t, rev |-> js[t].rev, cands |-> js[t].cands],
                       call |-> None]
    PROVE  IsHolding(h) /\ WorkerStands(h, js, w, retryable)
<1>1. PICK j : j = [t |-> t, rev |-> js[t].rev, cands |-> js[t].cands] OBVIOUS
<1>2. j.t = t /\ j.rev = js[t].rev /\ j.cands = js[t].cands BY <1>1
<1>3. IsHeld(j)
  <2>1. js[t].rev \in Nat /\ IsRows(js[t].cands) BY DEF IsJob
  <2>2. QED BY <1>1, <1>2, <2>1 DEF IsHeld
<1>4. h = [pc |-> "claimed", job |-> j, call |-> None] BY <1>1
<1>5. h.pc = "claimed" /\ h.job = j /\ h.call = None BY <1>4, SMT
<1>6. IsHolding(h) BY <1>3, <1>4, <1>5 DEF IsHolding
<1>7. WorkerStands(h, js, w, retryable)
  <2>1. ~retryable => \A c \in DOMAIN j.cands : j.cands[c].rev = 2 BY <1>2 DEF Stand
  <2>2. QED BY <1>2, <1>3, <1>5, <2>1 DEF WorkerStands
<1>8. QED BY <1>6, <1>7

\* A repeated claim hands out a job only while its lease stands.
LEMMA ClaimReplayedStep ==
    ASSUME SitesFit, NoneFits, IInv, site' = site, NEW w \in Workers, NEW o \in Ops,
           ClaimReplayed(w, o)
    PROVE  IInv' /\ ReviewedStep
<1>0. /\ cands' = cands /\ jobs' = jobs /\ claims' = claims /\ requests' = requests
      /\ ws' = ws /\ reviews' = reviews
  BY DEF ClaimReplayed
<1>1. /\ Tables' /\ Applied' /\ Archive' /\ ReviewedStep
      /\ JobsKept(jobs, jobs') /\ WorkspaceKept(ws, ws')
  BY <1>0, QuietTables
<1>2. Claimed' /\ Reviewed' BY <1>0, <1>1, ClaimedKept, ReviewedKept DEF IInv
<1>3. Requested' BY <1>0 DEF IInv, Requested
<1>4. claims[o] \in Claims /\ ClaimStands(claims[o], jobs)
  BY DEF ClaimReplayed, IInv, Claimed
<1>5. PICK t \in Triggers : t = claims[o].t BY <1>4 DEF Claims
<1>6. jobs[t] # None /\ jobs[t].status = "leased"
  BY <1>4, <1>5 DEF ClaimReplayed, ClaimStands
<1>7. IsJob(jobs[t]) /\ Stand(jobs[t].status, jobs[t].cands, site.retryable)
  BY <1>6 DEF IInv, Tables
<1>8. PICK h : h = [pc |-> "claimed", job |-> [t |-> t, rev |-> jobs[t].rev, cands |-> jobs[t].cands],
                    call |-> None]
  OBVIOUS
<1>9. worker' = [worker EXCEPT ![w] = h] BY <1>5, <1>8 DEF ClaimReplayed, Holding
<1>10. IsHolding(h) /\ WorkerStands(h, jobs, ws, site.retryable)
  BY <1>6, <1>7, <1>8, HoldingStands
<1>11. Working' BY <1>0, <1>1, <1>9, <1>10, WorkingPut DEF IInv
<1>12. QED BY <1>1, <1>2, <1>3, <1>11 DEF IInv

\* with_lease gives a leased job of the same candidates at a later revision.
LEMMA LeasedJob ==
    ASSUME SitesFit, NoneFits, Tables, NEW t \in Triggers, jobs[t] # None,
           jobs[t].status \in {"pending", "leased"}, NEW o \in Ops,
           NEW new, new = Leased(t, o)
    PROVE  /\ IsJob(new) /\ new.status = "leased" /\ jobs[t].rev < new.rev
           /\ Stand("leased", new.cands, site.retryable)
           /\ DOMAIN new.cands = DOMAIN jobs[t].cands
<1>1. IsJob(jobs[t]) /\ Stand(jobs[t].status, jobs[t].cands, site.retryable)
  BY DEF Tables
<1>2. PICK cs : cs = jobs[t].cands /\ IsRows(cs) /\ DOMAIN cs # {} BY <1>1 DEF IsJob
<1>3. PICK n \in Nat, m \in Nat : n = jobs[t].rev /\ m = jobs[t].created BY <1>1 DEF IsJob
<1>4. PICK k \in Nat : k = n + 1 /\ n < k BY SMT
<1>5. PICK lease \in Leases : lease = [op |-> o, rev |-> n, expired |-> FALSE]
  BY DEF Leases
<1>6. PICK snapshots : snapshots = IF jobs[t].status = "pending" THEN Alike(cs, "processing") ELSE cs
  OBVIOUS
<1>7. new = Job("leased", k, TRUE, lease, m, snapshots)
  BY <1>2, <1>3, <1>4, <1>5, <1>6 DEF Leased
<1>8. /\ IsRows(snapshots) /\ DOMAIN snapshots = DOMAIN cs
      /\ Stand("leased", snapshots, site.retryable)
  <2>1. CASE jobs[t].status = "leased"
    <3>1. snapshots = cs BY <1>6, <2>1
    <3>2. QED BY <1>1, <1>2, <2>1, <3>1
  <2>2. CASE jobs[t].status = "pending"
    <3>1. snapshots = Alike(cs, "processing") BY <1>6, <2>2
    <3>2. PICK s \in {"queued", "processing", "isolated"} : s = "processing" OBVIOUS
    <3>3. /\ IsRows(Alike(cs, s)) /\ DOMAIN Alike(cs, s) = DOMAIN cs
          /\ \A c \in DOMAIN cs : Alike(cs, s)[c].status = s /\ Alike(cs, s)[c].rev = cs[c].rev + 1
      BY <1>2, AlikeRows, SMT
    <3>4. ASSUME NEW c \in DOMAIN cs, ~site.retryable PROVE cs[c].rev + 1 = 2
      <4>1. cs[c].rev = 1 BY <1>1, <1>2, <2>2, <3>4 DEF Stand
      <4>2. QED BY <4>1, SMT
    <3>5. QED BY <3>1, <3>2, <3>3, <3>4 DEF Stand
  <2>3. QED BY <2>1, <2>2
<1>9. IsJob(Job("leased", k, TRUE, lease, m, snapshots))
  <2>1. PICK s \in {"pending", "leased"} \union Terminal, d \in BOOLEAN : s = "leased" /\ d = TRUE
    OBVIOUS
  <2>2. DOMAIN snapshots # {} BY <1>2, <1>8
  <2>3. IF s = "leased" THEN lease \in Leases ELSE lease = None BY <2>1
  <2>4. IsRows(snapshots) BY <1>8
  <2>5. IsJob(Job(s, k, d, lease, m, snapshots)) BY <2>2, <2>3, <2>4, JobType
  <2>6. QED BY <2>1, <2>5
<1>10. new.status = "leased" /\ new.rev = k /\ new.cands = snapshots BY <1>7, SMT DEF Job
<1>11. QED BY <1>2, <1>3, <1>4, <1>7, <1>8, <1>9, <1>10

\* A claim leases the job and hands its new rows to the worker.
LEMMA ClaimNewStep ==
    ASSUME SitesFit, NoneFits, IInv, site' = site, NEW w \in Workers, NEW o \in Ops,
           ClaimNew(w, o)
    PROVE  IInv' /\ ReviewedStep
<1>0. requests' = requests /\ ws' = ws /\ reviews' = reviews BY DEF ClaimNew
<1>t. Tables BY DEF IInv
<1>1. Requested' /\ Archive' BY <1>0 DEF IInv, Requested, Archive
<1>2. CASE ~\E t \in Triggers : Claimable(t)
  <2>1. cands' = cands /\ jobs' = jobs /\ worker' = worker
        /\ claims' = [claims EXCEPT ![o] = Nothing]
    BY <1>2 DEF ClaimNew
  <2>2. /\ Tables' /\ Applied' /\ ReviewedStep
        /\ JobsKept(jobs, jobs') /\ WorkspaceKept(ws, ws')
    BY <1>0, <2>1, QuietTables
  <2>3. Reviewed' /\ Working' BY <1>0, <2>1, <2>2, ReviewedKept, WorkingKept DEF IInv
  <2>4. Claimed'
    <3>1. claims \in [Ops -> {None, Nothing} \union Claims] BY DEF IInv, Claimed
    <3>2. claims' \in [Ops -> {None, Nothing} \union Claims] BY <2>1, <3>1
    <3>3. \A p \in Ops : claims'[p] \notin {None, Nothing} => claims'[p] = claims[p]
      BY <2>1, <3>1
    <3>4. QED BY <2>1, <3>2, <3>3 DEF IInv, Claimed
  <2>5. QED BY <1>1, <2>2, <2>3, <2>4 DEF IInv
<1>3. ASSUME NEW t \in Triggers, Claimable(t), NEW new, new = Leased(t, o),
             jobs' = [jobs EXCEPT ![t] = new], cands' = Overlay(new.cands, cands),
             claims' = [claims EXCEPT ![o] = [t |-> t, rev |-> new.rev]],
             Holding(w, t, new)
      PROVE  IInv' /\ ReviewedStep
  <2>1. jobs[t] # None /\ jobs[t].status \in {"pending", "leased"} BY <1>3 DEF Claimable
  <2>2. /\ IsJob(new) /\ new.status = "leased" /\ jobs[t].rev < new.rev
        /\ Stand("leased", new.cands, site.retryable)
        /\ DOMAIN new.cands = DOMAIN jobs[t].cands
    BY <1>3, <1>t, <2>1, LeasedJob
  <2>3. Tables' /\ JobsKept(jobs, jobs')
    BY <1>3, <1>t, <2>1, <2>2, JobReplaced
  <2>4. DOMAIN jobs = Triggers BY <1>t DEF Tables
  <2>5. jobs'[t] = new BY <1>3, <2>4
  <2>6. WorkspaceKept(ws, ws') /\ ReplacesAsReviewed BY <1>0, QuietWorkspace
  <2>7. Reviewed' BY <1>0, <2>3, <2>6, ReviewedKept DEF IInv
  <2>8. new # None BY <2>2, JobIsRow
  <2>9. Claimed'
    <3>1. claims \in [Ops -> {None, Nothing} \union Claims] BY DEF IInv, Claimed
    <3>2. PICK claim \in Claims : claim = [t |-> t, rev |-> new.rev] BY <2>2 DEF IsJob, Claims
    <3>3. claims' = [claims EXCEPT ![o] = claim] BY <1>3, <3>2
    <3>4. ClaimStands(claim, jobs')
      <4>1. claim.t = t /\ claim.rev = new.rev BY <3>2
      <4>2. new.rev <= new.rev
        <5>1. new.rev \in Nat BY <2>2 DEF IsJob
        <5>2. QED BY <5>1, SMT
      <4>3. QED BY <4>1, <4>2, <2>2, <2>5, <2>8 DEF ClaimStands
    <3>5. ASSUME NEW p \in Ops, claims'[p] \notin {None, Nothing}
          PROVE  ClaimStands(claims'[p], jobs')
      <4>1. CASE p = o BY <4>1, <3>1, <3>3, <3>4
      <4>2. CASE p # o
        <5>1. claims'[p] = claims[p] BY <4>2, <3>1, <3>3
        <5>2. claims[p] \in Claims /\ ClaimStands(claims[p], jobs)
          BY <5>1, <3>1, <3>5 DEF IInv, Claimed
        <5>3. QED BY <5>1, <5>2, <2>3, KeptClaim
      <4>3. QED BY <4>1, <4>2
    <3>6. claims' \in [Ops -> {None, Nothing} \union Claims] BY <3>1, <3>3
    <3>7. QED BY <3>5, <3>6 DEF Claimed
  <2>10. Working'
    <3>1. PICK h : h = [pc |-> "claimed", job |-> [t |-> t, rev |-> new.rev, cands |-> new.cands],
                        call |-> None]
      OBVIOUS
    <3>2. worker' = [worker EXCEPT ![w] = h] BY <1>3, <3>1 DEF Holding
    <3>3. PICK js : js = jobs' OBVIOUS
    <3>4. js[t] = new BY <2>5, <3>3
    <3>5. IsHolding(h) /\ WorkerStands(h, js, ws', site.retryable)
      <4>1. js[t] # None /\ IsJob(js[t]) /\ js[t].status = "leased"
            /\ Stand(js[t].status, js[t].cands, site.retryable)
        BY <3>4, <2>2, <2>8
      <4>2. h = [pc |-> "claimed", job |-> [t |-> t, rev |-> js[t].rev, cands |-> js[t].cands],
                 call |-> None]
        BY <3>1, <3>4
      <4>3. QED BY <4>1, <4>2, HoldingStands
    <3>6. QED BY <3>2, <3>3, <3>5, <2>3, <2>6, WorkingPut DEF IInv
  <2>11. ASSUME NEW c \in Candidates, cands'[c] # cands[c]
         PROVE  cands[c].status = "queued" /\ cands'[c].status = "processing"
    <3>1. c \in DOMAIN cands BY <1>t DEF Tables
    <3>2. c \in DOMAIN new.cands /\ cands'[c] = new.cands[c]
      BY <3>1, <1>3, <2>11, OverlayAt, SMT
    <3>3. cands[c] = jobs[t].cands[c] BY <3>2, <2>1, <2>2, <1>t, InJob
    <3>4. jobs[t].status = "leased" => new.cands = jobs[t].cands BY <1>3 DEF Leased, Job
    <3>5. jobs[t].status = "pending"
      <4>1. CASE jobs[t].status = "leased"
        <5>1. new.cands[c] = cands[c] BY <3>3, <3>4, <4>1
        <5>2. QED BY <5>1, <3>2, <2>11
      <4>2. QED BY <4>1, <2>1
    <3>6. cands[c].status = "queued"
      <4>1. Stand(jobs[t].status, jobs[t].cands, site.retryable) BY <2>1, <1>t DEF Tables
      <4>2. c \in DOMAIN jobs[t].cands BY <3>2, <2>2
      <4>3. jobs[t].cands[c].status = "queued" BY <4>1, <4>2, <3>5, SMT DEF Stand
      <4>4. QED BY <4>3, <3>3
    <3>7. QED BY <3>2, <3>6, <2>2 DEF Stand
  <2>12. OutcomesFinal BY <2>11 DEF OutcomesFinal, Resolved
  <2>13. Applied' BY <1>0, <2>3, AppliedQuiet DEF IInv
  <2>14. CompletesAsHolder
    <3>1. \A u \in Triggers : u # t => jobs'[u] = jobs[u] BY <1>3, <2>4
    <3>2. jobs'[t].status # "completed" BY <2>2, <2>5
    <3>3. QED BY <3>1, <3>2 DEF CompletesAsHolder
  <2>15. QED
    BY <1>1, <2>3, <2>6, <2>7, <2>9, <2>10, <2>12, <2>13, <2>14, ReviewedParts DEF IInv
<1>4. QED BY <1>2, <1>3 DEF ClaimNew

(***************************************************************************)
(* What a running worker does.                                             *)
(***************************************************************************)
\* A step that changes only what worker w holds.
LEMMA HoldStep ==
    ASSUME SitesFit, NoneFits, IInv, site' = site, cands' = cands, jobs' = jobs, ws' = ws,
           claims' = claims, requests' = requests, reviews' = reviews,
           NEW w \in Workers, NEW h, worker' = [worker EXCEPT ![w] = h],
           IsHolding(h), WorkerStands(h, jobs, ws, site.retryable)
    PROVE  IInv' /\ ReviewedStep
<1>1. /\ Tables' /\ Applied' /\ Archive' /\ ReviewedStep
      /\ JobsKept(jobs, jobs') /\ WorkspaceKept(ws, ws')
  BY QuietTables
<1>2. Claimed' /\ Reviewed' BY <1>1, ClaimedKept, ReviewedKept DEF IInv
<1>3. Requested' BY DEF IInv, Requested
<1>4. Working' BY <1>1, WorkingPut DEF IInv
<1>5. QED BY <1>1, <1>2, <1>3, <1>4 DEF IInv

\* A worker with a call under way, or one that has given it up.
LEMMA CallStands ==
    ASSUME NEW h, IsHolding(h), NEW js, NEW w, NEW retryable,
           WorkerStands(h, js, w, retryable), h.pc = "running",
           NEW call,
           call = None \/ /\ call \in Calls /\ call.c \in DOMAIN h.job.cands
                          /\ call.tool = "review" => call.id \in DOMAIN w.entries,
           NEW g, g = [h EXCEPT !.call = call]
    PROVE  IsHolding(g) /\ WorkerStands(g, js, w, retryable)
<1>1. h = [pc |-> h.pc, job |-> h.job, call |-> h.call] BY DEF IsHolding
<1>2. g = [pc |-> h.pc, job |-> h.job, call |-> call] BY <1>1, SMT
<1>3. g.pc = h.pc /\ g.job = h.job /\ g.call = call BY <1>2, SMT
<1>4. IsHolding(g) BY <1>2, <1>3 DEF IsHolding
<1>5. WorkerStands(g, js, w, retryable) BY <1>3 DEF WorkerStands
<1>6. QED BY <1>4, <1>5

\* A worker that starts holds what it claimed.
LEMMA StartStep ==
    ASSUME SitesFit, NoneFits, IInv, site' = site, NEW w \in Workers, Start(w)
    PROVE  IInv' /\ ReviewedStep
<1>0. /\ cands' = cands /\ jobs' = jobs /\ claims' = claims /\ requests' = requests
      /\ ws' = ws /\ reviews' = reviews
  BY DEF Start
<1>1. CASE ~Fenced(w)
  <2>1. Drop(w) BY <1>1 DEF Start
  <2>2. QED BY <1>0, <2>1, QuietStep
<1>2. CASE Fenced(w)
  <2>1. PICK h : /\ h = worker[w] /\ IsHolding(h) /\ h.pc = "claimed"
                 /\ WorkerStands(h, jobs, ws, site.retryable)
    BY DEF Start, IInv, Working
  <2>2. PICK g : g = [h EXCEPT !.pc = "running"] OBVIOUS
  <2>3. worker' = [worker EXCEPT ![w] = g] BY <1>2, <2>1, <2>2 DEF Start
  <2>4. h = [pc |-> h.pc, job |-> h.job, call |-> h.call] BY <2>1 DEF IsHolding
  <2>5. g = [pc |-> "running", job |-> h.job, call |-> h.call]
    BY <2>2, <2>4, SMT
  <2>6. g.pc = "running" /\ g.job = h.job /\ g.call = h.call BY <2>5, SMT
  <2>7. IsHolding(g) BY <2>1, <2>5, <2>6 DEF IsHolding
  <2>8. WorkerStands(g, jobs, ws, site.retryable) BY <2>1, <2>6 DEF WorkerStands
  <2>9. QED BY <1>0, <2>3, <2>7, <2>8, HoldStep
<1>3. QED BY <1>1, <1>2

\* Call, in a step that changes nothing else.
LEMMA CallStep ==
    ASSUME SitesFit, NoneFits, IInv, site' = site, cands' = cands, jobs' = jobs, ws' = ws,
           claims' = claims, requests' = requests, reviews' = reviews,
           NEW w \in Workers, worker[w].pc = "running", NEW call \in Calls,
           call.c \in DOMAIN worker[w].job.cands,
           call.tool = "review" => call.id \in DOMAIN ws.entries,
           Call(w, call)
    PROVE  IInv' /\ ReviewedStep
<1>1. PICK h : h = worker[w] /\ IsHolding(h) /\ WorkerStands(h, jobs, ws, site.retryable)
  BY DEF IInv, Working
<1>2. PICK g : g = [h EXCEPT !.call = call] OBVIOUS
<1>3. worker' = [worker EXCEPT ![w] = g] BY <1>1, <1>2 DEF Call
<1>4. call.c \in DOMAIN h.job.cands /\ h.pc = "running" BY <1>1
<1>5. IsHolding(g) /\ WorkerStands(g, jobs, ws, site.retryable)
  BY <1>1, <1>2, <1>4, CallStands
<1>6. QED BY <1>3, <1>5, HoldStep

\* The identity a worker gives the entry of a candidate it holds.
LEMMA StableEntryType ==
    ASSUME IInv, NEW w \in Workers, worker[w].pc # "idle",
           NEW c \in DOMAIN worker[w].job.cands
    PROVE  /\ StableEntry(w, c) \in EntryIds /\ StableEntry(w, c).by = c
           /\ c \in Candidates /\ worker[w].job.cands[c].rev \in Nat
           /\ ~site.retryable => StableEntry(w, c).n = 2
<1>1. IsRows(worker[w].job.cands) BY HoldsJob DEF IsHeld
<1>2. c \in Candidates /\ worker[w].job.cands[c].rev \in Nat BY <1>1 DEF IsRows, Rows
<1>3. ~site.retryable => worker[w].job.cands[c].rev = 2 BY HoldsJob DEF WorkerStands
<1>4. StableEntry(w, c).by = c /\ StableEntry(w, c).n = worker[w].job.cands[c].rev
  BY DEF StableEntry
<1>5. StableEntry(w, c) \in EntryIds BY <1>2 DEF StableEntry, EntryIds, Authors
<1>6. QED BY <1>2, <1>3, <1>4, <1>5

\* A call under way is for a candidate of the job held.
LEMMA ApplyNewCheckStep ==
    ASSUME SitesFit, NoneFits, IInv, site' = site, NEW w \in Workers, NEW c \in Candidates,
           ApplyNewCheck(w, c)
    PROVE  IInv' /\ ReviewedStep
<1>0. /\ cands' = cands /\ jobs' = jobs /\ claims' = claims /\ requests' = requests
      /\ ws' = ws /\ reviews' = reviews
  BY DEF ApplyNewCheck
<1>1. worker[w].pc = "running" /\ c \in DOMAIN worker[w].job.cands
  BY DEF ApplyNewCheck, MayMutate, Ready
<1>2. ws.space \in Nat BY DEF IInv, Archive, IsWorkspace
<1>3. PICK call \in Calls : call = [tool |-> "apply", c |-> c, space |-> ws.space]
  BY <1>2 DEF Calls
<1>4. call.c = c /\ call.tool = "apply" BY <1>3, SMT
<1>5. Call(w, call) BY <1>3 DEF ApplyNewCheck
<1>6. call.c \in DOMAIN worker[w].job.cands /\ (call.tool = "review" => call.id \in DOMAIN ws.entries)
  BY <1>1, <1>4
<1>7. QED BY <1>0, <1>1, <1>5, <1>6, CallStep

\* A review under way is of an entry on file.
LEMMA ProposeReviewCheckStep ==
    ASSUME SitesFit, NoneFits, IInv, site' = site, NEW w \in Workers, NEW c \in Candidates,
           ProposeReviewCheck(w, c)
    PROVE  IInv' /\ ReviewedStep
<1>0. /\ cands' = cands /\ jobs' = jobs /\ claims' = claims /\ requests' = requests
      /\ ws' = ws /\ reviews' = reviews
  BY DEF ProposeReviewCheck
<1>1. worker[w].pc = "running" /\ c \in DOMAIN worker[w].job.cands
  BY DEF ProposeReviewCheck, MayMutate, Ready
<1>2. PICK id \in Occupants(ws, PathOf[c], None) :
        Call(w, [tool |-> "review", c |-> c, id |-> id, rev |-> ws.entries[id].rev])
  BY DEF ProposeReviewCheck
<1>3. id \in DOMAIN ws.entries BY DEF Occupants, Live
<1>4. id \in EntryIds /\ ws.entries[id].rev \in Nat
  <2>1. ws.entries[id] \in Entries /\ id \in EntryIds BY <1>3 DEF IInv, Archive, IsWorkspace
  <2>2. QED BY <2>1, EntryFields
<1>5. PICK call \in Calls :
        call = [tool |-> "review", c |-> c, id |-> id, rev |-> ws.entries[id].rev]
  BY <1>4 DEF Calls
<1>6. call.c = c /\ call.id = id BY <1>5, SMT
<1>7. Call(w, call) BY <1>2, <1>5
<1>8. call.c \in DOMAIN worker[w].job.cands /\ (call.tool = "review" => call.id \in DOMAIN ws.entries)
  BY <1>1, <1>3, <1>6
<1>9. QED BY <1>0, <1>1, <1>7, <1>8, CallStep

(***************************************************************************)
(* Writes to the workspace.                                                *)
(***************************************************************************)
\* A step that writes to the workspace and moves no candidate.
LEMMA WriteStep ==
    ASSUME SitesFit, NoneFits, IInv, site' = site, cands' = cands, jobs' = jobs,
           claims' = claims, requests' = requests,
           NewHaveJobs, ReplacesAsReviewed, Archive', Reviewed', Working'
    PROVE  IInv' /\ ReviewedStep
<1>t. Tables BY DEF IInv
<1>1. JobsKept(jobs, jobs') /\ CompletesAsHolder BY <1>t, QuietJobs
<1>2. OutcomesFinal BY QuietCandidates
<1>3. Tables'
  <2>1. cands' \in [Candidates -> Rows] /\ \A c \in Candidates : cands'[c] = cands[c]
    BY <1>t DEF Tables
  <2>2. QED BY <1>t, <2>1, CandidatesMoved
<1>4. Applied' BY <1>1, AppliedKept DEF IInv
<1>5. Claimed' BY <1>1, ClaimedKept DEF IInv
<1>6. Requested' BY DEF IInv, Requested
<1>7. QED BY <1>1, <1>2, <1>3, <1>4, <1>5, <1>6, ReviewedParts DEF IInv

\* An entry by a candidate is by one that has a job.
LEMMA EntryHasJob ==
    ASSUME IInv, NEW id \in DOMAIN ws.entries, ws.entries[id].from \in Candidates
    PROVE  HasJob(ws.entries[id].from, jobs)
<1>1. PICK r \in ws.revisions :
        r = [id |-> id, rev |-> ws.entries[id].rev, from |-> ws.entries[id].from]
  BY DEF IInv, Archive, Filed
<1>2. r.from = ws.entries[id].from BY <1>1, SMT
<1>3. QED BY <1>2 DEF IInv, Applied

\* Apply on the workspace: what it writes replaces no entry of another author,
\* unless the request itself does.
LEMMA ApplyStep ==
    ASSUME IInv, site' = site, NEW req, IsRequest(req), NEW done, done = Apply(ws, req),
           ws' = done.ws,
           ~site.retryable => (req.expected = 0 /\ req.entry.from \in Candidates => req.id.n = 2),
           req.entry.rev > 1 /\ req.entry.from \in Candidates =>
             req.entry.from = ws.entries[req.id].from,
           req.entry.from \in Candidates => HasJob(req.entry.from, jobs)
    PROVE  Archive' /\ WorkspaceKept(ws, ws') /\ ReplacesAsReviewed /\ NewHaveJobs
<1>1. IsWorkspace(ws) /\ Filed(ws) /\ (~site.retryable => OneId(ws)) BY DEF IInv, Archive
<1>2. /\ IsWorkspace(done.ws) /\ Filed(done.ws)
      /\ DOMAIN ws.entries \subseteq DOMAIN done.ws.entries
      /\ ws.revisions \subseteq done.ws.revisions
      /\ \A r \in done.ws.revisions \ ws.revisions :
           \/ r = Row(req.id, req.entry)
           \/ /\ r.rev > 1 /\ r.id \in DOMAIN ws.entries
              /\ r.from = ws.entries[r.id].from
      /\ (req.expected = 0 /\ req.entry.from \in Candidates => req.id.n = 2)
           /\ OneId(ws) => OneId(done.ws)
  BY <1>1, ApplyKeeps, SMTT(20)
<1>3. Archive' BY <1>1, <1>2 DEF Archive
<1>4. WorkspaceKept(ws, ws') BY <1>2 DEF WorkspaceKept
<1>5. ReplacesAsReviewed
  <2> SUFFICES ASSUME NEW r \in ws'.revisions \ ws.revisions, r.from \in Candidates,
                      r.rev > 1, ws.entries[r.id].from # r.from
               PROVE  FALSE
    BY DEF ReplacesAsReviewed
  <2>1. r = Row(req.id, req.entry) BY <1>2
  <2>2. r.id = req.id /\ r.rev = req.entry.rev /\ r.from = req.entry.from
    BY <2>1, SMT DEF Row
  <2>3. QED BY <2>2
<1>6. NewHaveJobs
  <2> SUFFICES ASSUME NEW r \in ws'.revisions \ ws.revisions, r.from \in Candidates
               PROVE  HasJob(r.from, jobs)
    BY DEF NewHaveJobs
  <2>1. CASE r = Row(req.id, req.entry)
    <3>1. r.from = req.entry.from BY <2>1, SMT DEF Row
    <3>2. QED BY <3>1
  <2>2. CASE r.id \in DOMAIN ws.entries /\ r.from = ws.entries[r.id].from
    BY <2>2, EntryHasJob
  <2>3. QED BY <1>2, <2>1, <2>2
<1>7. QED BY <1>3, <1>4, <1>5, <1>6

\* The user's own writes.
LEMMA UserWritesStep ==
    ASSUME SitesFit, NoneFits, IInv, site' = site,
           NEW id \in EntryIds, NEW expected \in Nat, NEW entry \in Entries,
           NEW recursive \in BOOLEAN,
           expected = 0 => entry.from = User /\ id.by = User,
           entry.from \in Candidates => /\ entry.from = ws.entries[id].from
                                        /\ HasJob(entry.from, jobs),
           UserWrites(id, expected, entry, recursive)
    PROVE  IInv' /\ ReviewedStep
<1> DEFINE op == [by |-> User, n |-> ws.space]
<1>0. /\ cands' = cands /\ jobs' = jobs /\ claims' = claims /\ requests' = requests
      /\ reviews' = reviews /\ worker' = worker
  BY DEF UserWrites
<1>1. op \in EntryIds /\ ws.space \in Nat
  <2>1. ws.space \in Nat BY DEF IInv, Archive, IsWorkspace
  <2>2. QED BY <2>1 DEF EntryIds, Authors
<1>2. PICK req : req = [op |-> op, id |-> id, space |-> ws.space, expected |-> expected,
                        recursive |-> recursive, entry |-> entry]
  OBVIOUS
<1>3. PICK done : done = Apply(ws, req) OBVIOUS
<1>4. ws' = done.ws BY <1>2, <1>3 DEF UserWrites
<1> HIDE DEF op
<1>5. /\ req.op = op /\ req.id = id /\ req.space = ws.space /\ req.expected = expected
      /\ req.recursive = recursive /\ req.entry = entry
  BY <1>2, SMT
<1>6. IsRequest(req) BY <1>1, <1>5 DEF IsRequest
<1>7. expected = 0 => entry.from \notin Candidates BY DEF SitesFit
<1>8. Archive' /\ WorkspaceKept(ws, ws') /\ ReplacesAsReviewed /\ NewHaveJobs
  BY <1>3, <1>4, <1>5, <1>6, <1>7, ApplyStep
<1>9. JobsKept(jobs, jobs') BY <1>0, QuietJobs DEF IInv
<1>10. Reviewed' /\ Working' BY <1>0, <1>8, <1>9, ReviewedKept, WorkingKept DEF IInv
<1>11. QED BY <1>0, <1>8, <1>10, WriteStep

\* The user creates entries under the user's own ids.
LEMMA UserCreateStep ==
    ASSUME SitesFit, NoneFits, IInv, site' = site, NEW p \in Paths, NEW k \in {"file", "folder"},
           UserCreate(p, k)
    PROVE  IInv' /\ ReviewedStep
<1>1. ws.space \in Nat BY DEF IInv, Archive, IsWorkspace
<1>2. PICK id \in EntryIds : id = [by |-> User, n |-> ws.space] BY <1>1 DEF EntryIds, Authors
<1>3. PICK entry \in Entries : entry = Entry(p, k, 1, User, FALSE)
  <2>1. PICK n \in Nat \ {0}, g \in Authors, d \in BOOLEAN : n = 1 /\ g = User /\ d = FALSE
    <3>1. 1 \in Nat \ {0} BY SMT
    <3>2. QED BY <3>1 DEF Authors
  <2>2. Entry(p, k, n, g, d) \in Entries BY <2>1, EntryType
  <2>3. QED BY <2>1, <2>2
<1>4. entry.from = User /\ id.by = User BY <1>2, <1>3, SMT DEF Entry
<1>5. PICK expected \in Nat, recursive \in BOOLEAN : expected = 0 /\ recursive = FALSE OBVIOUS
<1>6. UserWrites(id, expected, entry, recursive) BY <1>2, <1>3, <1>5 DEF UserCreate
<1>7. User \notin Candidates BY DEF SitesFit
<1>8. QED BY <1>4, <1>6, <1>7, UserWritesStep

\* A write of the user to an entry on file.
LEMMA UserRewriteStep ==
    ASSUME SitesFit, NoneFits, IInv, site' = site, NEW id \in DOMAIN ws.entries,
           NEW entry \in Entries, NEW recursive \in BOOLEAN,
           entry.from = User \/ entry.from = ws.entries[id].from,
           UserWrites(id, ws.entries[id].rev, entry, recursive)
    PROVE  IInv' /\ ReviewedStep
<1>1. ws.entries[id] \in Entries /\ id \in EntryIds BY DEF IInv, Archive, IsWorkspace
<1>2. PICK expected \in Nat : expected = ws.entries[id].rev /\ expected # 0
  BY <1>1, EntryFields
<1>3. entry.from \in Candidates => /\ entry.from = ws.entries[id].from
                                   /\ HasJob(entry.from, jobs)
  BY EntryHasJob DEF SitesFit
<1>4. UserWrites(id, expected, entry, recursive) BY <1>2
<1>5. QED BY <1>1, <1>2, <1>3, <1>4, UserWritesStep

\* An edited entry is by the user.
LEMMA UserEditStep ==
    ASSUME SitesFit, NoneFits, IInv, site' = site, NEW id \in DOMAIN ws.entries, UserEdit(id)
    PROVE  IInv' /\ ReviewedStep
<1>1. PICK e \in Entries : e = ws.entries[id] BY DEF IInv, Archive, IsWorkspace
<1>2. PICK entry \in Entries : entry = Entry(e.path, e.kind, e.rev + 1, User, FALSE)
  <2>1. PICK p \in Paths, k \in {"file", "folder"}, n \in Nat \ {0}, g \in Authors, d \in BOOLEAN :
          p = e.path /\ k = e.kind /\ n = e.rev + 1 /\ g = User /\ d = FALSE
    BY EntryFields DEF Authors
  <2>2. Entry(p, k, n, g, d) \in Entries BY EntryType
  <2>3. QED BY <2>1, <2>2
<1>3. entry.from = User BY <1>2, SMT DEF Entry
<1>4. PICK recursive \in BOOLEAN : recursive = FALSE OBVIOUS
<1>5. UserWrites(id, ws.entries[id].rev, entry, recursive) BY <1>1, <1>2, <1>4 DEF UserEdit
<1>6. QED BY <1>3, <1>5, UserRewriteStep

\* A moved entry keeps its author.
LEMMA UserMoveStep ==
    ASSUME SitesFit, NoneFits, IInv, site' = site, NEW id \in DOMAIN ws.entries,
           NEW path \in Paths, UserMove(id, path)
    PROVE  IInv' /\ ReviewedStep
<1>1. PICK e \in Entries : e = ws.entries[id] BY DEF IInv, Archive, IsWorkspace
<1>2. PICK entry \in Entries : entry = Entry(path, e.kind, e.rev + 1, e.from, FALSE)
  <2>1. PICK k \in {"file", "folder"}, n \in Nat \ {0}, g \in Authors, d \in BOOLEAN :
          k = e.kind /\ n = e.rev + 1 /\ g = e.from /\ d = FALSE
    BY EntryFields
  <2>2. Entry(path, k, n, g, d) \in Entries BY EntryType
  <2>3. QED BY <2>1, <2>2
<1>3. entry.from = ws.entries[id].from BY <1>1, <1>2, SMT DEF Entry
<1>4. PICK recursive \in BOOLEAN : recursive = FALSE OBVIOUS
<1>5. UserWrites(id, ws.entries[id].rev, entry, recursive) BY <1>1, <1>2, <1>4 DEF UserMove
<1>6. QED BY <1>3, <1>5, UserRewriteStep

\* An archived entry keeps its author.
LEMMA UserArchiveStep ==
    ASSUME SitesFit, NoneFits, IInv, site' = site, NEW id \in DOMAIN ws.entries,
           NEW recursive \in BOOLEAN, UserArchive(id, recursive)
    PROVE  IInv' /\ ReviewedStep
<1>1. PICK e \in Entries : e = ws.entries[id] BY DEF IInv, Archive, IsWorkspace
<1>2. PICK entry \in Entries : entry = Archived(e) /\ entry.from = e.from BY ArchivedEntry
<1>3. UserWrites(id, ws.entries[id].rev, entry, recursive) BY <1>1, <1>2 DEF UserArchive
<1>4. entry.from = ws.entries[id].from BY <1>1, <1>2
<1>5. QED BY <1>3, <1>4, UserRewriteStep

\* What a worker writes is by a candidate of the job it holds.
LEMMA ApplyNewWriteStep ==
    ASSUME SitesFit, NoneFits, IInv, site' = site, NEW w \in Workers, ApplyNewWrite(w)
    PROVE  IInv' /\ ReviewedStep
<1>0. /\ cands' = cands /\ jobs' = jobs /\ claims' = claims /\ requests' = requests
      /\ reviews' = reviews
  BY DEF ApplyNewWrite
<1>1. PICK h : /\ h = worker[w] /\ IsHolding(h) /\ h.pc = "running" /\ h.call # None
               /\ h.call.tool = "apply" /\ WorkerStands(h, jobs, ws, site.retryable)
  BY DEF ApplyNewWrite, IInv, Working
<1>2. PICK call : /\ call = h.call /\ call \in Calls /\ call.tool = "apply"
                  /\ call.c \in DOMAIN h.job.cands
  BY <1>1 DEF IsHolding, WorkerStands
<1>3. PICK c : c = call.c OBVIOUS
<1>4. call.space \in Nat BY <1>2, SMT DEF Calls
<1>5. PICK id : id = StableEntry(w, c) OBVIOUS
<1>6. c \in DOMAIN worker[w].job.cands /\ worker[w].pc # "idle" BY <1>1, <1>2, <1>3
<1>7. /\ id \in EntryIds /\ id.by = c /\ c \in Candidates
      /\ ~site.retryable => id.n = 2
  BY <1>5, <1>6, StableEntryType
<1>8. PICK entry \in Entries : /\ entry = Entry(PathOf[c], "file", 1, c, FALSE)
                               /\ entry.rev = 1 /\ entry.from = c
  <2>1. PICK p \in Paths, k \in {"file", "folder"}, n \in Nat \ {0}, g \in Authors, d \in BOOLEAN :
          p = PathOf[c] /\ k = "file" /\ n = 1 /\ g = c /\ d = FALSE
    <3>1. 1 \in Nat \ {0} BY SMT
    <3>2. PathOf[c] \in Paths /\ c \in Authors BY <1>7 DEF Paths, Authors
    <3>3. QED BY <3>1, <3>2
  <2>2. Entry(p, k, n, g, d) \in Entries BY EntryType
  <2>3. Entry(p, k, n, g, d).rev = n /\ Entry(p, k, n, g, d).from = g BY DEF Entry
  <2>4. QED BY <2>1, <2>2, <2>3
<1>9. PICK req : req = [op |-> id, id |-> id, space |-> call.space, expected |-> 0,
                        recursive |-> FALSE, entry |-> entry]
  OBVIOUS
<1>10. /\ req.op = id /\ req.id = id /\ req.space = call.space /\ req.expected = 0
       /\ req.recursive = FALSE /\ req.entry = entry
  BY <1>9, SMT
<1>11. IsRequest(req)
  <2>1. 0 \in Nat /\ req.recursive \in BOOLEAN BY <1>10
  <2>2. req.entry.from = req.id.by /\ req.entry \in Entries BY <1>7, <1>8, <1>10
  <2>3. QED BY <1>4, <1>7, <1>10, <2>1, <2>2 DEF IsRequest
<1>12. PICK done : done = Apply(ws, req) OBVIOUS
<1>13. ApplyRequest(w, worker[w].call) = req
  BY <1>1, <1>2, <1>3, <1>5, <1>8, <1>9 DEF ApplyRequest
<1>14. ws' = done.ws BY <1>12, <1>13 DEF ApplyNewWrite
<1>15. Archive' /\ WorkspaceKept(ws, ws') /\ ReplacesAsReviewed /\ NewHaveJobs
  <2>1. ~(req.entry.rev > 1)
    <3>1. req.entry.rev = 1 BY <1>8, <1>10
    <3>2. QED BY <3>1, SMT
  <2>2. ~site.retryable => (req.expected = 0 /\ req.entry.from \in Candidates => req.id.n = 2)
    BY <1>7, <1>10
  <2>3. HasJob(req.entry.from, jobs)
    <3>1. c \in DOMAIN worker[w].job.cands BY <1>6
    <3>2. HasJob(c, jobs) BY <1>6, HoldsJob DEF HasJob
    <3>3. QED BY <3>2, <1>8, <1>10
  <2>4. QED BY <1>11, <1>12, <1>14, <2>1, <2>2, <2>3, ApplyStep
<1>16. JobsKept(jobs, jobs') BY <1>0, QuietJobs DEF IInv
<1>17. Reviewed' BY <1>0, <1>15, <1>16, ReviewedKept DEF IInv
<1>18. WorkerStands(h, jobs', ws', site.retryable) BY <1>1, <1>15, <1>16, KeptWorker
<1>19. Working'
  <2>1. Call(w, None) BY DEF ApplyNewWrite
  <2>2. PICK g : g = [h EXCEPT !.call = None] OBVIOUS
  <2>3. worker' = [worker EXCEPT ![w] = g] BY <2>1, <2>2, <1>1 DEF Call
  <2>4. IsHolding(g) /\ WorkerStands(g, jobs', ws', site.retryable)
    BY <2>2, <1>1, <1>18, CallStands
  <2>5. QED BY <2>3, <2>4, <1>15, <1>16, WorkingPut DEF IInv
<1>20. QED BY <1>0, <1>15, <1>17, <1>19, WriteStep

\* A review is recorded for a candidate of a job on file.
LEMMA ProposeReviewWriteStep ==
    ASSUME SitesFit, NoneFits, IInv, site' = site, NEW w \in Workers, ProposeReviewWrite(w)
    PROVE  IInv' /\ ReviewedStep
<1>0. /\ cands' = cands /\ jobs' = jobs /\ claims' = claims /\ requests' = requests
      /\ ws' = ws
  BY DEF ProposeReviewWrite
<1>1. PICK h : /\ h = worker[w] /\ IsHolding(h) /\ h.pc = "running" /\ h.call # None
               /\ h.call.tool = "review" /\ WorkerStands(h, jobs, ws, site.retryable)
  BY DEF ProposeReviewWrite, IInv, Working
<1>2. PICK call : /\ call = h.call /\ call \in Calls /\ call.tool = "review"
                  /\ call.c \in DOMAIN h.job.cands /\ call.id \in DOMAIN ws.entries
  BY <1>1 DEF IsHolding, WorkerStands
<1>3. call.c \in Candidates /\ call.id \in EntryIds /\ call.rev \in Nat
  BY <1>2, SMT DEF Calls
<1>4. PICK t \in Triggers : /\ t = h.job.t /\ jobs[t] # None
                            /\ DOMAIN h.job.cands = DOMAIN jobs[t].cands
  BY <1>1, HoldsJob
<1>5. h.job.cands[call.c].rev \in Nat
  BY <1>1, <1>2, StableEntryType
<1>6. PICK r \in Reviews : r = [kind |-> "memory_review", t |-> t, c |-> call.c,
                                binding |-> h.job.cands[call.c].rev, id |-> call.id,
                                rev |-> call.rev]
  BY <1>3, <1>5 DEF Reviews
<1>7. r.t = t /\ r.c = call.c /\ r.id = call.id BY <1>6, SMT
<1>8. Review(w, worker[w].call) = r BY <1>1, <1>2, <1>4, <1>6 DEF Review
<1>9. /\ Tables' /\ Applied' /\ Archive' /\ ReviewedStep
      /\ JobsKept(jobs, jobs') /\ WorkspaceKept(ws, ws')
  BY <1>0, QuietTables
<1>10. Claimed' BY <1>0, <1>9, ClaimedKept DEF IInv
<1>11. Requested' BY <1>0 DEF IInv, Requested
<1>12. Reviewed'
  <2>1. reviews' = reviews \union {r} BY <1>8 DEF ProposeReviewWrite
  <2>2. ReviewStands(r, jobs, ws) BY <1>2, <1>4, <1>7 DEF ReviewStands
  <2>3. QED BY <1>0, <2>1, <2>2 DEF IInv, Reviewed
<1>13. PICK g : g = [h EXCEPT !.call = None] OBVIOUS
<1>14. worker' = [worker EXCEPT ![w] = g] BY <1>1, <1>13 DEF ProposeReviewWrite, Call
<1>15. IsHolding(g) /\ WorkerStands(g, jobs, ws, site.retryable) BY <1>1, <1>13, CallStands
<1>16. Working' BY <1>0, <1>9, <1>14, <1>15, WorkingPut DEF IInv
<1>17. QED BY <1>9, <1>10, <1>11, <1>12, <1>16 DEF IInv

(***************************************************************************)
(* The user's decision on a review.                                        *)
(***************************************************************************)
\* The decision moves the row of the candidate and the job with it.
LEMMA DecidedTables ==
    ASSUME SitesFit, NoneFits, IInv, site' = site, NEW r \in reviews, Undecided(r),
           NEW status \in {"applied", "rejected"}, NEW ref \in Results,
           Decided(r, status, ref)
    PROVE  /\ Tables' /\ JobsKept(jobs, jobs') /\ OutcomesFinal /\ CompletesAsHolder
           /\ \A c \in Candidates : cands'[c] # cands[c] =>
                c = r.c /\ cands'[c].status = status /\ cands'[c].result = ref
<1>t. Tables /\ cands \in [Candidates -> Rows] BY DEF IInv, Tables
<1>1. PICK t \in Triggers, c \in Candidates : t = r.t /\ c = r.c BY DEF IInv, Reviewed, Reviews
<1>2. jobs[t] # None /\ c \in DOMAIN jobs[t].cands
  BY <1>1 DEF IInv, Reviewed, ReviewStands
<1>3. IsJob(jobs[t]) /\ Stand(jobs[t].status, jobs[t].cands, site.retryable)
  BY <1>2, <1>t DEF Tables
<1>4. jobs[t].status = "completed" /\ cands[c].status = "awaiting_user"
  BY <1>1, SMT DEF Undecided, Snapshot
<1>5. PICK n \in Nat : n = cands[c].rev + 1
  <2>1. cands[c].rev \in Nat BY <1>t DEF Rows
  <2>2. QED BY <2>1, SMT
<1>6. PICK after : after = Snapshot(status, n, ref) OBVIOUS
<1>7. after \in Rows /\ after.status = status /\ after.result = ref
  <2>1. PICK s \in {"absent", "pending", "queued", "processing", "awaiting_user"} \union Resolved :
          s = status
    BY DEF Resolved
  <2>2. /\ Snapshot(s, n, ref) \in Rows /\ Snapshot(s, n, ref).status = s
        /\ Snapshot(s, n, ref).result = ref
    BY <2>1 DEF Snapshot, Rows
  <2>3. QED BY <1>6, <2>1, <2>2
<1>8. PICK cs, snapshots : cs = jobs[t].cands /\ snapshots = [cs EXCEPT ![c] = after] OBVIOUS
<1>9. cands' = [cands EXCEPT ![c] = after]
  BY <1>1, <1>5, <1>6 DEF Decided
<1>10. IsRows(cs) /\ DOMAIN cs # {} BY <1>3, <1>8 DEF IsJob
<1>11. /\ DOMAIN snapshots = DOMAIN cs /\ c \in DOMAIN cs
       /\ \A d \in DOMAIN cs : snapshots[d] = IF d = c THEN after ELSE cs[d]
  BY <1>2, <1>8
<1>12. IsRows(snapshots)
  <2>1. \A d \in DOMAIN cs : cs[d] \in Rows BY <1>10 DEF IsRows
  <2>2. snapshots \in [DOMAIN cs -> Rows] BY <1>7, <1>8, <1>10 DEF IsRows
  <2>3. QED BY <1>10, <1>11, <2>2 DEF IsRows
<1>13. Stand("completed", snapshots, site.retryable)
  <2> SUFFICES ASSUME NEW d \in DOMAIN cs
               PROVE  snapshots[d].status \in Resolved \union {"awaiting_user"}
    BY <1>11 DEF Stand
  <2>1. CASE d = c BY <2>1, <1>7, <1>11 DEF Resolved
  <2>2. CASE d # c
    <3>1. snapshots[d] = cs[d] BY <2>2, <1>11
    <3>2. cs[d].status \in Resolved \union {"awaiting_user"}
      BY <1>3, <1>4, <1>8 DEF Stand
    <3>3. QED BY <3>1, <3>2
  <2>3. QED BY <2>1, <2>2
<1>14. PICK k \in Nat, m \in Nat, due \in BOOLEAN :
          k = jobs[t].rev + 1 /\ jobs[t].rev < k /\ m = jobs[t].created /\ due = jobs[t].due
  <2>1. jobs[t].rev \in Nat /\ jobs[t].created \in Nat /\ jobs[t].due \in BOOLEAN
    BY <1>3 DEF IsJob
  <2>2. jobs[t].rev + 1 \in Nat /\ jobs[t].rev < jobs[t].rev + 1 BY <2>1, SMT
  <2>3. QED BY <2>1, <2>2
<1>15. jobs[t].lease = None BY <1>3, <1>4 DEF IsJob
<1>16. PICK s \in {"pending", "leased"} \union Terminal : s = "completed" BY DEF Terminal
<1>17. PICK new : new = Job(s, k, due, None, m, snapshots) OBVIOUS
<1>18. new.status = "completed" /\ new.rev = k /\ new.cands = snapshots
  BY <1>16, <1>17, SMT DEF Job
<1>19. IsJob(new)
  <2>1. s # "leased" /\ DOMAIN snapshots # {} BY <1>10, <1>11, <1>16
  <2>2. PICK lease : lease = None /\ (IF s = "leased" THEN lease \in Leases ELSE lease = None)
    BY <2>1
  <2>3. IsJob(Job(s, k, due, lease, m, snapshots)) BY <1>12, <2>1, <2>2, JobType
  <2>4. QED BY <1>17, <2>2, <2>3
<1>20. jobs' = [jobs EXCEPT ![t] = new]
  <2>1. jobs' = [jobs EXCEPT ![t] = Job(jobs[t].status, jobs[t].rev + 1, jobs[t].due,
                                        jobs[t].lease, jobs[t].created,
                                        [jobs[t].cands EXCEPT ![c] =
                                            Snapshot(status, cands[c].rev + 1, ref)])]
    BY <1>1 DEF Decided
  <2>2. Job(jobs[t].status, jobs[t].rev + 1, jobs[t].due, jobs[t].lease, jobs[t].created,
            [jobs[t].cands EXCEPT ![c] = Snapshot(status, cands[c].rev + 1, ref)]) = new
    BY <1>4, <1>5, <1>6, <1>8, <1>14, <1>15, <1>16, <1>17
  <2>3. QED BY <2>1, <2>2
<1>21. cands' = Overlay(new.cands, cands)
  <2>1. DOMAIN snapshots \union DOMAIN cands = Candidates BY <1>t, <1>10, <1>11 DEF IsRows
  <2>2. Overlay(snapshots, cands) =
          [d \in Candidates |-> IF d \in DOMAIN snapshots THEN snapshots[d] ELSE cands[d]]
    BY <2>1 DEF Overlay
  <2>3. cands' = [d \in Candidates |-> IF d = c THEN after ELSE cands[d]] BY <1>t, <1>9
  <2>4. ASSUME NEW d \in Candidates
        PROVE  (IF d \in DOMAIN snapshots THEN snapshots[d] ELSE cands[d]) =
                 IF d = c THEN after ELSE cands[d]
    <3>1. d \in DOMAIN cs => cs[d] = cands[d] BY <1>t, <1>2, <1>8 DEF Tables
    <3>2. QED BY <3>1, <1>11
  <2>5. QED BY <2>2, <2>3, <2>4, <1>18
<1>22. Tables' /\ JobsKept(jobs, jobs')
  <2>1. Stand(new.status, new.cands, site.retryable) /\ jobs[t].rev < new.rev
        /\ DOMAIN new.cands = DOMAIN jobs[t].cands
    BY <1>8, <1>11, <1>13, <1>14, <1>18
  <2>2. QED BY <1>t, <1>2, <1>19, <1>20, <1>21, <2>1, JobReplaced
<1>23. ASSUME NEW d \in Candidates, cands'[d] # cands[d]
       PROVE  /\ d = r.c /\ cands'[d].status = status /\ cands'[d].result = ref
              /\ cands[d].status = "awaiting_user"
  <2>1. d = c /\ cands'[d] = after BY <1>t, <1>9, <1>23
  <2>2. QED BY <2>1, <1>1, <1>4, <1>7
<1>24. OutcomesFinal BY <1>23 DEF OutcomesFinal, Resolved
<1>25. CompletesAsHolder
  <2>1. DOMAIN jobs = Triggers BY <1>t DEF Tables
  <2>2. \A u \in Triggers : u # t => jobs'[u] = jobs[u] BY <2>1, <1>20
  <2>3. QED BY <2>2, <1>4 DEF CompletesAsHolder
<1>26. QED BY <1>22, <1>23, <1>24, <1>25

\* A rejected review leaves the workspace alone.
LEMMA DecideRejectStep ==
    ASSUME SitesFit, NoneFits, IInv, site' = site, NEW r \in reviews, DecideReject(r)
    PROVE  IInv' /\ ReviewedStep
<1>0. /\ ws' = ws /\ claims' = claims /\ requests' = requests /\ reviews' = reviews
      /\ worker' = worker
  BY DEF DecideReject, Decided
<1>1. PICK s \in {"applied", "rejected"}, ref \in Results :
        s = "rejected" /\ Decided(r, s, ref)
  <2>1. None \in Results BY DEF Results
  <2>2. QED BY <2>1 DEF DecideReject
<1>2. Undecided(r) BY DEF DecideReject
<1>3. /\ Tables' /\ JobsKept(jobs, jobs') /\ OutcomesFinal /\ CompletesAsHolder
      /\ \A c \in Candidates : cands'[c] # cands[c] =>
                c = r.c /\ cands'[c].status = s /\ cands'[c].result = ref
  BY <1>1, <1>2, DecidedTables
<1>4. /\ Claimed' /\ Requested' /\ Reviewed' /\ Working' /\ Archive'
      /\ WorkspaceKept(ws, ws') /\ ReplacesAsReviewed
  BY <1>0, <1>3, RestKept
<1>5. Applied' BY <1>0, <1>3, AppliedQuiet DEF IInv
<1>6. QED BY <1>3, <1>4, <1>5, ReviewedParts DEF IInv

\* _apply_workspace: the reviewed entry gets one more revision.
LEMMA DecidedWorkspace ==
    ASSUME SitesFit, IInv, site' = site, NEW id \in DOMAIN ws.entries, NEW c \in Candidates,
           NEW n, n = ws.entries[id].rev + 1,
           Occupants(ws, PathOf[c], id) = {},
           ws' = [WithRevision(ws, id, Entry(PathOf[c], "file", n, c, FALSE))
                    EXCEPT !.space = @ + 1]
    PROVE  /\ Archive' /\ WorkspaceKept(ws, ws') /\ n \in Nat
           /\ ws'.revisions = ws.revisions \union {[id |-> id, rev |-> n, from |-> c]}
<1>0. IsWorkspace(ws) /\ Filed(ws) /\ (~site.retryable => OneId(ws)) BY DEF IInv, Archive
<1>1. id \in EntryIds /\ ws.entries[id] \in Entries BY <1>0 DEF IsWorkspace
<1>2. n \in Nat \ {0} /\ n > 1 /\ n \in Nat /\ ws.entries[id].rev \in Nat /\ n # 1
  <2>1. ws.entries[id].rev \in Nat \ {0} BY <1>1, EntryFields
  <2>2. QED BY <2>1, SMT
<1>3. PICK e \in Entries : /\ e = Entry(PathOf[c], "file", n, c, FALSE)
                           /\ e.rev = n /\ e.from = c /\ e.path = PathOf[c] /\ ~e.deleted
  <2>1. PICK p \in Paths, k \in {"file", "folder"}, g \in Authors, d \in BOOLEAN :
          p = PathOf[c] /\ k = "file" /\ g = c /\ d = FALSE
    BY DEF Paths, Authors
  <2>2. Entry(p, k, n, g, d) \in Entries BY <1>2, EntryType
  <2>3. /\ Entry(p, k, n, g, d).rev = n /\ Entry(p, k, n, g, d).from = g
        /\ Entry(p, k, n, g, d).path = p /\ Entry(p, k, n, g, d).deleted = d
    BY DEF Entry
  <2>4. QED BY <2>1, <2>2, <2>3
<1>4. PICK es, rs : es = Put(ws.entries, id, e) /\ rs = ws.revisions \union {Row(id, e)}
  OBVIOUS
<1>5. PICK w1 : w1 = WithRevision(ws, id, e) OBVIOUS
<1>6. w1 = [space |-> ws.space, entries |-> es, revisions |-> rs, receipts |-> ws.receipts]
  <2>1. w1 = [ws EXCEPT !.entries = es, !.revisions = rs]
    BY <1>4, <1>5 DEF WithRevision, Row
  <2>2. ws = [space |-> ws.space, entries |-> ws.entries, revisions |-> ws.revisions,
              receipts |-> ws.receipts]
    BY <1>0 DEF IsWorkspace
  <2>3. QED BY <2>1, <2>2, WithFields
<1>7. PICK s : s = ws.space + 1 OBVIOUS
<1>8. ws' = [space |-> s, entries |-> es, revisions |-> rs, receipts |-> ws.receipts]
  <2>1. w1.space = ws.space BY <1>6, WithFields
  <2>2. ws' = [w1 EXCEPT !.space = s] BY <1>3, <1>5, <1>7, <2>1
  <2>3. QED BY <1>6, <2>2, WithFields
<1>9. /\ ws'.space = s /\ ws'.entries = es /\ ws'.revisions = rs /\ ws'.receipts = ws.receipts
  <2>1. PICK v : v = [space |-> s, entries |-> es, revisions |-> rs, receipts |-> ws.receipts]
    OBVIOUS
  <2>2. v.space = s /\ v.entries = es /\ v.revisions = rs /\ v.receipts = ws.receipts
    BY <2>1, WithFields
  <2>3. ws' = v BY <1>8, <2>1
  <2>4. QED BY <2>2, <2>3
<1>10. DOMAIN es = DOMAIN ws.entries
       /\ \A x \in DOMAIN es : es[x] = IF x = id THEN e ELSE ws.entries[x]
  <2>1. DOMAIN es = DOMAIN ws.entries \union {id} BY <1>4 DEF Put
  <2>2. \A x \in DOMAIN es : es[x] = IF x = id THEN e ELSE ws.entries[x]
    BY <1>4, <2>1 DEF Put
  <2>3. QED BY <2>1, <2>2
<1>11. Row(id, e) = [id |-> id, rev |-> n, from |-> c] BY <1>3 DEF Row
<1>12. IsWorkspace(ws')
  <2>1. s \in Nat
    <3>1. ws.space \in Nat BY <1>0 DEF IsWorkspace
    <3>2. QED BY <1>7, <3>1, SMT
  <2>2. es \in [DOMAIN es -> Entries]
    <3>1. \A x \in DOMAIN es : es[x] \in Entries BY <1>0, <1>10 DEF IsWorkspace
    <3>2. es = [x \in DOMAIN es |-> es[x]] BY <1>4 DEF Put
    <3>3. QED BY <3>1, <3>2
  <2>3. Row(id, e) \in Revisions
    <3>1. c \in Authors BY DEF Authors
    <3>2. [id |-> id, rev |-> n, from |-> c] \in Revisions BY <1>1, <1>2, <3>1 DEF Revisions
    <3>3. QED BY <1>11, <3>2
  <2>4. rs \subseteq Revisions BY <1>0, <1>4, <2>3 DEF IsWorkspace
  <2>5. QED BY <1>0, <1>8, <1>9, <1>10, <2>1, <2>2, <2>4 DEF IsWorkspace
<1>13. Filed(ws')
  <2>1. \A x \in DOMAIN es : [id |-> x, rev |-> es[x].rev, from |-> es[x].from] \in rs
    <3> SUFFICES ASSUME NEW x \in DOMAIN es
                 PROVE  [id |-> x, rev |-> es[x].rev, from |-> es[x].from] \in rs
      OBVIOUS
    <3>1. CASE x = id BY <3>1, <1>3, <1>4, <1>10, <1>11
    <3>2. CASE x # id
      <4>1. es[x] = ws.entries[x] BY <3>2, <1>10
      <4>2. QED BY <4>1, <1>0, <1>4, <1>10 DEF Filed
    <3>3. QED BY <3>1, <3>2
  <2>2. \A r \in rs : r.rev = 1 => r.from = r.id.by
    <3>0. Row(id, e).rev = e.rev BY DEF Row
    <3>1. Row(id, e).rev = n BY <1>3, <3>0
    <3>2. QED BY <3>1, <1>0, <1>2, <1>4 DEF Filed
  <2>3. \A op \in DOMAIN ws.receipts : \E r \in rs :
          r.id = ws.receipts[op].id /\ r.rev = ws.receipts[op].rev
    BY <1>0, <1>4 DEF Filed
  <2>4. \A x \in Live(ws') : Occupants(ws', ws'.entries[x].path, x) = {}
    <3> SUFFICES ASSUME NEW x \in DOMAIN es, ~es[x].deleted, NEW y \in DOMAIN es, ~es[y].deleted,
                        y # x, es[y].path = es[x].path
                 PROVE  FALSE
      BY <1>9 DEF Live, Occupants
    <3>1. CASE x = id
      <4>1. es[y] = ws.entries[y] /\ es[x] = e BY <3>1, <1>10
      <4>2. y \in Occupants(ws, PathOf[c], id) BY <3>1, <4>1, <1>3, <1>10 DEF Occupants, Live
      <4>3. QED BY <4>2
    <3>2. CASE y = id
      <4>1. es[x] = ws.entries[x] /\ es[y] = e BY <3>2, <1>10
      <4>2. x \in Occupants(ws, PathOf[c], id) BY <3>2, <4>1, <1>3, <1>10 DEF Occupants, Live
      <4>3. QED BY <4>2
    <3>3. CASE x # id /\ y # id
      <4>1. es[x] = ws.entries[x] /\ es[y] = ws.entries[y] BY <3>3, <1>10
      <4>2. x \in Live(ws) /\ y \in Occupants(ws, ws.entries[x].path, x)
        BY <4>1, <1>10 DEF Occupants, Live
      <4>3. QED BY <4>2, <1>0 DEF Filed
    <3>4. QED BY <3>1, <3>2, <3>3
  <2>5. PICK v : v = ws' OBVIOUS
  <2>6. /\ \A x \in DOMAIN v.entries :
             [id |-> x, rev |-> v.entries[x].rev, from |-> v.entries[x].from] \in v.revisions
        /\ \A r \in v.revisions : r.rev = 1 => r.from = r.id.by
        /\ \A op \in DOMAIN v.receipts : \E r \in v.revisions :
             r.id = v.receipts[op].id /\ r.rev = v.receipts[op].rev
    <3>1. v.entries = es /\ v.revisions = rs /\ v.receipts = ws.receipts BY <1>9, <2>5
    <3>2. QED BY <3>1, <2>1, <2>2, <2>3, SMT
  <2>7. \A x \in Live(v) : Occupants(v, v.entries[x].path, x) = {} BY <2>4, <2>5
  <2>8. Filed(v) BY <2>6, <2>7 DEF Filed
  <2>9. QED BY <2>5, <2>8
<1>14. ~site.retryable => OneId(ws')
  <2>0. Row(id, e).rev = e.rev BY DEF Row
  <2>1. Row(id, e).rev = n BY <1>3, <2>0
  <2>2. QED BY <2>1, <1>0, <1>2, <1>4, <1>9 DEF OneId
<1>15. Archive' BY <1>12, <1>13, <1>14 DEF Archive
<1>16. WorkspaceKept(ws, ws') BY <1>4, <1>9, <1>10 DEF WorkspaceKept
<1>17. QED BY <1>2, <1>4, <1>9, <1>11, <1>15, <1>16

\* An approved review replaces the revision it was of.
LEMMA DecideApplyStep ==
    ASSUME SitesFit, NoneFits, IInv, site' = site, NEW r \in reviews, DecideApply(r)
    PROVE  IInv' /\ ReviewedStep
<1>0. claims' = claims /\ requests' = requests /\ reviews' = reviews /\ worker' = worker
  BY DEF DecideApply, Decided
<1>1. PICK id \in DOMAIN ws.entries, c \in Candidates : id = r.id /\ c = r.c
  BY DEF IInv, Reviewed, Reviews, ReviewStands
<1>2. PICK n : n = ws.entries[id].rev + 1 OBVIOUS
<1>3. /\ Archive' /\ WorkspaceKept(ws, ws') /\ n \in Nat
      /\ ws'.revisions = ws.revisions \union {[id |-> id, rev |-> n, from |-> c]}
  <2>1. Occupants(ws, PathOf[c], id) = {} BY <1>1 DEF DecideApply, TargetUnchanged
  <2>2. ws' = [WithRevision(ws, id, Entry(PathOf[c], "file", n, c, FALSE)) EXCEPT !.space = @ + 1]
    BY <1>1, <1>2 DEF DecideApply
  <2>3. QED BY <1>2, <2>1, <2>2, DecidedWorkspace
<1>4. id \in EntryIds BY DEF IInv, Archive, IsWorkspace
<1>5. PICK ref \in Results : ref = [kind |-> "memory", id |-> id, rev |-> n]
  BY <1>3, <1>4 DEF Results, EntryRefs
<1>6. PICK s \in {"applied", "rejected"} : s = "applied" OBVIOUS
<1>7. Undecided(r) /\ Decided(r, s, ref)
  BY <1>1, <1>2, <1>5, <1>6 DEF DecideApply
<1>8. /\ Tables' /\ JobsKept(jobs, jobs') /\ OutcomesFinal /\ CompletesAsHolder
      /\ \A d \in Candidates : cands'[d] # cands[d] =>
                d = r.c /\ cands'[d].status = s /\ cands'[d].result = ref
  BY <1>7, DecidedTables, SMTT(20)
<1>9. Claimed' /\ Reviewed' /\ Working'
  BY <1>0, <1>3, <1>8, ClaimedKept, ReviewedKept, WorkingKept DEF IInv
<1>10. Requested' BY <1>0 DEF IInv, Requested
<1>11. Applied'
  <2>1. HasJob(c, jobs)
    <3>1. PICK t \in Triggers : t = r.t BY DEF IInv, Reviewed, Reviews
    <3>2. jobs[t] # None /\ c \in DOMAIN jobs[t].cands
      BY <1>1, <3>1 DEF IInv, Reviewed, ReviewStands
    <3>3. QED BY <3>2 DEF HasJob
  <2>2. NewHaveJobs
    <3>1. ASSUME NEW x \in ws'.revisions \ ws.revisions PROVE x.from = c
      <4>1. x = [id |-> id, rev |-> n, from |-> c] BY <1>3
      <4>2. QED BY <4>1, SMT
    <3>2. QED BY <2>1, <3>1 DEF NewHaveJobs
  <2>3. QED BY <2>2, <1>8, AppliedKept DEF IInv
<1>12. ReplacesAsReviewed
  <2>1. /\ cands[c].status = "awaiting_user" /\ cands[c].result = r
    BY <1>1, <1>7, SMT DEF Undecided, Snapshot
  <2>2. ws.entries[id].rev = r.rev BY <1>1 DEF DecideApply, TargetUnchanged
  <2>3. ASSUME NEW x \in ws'.revisions \ ws.revisions
        PROVE  x.from = c /\ x.id = id
    <3>1. x = [id |-> id, rev |-> n, from |-> c] BY <1>3
    <3>2. QED BY <3>1, SMT
  <2>4. QED BY <1>1, <2>1, <2>2, <2>3 DEF ReplacesAsReviewed
<1>13. QED
  BY <1>3, <1>8, <1>9, <1>10, <1>11, <1>12, ReviewedParts DEF IInv

(***************************************************************************)
(* The theorems.                                                           *)
(***************************************************************************)
\* The empty tables and the empty workspace satisfy the invariant.
LEMMA InitInvariant ==
    ASSUME SitesFit, NoneFits, Init
    PROVE  IInv
<1>1. \A c \in Candidates : cands[c] \in Rows /\ cands[c].status = "absent"
  <2>1. 0 \in Nat /\ None \in Results BY DEF Results
  <2>2. Snapshot("absent", 0, None) \in Rows /\ Snapshot("absent", 0, None).status = "absent"
    BY <2>1 DEF Snapshot, Rows
  <2>3. QED BY <2>2 DEF Init
<1>2. Tables
  <2>1. cands \in [Candidates -> Rows] BY <1>1 DEF Init
  <2>2. DOMAIN jobs = Triggers /\ \A t \in Triggers : jobs[t] = None BY DEF Init
  <2>3. QED BY <1>1, <2>1, <2>2 DEF Tables
<1>3. Claimed
  <2>1. \A o \in Ops : claims[o] = None BY DEF Init
  <2>2. QED BY <2>1 DEF Init, Claimed
<1>4. Requested /\ Reviewed BY DEF Init, Requested, Reviewed
<1>5. Working
  <2>1. DOMAIN worker = Workers /\ \A w \in Workers : worker[w] = Idle BY DEF Init
  <2>2. IsHolding(Idle) /\ WorkerStands(Idle, jobs, ws, site.retryable) BY IdleStands
  <2>3. QED BY <2>1, <2>2 DEF Working
<1>6. Applied
  <2>1. ws.revisions = {} BY WithFields DEF Init, EmptyWorkspace
  <2>2. QED BY <2>1 DEF Applied
<1>7. Archive
  <2>1. ws = [space |-> 1, entries |-> << >>, revisions |-> {}, receipts |-> << >>]
    BY DEF Init, EmptyWorkspace
  <2>2. ws.space = 1 /\ ws.entries = << >> /\ ws.revisions = {} /\ ws.receipts = << >>
    BY <2>1, WithFields
  <2>3. << >> \in [DOMAIN << >> -> Entries] /\ << >> \in [DOMAIN << >> -> Receipts]
        /\ DOMAIN << >> = {}
    BY SMT
  <2>4. IsWorkspace(ws)
    <3>1. 1 \in Nat OBVIOUS
    <3>2. QED BY <2>1, <2>2, <2>3, <3>1 DEF IsWorkspace
  <2>5. Filed(ws) /\ OneId(ws) BY <2>2, <2>3 DEF Filed, OneId, Live
  <2>6. QED BY <2>4, <2>5 DEF Archive
<1>8. QED BY <1>2, <1>3, <1>4, <1>5, <1>6, <1>7 DEF IInv, Init

\* Every step keeps the invariant, and is one DecidedAsReviewed allows.
LEMMA StepInvariant ==
    ASSUME SitesFit, NoneFits, IInv, Next
    PROVE  IInv' /\ ReviewedStep
<1>0. site' = site BY DEF Next
<1>s. /\ site.triggers \subseteq Triggers /\ site.candidates \subseteq Candidates
      /\ site.ops \subseteq Ops
  <2>1. site \in SiteType BY DEF IInv, SitesFit
  <2>2. QED BY <2>1 DEF SiteType
<1>1. CASE CandidateStep BY <1>0, <1>1, <1>s, ProposeStep DEF CandidateStep
<1>2. CASE JobStep
  BY <1>0, <1>2, <1>s, IsolateStep, EnqueueListStep, CancelStep, LeaseExpiresStep, RetryDueStep,
     EnqueueWriteStep DEF JobStep
<1>3. ASSUME NEW w \in Workers, WorkerStep(w) PROVE IInv' /\ ReviewedStep
  <2>1. ASSUME NEW o \in site.ops, ClaimNew(w, o) \/ ClaimReplayed(w, o) PROVE IInv' /\ ReviewedStep
    BY <1>0, <1>s, <2>1, ClaimNewStep, ClaimReplayedStep
  <2>2. CASE Start(w) \/ ReconcileAndComplete(w) \/ FailRetryable(w) \/ FailTerminal(w)
    BY <1>0, <2>2, StartStep, ReconcileStep, FailRetryableStep, FailTerminalStep
  <2>3. CASE WorkerDies(w) \/ ApplyNewWrite(w) \/ ProposeReviewWrite(w)
    BY <1>0, <2>3, WorkerDiesStep, ApplyNewWriteStep, ProposeReviewWriteStep
  <2>4. ASSUME NEW c \in Candidates,
               ApplyNewCheck(w, c) \/ ProposeReviewCheck(w, c)
        PROVE  IInv' /\ ReviewedStep
    BY <1>0, <2>4, ApplyNewCheckStep, ProposeReviewCheckStep
  <2>5. QED BY <1>3, <2>1, <2>2, <2>3, <2>4 DEF WorkerStep
<1>4. CASE DecisionStep BY <1>0, <1>4, DecideApplyStep, DecideRejectStep DEF DecisionStep
<1>5. CASE UserStep
  BY <1>0, <1>5, UserCreateStep, UserEditStep, UserMoveStep, UserArchiveStep DEF UserStep
<1>6. QED BY <1>1, <1>2, <1>3, <1>4, <1>5 DEF Next, Step

\* A step that changes no variable of the module is none.
LEMMA StutterInvariant ==
    ASSUME SitesFit, NoneFits, IInv, UNCHANGED vars
    PROVE  IInv'
BY QuietStep DEF vars

\* The invariant gives what the run checks of applied candidates.
LEMMA AppliedSuffices ==
    ASSUME IInv
    PROVE  AppliedOnce
<1>1. \A r \in ws.revisions : r.from \in Candidates =>
         \E t \in Triggers : jobs[t] # None /\ r.from \in DOMAIN jobs[t].cands
  BY DEF IInv, Applied, HasJob
<1>2. ASSUME ~site.retryable, NEW c \in Candidates
      PROVE  Cardinality({r \in ws.revisions : r.from = c /\ r.rev = 1}) <= 1
  <2>1. PICK x : x = [id |-> [by |-> c, n |-> 2], rev |-> 1, from |-> c] OBVIOUS
  <2>2. PICK S : S = {r \in ws.revisions : r.from = c /\ r.rev = 1} OBVIOUS
  <2>3. IsWorkspace(ws) /\ Filed(ws) /\ OneId(ws) BY <1>2 DEF IInv, Archive
  <2>4. ASSUME NEW r \in S PROVE r = x
    <3>1. r \in ws.revisions /\ r.from = c /\ r.rev = 1 BY <2>2
    <3>2. r \in Revisions BY <2>3, <3>1 DEF IsWorkspace
    <3>3. r.id.by = c /\ r.id.n = 2 BY <2>3, <3>1 DEF Filed, OneId
    <3>4. r.id \in EntryIds /\ r = [id |-> r.id, rev |-> r.rev, from |-> r.from]
      BY <3>2, SMT DEF Revisions
    <3>5. r.id = [by |-> r.id.by, n |-> r.id.n] BY <3>4, SMT DEF EntryIds
    <3>6. QED BY <2>1, <3>1, <3>3, <3>4, <3>5
  <2>5. S \in SUBSET {x} BY <2>4
  <2>6. IsFiniteSet({x}) /\ Cardinality({x}) = 1 BY FS_Singleton
  <2>7. IsFiniteSet(S) /\ Cardinality(S) <= Cardinality({x}) BY <2>5, <2>6, FS_Subset
  <2>8. Cardinality(S) \in Nat BY <2>7, FS_CardinalityType
  <2>9. QED BY <2>2, <2>6, <2>7, <2>8, SMT
<1>3. QED BY <1>1, <1>2 DEF AppliedOnce

\* The inductive invariant of the curator holds in every reachable state.
THEOREM CuratorInvariant == SitesFit /\ NoneFits /\ Spec => []IInv
<1> SUFFICES ASSUME SitesFit, NoneFits PROVE Spec => []IInv
  OBVIOUS
<1>1. Init => IInv BY InitInvariant
<1>2. IInv /\ [Next]_vars => IInv' BY StepInvariant, StutterInvariant
<1>3. QED BY <1>1, <1>2, PTL DEF Spec

\* Spec => []SnapshotsAgree: a job always carries the current rows of its
\* candidates, and no candidate belongs to two jobs, whatever the clock, the
\* workers that died or were taken over, and the user do.
THEOREM JobsAgree == SitesFit /\ NoneFits /\ Spec => []SnapshotsAgree
<1> SUFFICES ASSUME SitesFit, NoneFits PROVE Spec => []SnapshotsAgree
  OBVIOUS
<1>1. Spec => []IInv BY CuratorInvariant
<1>2. IInv => SnapshotsAgree BY InvariantSuffices
<1>3. QED BY <1>1, <1>2, PTL

\* Spec => []AppliedOnce: nothing of a candidate is in the workspace unless a
\* job has it, and without retryable failures a candidate has created one entry
\* at most, whatever workers that were taken over still write.
THEOREM WritesAreClaimed == SitesFit /\ NoneFits /\ Spec => []AppliedOnce
<1> SUFFICES ASSUME SitesFit, NoneFits PROVE Spec => []AppliedOnce
  OBVIOUS
<1>1. Spec => []IInv BY CuratorInvariant
<1>2. IInv => AppliedOnce BY AppliedSuffices
<1>3. QED BY <1>1, <1>2, PTL

\* Spec => DecidedAsReviewed: an entry is replaced only as the user reviewed
\* it, a job completes only by the worker of its latest claim, and an outcome
\* is final.
THEOREM ReviewsDecide == SitesFit /\ NoneFits /\ Spec => DecidedAsReviewed
<1> SUFFICES ASSUME SitesFit, NoneFits PROVE Spec => DecidedAsReviewed
  OBVIOUS
<1>1. Spec => []IInv BY CuratorInvariant
<1>2. IInv /\ [Next]_vars => [ReviewedStep]_vars BY StepInvariant
<1>3. QED BY <1>1, <1>2, PTL DEF Spec, DecidedAsReviewed
=============================================================================
