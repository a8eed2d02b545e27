---------------------------- MODULE MemoryPlane ----------------------------
(***************************************************************************)
(* The Memory V2 data plane of one chat and one long-term namespace: the   *)
(* workspace service and its full-text and vector indexes, paged listings  *)
(* and hybrid search (memory/workspace/{service,search}.py over            *)
(* persistence/sqlite_memory_v2.py), the pinned task state                 *)
(* (task_state.py), and confirmation-gated promotion into long-term memory *)
(* (promotions.py over persistence/sqlite_promotion_v2.py).  Every SQLite  *)
(* transaction is one step; a caller reads in one and writes in another.   *)
(***************************************************************************)
EXTENDS MemoryWorkspace, Sequences, FiniteSetsExt, TLC

CONSTANTS
    Plans,      \* what the callers of one behaviour may do, and its bounds
    Editors,    \* concurrent callers of the workspace service
    ParentPath, \* the folder path directly above a path, Root at the top
    Rank,       \* the order of path keys
    Confirms,   \* ids of user confirmations
    Fields      \* the fields of the pinned task state

VARIABLES
    plan,       \* the plan of this behaviour
    ws,         \* the chat workspace (see MemoryWorkspace)
    links,      \* its relation links
    lt,         \* the long-term workspace
    edits,      \* each editor's request in flight
    fts,        \* per space: the index_state row and the rows of the index
    fts_on,     \* per store that is open on the files: its _fts_available
    unmarked,   \* an outage whose marker could not be written
    blind,      \* the spaces written without their index since it was last rebuilt
    vector,     \* chat projection: entry -> revision of its receipt and points
    watermark,  \* corpus epoch of the newest projection commit, 0 before any
    page,       \* the last projection page a reader was given
    listing,    \* a paged listing of children
    query,      \* a hybrid search
    proposals,  \* proposal id -> the sequence of its revisions
    promo,      \* promotion_operation_receipts: operation -> what it wrote
    granted,    \* confirmations the host has given: id -> [pid, approved, used]
    proposer,   \* a propose call in flight
    confirmer,  \* per confirmation: the decide call that carries it
    task,       \* task_state_revisions, oldest first
    updates,    \* task-state operation -> [patch, expected, rev]
    updating    \* task-state calls in flight

memory == <<ws, links, edits>>
index == <<fts, fts_on, unmarked, blind, vector, watermark>>
readers == <<page, listing, query>>
promotion == <<lt, proposals, promo, granted, proposer, confirmer>>
taskstate == <<task, updates, updating>>
vars == <<plan, memory, index, readers, promotion, taskstate>>

Root == "/"
Unset == "none"
NoRef == [id |-> Unset, rev |-> 0]
Idle == [pc |-> "idle"]

Does(x) == x \in plan.does

MayRepeat == Does("retry")

----------------------------------------------------------------------------
(* Binding.                                                               *)

\* Both spaces exist at revision 1, and the namespace is bound to one space: the
\* store opens with its tables, its index and its markers in place.
bind ==
    /\ lt = EmptyWorkspace
    /\ proposer = Idle /\ confirmer = [c \in Confirms |-> Idle]

PromotionTables == proposals = << >> /\ promo = << >> /\ granted = << >>

bind_workspace ==
    /\ ws = plan.start
    /\ links = {}
    /\ edits = [e \in Editors |-> Idle]

VectorTables == vector = << >> /\ watermark = 0 /\ page = [complete |-> FALSE]

Readers == listing = Idle /\ query = Idle

PathsOf(w) == [id \in Live(w) |-> w.entries[id].path]

bind_task_state ==
    /\ task = << >> /\ updates = << >>
    /\ updating = [u \in Editors |-> Idle]

Init ==
    /\ plan \in Plans
    /\ bind_workspace /\ VectorTables /\ Readers
    /\ bind /\ PromotionTables
    /\ bind_task_state
    /\ fts = [chat |-> [ready |-> TRUE, rows |-> PathsOf(ws)],
              long |-> [ready |-> TRUE, rows |-> << >>]]
    /\ fts_on = [a \in plan.stores |-> TRUE]
    /\ unmarked = FALSE
    /\ blind = {}

----------------------------------------------------------------------------
(* The full-text index.                                                   *)

Changed(old, new) ==
    {id \in DOMAIN new.entries :
       id \notin DOMAIN old.entries \/ old.entries[id] # new.entries[id]}

\* _refresh_fts_entry for every entry a transaction wrote: the row is deleted and,
\* for a live entry, inserted again.
_refresh_fts_entry(space, old, new) ==
    LET kept == [id \in DOMAIN fts[space].rows \ Changed(old, new) |-> fts[space].rows[id]]
        added == [id \in Changed(old, new) \cap Live(new) |-> new.entries[id].path]
    IN  [fts EXCEPT ![space] = [ready |-> TRUE, rows |-> added @@ kept]]

MarkedDown == [s \in DOMAIN fts |-> [fts[s] EXCEPT !.ready = FALSE]]

\* A write through one of the stores.  A store whose index failed leaves the index
\* alone.  When the write's own refresh fails the store stops using the index and
\* says so for every space, in the transaction of the write; the rows it had
\* already deleted are gone.
Refresh(space, old, new) ==
    \E a \in plan.stores :
        \/ /\ Changed(old, new) = {}
           /\ UNCHANGED <<fts, fts_on, blind>>
        \/ /\ Changed(old, new) # {} /\ fts_on[a]
           /\ fts' = _refresh_fts_entry(space, old, new)
           /\ UNCHANGED <<fts_on, blind>>
        \/ /\ Changed(old, new) # {} /\ ~fts_on[a]
           /\ blind' = blind \cup {space}
           /\ UNCHANGED <<fts, fts_on>>
        \/ /\ Does("outage") /\ Changed(old, new) # {} /\ fts_on[a]
           /\ \E gone \in SUBSET (Changed(old, new) \cap DOMAIN fts[space].rows) :
                fts' = [MarkedDown EXCEPT ![space].rows =
                           [id \in DOMAIN @ \ gone |-> @[id]]]
           /\ fts_on' = [fts_on EXCEPT ![a] = FALSE]
           /\ blind' = blind \cup {space}

\* A restart that trusts the counts alone.
CountsDiffer ==
    \E s \in DOMAIN fts :
        Cardinality(DOMAIN fts[s].rows)
            # Cardinality(Live(IF s = "chat" THEN ws ELSE lt))

NeedsRebuild == (\E s \in DOMAIN fts : ~fts[s].ready) \/ CountsDiffer

\* A store opens the files, in place of one that was closed or whose process died:
\* the index is rebuilt when a marker says so or the counts differ, and every marker
\* is set to ready, whatever the other open stores know.  Or that fails, and the
\* store does without.  A caller that was in flight may be gone.
_initialize_fts(a) ==
    /\ Does("restart")
    /\ \/ /\ fts' = [s \in DOMAIN fts |->
                       [ready |-> TRUE,
                        rows |-> IF NeedsRebuild
                                 THEN PathsOf(IF s = "chat" THEN ws ELSE lt)
                                 ELSE fts[s].rows]]
          /\ fts_on' = [fts_on EXCEPT ![a] = TRUE]
          /\ blind' = IF NeedsRebuild THEN {} ELSE blind
          /\ UNCHANGED unmarked
       \/ /\ Does("outage")
          /\ fts_on' = [fts_on EXCEPT ![a] = FALSE]
          /\ \/ fts' = MarkedDown /\ UNCHANGED unmarked
             \/ unmarked' = TRUE /\ UNCHANGED fts
          /\ UNCHANGED blind
    /\ edits' \in {edits, [e \in Editors |-> Idle]}
    /\ query' = Idle /\ listing' = Idle
    /\ UNCHANGED <<plan, ws, links, vector, watermark, page, promotion, taskstate>>

\* Binding a workspace again writes the marker this store believes in.
Rebind(a, space) ==
    /\ Does("restart") /\ fts[space].ready # fts_on[a]
    /\ fts' = [fts EXCEPT ![space].ready = fts_on[a]]
    /\ UNCHANGED <<plan, memory, fts_on, unmarked, blind, vector, watermark, readers, promotion,
                   taskstate>>

----------------------------------------------------------------------------
(* The workspace service: it reads what a reference names, then applies.  *)

Ref(id) == [id |-> id, rev |-> ws.entries[id].rev]

Request(op, id, entry, expected, recursive) ==
    [op |-> op, space |-> ws.space, id |-> id, entry |-> entry,
     expected |-> expected, recursive |-> recursive]

Begin(e, req) ==
    /\ edits[e] = Idle
    /\ edits' = [edits EXCEPT ![e] = [pc |-> "apply", req |-> req]]
    /\ UNCHANGED <<plan, ws, links, index, readers, promotion, taskstate>>

Fresh(op) == op \notin DOMAIN ws.entries /\ \A e \in Editors : edits[e] # Idle => edits[e].req.op # op

\* write_markdown and create_folder: a new entry takes its id from the operation.
_write(e, op, path, kind) ==
    /\ Does("write") /\ Fresh(op)
    /\ Begin(e, Request(op, op, Entry(path, kind, 1, op, FALSE), 0, FALSE))

\* An update of an entry that is not archived; its kind and its path stay.
_update(e, op, id) ==
    /\ Does("update") /\ Fresh(op)
    /\ id \in Live(ws)
    /\ Begin(e, Request(op, id, [ws.entries[id] EXCEPT !.rev = @ + 1, !.from = op],
                        ws.entries[id].rev, FALSE))

move(e, op, id, path) ==
    /\ Does("move") /\ Fresh(op)
    /\ id \in Live(ws)
    /\ Begin(e, Request(op, id, [ws.entries[id] EXCEPT !.rev = @ + 1, !.from = op,
                                                       !.path = path],
                        ws.entries[id].rev, FALSE))

\* Only a folder is archived with what lies under it.
archive(e, op, id, recursive) ==
    /\ Does("archive") /\ Fresh(op)
    /\ id \in Live(ws)
    /\ recursive => ws.entries[id].kind = "folder"
    /\ Begin(e, Request(op, id, [ws.entries[id] EXCEPT !.rev = @ + 1, !.from = op,
                                                       !.deleted = TRUE],
                        ws.entries[id].rev, recursive))

\* The transaction, with the rows of the full-text index it rewrites.  A caller
\* that does not hear the answer sends the same operation again.
_apply(e) ==
    LET out == Apply(ws, edits[e].req)
        done == [pc |-> "index", req |-> edits[e].req]
    IN  /\ edits[e] # Idle /\ edits[e].pc = "apply"
        /\ ws.space < plan.maxSpace \/ ~out.ok
        /\ ws' = out.ws
        /\ edits' \in {[edits EXCEPT ![e] = IF out.ok THEN done ELSE Idle]}
                      \cup (IF MayRepeat THEN {edits} ELSE {})
        /\ Refresh("chat", ws, ws')
        /\ UNCHANGED <<plan, links, unmarked, vector, watermark, readers, promotion, taskstate>>

\* link reads both ends; create_link checks again that they are current and advances
\* the space.
MemoryLink(from, to) == [from |-> from, to |-> to]

link(e, op, from, to) ==
    /\ Does("link") /\ Fresh(op)
    /\ {from, to} \subseteq Live(ws)
    /\ edits[e] = Idle
    /\ edits' = [edits EXCEPT ![e] = [pc |-> "link", req |->
                   [op |-> op, space |-> ws.space, from |-> Ref(from), to |-> Ref(to)]]]
    /\ UNCHANGED <<plan, ws, links, index, readers, promotion, taskstate>>

_current_ref_entry(ref) == ref.id \in Live(ws) /\ Ref(ref.id) = ref

create_link(e) ==
    LET req == edits[e].req
        accepted == /\ req.op \notin DOMAIN ws.receipts
                    /\ ws.space = req.space
                    /\ _current_ref_entry(req.from) /\ _current_ref_entry(req.to)
    IN  /\ edits[e] # Idle /\ edits[e].pc = "link"
        /\ ws.space < plan.maxSpace \/ ~accepted
        /\ edits' = [edits EXCEPT ![e] = Idle]
        /\ IF accepted
           THEN /\ links' = links \cup {MemoryLink(req.from, req.to)}
                /\ ws' = [ws EXCEPT !.space = @ + 1,
                            !.receipts = (req.op :> [space |-> req.space, id |-> req.op,
                                                     rev |-> 1]) @@ @]
           ELSE UNCHANGED <<ws, links>>
        /\ UNCHANGED <<plan, index, readers, promotion, taskstate>>

----------------------------------------------------------------------------
(* The vector projection.                                                 *)

\* index_entry first removes the points of the entry's earlier revisions; a deletion
\* moves the watermark on.  Whatever fails there is not the writer's failure.
supersede_projection(e) ==
    LET req == edits[e].req
        head == ws.entries[req.id]
        current == head.rev = req.entry.rev /\ head.deleted = req.entry.deleted
    IN  /\ edits[e] # Idle /\ edits[e].pc = "index"
        /\ vector' = IF current THEN [id \in DOMAIN vector \ {req.id} |-> vector[id]] ELSE vector
        /\ watermark' = IF current /\ req.entry.deleted /\ watermark # 0
                        THEN ws.space ELSE watermark
        /\ edits' = [edits EXCEPT ![e] = IF current /\ ~req.entry.deleted /\ Does("vector")
                                         THEN [pc |-> "project", req |-> req] ELSE Idle]
        /\ UNCHANGED <<plan, ws, links, fts, fts_on, unmarked, blind, readers, promotion, taskstate>>

ProjectionIsCurrent(req) ==
    /\ ws.entries[req.id].rev = req.entry.rev
    /\ ~ws.entries[req.id].deleted

\* The index has embedded the chunks and records them; or the embedding failed.
commit_projection(e) ==
    LET req == edits[e].req
    IN  /\ edits[e] # Idle /\ edits[e].pc = "project"
        /\ edits' = [edits EXCEPT ![e] = Idle]
        /\ \/ /\ ProjectionIsCurrent(req)
              /\ vector' = (req.id :> req.entry.rev) @@ vector
              /\ watermark' = ws.space
           \/ UNCHANGED <<vector, watermark>>
        /\ UNCHANGED <<plan, ws, links, fts, fts_on, unmarked, blind, readers, promotion, taskstate>>

\* The points a reader may be shown: those of a live entry's current revision.
authorize_projection_hits ==
    {id \in DOMAIN vector \cap Live(ws) : vector[id] = ws.entries[id].rev}

\* The epoch is read first, the rows in a second transaction.
list_projection_points ==
    /\ Does("vector")
    /\ \/ page' = [complete |-> FALSE, epoch |-> ws.space]
       \/ /\ "epoch" \in DOMAIN page
          /\ page' = [complete |-> /\ watermark = page.epoch
                                   /\ Cardinality(authorize_projection_hits) = Cardinality(Live(ws)),
                      points |-> [id \in authorize_projection_hits |-> vector[id]],
                      live |-> [id \in Live(ws) |-> ws.entries[id].rev]]
    /\ UNCHANGED <<plan, memory, index, listing, query, promotion, taskstate>>

----------------------------------------------------------------------------
(* Paged listings and search.                                             *)

\* The live entries directly under a folder; the root also shows those whose folder
\* is not there.
Children(w, parent) ==
    {id \in Live(w) :
       LET above == ParentPath[w.entries[id].path]
           Folder(f) == w.entries[f].kind = "folder" /\ w.entries[f].path = above
       IN  IF parent = Root
           THEN above = Root \/ ~\E f \in Live(w) : Folder(f)
           ELSE above = parent}

\* The cursor is the position of the last entry shown, which is shown again.
FromCursor(id, cursor) == Rank[ws.entries[id].path] >= cursor

_child_cursor_decode(id, cursor) == Rank[ws.entries[id].path] > cursor

\* A listing begins at the space revision the caller last saw.  Every page first
\* compares the revision, then reads its rows in another transaction.
list_children ==
    \/ /\ Does("list") /\ listing = Idle
       /\ \E parent \in {Root} \cup {ws.entries[f].path : f \in Live(ws)} :
            listing' = [pc |-> "check", parent |-> parent, rev |-> ws.space, cursor |-> 0,
                        seen |-> << >>, start |-> ws]
    \/ /\ listing # Idle /\ listing.pc = "check"
       /\ listing' = IF ws.space = listing.rev THEN [listing EXCEPT !.pc = "rows"] ELSE Idle
    \/ /\ listing # Idle /\ listing.pc = "rows"
       /\ LET rows == {id \in Children(ws, listing.parent) : _child_cursor_decode(id, listing.cursor)}
              first == CHOOSE id \in rows :
                         \A other \in rows : Rank[ws.entries[id].path] <= Rank[ws.entries[other].path]
          IN  listing' =
                IF rows = {} THEN [listing EXCEPT !.pc = "done"]
                ELSE [listing EXCEPT !.pc = IF rows = {first} THEN "done" ELSE "check",
                                     !.cursor = Rank[ws.entries[first].path],
                                     !.seen = Append(@, first)]
    \/ /\ listing # Idle /\ listing.pc = "done"
       /\ listing' = Idle

ListChildren ==
    /\ list_children
    /\ UNCHANGED <<plan, memory, index, page, query, promotion, taskstate>>

\* Of the entries scanned, those whose metadata holds the words.
token_match(scan, word) == {id \in DOMAIN scan : scan[id].path = word}

\* Full-text hits count only when they are the revision that was scanned.
FtsHits(a, scan, word) ==
    {id \in DOMAIN fts.chat.rows \cap Live(ws) \cap DOMAIN scan :
       /\ fts_on[a] /\ fts.chat.ready
       /\ fts.chat.rows[id] = word /\ ws.entries[id] = scan[id]}

VectorHits(scan) ==
    {id \in authorize_projection_hits \cap DOMAIN scan : scan[id].rev = vector[id]}

Ranked(a, scan, word) ==
    token_match(scan, word) \cup FtsHits(a, scan, word) \cup VectorHits(scan)

\* The scan of the live entries, then the query of the index, which may fail: then the
\* store stops using it and the scan alone answers.
search ==
    \/ /\ Does("search") /\ query = Idle
       /\ \E word \in DOMAIN ParentPath :
            query' = [pc |-> "match", word |-> word,
                      scan |-> [id \in Live(ws) |-> ws.entries[id]]]
       /\ UNCHANGED <<fts, fts_on, unmarked>>
    \/ /\ query # Idle /\ query.pc = "match"
       /\ \E a \in plan.stores :
            query' = [query EXCEPT !.pc = "done"] @@ [hits |-> Ranked(a, query.scan, query.word)]
       /\ UNCHANGED <<fts, fts_on, unmarked>>
    \/ /\ query # Idle /\ query.pc = "match" /\ Does("outage")
       /\ query' = [query EXCEPT !.pc = "done"]
                   @@ [hits |-> token_match(query.scan, query.word) \cup VectorHits(query.scan)]
       /\ \E a \in plan.stores : fts_on[a] /\ fts_on' = [fts_on EXCEPT ![a] = FALSE]
       /\ \/ fts' = MarkedDown /\ UNCHANGED unmarked
          \/ unmarked' = TRUE /\ UNCHANGED fts
    \/ /\ query # Idle /\ query.pc = "done"
       /\ query' = Idle
       /\ UNCHANGED <<fts, fts_on, unmarked>>

Search ==
    /\ search
    /\ UNCHANGED <<plan, memory, blind, vector, watermark, page, listing, promotion, taskstate>>

----------------------------------------------------------------------------
(* The pinned task state.                                                 *)

NoState == [f \in Fields |-> Unset]

StateAt(n) == IF n = 0 THEN NoState ELSE task[n]

Patched(state, call) == [f \in Fields |-> IF f \in call.patch THEN call.op ELSE state[f]]

\* A call names the revision its caller saw.
update(u, op, patch) ==
    /\ Does("task") /\ updating[u] = Idle
    /\ updating' = [updating EXCEPT ![u] = [pc |-> "read", op |-> op, patch |-> patch,
                                           expected |-> Len(task)]]
    /\ UNCHANGED <<plan, memory, index, readers, promotion, task, updates>>

replay(call) == call.op \in DOMAIN updates

Payload(call) == [patch |-> call.patch, expected |-> call.expected, rev |-> call.expected + 1]

\* The operation is replayed, refused, or its new revision is built from the current
\* one.  The first revision needs an objective.
_validate_replay(u) ==
    LET call == updating[u]
    IN  /\ call # Idle /\ call.pc = "read"
        /\ updating' = [updating EXCEPT ![u] =
             IF \/ replay(call)
                \/ Len(task) # call.expected
                \/ Len(task) = 0 /\ "objective" \notin call.patch
             THEN Idle
             ELSE [call EXCEPT !.pc = "swap"] @@ [state |-> Patched(StateAt(Len(task)), call)]]
        /\ UNCHANGED <<plan, memory, index, readers, promotion, task, updates>>

\* The head is not compared.
HeadUnchecked(call) == TRUE

HeadMatches(call) == Len(task) = call.expected

\* The transaction; the answer may be lost and the call made again.
compare_and_swap(u) ==
    LET call == updating[u]
        again == [pc |-> "read", op |-> call.op, patch |-> call.patch, expected |-> call.expected]
    IN  /\ call # Idle /\ call.pc = "swap"
        /\ updating' \in {[updating EXCEPT ![u] = Idle]}
                         \cup (IF MayRepeat THEN {[updating EXCEPT ![u] = again]} ELSE {})
        /\ IF ~replay(call) /\ HeadMatches(call)
           THEN /\ task' = Append(task, call.state)
                /\ updates' = (call.op :> Payload(call)) @@ updates
           ELSE UNCHANGED <<task, updates>>
        /\ UNCHANGED <<plan, memory, index, readers, promotion>>

----------------------------------------------------------------------------
(* Promotion into long-term memory.                                       *)

\* The live long-term entry at a path.
_current_target_at_path(path) ==
    LET at == {id \in Live(lt) : lt.entries[id].path = path}
    IN  IF at = {} THEN NoRef
        ELSE LET id == CHOOSE x \in at : TRUE IN [id |-> id, rev |-> lt.entries[id].rev]

\* A new target needs a free path, a replacement the exact revision it names.
_target_baseline(args) == _current_target_at_path(args.path) = args.base

\* The source revision is live and, where required, still the current one.
_source_entry(args, require_current) ==
    /\ \E r \in ws.revisions : r.id = args.src.id /\ r.rev = args.src.rev
    /\ require_current => args.src.id \in Live(ws) /\ Ref(args.src.id) = args.src

Proposal(args, status, applied) ==
    [src |-> args.src, path |-> args.path, base |-> args.base, status |-> status,
     applied |-> applied]

\* What propose reads before it writes: the caller names current revisions.
propose(op, src, path) ==
    /\ Does("promote") /\ proposer = Idle
    /\ src \in Live(ws)
    /\ proposer' = [pc |-> "read", op |-> op, src |-> Ref(src), path |-> path,
                    base |-> _current_target_at_path(path)]
    /\ UNCHANGED <<plan, memory, index, readers, lt, proposals, promo, granted, confirmer, taskstate>>

_validate_target_baseline ==
    /\ proposer # Idle /\ proposer.pc = "read"
    /\ proposer' = IF _source_entry(proposer, TRUE) /\ _target_baseline(proposer)
                   THEN [proposer EXCEPT !.pc = "create"] ELSE Idle
    /\ UNCHANGED <<plan, memory, index, readers, lt, proposals, promo, granted, confirmer, taskstate>>

Receipt(kind, payload) == [kind |-> kind, payload |-> payload]

\* The proposal is written with its receipt.  The answer may be lost.
create ==
    /\ proposer # Idle /\ proposer.pc = "create"
    /\ proposer' \in {Idle} \cup (IF MayRepeat THEN {[proposer EXCEPT !.pc = "read"]} ELSE {})
    /\ IF /\ proposer.op \notin DOMAIN promo
          /\ _source_entry(proposer, TRUE)
          /\ _target_baseline(proposer)
          /\ proposer.op \notin DOMAIN proposals
       THEN /\ proposals' = (proposer.op :> <<Proposal(proposer, "pending", NoRef)>>) @@ proposals
            /\ promo' = (proposer.op :> Receipt("proposal", proposer.op)) @@ promo
       ELSE UNCHANGED <<proposals, promo>>
    /\ UNCHANGED <<plan, memory, index, readers, lt, granted, confirmer, taskstate>>

\* The host hands out a confirmation of one proposal (the user's answer).
Confirm(c, pid, approved) ==
    /\ pid \in DOMAIN proposals
    /\ c \notin DOMAIN granted
    /\ granted' = (c :> [pid |-> pid, approved |-> approved, used |-> FALSE]) @@ granted
    /\ UNCHANGED <<plan, memory, index, readers, lt, proposals, promo, proposer, confirmer, taskstate>>

\* A decision names the pending revision; a repeated operation finds its receipt.
replay_decision(c, op) ==
    /\ c \in DOMAIN granted
    /\ confirmer[c] = Idle
    /\ confirmer' = [confirmer EXCEPT ![c] =
         IF op \notin DOMAIN promo THEN [pc |-> "consume", op |-> op]
         ELSE IF promo[op] = Receipt("decision", c) THEN [pc |-> "validate", op |-> op]
         ELSE Idle]
    /\ confirmer' # confirmer
    /\ UNCHANGED <<plan, memory, index, readers, lt, proposals, promo, granted, proposer, taskstate>>

\* The host's confirmation is spent: once.
consume(c) ==
    /\ confirmer[c] # Idle /\ confirmer[c].pc = "consume"
    /\ confirmer' = [confirmer EXCEPT ![c] = IF granted[c].used THEN Idle
                                             ELSE [@ EXCEPT !.pc = "decide"]]
    /\ granted' = [granted EXCEPT ![c].used = TRUE]
    /\ UNCHANGED <<plan, memory, index, readers, lt, proposals, promo, proposer, taskstate>>

\* The long-term revision a proposal becomes.
_derive_target(pid) ==
    LET p == proposals[pid][1]
        id == IF p.base = NoRef THEN pid ELSE p.base.id
        current == _current_target_at_path(p.path)
    IN  [id |-> id,
         entry |-> Entry(p.path, "markdown",
                         IF p.base = NoRef THEN 1 ELSE current.rev + 1, p.src, FALSE)]

Derivable(pid) ==
    LET p == proposals[pid][1]
    IN  /\ _source_entry(p, FALSE)
        /\ _target_baseline(p)
        /\ Occupants(lt, p.path, _derive_target(pid).id) = {}

\* Whoever was asked first does not count.
AnyHead(pid) == pid \in DOMAIN proposals

PendingHead(pid) == Len(proposals[pid]) = 1

\* The decision: the head is still pending, and an approval writes the target, its
\* space revision, the decided revision and the receipt in one transaction.
decide(c) ==
    LET op == confirmer[c].op
        pid == granted[c].pid
        approved == granted[c].approved
        target == _derive_target(pid)
        ref == [id |-> target.id, rev |-> target.entry.rev]
        p == proposals[pid][1]
        decidable == /\ op \notin DOMAIN promo
                     /\ PendingHead(pid)
                     /\ approved => Derivable(pid)
    IN  /\ confirmer[c] # Idle /\ confirmer[c].pc = "decide"
        /\ \/ /\ decidable
              /\ lt' = IF approved
                       THEN [WithRevision(lt, target.id, target.entry) EXCEPT !.space = @ + 1]
                       ELSE lt
              /\ proposals' = [proposals EXCEPT ![pid] = Append(@,
                               IF approved THEN Proposal(p, "applied", ref)
                               ELSE Proposal(p, "rejected", NoRef))]
              /\ promo' = (op :> Receipt("decision", c)) @@ promo
              /\ confirmer' \in {[confirmer EXCEPT ![c].pc = "validate"],
                                 [confirmer EXCEPT ![c] = Idle]}
              /\ Refresh("long", lt, lt')
           \/ /\ ~decidable
              /\ confirmer' = [confirmer EXCEPT ![c] = Idle]
              /\ UNCHANGED <<lt, proposals, promo, fts, fts_on, blind>>
        /\ UNCHANGED <<plan, memory, unmarked, vector, watermark, readers, granted, proposer,
                       taskstate>>

\* A process dies after the confirmation was spent and before the decision.
DecisionLost(c) ==
    /\ confirmer[c] # Idle /\ confirmer[c].pc = "decide"
    /\ confirmer' = [confirmer EXCEPT ![c] = Idle]
    /\ UNCHANGED <<plan, memory, index, readers, lt, proposals, promo, granted, proposer, taskstate>>

\* The decided record is compared with the long-term workspace before it is returned:
\* it may have moved on, and then the caller is told of a conflict.
_validate_decided(c) ==
    /\ confirmer[c] # Idle /\ confirmer[c].pc = "validate"
    /\ confirmer' = [confirmer EXCEPT ![c] = Idle]
    /\ UNCHANGED <<plan, memory, index, readers, lt, proposals, promo, granted, proposer, taskstate>>

----------------------------------------------------------------------------
Edit(e) ==
    \E op \in plan.ops :
        \/ \E path \in plan.paths, kind \in plan.kinds : _write(e, op, path, kind)
        \/ \E id \in DOMAIN ws.entries :
              \/ _update(e, op, id)
              \/ \E path \in plan.paths : move(e, op, id, path)
              \/ \E recursive \in BOOLEAN : archive(e, op, id, recursive)
              \/ \E to \in DOMAIN ws.entries : link(e, op, id, to)

Decisions == Does("promote")
             /\ \E c \in Confirms :
                   \/ \E pid \in plan.proposals, approved \in BOOLEAN : Confirm(c, pid, approved)
                   \/ \E op \in plan.decisions : replay_decision(c, op)
                   \/ consume(c)
                   \/ decide(c)
                   \/ DecisionLost(c)
                   \/ _validate_decided(c)

Propose ==
    \/ \E op \in plan.proposals, src \in DOMAIN ws.entries, path \in plan.targets :
          propose(op, src, path)
    \/ _validate_target_baseline
    \/ create

Tasks ==
    \E u \in Editors :
        \/ \E op \in plan.ops, patch \in (SUBSET Fields) \ {{}} : update(u, op, patch)
        \/ _validate_replay(u)
        \/ compare_and_swap(u)

Next ==
    \/ \E e \in Editors :
          Edit(e) \/ _apply(e) \/ create_link(e) \/ supersede_projection(e) \/ commit_projection(e)
    \/ \E a \in plan.stores : _initialize_fts(a) \/ \E s \in DOMAIN fts : Rebind(a, s)
    \/ list_projection_points \/ ListChildren \/ Search
    \/ Tasks
    \/ Propose
    \/ Decisions

Spec == Init /\ [][Next]_vars

----------------------------------------------------------------------------
Alone == Cardinality(plan.stores) = 1

\* An index that says it is ready answers for every live entry: the full-text rows are
\* the current paths, and a projection page called complete shows every entry at its
\* current revision, whatever writes, outages and restarts came between.  With several
\* stores open on the files this holds until one of them has written to the space
\* without its index; with one store it holds even then, unless the outage marker
\* itself could not be written (_refresh_fts_entry, _initialize_fts, bind_workspace,
\* commit_projection, list_projection_points).
ReadyIndexIsWhole ==
    /\ \A s \in DOMAIN fts :
         fts[s].ready /\ (s \in blind => Alone /\ ~unmarked) =>
           fts[s].rows = PathsOf(IF s = "chat" THEN ws ELSE lt)
    /\ page.complete => page.points = page.live

\* A listing read to its end shows every entry that stayed in place exactly once,
\* although each page checks the revision in one transaction and reads in another
\* (list_children).
ListedOnce ==
    listing # Idle /\ listing.pc = "done" =>
        /\ \A i, j \in DOMAIN listing.seen : i # j => listing.seen[i] # listing.seen[j]
        /\ \A id \in Children(listing.start, listing.parent) \cap Children(ws, listing.parent) :
             listing.start.entries[id] = ws.entries[id]
               => \E i \in DOMAIN listing.seen : listing.seen[i] = id

\* Every accepted task-state update stands: its revision is the one its caller saw
\* with the patch applied to it, so no concurrent or repeated update is lost or
\* applied twice (TaskStateService.update, compare_and_swap).
TaskStateLinear ==
    /\ \A op \in DOMAIN updates :
         /\ updates[op].rev \in DOMAIN task
         /\ updates[op].rev = updates[op].expected + 1
         /\ task[updates[op].rev] =
              [f \in Fields |-> IF f \in updates[op].patch THEN op
                               ELSE StateAt(updates[op].expected)[f]]
    /\ Cardinality(DOMAIN updates) = Len(task)

Applied(pid) == Len(proposals[pid]) = 2 /\ proposals[pid][2].status = "applied"

\* Long-term memory is what users confirmed: every long-term revision is the exact
\* source revision of one applied proposal, written over the exact baseline that the
\* proposal showed; a proposal is decided once, by a spent confirmation that said so
\* (PromotionConfirmationService.decide, _derive_target).
PromotedAsConfirmed ==
    /\ \A r \in lt.revisions : \E pid \in DOMAIN proposals :
         Applied(pid) /\ proposals[pid][2].applied = [id |-> r.id, rev |-> r.rev]
                      /\ proposals[pid][1].src = r.from
    /\ \A pid \in DOMAIN proposals : Len(proposals[pid]) <= 2
    /\ \A pid \in DOMAIN proposals : Len(proposals[pid]) = 2 =>
         /\ \E c \in DOMAIN granted :
              granted[c].used /\ granted[c].pid = pid /\ granted[c].approved = Applied(pid)
         /\ Applied(pid) =>
              LET p == proposals[pid][2]
              IN  IF p.base = NoRef THEN p.applied = [id |-> pid, rev |-> 1]
                  ELSE p.applied = [id |-> p.base.id, rev |-> p.base.rev + 1]
    /\ \A pid, other \in DOMAIN proposals :
         Applied(pid) /\ Applied(other) /\ pid # other
           => proposals[pid][2].applied # proposals[other][2].applied
=============================================================================
