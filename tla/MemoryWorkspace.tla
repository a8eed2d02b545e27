-------------------------- MODULE MemoryWorkspace --------------------------
(***************************************************************************)
(* The SQLite memory workspace of one chat (persistence/sqlite_memory_v2): *)
(* entries addressed by a stable id, an append-only table of their         *)
(* revisions, a space revision every mutation must name and advance, and   *)
(* the operation receipts that make a repeated mutation return what the    *)
(* first one wrote.  Each operator is one transaction on the record ws.    *)
(***************************************************************************)
EXTENDS Naturals, FiniteSets

CONSTANTS
    Below       \* pairs <<p, q>> of paths: p lies under the folder path q

\* The table old with the rows of new put in.
Overlay(new, old) ==
    [x \in DOMAIN new \union DOMAIN old |-> IF x \in DOMAIN new THEN new[x] ELSE old[x]]

Put(f, k, v) == [x \in DOMAIN f \union {k} |-> IF x = k THEN v ELSE f[x]]

\* bind_workspace creates the space at revision 1 with no entry in it.
EmptyWorkspace ==
    [space |-> 1, entries |-> << >>, revisions |-> {}, receipts |-> << >>]

Entry(path, kind, rev, from, deleted) ==
    [path |-> path, kind |-> kind, rev |-> rev, from |-> from,
     deleted |-> deleted]

Archived(e) == Entry(e.path, e.kind, e.rev + 1, e.from, TRUE)

Live(ws) == {id \in DOMAIN ws.entries : ~ws.entries[id].deleted}

\* The live entry that occupies a path, other than id itself (a set of at
\* most one entry: the partial unique index idx_entries_active_path).
Occupants(ws, path, id) ==
    {e \in Live(ws) \ {id} : ws.entries[e].path = path}

Descendants(ws, id) ==
    IF ws.entries[id].kind = "folder"
    THEN {e \in Live(ws) : <<ws.entries[e].path, ws.entries[id].path>> \in Below}
    ELSE {}

\* _write_entry_revision: one row of the history, and the head moved to it.
WithRevision(ws, id, entry) ==
    [ws EXCEPT !.entries = Put(@, id, entry),
               !.revisions = @ \union {[id |-> id, rev |-> entry.rev,
                                        from |-> entry.from]}]

\* The same for several entries, new a function of their ids.
WithRevisions(ws, new) ==
    [ws EXCEPT !.entries = Overlay(new, @),
               !.revisions = @ \union {[id |-> e, rev |-> new[e].rev, from |-> new[e].from] :
                                          e \in DOMAIN new}]

\* The three revision checks of apply, made inside its transaction.
RevisionsMatch(ws, req) ==
    /\ ws.space = req.space
    /\ req.expected = IF req.id \in DOMAIN ws.entries
                      THEN ws.entries[req.id].rev ELSE 0
    /\ req.entry.rev = req.expected + 1

Acceptable(ws, req) ==
    /\ RevisionsMatch(ws, req)
    /\ req.entry.deleted /\ ~req.recursive /\ req.expected > 0
         => Descendants(ws, req.id) = {}
    /\ Occupants(ws, req.entry.path, req.id) = {}

\* A receipt answers only the operation, payload and target it was written
\* for; the expected space revision is part of the payload.
Replays(ws, req) ==
    /\ req.op \in DOMAIN ws.receipts
    /\ ws.receipts[req.op] =
         [space |-> req.space, id |-> req.id, rev |-> req.entry.rev]

\* _SQLiteBoundMemoryWorkspaceRepository.apply: [ok, ws].  A request whose
\* receipt names another payload, or whose checks fail, is a conflict.
Apply(ws, req) ==
    LET removed == IF req.entry.deleted /\ req.recursive
                   THEN Descendants(ws, req.id) ELSE {}
        tombstones == [e \in removed |-> Archived(ws.entries[e])]
        written == WithRevision(WithRevisions(ws, tombstones), req.id, req.entry)
    IN  CASE Replays(ws, req) -> [ok |-> TRUE, ws |-> ws]
          [] req.op \in DOMAIN ws.receipts -> [ok |-> FALSE, ws |-> ws]
          [] Acceptable(ws, req) ->
               [ok |-> TRUE,
                ws |-> [written EXCEPT
                          !.space = @ + 1,
                          !.receipts = Put(@, req.op, [space |-> req.space,
                                                       id |-> req.id,
                                                       rev |-> req.entry.rev])]]
          [] OTHER -> [ok |-> FALSE, ws |-> ws]
=============================================================================
