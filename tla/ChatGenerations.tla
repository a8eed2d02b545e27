-------------------------- MODULE ChatGenerations --------------------------
(***************************************************************************)
(* The generations of a chat: the host lifecycle service                   *)
(* (persistence/sqlite_generation_lifecycle_v2.py), the legacy bootstrap   *)
(* (sqlite_legacy_bootstrap_v2.py), the atomic generation rebase           *)
(* (sqlite_generation_rebase_v2.py) and the deletion of a chat with its    *)
(* tombstone and guard triggers (sqlite_chat_deletion_v2.py), over one     *)
(* SQLite database.  Every operation is one BEGIN IMMEDIATE transaction,   *)
(* so one step.  A request that the code answers with a conflict, or with  *)
(* the recorded receipt of an operation it has already accepted, changes   *)
(* no row and is therefore no step here.  Any number of hosts send         *)
(* requests built from any earlier reading of the heads.                   *)
(***************************************************************************)
EXTENDS Integers, Sequences

CONSTANTS
    Chats, Execs, None,
    Sites          \* see SiteType

AllServices == {"rebase", "advance", "bind", "bootstrap"}

\* The chats and executions of a host, how many ids of each kind its requests
\* draw on, the bound on the events of an execution, the services it uses.
SiteType == [chats : SUBSET Chats, execs : SUBSET Execs, gens : Nat, sources : Nat,
             attempts : Nat, ops : Nat, events : Nat, services : SUBSET AllServices]

SitesFit == Sites \subseteq SiteType

EventTypes == {"import", "legacy", "start", "end"}

\* None is no id, no head row, no scope and no journal.
NoneFits ==
    /\ None \notin Nat /\ None \notin Execs /\ \A scope \in SUBSET Execs : scope # None
    /\ None \notin [x : Execs, g : Nat, rev : Nat]
    /\ None \notin [x : Execs, g : Nat, rev : Nat, src : Nat]
    /\ \A s \in Sites : None \notin Seq([g : 1 .. s.gens, att : 1 .. s.attempts, type : EventTypes])

VARIABLES
    site,     \* one of Sites
    db,       \* the tables, see Rows
    running   \* attempts whose runtime has read its binding: [x, g, att, open]

vars == <<site, db, running>>

Services == site.services
MaxEvents == site.events
Gens == 1 .. site.gens
Sources == 1 .. site.sources
Attempts == 1 .. site.attempts
Ops == 1 .. site.ops
Revisions == Nat \ {0}
EventsIn(s) == {s[i] : i \in DOMAIN s}

(***************************************************************************)
(* The tables.                                                             *)
(***************************************************************************)
Events == [g : Gens, att : Attempts, type : EventTypes]
Intents == [svc : {"rebase", "bootstrap"}, op : Ops, kind : {"initial", "regenerate", "retry"},
            chat : Chats, x : Execs, prev : Gens \cup {None}, g : Gens,
            att : Attempts, src : Sources, rev : Nat]
\* a host operation id: the caller's own, or one the rebase derives
HostOpIds == {"host", "transition", "binding"} \X Ops
Heads == [x : Execs, g : Gens, rev : Revisions]
LegacyHeads == [x : Execs, g : Gens, rev : Nat, src : Sources]
Records == [chat : Chats, x : Execs, g : Gens, kind : {"initial", "regenerate"},
            prev : Gens \cup {None}, rev : Revisions, op : HostOpIds]
HostOps == [chat : Chats, op : HostOpIds, kind : {"transition", "attempt_binding"},
            g : Gens, rev : Revisions, att : Attempts \cup {None}]
Bindings == [chat : Chats, x : Execs, g : Gens, att : Attempts, rev : Revisions,
             op : HostOpIds]
Manifests == [intent : Intents, first : Nat, last : Nat]

Rows == [hostTables : BOOLEAN,                      \* the host_generation_* group exists
         guarded    : BOOLEAN,                      \* and has its owner guard trigger
         journal    : [Execs -> {None} \cup Seq(Events)],
         operations : SUBSET Intents,
         binding    : [Chats -> Execs \cup {None}],
         records    : SUBSET Records,
         hostHead   : [Chats -> Heads \cup {None}],
         hostOps    : SUBSET HostOps,
         bound      : SUBSET Bindings,
         manifests  : SUBSET Manifests,
         legacyHead : [Chats -> LegacyHeads \cup {None}],
         tombstone  : [Chats -> {None} \cup SUBSET Execs]]

\* bootstrap_empty_context_memory_v2_database publishes every schema but the
\* host generation one, and opens the deletion service last
Init ==
    /\ site \in Sites
    /\ db = [hostTables |-> FALSE, guarded |-> FALSE,
             journal |-> [x \in Execs |-> None], operations |-> {},
             binding |-> [c \in Chats |-> None], records |-> {},
             hostHead |-> [c \in Chats |-> None], hostOps |-> {}, bound |-> {},
             manifests |-> {}, legacyHead |-> [c \in Chats |-> None],
             tombstone |-> [c \in Chats |-> None]]
    /\ running = {}

\* a commit of the new rows
Commits(d) == db' = d /\ UNCHANGED running

\* The ids a request may carry: one that some row or runtime holds, or a new
\* one.  Those that nobody holds are interchangeable, so the least stands for
\* them all.
Named(ids, held) ==
    {i \in ids : i \in held \/ \A j \in ids \ held : i <= j}

Journaled == UNION {IF db.journal[x] = None THEN {} ELSE EventsIn(db.journal[x]) : x \in Execs}
Carried(f) == {m.intent[f] : m \in db.manifests} \cup {i[f] : i \in db.operations}
OpArgs == Named(Ops, {h.op[2] : h \in db.hostOps} \cup Carried("op"))
SourceArgs == Named(Sources, Carried("src"))
GenArgs == Named(Gens, {r.g : r \in db.records \cup db.bound \cup db.hostOps \cup running}
                       \cup Carried("g") \cup {e.g : e \in Journaled})
AttemptArgs == Named(Attempts, {r.att : r \in db.bound \cup running}
                               \cup Carried("att") \cup {e.att : e \in Journaled})

Journal(x) == IF db.journal[x] = None THEN <<>> ELSE db.journal[x]
OpUsed(x, op) == \E i \in db.operations : i.x = x /\ i.op = op
HostOpUsed(c, id) == \E h \in db.hostOps : h.chat = c /\ h.op = id

(***************************************************************************)
(* The guard triggers of the deletion service.                             *)
(***************************************************************************)
\* mutant: no trigger on executions
ExecutionUnguarded(x) == x \in Execs

\* BEFORE INSERT ON executions: the id is in no deleted scope
ExecutionInsertable(x) ==
    \A c \in Chats : db.tombstone[c] # None => x \notin db.tombstone[c]

\* INSERT OR IGNORE INTO executions succeeds
ExecutionEnsured(x) == db.journal[x] # None \/ ExecutionInsertable(x)

\* BEFORE INSERT ON legacy_bootstrap_manifests / _chat_heads
LegacyInsertable(c) == db.tombstone[c] = None

\* BEFORE INSERT ON host_generation_chat_bindings, where it is installed
BindingInsertable(c) == db.guarded => db.tombstone[c] = None

\* the primary key and the UNIQUE column of host_generation_chat_bindings
Unbound(c, x) ==
    /\ db.binding[c] = None
    /\ \A d \in Chats : db.binding[d] # x

\* SQLiteHostGenerationLifecycleV2 or the rebase service opens the database
OpenHost ==
    /\ ~db.hostTables
    /\ Commits([db EXCEPT !.hostTables = TRUE])

\* the deletion service opens the database: it drops the stale dynamic guards
\* and installs those of the tables it finds
OpenDeletion ==
    /\ db.guarded # db.hostTables
    /\ Commits([db EXCEPT !.guarded = db.hostTables])

(***************************************************************************)
(* advance and bind_current_attempt of the host lifecycle.                 *)
(***************************************************************************)
\* the request names the head as it is: another one is a conflict
HeadOn(c, x) == db.hostHead[c] # None /\ db.hostHead[c].x = x

\* the primary key and UNIQUE columns of host_generation_records
RecordInsertable(c, x, g, rev) ==
    \A r \in db.records :
        /\ ~(r.chat = c /\ (r.g = g \/ r.rev = rev))
        /\ ~(r.x = x /\ r.g = g)

\* mutant: the head is moved one revision too far
TransitionTwice(c, x, kind, prev, g, rev, id) ==
    [db EXCEPT
        !.records = @ \cup {[chat |-> c, x |-> x, g |-> g, kind |-> kind,
                             prev |-> prev, rev |-> rev, op |-> id]},
        !.hostOps = @ \cup {[chat |-> c, op |-> id, kind |-> "transition", g |-> g,
                             rev |-> rev, att |-> None]},
        !.hostHead[c] = [x |-> x, g |-> g, rev |-> rev + 1]]

Transition(c, x, kind, prev, g, rev, id) ==
    [db EXCEPT
        !.records = @ \cup {[chat |-> c, x |-> x, g |-> g, kind |-> kind,
                             prev |-> prev, rev |-> rev, op |-> id]},
        !.hostOps = @ \cup {[chat |-> c, op |-> id, kind |-> "transition", g |-> g,
                             rev |-> rev, att |-> None]},
        !.hostHead[c] = [x |-> x, g |-> g, rev |-> rev]]

AdvanceInitial(c, x) ==
    /\ db.hostHead[c] = None
    /\ ExecutionEnsured(x)
    /\ BindingInsertable(c) /\ Unbound(c, x)
    /\ \E op \in OpArgs, g \in GenArgs :
        /\ ~HostOpUsed(c, <<"host", op>>)
        /\ RecordInsertable(c, x, g, 1)
        /\ Commits([Transition(c, x, "initial", None, g, 1, <<"host", op>>) EXCEPT
                       !.journal[x] = Journal(x),
                       !.binding[c] = x])

AdvanceNext(c, x) ==
    LET h == db.hostHead[c]
    IN /\ HeadOn(c, x)
       /\ \E op \in OpArgs, g \in GenArgs \ {h.g} :
            /\ ~HostOpUsed(c, <<"host", op>>)
            /\ RecordInsertable(c, x, g, h.rev + 1)
            /\ Commits(Transition(c, x, "regenerate", h.g, g, h.rev + 1, <<"host", op>>))

Advance(c, x) ==
    /\ db.hostTables /\ "advance" \in Services
    /\ AdvanceInitial(c, x) \/ AdvanceNext(c, x)

AttemptUnbound(x, att) == \A b \in db.bound : ~(b.x = x /\ b.att = att)

BindingRows(d, c, x, g, att, rev, id) ==
    [d EXCEPT
        !.hostOps = @ \cup {[chat |-> c, op |-> id, kind |-> "attempt_binding", g |-> g,
                             rev |-> rev, att |-> att]},
        !.bound = @ \cup {[chat |-> c, x |-> x, g |-> g, att |-> att, rev |-> rev,
                           op |-> id]}]

BindCurrentAttempt(c, x) ==
    /\ db.hostTables /\ "bind" \in Services
    /\ HeadOn(c, x)
    /\ \E op \in OpArgs, att \in AttemptArgs :
        /\ ~HostOpUsed(c, <<"host", op>>)
        /\ AttemptUnbound(x, att)
        /\ Commits(BindingRows(db, c, x, db.hostHead[c].g, att, db.hostHead[c].rev,
                               <<"host", op>>))

(***************************************************************************)
(* bootstrap: the import of a legacy snapshot.                             *)
(***************************************************************************)
ManifestsOf(c) == {m \in db.manifests : m.intent.chat = c}
ManifestsOn(x) == {m \in db.manifests : m.intent.x = x}

\* the keys of legacy_bootstrap_manifests
ManifestInsertable(i) ==
    /\ \A m \in ManifestsOf(i.chat) : m.intent.g # i.g /\ m.intent.src # i.src
    /\ \A m \in ManifestsOn(i.x) : m.intent.g # i.g

\* the imported events, the manifest over them and the operation that made it
Import(d, i, type) ==
    LET n == Len(Journal(i.x)) + 1
    IN [d EXCEPT
           !.journal[i.x] = Append(Journal(i.x), [g |-> i.g, att |-> i.att, type |-> type]),
           !.operations = @ \cup {i},
           !.manifests = @ \cup {[intent |-> i, first |-> n, last |-> n]}]

\* mutant: the legacy head keeps the revision it had
LegacyHeadBehind(i, rev) ==
    [x |-> i.x, g |-> i.g, rev |-> IF rev > 1 THEN rev - 1 ELSE 1, src |-> i.src]

LegacyHead(i, rev) == [x |-> i.x, g |-> i.g, rev |-> rev, src |-> i.src]

OwnsExecution(c, x) == \A m \in ManifestsOn(x) : m.intent.chat = c

\* the source revision is already imported: the request only claims its operation
BootstrapAgain(c, x) ==
    \E m \in ManifestsOf(c), op \in OpArgs :
        /\ m.intent.svc = "bootstrap" /\ m.intent.x = x
        /\ db.legacyHead[c] # None
        /\ db.legacyHead[c].g = m.intent.g /\ db.legacyHead[c].src = m.intent.src
        /\ ~OpUsed(x, op)
        /\ Commits([db EXCEPT !.operations = @ \cup {[m.intent EXCEPT !.op = op]}])

BootstrapNew(c, x) ==
    \E op \in OpArgs, g \in GenArgs, att \in AttemptArgs, src \in SourceArgs :
        LET head == db.legacyHead[c]
            first == head = None
            i == [svc |-> "bootstrap", op |-> op,
                  kind |-> IF first THEN "initial" ELSE "regenerate",
                  chat |-> c, x |-> x, prev |-> IF first THEN None ELSE head.g,
                  g |-> g, att |-> att, src |-> src, rev |-> 0]
        IN /\ ~first => head.x = x
           /\ ManifestInsertable(i)
           /\ ~OpUsed(x, op)
           /\ Commits([Import(db, i, "legacy") EXCEPT
                          !.legacyHead[c] = LegacyHead(i, IF first THEN 1 ELSE head.rev + 1)])

Bootstrap(c, x) ==
    /\ "bootstrap" \in Services
    /\ LegacyInsertable(c) /\ ExecutionEnsured(x) /\ OwnsExecution(c, x)
    /\ Len(Journal(x)) < MaxEvents
    /\ BootstrapAgain(c, x) \/ BootstrapNew(c, x)

(***************************************************************************)
(* rebase: one transaction over both families of tables.                   *)
(***************************************************************************)
\* _assert_matching_heads
MatchingHeads(c) ==
    LET h == db.hostHead[c]
        l == db.legacyHead[c]
    IN IF h = None \/ l = None THEN h = l
       ELSE h = [x |-> l.x, g |-> l.g, rev |-> l.rev]

CompatibleKind(kind) == IF kind = "retry" THEN "regenerate" ELSE kind

\* _verify_events: the manifest's range still holds the events it imported,
\* with the provenance of the rebase
ImportIntact(m) ==
    /\ m.last <= Len(Journal(m.intent.x))
    /\ \A n \in m.first .. m.last :
        Journal(m.intent.x)[n] = [g |-> m.intent.g, att |-> m.intent.att, type |-> "import"]

\* _receipt_for_generation: the manifest, the record and the binding of a
\* generation agree, with the operations that made them
Receipted(c, x, g, m, l, b) ==
    /\ m.intent.g = g /\ m.intent.x = x
    /\ l.chat = c /\ l.g = g /\ l.x = x
    /\ b.chat = c /\ b.x = x /\ b.g = g /\ b.att = m.intent.att
    /\ l.kind = CompatibleKind(m.intent.kind)
    /\ l.prev = m.intent.prev /\ l.rev = b.rev
    /\ m.intent \in db.operations
    /\ [chat |-> c, op |-> l.op, kind |-> "transition", g |-> g,
        rev |-> l.rev, att |-> None] \in db.hostOps
    /\ \E h \in db.hostOps :
         /\ h.chat = c /\ h.op = b.op /\ h.kind = "attempt_binding"
         /\ h.g = g /\ h.att = b.att
    /\ ImportIntact(m)

Receipt(m, l) == [rev |-> l.rev, src |-> m.intent.src, op |-> m.intent.op,
                  first |-> m.first, last |-> m.last]

\* at most one
Receipts(c, x, g) ==
    {Receipt(t[1], t[2]) :
        t \in {u \in ManifestsOf(c) \X db.records \X db.bound :
                  Receipted(c, x, g, u[1], u[2], u[3])}}

\* current: the one head, where both families agree and its receipt is complete
Readable(c) ==
    LET h == db.hostHead[c]
    IN /\ MatchingHeads(c)
       /\ h # None => \E r \in Receipts(c, h.x, h.g) :
                          r.rev = h.rev /\ r.src = db.legacyHead[c].src

\* _assert_no_open_attempt_or_tool: no attempt of the generation is open outside
\* the imported range
Quiet(x, g, r) ==
    \A n \in DOMAIN Journal(x) :
        LET e == Journal(x)[n]
        IN (e.g = g /\ e.type = "start" /\ n \notin r.first .. r.last) =>
            \E k \in n + 1 .. Len(Journal(x)) :
                Journal(x)[k] = [g |-> g, att |-> e.att, type |-> "end"]

\* rows of a rebase but those of its heads
RebaseRows(i) ==
    BindingRows(
        Import(Transition(i.chat, i.x, CompatibleKind(i.kind), i.prev, i.g, i.rev + 1,
                          <<"transition", i.op>>), i, "import"),
        i.chat, i.x, i.g, i.att, i.rev + 1, <<"binding", i.op>>)

RebaseInsertable(i) ==
    /\ RecordInsertable(i.chat, i.x, i.g, i.rev + 1)
    /\ ManifestInsertable(i)
    /\ AttemptUnbound(i.x, i.att)
    /\ ~OpUsed(i.x, i.op)

\* _ensure_initial_execution
EmptyExecution(x) ==
    /\ Journal(x) = <<>>
    /\ \A i \in db.operations : i.x # x

Create(c, x) ==
    /\ db.hostHead[c] = None /\ db.legacyHead[c] = None
    /\ \A r \in db.records : r.chat # c
    /\ ManifestsOf(c) = {}
    /\ Unbound(c, x) /\ BindingInsertable(c) /\ LegacyInsertable(c)
    /\ ExecutionEnsured(x) /\ EmptyExecution(x)
    /\ \E op \in OpArgs, g \in GenArgs, att \in AttemptArgs, src \in SourceArgs :
        LET i == [svc |-> "rebase", op |-> op, kind |-> "initial", chat |-> c, x |-> x,
                  prev |-> None, g |-> g, att |-> att, src |-> src, rev |-> 0]
        IN /\ RebaseInsertable(i)
           /\ Commits([RebaseRows(i) EXCEPT !.binding[c] = x,
                                            !.legacyHead[c] = LegacyHead(i, 1)])

Replace(c, x) ==
    LET h == db.hostHead[c]
    IN /\ MatchingHeads(c) /\ HeadOn(c, x)
       /\ \E r \in Receipts(c, x, h.g) :
            /\ r.rev = h.rev /\ r.src = db.legacyHead[c].src
            /\ Quiet(x, h.g, r)
       /\ \E op \in OpArgs, g \in GenArgs \ {h.g}, att \in AttemptArgs, src \in SourceArgs :
            LET i == [svc |-> "rebase", op |-> op, kind |-> "retry", chat |-> c, x |-> x,
                      prev |-> h.g, g |-> g, att |-> att, src |-> src, rev |-> h.rev]
            IN /\ RebaseInsertable(i)
               /\ Commits([RebaseRows(i) EXCEPT !.legacyHead[c] = LegacyHead(i, h.rev + 1)])

Rebase(c, x) ==
    /\ db.hostTables /\ "rebase" \in Services
    /\ Len(Journal(x)) < MaxEvents
    /\ Create(c, x) \/ Replace(c, x)

(***************************************************************************)
(* delete_chat.                                                            *)
(***************************************************************************)
\* _validate_scope, for the executions of the scope
ScopeValid(c, scope) ==
    /\ \A x \in scope : db.journal[x] # None
    /\ {m.intent.x : m \in ManifestsOf(c)} \subseteq scope
    /\ \A x \in scope : OwnsExecution(c, x)
    /\ db.hostTables =>
        /\ db.binding[c] \in scope \cup {None}
        /\ \A d \in Chats \ {c} : db.binding[d] \notin scope

\* _delete_scoped_rows: by execution of the scope ...
RowsOutside(d, scope) ==
    [d EXCEPT !.operations = {i \in @ : i.x \notin scope},
              !.journal = [x \in Execs |-> IF x \in scope THEN None ELSE @[x]]]

\* ... and by owner
RowsWithout(c, scope) ==
    [RowsOutside(db, scope)
       EXCEPT !.bound = {b \in @ : b.chat # c},
              !.hostHead[c] = None,
              !.hostOps = {h \in @ : h.chat # c},
              !.records = {r \in @ : r.chat # c},
              !.binding[c] = None,
              !.legacyHead[c] = None,
              !.manifests = {m \in @ : m.intent.chat # c}]

DeleteChat(c, scope) ==
    /\ db.tombstone[c] = None
    /\ ScopeValid(c, scope)
    /\ Commits([RowsWithout(c, scope) EXCEPT !.tombstone[c] = scope])

(***************************************************************************)
(* The runtimes of bound attempts: each reads its binding, then appends    *)
(* its first and its terminal event, whatever happened in between.         *)
(***************************************************************************)
Launch ==
    \E b \in db.bound :
        /\ \A r \in running : r.att # b.att
        /\ \A n \in DOMAIN Journal(b.x) :
            Journal(b.x)[n].att = b.att => Journal(b.x)[n].type = "import"
        /\ running' = running \cup {[x |-> b.x, g |-> b.g, att |-> b.att, open |-> FALSE]}
        /\ UNCHANGED db

AppendEvent(r) ==
    /\ ExecutionEnsured(r.x)
    /\ Len(Journal(r.x)) < MaxEvents
    /\ db' = [db EXCEPT !.journal[r.x] =
                 Append(Journal(r.x), [g |-> r.g, att |-> r.att,
                                       type |-> IF r.open THEN "end" ELSE "start"])]
    /\ running' = (running \ {r}) \cup (IF r.open THEN {} ELSE {[r EXCEPT !.open = TRUE]})

\* its append is refused by the guard, or its process dies
RunDies(r) ==
    /\ running' = running \ {r}
    /\ UNCHANGED db

Step ==
    \/ OpenHost
    \/ OpenDeletion
    \/ \E c \in site.chats, x \in site.execs : Advance(c, x)
    \/ \E c \in site.chats, x \in site.execs : BindCurrentAttempt(c, x)
    \/ \E c \in site.chats, x \in site.execs : Bootstrap(c, x)
    \/ \E c \in site.chats, x \in site.execs : Rebase(c, x)
    \/ \E c \in site.chats, scope \in SUBSET site.execs : DeleteChat(c, scope)
    \/ Launch
    \/ \E r \in running : AppendEvent(r)
    \/ \E r \in running : RunDies(r)

Next == Step /\ UNCHANGED site

Spec == Init /\ [][Next]_vars

(***************************************************************************)
(* Properties.                                                             *)
(***************************************************************************)
\* Every table holds rows of its schema.
TypeOK ==
    /\ site \in Sites
    /\ db \in Rows
    /\ running \subseteq [x : Execs, g : Gens, att : Attempts, open : BOOLEAN]

\* the hosts use no service but the rebase and the binding of attempts
OnlyRebase == Services \subseteq {"rebase", "bind"}

\* A chat served by the rebase alone can always be read by current (and so
\* rebased again), both heads agreeing and the current generation having its
\* complete receipt, and can always be deleted, some scope passing the
\* validation, whatever the other chats, their deletion and late runtimes do.
\* And a rebase that was accepted is answered alike as long as its chat lives:
\* the retry of its operation finds the complete receipt of its own generation,
\* at the revision it asked for.
StaysServiceable ==
    OnlyRebase =>
        /\ \A c \in Chats :
              /\ Readable(c)
              /\ db.tombstone[c] = None => \E scope \in SUBSET Execs : ScopeValid(c, scope)
        /\ \A i \in db.operations : i.svc = "rebase" =>
              \E r \in Receipts(i.chat, i.x, i.g) : r.op = i.op /\ r.rev = i.rev + 1

\* The records of a chat are one line of history: every revision up to the
\* head's was taken once, each by a generation that names the one before it,
\* and the head is the last.  An attempt is bound to the generation that was
\* current at the revision its binding names, and to no other.  The generation
\* a rebase or a bootstrap imported keeps its events in the journal: no other
\* import, run or deletion of another chat touches them.
Lineage ==
    /\ TypeOK
    /\ \A c \in Chats :
         LET rs == {r \in db.records : r.chat = c}
             h == db.hostHead[c]
         IN /\ h = None => rs = {}
            /\ h # None =>
                 /\ {r.rev : r \in rs} = 1 .. h.rev
                 /\ \A r, s \in rs : r.rev = s.rev => r = s
                 /\ \A r \in rs : r.rev = h.rev => r.g = h.g
                 /\ \A r \in rs : r.x = h.x /\ (r.rev = 1) = (r.prev = None)
                 /\ \A r, s \in rs : s.rev = r.rev + 1 => s.prev = r.g
    /\ \A b \in db.bound : \E r \in db.records :
         r.chat = b.chat /\ r.x = b.x /\ r.g = b.g /\ r.rev = b.rev
    /\ \A a, b \in db.bound : a.x = b.x /\ a.att = b.att => a = b
    /\ \A m \in db.manifests :
         /\ m.last <= Len(Journal(m.intent.x))
         /\ \A n \in m.first .. m.last :
              /\ Journal(m.intent.x)[n].g = m.intent.g
              /\ Journal(m.intent.x)[n].type \in {"import", "legacy"}

\* "Delete one exact chat scope and persist a non-resurrectable tombstone": no
\* row of any table names a deleted chat or an execution of the scope it was
\* deleted with.
NonResurrectable ==
    \A c \in Chats : db.tombstone[c] # None =>
        /\ db.hostHead[c] = None /\ db.binding[c] = None /\ db.legacyHead[c] = None
        /\ \A r \in db.records \cup db.bound \cup db.hostOps : r.chat # c
        /\ ManifestsOf(c) = {}
        /\ \A x \in db.tombstone[c] : db.journal[x] = None /\ ManifestsOn(x) = {}

\* Where no host uses advance of the lifecycle service, nothing of a deleted
\* chat comes back, although its runtimes may still append and its requests may
\* still be retried (the guard triggers of the deletion service).
NotResurrected == "advance" \notin Services => NonResurrectable
=============================================================================
