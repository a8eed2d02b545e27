---------------------------- MODULE CodingWorkspace ----------------------------
(***************************************************************************)
(* The file tools of the core toolkit (toolkits/builtin/core/              *)
(* coding_backend.py) inside a tool call (tools/execution.py) with the     *)
(* run's change tracker and its undo (workspace_changes/core.py).          *)
(*                                                                         *)
(* A text is a sequence of lines; a line is a symbol, and the symbol Nul   *)
(* makes a file binary.  Every write of a file gives it a new modification *)
(* time.  Somebody else may change any file at any moment, and two         *)
(* sessions may work in one workspace.                                     *)
(***************************************************************************)
EXTENDS Naturals, Sequences, FiniteSets, FiniteSetsExt, SequencesExt

CONSTANTS
    Sites,     \* the workspaces to explore, see SiteFields
    Nul,       \* the line of a binary file
    Cr         \* a carriage return: half of a line end

VARIABLES
    site,      \* the workspace of this behaviour
    fs,        \* [file -> text and modification time]
    snaps,     \* [session -> file -> _ReadSnapshot]
    call,      \* [session -> its tool call in progress]
    tracker,   \* [session -> workspace_change_state: file -> first and latest text]
    left,      \* [session -> tool calls left], and what others may still change
    undo,      \* [session -> restore in progress or done]
    mark       \* history: [file -> who wrote this version, during whose work, who read it,
               \* and which texts a session put there or found after a call of its own]

vars == <<site, fs, snaps, call, tracker, left, undo, mark>>

\* initial: [file -> its first text]; sessions; calls: what a session may ask for;
\* others: texts others may put in place; tries: how many calls and changes;
\* max_files, max_size: the bounds of a snapshot; per_file, total: those of undo.
SiteFields ==
    {"initial", "sessions", "calls", "others", "tries", "max_files", "max_size", "per_file", "total"}

Files == DOMAIN site.initial

Gone == <<"gone">>

Exists(text) == text # Gone

Binary(text) == \E i \in DOMAIN text : text[i] = Nul

Size(text) == IF Exists(text) THEN Len(text) ELSE 0

NoSnapshot == [text |-> Gone, at |-> 0, full |-> FALSE]

NoShown == [old |-> Gone, new |-> Gone, is |-> FALSE]

Idle == [pc |-> "idle"]

----------------------------------------------------------------------------
(* Snapshots of what was read.                                            *)

\* A partial read keeps the mark of a full one of the same text.
_record_read_snapshot(s, f, text, at, full) ==
    snaps' = [snaps EXCEPT ![s][f] =
        [text |-> text, at |-> at, full |-> full \/ (@.full /\ @.text = text)]]

\* Any file once read in full may be replaced.
OnceRead(s, f) ==
    IF snaps[s][f] = NoSnapshot THEN "unread" ELSE IF ~snaps[s][f].full THEN "partly read" ELSE ""

\* The reason a write is refused, "" when the file is as it was read.
_check_snapshot_freshness(s, f) ==
    LET snap == snaps[s][f]
    IN  IF snap = NoSnapshot THEN "unread"
        ELSE IF ~snap.full THEN "partly read"
        ELSE IF snap.at # fs[f].at \/ snap.text # fs[f].text THEN "changed" ELSE ""

Occurrences(text, line) == {i \in DOMAIN text : text[i] = line}

\* str.replace of every match, or of the only one.
Replaced(text, old, new) == [i \in DOMAIN text |-> IF text[i] = old THEN new ELSE text[i]]

EditError(text, a) ==
    \/ Occurrences(text, a.old) = {}
    \/ Cardinality(Occurrences(text, a.old)) > 1 /\ ~a.all

\* What the call would leave in the file.
Outcome(text, a) == IF a.tool = "write" THEN a.new ELSE Replaced(text, a.old, a.line)

----------------------------------------------------------------------------
(* The change tracker.                                                    *)

\* WorkspaceTextSnapshot.capture: files in order until the bound; complete or not.
capture ==
    LET there == SelectSeq(SetToSortSeq(Files, <), LAMBDA f : Exists(fs[f].text))
        kept == IF Len(there) <= site.max_files THEN there ELSE SubSeq(there, 1, site.max_files)
    IN  [complete |-> Len(there) <= site.max_files, in |-> Range(kept), text |-> [f \in Files |-> fs[f].text]]

\* _entry_for: too big or binary files are seen, and not followed.
TrackableText(text) == Exists(text) => ~Binary(text) /\ Len(text) <= site.max_size

Trackable(snap, f) == f \in snap.in => TrackableText(snap.text[f])

TextIn(snap, f) == IF f \in snap.in THEN snap.text[f] ELSE Gone

\* The first text is replaced as well.
FirstForgotten(t, f, before, after) ==
    IF before = after THEN t
    ELSE [g \in DOMAIN t \cup {f} |-> IF g # f THEN t[g] ELSE [first |-> before, latest |-> after]]

record_text_file_change(t, f, before, after) ==
    IF before = after THEN t
    ELSE [g \in DOMAIN t \cup {f} |->
             IF g # f THEN t[g]
             ELSE [first |-> IF f \in DOMAIN t THEN t[f].first ELSE before, latest |-> after]]

\* The files a call changed that its tool did not report itself.
Detected(t, before, after) ==
    {f \in before.in \cup after.in :
        /\ f \in before.in \/ before.complete
        /\ f \in after.in \/ after.complete
        /\ Trackable(before, f) /\ Trackable(after, f)
        /\ TextIn(before, f) # TextIn(after, f)
        /\ f \in DOMAIN t => t[f].latest # TextIn(after, f)}

record_text_snapshot_changes(t, before, after) ==
    FoldSet(LAMBDA f, acc : record_text_file_change(acc, f, TextIn(before, f), TextIn(after, f)),
            t, Detected(t, before, after))

EntrySize(e) == Size(e.first) + Size(e.latest)

\* _refresh_undo_support
UndoSupported(t) ==
    /\ \A f \in DOMAIN t : EntrySize(t[f]) <= site.per_file
    /\ MapThenSumSet(LAMBDA f : EntrySize(t[f]), DOMAIN t) <= site.total

----------------------------------------------------------------------------
(* A tool call.                                                           *)

\* The sessions about to replace a file they have checked.
Replacing == {s \in site.sessions : (call[s] # Idle /\ call[s].pc = "put") \/ undo[s].pc = "checked"}

Written(f, by, text) ==
    /\ fs' = [fs EXCEPT ![f] = [text |-> text, at |-> @.at + 1]]
    /\ mark' = [mark EXCEPT ![f] =
           [by |-> by, during |-> Replacing, seen |-> {},
            own |-> @.own \cup {<<s, text>> : s \in {by} \cup {t \in site.sessions : call[t] # Idle}},
            pure |-> @.pure /\ by \in site.sessions /\ TrackableText(text)]]

\* The diff a person is shown before a write or an edit, when there is one.
_resolve_write_confirmation(text, a) ==
    IF Exists(text) /\ Binary(text) THEN NoShown ELSE [old |-> text, new |-> a.new, is |-> TRUE]

_resolve_edit_confirmation(text, a) ==
    IF ~Exists(text) \/ Binary(text) \/ EditError(text, a) THEN NoShown
    ELSE [old |-> text, new |-> Outcome(text, a), is |-> TRUE]

\* The call starts: the workspace as it is, and the confirmation of what will change.
Begin(s, a) ==
    /\ call[s] = Idle /\ undo[s].pc = "none" /\ left[s] > 0
    /\ call' = [call EXCEPT ![s] =
           [pc |-> IF a.tool = "read" THEN "run" ELSE "confirm", a |-> a, before |-> capture,
            shown |-> CASE a.tool = "write" -> _resolve_write_confirmation(fs[a.file].text, a)
                        [] a.tool = "edit" -> _resolve_edit_confirmation(fs[a.file].text, a)
                        [] OTHER -> NoShown,
            raw |-> Gone, track |-> tracker[s]]]
    /\ left' = [left EXCEPT ![s] = @ - 1]
    /\ UNCHANGED <<site, fs, snaps, tracker, undo, mark>>

\* The person agrees or denies, or agrees to other arguments than were shown.
Answer(s, agreed) ==
    /\ call[s] # Idle /\ call[s].pc = "confirm"
    /\ call' = [call EXCEPT ![s].pc = IF agreed THEN "run" ELSE "end"]
    /\ UNCHANGED <<site, fs, snaps, tracker, left, undo, mark>>

Modify(s, a) ==
    /\ call[s] # Idle /\ call[s].pc = "confirm" /\ a # call[s].a /\ a.tool = call[s].a.tool
    /\ call' = [call EXCEPT ![s].pc = "run", ![s].a = a, ![s].shown = NoShown]
    /\ UNCHANGED <<site, fs, snaps, tracker, left, undo, mark>>

Running(s, tools, pc) == call[s] # Idle /\ call[s].pc = pc /\ call[s].a.tool \in tools

\* read, whole or in part.
read(s) ==
    /\ Running(s, {"read"}, "run")
    /\ LET f == call[s].a.file
           text == fs[f].text
           full == call[s].a.limit >= Len(text)
       IN  IF ~Exists(text) \/ Binary(text) THEN UNCHANGED <<snaps, mark>>
           ELSE /\ _record_read_snapshot(s, f, text, fs[f].at, full)
                /\ mark' = [mark EXCEPT ![f].seen = IF full THEN @ \cup {s} ELSE @]
    /\ call' = [call EXCEPT ![s].pc = "end"]
    /\ UNCHANGED <<site, fs, tracker, left, undo>>

\* write and edit first load the file.
_read_text_file(s) ==
    /\ Running(s, {"write", "edit"}, "run")
    /\ LET text == fs[call[s].a.file].text
           refused == IF Exists(text) THEN Binary(text) ELSE call[s].a.tool = "edit"
       IN  call' = [call EXCEPT ![s].raw = text,
                                ![s].pc = IF refused THEN "end" ELSE IF Exists(text) THEN "check" ELSE "put"]
    /\ UNCHANGED <<site, fs, snaps, tracker, left, undo, mark>>

\* Then the file must be as it was fully read; an edit must match.
Check(s) ==
    /\ Running(s, {"write", "edit"}, "check")
    /\ LET a == call[s].a
           fresh == Exists(fs[a.file].text) /\ _check_snapshot_freshness(s, a.file) = ""
       IN  call' = [call EXCEPT ![s].pc =
               IF fresh /\ (a.tool = "edit" => ~EditError(call[s].raw, a)) THEN "put" ELSE "end"]
    /\ UNCHANGED <<site, fs, snaps, tracker, left, undo, mark>>

\* The file is replaced, remembered as read, and the change reported.
Put(s) ==
    /\ Running(s, {"write", "edit"}, "put")
    /\ LET a == call[s].a
           new == Outcome(call[s].raw, a)
       IN  /\ Written(a.file, s, new)
           /\ _record_read_snapshot(s, a.file, new, fs[a.file].at + 1, TRUE)
           /\ call' = [call EXCEPT ![s].pc = "end",
                                   ![s].track = record_text_file_change(@, a.file, call[s].raw, new)]
    /\ UNCHANGED <<site, tracker, left, undo>>

\* A command changes a file, creates or deletes it.
shell(s) ==
    /\ Running(s, {"shell"}, "run")
    /\ Written(call[s].a.file, s, call[s].a.new)
    /\ call' = [call EXCEPT ![s].pc = "end"]
    /\ UNCHANGED <<site, snaps, tracker, left, undo>>

\* The call ends: what changed meanwhile is recorded, and the run's state holds it.
on_tool_call(s) ==
    /\ call[s] # Idle /\ call[s].pc = "end"
    /\ tracker' = [tracker EXCEPT ![s] = record_text_snapshot_changes(call[s].track, call[s].before, capture)]
    /\ call' = [call EXCEPT ![s] = Idle]
    /\ mark' = [f \in Files |-> [mark[f] EXCEPT !.during = @ \ {s}]]
    /\ UNCHANGED <<site, fs, snaps, left, undo>>

\* The run lost its execution: what the call did is recorded nowhere.
AssertActiveFails(s) ==
    /\ call[s] # Idle /\ call[s].pc = "end"
    /\ call' = [call EXCEPT ![s] = Idle]
    /\ left' = [left EXCEPT ![s] = 0]
    /\ mark' = [f \in Files |-> [mark[f] EXCEPT !.during = @ \ {s}]]
    /\ UNCHANGED <<site, fs, snaps, tracker, undo>>

----------------------------------------------------------------------------
(* Undo, and the others.                                                  *)

\* Path.read_text makes one line end of a carriage return and a line feed.
_read_current_snapshot(f) == IF Exists(fs[f].text) THEN SelectSeq(fs[f].text, LAMBDA c : c # Cr) ELSE Gone

\* Only the existence of the files is compared.
ExistenceConflicts(t) == {f \in DOMAIN t : Exists(fs[f].text) # Exists(t[f].latest)}

\* Nothing is undone unless every file is as the run left it.
RestoreConflicts(t) == {f \in DOMAIN t : _read_current_snapshot(f) # t[f].latest}

restore(s) ==
    /\ undo[s].pc = "none" /\ call[s] = Idle /\ tracker[s] # <<>>
    /\ undo' = [undo EXCEPT ![s] =
           [pc |-> IF ~UndoSupported(tracker[s]) THEN "unsupported"
                   ELSE IF RestoreConflicts(tracker[s]) # {} THEN "conflict" ELSE "checked",
            todo |-> DOMAIN tracker[s]]]
    /\ UNCHANGED <<site, fs, snaps, call, tracker, left, mark>>

RestoreFile(s, f) ==
    /\ undo[s].pc = "checked" /\ f \in undo[s].todo
    /\ Written(f, s, tracker[s][f].first)
    /\ undo' = [undo EXCEPT ![s].todo = @ \ {f}, ![s].pc = IF undo[s].todo = {f} THEN "restored" ELSE @]
    /\ UNCHANGED <<site, snaps, call, tracker, left>>

Other(f, text) ==
    /\ left[0] > 0 /\ text # fs[f].text
    /\ Written(f, 0, text)
    /\ left' = [left EXCEPT ![0] = @ - 1]
    /\ UNCHANGED <<site, snaps, call, tracker, undo>>

Init ==
    /\ site \in Sites
    /\ fs = [f \in Files |-> [text |-> site.initial[f], at |-> 0]]
    /\ snaps = [s \in site.sessions |-> [f \in Files |-> NoSnapshot]]
    /\ call = [s \in site.sessions |-> Idle]
    /\ tracker = [s \in site.sessions |-> <<>>]
    /\ left = [s \in site.sessions \cup {0} |-> site.tries[s + 1]]
    /\ undo = [s \in site.sessions |-> [pc |-> "none", todo |-> {}]]
    /\ mark = [f \in Files |-> [by |-> 0, during |-> {}, seen |-> {}, own |-> {}, pure |-> TrackableText(site.initial[f])]]

Next ==
    \/ \E s \in site.sessions :
        \/ \E a \in site.calls : Begin(s, a)
        \/ \E agreed \in BOOLEAN : Answer(s, agreed)
        \/ \E a \in site.calls : Modify(s, a)
        \/ read(s) \/ _read_text_file(s) \/ Check(s) \/ Put(s) \/ shell(s) \/ on_tool_call(s)
        \/ AssertActiveFails(s)
        \/ restore(s)
        \/ \E f \in undo[s].todo : RestoreFile(s, f)
    \/ \E f \in Files, text \in site.others : Other(f, text)

Spec == Init /\ [][Next]_vars

----------------------------------------------------------------------------
(* Properties.                                                            *)

\* NoUnseenLoss: the write and edit tools never destroy a version of a file that
\* somebody else put there and the session never read in full: the snapshot check of
\* a write catches it.  An undo never destroys such a version either, unless its text
\* is one the run itself put there or one that appeared while a tool call of the run
\* was in progress: the tracker takes every change it finds after a call for the
\* call's own, somebody else's included, and the undo compares with nothing else.
\* Apart from that only a version that appears between the check and the replacement
\* itself can be lost.
KeepsUnseen ==
    \A s \in site.sessions, f \in Files :
       fs'[f] # fs[f] /\ mark'[f].by = s /\ ~Running(s, {"shell"}, "run")
       /\ Exists(fs[f].text) /\ mark[f].by # s
       => \/ s \in mark[f].seen \cup mark[f].during
          \/ undo[s].pc = "checked" /\ <<s, _read_current_snapshot(f)>> \in mark[f].own

NoUnseenLoss == [][KeepsUnseen]_vars

\* UndoReturns: when an undo reports success, every file the run touched, that
\* nobody else touched and that always was text the tracker can follow, holds what
\* it held before the run, whatever sequence of writes, edits, commands and denied
\* calls went before.  The workspace fits the tracker's bound on files.
UndoReturns ==
    \A s \in site.sessions :
        undo[s].pc = "restored" => \A f \in DOMAIN tracker[s] :
            mark[f].pure /\ site.sessions = {s} /\ Cardinality(Files) <= site.max_files
            => fs[f].text = site.initial[f]

\* AppliedAsShown: what an approved write or edit leaves in a file is what the
\* person was shown, and it replaces the text the diff was made against (or a file
\* that is gone by then), however long the answer took and whatever others did,
\* except in the moment between the freshness check and the replacement.
PutsAsShown ==
    \A s \in site.sessions :
       Running(s, {"write", "edit"}, "put") /\ call'[s] # call[s] /\ call[s].shown.is
       => LET f == call[s].a.file
          IN  /\ fs'[f].text = call[s].shown.new
              /\ fs[f].text \in {call[s].shown.old, Gone} \/ s \in mark[f].during

AppliedAsShown == [][PutsAsShown]_vars
=============================================================================
