--------------------------- MODULE SessionJournal ---------------------------
(* The part of one session's state that durable interactions live in: the  *)
(* execution checkpoint, its owning attempt, and the interaction journal.   *)
(* Every write replaces the state at the next revision (a compare-and-set). *)
(* An interaction, and the checkpoint that asks it, are named by the run    *)
(* that asks and the revision it was built on: both names are digests of    *)
(* contents that include those two.                                         *)
EXTENDS Integers

CONSTANTS Workers, Responses, MaxRev, None,
          Stopped   \* the receipt and the application of a cancellation

Ids == Workers \X (0 .. MaxRev)

Checkpoints == [id : Ids, ask : BOOLEAN]

Entries == [receipt : Responses \union {None, Stopped},
            app : Ids \union {None, Stopped}]

Empty == [rev |-> 0, cp |-> None, dom |-> None, active |-> None,
          entries |-> <<>>]

Entry(S, i) == S.entries[i]

HasEntry(S, i) == i \in DOMAIN S.entries

\* save_if_revision: the next state at the next revision.
Written(S) == [S EXCEPT !.rev = @ + 1]

\* register_interaction_request.
Registered(S, i) ==
    [S EXCEPT !.active = i,
              !.entries = [j \in DOMAIN S.entries \union {i} |->
                             IF j = i THEN [receipt |-> None, app |-> None] ELSE S.entries[j]]]

\* record_interaction_receipt accepts: the entry is the active one and has no
\* receipt yet.
CanRecord(S, i) == HasEntry(S, i) /\ Entry(S, i).receipt = None /\ S.active = i

Recorded(S, i, r) == [S EXCEPT !.entries[i].receipt = r]

\* mark_interaction_applied: the active interaction has a receipt.
CanApply(S, i) == S.active = i /\ Entry(S, i).receipt # None

Applied(S, i, by) == [S EXCEPT !.entries[i].app = by, !.active = None]

\* apply_checkpoint_interaction_receipt: what the current checkpoint asked.
CheckpointApplies(S) == (S.cp # None /\ S.cp.ask) => CanApply(S, S.cp.id)

\* Defect: the checkpoint goes and its interaction stays.
ApplyCheckpointForgotten(S, by) == S

ApplyCheckpoint(S, by) ==
    IF S.cp # None /\ S.cp.ask THEN Applied(S, S.cp.id, by) ELSE S

NoCheckpoint(S) == [S EXCEPT !.cp = None, !.dom = None]

\* The checkpoint is dropped and what it asks is answered by cancellation,
\* unless it has an answer, and applied as cancelled: one state, one write.
Abandoned(S) ==
    LET i == S.cp.id
        answered == IF S.cp.ask /\ Entry(S, i).receipt = None
                    THEN Recorded(S, i, Stopped) ELSE S
    IN  NoCheckpoint(ApplyCheckpoint(answered, Stopped))
=============================================================================
