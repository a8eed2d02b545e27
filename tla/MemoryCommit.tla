----------------------------- MODULE MemoryCommit -----------------------------
(***************************************************************************)
(* The commit of a finished run to the session memory: commit_messages of  *)
(* memory/manager.py, with the vector index of the turns, the long-term    *)
(* profile and facts, and the session document they are all written beside. *)
(* Runs of one session hold an execution lease in turn; each external call *)
(* (vector store, profile store, extractor, session store) is a step, and  *)
(* a process may die between any two of them.                              *)
(*                                                                         *)
(* A message is [id, role]; id stands for its text.  A turn is known by    *)
(* the id of the user message that opens it.                               *)
(***************************************************************************)
EXTENDS Integers, Sequences, FiniteSets, FiniteSetsExt, SequencesExt

CONSTANTS Runs,        \* workers of the session
          Chunks,      \* what a run adds to the conversation: sequences of roles
          EveryN,      \* long_term.extract_every_n_turns
          MaxMessages, \* length of the conversation
          MaxTrouble   \* lost leases, failed writes and deaths, together

VARIABLES stored,   \* the session document: messages, cursors, checkpoint, revision
          index,    \* turns in the vector store of the session
          facts,    \* turns whose facts are in the long-term vector store
          holder,   \* who holds the lease
          trouble,
          plain,    \* turns whose extraction gave no facts
          run       \* the commit of each run

vars == <<stored, index, facts, holder, trouble, plain, run>>

Idle == [at |-> "idle"]

----------------------------------------------------------------------------
(* The turns of a conversation.                                           *)

\* The positions of user messages from i on.
UsersFrom(msgs, i) == {k \in i..Len(msgs) : msgs[k].role = "user"}

TurnEnd(msgs, k) ==
    IF UsersFrom(msgs, k + 1) = {} THEN Len(msgs) ELSE Min(UsersFrom(msgs, k + 1)) - 1

\* The turn that starts at k has a user's and an assistant's text.
_build_turn_embedding_payload(msgs, k) ==
    \E j \in k..TurnEnd(msgs, k) : msgs[j].role = "assistant"

\* Everything before the end is behind the cursor.
EveryTurnPassed(msgs, done) ==
    [turns |-> {msgs[k].id : k \in {k \in UsersFrom(msgs, done + 1) :
                                      _build_turn_embedding_payload(msgs, k)}},
     next |-> Len(msgs)]

\* The complete turns after the first done messages, and the next cursor: the end,
\* or the start of the last turn while it has no answer.
_collect_complete_turns_for_vector_index(msgs, done) ==
    LET starts == UsersFrom(msgs, done + 1)
        complete == {k \in starts : _build_turn_embedding_payload(msgs, k)}
    IN  [turns |-> {msgs[k].id : k \in complete},
         next |-> IF starts # {} /\ Max(starts) \notin complete THEN Max(starts) - 1 ELSE Len(msgs)]

\* A cursor past the conversation starts over.
Cursor(c, msgs) == IF c > Len(msgs) THEN 0 ELSE c

----------------------------------------------------------------------------
(* A commit.                                                              *)

NoCheckpoint == 0

Init ==
    /\ stored = [msgs |-> <<>>, vec |-> 0, lt |-> 0, pending |-> 0, cp |-> NoCheckpoint, rev |-> 0]
    /\ index = {} /\ facts = {} /\ plain = {}
    /\ holder \in Runs /\ trouble = 0
    /\ run = [r \in Runs |-> Idle]

_verify_execution_fence(r) == holder = r

Troubled == trouble < MaxTrouble /\ trouble' = trouble + 1

\* An external write fails, or not.
Outcome(ok) == IF ok THEN trouble' = trouble ELSE Troubled

\* The lease runs out and another run takes it (external).
Steal ==
    /\ Troubled
    /\ \E r \in Runs \ {holder} : holder' = r
    /\ UNCHANGED <<stored, index, facts, plain, run>>

\* A run starts from the stored conversation and adds to it: it holds the checkpoint
\* it resumes, if there is one (external: the kernel's bootstrap).
Work(r) ==
    /\ run[r] = Idle /\ _verify_execution_fence(r)
    /\ \E chunk \in Chunks :
         LET n == Len(stored.msgs)
             added == [i \in DOMAIN chunk |-> [id |-> <<r, n + i>>, role |-> chunk[i]]]
         IN  /\ n + Len(chunk) <= MaxMessages
             /\ chunk[1] = "user" <=> stored.cp = NoCheckpoint
             /\ run' = [run EXCEPT ![r] = [at |-> "commit", msgs |-> stored.msgs \o added,
                                           rev |-> stored.rev, clear |-> stored.cp]]
    /\ UNCHANGED <<stored, index, facts, holder, trouble, plain>>

\* Instead of ending, the run is suspended: its checkpoint is saved (external).
Suspend(r) ==
    /\ run[r].at = "commit" /\ _verify_execution_fence(r)
    /\ stored.rev = run[r].rev /\ stored.cp = NoCheckpoint
    /\ stored' = [stored EXCEPT !.cp = stored.rev + 1, !.rev = @ + 1]
    /\ run' = [run EXCEPT ![r] = Idle]
    /\ UNCHANGED <<index, facts, holder, trouble, plain>>

\* The commit raises, or its process dies.
Abort(r) ==
    /\ run[r] # Idle /\ Outcome(~_verify_execution_fence(r))
    /\ run' = [run EXCEPT ![r] = Idle]
    /\ UNCHANGED <<stored, index, facts, holder, plain>>

Goto(r, at, s) == run' = [run EXCEPT ![r].at = at, ![r].state = s]

\* Load, check the revision and the checkpoint, clear the checkpoint.
commit_messages(r) ==
    /\ run[r].at = "commit" /\ _verify_execution_fence(r)
    /\ stored.rev = run[r].rev
    /\ stored.cp = run[r].clear
    /\ LET msgs == run[r].msgs
           found == _collect_complete_turns_for_vector_index(msgs, Cursor(stored.vec, msgs))
           state == [stored EXCEPT !.msgs = msgs, !.cp = NoCheckpoint]
       IN  run' = [run EXCEPT ![r] = IF found.turns = {}
                     THEN [at |-> "long_term", rev |-> stored.rev,
                           state |-> [state EXCEPT !.vec = found.next]]
                     ELSE [at |-> "index", rev |-> stored.rev, state |-> state, found |-> found]]
    /\ UNCHANGED <<stored, index, facts, holder, trouble, plain>>

\* The cursor advances whether or not the texts were added.
CursorAnyway(s, found, ok) == [s EXCEPT !.vec = found.next]

\* The cursor advances with the texts.
CursorAfterTexts(s, found, ok) == IF ok THEN [s EXCEPT !.vec = found.next] ELSE s

\* The vector store: the fence is verified before the call and after it.
add_texts(r) ==
    /\ run[r].at = "index" /\ _verify_execution_fence(r)
    /\ \E ok \in BOOLEAN :
         /\ Outcome(ok)
         /\ index' = IF ok THEN index \cup run[r].found.turns ELSE index
         /\ run' = [run EXCEPT ![r] = [at |-> "indexed", rev |-> @.rev,
                                       state |-> CursorAfterTexts(@.state, @.found, ok)]]
    /\ UNCHANGED <<stored, facts, holder, plain>>

Indexed(r) ==
    /\ run[r].at = "indexed" /\ _verify_execution_fence(r)
    /\ run' = [run EXCEPT ![r].at = "long_term"]
    /\ UNCHANGED <<stored, index, facts, holder, trouble, plain>>

\* Up to the extraction: too few turns, or no extractor or profile store, keep the
\* cursor; no turn moves it.
_commit_long_term_memory(r) ==
    /\ run[r].at = "long_term"
    /\ LET s == run[r].state
           found == _collect_complete_turns_for_vector_index(s.msgs, Cursor(s.lt, s.msgs))
           n == Cardinality(found.turns)
       IN  \/ /\ n = 0
              /\ Goto(r, "save", [s EXCEPT !.lt = found.next, !.pending = 0]) /\ UNCHANGED trouble
           \/ /\ n \in 1..(EveryN - 1)
              /\ Goto(r, "save", [s EXCEPT !.pending = n]) /\ UNCHANGED trouble
           \/ /\ n >= EveryN
              /\ \/ Goto(r, "save", [s EXCEPT !.pending = n]) /\ Troubled
                 \/ /\ _verify_execution_fence(r)
                    /\ UNCHANGED trouble
                    /\ run' = [run EXCEPT ![r] = [at |-> "extract", rev |-> @.rev, found |-> found,
                                 state |-> [s EXCEPT !.pending = n]]]
    /\ UNCHANGED <<stored, index, facts, holder, plain>>

\* The extractor fails, or finds a patch and facts, or less.
_call_long_term_extractor(r) ==
    /\ run[r].at = "extract"
    /\ \/ Goto(r, "save", run[r].state) /\ Troubled /\ UNCHANGED plain
       \/ /\ _verify_execution_fence(r) /\ UNCHANGED trouble
          /\ \E out \in SUBSET {"patch", "facts"} :
               /\ run' = [run EXCEPT ![r] = [at |-> "profile", rev |-> @.rev, found |-> @.found,
                                             state |-> @.state, out |-> out, advance |-> TRUE]]
               /\ plain' = IF "facts" \in out THEN plain ELSE plain \cup run[r].found.turns
    /\ UNCHANGED <<stored, index, facts, holder>>

\* The profile store, if there is a patch.
save_profile(r) ==
    /\ run[r].at = "profile"
    /\ \/ "patch" \notin run[r].out /\ run' = [run EXCEPT ![r].at = "facts"] /\ UNCHANGED trouble
       \/ /\ "patch" \in run[r].out /\ _verify_execution_fence(r)
          /\ \E ok \in BOOLEAN : Outcome(ok) /\ run' = [run EXCEPT ![r].at = "facts", ![r].advance = ok]
    /\ UNCHANGED <<stored, index, facts, holder, plain>>

add_facts(r) ==
    /\ run[r].at = "facts"
    /\ ("patch" \in run[r].out) => _verify_execution_fence(r)
    /\ \/ "facts" \notin run[r].out /\ run' = [run EXCEPT ![r].at = "advance"] /\ UNCHANGED <<facts, trouble>>
       \/ /\ "facts" \in run[r].out /\ _verify_execution_fence(r)
          /\ \E ok \in BOOLEAN :
               /\ Outcome(ok)
               /\ facts' = IF ok THEN facts \cup run[r].found.turns ELSE facts
               /\ run' = [run EXCEPT ![r].at = "advance", ![r].advance = @ /\ ok]
    /\ UNCHANGED <<stored, index, holder, plain>>

\* The cursor advances whatever failed.
AdvanceAnyway(ok) == TRUE

\* Only when every write succeeded.
advance_cursor(ok) == ok

Advance(r) ==
    /\ run[r].at = "advance"
    /\ ("facts" \in run[r].out) => _verify_execution_fence(r)
    /\ Goto(r, "save", IF advance_cursor(run[r].advance)
                       THEN [run[r].state EXCEPT !.lt = run[r].found.next, !.pending = 0]
                       ELSE run[r].state)
    /\ UNCHANGED <<stored, index, facts, holder, trouble, plain>>

\* The session document, under its revision and the fence.
save_session_snapshot(r) ==
    /\ run[r].at = "save" /\ _verify_execution_fence(r)
    /\ stored.rev = run[r].rev
    /\ stored' = [run[r].state EXCEPT !.rev = stored.rev + 1]
    /\ run' = [run EXCEPT ![r] = Idle]
    /\ UNCHANGED <<index, facts, holder, trouble, plain>>

Next ==
    \/ Steal
    \/ \E r \in Runs : \/ Work(r) \/ Suspend(r) \/ Abort(r) \/ commit_messages(r) \/ add_texts(r)
                       \/ Indexed(r) \/ _commit_long_term_memory(r) \/ _call_long_term_extractor(r)
                       \/ save_profile(r) \/ add_facts(r) \/ Advance(r) \/ save_session_snapshot(r)

Spec == Init /\ [][Next]_vars

----------------------------------------------------------------------------
(* Properties.                                                            *)

\* Nothing is passed over: every answered turn of the stored conversation that is
\* behind the vector cursor is in the vector store, and every one behind the
\* long-term cursor went through an extraction: its facts are in the long-term
\* store, or there were none, whatever failed, died or lost its lease between the writes.
NoTurnPassedOver ==
    LET Behind(c) == {stored.msgs[k].id : k \in {k \in UsersFrom(stored.msgs, 1) :
                        k <= c /\ _build_turn_embedding_payload(stored.msgs, k)}}
    IN  Behind(stored.vec) \subseteq index /\ Behind(stored.lt) \subseteq facts \cup plain
=============================================================================
