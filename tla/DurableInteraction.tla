------------------------- MODULE DurableInteraction -------------------------
(* Runs of one session that stop to ask, the clients that answer, the host  *)
(* that cancels, and the runs that resume with the answer.                  *)
(* Every attempt (Workers) has its own lease owner, so the fence of a write *)
(* is the attempt itself: `holder` is the attempt whose fence verifies.     *)
(* Expiry and take-over of the lease are the ones of ExecutionLease.        *)
EXTENDS SessionJournal

CONSTANTS Clients,         \* callers of record_receipt outside a run
          AnswerOf,        \* what each of them, and each callback, answers
          Kinds,           \* whether sessions are kept by memory/durability.py
                           \* alone (TRUE) or by memory/bootstrap.py
          Mem0             \* memory_state of a run that has read nothing

NamesFit ==
    /\ {None, Stopped} \cap (Responses \union Ids \union Checkpoints \union Workers) = {}
    /\ None \notin Ids \X Responses
    /\ None # Stopped
    /\ MaxRev \in Nat
    /\ AnswerOf \in [Clients \union Workers -> Responses]
    /\ Mem0 = [rev |-> 0, cp |-> None, late |-> FALSE]

VARIABLES kind,       \* of this session, from Kinds
          session,    \* the session state
          holder,     \* the attempt whose lease is in force
          cancelled,  \* attempts with a cancellation tombstone
          pc,         \* where each attempt is
          mem,        \* memory_state of its run: revision, checkpoint; late: a
                      \* history, the checkpoint was gone or the session had
                      \* moved by the time its bootstrap read the revision
          ans,        \* the interaction it resumed and the answer it read
          call,       \* a record_receipt in progress, per caller
          stop,       \* a cancel_pending in progress
          told,       \* answers whose record_receipt returned
          acted       \* answers some run acted on

vars == <<kind, session, holder, cancelled, pc, mem, ans, call, stop, told, acted>>

Callers == Clients \union Workers

NoCall == [st |-> "none"]

DurabilityOnly == kind

Init ==
    /\ kind \in Kinds
    /\ session = Empty
    /\ holder = None
    /\ cancelled = {}
    /\ pc = [w \in Workers |-> "idle"]
    /\ mem = [w \in Workers |-> Mem0]
    /\ ans = [w \in Workers |-> None]
    /\ call = [c \in Callers |-> NoCall]
    /\ stop = NoCall
    /\ told = {} /\ acted = {}

\* reconcile_cancelled_execution_checkpoint finds a tombstone of the attempt
\* that owns the checkpoint.  Its loop retries a lost compare-and-set, so what
\* it writes is a function of the state it replaces.
Orphaned == session.cp # None /\ session.dom \in cancelled

Reconciled == IF Orphaned THEN Written(Abandoned(session)) ELSE session

Room == session.rev < MaxRev

\* The run is over and its guard released.
Ended(w) ==
    /\ pc' = [pc EXCEPT ![w] = "idle"]
    /\ mem' = [mem EXCEPT ![w] = Mem0]
    /\ ans' = [ans EXCEPT ![w] = None]
    /\ call' = [call EXCEPT ![w] = NoCall]
    /\ holder' = IF holder = w THEN None ELSE holder

Goto(w, l) == pc' = [pc EXCEPT ![w] = l]

At(w, r, cp) == mem' = [mem EXCEPT ![w] = [rev |-> r, cp |-> cp, late |-> FALSE]]

\* memory/bootstrap.py takes checkpoint and revision from one snapshot;
\* memory/durability.py loads the checkpoint and then, once more, the revision.
Booted == IF DurabilityOnly THEN "boot" ELSE "running"

---------------------------------------------------------------------------
(* Runs *)

\* The scope of run_messages and resume_interaction takes the lease.
Acquire(w) ==
    /\ pc[w] = "idle" /\ holder = None /\ w \notin cancelled
    /\ holder' = w
    /\ Goto(w, "held")
    /\ UNCHANGED <<session, cancelled, mem, ans, call, stop, told, acted>>

\* A fresh run: bootstrap restores a checkpoint that asks nothing and refuses
\* one that does.
StartFresh(w) ==
    /\ pc[w] = "held" /\ (Orphaned => Room)
    /\ session' = Reconciled
    /\ IF session'.cp # None /\ session'.cp.ask
       THEN Ended(w)
       ELSE /\ Goto(w, Booted)
            /\ At(w, session'.rev, session'.cp)
            /\ UNCHANGED <<holder, ans, call>>
    /\ UNCHANGED <<cancelled, stop, told, acted>>

\* resume_interaction loads the checkpoint it is going to resume.
ResumeLoad(w) ==
    /\ pc[w] = "held" /\ (Orphaned => Room)
    /\ session' = Reconciled
    /\ IF session'.cp = None \/ ~session'.cp.ask
       THEN Ended(w)
       ELSE /\ Goto(w, "resuming")
            /\ At(w, session'.rev, session'.cp)
            /\ UNCHANGED <<holder, ans, call>>
    /\ UNCHANGED <<cancelled, stop, told, acted>>

\* The receipt on record; whether the answer b a resume call brings is recorded
\* now, under the run's fence; and the answer the run resumes with.
ReceiptOf(i) == IF HasEntry(session, i) THEN Entry(session, i).receipt ELSE None
Brings(w, b) ==
    /\ b # None /\ holder = w
    /\ ReceiptOf(mem[w].cp.id) = None /\ CanRecord(session, mem[w].cp.id)
Resumes(w, b) == IF Brings(w, b) THEN b ELSE ReceiptOf(mem[w].cp.id)

\* require_receipt, or record_receipt when the resume call brings an answer:
\* the interaction of the checkpoint is active, and the receipt of a
\* cancellation is not an answer.
ResumeReceipt(w) ==
    LET i == mem[w].cp.id IN
    /\ pc[w] = "resuming"
    /\ \E b \in {None, AnswerOf[w]} :
         /\ Orphaned \/ Brings(w, b) => Room
         /\ IF /\ session.active = i /\ ~Orphaned
               /\ Resumes(w, b) \in Responses /\ b \in {None, Resumes(w, b)}
            THEN /\ Goto(w, "read")
                 /\ ans' = [ans EXCEPT ![w] = <<i, Resumes(w, b)>>]
                 /\ session' = IF Brings(w, b) THEN Written(Recorded(session, i, b))
                               ELSE session
                 /\ told' = IF b = None THEN told ELSE told \union {<<i, b>>}
                 /\ UNCHANGED <<holder, mem, call>>
            ELSE Ended(w) /\ session' = Reconciled /\ UNCHANGED told
    /\ UNCHANGED <<cancelled, stop, acted>>

\* Defect: the checkpoint is not looked at again.
BootstrapAnyway(w) ==
    /\ pc[w] = "read" /\ Goto(w, "running")
    /\ At(w, session.rev, session.cp)
    /\ acted' = acted \union {ans[w]}
    /\ UNCHANGED <<session, holder, ans, call, cancelled, stop, told>>

\* Bootstrap in resume mode, then on_resume: the run acts on the answer.  A
\* checkpoint that is gone by now stops a durability-only run; a run with
\* semantic memory goes on from the conversation it was given.
Bootstrap(w) ==
    /\ pc[w] = "read" /\ (Orphaned => Room)
    /\ session' = Reconciled
    /\ IF \/ session'.cp = None /\ DurabilityOnly
          \/ session'.cp # None /\ session'.cp # mem[w].cp
       THEN Ended(w) /\ UNCHANGED acted
       ELSE /\ Goto(w, Booted)
            /\ mem' = [mem EXCEPT ![w] = [rev |-> session'.rev, cp |-> session'.cp,
                                          late |-> session'.cp = None]]
            /\ acted' = IF DurabilityOnly THEN acted ELSE acted \union {ans[w]}
            /\ UNCHANGED <<holder, ans, call>>
    /\ UNCHANGED <<cancelled, stop, told>>

\* load_session_snapshot, after the checkpoint was loaded: the run goes on with
\* that checkpoint and with the revision the session is at by now.
ReadRevision(w) ==
    /\ pc[w] = "boot"
    /\ Goto(w, "running")
    /\ mem' = [mem EXCEPT ![w] = [rev |-> session.rev, cp |-> @.cp,
                                  late |-> session.rev # @.rev]]
    /\ acted' = IF ans[w] = None THEN acted ELSE acted \union {ans[w]}
    /\ UNCHANGED <<session, holder, ans, call, cancelled, stop, told>>

\* The write of a run: the revision its memory holds, under its own fence.
Fenced(w) == session.rev = mem[w].rev /\ holder = w /\ Room

\* save_execution_checkpoint_snapshot for a run that asks: an interaction
\* still active is the one the current checkpoint asks and has its answer; it
\* is applied by the checkpoint that replaces it.
Suspend(w) ==
    /\ pc[w] = "running"
    /\ LET i == <<w, mem[w].rev>>
           free == ApplyCheckpoint(session, i)
       IN  IF Fenced(w) /\ CheckpointApplies(session)
           THEN /\ session' = Written([Registered(free, i) EXCEPT
                                         !.cp = [id |-> i, ask |-> TRUE],
                                         !.dom = w])
                /\ Goto(w, "verify")
                /\ At(w, session.rev + 1, [id |-> i, ask |-> TRUE])
                /\ ans' = [ans EXCEPT ![w] = None]
                /\ UNCHANGED <<holder, call>>
           ELSE Room /\ Ended(w) /\ UNCHANGED session
    /\ UNCHANGED <<cancelled, stop, told, acted>>

\* The same for a run out of iterations that has nobody to ask.
SuspendPlain(w) ==
    /\ pc[w] = "running"
    /\ LET i == <<w, mem[w].rev>>
       IN  IF Fenced(w) /\ CheckpointApplies(session)
           THEN session' = Written([ApplyCheckpoint(session, i) EXCEPT
                                      !.cp = [id |-> i, ask |-> FALSE],
                                      !.dom = w])
           ELSE Room /\ UNCHANGED session
    /\ Ended(w)
    /\ UNCHANGED <<cancelled, stop, told, acted>>

\* The run is done.  With semantic memory commit_messages clears the very
\* checkpoint the run restored, at the revision it restored; durability-only
\* clears whatever checkpoint it loads now, at the revision it loads.
Clears(w) ==
    IF DurabilityOnly THEN holder = w /\ Room /\ Reconciled.cp # None
    ELSE Fenced(w) /\ session.cp = mem[w].cp

Complete(w) ==
    /\ pc[w] = "running" /\ Room
    /\ IF Clears(w) /\ ~(DurabilityOnly /\ Orphaned) /\ CheckpointApplies(session)
       THEN session' = Written(NoCheckpoint(
                         ApplyCheckpoint(session,
                           IF session.cp = None THEN None ELSE session.cp.id)))
       ELSE session' = IF DurabilityOnly THEN Reconciled ELSE session
    /\ Ended(w)
    /\ UNCHANGED <<cancelled, stop, told, acted>>

\* The reload after the checkpoint write finds it, asked and unapplied, or
\* the run fails.  A run with a callback then lets its lease go and waits;
\* one without ends.
Verify(w) ==
    /\ pc[w] = "verify"
    /\ \/ Ended(w)
       \/ /\ session.cp = mem[w].cp /\ session.active = mem[w].cp.id
          /\ holder = w
          /\ holder' = None
          /\ Goto(w, "waiting")
          /\ UNCHANGED <<mem, ans, call>>
    /\ UNCHANGED <<session, cancelled, stop, told, acted>>

\* The callback's answer is recorded: the receipt is not applied yet, and the
\* lease comes back only at the revision that holds it.
Reacquire(w) ==
    /\ pc[w] = "replied"
    /\ IF holder = None /\ w \notin cancelled /\ session.rev = mem[w].rev
       THEN /\ holder' = w
            /\ Goto(w, "running")
            /\ acted' = acted \union {ans[w]}
            /\ UNCHANGED <<mem, ans, call>>
       ELSE Ended(w) /\ UNCHANGED acted
    /\ UNCHANGED <<session, cancelled, stop, told>>

Crash(w) ==
    /\ pc[w] # "idle"
    /\ pc' = [pc EXCEPT ![w] = "idle"]
    /\ mem' = [mem EXCEPT ![w] = Mem0]
    /\ ans' = [ans EXCEPT ![w] = None]
    /\ call' = [call EXCEPT ![w] = NoCall]
    /\ UNCHANGED <<session, holder, cancelled, stop, told, acted>>

\* The lease of a run that is late, or gone, expires.
Expire ==
    /\ holder # None
    /\ holder' = None
    /\ UNCHANGED <<session, cancelled, pc, mem, ans, call, stop, told, acted>>

---------------------------------------------------------------------------
(* record_receipt, by a client or by the callback of a waiting run *)

\* It returns, with the revision of the state it returns; a callback's run
\* goes on only if nobody has applied the receipt meanwhile.
Returns(c, i, S) ==
    /\ told' = told \union {<<i, AnswerOf[c]>>}
    /\ call' = [call EXCEPT ![c] = NoCall]
    /\ session' = S
    /\ IF c \notin Workers
       THEN UNCHANGED <<pc, mem, ans, holder>>
       ELSE IF Entry(S, i).app # None
            THEN /\ Goto(c, "idle")
                 /\ mem' = [mem EXCEPT ![c] = Mem0]
                 /\ UNCHANGED <<ans, holder>>
            ELSE /\ Goto(c, "replied")
                 /\ mem' = [mem EXCEPT ![c].rev = S.rev]
                 /\ ans' = [ans EXCEPT ![c] = <<i, AnswerOf[c]>>]
                 /\ UNCHANGED holder

\* It raises; a callback's run is over.
Raises(c, S) ==
    /\ session' = S
    /\ UNCHANGED told
    /\ IF c \in Workers THEN Ended(c)
       ELSE call' = [call EXCEPT ![c] = NoCall] /\ UNCHANGED <<pc, mem, ans, holder>>

\* The load: an equal answer returns at once, another one raises, and so does
\* a revision other than the one a callback waits at.
RecordLoad(c) ==
    /\ call[c] = NoCall /\ Room
    /\ \E i \in DOMAIN session.entries :
         /\ c \in Workers => pc[c] = "waiting" /\ mem[c].cp.id = i
         /\ IF Orphaned THEN Raises(c, Reconciled)
            ELSE IF Entry(session, i).receipt = AnswerOf[c]
            THEN Returns(c, i, session)
            ELSE IF CanRecord(session, i) /\ (c \in Workers => session.rev = mem[c].rev)
            THEN /\ call' = [call EXCEPT ![c] =
                               [st |-> "loaded", i |-> i, rev |-> session.rev]]
                 /\ UNCHANGED <<session, pc, mem, ans, holder, told>>
            ELSE Raises(c, session)
    /\ UNCHANGED <<cancelled, stop, acted>>

\* Defect: the state is written whatever its revision is by now.
RecordSaveBlind(c) ==
    /\ call[c].st = "loaded" /\ Room
    /\ session' = Written(Recorded(session, call[c].i, AnswerOf[c]))
    /\ call' = [call EXCEPT ![c] = [st |-> "saved", i |-> call[c].i]]
    /\ UNCHANGED <<pc, mem, ans, holder, told, cancelled, stop, acted>>

\* The write: a compare-and-set that the owner's tombstone refuses and that
\* asks for no lease.  One that lost looks at the winner's receipt.
RecordSave(c) ==
    /\ call[c].st = "loaded" /\ Room
    /\ LET i == call[c].i
       IN  IF Orphaned THEN Raises(c, Reconciled)
           ELSE IF session.rev = call[c].rev
           THEN /\ session' = Written(Recorded(session, i, AnswerOf[c]))
                /\ call' = [call EXCEPT ![c] = [st |-> "saved", i |-> i]]
                /\ UNCHANGED <<pc, mem, ans, holder, told>>
           ELSE IF Entry(session, i).receipt = AnswerOf[c]
           THEN Returns(c, i, session)
           ELSE Raises(c, session)
    /\ UNCHANGED <<cancelled, stop, acted>>

\* The reload after the write.
RecordVerify(c) ==
    /\ call[c].st = "saved" /\ (Orphaned => Room)
    /\ IF Orphaned THEN Raises(c, Reconciled) ELSE Returns(c, call[c].i, session)
    /\ UNCHANGED <<cancelled, stop, acted>>

---------------------------------------------------------------------------
(* The host's Stop *)

\* request_cancel: a tombstone for the attempt; its lease goes with it.
RequestCancel(w) ==
    /\ cancelled' = cancelled \union {w}
    /\ holder' = IF holder = w THEN None ELSE holder
    /\ UNCHANGED <<session, pc, mem, ans, call, stop, told, acted>>

\* cancel_pending loads the active interaction and the checkpoint asking it.
CancelLoad ==
    /\ stop = NoCall
    /\ session.active # None
    /\ stop' = [st |-> "loaded", i |-> session.active, rev |-> session.rev]
    /\ UNCHANGED <<session, holder, cancelled, pc, mem, ans, call, told, acted>>

\* Its write, which the tombstone of the attempt refuses too.  One that lost
\* looks at the winner and writes nothing more.
CancelSave ==
    /\ stop # NoCall /\ Room
    /\ session' = IF session.rev = stop.rev /\ ~Orphaned
                  THEN Written(Abandoned(session)) ELSE session
    /\ stop' = NoCall
    /\ UNCHANGED <<holder, cancelled, pc, mem, ans, call, told, acted>>

Step ==
    \/ \E w \in Workers :
         \/ Acquire(w) \/ StartFresh(w) \/ ResumeLoad(w) \/ ResumeReceipt(w)
         \/ Bootstrap(w) \/ ReadRevision(w) \/ Suspend(w) \/ SuspendPlain(w) \/ Complete(w)
         \/ Verify(w) \/ Reacquire(w) \/ Crash(w) \/ RequestCancel(w)
    \/ \E c \in Callers : RecordLoad(c) \/ RecordSave(c) \/ RecordVerify(c)
    \/ Expire
    \/ CancelLoad
    \/ CancelSave

Next == Step /\ UNCHANGED kind

Spec == Init /\ [][Next]_vars

---------------------------------------------------------------------------
(* Properties *)

TypeOK ==
    /\ kind \in Kinds
    /\ session.rev \in 0 .. MaxRev
    /\ session.cp \in Checkpoints \union {None}
    /\ session.dom \in Workers \union {None}
    /\ DOMAIN session.entries \subseteq Ids
    /\ \A i \in DOMAIN session.entries : session.entries[i] \in Entries
    /\ session.active \in DOMAIN session.entries \union {None}
    /\ holder \in Workers \union {None}
    /\ cancelled \subseteq Workers
    /\ \A w \in Workers : mem[w].rev \in 0 .. MaxRev

\* The journal and the checkpoint move together: the active interaction is the
\* one entry not yet applied and the one the current checkpoint asks, and an
\* applied entry has a receipt.  validate_interaction_journal and
\* register_checkpoint_interaction_request refuse a session that breaks this,
\* and nothing could then resume it.
JournalBound ==
    /\ TypeOK
    /\ \A i \in DOMAIN session.entries :
         /\ (session.entries[i].app = None) = (i = session.active)
         /\ session.entries[i].app # None => session.entries[i].receipt # None
    /\ (session.active # None) = (session.cp # None /\ session.cp.ask)
    /\ session.active # None => session.cp.id = session.active

\* A caller told that its answer is recorded has it in the journal for good,
\* although the write asked for no lease (save_interaction_session_state).
ToldIsRecorded ==
    \A t \in told : HasEntry(session, t[1]) /\ Entry(session, t[1]).receipt = t[2]

\* However many clients answer, runs crash and resume, and leases expire, all
\* the runs that act on one interaction act on one answer, and that answer is the
\* one whoever was told so gave.
OneAnswer ==
    /\ \A a, b \in acted : a[1] = b[1] => a[2] = b[2]
    /\ ToldIsRecorded

\* cancel_pending abandons the checkpoint and its interaction "atomically",
\* and so does the reconciliation of a cancelled attempt: a run that resumed
\* an interaction they abandoned has no write left that the store accepts,
\* however late it notices.  The runs that never saw the state they write to
\* are not covered: one with semantic memory that bootstraps on a session whose
\* checkpoint is gone, and one of memory/durability.py whose bootstrap loads the
\* checkpoint before the cancellation and the revision after it.
AbandonedRunCannotWrite ==
    \A w \in Workers :
        /\ pc[w] = "running" /\ ans[w] # None /\ ~mem[w].late
        /\ Entry(session, ans[w][1]).app = Stopped
        => ~(holder = w /\ mem[w].rev = session.rev)
=============================================================================
