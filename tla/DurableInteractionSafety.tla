---------------------- MODULE DurableInteractionSafety ----------------------
(***************************************************************************)
(* Safety of DurableInteraction, for every set of attempts, clients and    *)
(* answers: the journal and the checkpoint move together, every run acts   *)
(* on the one answer that was recorded, and a run whose interaction was    *)
(* abandoned has no write left that the store accepts.                     *)
(***************************************************************************)
EXTENDS DurableInteraction, TLAPS

\* Most steps need no arithmetic; the ones that do name the SMT solver.
USE Zenon

(***************************************************************************)
(* The session state                                                       *)
(***************************************************************************)

\* The journals and the session states they are part of.
Journals == UNION {[D -> Entries] : D \in SUBSET Ids}

Sessions == [rev : 0 .. MaxRev, cp : Checkpoints \union {None}, dom : Workers \union {None},
             active : Ids \union {None}, entries : Journals]

\* JournalBound of one state, without the types.
Bound(S) ==
    /\ S.active # None => S.active \in DOMAIN S.entries
    /\ \A i \in DOMAIN S.entries :
         /\ (S.entries[i].app = None) <=> (i = S.active)
         /\ S.entries[i].app # None => S.entries[i].receipt # None
    /\ (S.active # None) <=> (S.cp # None /\ S.cp.ask)
    /\ S.active # None => S.cp.id = S.active

\* An interaction is named by a revision before the one that holds it.
Named(S) == \A i \in DOMAIN S.entries : i[2] < S.rev

\* What a write may do to the journal: entries and receipts stay.
Keeps(S, T) ==
    /\ DOMAIN S.entries \subseteq DOMAIN T.entries
    /\ \A i \in DOMAIN S.entries :
         S.entries[i].receipt # None => T.entries[i].receipt = S.entries[i].receipt

(***************************************************************************)
(* The inductive invariant                                                 *)
(***************************************************************************)

\* A compare-and-set that was computed and not yet sent.
Loaded == [st : {"loaded"}, i : Ids, rev : 0 .. MaxRev]

\* What a run remembers of the session.
Memories == [rev : 0 .. MaxRev, cp : Checkpoints \union {None}, late : BOOLEAN]

\* Where a run is.
Labels == {"idle", "held", "resuming", "read", "boot", "running", "verify", "waiting", "replied"}

\* The type of every variable.
Types ==
    /\ kind \in Kinds
    /\ session \in Sessions
    /\ holder \in Workers \union {None}
    /\ cancelled \subseteq Workers
    /\ pc \in [Workers -> Labels]
    /\ mem \in [Workers -> Memories]
    /\ ans \in [Workers -> (Ids \X Responses) \union {None}]
    /\ call \in [Callers -> {NoCall} \union Loaded \union [st : {"saved"}, i : Ids]]
    /\ stop \in {NoCall} \union Loaded
    /\ told \subseteq Ids \X Responses
    /\ acted \subseteq Ids \X Responses

\* The answer a is in the journal.
Holds(a) == HasEntry(session, a[1]) /\ Entry(session, a[1]).receipt = a[2]

\* Every answer that was told, acted on or resumed from is in the journal.
AnswersInv ==
    /\ \A a \in told \union acted : Holds(a)
    /\ \A w \in Workers : ans[w] # None => Holds(ans[w])

\* A compare-and-set that wins finds the state it was computed from.
CallsInv ==
    /\ \A c \in Callers :
         /\ call[c].st = "loaded" =>
               /\ call[c].rev <= session.rev
               /\ HasEntry(session, call[c].i)
               /\ call[c].rev = session.rev => CanRecord(session, call[c].i)
         /\ call[c].st = "saved" => Holds(<<call[c].i, AnswerOf[c]>>)
    /\ \A w \in Workers : call[w] # NoCall => pc[w] = "waiting"
    /\ stop # NoCall =>
         stop.rev <= session.rev /\ (stop.rev = session.rev => session.active # None)

\* A run whose memory is of the current revision resumed an interaction that was
\* not abandoned.
RunOk(w) ==
    /\ mem[w].rev <= session.rev
    /\ ans[w] # None => pc[w] \in {"read", "boot", "running", "replied"}
    /\ pc[w] \in {"resuming", "read"} => mem[w].cp # None /\ mem[w].cp.ask
    /\ pc[w] \in {"read", "replied"} => ans[w] # None
    /\ pc[w] = "read" => ans[w][1] = mem[w].cp.id
    /\ /\ pc[w] \in {"boot", "replied"} \/ (pc[w] = "running" /\ ~mem[w].late)
       /\ ans[w] # None /\ mem[w].rev = session.rev
       => Entry(session, ans[w][1]).app # Stopped

\* The same of every run.
RunsInv == \A w \in Workers : RunOk(w)

\* The session state by itself.
Good(S) == S \in Sessions /\ Bound(S) /\ Named(S)

\* The inductive invariant.
IInv == Types /\ Good(session) /\ AnswersInv /\ CallsInv /\ RunsInv

(***************************************************************************)
(* The operations of the journal                                           *)
(***************************************************************************)

\* What a session state is made of.
LEMMA SessionFields ==
    ASSUME NEW S \in Sessions
    PROVE  /\ S.rev \in 0 .. MaxRev /\ S.cp \in Checkpoints \union {None}
           /\ S.dom \in Workers \union {None} /\ S.active \in Ids \union {None}
           /\ S.entries \in Journals
           /\ DOMAIN S.entries \subseteq Ids
           /\ S.entries \in [DOMAIN S.entries -> Entries]
           /\ \A i \in DOMAIN S.entries :
                 /\ S.entries[i] \in Entries
                 /\ S.entries[i].receipt \in Responses \union {None, Stopped}
                 /\ S.entries[i].app \in Ids \union {None, Stopped}
<1>1. S.entries \in Journals
  BY DEF Sessions
<1>2. PICK D \in SUBSET Ids : S.entries \in [D -> Entries]
  BY <1>1 DEF Journals
<1>3. \A i \in DOMAIN S.entries :
         /\ S.entries[i] \in Entries
         /\ S.entries[i].receipt \in Responses \union {None, Stopped}
         /\ S.entries[i].app \in Ids \union {None, Stopped}
  BY <1>2 DEF Entries
<1>4. QED BY <1>1, <1>2, <1>3 DEF Sessions

\* Revisions are natural numbers up to the bound.
LEMMA RevOf ==
    ASSUME NamesFit, NEW S \in Sessions
    PROVE  S.rev \in 0 .. MaxRev /\ S.rev \in Int
<1>1. S.rev \in 0 .. MaxRev
  BY DEF Sessions
<1>2. QED BY <1>1, SMT DEF NamesFit

\* So are the ones a run remembers.
LEMMA MemRevOf ==
    ASSUME NamesFit, Types, NEW w \in Workers
    PROVE  mem[w].rev \in 0 .. MaxRev /\ mem[w].rev \in Int
<1>1. mem[w] \in Memories
  BY DEF Types
<1>2. mem[w].rev \in 0 .. MaxRev
  BY <1>1 DEF Memories
<1>3. QED BY <1>2, SMT DEF NamesFit

\* A function from names to entries is a journal.
LEMMA JournalOf ==
    ASSUME NEW D \in SUBSET Ids, NEW f \in [D -> Entries]
    PROVE  f \in Journals
BY DEF Journals

\* save_if_revision changes the revision only.
LEMMA WrittenFields ==
    ASSUME NamesFit, NEW S \in Sessions, S.rev < MaxRev
    PROVE  /\ Written(S) \in Sessions /\ Written(S).rev = S.rev + 1
           /\ Written(S).cp = S.cp /\ Written(S).dom = S.dom
           /\ Written(S).active = S.active /\ Written(S).entries = S.entries
BY SMT DEF Written, Sessions, NamesFit

\* record_interaction_receipt writes one receipt where there was none.
LEMMA RecordedFields ==
    ASSUME NamesFit, NEW S, Good(S), NEW i, CanRecord(S, i), NEW r \in Responses \union {Stopped}
    PROVE  LET T == Recorded(S, i, r) IN
           /\ T \in Sessions /\ T.rev = S.rev /\ T.cp = S.cp /\ T.dom = S.dom
           /\ T.active = S.active /\ DOMAIN T.entries = DOMAIN S.entries
           /\ T.entries[i].receipt = r
           /\ \A j \in DOMAIN S.entries :
                 /\ T.entries[j].app = S.entries[j].app
                 /\ j # i => T.entries[j] = S.entries[j]
<1> DEFINE e == [S.entries[i] EXCEPT !.receipt = r]
           f == [S.entries EXCEPT ![i] = e]
           T == Recorded(S, i, r)
<1>1. S \in Sessions /\ i \in DOMAIN S.entries
  BY DEF Good, CanRecord, HasEntry
<1>2. e \in Entries /\ e.receipt = r /\ e.app = S.entries[i].app
  BY <1>1, SessionFields DEF Entries
<1>3. /\ f \in [DOMAIN S.entries -> Entries] /\ f[i] = e
      /\ \A j \in DOMAIN S.entries : j # i => f[j] = S.entries[j]
  BY <1>1, <1>2, SessionFields
<1>4. f \in Journals
  BY <1>1, <1>3, SessionFields, JournalOf
<1> HIDE DEF e
<1>5. T = [S EXCEPT !.entries = f]
  BY <1>1 DEF Recorded, e
<1>6. /\ T \in Sessions /\ T.rev = S.rev /\ T.cp = S.cp /\ T.dom = S.dom
      /\ T.active = S.active /\ T.entries = f
  <2> HIDE DEF T, f
  <2>1. QED BY <1>1, <1>4, <1>5 DEF Sessions
<1>7. QED
  <2> HIDE DEF f
  <2>1. DOMAIN f = DOMAIN S.entries
    BY <1>3
  <2>2. QED BY <1>2, <1>3, <1>6, <2>1

\* mark_interaction_applied marks one entry, and no interaction is active.
LEMMA AppliedFields ==
    ASSUME NamesFit, NEW S, Good(S), NEW i, CanApply(S, i), i # None, NEW by \in Ids \union {Stopped}
    PROVE  LET T == Applied(S, i, by) IN
           /\ T \in Sessions /\ T.rev = S.rev /\ T.cp = S.cp /\ T.dom = S.dom
           /\ T.active = None /\ DOMAIN T.entries = DOMAIN S.entries
           /\ T.entries[i].app = by
           /\ \A j \in DOMAIN S.entries :
                 /\ T.entries[j].receipt = S.entries[j].receipt
                 /\ j # i => T.entries[j] = S.entries[j]
<1> DEFINE e == [S.entries[i] EXCEPT !.app = by]
           f == [S.entries EXCEPT ![i] = e]
           T == Applied(S, i, by)
<1>1. S \in Sessions /\ i \in DOMAIN S.entries
  BY DEF Good, Bound, CanApply
<1>2. e \in Entries /\ e.app = by /\ e.receipt = S.entries[i].receipt
  BY <1>1, SessionFields DEF Entries
<1>3. /\ f \in [DOMAIN S.entries -> Entries] /\ f[i] = e
      /\ \A j \in DOMAIN S.entries : j # i => f[j] = S.entries[j]
  BY <1>1, <1>2, SessionFields
<1>4. f \in Journals
  BY <1>1, <1>3, SessionFields, JournalOf
<1> HIDE DEF e
<1>5. T = [S EXCEPT !.entries = f, !.active = None]
  BY <1>1 DEF Applied, e
<1>6. /\ T \in Sessions /\ T.rev = S.rev /\ T.cp = S.cp /\ T.dom = S.dom
      /\ T.active = None /\ T.entries = f
  <2> HIDE DEF T, f
  <2>1. QED BY <1>1, <1>4, <1>5 DEF Sessions
<1>7. QED
  <2> HIDE DEF f
  <2>1. DOMAIN f = DOMAIN S.entries
    BY <1>3
  <2>2. QED BY <1>2, <1>3, <1>6, <2>1

\* Once the current checkpoint's interaction is applied, all are, and have receipts.
Settled(S, T) ==
    /\ T \in Sessions /\ T.rev = S.rev /\ T.cp = S.cp /\ T.dom = S.dom /\ T.active = None
    /\ DOMAIN T.entries = DOMAIN S.entries
    /\ \A i \in DOMAIN S.entries :
          T.entries[i].app # None /\ T.entries[i].receipt = S.entries[i].receipt
          /\ T.entries[i].receipt # None

\* apply_checkpoint marks the answered interaction applied and frees the journal.
LEMMA ApplyCheckpointSettles ==
    ASSUME NamesFit, NEW S, Good(S), CheckpointApplies(S),
           NEW by, S.cp # None => by \in Ids \union {Stopped}
    PROVE  Settled(S, ApplyCheckpoint(S, by))
<1>0. S \in Sessions
  BY DEF Good
<1>1. CASE S.cp # None /\ S.cp.ask
  <2>1. S.active # None /\ S.cp.id = S.active /\ CanApply(S, S.cp.id)
    BY <1>1 DEF CheckpointApplies, Good, Bound
  <2> DEFINE i == S.cp.id
             T == Applied(S, i, by)
  <2>2. /\ T \in Sessions /\ T.rev = S.rev /\ T.cp = S.cp /\ T.dom = S.dom
        /\ T.active = None /\ DOMAIN T.entries = DOMAIN S.entries
        /\ T.entries[i].app = by
        /\ \A j \in DOMAIN S.entries :
              /\ T.entries[j].receipt = S.entries[j].receipt
              /\ j # i => T.entries[j] = S.entries[j]
    BY <1>1, <2>1, AppliedFields, SMT
  <2>3. by # None
    BY <1>1 DEF NamesFit
  <2>4. ApplyCheckpoint(S, by) = T
    BY <1>1 DEF ApplyCheckpoint
  <2> HIDE DEF T
  <2>5. \A j \in DOMAIN S.entries : T.entries[j].app # None /\ S.entries[j].receipt # None
    BY <2>1, <2>2, <2>3, SMT DEF Good, Bound, CanApply, Entry
  <2>6. QED BY <2>2, <2>4, <2>5 DEF Settled
<1>2. CASE ~(S.cp # None /\ S.cp.ask)
  <2>1. S.active = None /\ ApplyCheckpoint(S, by) = S
    BY <1>2 DEF Good, Bound, ApplyCheckpoint
  <2>2. \A j \in DOMAIN S.entries : S.entries[j].app # None /\ S.entries[j].receipt # None
    BY <1>0, <2>1, SessionFields DEF Good, Bound, NamesFit
  <2>3. QED BY <1>0, <2>1, <2>2 DEF Settled
<1>3. QED BY <1>1, <1>2

(***************************************************************************)
(* The writes                                                              *)
(***************************************************************************)

\* A write of the journal: from a good state to the next good state.
Writes(S, T) == Good(T) /\ T.rev = S.rev + 1 /\ Keeps(S, T)

\* A receipt is written.
LEMMA RecordedWrites ==
    ASSUME NamesFit, NEW S, Good(S), S.rev < MaxRev,
           NEW i, CanRecord(S, i), NEW r \in Responses \union {Stopped}
    PROVE  LET T == Written(Recorded(S, i, r)) IN
           Writes(S, T) /\ HasEntry(T, i) /\ Entry(T, i).receipt = r
<1> DEFINE R == Recorded(S, i, r)
           T == Written(R)
<1>1. /\ R \in Sessions /\ R.rev = S.rev /\ R.cp = S.cp /\ R.dom = S.dom
      /\ R.active = S.active /\ DOMAIN R.entries = DOMAIN S.entries
      /\ R.entries[i].receipt = r
      /\ \A j \in DOMAIN S.entries :
            /\ R.entries[j].app = S.entries[j].app
            /\ j # i => R.entries[j] = S.entries[j]
  BY RecordedFields, SMT
<1> HIDE DEF R
<1>2. /\ T \in Sessions /\ T.rev = S.rev + 1 /\ T.cp = S.cp /\ T.active = S.active
      /\ T.entries = R.entries
  BY <1>1, WrittenFields
<1> HIDE DEF T
<1>3. S \in Sessions /\ r # None /\ i \in DOMAIN S.entries /\ S.entries[i].receipt = None
  BY DEF Good, NamesFit, CanRecord, HasEntry, Entry
<1>4. Bound(T)
  BY <1>1, <1>2, <1>3, SMT DEF Good, Bound
<1>5. Named(T)
  <2>1. ASSUME NEW j \in DOMAIN S.entries PROVE j[2] < S.rev + 1
    <3>1. j[2] < S.rev /\ j \in Ids /\ S.rev \in 0 .. MaxRev
      BY <1>3, SessionFields DEF Good, Named
    <3>2. j[2] \in Int /\ S.rev \in Int
      BY <3>1, SMT DEF Ids
    <3>3. QED BY <3>1, <3>2, SMT
  <2>2. QED BY <1>1, <1>2, <2>1 DEF Named
<1>6. Keeps(S, T)
  BY <1>1, <1>2, <1>3 DEF Keeps
<1>7. QED
  BY <1>1, <1>2, <1>3, <1>4, <1>5, <1>6 DEF Writes, Good, HasEntry, Entry, T, R

\* The checkpoint is dropped after its interaction is applied.
LEMMA DroppedWrites ==
    ASSUME NamesFit, NEW S, Good(S), S.rev < MaxRev, NEW T, Settled(S, T)
    PROVE  Writes(S, Written(NoCheckpoint(T)))
<1> DEFINE N == NoCheckpoint(T)
           W == Written(N)
<1>1. /\ N \in Sessions /\ N.rev = S.rev /\ N.cp = None /\ N.active = None
      /\ N.entries = T.entries
  BY DEF NoCheckpoint, Settled, Sessions
<1> HIDE DEF N
<1>2. /\ W \in Sessions /\ W.rev = S.rev + 1 /\ W.cp = None /\ W.active = None
      /\ W.entries = T.entries
  BY <1>1, WrittenFields
<1> HIDE DEF W
<1>3. S \in Sessions
  BY DEF Good
<1>4. None \notin DOMAIN S.entries
  BY <1>3, SessionFields DEF NamesFit
<1>5. Bound(W)
  BY <1>2, <1>4 DEF Bound, Settled
<1>6. Named(W)
  <2>1. ASSUME NEW j \in DOMAIN S.entries PROVE j[2] < S.rev + 1
    <3>1. j[2] < S.rev /\ j \in Ids /\ S.rev \in 0 .. MaxRev
      BY <1>3, SessionFields DEF Good, Named
    <3>2. j[2] \in Int /\ S.rev \in Int
      BY <3>1, SMT DEF Ids
    <3>3. QED BY <3>1, <3>2, SMT
  <2>2. QED BY <1>2, <2>1 DEF Named, Settled
<1>7. Keeps(S, W)
  BY <1>2 DEF Keeps, Settled
<1>8. QED
  BY <1>2, <1>5, <1>6, <1>7 DEF Writes, Good, W, N

\* cancel_pending, or the reconciliation of a cancelled attempt.
LEMMA AbandonedWrites ==
    ASSUME NamesFit, NEW S, Good(S), S.rev < MaxRev, S.cp # None
    PROVE  Writes(S, Written(Abandoned(S)))
<1> DEFINE i == S.cp.id
           A == IF S.cp.ask /\ Entry(S, i).receipt = None THEN Recorded(S, i, Stopped) ELSE S
<1>1. Abandoned(S) = NoCheckpoint(ApplyCheckpoint(A, Stopped))
  BY DEF Abandoned
<1>2. CASE S.cp.ask /\ Entry(S, i).receipt = None
  <2>1. CanRecord(S, i) /\ i # None
    BY <1>2 DEF CanRecord, HasEntry, Good, Bound
  <2>2. /\ A \in Sessions /\ A.rev = S.rev /\ A.cp = S.cp /\ A.dom = S.dom
        /\ A.active = S.active /\ DOMAIN A.entries = DOMAIN S.entries
        /\ A.entries[i].receipt = Stopped
        /\ \A j \in DOMAIN S.entries :
              /\ A.entries[j].app = S.entries[j].app
              /\ j # i => A.entries[j] = S.entries[j]
    BY <1>2, <2>1, RecordedFields, SMT
  <2> HIDE DEF A
  <2>3. Good(A)
    <3>1. Bound(A)
      BY <2>1, <2>2, SMT DEF Good, Bound, NamesFit
    <3>2. Named(A)
      BY <2>2 DEF Good, Named
    <3>3. QED BY <2>2, <3>1, <3>2 DEF Good
  <2>4. CheckpointApplies(A)
    BY <1>2, <2>1, <2>2 DEF CheckpointApplies, CanApply, CanRecord, Entry, NamesFit
  <2>5. Settled(A, ApplyCheckpoint(A, Stopped))
    BY <2>3, <2>4, ApplyCheckpointSettles
  <2>6. Writes(A, Written(Abandoned(S)))
    BY <1>1, <2>2, <2>3, <2>5, DroppedWrites
  <2>7. Keeps(S, A)
    BY <1>2, <2>2 DEF Keeps, Entry
  <2>8. QED BY <2>2, <2>6, <2>7 DEF Writes, Keeps
<1>3. CASE ~(S.cp.ask /\ Entry(S, i).receipt = None)
  <2>1. A = S
    BY <1>3
  <2>2. CheckpointApplies(S)
    BY <1>3 DEF CheckpointApplies, CanApply, Good, Bound
  <2>3. Settled(S, ApplyCheckpoint(S, Stopped))
    BY <2>2, ApplyCheckpointSettles
  <2> HIDE DEF A
  <2>4. QED BY <1>1, <2>1, <2>3, DroppedWrites
<1>4. QED BY <1>2, <1>3

\* A checkpoint that asks replaces the current one, whose interaction it applies.
LEMMA AskWrites ==
    ASSUME NamesFit, NEW S, Good(S), S.rev < MaxRev, CheckpointApplies(S),
           NEW w \in Workers, NEW i, i = <<w, S.rev>>
    PROVE  Writes(S, Written([Registered(ApplyCheckpoint(S, i), i) EXCEPT
                                !.cp = [id |-> i, ask |-> TRUE], !.dom = w]))
<1> DEFINE A == ApplyCheckpoint(S, i)
           c == [id |-> i, ask |-> TRUE]
           e == [receipt |-> None, app |-> None]
           D == DOMAIN A.entries \union {i}
           f == [j \in D |-> IF j = i THEN e ELSE A.entries[j]]
           P == [Registered(A, i) EXCEPT !.cp = c, !.dom = w]
           T == Written(P)
<1>0. S \in Sessions /\ i \in Ids /\ i # None /\ i[2] = S.rev /\ S.rev \in Nat
  <2>1. S.rev \in 0 .. MaxRev
    BY SessionFields DEF Good
  <2>2. i \in Ids /\ i[2] = S.rev
    BY <2>1 DEF Ids
  <2>3. QED BY <2>1, <2>2, SMT DEF Good, NamesFit
<1>1. Settled(S, A)
  BY <1>0, ApplyCheckpointSettles
<1> HIDE DEF A
<1>2. i \notin DOMAIN S.entries
  BY <1>0, SMT DEF Good, Named
<1>3. f \in [D -> Entries] /\ D \in SUBSET Ids
  <2>1. e \in Entries
    BY DEF Entries
  <2>2. A \in Sessions
    BY <1>1 DEF Settled
  <2>3. A.entries \in [DOMAIN A.entries -> Entries] /\ DOMAIN A.entries \subseteq Ids
    BY <2>2, SessionFields
  <2> HIDE DEF e
  <2>4. QED BY <1>0, <2>1, <2>3
<1>4. f \in Journals
  <2> HIDE DEF f, D
  <2>1. QED BY <1>3, JournalOf
<1>5. c \in Checkpoints /\ c.id = i /\ c.ask /\ c # None
  <2>1. c \in Checkpoints
    BY <1>0 DEF Checkpoints
  <2>2. c.id = i /\ c.ask
    OBVIOUS
  <2> HIDE DEF c
  <2>3. c # None
    BY <2>1 DEF NamesFit
  <2>4. QED BY <2>1, <2>2, <2>3
<1>6. Registered(A, i) = [A EXCEPT !.active = i, !.entries = f]
  BY DEF Registered
<1>7. /\ P \in Sessions /\ P.rev = S.rev /\ P.cp = c /\ P.active = i /\ P.entries = f
  <2> HIDE DEF f, c
  <2>1. QED BY <1>0, <1>1, <1>4, <1>5, <1>6 DEF Settled, Sessions
<1> HIDE DEF P
<1>8. T \in Sessions /\ T.rev = S.rev + 1 /\ T.cp = c /\ T.active = i /\ T.entries = f
  BY <1>7, WrittenFields
<1> HIDE DEF T, c
<1>9. /\ DOMAIN f = DOMAIN S.entries \union {i} /\ f[i].app = None
      /\ \A j \in DOMAIN S.entries : f[j] = A.entries[j]
  BY <1>1, <1>2 DEF Settled
<1> HIDE DEF f
<1>10. Bound(T)
  BY <1>0, <1>1, <1>2, <1>5, <1>8, <1>9, SMT DEF Bound, Settled
<1>11. Named(T)
  <2>1. ASSUME NEW j \in DOMAIN S.entries PROVE j[2] < S.rev + 1
    <3>1. j[2] < S.rev /\ j \in Ids
      BY <1>0, SessionFields DEF Good, Named
    <3>2. j[2] \in Int
      BY <3>1, SMT DEF Ids
    <3>3. QED BY <1>0, <3>1, <3>2, SMT
  <2>2. i[2] < S.rev + 1
    BY <1>0, SMT
  <2>3. QED BY <1>8, <1>9, <2>1, <2>2 DEF Named
<1>12. Keeps(S, T)
  BY <1>1, <1>8, <1>9 DEF Keeps, Settled
<1>13. QED BY <1>8, <1>10, <1>11, <1>12 DEF Writes, Good, T, P, A, c

\* The same for a checkpoint that asks nothing.
LEMMA PlainWrites ==
    ASSUME NamesFit, NEW S, Good(S), S.rev < MaxRev, CheckpointApplies(S),
           NEW w \in Workers, NEW i, i = <<w, S.rev>>
    PROVE  Writes(S, Written([ApplyCheckpoint(S, i) EXCEPT
                                !.cp = [id |-> i, ask |-> FALSE], !.dom = w]))
<1> DEFINE A == ApplyCheckpoint(S, i)
           c == [id |-> i, ask |-> FALSE]
           P == [A EXCEPT !.cp = c, !.dom = w]
           T == Written(P)
<1>0. S \in Sessions /\ i \in Ids
  <2>1. S.rev \in 0 .. MaxRev
    BY SessionFields DEF Good
  <2>2. QED BY <2>1 DEF Ids, Good
<1>1. Settled(S, A)
  BY <1>0, ApplyCheckpointSettles
<1> HIDE DEF A
<1>2. c \in Checkpoints /\ ~c.ask
  BY <1>0 DEF Checkpoints
<1>3. /\ P \in Sessions /\ P.rev = S.rev /\ P.cp = c /\ P.active = None /\ P.entries = A.entries
  <2> HIDE DEF c
  <2>1. QED BY <1>0, <1>1, <1>2 DEF Settled, Sessions
<1> HIDE DEF P
<1>4. T \in Sessions /\ T.rev = S.rev + 1 /\ T.cp = c /\ T.active = None /\ T.entries = A.entries
  BY <1>3, WrittenFields
<1> HIDE DEF T, c
<1>5. None \notin DOMAIN S.entries
  BY <1>0, SessionFields DEF NamesFit
<1>6. Bound(T)
  BY <1>1, <1>2, <1>4, <1>5 DEF Bound, Settled
<1>7. Named(T)
  <2>1. ASSUME NEW j \in DOMAIN S.entries PROVE j[2] < S.rev + 1
    <3>1. j[2] < S.rev /\ j \in Ids /\ S.rev \in 0 .. MaxRev
      BY <1>0, SessionFields DEF Good, Named
    <3>2. j[2] \in Int /\ S.rev \in Int
      BY <3>1, SMT DEF Ids
    <3>3. QED BY <3>1, <3>2, SMT
  <2>2. QED BY <1>1, <1>4, <2>1 DEF Named, Settled
<1>8. Keeps(S, T)
  BY <1>1, <1>4 DEF Keeps, Settled
<1>9. QED BY <1>4, <1>6, <1>7, <1>8 DEF Writes, Good, T, P, A, c
\* reconcile_cancelled_execution_checkpoint.
LEMMA ReconciledWrites ==
    ASSUME NamesFit, Good(session), Orphaned => Room
    PROVE  Reconciled = session \/ Writes(session, Reconciled)
BY AbandonedWrites DEF Reconciled, Orphaned, Room

\* Every step leaves the session alone or writes the next good state.
LEMMA SessionStep ==
    ASSUME NamesFit, IInv, Step
    PROVE  session' = session \/ Writes(session, session')
<1> USE DEF IInv
<1>1. ASSUME NEW w \in Workers,
             \/ Acquire(w) \/ ReadRevision(w) \/ Verify(w) \/ Reacquire(w) \/ Crash(w)
             \/ RequestCancel(w)
      PROVE  session' = session
  BY <1>1 DEF Acquire, ReadRevision, Verify, Reacquire, Crash, RequestCancel
<1>2. ASSUME NEW w \in Workers, StartFresh(w) \/ ResumeLoad(w) \/ Bootstrap(w)
      PROVE  session' = session \/ Writes(session, session')
  BY <1>2, ReconciledWrites DEF StartFresh, ResumeLoad, Bootstrap
<1>3. ASSUME NEW w \in Workers, ResumeReceipt(w)
      PROVE  session' = session \/ Writes(session, session')
  <2>1. PICK b \in {None, AnswerOf[w]} :
          /\ Orphaned \/ Brings(w, b) => Room
          /\ \/ session' = session
             \/ session' = Reconciled
             \/ Brings(w, b) /\ session' = Written(Recorded(session, mem[w].cp.id, b))
    BY <1>3 DEF ResumeReceipt
  <2>2. b # None => b \in Responses
    BY DEF NamesFit
  <2>3. CASE Brings(w, b) /\ session' = Written(Recorded(session, mem[w].cp.id, b))
    BY <2>1, <2>2, <2>3, RecordedWrites DEF Room, Brings
  <2>4. QED BY <2>1, <2>3, ReconciledWrites, SMT
<1>4. ASSUME NEW w \in Workers, Suspend(w) \/ SuspendPlain(w)
      PROVE  session' = session \/ Writes(session, session')
  <2> DEFINE i == <<w, session.rev>>
             asks == Written([Registered(ApplyCheckpoint(session, i), i) EXCEPT
                                !.cp = [id |-> i, ask |-> TRUE], !.dom = w])
             asksNot == Written([ApplyCheckpoint(session, i) EXCEPT
                                   !.cp = [id |-> i, ask |-> FALSE], !.dom = w])
  <2>1. CASE Fenced(w) /\ CheckpointApplies(session)
    <3>1. session.rev = mem[w].rev /\ session.rev < MaxRev
      BY <2>1 DEF Fenced, Room
    <3>2. Writes(session, asks)
      BY <2>1, <3>1, AskWrites
    <3>3. Writes(session, asksNot)
      BY <2>1, <3>1, PlainWrites
    <3>4. session' = asks \/ session' = asksNot
      BY <1>4, <2>1, <3>1 DEF Suspend, SuspendPlain
    <3> HIDE DEF asks, asksNot
    <3>5. QED BY <3>2, <3>3, <3>4
  <2>2. CASE ~(Fenced(w) /\ CheckpointApplies(session))
    BY <1>4, <2>2 DEF Suspend, SuspendPlain
  <2>3. QED BY <2>1, <2>2
<1>5. ASSUME NEW w \in Workers, Complete(w)
      PROVE  session' = session \/ Writes(session, session')
  <2> DEFINE by == IF session.cp = None THEN None ELSE session.cp.id
  <2>1. session.cp # None => by \in Ids
    BY SessionFields DEF Good, Checkpoints
  <2>2. CASE /\ CheckpointApplies(session)
             /\ session' = Written(NoCheckpoint(ApplyCheckpoint(session, by)))
    <3> HIDE DEF by
    <3>1. Settled(session, ApplyCheckpoint(session, by))
      BY <2>1, <2>2, ApplyCheckpointSettles
    <3>2. session.rev < MaxRev
      BY <1>5 DEF Complete, Room
    <3>3. QED BY <2>2, <3>1, <3>2, DroppedWrites
  <2>3. CASE session' = session \/ session' = Reconciled
    BY <1>5, <2>3, ReconciledWrites DEF Complete
  <2>4. QED BY <1>5, <2>2, <2>3 DEF Complete
<1>6. ASSUME NEW c \in Callers, RecordLoad(c) \/ RecordVerify(c)
      PROVE  session' = session \/ Writes(session, session')
  <2>1. (Orphaned => Room) /\ session' \in {session, Reconciled}
    BY <1>6 DEF RecordLoad, RecordVerify, Returns, Raises
  <2>2. QED BY <2>1, ReconciledWrites
<1>7. ASSUME NEW c \in Callers, RecordSave(c)
      PROVE  session' = session \/ Writes(session, session')
  <2>1. CASE session' \in {session, Reconciled}
    BY <1>7, <2>1, ReconciledWrites DEF RecordSave
  <2>2. CASE session.rev = call[c].rev /\ session' = Written(Recorded(session, call[c].i, AnswerOf[c]))
    <3>1. CanRecord(session, call[c].i) /\ session.rev < MaxRev
      BY <1>7, <2>2 DEF RecordSave, CallsInv, Room
    <3>2. AnswerOf[c] \in Responses
      BY DEF NamesFit, Callers
    <3>3. QED BY <2>2, <3>1, <3>2, RecordedWrites
  <2>3. QED BY <1>7, <2>1, <2>2 DEF RecordSave, Returns, Raises
<1>8. CASE Expire \/ CancelLoad
  BY <1>8 DEF Expire, CancelLoad
<1>9. CASE CancelSave
  <2>1. session.rev = stop.rev => session.cp # None
    BY <1>9 DEF CancelSave, CallsInv, Good, Bound
  <2>2. QED BY <1>9, <2>1, AbandonedWrites DEF CancelSave, Room
<1>10. QED
  BY <1>1, <1>2, <1>3, <1>4, <1>5, <1>6, <1>7, <1>8, <1>9 DEF Step

(***************************************************************************)
(* The processes                                                           *)
(***************************************************************************)

\* The entries, and the receipts in them, outlive every step.
LEMMA HoldsOn ==
    ASSUME NamesFit, session \in Sessions, session' = session \/ Writes(session, session'),
           NEW a, a[2] \in Responses, Holds(a)
    PROVE  Holds(a)'
<1>1. Entry(session, a[1]).receipt # None
  BY DEF Holds, NamesFit
<1>2. QED BY <1>1 DEF Holds, HasEntry, Entry, Writes, Keeps

\* Answers are told, acted on and read only when they are in the journal.
LEMMA AnswersKept ==
    ASSUME NamesFit, IInv, session' = session \/ Writes(session, session'),
           \A a \in told' \union acted' :
              a \in told \union acted \/ Holds(a)' \/ \E w \in Workers : a = ans[w] /\ ans[w] # None,
           \A w \in Workers : ans'[w] \in {ans[w], None} \/ Holds(ans[w])'
    PROVE  AnswersInv'
<1>1. ASSUME NEW a, a \in told \union acted \/ \E w \in Workers : a = ans[w] /\ ans[w] # None
      PROVE  Holds(a)'
  <2>1. Holds(a) /\ a[2] \in Responses
    BY <1>1 DEF IInv, AnswersInv, Types
  <2>2. QED BY <2>1, HoldsOn DEF IInv, Types
<1>2. \A a \in told' \union acted' : Holds(a)'
  BY <1>1
<1>3. ASSUME NEW w \in Workers, ans'[w] # None PROVE Holds(ans[w])'
  <2>1. CASE ans'[w] = ans[w]
    <3>1. PICK a : a = ans[w]
      OBVIOUS
    <3>2. Holds(a)'
      BY <1>1, <1>3, <2>1, <3>1
    <3>3. QED BY <2>1, <3>1, <3>2 DEF Holds
  <2>2. QED BY <1>3, <2>1
<1>4. QED BY <1>2, <1>3 DEF AnswersInv

\* A run that does nothing stays as it is fenced.
LEMMA RunSame ==
    ASSUME NamesFit, IInv, session' = session \/ Writes(session, session'), kind' = kind,
           NEW w \in Workers, pc'[w] = pc[w], mem'[w] = mem[w], ans'[w] = ans[w]
    PROVE  RunOk(w)'
<1>0. RunOk(w) /\ Types /\ session \in Sessions
  BY DEF IInv, RunsInv, Good
<1>1. RunOk(w) /\ session.rev \in Int /\ mem[w].rev \in Int
  BY <1>0, RevOf, MemRevOf
<1>2. CASE session' = session
  BY <1>1, <1>2 DEF RunOk
<1>3. CASE session'.rev = session.rev + 1
  BY <1>1, <1>3, SMT DEF RunOk
<1>4. QED BY <1>2, <1>3 DEF Writes

\* A run that is over.
LEMMA RunOver ==
    ASSUME NamesFit, IInv, session' = session \/ Writes(session, session'),
           NEW w \in Workers, pc'[w] = "idle", mem'[w] = Mem0, ans'[w] = None
    PROVE  RunOk(w)'
<1>1. session'.rev \in 0 .. MaxRev
  BY SessionFields DEF IInv, Good, Writes
<1>2. QED BY <1>1, SMT DEF RunOk, NamesFit

\* One caller's record_receipt, and a cancel_pending, over a write of somebody else.
CallOk(c) ==
    /\ call[c].st = "loaded" =>
          /\ call[c].rev <= session.rev
          /\ HasEntry(session, call[c].i)
          /\ call[c].rev = session.rev => CanRecord(session, call[c].i)
    /\ call[c].st = "saved" => Holds(<<call[c].i, AnswerOf[c]>>)

\* A call that stays where it is, or returns, stays good over any write.
LEMMA CallSame ==
    ASSUME NamesFit, IInv, session' = session \/ Writes(session, session'),
           NEW c \in Callers, call'[c] \in {call[c], NoCall}
    PROVE  CallOk(c)'
<1>0. CASE call'[c] = NoCall
  BY <1>0, SMT DEF CallOk, NoCall
<1>1. CASE call'[c] = call[c]
  <2>1. session.rev \in Int /\ AnswerOf[c] \in Responses
    BY SessionFields, SMT DEF IInv, Good, NamesFit, Callers
  <2>2. CASE call[c].st = "loaded"
    <3>1. /\ call[c].rev \in Int /\ call[c].rev <= session.rev
          /\ HasEntry(session, call[c].i)
          /\ call[c].rev = session.rev => CanRecord(session, call[c].i)
      <4>1. call[c] \in {NoCall} \union Loaded \union [st : {"saved"}, i : Ids]
        BY DEF IInv, Types
      <4>2. call[c] \in Loaded
        BY <2>2, <4>1, SMT DEF Loaded, NoCall
      <4>3. call[c].rev \in Int
        BY <4>2, SMT DEF Loaded
      <4>4. QED BY <2>2, <4>3 DEF IInv, CallsInv
    <3>2. CASE session' = session
      BY <1>1, <2>2, <3>1, <3>2 DEF CallOk
    <3>3. CASE Writes(session, session')
      BY <1>1, <2>1, <2>2, <3>1, <3>3, SMT DEF CallOk, Writes, Keeps, HasEntry
    <3>4. QED BY <3>2, <3>3
  <2>3. CASE call[c].st = "saved"
    <3>1. Holds(<<call[c].i, AnswerOf[c]>>)
      BY <2>3 DEF IInv, CallsInv
    <3>2. Holds(<<call[c].i, AnswerOf[c]>>)'
      BY <1>1, <2>1, <3>1, HoldsOn DEF IInv, Types, Holds
    <3>3. QED BY <1>1, <2>3, <3>2 DEF CallOk
  <2>4. QED BY <1>1, <2>2, <2>3 DEF CallOk
<1>2. QED BY <1>0, <1>1
\* Everything but the session itself.
Rest == Types /\ AnswersInv /\ CallsInv /\ RunsInv

\* The runs other than w stay as they are.
Others(w) ==
    \A v \in Workers \ {w} : pc'[v] = pc[v] /\ mem'[v] = mem[v] /\ ans'[v] = ans[v]

\* A cancel_pending in progress, over a write of somebody else.
LEMMA StopSame ==
    ASSUME NamesFit, IInv, session' = session \/ Writes(session, session'),
           stop' \in {stop, NoCall}, stop' # NoCall
    PROVE  stop'.rev <= session'.rev /\ (stop'.rev = session'.rev => session'.active # None)
<1>1. /\ stop' = stop /\ stop \in Loaded
      /\ stop.rev <= session.rev /\ (stop.rev = session.rev => session.active # None)
  BY DEF IInv, CallsInv, Types
<1>2. stop.rev \in Int /\ session.rev \in Int
  BY <1>1, SessionFields, SMT DEF IInv, Good, Loaded
<1>3. QED BY <1>1, <1>2, SMT DEF Writes

\* A step of the run w: what is left to show is about w alone.
LEMMA RunSteps ==
    ASSUME NamesFit, IInv, kind' = kind, session' = session \/ Writes(session, session'),
           NEW w \in Workers, Types', Others(w), RunOk(w)',
           \A c \in Callers : call'[c] \in {call[c], NoCall},
           call'[w] # NoCall => pc'[w] = "waiting",
           stop' \in {stop, NoCall},
           ans'[w] \in {ans[w], None} \/ Holds(ans[w])',
           \A a \in told' \union acted' :
              a \in told \union acted \/ Holds(a)' \/ (a = ans[w] /\ ans[w] # None)
    PROVE  Rest'
<1>1. RunsInv'
  BY RunSame DEF RunsInv, Others
<1>2. AnswersInv'
  BY AnswersKept DEF Others
<1>3. CallsInv'
  <2>1. \A c \in Callers : CallOk(c)'
    BY CallSame
  <2>2. \A v \in Workers : call'[v] # NoCall => pc'[v] = "waiting"
    BY DEF IInv, CallsInv, Others, Callers
  <2>3. QED BY <2>1, <2>2, StopSame DEF CallsInv, CallOk
<1>4. QED BY <1>1, <1>2, <1>3 DEF Rest

\* The run w ends, whatever else the step does to the session.
LEMMA RunEnds ==
    ASSUME NamesFit, IInv, kind' = kind, session' = session \/ Writes(session, session'),
           NEW w \in Workers,
           /\ pc' = [pc EXCEPT ![w] = "idle"]
           /\ mem' = [mem EXCEPT ![w] = Mem0]
           /\ ans' = [ans EXCEPT ![w] = None]
           /\ call' = [call EXCEPT ![w] = NoCall],
           holder' \in Workers \union {None}, cancelled' = cancelled, stop' = stop,
           told' = told, acted' = acted
    PROVE  Rest'
<1>0. Types /\ w \in Callers /\ session' \in Sessions
  BY DEF IInv, Callers, Good, Writes
<1>1. Types'
  BY <1>0, SMT DEF Types, Labels, NamesFit, Memories
<1>2. RunOk(w)'
  BY <1>0, RunOver DEF Types
<1>3. Others(w) /\ call'[w] = NoCall /\ \A c \in Callers : call'[c] \in {call[c], NoCall}
  BY <1>0 DEF Types, Others
<1>4. ans'[w] = None
  BY <1>0 DEF Types
<1>5. QED BY <1>1, <1>2, <1>3, <1>4, RunSteps
\* A run that is not waiting has no record_receipt of its callback in progress.
LEMMA NotCalling ==
    ASSUME IInv, NEW w \in Workers, pc[w] # "waiting"
    PROVE  call[w] = NoCall
BY DEF IInv, CallsInv

\* A run goes on to the label l with the memory m.
LEMMA RunGoesOn ==
    ASSUME NamesFit, IInv, kind' = kind, session' = session \/ Writes(session, session'),
           NEW w \in Workers, NEW l \in Labels \ {"waiting"}, pc[w] # "waiting",
           pc' = [pc EXCEPT ![w] = l], NEW m \in Memories, mem' = [mem EXCEPT ![w] = m],
           UNCHANGED <<holder, ans, call, cancelled, stop, told>>,
           acted' = acted \/ (acted' = acted \union {ans[w]} /\ ans[w] # None),
           RunOk(w)'
    PROVE  Rest'
<1>0. Types /\ w \in Callers /\ session' \in Sessions
  BY DEF IInv, Callers, Good, Writes
<1>2. Types'
  BY <1>0 DEF Types
<1>3. Others(w)
  BY <1>0 DEF Types, Others
<1>4. call'[w] = NoCall
  BY NotCalling
<1>5. QED BY <1>2, <1>3, <1>4, RunSteps

\* Taking the lease, and the starts of a run.
LEMMA StartsKeep ==
    ASSUME NamesFit, IInv, kind' = kind, session' = session \/ Writes(session, session'),
           NEW w \in Workers,
           \/ Acquire(w) \/ StartFresh(w) \/ ResumeLoad(w) \/ Bootstrap(w) \/ ReadRevision(w)
    PROVE  Rest'
<1> USE DEF Goto, At
<1>0. /\ Types /\ w \in Callers /\ RunOk(w) /\ w \in DOMAIN pc /\ w \in DOMAIN mem
      /\ holder \in Workers \union {None}
  BY DEF IInv, RunsInv, Types, Callers
<1>1. session' \in Sessions /\ Good(session')
  BY DEF IInv, Good, Writes
<1>2. session'.rev \in Int /\ session.rev \in Int /\ session'.rev <= session'.rev
  <2>1. session \in Sessions
    BY DEF IInv, Good
  <2>2. session'.rev \in Int /\ session.rev \in Int
    BY <1>1, <2>1, RevOf
  <2>3. QED BY <2>2, SMT
<1>3. CASE Acquire(w)
  <2>1. Types'
    BY <1>0, <1>3 DEF Acquire, Types, Labels
  <2>2. /\ session' = session /\ pc'[w] = "held" /\ mem' = mem /\ ans' = ans /\ pc[w] = "idle"
    BY <1>0, <1>3 DEF Acquire
  <2>3. RunOk(w)'
    BY <1>0, <2>2 DEF RunOk
  <2>4. Others(w) /\ call' = call /\ call[w] = NoCall
    BY <1>0, <1>3, <2>2, NotCalling DEF Acquire, Others, Types
  <2>5. QED BY <1>3, <2>1, <2>2, <2>3, <2>4, RunSteps DEF Acquire
<1>4. CASE (StartFresh(w) \/ ResumeLoad(w) \/ Bootstrap(w)) /\ Ended(w) /\ acted' = acted
  <2>1. holder' \in Workers \union {None}
    BY <1>0, <1>4 DEF Ended
  <2>2. QED BY <1>4, <2>1, RunEnds DEF StartFresh, ResumeLoad, Bootstrap, Ended
<1>5. ASSUME NEW l \in BOOLEAN
      PROVE  [rev |-> session'.rev, cp |-> session'.cp, late |-> l] \in Memories
  BY <1>1, SessionFields DEF Memories
<1>6. CASE StartFresh(w) /\ ~Ended(w)
  <2> DEFINE m == [rev |-> session'.rev, cp |-> session'.cp, late |-> FALSE]
  <2>1. /\ pc[w] = "held" /\ pc' = [pc EXCEPT ![w] = Booted]
        /\ mem' = [mem EXCEPT ![w] = m]
        /\ UNCHANGED <<holder, ans, call, cancelled, stop, told, acted>>
    BY <1>6 DEF StartFresh
  <2>2. m \in Memories /\ m.rev = session'.rev
    BY <1>5
  <2>3. Booted \in {"boot", "running"}
    BY DEF Booted
  <2> HIDE DEF m
  <2>4. pc'[w] \in {"boot", "running"} /\ mem'[w] = m /\ ans'[w] = None
    BY <1>0, <2>1, <2>3 DEF RunOk
  <2>5. RunOk(w)'
    BY <1>2, <2>2, <2>4 DEF RunOk
  <2>6. QED BY <2>1, <2>2, <2>3, <2>5, RunGoesOn DEF Labels
<1>7. CASE ResumeLoad(w) /\ ~Ended(w)
  <2> DEFINE m == [rev |-> session'.rev, cp |-> session'.cp, late |-> FALSE]
  <2>1. /\ pc[w] = "held" /\ pc' = [pc EXCEPT ![w] = "resuming"]
        /\ mem' = [mem EXCEPT ![w] = m]
        /\ session'.cp # None /\ session'.cp.ask
        /\ UNCHANGED <<holder, ans, call, cancelled, stop, told, acted>>
    BY <1>7 DEF ResumeLoad
  <2>2. m \in Memories /\ m.rev = session'.rev /\ m.cp = session'.cp
    BY <1>5
  <2> HIDE DEF m
  <2>3. pc'[w] = "resuming" /\ mem'[w] = m /\ ans'[w] = None
    BY <1>0, <2>1 DEF RunOk
  <2>4. RunOk(w)'
    BY <1>2, <2>1, <2>2, <2>3 DEF RunOk
  <2>5. QED BY <2>1, <2>2, <2>4, RunGoesOn DEF Labels
<1>8. CASE Bootstrap(w) /\ ~(Ended(w) /\ acted' = acted)
  <2> DEFINE l == (session'.cp = None)
             m == [rev |-> session'.rev, cp |-> session'.cp, late |-> l]
  <2>1. /\ pc[w] = "read" /\ pc' = [pc EXCEPT ![w] = Booted]
        /\ mem' = [mem EXCEPT ![w] = m]
        /\ DurabilityOnly => session'.cp # None
        /\ session'.cp \in {None, mem[w].cp}
        /\ acted' = acted \/ acted' = acted \union {ans[w]}
        /\ UNCHANGED <<holder, ans, call, cancelled, stop, told>>
    BY <1>8 DEF Bootstrap
  <2>2. /\ mem[w].cp # None /\ mem[w].cp.ask /\ ans[w] # None /\ ans[w][1] = mem[w].cp.id
    BY <1>0, <2>1 DEF RunOk
  <2>3. session'.cp # None => session'.active = ans[w][1] /\ session'.active # None
    BY <1>1, <2>1, <2>2 DEF Good, Bound
  <2>4. session'.cp # None => Entry(session', ans[w][1]).app # Stopped
    BY <1>1, <2>3 DEF Good, Bound, Entry, NamesFit
  <2>5. m \in Memories /\ m.rev = session'.rev /\ m.late = l
    <3>1. l \in BOOLEAN
      OBVIOUS
    <3> HIDE DEF l
    <3>2. QED BY <1>5, <3>1
  <2>6. \/ Booted = "boot" /\ session'.cp # None
        \/ Booted = "running" /\ (~l => session'.cp # None)
    BY <2>1 DEF Booted
  <2> HIDE DEF m, l
  <2>7. pc'[w] = Booted /\ mem'[w] = m /\ ans'[w] = ans[w]
    BY <1>0, <2>1
  <2>8. RunOk(w)'
    BY <1>2, <2>2, <2>4, <2>5, <2>6, <2>7 DEF RunOk
  <2>9. QED BY <2>1, <2>2, <2>5, <2>6, <2>8, RunGoesOn DEF Labels
<1>9. CASE ReadRevision(w)
  <2> DEFINE l == (session.rev # mem[w].rev)
             m == [rev |-> session.rev, cp |-> mem[w].cp, late |-> l]
  <2>1. /\ pc[w] = "boot" /\ pc' = [pc EXCEPT ![w] = "running"]
        /\ mem' = [mem EXCEPT ![w] = m]
        /\ acted' = acted \/ (acted' = acted \union {ans[w]} /\ ans[w] # None)
        /\ UNCHANGED <<session, holder, ans, call, cancelled, stop, told>>
    BY <1>0, <1>9 DEF ReadRevision
  <2>2. m \in Memories /\ m.rev = session.rev /\ m.late = l
    <3>1. l \in BOOLEAN
      OBVIOUS
    <3>2. mem[w].cp \in Checkpoints \union {None} /\ session.rev \in 0 .. MaxRev
      BY <1>0, SessionFields DEF Types, Memories
    <3> HIDE DEF l
    <3>3. QED BY <3>1, <3>2 DEF Memories
  <2>3. ~l /\ ans[w] # None => Entry(session, ans[w][1]).app # Stopped
    BY <1>0, <2>1 DEF RunOk
  <2> HIDE DEF m, l
  <2>4. pc'[w] = "running" /\ mem'[w] = m /\ ans'[w] = ans[w] /\ session' = session
    BY <1>0, <2>1
  <2>5. RunOk(w)'
    BY <1>2, <2>2, <2>3, <2>4 DEF RunOk
  <2>6. QED BY <2>1, <2>2, <2>5, RunGoesOn DEF Labels
<1>10. QED BY <1>3, <1>4, <1>6, <1>7, <1>8, <1>9 DEF StartFresh, ResumeLoad
\* Reading the receipt to resume with, or bringing it.
LEMMA ReceiptKeeps ==
    ASSUME NamesFit, IInv, kind' = kind, session' = session \/ Writes(session, session'),
           NEW w \in Workers, ResumeReceipt(w)
    PROVE  Rest'
<1> DEFINE i == mem[w].cp.id
<1>0. /\ Types /\ w \in Callers /\ RunOk(w) /\ session \in Sessions /\ Good(session)
      /\ pc[w] = "resuming" /\ UNCHANGED <<cancelled, stop, acted>>
  BY DEF IInv, RunsInv, Types, Callers, ResumeReceipt
<1>1. CASE Ended(w) /\ told' = told
  <2>1. holder' \in Workers \union {None}
    BY <1>0, <1>1 DEF Ended, Types
  <2>2. QED BY <1>0, <1>1, <2>1, RunEnds DEF Ended
<1>2. CASE ~(Ended(w) /\ told' = told)
  <2>1. PICK b \in {None, AnswerOf[w]} :
          /\ Orphaned \/ Brings(w, b) => Room
          /\ Resumes(w, b) \in Responses /\ b \in {None, Resumes(w, b)}
          /\ Goto(w, "read") /\ ans' = [ans EXCEPT ![w] = <<i, Resumes(w, b)>>]
          /\ session' = IF Brings(w, b) THEN Written(Recorded(session, i, b)) ELSE session
          /\ told' = IF b = None THEN told ELSE told \union {<<i, b>>}
          /\ UNCHANGED <<holder, mem, call>>
    BY <1>2 DEF ResumeReceipt
  <2> DEFINE a == Resumes(w, b)
  <2>2. /\ a \in Responses /\ b \in {None, a} /\ pc' = [pc EXCEPT ![w] = "read"]
        /\ ans' = [ans EXCEPT ![w] = <<i, a>>]
        /\ told' = IF b = None THEN told ELSE told \union {<<i, b>>}
        /\ UNCHANGED <<holder, mem, call, cancelled, stop, acted>>
    BY <1>0, <2>1 DEF Goto
  <2>3. HasEntry(session', i) /\ Entry(session', i).receipt = a
    <3>1. CASE Brings(w, b)
      <4>1. /\ session' = Written(Recorded(session, i, b)) /\ session.rev < MaxRev
            /\ b \in Responses /\ a = b /\ CanRecord(session, i)
        BY <2>1, <3>1 DEF Room, Resumes, Brings
      <4>2. QED BY <1>0, <4>1, RecordedWrites, SMT
    <3>2. CASE ~Brings(w, b)
      <4>1. session' = session /\ a = ReceiptOf(i)
        BY <2>1, <3>2 DEF Resumes
      <4>2. a # None
        BY <2>2 DEF NamesFit
      <4>3. QED BY <4>1, <4>2 DEF ReceiptOf
    <3>3. QED BY <3>1, <3>2
  <2>4. i \in Ids
    BY <1>0 DEF RunOk, Types, Memories, Checkpoints
  <2> HIDE DEF a, i
  <2>5. Types'
    <3>1. session' \in Sessions
      BY <1>0 DEF Good, Writes
    <3>2. <<i, a>> \in Ids \X Responses /\ (b # None => b = a)
      BY <2>2, <2>4
    <3>3. QED BY <1>0, <2>2, <3>1, <3>2 DEF Types, Labels
  <2>6. pc'[w] = "read" /\ ans'[w] = <<i, a>> /\ mem' = mem
    BY <1>0, <2>2 DEF Types
  <2>7. ans'[w] # None
    <3>1. ans'[w] \in Ids \X Responses
      BY <2>2, <2>4, <2>6, SMT
    <3>2. QED BY <3>1 DEF NamesFit
  <2>8. RunOk(w)'
    <3>1. mem[w].rev <= session'.rev
      <4>0. session \in Sessions /\ mem[w].rev <= session.rev
        BY <1>0 DEF Types, RunOk
      <4>1. session.rev \in Int /\ mem[w].rev \in Int
        BY <1>0, <4>0, RevOf, MemRevOf
      <4>2. QED BY <4>0, <4>1, SMT DEF Writes
    <3>2. mem[w].cp # None /\ mem[w].cp.ask /\ ans'[w][1] = mem[w].cp.id
      BY <1>0, <2>6, SMT DEF RunOk, i
    <3>3. QED BY <2>6, <2>7, <3>1, <3>2 DEF RunOk
  <2>9. Others(w)
    BY <1>0, <2>2 DEF Others, Types
  <2>10. Holds(ans[w])'
    <3>1. ans'[w][1] = i /\ ans'[w][2] = a
      BY <2>6, SMT
    <3>2. QED BY <2>3, <3>1 DEF Holds
  <2>11. \A x \in told' \union acted' : x \in told \union acted \/ Holds(x)'
    BY <2>2, <2>3, SMT DEF Holds
  <2>12. call'[w] = NoCall
    BY <1>0, <2>2, NotCalling
  <2>13. QED BY <2>2, <2>5, <2>8, <2>9, <2>10, <2>11, <2>12, RunSteps
<1>3. QED BY <1>1, <1>2
\* The end of a run, its pauses and its way back from them.
LEMMA PausesKeep ==
    ASSUME NamesFit, IInv, kind' = kind, session' = session \/ Writes(session, session'),
           NEW w \in Workers,
           \/ Suspend(w) \/ SuspendPlain(w) \/ Complete(w) \/ Verify(w) \/ Reacquire(w) \/ Crash(w)
    PROVE  Rest'
<1> USE DEF Goto, At
<1>0. /\ Types /\ w \in Callers /\ RunOk(w) /\ session \in Sessions /\ Good(session)
      /\ holder \in Workers \union {None} /\ session' \in Sessions
  BY DEF IInv, RunsInv, Types, Callers, Good, Writes
<1>1. CASE /\ Ended(w) /\ acted' = acted
           /\ Suspend(w) \/ SuspendPlain(w) \/ Complete(w) \/ Verify(w) \/ Reacquire(w)
  <2>1. holder' \in Workers \union {None}
    BY <1>0, <1>1 DEF Ended
  <2>2. UNCHANGED <<cancelled, stop, told>>
    BY <1>1 DEF Suspend, SuspendPlain, Complete, Verify, Reacquire
  <2>3. QED BY <1>1, <2>1, <2>2, RunEnds DEF Ended
<1>2. CASE Crash(w)
  BY <1>0, <1>2, RunEnds DEF Crash
<1>3. CASE Suspend(w) /\ ~Ended(w)
  <2> DEFINE c == [id |-> <<w, session.rev>>, ask |-> TRUE]
             m == [rev |-> session.rev + 1, cp |-> c, late |-> FALSE]
  <2>1. Fenced(w) /\ CheckpointApplies(session) /\ session.rev = mem[w].rev /\ session.rev < MaxRev
    BY <1>3 DEF Suspend, Fenced, Room
  <2>2. /\ pc[w] = "running" /\ pc' = [pc EXCEPT ![w] = "verify"]
        /\ mem' = [mem EXCEPT ![w] = m] /\ ans' = [ans EXCEPT ![w] = None]
        /\ UNCHANGED <<holder, call, cancelled, stop, told, acted>>
    BY <1>3, <2>1 DEF Suspend
  <2>3. session'.rev = session.rev + 1
    <3> DEFINE i == <<w, session.rev>>
               asks == Written([Registered(ApplyCheckpoint(session, i), i) EXCEPT
                                  !.cp = [id |-> i, ask |-> TRUE], !.dom = w])
    <3>1. Writes(session, asks)
      BY <1>0, <2>1, AskWrites
    <3>2. session' = asks
      BY <1>3, <2>1 DEF Suspend
    <3> HIDE DEF asks
    <3>3. QED BY <3>1, <3>2 DEF Writes
  <2>4. m \in Memories /\ m.rev = session'.rev
    <3>1. session.rev \in 0 .. MaxRev /\ session.rev + 1 \in 0 .. MaxRev
      <4>1. session.rev \in 0 .. MaxRev
        BY <1>0, RevOf
      <4>2. QED BY <2>1, <4>1, SMT DEF NamesFit
    <3>2. c \in Checkpoints
      BY <3>1 DEF Checkpoints, Ids
    <3> HIDE DEF c
    <3>3. QED BY <2>3, <3>1, <3>2 DEF Memories
  <2> HIDE DEF m
  <2>5. Types'
    BY <1>0, <2>2, <2>4 DEF Types, Labels
  <2>6. pc'[w] = "verify" /\ mem'[w] = m /\ ans'[w] = None /\ Others(w)
    BY <1>0, <2>2 DEF Types, Others
  <2>7. RunOk(w)'
    <3>1. session'.rev \in Int
      BY <1>0, RevOf
    <3>2. mem'[w].rev <= session'.rev
      BY <2>4, <2>6, <3>1, SMT
    <3>3. QED BY <2>6, <3>2 DEF RunOk
  <2>8. call'[w] = NoCall
    BY <2>2, NotCalling
  <2>9. QED BY <2>2, <2>5, <2>6, <2>7, <2>8, RunSteps
<1>4. CASE Verify(w) /\ ~Ended(w)
  <2>1. /\ pc[w] = "verify" /\ pc' = [pc EXCEPT ![w] = "waiting"] /\ holder' = None
        /\ UNCHANGED <<session, mem, ans, call, cancelled, stop, told, acted>>
    BY <1>4 DEF Verify
  <2>2. Types'
    BY <1>0, <2>1 DEF Types, Labels
  <2>3. pc'[w] = "waiting" /\ Others(w)
    BY <1>0, <2>1 DEF Types, Others
  <2>4. RunOk(w)'
    BY <1>0, <2>1, <2>3 DEF RunOk
  <2>5. QED BY <2>1, <2>2, <2>3, <2>4, RunSteps
<1>5. CASE Reacquire(w) /\ ~(Ended(w) /\ acted' = acted)
  <2>1. /\ pc[w] = "replied" /\ pc' = [pc EXCEPT ![w] = "running"] /\ holder' = w
        /\ acted' = acted \union {ans[w]}
        /\ UNCHANGED <<session, mem, ans, call, cancelled, stop, told>>
    BY <1>5 DEF Reacquire
  <2>2. ans[w] # None /\ ans[w] \in Ids \X Responses
    BY <1>0, <2>1 DEF RunOk, Types
  <2>3. Types'
    BY <1>0, <2>1, <2>2 DEF Types, Labels
  <2>4. pc'[w] = "running" /\ Others(w)
    BY <1>0, <2>1 DEF Types, Others
  <2>5. RunOk(w)'
    BY <1>0, <2>1, <2>4 DEF RunOk
  <2>6. call'[w] = NoCall
    BY <2>1, NotCalling
  <2>7. QED BY <2>1, <2>2, <2>3, <2>4, <2>5, <2>6, RunSteps
<1>6. QED
  BY <1>1, <1>2, <1>3, <1>4, <1>5 DEF Suspend, SuspendPlain, Complete, Verify

\* The lease goes, by cancellation or expiry, or a cancel_pending goes on.
LEMMA HostKeeps ==
    ASSUME NamesFit, IInv, kind' = kind, session' = session \/ Writes(session, session'),
           (\E w \in Workers : RequestCancel(w)) \/ Expire \/ CancelLoad \/ CancelSave
    PROVE  Rest'
<1>0. Types /\ session \in Sessions /\ Good(session) /\ session' \in Sessions
  BY DEF IInv, Good, Writes
<1>1. UNCHANGED <<pc, mem, ans, call, told, acted>>
  BY DEF RequestCancel, Expire, CancelLoad, CancelSave
<1>2. /\ holder' \in Workers \union {None} /\ cancelled' \subseteq Workers
      /\ stop' \in {NoCall} \union Loaded
  <2>1. CASE (\E w \in Workers : RequestCancel(w)) \/ Expire \/ CancelSave
    BY <1>0, <2>1 DEF RequestCancel, Expire, CancelSave, Types
  <2>2. CASE CancelLoad
    <3>1. session.active \in Ids /\ session.rev \in 0 .. MaxRev
      BY <1>0, <2>2, SessionFields DEF CancelLoad
    <3>2. QED BY <1>0, <2>2, <3>1 DEF CancelLoad, Types, Loaded
  <2>3. QED BY <2>1, <2>2
<1>3. Types'
  BY <1>0, <1>1, <1>2 DEF Types
<1>4. RunsInv'
  BY <1>1, RunSame DEF RunsInv
<1>5. AnswersInv'
  BY <1>1, AnswersKept
<1>6. CallsInv'
  <2>1. \A c \in Callers : CallOk(c)'
    BY <1>1, CallSame
  <2>2. \A v \in Workers : call'[v] # NoCall => pc'[v] = "waiting"
    BY <1>1 DEF IInv, CallsInv
  <2>3. stop' # NoCall =>
           stop'.rev <= session'.rev /\ (stop'.rev = session'.rev => session'.active # None)
    <3>1. CASE CancelLoad
      <4>1. session.rev \in Int
        BY <1>0, SessionFields, SMT
      <4>2. QED BY <3>1, <4>1, SMT DEF CancelLoad
    <3>2. CASE ~CancelLoad
      <4>1. stop' \in {stop, NoCall}
        BY <3>2 DEF RequestCancel, Expire, CancelSave
      <4>2. QED BY <4>1, StopSame
    <3>3. QED BY <3>1, <3>2
  <2>4. QED BY <2>1, <2>2, <2>3 DEF CallsInv, CallOk
<1>7. QED BY <1>3, <1>4, <1>5, <1>6 DEF Rest
\* A step of record_receipt that moves no run.
LEMMA CallSteps ==
    ASSUME NamesFit, IInv, kind' = kind, session' = session \/ Writes(session, session'),
           NEW c \in Callers, Types', UNCHANGED <<pc, mem, ans, stop, acted>>,
           \A d \in Callers \ {c} : call'[d] = call[d],
           CallOk(c)', c \in Workers /\ call'[c] # NoCall => pc[c] = "waiting",
           \A a \in told' : a \in told \/ Holds(a)'
    PROVE  Rest'
<1>1. RunsInv'
  BY RunSame DEF RunsInv
<1>2. AnswersInv'
  BY AnswersKept
<1>3. CallsInv'
  <2>1. \A d \in Callers : CallOk(d)'
    BY CallSame
  <2>2. \A v \in Workers : call'[v] # NoCall => pc'[v] = "waiting"
    BY DEF IInv, CallsInv, Callers
  <2>3. QED BY <2>1, <2>2, StopSame DEF CallsInv, CallOk
<1>4. QED BY <1>1, <1>2, <1>3 DEF Rest

\* record_receipt returns: the answer is in the journal.
LEMMA ReturnsKeep ==
    ASSUME NamesFit, IInv, kind' = kind, NEW c \in Callers, NEW i \in Ids,
           Returns(c, i, session), Holds(<<i, AnswerOf[c]>>),
           c \in Workers => pc[c] = "waiting", UNCHANGED <<cancelled, stop, acted>>
    PROVE  Rest'
<1> USE DEF Goto
<1>0. /\ Types /\ session \in Sessions /\ session' = session /\ AnswerOf[c] \in Responses
      /\ told' = told \union {<<i, AnswerOf[c]>>} /\ call' = [call EXCEPT ![c] = NoCall]
  BY DEF IInv, Good, NamesFit, Callers, Returns
<1>1. call'[c] = NoCall /\ \A d \in Callers \ {c} : call'[d] = call[d]
  BY <1>0 DEF Types
<1>2. \A a \in told' : a \in told \/ Holds(a)'
  BY <1>0 DEF Holds
<1>3. CASE c \notin Workers
  <2>1. UNCHANGED <<pc, mem, ans, holder>>
    BY <1>3 DEF Returns
  <2>2. Types'
    <3>1. told' \subseteq Ids \X Responses
      BY <1>0, SMT DEF Types
    <3>2. call' \in [Callers -> {NoCall} \union Loaded \union [st : {"saved"}, i : Ids]]
      BY <1>0 DEF Types
    <3>3. QED BY <1>0, <2>1, <3>1, <3>2 DEF Types
  <2>3. CallOk(c)'
    BY <1>0, <1>1, CallSame
  <2>4. QED BY <1>0, <1>1, <1>2, <1>3, <2>1, <2>2, <2>3, CallSteps
<1>4. CASE c \in Workers
  <2>0. RunOk(c) /\ pc[c] = "waiting" /\ ans[c] = None
    BY <1>4 DEF IInv, RunsInv, RunOk
  <2>1. CASE Entry(session, i).app # None
    <3>1. /\ pc' = [pc EXCEPT ![c] = "idle"] /\ mem' = [mem EXCEPT ![c] = Mem0]
          /\ UNCHANGED <<ans, holder>>
      BY <1>4, <2>1 DEF Returns
    <3>2. Types'
      <4>1. Mem0 \in Memories /\ "idle" \in Labels
        BY SMT DEF NamesFit, Labels, Memories
      <4>2. told' \subseteq Ids \X Responses
        BY <1>0, SMT DEF Types
      <4>3. QED BY <1>0, <3>1, <4>1, <4>2 DEF Types
    <3>3. pc'[c] = "idle" /\ mem'[c] = Mem0 /\ ans'[c] = None /\ Others(c)
      BY <1>0, <1>4, <2>0, <3>1 DEF Types, Others
    <3>4. RunOk(c)'
      BY <1>0, <1>4, <3>3, RunOver
    <3>5. QED BY <1>0, <1>1, <1>2, <1>4, <3>1, <3>2, <3>3, <3>4, RunSteps
  <2>2. CASE Entry(session, i).app = None
    <3>1. /\ pc' = [pc EXCEPT ![c] = "replied"] /\ mem' = [mem EXCEPT ![c].rev = session.rev]
          /\ ans' = [ans EXCEPT ![c] = <<i, AnswerOf[c]>>] /\ UNCHANGED holder
      BY <1>4, <2>2 DEF Returns
    <3>2. session.rev \in 0 .. MaxRev
      BY <1>0, SessionFields
    <3>3. /\ pc'[c] = "replied" /\ mem'[c] = [mem[c] EXCEPT !.rev = session.rev]
          /\ ans'[c] = <<i, AnswerOf[c]>> /\ Others(c)
      BY <1>0, <1>4, <3>1 DEF Types, Others
    <3>4. /\ mem'[c] \in Memories
          /\ mem'[c].rev = session.rev
      BY <1>0, <1>4, <3>2, <3>3 DEF Types, Memories
    <3>5. Types'
      <4>1. "replied" \in Labels /\ <<i, AnswerOf[c]>> \in Ids \X Responses
        BY <1>0 DEF Labels
      <4>2. told' \subseteq Ids \X Responses
        BY <1>0, SMT DEF Types
      <4>3. mem' \in [Workers -> Memories]
        BY <1>0, <3>1, <3>2 DEF Types, Memories
      <4>4. pc' \in [Workers -> Labels] /\ ans' \in [Workers -> (Ids \X Responses) \union {None}]
        BY <1>0, <3>1, <4>1 DEF Types
      <4>5. QED BY <1>0, <3>1, <4>2, <4>3, <4>4 DEF Types
    <3>6. ans'[c] # None
      BY <1>0, <3>3, SMT DEF NamesFit
    <3>7. RunOk(c)'
      BY <1>0, <2>2, <3>2, <3>3, <3>4, <3>6, SMT DEF RunOk, Entry, NamesFit
    <3>8. Holds(ans[c])'
      BY <1>0, <3>3 DEF Holds
    <3>9. QED BY <1>0, <1>1, <1>2, <1>4, <3>3, <3>5, <3>7, <3>8, RunSteps
  <2>3. QED BY <2>1, <2>2
<1>5. QED BY <1>3, <1>4

\* record_receipt raises.
LEMMA RaisesKeep ==
    ASSUME NamesFit, IInv, kind' = kind, session' = session \/ Writes(session, session'),
           NEW c \in Callers, NEW S, Raises(c, S), UNCHANGED <<cancelled, stop, acted>>
    PROVE  Rest'
<1>0. Types /\ told' = told /\ session' \in Sessions
  BY DEF IInv, Raises, Good, Writes
<1>1. CASE c \in Workers
  <2>1. Ended(c) /\ holder' \in Workers \union {None}
    BY <1>0, <1>1 DEF Raises, Ended, Types
  <2>2. QED BY <1>0, <1>1, <2>1, RunEnds DEF Ended
<1>2. CASE c \notin Workers
  <2>1. call' = [call EXCEPT ![c] = NoCall] /\ UNCHANGED <<pc, mem, ans, holder>>
    BY <1>2 DEF Raises
  <2>2. Types'
    BY <1>0, <2>1 DEF Types
  <2>3. call'[c] = NoCall /\ \A d \in Callers \ {c} : call'[d] = call[d]
    BY <1>0, <2>1 DEF Types
  <2>4. CallOk(c)'
    BY <2>3, CallSame
  <2>5. QED BY <1>0, <1>2, <2>1, <2>2, <2>3, <2>4, CallSteps
<1>3. QED BY <1>1, <1>2

\* The load, the write and the reload of record_receipt.
LEMMA RecordKeeps ==
    ASSUME NamesFit, IInv, kind' = kind, session' = session \/ Writes(session, session'),
           NEW c \in Callers, RecordLoad(c) \/ RecordSave(c) \/ RecordVerify(c)
    PROVE  Rest'
<1>0. /\ Types /\ session \in Sessions /\ Good(session) /\ AnswerOf[c] \in Responses
      /\ UNCHANGED <<cancelled, stop, acted>>
      /\ call[c] \in {NoCall} \union Loaded \union [st : {"saved"}, i : Ids]
      /\ session' \in Sessions
  BY DEF IInv, Types, Good, Writes, NamesFit, Callers, RecordLoad, RecordSave, RecordVerify
<1>1. ASSUME NEW S, Raises(c, S) PROVE Rest'
  BY <1>0, <1>1, RaisesKeep
<1>2. CASE RecordLoad(c)
  <2>1. PICK i \in DOMAIN session.entries :
          /\ c \in Workers => pc[c] = "waiting" /\ mem[c].cp.id = i
          /\ IF Orphaned THEN Raises(c, Reconciled)
             ELSE IF Entry(session, i).receipt = AnswerOf[c]
             THEN Returns(c, i, session)
             ELSE IF CanRecord(session, i) /\ (c \in Workers => session.rev = mem[c].rev)
             THEN /\ call' = [call EXCEPT ![c] =
                                [st |-> "loaded", i |-> i, rev |-> session.rev]]
                  /\ UNCHANGED <<session, pc, mem, ans, holder, told>>
             ELSE Raises(c, session)
    BY <1>2 DEF RecordLoad
  <2>2. i \in Ids /\ session.rev \in 0 .. MaxRev
    BY <1>0, SessionFields
  <2>3. CASE Entry(session, i).receipt = AnswerOf[c] /\ Returns(c, i, session)
    <3>1. Holds(<<i, AnswerOf[c]>>)
      BY <2>3 DEF Holds, HasEntry
    <3>2. QED BY <1>0, <2>1, <2>2, <2>3, <3>1, ReturnsKeep
  <2>4. CASE /\ CanRecord(session, i)
             /\ call' = [call EXCEPT ![c] = [st |-> "loaded", i |-> i, rev |-> session.rev]]
             /\ UNCHANGED <<session, pc, mem, ans, holder, told>>
    <3> DEFINE l == [st |-> "loaded", i |-> i, rev |-> session.rev]
    <3>1. l \in Loaded /\ l.st = "loaded" /\ l.i = i /\ l.rev = session.rev
      BY <2>2 DEF Loaded
    <3> HIDE DEF l
    <3>2. call' = [call EXCEPT ![c] = l]
      BY <2>4 DEF l
    <3>3. call'[c] = l /\ \A d \in Callers \ {c} : call'[d] = call[d]
      BY <1>0, <3>2 DEF Types
    <3>4. Types'
      <4>1. call' \in [Callers -> {NoCall} \union Loaded \union [st : {"saved"}, i : Ids]]
        BY <1>0, <3>1, <3>2 DEF Types
      <4>2. QED BY <1>0, <2>4, <4>1 DEF Types
    <3>5. CallOk(c)'
      <4>1. HasEntry(session, i) /\ session' = session
        BY <2>4 DEF CanRecord
      <4>3. session.rev <= session.rev
        BY <2>2, SMT
      <4>2. QED BY <2>4, <3>1, <3>3, <4>1, <4>3 DEF CallOk
    <3>6. QED BY <1>0, <2>1, <2>4, <3>3, <3>4, <3>5, CallSteps
  <2>5. QED BY <1>1, <2>1, <2>3, <2>4
<1>3. CASE RecordSave(c)
  <2>1. call[c] \in Loaded /\ call[c].st = "loaded"
    BY <1>0, <1>3, SMT DEF RecordSave, NoCall
  <2>2. call[c].i \in Ids /\ HasEntry(session, call[c].i)
    BY <2>1 DEF Loaded, IInv, CallsInv
  <2>3. c \in Workers => pc[c] = "waiting"
    <3>1. call[c] # NoCall
      BY <2>1, SMT DEF NoCall
    <3>2. QED BY <3>1 DEF IInv, CallsInv
  <2>4. CASE Entry(session, call[c].i).receipt = AnswerOf[c] /\ Returns(c, call[c].i, session)
    <3>1. Holds(<<call[c].i, AnswerOf[c]>>)
      BY <2>2, <2>4 DEF Holds
    <3>2. QED BY <1>0, <2>2, <2>3, <2>4, <3>1, ReturnsKeep
  <2>5. CASE /\ session.rev = call[c].rev
             /\ session' = Written(Recorded(session, call[c].i, AnswerOf[c]))
             /\ call' = [call EXCEPT ![c] = [st |-> "saved", i |-> call[c].i]]
             /\ UNCHANGED <<pc, mem, ans, holder, told>>
    <3>1. PICK i : i = call[c].i
      OBVIOUS
    <3> DEFINE l == [st |-> "saved", i |-> i]
    <3>2. l \in [st : {"saved"}, i : Ids] /\ l.st = "saved" /\ l.i = i
      BY <2>2, <3>1
    <3> HIDE DEF l
    <3>3. call' = [call EXCEPT ![c] = l]
      BY <2>5, <3>1 DEF l
    <3>4. call'[c] = l /\ \A d \in Callers \ {c} : call'[d] = call[d]
      BY <1>0, <3>3 DEF Types
    <3>5. Types'
      BY <1>0, <2>5, <3>2, <3>3, SMT DEF Types
    <3>6. HasEntry(session', i) /\ Entry(session', i).receipt = AnswerOf[c]
      <4>1. CanRecord(session, i) /\ session.rev < MaxRev
        BY <1>3, <2>1, <2>5, <3>1 DEF IInv, CallsInv, RecordSave, Room
      <4>2. QED BY <1>0, <2>5, <3>1, <4>1, RecordedWrites, SMT
    <3>7. CallOk(c)'
      BY <3>2, <3>4, <3>6 DEF CallOk, Holds
    <3>8. QED BY <1>0, <2>3, <2>5, <3>4, <3>5, <3>7, CallSteps
  <2>6. QED BY <1>1, <1>3, <2>4, <2>5 DEF RecordSave
<1>4. CASE RecordVerify(c)
  <2>1. call[c].st = "saved" /\ call[c] \in [st : {"saved"}, i : Ids]
    BY <1>0, <1>4, SMT DEF RecordVerify, NoCall, Loaded
  <2>2. call[c].i \in Ids /\ Holds(<<call[c].i, AnswerOf[c]>>)
    BY <2>1 DEF IInv, CallsInv
  <2>3. c \in Workers => pc[c] = "waiting"
    <3>1. call[c] # NoCall
      BY <2>1, SMT DEF NoCall
    <3>2. QED BY <3>1 DEF IInv, CallsInv
  <2>4. CASE Returns(c, call[c].i, session)
    BY <1>0, <2>2, <2>3, <2>4, ReturnsKeep
  <2>5. QED BY <1>1, <1>4, <2>4 DEF RecordVerify
<1>5. QED BY <1>2, <1>3, <1>4

(***************************************************************************)
(* The theorems                                                            *)
(***************************************************************************)

\* The inductive invariant of durable interactions.
THEOREM InteractionInvariant == ASSUME NamesFit PROVE Spec => []IInv
<1>1. Init => IInv
  <2> SUFFICES ASSUME Init PROVE IInv
    OBVIOUS
  <2>1. Good(session)
    <3>1. session.entries \in Journals
      <4>1. <<>> \in [{} -> Entries]
        BY SMT
      <4>2. QED BY <4>1, JournalOf DEF Init, Empty
    <3>2. session \in Sessions
      BY <3>1, SMT DEF Init, Empty, Sessions, NamesFit
    <3>3. QED BY <3>2, SMT DEF Init, Empty, Good, Bound, Named
  <2>2. Types
    BY <2>1, SMT DEF Init, Good, Types, Labels, NamesFit, Callers, Memories
  <2>3. AnswersInv /\ CallsInv
    BY DEF Init, AnswersInv, CallsInv, NoCall, Callers
  <2>4. RunsInv
    <3> SUFFICES ASSUME NEW w \in Workers PROVE RunOk(w)
      BY DEF RunsInv
    <3>1. pc[w] = "idle" /\ mem[w].rev = 0 /\ ans[w] = None /\ session.rev = 0
      BY DEF Init, Empty, NamesFit
    <3>2. mem[w].rev <= session.rev
      BY <3>1, SMT
    <3>3. QED BY <3>1, <3>2 DEF RunOk
  <2>5. QED BY <2>1, <2>2, <2>3, <2>4 DEF IInv
<1>2. IInv /\ [Next]_vars => IInv'
  <2> SUFFICES ASSUME IInv, [Next]_vars PROVE IInv'
    OBVIOUS
  <2>1. CASE UNCHANGED vars
    BY <2>1 DEF vars, IInv, Types, Good, Bound, Named, AnswersInv, Holds, CallsInv, RunsInv, RunOk
  <2>2. CASE Step /\ kind' = kind
    <3>1. session' = session \/ Writes(session, session')
      BY <2>2, SessionStep
    <3>2. Rest'
      BY <2>2, <3>1, StartsKeep, ReceiptKeeps, PausesKeep, HostKeeps, RecordKeeps DEF Step
    <3>3. Good(session')
      BY <3>1 DEF IInv, Writes
    <3>4. QED BY <3>2, <3>3 DEF IInv, Rest, Good, Bound, Named
  <2>3. QED BY <2>1, <2>2 DEF Next
<1>3. QED BY <1>1, <1>2, PTL DEF Spec

\* The journal and the checkpoint move together through every write, crash and
\* cancellation (validate_interaction_journal, register_checkpoint_interaction_request).
THEOREM JournalMovesWithCheckpoint == ASSUME NamesFit PROVE Spec => []JournalBound
<1>1. IInv => JournalBound
  <2> SUFFICES ASSUME IInv PROVE JournalBound
    OBVIOUS
  <2>1. session \in Sessions /\ Types
    BY DEF IInv, Types
  <2>2. TypeOK
    <3>1. \A w \in Workers : mem[w].rev \in 0 .. MaxRev
      BY <2>1 DEF Types, Memories
    <3>2. session.active \in DOMAIN session.entries \union {None}
      BY <2>1, SessionFields DEF IInv, Good, Bound
    <3>3. QED BY <2>1, <3>1, <3>2, SessionFields DEF TypeOK, Types
  <2>3. QED BY <2>2 DEF JournalBound, IInv, Good, Bound
<1>2. QED BY <1>1, InteractionInvariant, PTL

\* Every run that acts on an interaction acts on the answer in the journal, and whoever
\* was told that an answer is recorded gave that one (record_receipt, require_receipt).
THEOREM ActsOnTheRecordedAnswer == ASSUME NamesFit PROVE Spec => []OneAnswer
<1>1. IInv => OneAnswer
  <2> SUFFICES ASSUME IInv PROVE OneAnswer
    OBVIOUS
  <2>1. \A a \in told \union acted : Holds(a)
    BY DEF IInv, AnswersInv
  <2>2. QED BY <2>1 DEF Holds, OneAnswer, ToldIsRecorded
<1>2. QED BY <1>1, InteractionInvariant, PTL

\* A run that resumed an interaction which cancel_pending or the reconciliation of its
\* attempt abandoned has no write left that the store accepts, unless its bootstrap read
\* the revision only after that (memory/durability.py, memory/bootstrap.py).
THEOREM AbandonedIsStopped == ASSUME NamesFit PROVE Spec => []AbandonedRunCannotWrite
<1>1. IInv => AbandonedRunCannotWrite
  BY DEF IInv, RunsInv, RunOk, AbandonedRunCannotWrite
<1>2. QED BY <1>1, InteractionInvariant, PTL
=============================================================================
