------------------------ MODULE ToolExecutionSafety ------------------------
(***************************************************************************)
(* Safety of ToolExecution, for every batch of calls, every set of         *)
(* processes and every assignment of owner ids: a handler runs at most     *)
(* once and as it was approved, the recorded completion is the sealed one  *)
(* and can be read back, and a call whose outcome was lost stays           *)
(* uncertain.                                                              *)
(***************************************************************************)
EXTENDS ToolExecution, SequenceTheorems, TLAPS

\* Most steps need no arithmetic; the ones that do name the SMT solver.
USE Zenon

(***************************************************************************)
(* The inductive invariant                                                 *)
(***************************************************************************)

\* The prefixes of the batch a run has executed.
Prefixes == {SubSeq(Batch, 1, n) : n \in 0 .. Len(Batch)}

\* The labels, by what a process at them holds: no call, a call, the subject it is
\* run under, and an authorization.
Resting == {"idle", "ready"}
Called == {"prepare", "suspend"}
Subjected == {"execute", "guard_authorize", "authorize", "claim"}
Running == {"validate", "guard_run", "run"}
Storing == {"guard_store", "put_result", "put_next", "put_completion"}
Sealing == {"guard_seal", "seal"}
Writing == {"guard_result", "persist", "append_result"}
Returning == {"guard_return", "deliver"}
Reading == {"guard_reuse", "recover", "guard_finalize", "finalize"}
Authorized3 == Running \union Storing \union Sealing \union Writing \union Returning \union Reading
Labels == Resting \union Called \union Subjected \union Authorized3

\* Where each disposition may be.
ExecuteAt == Running \union Storing \union Sealing \union Writing \union Returning
FinalizeAt == {"validate", "guard_finalize", "finalize", "persist", "append_result"}
              \union Returning
ReuseAt == {"validate", "guard_reuse", "recover"} \union Returning

Records == [st : Labels, token : 0 .. MaxToken, resumed : Calls \union {None},
            bound : BOOLEAN, subject : Subjects \union {None},
            disp : {"none", "execute", "finalize", "reuse"},
            completion : Completions \union {None}, state : States, done : Prefixes]

\* The type of every variable.
Types ==
    /\ owners \in Owners
    /\ lease \in [owner : Range(owners) \union {None}, token : 0 .. MaxToken]
    /\ lease.owner # None => lease.token >= 1
    /\ decision \in [Calls -> Decisions \union {None}]
    /\ saved \in [pending : Calls \union {None}, state : States, done : Prefixes]
    /\ intent \subseteq Calls
    /\ started \in [Calls -> Subjects \union {None}]
    /\ sealed \in [Calls -> Completions \union {None}]
    /\ result \in [Calls -> Completions \union {None}]
    /\ proc \in [Procs -> Records]
    /\ effects \in [Calls -> Seq(Subjects)]
    /\ delivered \subseteq Calls \X Completions

\* The subject s has the approval the call c was given.
Approved(c, s) ==
    /\ s.approval = IF c \in Guarded THEN decision[c] ELSE "not_required"
    /\ c \in Guarded => decision[c] # None

\* The receipts of a call.
CallOk(c) ==
    /\ started[c] # None => Approved(c, started[c])
    /\ sealed[c] # None \/ result[c] # None => started[c] # None
    /\ sealed[c] # None => HasTransition(sealed[c]) /\ Artifacts(c, sealed[c]) \subseteq artifacts
    /\ result[c] # None =>
         /\ sealed[c] = IF HasTransition(result[c]) THEN result[c] ELSE None
         /\ Artifacts(c, result[c]) \subseteq artifacts
    /\ Len(effects[c]) <= 1
    /\ effects[c] # <<>> => started[c] = effects[c][1]

\* Where a process may be under its disposition.
PlaceOk(p) ==
    /\ proc[p].st \in Authorized3 <=> proc[p].disp # "none"
    /\ proc[p].disp = "execute" => proc[p].st \in ExecuteAt
    /\ proc[p].disp = "finalize" => proc[p].st \in FinalizeAt
    /\ proc[p].disp = "reuse" => proc[p].st \in ReuseAt
    /\ proc[p].st # "idle" => proc[p].token >= 1
    /\ proc[p].st \notin Resting => Len(proc[p].done) < Len(Batch)
    /\ proc[p].resumed # None => decision[proc[p].resumed] # None

\* What a process holds of its call.
HoldOk(p) ==
    LET c == Call(p)
        k == proc[p].completion
        st == proc[p].st IN
    /\ st \notin Resting \union Called => proc[p].subject # None /\ Approved(c, proc[p].subject)
    /\ proc[p].disp = "execute" =>
         /\ started[c] = proc[p].subject
         /\ st \in Running => effects[c] = <<>>
         /\ st \notin Running => k # None /\ k.subject = proc[p].subject
    /\ proc[p].disp = "finalize" => k # None /\ k = sealed[c]
    /\ proc[p].disp = "reuse" => k # None /\ k = result[c]
    /\ st \in {"put_next", "put_completion"} => <<"result", c, k.subject>> \in artifacts
    /\ st = "put_next" => HasTransition(k)
    /\ st = "put_completion" /\ HasTransition(k) => <<"next", c, k.subject>> \in artifacts
    /\ st \in Sealing \union Writing => Artifacts(c, k) \subseteq artifacts
    /\ st \in Sealing => HasTransition(k)
    /\ st = "append_result" => sealed[c] = IF HasTransition(k) THEN k ELSE None
    /\ st \in Returning => result[c] = k

\* One process at most is authorized to run a call.
Exclusive ==
    \A p, q \in Procs :
        proc[p].disp = "execute" /\ proc[q].disp = "execute" /\ Call(p) = Call(q) => p = q

\* The inductive invariant.
IInv ==
    /\ Types
    /\ \A c \in Calls : CallOk(c)
    /\ \A p \in Procs : PlaceOk(p) /\ HoldOk(p)
    /\ Exclusive
    /\ \A d \in delivered : result[d[1]] = d[2]

(***************************************************************************)
(* Steps of one process                                                    *)
(***************************************************************************)

\* The processes other than p stay as they are.
Others(p) == \A q \in Procs \ {p} : proc'[q] = proc[q]

\* Answers, receipts and artifacts stay.
Grows ==
    /\ owners' = owners /\ artifacts \subseteq artifacts'
    /\ \A c \in Calls :
         /\ decision[c] # None => decision'[c] = decision[c]
         /\ started[c] # None => started'[c] = started[c]
         /\ sealed[c] # None => sealed'[c] = sealed[c]
         /\ result[c] # None => result'[c] = result[c]

\* Only the process authorized to run a call runs it and seals it.
ByHolder(p) ==
    \A c \in Calls :
        effects'[c] # effects[c] \/ sealed'[c] # sealed[c] =>
            proc[p].disp = "execute" /\ Call(p) = c

\* The call a process is at is one of the batch.
LEMMA CallsOfBatch ==
    ASSUME BatchFit, Types, NEW p \in Procs, Len(proc[p].done) < Len(Batch)
    PROVE  Call(p) \in Calls
<1>1. proc[p].done \in Prefixes
  BY DEF Types, Records
<1>2. PICK n \in 0 .. Len(Batch) : proc[p].done = SubSeq(Batch, 1, n)
  BY <1>1 DEF Prefixes
<1>3. Batch \in Seq(Calls) /\ Len(Batch) \in Nat
  BY SMT DEF BatchFit
<1>4. Len(proc[p].done) \in Nat
  BY <1>2, <1>3, SMT
<1>5. Len(proc[p].done) + 1 \in DOMAIN Batch
  BY <1>3, <1>4, SMT
<1>6. QED BY <1>5 DEF Call, Calls, Range

\* What a process that stays put holds is not disturbed.
LEMMA OtherKept ==
    ASSUME BatchFit, IInv, NEW p \in Procs, NEW q \in Procs \ {p}, Grows, Others(p), ByHolder(p)
    PROVE  PlaceOk(q)' /\ HoldOk(q)'
<1>0. /\ proc'[q] = proc[q] /\ Call(q)' = Call(q) /\ Types /\ PlaceOk(q) /\ HoldOk(q)
      /\ proc[q] \in Records
  BY DEF Others, Call, IInv, Types
<1>1. PlaceOk(q)'
  <2>1. proc[q].resumed # None => proc[q].resumed \in Calls
    BY <1>0 DEF Records
  <2>2. QED BY <1>0, <2>1 DEF PlaceOk, Grows
<1>2. CASE proc[q].st \in Resting \union Called
  <2>1. proc[q].disp = "none" /\ proc[q].st \notin Authorized3
    BY <1>0, <1>2 DEF PlaceOk, Resting, Called, Authorized3, Running, Storing, Sealing, Writing,
       Returning, Reading
  <2>2. QED BY <1>0, <1>1, <1>2, <2>1 DEF HoldOk, Authorized3, Storing, Sealing, Writing, Returning
<1>3. CASE proc[q].st \notin Resting \union Called
  <2> DEFINE c == Call(q)
             k == proc[q].completion
  <2>1. c \in Calls /\ proc[q].subject # None /\ Approved(c, proc[q].subject)
    BY <1>0, <1>3, CallsOfBatch DEF PlaceOk, HoldOk
  <2>2. Approved(c, proc[q].subject)'
    BY <1>0, <2>1 DEF Approved, Grows
  <2>3. proc[q].disp = "execute" => effects'[c] = effects[c] /\ sealed'[c] = sealed[c]
    BY <1>0, <2>1 DEF ByHolder, IInv, Exclusive
  <2>4. proc[q].disp = "execute" => started'[c] = started[c] /\ started[c] # None
    BY <1>0, <2>1 DEF HoldOk, Grows
  <2>5. proc[q].disp = "finalize" => sealed'[c] = sealed[c]
    BY <1>0, <2>1 DEF HoldOk, Grows
  <2>6. proc[q].disp = "reuse" => result'[c] = result[c]
    BY <1>0, <2>1 DEF HoldOk, Grows
  <2>7. proc[q].st = "append_result" => sealed'[c] = sealed[c]
    BY <1>0, <2>3, <2>5 DEF PlaceOk, Authorized3, Writing, ReuseAt, Returning, Records
  <2>8. proc[q].st \in Returning => result'[c] = k
    <3>1. proc[q].st \in Returning => k # None
      BY <1>0 DEF PlaceOk, HoldOk, Authorized3, Returning, Running, Records
    <3>2. QED BY <1>0, <2>1, <3>1 DEF HoldOk, Grows
  <2> HIDE DEF c
  <2>9. HoldOk(q)'
    BY <1>0, <2>1, <2>2, <2>3, <2>4, <2>5, <2>6, <2>7, <2>8, ZenonT(30) DEF HoldOk, Grows, c
  <2>10. QED BY <1>1, <2>9
<1>4. QED BY <1>2, <1>3

\* One step of process p keeps the invariant when it leaves its own state good.
LEMMA StepKeeps ==
    ASSUME BatchFit, IInv, NEW p \in Procs, Types', Grows, Others(p), ByHolder(p),
           \A c \in Calls : CallOk(c)', PlaceOk(p)', HoldOk(p)',
           proc'[p].disp = "execute" =>
              (proc[p].disp = "execute" /\ Call(p)' = Call(p)) \/ started[Call(p)'] = None,
           \A d \in delivered' : d \in delivered \/ result'[d[1]] = d[2]
    PROVE  IInv'
<1>1. \A q \in Procs : PlaceOk(q)' /\ HoldOk(q)'
  BY OtherKept
<1>2. Exclusive'
  <2>1. ASSUME NEW q \in Procs \ {p}, proc'[p].disp = "execute", proc'[q].disp = "execute",
               Call(p)' = Call(q)'
        PROVE  FALSE
    <3>1. proc'[q] = proc[q] /\ Call(q)' = Call(q) /\ HoldOk(q) /\ PlaceOk(q)
      BY DEF Others, Call, IInv
    <3>2. proc[q].st \in Authorized3
      BY <2>1, <3>1 DEF PlaceOk
    <3>3. proc[q].st \notin Resting \union Called
      BY <3>2 DEF Resting, Called, Authorized3, Running, Storing, Sealing, Writing,
         Returning, Reading
    <3>4. started[Call(q)] # None
      BY <2>1, <3>1, <3>3 DEF HoldOk
    <3>5. QED BY <2>1, <3>1, <3>4 DEF IInv, Exclusive
  <2>2. ASSUME NEW q \in Procs \ {p}, NEW r \in Procs \ {p}, proc'[q].disp = "execute",
               proc'[r].disp = "execute", Call(q)' = Call(r)'
        PROVE  q = r
    BY <2>2 DEF Others, Call, IInv, Exclusive
  <2>3. QED BY <2>1, <2>2 DEF Exclusive
<1>3. \A d \in delivered' : result'[d[1]] = d[2]
  <2>1. ASSUME NEW d \in delivered PROVE result'[d[1]] = d[2]
    <3>1. d[1] \in Calls /\ d[2] \in Completions /\ result[d[1]] = d[2]
      BY DEF IInv, Types
    <3>2. QED BY <3>1, ZenonT(30) DEF Grows, BatchFit
  <2>2. QED BY <2>1
<1>4. QED BY <1>1, <1>2, <1>3 DEF IInv

\* The receipts of a call that a step does not touch stay good.
LEMMA CallKept ==
    ASSUME BatchFit, IInv, Grows, NEW c \in Calls, started'[c] = started[c],
           sealed'[c] = sealed[c], result'[c] = result[c], effects'[c] = effects[c]
    PROVE  CallOk(c)'
<1>1. CallOk(c)
  BY DEF IInv
<1>2. started[c] # None => Approved(c, started[c])'
  BY <1>1 DEF CallOk, Approved, Grows
<1>3. QED BY <1>1, <1>2 DEF CallOk, Grows

\* What only a step of a process may change, and one that writes no receipt.
Quiet == UNCHANGED <<owners, decision, started, sealed, result, artifacts, effects, delivered>>

LEMMA QuietKeeps ==
    ASSUME BatchFit, IInv, NEW p \in Procs, Types', Quiet, Others(p), PlaceOk(p)', HoldOk(p)',
           proc'[p].disp = "execute" => proc[p].disp = "execute" /\ Call(p)' = Call(p)
    PROVE  IInv'
<1>1. Grows /\ ByHolder(p)
  BY DEF Grows, ByHolder, Quiet
<1>2. \A c \in Calls : CallOk(c)'
  BY <1>1, CallKept DEF Quiet
<1>3. QED BY <1>1, <1>2, StepKeeps DEF Quiet

\* One process's record is replaced.
LEMMA Replaced ==
    ASSUME Types, NEW p \in Procs, NEW r \in Records, proc' = [proc EXCEPT ![p] = r]
    PROVE  proc' \in [Procs -> Records] /\ proc'[p] = r /\ Others(p)
BY DEF Types, Others

\* A process that is over, or crashed, is idle.
LEMMA IdleFields ==
    ASSUME BatchFit, Types, NEW p \in Procs, proc' = [proc EXCEPT ![p] = Idle]
    PROVE  /\ proc' \in [Procs -> Records] /\ Others(p) /\ PlaceOk(p)' /\ HoldOk(p)'
           /\ proc'[p].disp # "execute"
<1>1. Idle \in Records
  <2>1. SubSeq(Batch, 1, 0) = <<>> /\ 0 \in 0 .. Len(Batch)
    BY SubSeqEmpty, LenProperties, SMT DEF BatchFit
  <2>2. <<>> \in Prefixes
    BY <2>1 DEF Prefixes
  <2>3. <<>> \in States /\ 0 \in 0 .. MaxToken
    BY SMT DEF States, BatchFit
  <2>4. QED BY <2>2, <2>3 DEF Idle, Records, Labels, Resting
<1>2. proc' \in [Procs -> Records] /\ proc'[p] = Idle /\ Others(p)
  BY <1>1 DEF Types, Others
<1>3. /\ Idle.st = "idle" /\ Idle.disp = "none" /\ Idle.resumed = None
  BY DEF Idle
<1>4. "idle" \in Resting /\ "idle" \notin Authorized3 /\ "idle" \notin {"put_next", "put_completion"}
  BY DEF Resting, Authorized3, Running, Storing, Sealing, Writing, Returning, Reading
<1>5. PlaceOk(p)'
  BY <1>2, <1>3, <1>4 DEF PlaceOk
<1>6. HoldOk(p)'
  BY <1>2, <1>3, <1>4 DEF HoldOk, Authorized3, Resting
<1>7. QED BY <1>2, <1>3, <1>5, <1>6

\* The lease after a run has ended.
LEMMA ReleasedType ==
    ASSUME BatchFit, Types, NEW p \in Procs
    PROVE  LET l == Released(p) IN
           /\ l \in [owner : Range(owners) \union {None}, token : 0 .. MaxToken]
           /\ l.owner # None => l.token >= 1
<1>1. CASE Live(p)
  <2> DEFINE l == [lease EXCEPT !.owner = None]
  <2>1. l \in [owner : Range(owners) \union {None}, token : 0 .. MaxToken] /\ l.owner = None
    BY DEF Types
  <2>2. QED BY <1>1, <2>1 DEF Released
<1>2. CASE ~Live(p)
  BY <1>2 DEF Released, Types
<1>3. QED BY <1>1, <1>2

\* A run ends: whatever it was at, nothing but the lease changes with it.
LEMMA EndKeeps ==
    ASSUME BatchFit, IInv, NEW p \in Procs, Ends(p), Quiet,
           UNCHANGED intent, saved' \in [pending : Calls \union {None}, state : States, done : Prefixes]
    PROVE  IInv'
<1>0. Types
  BY DEF IInv
<1>1. Types'
  <2>1. proc' \in [Procs -> Records]
    BY <1>0, IdleFields DEF Ends
  <2>2. /\ lease' \in [owner : Range(owners) \union {None}, token : 0 .. MaxToken]
        /\ lease'.owner # None => lease'.token >= 1
    BY <1>0, ReleasedType DEF Ends
  <2>3. QED BY <1>0, <2>1, <2>2 DEF Types, Quiet
<1>2. QED BY <1>0, <1>1, IdleFields, QuietKeeps DEF Ends

\* A step to another label.
LEMMA GotoFields ==
    ASSUME Types, NEW p \in Procs, NEW l \in Labels, Goto(p, l)
    PROVE  /\ proc' \in [Procs -> Records] /\ Others(p) /\ Call(p)' = Call(p)
           /\ proc'[p].st = l /\ proc'[p].token = proc[p].token
           /\ proc'[p].resumed = proc[p].resumed /\ proc'[p].bound = proc[p].bound
           /\ proc'[p].subject = proc[p].subject /\ proc'[p].disp = proc[p].disp
           /\ proc'[p].completion = proc[p].completion /\ proc'[p].state = proc[p].state
           /\ proc'[p].done = proc[p].done
<1>1. proc[p] \in Records
  BY DEF Types
<1> DEFINE r == [proc[p] EXCEPT !.st = l]
<1>2. /\ r \in Records /\ r.st = l /\ r.token = proc[p].token
      /\ r.resumed = proc[p].resumed /\ r.bound = proc[p].bound
      /\ r.subject = proc[p].subject /\ r.disp = proc[p].disp
      /\ r.completion = proc[p].completion /\ r.state = proc[p].state
      /\ r.done = proc[p].done
  BY <1>1 DEF Records
<1>3. proc' = [proc EXCEPT ![p] = r]
  BY DEF Goto
<1> HIDE DEF r
<1>4. proc' \in [Procs -> Records] /\ proc'[p] = r /\ Others(p)
  BY <1>2, <1>3 DEF Types, Others
<1>5. QED BY <1>2, <1>4 DEF Call

\* A step to another label that writes nothing.
LEMMA GotoKeeps ==
    ASSUME BatchFit, IInv, NEW p \in Procs, NEW l \in Labels, Goto(p, l), Quiet,
           intent' \subseteq Calls, UNCHANGED <<lease, saved>>,
           \* the new place fits the disposition, and what it takes to be there holds
           l \in Authorized3 <=> proc[p].disp # "none",
           proc[p].disp = "execute" => l \in ExecuteAt,
           proc[p].disp = "finalize" => l \in FinalizeAt,
           proc[p].disp = "reuse" => l \in ReuseAt,
           l \notin Resting => Len(proc[p].done) < Len(Batch),
           l # "idle" => proc[p].token >= 1,
           HoldOk(p)'
    PROVE  IInv'
<1>0. Types /\ PlaceOk(p)
  BY DEF IInv
<1>1. Types'
  BY <1>0, GotoFields DEF Types, Quiet
<1>2. PlaceOk(p)'
  BY <1>0, GotoFields DEF PlaceOk, Quiet
<1>3. QED BY <1>0, <1>1, <1>2, GotoFields, QuietKeeps

\* A run begins or resumes.
LEMMA AcquireKeeps ==
    ASSUME BatchFit, IInv, NEW p \in Procs, Acquire(p), owners' = owners
    PROVE  IInv'
<1>0. /\ Types /\ Quiet /\ UNCHANGED <<intent, saved>> /\ saved.pending \in Calls \union {None}
      /\ saved.state \in States /\ saved.done \in Prefixes /\ owners[p] \in Range(owners)
      /\ owners[p] # None
  <2>1. Types /\ Quiet /\ UNCHANGED <<intent, saved>>
    BY DEF IInv, Acquire, Quiet, receipts, history
  <2>2. owners \in [Procs -> Range(owners)] /\ None \notin Range(owners)
    BY <2>1 DEF Types, BatchFit
  <2>3. owners[p] \in Range(owners) /\ owners[p] # None
    BY <2>2
  <2>4. QED BY <2>1, <2>3 DEF Types
<1>1. /\ lease' \in [owner : Range(owners) \union {None}, token : 0 .. MaxToken]
      /\ lease'.token \in 0 .. MaxToken /\ lease'.token >= 1
  <2>1. lease.token \in 0 .. MaxToken /\ MaxToken \in Nat
    BY <1>0 DEF Types, BatchFit
  <2>2. CASE lease.owner = owners[p] /\ lease' = lease
    BY <1>0, <2>1, <2>2 DEF Types
  <2>3. CASE /\ lease.token < MaxToken
             /\ lease' = [owner |-> owners[p], token |-> lease.token + 1]
    <3>1. lease.token + 1 \in 0 .. MaxToken /\ lease.token + 1 >= 1
      BY <2>1, <2>3, SMT
    <3>2. QED BY <1>0, <2>3, <3>1
  <2>4. QED BY <2>2, <2>3 DEF Acquire
<1> DEFINE r == [Idle EXCEPT !.st = "ready", !.token = lease'.token, !.resumed = saved.pending,
                             !.state = saved.state, !.done = saved.done]
<1>2. /\ r.st = "ready" /\ r.token = lease'.token /\ r.resumed = saved.pending /\ r.disp = "none"
      /\ r \in Records
  BY <1>0, <1>1 DEF Idle, Records, Labels, Resting
<1>3. proc' = [proc EXCEPT ![p] = r]
  BY DEF Acquire
<1> HIDE DEF r
<1>4. proc' \in [Procs -> Records] /\ proc'[p] = r /\ Others(p)
  BY <1>0, <1>2, <1>3 DEF Types, Others
<1>5. Types'
  BY <1>0, <1>1, <1>4 DEF Types, Quiet
<1>6. "ready" \in Resting /\ "ready" \notin Authorized3 /\ "ready" # "idle"
  BY DEF Resting, Authorized3, Running, Storing, Sealing, Writing, Returning, Reading
<1>7. PlaceOk(p)'
  BY <1>0, <1>1, <1>2, <1>4, <1>6 DEF PlaceOk, Acquire, Quiet
<1>8. HoldOk(p)'
  BY <1>2, <1>4, <1>6 DEF HoldOk, Authorized3, Storing
<1>9. QED BY <1>2, <1>4, <1>5, <1>7, <1>8, QuietKeeps, <1>0

\* The intent, the way into the executor, and the end of the batch.
LEMMA EntryKeeps ==
    ASSUME BatchFit, IInv, NEW p \in Procs, EmitCall(p) \/ Enter(p) \/ Finish(p), owners' = owners
    PROVE  IInv'
<1>0. Types /\ PlaceOk(p) /\ HoldOk(p) /\ proc[p] \in Records
  BY DEF IInv, Types
<1>1. CASE EmitCall(p)
  <2>1. Quiet /\ UNCHANGED <<lease, saved>> /\ Goto(p, "prepare") /\ proc[p].st = "ready"
    BY <1>1 DEF EmitCall, Quiet, history, At
  <2>2. Len(proc[p].done) < Len(Batch)
    <3>1. PICK n \in 0 .. Len(Batch) : proc[p].done = SubSeq(Batch, 1, n)
      BY <1>0 DEF Records, Prefixes
    <3>2. Batch \in Seq(Calls)
      BY DEF BatchFit
    <3>3. n # Len(Batch)
      BY <1>1, <3>1, <3>2, SubSeqFull DEF EmitCall
    <3>4. Len(Batch) \in Nat /\ n \in Nat /\ n < Len(Batch)
      BY <3>1, <3>2, <3>3, LenProperties, SMT
    <3>5. Len(proc[p].done) = n
      BY <3>1, <3>2, <3>4, SMT
    <3>6. QED BY <3>4, <3>5
  <2>3. intent' \subseteq Calls
    BY <1>0, <1>1, <2>2, CallsOfBatch DEF EmitCall, Types
  <2>4. "prepare" \in Labels /\ "prepare" \in Called /\ "prepare" \notin Authorized3
    BY DEF Labels, Called, Authorized3, Running, Storing, Sealing, Writing, Returning, Reading
  <2>5. proc[p].disp = "none" /\ proc[p].token >= 1
    BY <1>0, <2>1 DEF PlaceOk, Authorized3, Running, Storing, Sealing, Writing, Returning, Reading
  <2>6. proc'[p].st = "prepare" /\ proc'[p].disp = "none"
    BY <1>0, <2>1, <2>4, <2>5, GotoFields
  <2>7. HoldOk(p)'
    BY <2>4, <2>6 DEF HoldOk, Authorized3, Storing
  <2>8. QED BY <2>1, <2>2, <2>3, <2>4, <2>5, <2>7, GotoKeeps
<1>2. CASE Enter(p)
  <2>1. /\ Quiet /\ UNCHANGED <<lease, saved, intent>> /\ proc[p].st = "execute"
        /\ proc' = [proc EXCEPT ![p].st = "guard_authorize",
                                ![p].bound = (Recovery(Call(p)) = "not_started")]
    BY <1>2 DEF Enter, Quiet, durable, receipts, history, At
  <2>2. PICK b \in BOOLEAN : b = (Recovery(Call(p)) = "not_started")
    OBVIOUS
  <2> DEFINE r == [proc[p] EXCEPT !.st = "guard_authorize", !.bound = b]
  <2>3. "guard_authorize" \in Labels
    BY DEF Labels, Subjected
  <2>4. /\ r \in Records /\ r.st = "guard_authorize" /\ r.token = proc[p].token
        /\ r.resumed = proc[p].resumed /\ r.subject = proc[p].subject /\ r.disp = proc[p].disp
        /\ r.completion = proc[p].completion /\ r.done = proc[p].done
    BY <1>0, <2>3 DEF Records
  <2>5. proc' = [proc EXCEPT ![p] = r]
    BY <2>1, <2>2
  <2> HIDE DEF r
  <2>6. proc' \in [Procs -> Records] /\ proc'[p] = r /\ Others(p) /\ Call(p)' = Call(p)
    BY <1>0, <2>4, <2>5 DEF Types, Others, Call
  <2>7. Types'
    BY <1>0, <2>1, <2>6 DEF Types, Quiet
  <2>8. proc[p].disp = "none"
    BY <1>0, <2>1 DEF PlaceOk, Authorized3, Running, Storing, Sealing, Writing, Returning, Reading
  <2>9. /\ "guard_authorize" \notin Authorized3 /\ "execute" \notin Resting \union Called
        /\ "execute" # "idle" /\ "guard_authorize" \notin Resting
    BY DEF Authorized3, Running, Storing, Sealing, Writing, Returning, Reading, Resting, Called
  <2>10. PlaceOk(p)'
    BY <1>0, <2>1, <2>4, <2>6, <2>8, <2>9 DEF PlaceOk, Quiet
  <2>11. proc[p].subject # None /\ Approved(Call(p), proc[p].subject)
    BY <1>0, <2>1, <2>9 DEF HoldOk
  <2>12. Approved(Call(p), proc[p].subject)'
    BY <2>1, <2>4, <2>6, <2>11 DEF Approved, Quiet
  <2>13. HoldOk(p)'
    BY <2>4, <2>6, <2>8, <2>9, <2>11, <2>12 DEF HoldOk, Authorized3, Storing
  <2>14. QED BY <2>1, <2>4, <2>6, <2>7, <2>8, <2>10, <2>13, QuietKeeps
<1>3. CASE Finish(p)
  BY <1>0, <1>3, EndKeeps DEF Finish, Quiet, receipts, history, Types
<1>4. QED BY <1>1, <1>2, <1>3

\* The decision of the user.
LEMMA DecideKeeps ==
    ASSUME BatchFit, IInv, Decide, owners' = owners
    PROVE  IInv'
<1>0. /\ Types
      /\ UNCHANGED <<lease, saved, intent, started, sealed, result, artifacts, proc, effects, delivered>>
  BY DEF IInv, Decide, receipts, history
<1>1. PICK d \in Decisions : decision' = [decision EXCEPT ![saved.pending] = d]
  BY DEF Decide
<1>2. /\ decision' \in [Calls -> Decisions \union {None}]
      /\ \A c \in Calls : decision[c] # None => decision'[c] = decision[c]
  BY <1>0, <1>1 DEF Decide, Types
<1>3. Types'
  BY <1>0, <1>2 DEF Types
<1>4. Grows
  BY <1>0, <1>2 DEF Grows
<1>5. \A c \in Calls : CallOk(c)'
  BY <1>0, <1>4, CallKept
<1>6. ASSUME NEW q \in Procs PROVE PlaceOk(q)' /\ HoldOk(q)'
  <2>0. PlaceOk(q) /\ HoldOk(q) /\ Call(q)' = Call(q)
    BY <1>0 DEF IInv, Call
  <2>1. PlaceOk(q)'
    <3>1. proc[q].resumed # None => proc[q].resumed \in Calls
      BY <1>0 DEF Types, Records
    <3>2. QED BY <1>0, <1>2, <2>0, <3>1 DEF PlaceOk
  <2>2. ASSUME proc[q].st \notin Resting \union Called
        PROVE  proc[q].subject # None /\ Approved(Call(q), proc[q].subject)'
    <3>1. Approved(Call(q), proc[q].subject) /\ proc[q].subject # None /\ Call(q) \in Calls
      BY <1>0, <2>0, <2>2, CallsOfBatch DEF HoldOk, PlaceOk
    <3>2. QED BY <1>0, <1>2, <2>0, <3>1 DEF Approved
  <2>3. HoldOk(q)'
    BY <1>0, <2>0, <2>2, ZenonT(30) DEF HoldOk
  <2>4. QED BY <2>1, <2>3
<1>7. Exclusive'
  BY <1>0 DEF IInv, Exclusive, Call
<1>8. QED BY <1>0, <1>3, <1>5, <1>6, <1>7 DEF IInv

\* The death of a process, and its suspension.
LEMMA StopsKeep ==
    ASSUME BatchFit, IInv, NEW p \in Procs, Crash(p) \/ Suspend(p), owners' = owners
    PROVE  IInv'
<1>0. Types /\ proc[p] \in Records /\ PlaceOk(p)
  BY DEF IInv, Types
<1>1. CASE Crash(p)
  <2>1. Quiet /\ UNCHANGED <<lease, saved, intent>> /\ proc' = [proc EXCEPT ![p] = Idle]
    BY <1>1 DEF Crash, Quiet, durable, receipts, history
  <2>2. Types'
    BY <1>0, <2>1, IdleFields DEF Types, Quiet
  <2>3. QED BY <1>0, <2>1, <2>2, IdleFields, QuietKeeps
<1>2. CASE Suspend(p)
  <2>1. Quiet /\ UNCHANGED intent /\ Ends(p) /\ proc[p].st = "suspend"
    BY <1>2 DEF Suspend, Quiet, receipts, history, At
  <2>2. Call(p) \in Calls
    <3>1. "suspend" \notin Resting
      BY DEF Resting
    <3>2. QED BY <1>0, <2>1, <3>1, CallsOfBatch DEF PlaceOk
  <2>3. saved' \in [pending : Calls \union {None}, state : States, done : Prefixes]
    <3>1. [pending |-> Call(p), state |-> proc[p].state, done |-> proc[p].done]
             \in [pending : Calls \union {None}, state : States, done : Prefixes]
      BY <1>0, <2>2 DEF Records
    <3>2. QED BY <1>0, <1>2, <3>1 DEF Suspend, Types
  <2>4. QED BY <2>1, <2>3, EndKeeps
<1>3. QED BY <1>1, <1>2

\* A step to a label that asks for nothing more.
LEMMA GotoHold ==
    ASSUME IInv, NEW p \in Procs, NEW l \in Labels, Goto(p, l), Quiet,
           proc[p].st \notin Resting \union Called,
           proc[p].disp = "execute" => (l \in Running <=> proc[p].st \in Running),
           l \notin {"put_next", "put_completion", "append_result"},
           l \in Sealing \union Writing => proc[p].st \in Sealing \union Writing,
           l \in Sealing => proc[p].st \in Sealing,
           l \in Returning => proc[p].st \in Returning
    PROVE  HoldOk(p)'
<1>1. Types /\ HoldOk(p)
  BY DEF IInv
<1>2. /\ Call(p)' = Call(p) /\ proc'[p].st = l /\ proc'[p].disp = proc[p].disp
      /\ proc'[p].subject = proc[p].subject /\ proc'[p].completion = proc[p].completion
  BY <1>1, GotoFields
<1>3. proc[p].subject # None /\ Approved(Call(p), proc[p].subject)
  BY <1>1 DEF HoldOk
<1>4. Approved(Call(p), proc[p].subject)'
  BY <1>2, <1>3 DEF Approved, Quiet
<1>5. QED BY <1>1, <1>2, <1>3, <1>4 DEF HoldOk, Quiet

\* A verified lease, or the end of the run.
LEMMA AssertLiveKeeps ==
    ASSUME BatchFit, IInv, NEW p \in Procs, AssertLive(p), owners' = owners
    PROVE  IInv'
<1>0. Types /\ PlaceOk(p) /\ HoldOk(p) /\ proc[p] \in Records /\ Quiet /\ UNCHANGED <<saved, intent>>
  BY DEF IInv, Types, AssertLive, Quiet, receipts, history
<1>1. CASE Raises(p, "lease lost")
  BY <1>0, <1>1, EndKeeps DEF Raises, Types
<1>2. CASE Goto(p, AfterGuard[proc[p].st]) /\ UNCHANGED lease
  <2> DEFINE l == AfterGuard[proc[p].st]
  <2>1. \/ proc[p].st = "guard_authorize" /\ l = "authorize"
        \/ proc[p].st = "guard_run" /\ l = "run"
        \/ proc[p].st = "guard_reuse" /\ l = "recover"
        \/ proc[p].st = "guard_finalize" /\ l = "finalize"
        \/ proc[p].st = "guard_store" /\ l = "put_result"
        \/ proc[p].st = "guard_seal" /\ l = "seal"
        \/ proc[p].st = "guard_result" /\ l = "persist"
        \/ proc[p].st = "guard_return" /\ l = "deliver"
    <3>1. proc[p].st \in {"guard_authorize", "guard_run", "guard_reuse", "guard_finalize",
                         "guard_store", "guard_seal", "guard_result", "guard_return"}
      <4>1. proc[p].st \in DOMAIN AfterGuard
        BY DEF AssertLive
      <4>2. QED BY <4>1 DEF AfterGuard
    <3>2. /\ AfterGuard["guard_authorize"] = "authorize" /\ AfterGuard["guard_run"] = "run"
          /\ AfterGuard["guard_reuse"] = "recover" /\ AfterGuard["guard_finalize"] = "finalize"
          /\ AfterGuard["guard_store"] = "put_result" /\ AfterGuard["guard_seal"] = "seal"
          /\ AfterGuard["guard_result"] = "persist" /\ AfterGuard["guard_return"] = "deliver"
      BY DEF AfterGuard
    <3>3. QED BY <3>1, <3>2
  <2> HIDE DEF l
  <2>2. l \in Labels /\ l # "idle" /\ l \notin Resting /\ proc[p].st # "idle"
        /\ proc[p].st \notin Resting \union Called
    BY <2>1 DEF Labels, Resting, Called, Subjected, Authorized3, Running, Storing, Sealing,
       Writing, Returning, Reading
  <2>3. /\ l \in Running <=> proc[p].st \in Running
        /\ l \notin {"put_next", "put_completion", "append_result"}
        /\ l \in Sealing \union Writing => proc[p].st \in Sealing \union Writing
        /\ l \in Sealing => proc[p].st \in Sealing
        /\ l \in Returning => proc[p].st \in Returning
    BY <2>1 DEF Running, Sealing, Writing, Returning
  <2>4. HoldOk(p)'
    BY <1>0, <1>2, <2>2, <2>3, GotoHold DEF l
  <2>5. l \in Authorized3 <=> proc[p].disp # "none"
    BY <1>0, <2>1 DEF PlaceOk, Authorized3, Running, Storing, Sealing, Writing, Returning, Reading
  <2>6. proc[p].disp = "execute" => l \in ExecuteAt
    BY <1>0, <2>1 DEF PlaceOk, ExecuteAt, Running, Storing, Sealing, Writing, Returning
  <2>7. proc[p].disp = "finalize" => l \in FinalizeAt
    BY <1>0, <2>1 DEF PlaceOk, FinalizeAt, Returning
  <2>8. proc[p].disp = "reuse" => l \in ReuseAt
    BY <1>0, <2>1 DEF PlaceOk, ReuseAt, Returning
  <2>9. Len(proc[p].done) < Len(Batch) /\ proc[p].token >= 1
    BY <1>0, <2>2 DEF PlaceOk
  <2>10. intent' \subseteq Calls
    BY <1>0 DEF Types
  <2>11. QED BY <1>0, <1>2, <2>2, <2>4, <2>5, <2>6, <2>7, <2>8, <2>9, <2>10, GotoKeeps DEF l
<1>3. QED BY <1>1, <1>2 DEF AssertLive

\* The subject of a call is prepared.
LEMMA PreparedKeeps ==
    ASSUME BatchFit, IInv, NEW p \in Procs, NEW a \in Decisions \union {"not_required"},
           proc[p].st = "prepare", Quiet, UNCHANGED <<lease, saved, intent>>,
           Approved(Call(p), Subject(p, a)),
           proc' = [proc EXCEPT ![p].st = "execute", ![p].subject = Subject(p, a)]
    PROVE  IInv'
<1>0. Types /\ PlaceOk(p) /\ proc[p] \in Records
  BY DEF IInv, Types
<1>1. /\ "execute" \in Labels /\ "execute" \notin Authorized3 /\ "prepare" \notin Authorized3
      /\ "execute" \notin Resting /\ "prepare" \notin Resting
  BY DEF Labels, Subjected, Resting, Authorized3, Running, Storing, Sealing, Writing, Returning,
     Reading
<1>2. Subject(p, a) \in Subjects
  <2>1. proc[p].token \in 1 .. MaxToken
    <3>1. proc[p].token \in 0 .. MaxToken /\ proc[p].token >= 1 /\ MaxToken \in Nat
      BY <1>0 DEF Records, PlaceOk, BatchFit
    <3>2. QED BY <3>1, SMT
  <2>2. owners[p] \in UNION {Range(o) : o \in Owners}
    <3>1. owners \in Owners /\ owners \in [Procs -> Range(owners)]
      BY <1>0 DEF Types, BatchFit
    <3>2. owners[p] \in Range(owners)
      BY <3>1
    <3>3. QED BY <3>1, <3>2
  <2>3. QED BY <2>1, <2>2 DEF Subject, Subjects
<1> DEFINE s == Subject(p, a)
<1> HIDE DEF s
<1> DEFINE r == [proc[p] EXCEPT !.st = "execute", !.subject = s]
<1>3. /\ r \in Records /\ r.st = "execute" /\ r.subject = s /\ r.token = proc[p].token
      /\ r.resumed = proc[p].resumed /\ r.disp = proc[p].disp /\ r.done = proc[p].done
  BY <1>0, <1>1, <1>2 DEF Records, s
<1>4. proc' = [proc EXCEPT ![p] = r]
  BY DEF s
<1> HIDE DEF r
<1>5. proc' \in [Procs -> Records] /\ proc'[p] = r /\ Others(p) /\ Call(p)' = Call(p)
  <2>1. proc' \in [Procs -> Records] /\ proc'[p] = r /\ Others(p)
    BY <1>0, <1>3, <1>4, Replaced
  <2>2. QED BY <1>3, <2>1 DEF Call
<1>6. Types'
  BY <1>0, <1>5 DEF Types, Quiet
<1>7. proc[p].disp = "none"
  BY <1>0, <1>1 DEF PlaceOk
<1>8. PlaceOk(p)'
  BY <1>0, <1>1, <1>3, <1>5, <1>7 DEF PlaceOk, Quiet
<1>9. Approved(Call(p), s)' /\ s # None
  BY <1>2, <1>5 DEF Approved, Quiet, s, BatchFit, Subject
<1>10. HoldOk(p)'
  <2>1. Approved(Call(p), proc[p].subject)' /\ proc'[p].subject # None
    BY <1>3, <1>5, <1>9 DEF Approved, Quiet, s, Subject
  <2>2. QED BY <1>1, <1>3, <1>5, <1>7, <2>1 DEF HoldOk, Authorized3, Storing
<1>11. QED BY <1>3, <1>5, <1>6, <1>7, <1>8, <1>10, QuietKeeps

\* prepare_tool_execution.
LEMMA PrepareKeeps ==
    ASSUME BatchFit, IInv, NEW p \in Procs, Prepare(p), owners' = owners
    PROVE  IInv'
<1> DEFINE c == Call(p)
<1>0. /\ Types /\ PlaceOk(p) /\ proc[p] \in Records /\ proc[p].st = "prepare"
      /\ Quiet /\ UNCHANGED <<lease, saved, intent>>
  BY DEF IInv, Types, Prepare, Quiet, durable, receipts, history, At
<1>1. "prepare" \notin Authorized3 /\ "prepare" \notin Resting
  BY DEF Resting, Authorized3, Running, Storing, Sealing, Writing, Returning, Reading
<1>2. c \in Calls /\ proc[p].disp = "none"
  BY <1>0, <1>1, CallsOfBatch DEF PlaceOk
<1>3. CASE /\ Recovery(c) \in {"finalizable", "reusable"}
           /\ proc' = [proc EXCEPT ![p].st = "execute",
                                   ![p].subject = Subject(p, started[c].approval)]
  <2>1. sealed[c] # None \/ result[c] # None
    BY <1>3 DEF Recovery
  <2>2. started[c] # None /\ Approved(c, started[c])
    BY <1>2, <2>1 DEF IInv, CallOk
  <2>3. started[c] \in Subjects
    BY <1>0, <1>2, <2>2 DEF Types
  <2>4. PICK a : a = started[c].approval
    OBVIOUS
  <2>5. a \in Decisions \union {"not_required"}
    BY <2>3, <2>4 DEF Subjects
  <2>6. Approved(c, Subject(p, a))
    BY <2>2, <2>4 DEF Approved, Subject
  <2>7. QED BY <1>0, <1>3, <2>4, <2>5, <2>6, PreparedKeeps
<1>4. CASE /\ c \notin Guarded
           /\ proc' = [proc EXCEPT ![p].st = "execute", ![p].subject = Subject(p, "not_required")]
  <2>1. Approved(c, Subject(p, "not_required"))
    BY <1>4 DEF Approved, Subject
  <2>2. QED BY <1>0, <1>4, <2>1, PreparedKeeps
<1>5. CASE /\ c \in Guarded /\ proc[p].resumed = c
           /\ proc' = [proc EXCEPT ![p].st = "execute", ![p].subject = Subject(p, decision[c])]
  <2>1. decision[c] # None
    BY <1>0, <1>2, <1>5 DEF PlaceOk, BatchFit
  <2>2. PICK a : a = decision[c]
    OBVIOUS
  <2>3. a \in Decisions
    BY <1>0, <1>2, <2>1, <2>2 DEF Types
  <2>4. Approved(c, Subject(p, a))
    BY <1>5, <2>1, <2>2 DEF Approved, Subject
  <2>5. QED BY <1>0, <1>5, <2>2, <2>3, <2>4, PreparedKeeps
<1>6. CASE Goto(p, "suspend")
  <2>1. /\ "suspend" \in Labels /\ "suspend" \in Called /\ "suspend" \notin Authorized3
        /\ "suspend" # "idle"
    BY DEF Labels, Called, Authorized3, Running, Storing, Sealing, Writing, Returning, Reading
  <2>2. proc'[p].st = "suspend" /\ proc'[p].disp = "none"
    BY <1>0, <1>2, <1>6, <2>1, GotoFields
  <2>3. HoldOk(p)'
    BY <2>1, <2>2 DEF HoldOk, Authorized3, Storing
  <2>4. Len(proc[p].done) < Len(Batch) /\ proc[p].token >= 1 /\ intent' \subseteq Calls
    BY <1>0, <1>1 DEF PlaceOk, Types
  <2>5. QED BY <1>0, <1>2, <1>6, <2>1, <2>3, <2>4, GotoKeeps
<1>7. QED BY <1>3, <1>4, <1>5, <1>6 DEF Prepare

\* The shape of an authorization.
Granted(p, d, k) ==
    proc' = [proc EXCEPT ![p].st = "validate", ![p].disp = d, ![p].completion = k]

LEMMA AuthorizedFields ==
    ASSUME BatchFit, Types, NEW p \in Procs, NEW d \in {"execute", "finalize", "reuse"}, NEW k,
           k \in Completions \union {None}, Granted(p, d, k)
    PROVE  /\ proc' \in [Procs -> Records] /\ Others(p) /\ Call(p)' = Call(p)
           /\ proc'[p].st = "validate" /\ proc'[p].token = proc[p].token
           /\ proc'[p].resumed = proc[p].resumed /\ proc'[p].subject = proc[p].subject
           /\ proc'[p].disp = d /\ proc'[p].completion = k /\ proc'[p].done = proc[p].done
<1>1. proc[p] \in Records /\ "validate" \in Labels
  BY DEF Types, Labels, Authorized3, Running
<1> DEFINE r == [proc[p] EXCEPT !.st = "validate", !.disp = d, !.completion = k]
<1>2. /\ r \in Records /\ r.st = "validate" /\ r.token = proc[p].token
      /\ r.resumed = proc[p].resumed /\ r.subject = proc[p].subject /\ r.disp = d
      /\ r.completion = k /\ r.done = proc[p].done
  BY <1>1 DEF Records
<1>3. proc' = [proc EXCEPT ![p] = r]
  BY DEF Granted
<1> HIDE DEF r
<1>4. proc' \in [Procs -> Records] /\ proc'[p] = r /\ Others(p)
  BY <1>2, <1>3, Replaced
<1>5. QED BY <1>2, <1>4 DEF Call

\* authorize_execution.
LEMMA AuthorizeKeeps ==
    ASSUME BatchFit, IInv, NEW p \in Procs, Authorize(p), owners' = owners
    PROVE  IInv'
<1> DEFINE c == Call(p)
<1>0. /\ Types /\ PlaceOk(p) /\ HoldOk(p) /\ proc[p] \in Records /\ proc[p].st = "authorize"
      /\ Quiet /\ UNCHANGED <<saved, intent>>
  BY DEF IInv, Types, Authorize, Quiet, receipts, history, At
<1>1. /\ "authorize" \notin Authorized3 /\ "authorize" \notin Resting \union Called
      /\ "authorize" # "idle" /\ "validate" \in Running /\ "validate" \in Authorized3
      /\ "validate" \notin Resting \union Called
      /\ "validate" \notin Sealing \union Writing \union Returning
      /\ "validate" \in ExecuteAt \intersect FinalizeAt \intersect ReuseAt
  BY DEF Resting, Called, Authorized3, Running, Storing, Sealing, Writing, Returning, Reading,
     ExecuteAt, FinalizeAt, ReuseAt
<1>2. /\ c \in Calls /\ proc[p].disp = "none" /\ proc[p].subject # None
      /\ Approved(c, proc[p].subject) /\ Len(proc[p].done) < Len(Batch) /\ proc[p].token >= 1
  BY <1>0, <1>1, CallsOfBatch DEF PlaceOk, HoldOk
<1>3. CASE Goto(p, "claim") /\ UNCHANGED lease
  <2>1. /\ "claim" \in Labels /\ "claim" \notin Authorized3 /\ "claim" # "idle"
        /\ "claim" \notin Running \union Sealing \union Writing \union Returning
    BY DEF Labels, Subjected, Authorized3, Running, Storing, Sealing, Writing, Returning, Reading
  <2>2. HoldOk(p)'
    BY <1>0, <1>1, <1>2, <1>3, <2>1, GotoHold
  <2>3. intent' \subseteq Calls
    BY <1>0 DEF Types
  <2>4. QED BY <1>0, <1>2, <1>3, <2>1, <2>2, <2>3, GotoKeeps
<1>4. CASE Raises(p, "uncertain or corrupt")
  BY <1>0, <1>4, EndKeeps DEF Raises, Types
<1>5. ASSUME NEW d \in {"finalize", "reuse"}, Authorized(p, d), UNCHANGED lease,
             d = "finalize" => sealed[c] # None, d = "reuse" => result[c] # None
      PROVE  IInv'
  <2>1. PICK k \in Completions : k = IF d = "finalize" THEN sealed[c] ELSE result[c]
    BY <1>0, <1>2, <1>5 DEF Types
  <2>2. Granted(p, d, k)
    BY <1>5, <2>1 DEF Authorized, Granted
  <2>3. d = "finalize" => k = sealed[c]
    BY <2>1
  <2>4. (d = "reuse" => k = result[c]) /\ k # None
    BY <2>1 DEF BatchFit
  <2>5. /\ proc' \in [Procs -> Records] /\ Others(p) /\ Call(p)' = Call(p)
        /\ proc'[p].st = "validate" /\ proc'[p].token = proc[p].token
        /\ proc'[p].resumed = proc[p].resumed /\ proc'[p].subject = proc[p].subject
        /\ proc'[p].disp = d /\ proc'[p].completion = k /\ proc'[p].done = proc[p].done
    <3>1. d \in {"execute", "finalize", "reuse"} /\ k \in Completions \union {None}
      BY <2>1
    <3>2. QED BY <1>0, <2>2, <3>1, AuthorizedFields
  <2>6. Types'
    BY <1>0, <1>5, <2>5 DEF Types, Quiet
  <2>7. PlaceOk(p)'
    BY <1>0, <1>1, <1>2, <1>5, <2>5 DEF PlaceOk, Quiet
  <2>8. Approved(Call(p), proc[p].subject)'
    BY <1>0, <1>2, <2>5 DEF Approved, Quiet
  <2>9. HoldOk(p)'
    BY <1>0, <1>1, <1>2, <1>5, <2>1, <2>3, <2>4, <2>5, <2>8 DEF HoldOk, Quiet
  <2>10. QED BY <1>0, <1>5, <2>5, <2>6, <2>7, <2>9, QuietKeeps
<1>6. CASE /\ Recovery(c) \notin {"not_started", "corrupt", "uncertain"}
           /\ Authorized(p, IF Recovery(c) = "finalizable" THEN "finalize" ELSE "reuse")
           /\ UNCHANGED lease
  <2>1. CASE Recovery(c) = "finalizable"
    BY <1>5, <1>6, <2>1 DEF Recovery
  <2>2. CASE Recovery(c) # "finalizable"
    BY <1>5, <1>6, <2>2 DEF Recovery
  <2>3. QED BY <2>1, <2>2
<1>7. QED BY <1>3, <1>4, <1>6 DEF Authorize

\* The start is claimed, found or refused.
LEMMA ClaimKeeps ==
    ASSUME BatchFit, IInv, NEW p \in Procs, Claim(p), owners' = owners
    PROVE  IInv'
<1> DEFINE c == Call(p)
           s == proc[p].subject
<1>0. /\ Types /\ PlaceOk(p) /\ HoldOk(p) /\ proc[p] \in Records /\ proc[p].st = "claim"
      /\ UNCHANGED <<owners, decision, saved, intent, sealed, result, artifacts, effects, delivered>>
  BY DEF IInv, Types, Claim, history, At
<1>1. /\ "claim" \notin Authorized3 /\ "claim" \notin Resting \union Called
      /\ "claim" # "idle" /\ "validate" \in Running /\ "validate" \in Authorized3
      /\ "validate" \notin Resting \union Called
      /\ "validate" \notin Sealing \union Writing \union Returning /\ "validate" \in ExecuteAt
  BY DEF Resting, Called, Authorized3, Running, Storing, Sealing, Writing, Returning, Reading,
     ExecuteAt
<1>2. /\ c \in Calls /\ proc[p].disp = "none" /\ s # None /\ s \in Subjects
      /\ Approved(c, s) /\ Len(proc[p].done) < Len(Batch) /\ proc[p].token >= 1
  BY <1>0, <1>1, CallsOfBatch DEF PlaceOk, HoldOk, Records
<1>3. CASE /\ started[c] = None /\ started' = [started EXCEPT ![c] = s]
           /\ Authorized(p, "execute") /\ UNCHANGED lease
  <2>1. Granted(p, "execute", None)
    BY <1>3 DEF Authorized, Granted
  <2>2. /\ proc' \in [Procs -> Records] /\ Others(p) /\ Call(p)' = Call(p)
        /\ proc'[p].st = "validate" /\ proc'[p].token = proc[p].token
        /\ proc'[p].resumed = proc[p].resumed /\ proc'[p].subject = s
        /\ proc'[p].disp = "execute" /\ proc'[p].done = proc[p].done
    BY <1>0, <2>1, AuthorizedFields
  <2>3. started' \in [Calls -> Subjects \union {None}] /\ started'[c] = s
        /\ \A e \in Calls \ {c} : started'[e] = started[e]
    BY <1>0, <1>2, <1>3 DEF Types
  <2>4. Types'
    BY <1>0, <1>3, <2>2, <2>3 DEF Types
  <2>5. Grows /\ ByHolder(p)
    BY <1>0, <1>3, <2>3 DEF Grows, ByHolder
  <2>6. Approved(c, s)'
    BY <1>0, <1>2, <2>2 DEF Approved
  <2>7. effects[c] = <<>> /\ sealed[c] = None /\ result[c] = None
    <3>1. CallOk(c)
      BY <1>2 DEF IInv
    <3>2. effects[c] # <<>> => started[c] \in Subjects
      <4>1. effects[c] \in Seq(Subjects) /\ Len(effects[c]) <= 1
        BY <1>0, <1>2, <3>1 DEF Types, CallOk
      <4>2. effects[c] # <<>> => effects[c][1] \in Subjects
        BY <4>1, EmptySeq, LenProperties, ElementOfSeq, SMT
      <4>3. QED BY <3>1, <4>2 DEF CallOk
    <3>3. QED BY <1>3, <3>1, <3>2 DEF CallOk, BatchFit
  <2>8. CallOk(c)'
    <3>1. Len(<<>>) <= 1
      BY SMT
    <3>2. Approved(c, started[c])'
      BY <2>2, <2>3, <2>6 DEF Approved
    <3>3. QED BY <1>0, <2>2, <2>3, <2>7, <3>1, <3>2 DEF CallOk
  <2>9. \A e \in Calls : CallOk(e)'
    <3>1. ASSUME NEW e \in Calls \ {c} PROVE CallOk(e)'
      BY <1>0, <2>3, <2>5, <3>1, CallKept
    <3>2. QED BY <2>2, <2>8, <3>1
  <2>10. PlaceOk(p)'
    BY <1>0, <1>1, <1>2, <2>2 DEF PlaceOk
  <2>11. HoldOk(p)'
    BY <1>0, <1>1, <1>2, <2>2, <2>3, <2>6, <2>7 DEF HoldOk, Approved
  <2>12. QED BY <1>0, <1>3, <2>2, <2>4, <2>5, <2>9, <2>10, <2>11, StepKeeps
<1>4. CASE Goto(p, "authorize") /\ UNCHANGED <<started, lease>>
  <2>1. /\ "authorize" \in Labels /\ "authorize" \notin Authorized3 /\ "authorize" # "idle"
        /\ "authorize" \notin Running \union Sealing \union Writing \union Returning
    BY DEF Labels, Subjected, Authorized3, Running, Storing, Sealing, Writing, Returning, Reading
  <2>2. Quiet
    BY <1>0, <1>4 DEF Quiet
  <2>3. HoldOk(p)'
    BY <1>0, <1>1, <1>2, <1>4, <2>1, <2>2, GotoHold
  <2>4. intent' \subseteq Calls
    BY <1>0 DEF Types
  <2>5. QED BY <1>0, <1>2, <1>4, <2>1, <2>2, <2>3, <2>4, GotoKeeps
<1>5. CASE Raises(p, "conflict") /\ UNCHANGED started
  BY <1>0, <1>5, EndKeeps DEF Raises, Types, Quiet
<1>6. QED BY <1>3, <1>4, <1>5 DEF Claim

\* _validate_authorization.
LEMMA ValidateKeeps ==
    ASSUME BatchFit, IInv, NEW p \in Procs, Validate(p), owners' = owners
    PROVE  IInv'
<1>0. /\ Types /\ PlaceOk(p) /\ HoldOk(p) /\ proc[p] \in Records /\ proc[p].st = "validate"
      /\ Quiet /\ UNCHANGED <<saved, intent>>
  BY DEF IInv, Types, Validate, Quiet, receipts, history, At
<1>1. CASE Raises(p, "authorization not backed")
  BY <1>0, <1>1, EndKeeps DEF Raises, Types
<1>2. CASE ~Raises(p, "authorization not backed")
  <2> DEFINE next == [execute |-> "guard_run", finalize |-> "guard_finalize", reuse |-> "guard_reuse"]
             l == next[proc[p].disp]
  <2>1. Goto(p, l) /\ UNCHANGED lease
    BY <1>2 DEF Validate
  <2>2. proc[p].disp \in {"execute", "finalize", "reuse"} /\ proc[p].st # "idle"
        /\ proc[p].st \notin Resting \union Called /\ proc[p].st \in Running
    BY <1>0 DEF PlaceOk, Records, Authorized3, Running, Resting, Called
  <2>3. \/ proc[p].disp = "execute" /\ l = "guard_run"
        \/ proc[p].disp = "finalize" /\ l = "guard_finalize"
        \/ proc[p].disp = "reuse" /\ l = "guard_reuse"
    <3>1. /\ next["execute"] = "guard_run" /\ next["finalize"] = "guard_finalize"
          /\ next["reuse"] = "guard_reuse"
      OBVIOUS
    <3>2. QED BY <2>2, <3>1
  <2> HIDE DEF l
  <2>4. /\ l \in Labels /\ l # "idle" /\ l \in Authorized3
        /\ proc[p].disp = "execute" => l \in Running
        /\ l \notin Sealing \union Writing \union Returning
        /\ l \notin {"put_next", "put_completion", "append_result"}
    BY <2>3 DEF Labels, Authorized3, Running, Sealing, Writing, Returning, Reading
  <2>5. /\ proc[p].disp = "execute" => l \in ExecuteAt
        /\ proc[p].disp = "finalize" => l \in FinalizeAt
        /\ proc[p].disp = "reuse" => l \in ReuseAt
    BY <2>3 DEF ExecuteAt, FinalizeAt, ReuseAt, Running
  <2>6. HoldOk(p)'
    BY <1>0, <2>1, <2>2, <2>4, GotoHold
  <2>7. Len(proc[p].done) < Len(Batch) /\ proc[p].token >= 1 /\ intent' \subseteq Calls
    BY <1>0, <2>2 DEF PlaceOk, Types
  <2>8. QED BY <1>0, <2>1, <2>2, <2>4, <2>5, <2>6, <2>7, GotoKeeps
<1>3. QED BY <1>1, <1>2

\* What a process that is about to run the handler holds: nobody else may run it, and it
\* has not run.
LEMMA AboutToRun ==
    ASSUME BatchFit, IInv, NEW p \in Procs, proc[p].st = "run"
    PROVE  /\ Call(p) \in Calls /\ proc[p].disp = "execute" /\ proc[p].subject \in Subjects
           /\ started[Call(p)] = proc[p].subject /\ effects[Call(p)] = <<>>
           /\ Approved(Call(p), proc[p].subject) /\ Len(proc[p].done) < Len(Batch)
           /\ proc[p].token >= 1
<1>0. Types /\ PlaceOk(p) /\ HoldOk(p) /\ proc[p] \in Records
  BY DEF IInv, Types
<1>1. /\ "run" \in Authorized3 /\ "run" \notin Resting \union Called /\ "run" # "idle"
      /\ "run" \in Running /\ "run" \notin FinalizeAt /\ "run" \notin ReuseAt
  BY DEF Resting, Called, Authorized3, Running, Returning, FinalizeAt, ReuseAt
<1>2. Call(p) \in Calls /\ proc[p].disp # "none"
  BY <1>0, <1>1, CallsOfBatch DEF PlaceOk
<1>3. proc[p].disp = "execute"
  BY <1>0, <1>1, <1>2 DEF PlaceOk, Records
<1>4. proc[p].subject \in Subjects
  BY <1>0, <1>1 DEF HoldOk, Records
<1>5. QED BY <1>0, <1>1, <1>2, <1>3, <1>4 DEF HoldOk, PlaceOk

\* The handler's effect: it is the first of its call.
LEMMA EffectFields ==
    ASSUME BatchFit, IInv, NEW p \in Procs, proc[p].st = "run",
           effects' = [effects EXCEPT ![Call(p)] = Append(@, proc[p].subject)]
    PROVE  /\ effects' \in [Calls -> Seq(Subjects)] /\ Len(effects'[Call(p)]) <= 1
           /\ effects'[Call(p)] # <<>> => effects'[Call(p)][1] = proc[p].subject
           /\ \A e \in Calls \ {Call(p)} : effects'[e] = effects[e]
<1> DEFINE c == Call(p)
           s == proc[p].subject
<1>1. c \in Calls /\ s \in Subjects /\ effects[c] = <<>> /\ effects \in [Calls -> Seq(Subjects)]
  BY AboutToRun DEF IInv, Types
<1> HIDE DEF c, s
<1> DEFINE v == Append(effects[c], s)
<1>2. effects' = [effects EXCEPT ![c] = v]
  BY DEF c, s
<1>3. v \in Seq(Subjects) /\ Len(v) <= 1 /\ v[1] = s
  BY <1>1, SMT
<1> HIDE DEF v
<1>4. effects' \in [Calls -> Seq(Subjects)] /\ effects'[c] = v
      /\ \A e \in Calls \ {c} : effects'[e] = effects[e]
  BY <1>1, <1>2, <1>3
<1>5. QED BY <1>3, <1>4 DEF c, s

\* A run of the handler leaves the receipts of every call good.
LEMMA EffectKeepsCalls ==
    ASSUME BatchFit, IInv, NEW p \in Procs, proc[p].st = "run", Grows,
           UNCHANGED <<decision, started, sealed, result, artifacts>>,
           Len(effects'[Call(p)]) <= 1,
           effects'[Call(p)] # <<>> => effects'[Call(p)][1] = proc[p].subject,
           \A e \in Calls \ {Call(p)} : effects'[e] = effects[e]
    PROVE  \A e \in Calls : CallOk(e)'
<1>1. PICK c \in Calls : c = Call(p)
  BY AboutToRun
<1>2. CallOk(c) /\ started[c] = proc[p].subject
  BY <1>1, AboutToRun DEF IInv
<1>3. CallOk(c)'
  <2>1. started[c] # None => Approved(c, started[c])'
    BY <1>2 DEF CallOk, Approved
  <2>2. QED BY <1>1, <1>2, <2>1 DEF CallOk
<1>4. ASSUME NEW e \in Calls \ {c} PROVE CallOk(e)'
  BY <1>1, <1>4, CallKept
<1>5. QED BY <1>3, <1>4

\* The new record of a process whose handler returned.
Returned(p, l, k) == proc' = [proc EXCEPT ![p].st = l, ![p].completion = k]

LEMMA ReturnedFields ==
    ASSUME Types, NEW p \in Procs, NEW l \in Labels, NEW k \in Completions, Returned(p, l, k)
    PROVE  /\ proc' \in [Procs -> Records] /\ Others(p) /\ Call(p)' = Call(p)
           /\ proc'[p].st = l /\ proc'[p].token = proc[p].token
           /\ proc'[p].resumed = proc[p].resumed /\ proc'[p].subject = proc[p].subject
           /\ proc'[p].disp = proc[p].disp /\ proc'[p].completion = k
           /\ proc'[p].done = proc[p].done
<1>1. proc[p] \in Records
  BY DEF Types
<1> DEFINE r == [proc[p] EXCEPT !.st = l, !.completion = k]
<1>2. /\ r \in Records /\ r.st = l /\ r.token = proc[p].token
      /\ r.resumed = proc[p].resumed /\ r.subject = proc[p].subject /\ r.disp = proc[p].disp
      /\ r.completion = k /\ r.done = proc[p].done
  BY <1>1 DEF Records
<1>3. proc' = [proc EXCEPT ![p] = r]
  BY DEF Returned
<1> HIDE DEF r
<1>4. proc' \in [Procs -> Records] /\ proc'[p] = r /\ Others(p)
  BY <1>2, <1>3, Replaced
<1>5. QED BY <1>2, <1>4 DEF Call

\* The handler runs, or the denial is turned into a result.
LEMMA RunHandlerKeeps ==
    ASSUME BatchFit, IInv, NEW p \in Procs, RunHandler(p), owners' = owners
    PROVE  IInv'
<1>0. /\ Types /\ PlaceOk(p) /\ HoldOk(p) /\ proc[p] \in Records /\ proc[p].st = "run"
      /\ UNCHANGED <<owners, lease, decision, saved, intent, started, sealed, result, artifacts,
                     delivered>>
  BY DEF IInv, Types, RunHandler, durable, receipts, At
<1>1. PICK c \in Calls : c = Call(p)
  BY <1>0, AboutToRun
<1>2. PICK s \in Subjects : s = proc[p].subject
  BY <1>0, AboutToRun
<1>3. PICK k \in Completions : Returned(p, "guard_store", k) /\ k.subject = s
  <2> DEFINE n == IF c \in Stateful /\ s.approval # "denied" THEN Append(proc[p].state, c)
                  ELSE proc[p].state
             k0 == [subject |-> s, base |-> proc[p].state, next |-> n]
  <2>1. proc[p].state \in Seq(Stateful)
    BY <1>0 DEF Records, States
  <2>2. n \in Seq(Stateful)
    BY <2>1, SMT
  <2>3. Returned(p, "guard_store", k0)
    BY <1>1, <1>2 DEF RunHandler, Returned
  <2> HIDE DEF n
  <2>4. k0 \in Completions /\ k0.subject = s
    BY <2>1, <2>2 DEF Completions, States
  <2>5. QED BY <2>3, <2>4
<1>4. /\ effects' \in [Calls -> Seq(Subjects)] /\ Len(effects'[Call(p)]) <= 1
      /\ effects'[Call(p)] # <<>> => effects'[Call(p)][1] = proc[p].subject
      /\ \A e \in Calls \ {Call(p)} : effects'[e] = effects[e]
  <2>1. CASE effects' = effects
    <3>1. effects[Call(p)] = <<>> /\ Len(<<>>) <= 1
      BY <1>0, AboutToRun, SMT
    <3>2. QED BY <1>0, <2>1, <3>1 DEF Types
  <2>2. CASE effects' = [effects EXCEPT ![Call(p)] = Append(@, proc[p].subject)]
    BY <1>0, <2>2, EffectFields
  <2>3. QED BY <2>1, <2>2 DEF RunHandler
<1>5. /\ "guard_store" \in Labels /\ "guard_store" \in Authorized3
      /\ "guard_store" \notin Resting \union Called \union Running \union Sealing \union Writing
                              \union Returning
      /\ "guard_store" \in ExecuteAt
  BY DEF Labels, Resting, Called, Authorized3, Running, Storing, Sealing, Writing, Returning,
     ExecuteAt
<1>6. /\ proc' \in [Procs -> Records] /\ Others(p) /\ Call(p)' = Call(p)
      /\ proc'[p].st = "guard_store" /\ proc'[p].token = proc[p].token
      /\ proc'[p].resumed = proc[p].resumed /\ proc'[p].subject = proc[p].subject
      /\ proc'[p].disp = proc[p].disp /\ proc'[p].completion = k /\ proc'[p].done = proc[p].done
  BY <1>0, <1>3, <1>5, ReturnedFields
<1>7. Types'
  BY <1>0, <1>4, <1>6 DEF Types
<1>8. Grows /\ ByHolder(p)
  BY <1>0, <1>4, AboutToRun DEF Grows, ByHolder
<1>9. \A e \in Calls : CallOk(e)'
  BY <1>0, <1>4, <1>8, EffectKeepsCalls
<1>10. PlaceOk(p)'
  BY <1>0, <1>5, <1>6, AboutToRun DEF PlaceOk
<1>11. Approved(Call(p), proc[p].subject)'
  BY <1>0, <1>6, AboutToRun DEF Approved
<1>12. HoldOk(p)'
  <2>1. /\ k # None /\ s # None /\ started'[c] = s /\ Call(p)' = c /\ proc'[p].subject = s
        /\ proc'[p].disp = "execute"
    BY <1>0, <1>1, <1>2, <1>6, AboutToRun DEF BatchFit
  <2>2. QED BY <1>3, <1>5, <1>6, <1>11, <2>1 DEF HoldOk
<1>13. QED BY <1>0, <1>6, <1>7, <1>8, <1>9, <1>10, <1>12, AboutToRun, StepKeeps

\* The handler raises after its effect: the start stays, with no outcome.
LEMMA HandlerFailsKeeps ==
    ASSUME BatchFit, IInv, NEW p \in Procs, HandlerFails(p), owners' = owners
    PROVE  IInv'
<1>0. /\ Types /\ proc[p].st = "run" /\ Ends(p)
      /\ UNCHANGED <<owners, decision, saved, intent, started, sealed, result, artifacts, delivered>>
      /\ effects' = [effects EXCEPT ![Call(p)] = Append(@, proc[p].subject)]
  BY DEF IInv, HandlerFails, receipts, At, Raises
<1>1. /\ proc' \in [Procs -> Records] /\ Others(p) /\ PlaceOk(p)' /\ HoldOk(p)'
      /\ proc'[p].disp # "execute"
  BY <1>0, IdleFields DEF Ends
<1>2. /\ lease' \in [owner : Range(owners) \union {None}, token : 0 .. MaxToken]
      /\ lease'.owner # None => lease'.token >= 1
  BY <1>0, ReleasedType DEF Ends
<1>3. Types'
  BY <1>0, <1>1, <1>2, EffectFields DEF Types
<1>4. Grows /\ ByHolder(p)
  BY <1>0, EffectFields, AboutToRun DEF Grows, ByHolder
<1>5. \A e \in Calls : CallOk(e)'
  BY <1>0, <1>4, EffectFields, EffectKeepsCalls
<1>6. QED BY <1>0, <1>1, <1>3, <1>4, <1>5, StepKeeps

\* A step to another label that writes an artifact or a receipt.
LEMMA WriteKeeps ==
    ASSUME BatchFit, IInv, NEW p \in Procs, NEW l \in Labels, Goto(p, l), Grows, ByHolder(p),
           UNCHANGED <<lease, decision, saved, intent, started, effects, delivered>>,
           sealed' \in [Calls -> Completions \union {None}],
           result' \in [Calls -> Completions \union {None}],
           \A e \in Calls : CallOk(e)',
           l \in Authorized3, proc[p].st \in Authorized3,
           proc[p].disp = "execute" => l \in ExecuteAt,
           proc[p].disp = "finalize" => l \in FinalizeAt,
           proc[p].disp = "reuse" => l \in ReuseAt,
           HoldOk(p)'
    PROVE  IInv'
<1>0. Types /\ PlaceOk(p)
  BY DEF IInv
<1>1. /\ proc' \in [Procs -> Records] /\ Others(p) /\ Call(p)' = Call(p)
      /\ proc'[p].st = l /\ proc'[p].token = proc[p].token
      /\ proc'[p].resumed = proc[p].resumed /\ proc'[p].disp = proc[p].disp
      /\ proc'[p].done = proc[p].done
  BY <1>0, GotoFields
<1>2. Types'
  BY <1>0, <1>1 DEF Types, Grows
<1>3. proc[p].st # "idle" /\ proc[p].st \notin Resting
  BY DEF Authorized3, Running, Storing, Sealing, Writing, Returning, Reading, Resting
<1>4. PlaceOk(p)'
  BY <1>0, <1>1, <1>3 DEF PlaceOk
<1>5. QED BY <1>1, <1>2, <1>4, StepKeeps

\* What a process that holds an authorization knows of its call.
LEMMA HolderFacts ==
    ASSUME BatchFit, IInv, NEW p \in Procs, proc[p].st \in Authorized3
    PROVE  /\ Call(p) \in Calls /\ proc[p].subject # None /\ Approved(Call(p), proc[p].subject)
           /\ proc[p].disp \in {"execute", "finalize", "reuse"}
           /\ proc[p].disp = "execute" => proc[p].st \in ExecuteAt
           /\ proc[p].disp = "finalize" => proc[p].st \in FinalizeAt
           /\ proc[p].disp = "reuse" => proc[p].st \in ReuseAt
           /\ proc[p].st \notin Running => proc[p].completion \in Completions
           /\ CallOk(Call(p))
<1>0. Types /\ PlaceOk(p) /\ HoldOk(p) /\ proc[p] \in Records
  BY DEF IInv, Types
<1>1. proc[p].st \notin Resting \union Called
  BY DEF Authorized3, Running, Storing, Sealing, Writing, Returning, Reading, Resting, Called
<1>2. Call(p) \in Calls /\ proc[p].disp # "none"
  BY <1>0, <1>1, CallsOfBatch DEF PlaceOk
<1>3. proc[p].disp \in {"execute", "finalize", "reuse"}
  BY <1>0, <1>2 DEF Records
<1>4. proc[p].st \notin Running => proc[p].completion \in Completions
  BY <1>0, <1>3 DEF HoldOk, Records
<1>5. CallOk(Call(p))
  BY <1>2 DEF IInv
<1>6. QED BY <1>0, <1>1, <1>2, <1>3, <1>4, <1>5 DEF HoldOk, PlaceOk

\* The artifacts of a completion, one after the other.
LEMMA PutArtifactKeeps ==
    ASSUME BatchFit, IInv, NEW p \in Procs, PutArtifact(p), owners' = owners
    PROVE  IInv'
<1> DEFINE T == HasTransition(proc[p].completion)
           after == [put_result |-> IF T THEN "put_next" ELSE "put_completion",
                     put_next |-> "put_completion",
                     put_completion |-> IF T THEN "guard_seal" ELSE "guard_result"]
           kind == [put_result |-> "result", put_next |-> "next", put_completion |-> "completion"]
<1>0. /\ Types /\ PlaceOk(p) /\ HoldOk(p)
      /\ UNCHANGED <<owners, lease, decision, saved, intent, started, sealed, result, effects, delivered>>
  BY DEF IInv, PutArtifact, receipts, history
<1>1. /\ proc[p].st \in DOMAIN kind /\ Goto(p, after[proc[p].st])
      /\ artifacts' = artifacts \union {<<kind[proc[p].st], Call(p), proc[p].completion.subject>>}
  BY DEF PutArtifact
<1>2. proc[p].st \in {"put_result", "put_next", "put_completion"}
  BY <1>1
<1>3. /\ kind["put_result"] = "result" /\ kind["put_next"] = "next"
      /\ kind["put_completion"] = "completion"
      /\ after["put_result"] = (IF T THEN "put_next" ELSE "put_completion")
      /\ after["put_next"] = "put_completion"
      /\ after["put_completion"] = (IF T THEN "guard_seal" ELSE "guard_result")
  OBVIOUS
<1> HIDE DEF after, kind
<1>4. /\ {"put_result", "put_next", "put_completion", "guard_seal", "guard_result"}
            \subseteq Authorized3 \intersect ExecuteAt
      /\ Authorized3 \subseteq Labels
      /\ \A l \in {"put_result", "put_next", "put_completion", "guard_seal", "guard_result"} :
            l \notin Running /\ l \notin Returning /\ l \notin Resting \union Called
      /\ \A l \in {"put_result", "put_next", "put_completion"} :
            l \notin FinalizeAt /\ l \notin ReuseAt /\ l \notin Sealing \union Writing
      /\ "guard_result" \notin Sealing
  BY DEF Labels, Authorized3, ExecuteAt, FinalizeAt, ReuseAt, Running, Storing, Sealing, Writing,
     Returning, Reading, Resting, Called
<1>5. PICK c \in Calls : c = Call(p)
  BY <1>2, <1>4, HolderFacts
<1>6. PICK k \in Completions : k = proc[p].completion
  BY <1>2, <1>4, HolderFacts
<1>7. proc[p].disp = "execute"
  BY <1>2, <1>4, HolderFacts
<1>8. \/ /\ proc[p].st = "put_result" /\ Goto(p, IF HasTransition(k) THEN "put_next" ELSE "put_completion")
         /\ artifacts' = artifacts \union {<<"result", c, k.subject>>}
      \/ /\ proc[p].st = "put_next" /\ Goto(p, "put_completion")
         /\ artifacts' = artifacts \union {<<"next", c, k.subject>>}
      \/ /\ proc[p].st = "put_completion"
         /\ Goto(p, IF HasTransition(k) THEN "guard_seal" ELSE "guard_result")
         /\ artifacts' = artifacts \union {<<"completion", c, k.subject>>}
  BY <1>1, <1>2, <1>3, <1>5, <1>6
<1>9. Grows /\ ByHolder(p)
  BY <1>0, <1>1 DEF Grows, ByHolder
<1>10. \A e \in Calls : CallOk(e)'
  BY <1>0, <1>9, CallKept
<1>11. ASSUME NEW l \in {"put_next", "put_completion", "guard_seal", "guard_result"}, Goto(p, l),
              l \in {"put_next", "put_completion"} => <<"result", c, k.subject>> \in artifacts',
              l \in {"put_next", "guard_seal"} => HasTransition(k),
              l = "put_completion" /\ HasTransition(k) => <<"next", c, k.subject>> \in artifacts',
              l \in {"guard_seal", "guard_result"} => Artifacts(c, k) \subseteq artifacts'
       PROVE  IInv'
  <2>1. l \in Labels /\ l \in Authorized3 /\ l \in ExecuteAt
    BY <1>4
  <2>2. /\ Call(p)' = Call(p) /\ proc'[p].st = l /\ proc'[p].disp = proc[p].disp
        /\ proc'[p].subject = proc[p].subject /\ proc'[p].completion = proc[p].completion
    BY <1>0, <1>11, <2>1, GotoFields
  <2>3. /\ proc[p].subject # None /\ Approved(Call(p), proc[p].subject)
    BY <1>2, <1>4, HolderFacts
  <2>4. Approved(Call(p), proc[p].subject)'
    BY <1>0, <2>2, <2>3 DEF Approved
  <2>5. started[c] = proc[p].subject /\ k # None /\ k.subject = proc[p].subject
    BY <1>0, <1>2, <1>4, <1>5, <1>6, <1>7 DEF HoldOk
  <2>6. /\ Call(p)' = c /\ proc'[p].completion = k /\ started'[c] = proc'[p].subject
        /\ proc'[p].disp = "execute" /\ proc'[p].subject # None
    BY <1>0, <1>5, <1>6, <1>7, <2>2, <2>3, <2>5
  <2>7. /\ l \notin Resting \union Called \union Running \union Returning /\ l # "append_result"
        /\ l \in Sealing \union Writing => l \in {"guard_seal", "guard_result"}
        /\ l \in Sealing => l = "guard_seal"
    BY <1>4
  <2>8. HoldOk(p)'
    BY <1>11, <2>2, <2>4, <2>5, <2>6, <2>7 DEF HoldOk
  <2>9. QED BY <1>0, <1>2, <1>4, <1>7, <1>9, <1>10, <1>11, <2>1, <2>8, WriteKeeps DEF Types
<1>12. CASE proc[p].st = "put_result"
  BY <1>2, <1>8, <1>11, <1>12
<1>13. CASE proc[p].st = "put_next"
  <2>1. HasTransition(k) /\ <<"result", c, k.subject>> \in artifacts
    BY <1>0, <1>5, <1>6, <1>13 DEF HoldOk
  <2>2. QED BY <1>8, <1>11, <1>13, <2>1
<1>14. CASE proc[p].st = "put_completion"
  <2>1. /\ <<"result", c, k.subject>> \in artifacts
        /\ HasTransition(k) => <<"next", c, k.subject>> \in artifacts
    BY <1>0, <1>5, <1>6, <1>14 DEF HoldOk
  <2>2. Artifacts(c, k) \subseteq artifacts'
    BY <1>8, <1>14, <2>1 DEF Artifacts
  <2>3. QED BY <1>8, <1>11, <1>14, <2>1, <2>2
<1>15. QED BY <1>2, <1>12, <1>13, <1>14

\* A process past the handler moves on: what the new label takes holds.
LEMMA MoveHold ==
    ASSUME BatchFit, IInv, NEW p \in Procs, NEW l \in Labels, Goto(p, l), Grows,
           proc[p].st \in Authorized3 \ Running, l \in Authorized3 \ (Running \union Storing),
           UNCHANGED <<decision, started>>,
           l \in Sealing \union Writing => Artifacts(Call(p), proc[p].completion) \subseteq artifacts',
           l \in Sealing => HasTransition(proc[p].completion),
           l = "append_result" =>
              sealed'[Call(p)] = IF HasTransition(proc[p].completion) THEN proc[p].completion
                                 ELSE None,
           l \in Returning => result'[Call(p)] = proc[p].completion
    PROVE  HoldOk(p)'
<1>0. Types /\ HoldOk(p)
  BY DEF IInv
<1>1. /\ Call(p)' = Call(p) /\ proc'[p].st = l /\ proc'[p].disp = proc[p].disp
      /\ proc'[p].subject = proc[p].subject /\ proc'[p].completion = proc[p].completion
  BY <1>0, GotoFields
<1>2. /\ Call(p) \in Calls /\ proc[p].subject # None /\ Approved(Call(p), proc[p].subject)
  BY HolderFacts
<1>3. Approved(Call(p), proc[p].subject)'
  BY <1>1, <1>2 DEF Approved
<1>4. l \notin {"put_next", "put_completion"}
  BY DEF Storing
<1>5. /\ proc[p].disp = "finalize" => sealed'[Call(p)] = proc[p].completion
      /\ proc[p].disp = "reuse" => result'[Call(p)] = proc[p].completion
  BY <1>0, <1>2 DEF HoldOk, Grows
<1>6. QED BY <1>0, <1>1, <1>2, <1>3, <1>4, <1>5 DEF HoldOk

\* A step to another label that writes no receipt and is past the handler.
LEMMA MoveKeeps ==
    ASSUME BatchFit, IInv, NEW p \in Procs, NEW l \in Labels, Goto(p, l), Quiet,
           UNCHANGED <<lease, saved, intent>>,
           proc[p].st \in Authorized3 \ Running, l \in Authorized3 \ (Running \union Storing),
           proc[p].disp = "execute" => l \in ExecuteAt,
           proc[p].disp = "finalize" => l \in FinalizeAt,
           proc[p].disp = "reuse" => l \in ReuseAt,
           l \in Sealing \union Writing => Artifacts(Call(p), proc[p].completion) \subseteq artifacts,
           l \in Sealing => HasTransition(proc[p].completion),
           l = "append_result" =>
              sealed[Call(p)] = IF HasTransition(proc[p].completion) THEN proc[p].completion
                                ELSE None,
           l \in Returning => result[Call(p)] = proc[p].completion
    PROVE  IInv'
<1>1. Grows /\ ByHolder(p)
  BY DEF Quiet, Grows, ByHolder
<1>2. \A e \in Calls : CallOk(e)'
  BY <1>1, CallKept DEF Quiet
<1>3. PICK c \in Calls : c = Call(p)
  BY HolderFacts
<1>4. sealed'[c] = sealed[c] /\ result'[c] = result[c] /\ artifacts' = artifacts
      /\ UNCHANGED <<decision, started, effects, delivered>>
  BY DEF Quiet
<1>5. HoldOk(p)'
  BY <1>1, <1>3, <1>4, MoveHold
<1>6. /\ sealed' \in [Calls -> Completions \union {None}]
      /\ result' \in [Calls -> Completions \union {None}]
  BY DEF Quiet, IInv, Types
<1>7. QED BY <1>1, <1>2, <1>4, <1>5, <1>6, WriteKeeps

\* persist_sealed_completion.
LEMMA SealKeeps ==
    ASSUME BatchFit, IInv, NEW p \in Procs, Seal(p), owners' = owners
    PROVE  IInv'
<1>0. /\ Types /\ HoldOk(p) /\ proc[p].st = "seal"
      /\ UNCHANGED <<owners, decision, saved, intent, started, result, artifacts, effects, delivered>>
  BY DEF IInv, Seal, history, At
<1>1. /\ "seal" \in Authorized3 \ Running /\ "seal" \in Sealing
      /\ "seal" \notin FinalizeAt /\ "seal" \notin ReuseAt
      /\ "guard_result" \in Authorized3 \ (Running \union Storing) /\ "guard_result" \in Labels
      /\ "guard_result" \notin Sealing \union Returning /\ "guard_result" \in ExecuteAt
  BY DEF Labels, Authorized3, Running, Storing, Sealing, Writing, Returning, FinalizeAt, ReuseAt,
     ExecuteAt
<1>2. PICK c \in Calls : c = Call(p)
  BY <1>0, <1>1, HolderFacts
<1>3. PICK k \in Completions : k = proc[p].completion
  BY <1>0, <1>1, HolderFacts
<1>4. proc[p].disp = "execute" /\ HasTransition(k) /\ Artifacts(c, k) \subseteq artifacts
  BY <1>0, <1>1, <1>2, <1>3, HolderFacts DEF HoldOk
<1>5. CASE /\ Recovery(c) = "uncertain" /\ sealed' = [sealed EXCEPT ![c] = k]
           /\ Goto(p, "guard_result") /\ UNCHANGED lease
  <2>1. result[c] = None /\ sealed[c] = None /\ started[c] # None
    BY <1>5 DEF Recovery
  <2>2. /\ sealed' \in [Calls -> Completions \union {None}] /\ sealed'[c] = k
        /\ \A e \in Calls \ {c} : sealed'[e] = sealed[e]
    BY <1>0, <1>5 DEF Types
  <2>3. Grows /\ ByHolder(p)
    BY <1>0, <1>2, <1>4, <2>1, <2>2 DEF Grows, ByHolder
  <2>4. CallOk(c)'
    <3>1. CallOk(c)
      BY DEF IInv
    <3>2. Approved(c, started[c])'
      BY <1>0, <2>1, <3>1 DEF CallOk, Approved
    <3>3. QED BY <1>0, <1>4, <2>1, <2>2, <3>1, <3>2 DEF CallOk
  <2>5. \A e \in Calls : CallOk(e)'
    <3>1. ASSUME NEW e \in Calls \ {c} PROVE CallOk(e)'
      BY <1>0, <2>2, <2>3, <3>1, CallKept
    <3>2. QED BY <2>4, <3>1
  <2>6. HoldOk(p)'
    BY <1>0, <1>1, <1>2, <1>3, <1>4, <1>5, <2>3, MoveHold
  <2>7. QED BY <1>0, <1>1, <1>4, <1>5, <2>2, <2>3, <2>5, <2>6, WriteKeeps DEF Types
<1>6. CASE Goto(p, "guard_result") /\ UNCHANGED <<lease, sealed>>
  BY <1>0, <1>1, <1>2, <1>3, <1>4, <1>6, MoveKeeps DEF Quiet
<1>7. CASE Ends(p) /\ UNCHANGED sealed
  BY <1>0, <1>7, EndKeeps DEF Types, Quiet
<1>8. QED BY <1>2, <1>3, <1>5, <1>6, <1>7 DEF Seal, Raises

\* The recorded completions are read back, and a result is checked before it is appended.
LEMMA ReadsKeep ==
    ASSUME BatchFit, IInv, NEW p \in Procs, Finalize(p) \/ Recover(p) \/ PersistCheck(p),
           owners' = owners
    PROVE  IInv'
<1>0. /\ Types /\ HoldOk(p) /\ Quiet /\ UNCHANGED <<saved, intent>>
      /\ saved \in [pending : Calls \union {None}, state : States, done : Prefixes]
  BY DEF IInv, Finalize, Recover, PersistCheck, receipts, history, Quiet, Types
<1>1. /\ {"finalize", "recover", "persist"} \subseteq Authorized3 \ Running
      /\ {"persist", "guard_return", "append_result"} \subseteq Labels
      /\ {"persist", "guard_return", "append_result"} \subseteq Authorized3 \ (Running \union Storing)
      /\ {"persist", "append_result", "guard_return"} \subseteq ExecuteAt \intersect FinalizeAt
      /\ "guard_return" \in ReuseAt /\ "persist" \in Writing
      /\ "persist" \notin ReuseAt
      /\ "persist" \notin Sealing \union Returning
      /\ "guard_return" \notin Sealing \union Writing
      /\ "append_result" \notin Sealing \union Returning
      /\ "finalize" \notin ExecuteAt /\ "finalize" \notin ReuseAt
      /\ "recover" \notin ExecuteAt /\ "recover" \notin FinalizeAt
  BY DEF Labels, Authorized3, Running, Storing, Sealing, Writing, Returning, Reading, FinalizeAt,
     ReuseAt, ExecuteAt
<1>2. CASE Ends(p)
  BY <1>0, <1>2, EndKeeps
<1>3. CASE Finalize(p) /\ ~Ends(p)
  <2>1. /\ proc[p].st = "finalize" /\ Goto(p, "persist") /\ UNCHANGED lease
        /\ Artifacts(Call(p), proc[p].completion) \subseteq artifacts
    BY <1>3 DEF Finalize, Raises, At
  <2>2. proc[p].disp = "finalize"
    BY <1>1, <2>1, HolderFacts
  <2>3. QED BY <1>0, <1>1, <2>1, <2>2, MoveKeeps
<1>4. CASE Recover(p) /\ ~Ends(p)
  <2>1. proc[p].st = "recover" /\ Goto(p, "guard_return") /\ UNCHANGED lease
    BY <1>4 DEF Recover, Raises, At
  <2>2. proc[p].disp = "reuse"
    BY <1>1, <2>1, HolderFacts
  <2>3. result[Call(p)] = proc[p].completion
    BY <1>0, <2>2 DEF HoldOk
  <2>4. QED BY <1>0, <1>1, <2>1, <2>2, <2>3, MoveKeeps
<1>5. CASE PersistCheck(p) /\ ~Ends(p)
  <2> DEFINE c == Call(p)
             k == proc[p].completion
  <2>1. proc[p].st = "persist"
    BY <1>5 DEF PersistCheck, At
  <2>2. proc[p].disp # "reuse" /\ CallOk(c) /\ Artifacts(c, k) \subseteq artifacts /\ k # None
    BY <1>0, <1>1, <2>1, HolderFacts DEF HoldOk, BatchFit
  <2>3. CASE result[c] = k /\ Goto(p, "guard_return") /\ UNCHANGED lease
    BY <1>0, <1>1, <2>1, <2>2, <2>3, MoveKeeps
  <2>4. CASE /\ sealed[c] = IF HasTransition(k) THEN k ELSE None
             /\ Goto(p, "append_result") /\ UNCHANGED lease
    BY <1>0, <1>1, <2>1, <2>2, <2>4, MoveKeeps
  <2>5. \/ result[c] = k /\ Goto(p, "guard_return") /\ UNCHANGED lease
        \/ /\ Recovery(c) = "finalizable" /\ sealed[c] = k
           /\ Goto(p, "append_result") /\ UNCHANGED lease
        \/ /\ Recovery(c) = "uncertain" /\ ~HasTransition(k)
           /\ Goto(p, "append_result") /\ UNCHANGED lease
    BY <1>5 DEF PersistCheck, Raises
  <2>6. sealed[c] = k => HasTransition(k)
    BY <2>2 DEF CallOk
  <2>7. Recovery(c) = "uncertain" => sealed[c] = None
    BY DEF Recovery
  <2> HIDE DEF c, k
  <2>8. QED BY <2>3, <2>4, <2>5, <2>6, <2>7
<1>6. QED BY <1>2, <1>3, <1>4, <1>5

\* persist_prepared_result appends the result.
LEMMA AppendResultKeeps ==
    ASSUME BatchFit, IInv, NEW p \in Procs, AppendResult(p), owners' = owners
    PROVE  IInv'
<1>0. /\ Types /\ HoldOk(p) /\ proc[p].st = "append_result"
      /\ UNCHANGED <<owners, decision, saved, intent, started, sealed, artifacts, effects, delivered>>
  BY DEF IInv, AppendResult, history, At
<1>1. /\ "append_result" \in Authorized3 \ Running /\ "append_result" \in Writing
      /\ "append_result" \notin ReuseAt
      /\ "guard_return" \in Authorized3 \ (Running \union Storing) /\ "guard_return" \in Labels
      /\ "guard_return" \notin Sealing \union Writing /\ "guard_return" \in ExecuteAt \intersect FinalizeAt
      /\ "guard_return" # "append_result"
  BY DEF Labels, Authorized3, Running, Storing, Sealing, Writing, Returning, FinalizeAt, ReuseAt,
     ExecuteAt
<1>2. PICK c \in Calls : c = Call(p)
  BY <1>0, <1>1, HolderFacts
<1>3. PICK k \in Completions : k = proc[p].completion
  BY <1>0, <1>1, HolderFacts
<1>4. /\ proc[p].disp \in {"execute", "finalize"} /\ Artifacts(c, k) \subseteq artifacts
      /\ sealed[c] = (IF HasTransition(k) THEN k ELSE None) /\ CallOk(c)
  BY <1>0, <1>1, <1>2, <1>3, HolderFacts DEF HoldOk
<1>5. started[c] # None
  <2>1. CASE proc[p].disp = "execute"
    BY <1>0, <1>1, <1>2, <2>1, HolderFacts DEF HoldOk
  <2>2. CASE proc[p].disp = "finalize"
    BY <1>0, <1>2, <1>3, <1>4, <2>2 DEF HoldOk, CallOk
  <2>3. QED BY <1>4, <2>1, <2>2
<1>6. CASE /\ result[c] \in {None, k} /\ result' = [result EXCEPT ![c] = k]
           /\ Goto(p, "guard_return") /\ UNCHANGED lease
  <2>1. /\ result' \in [Calls -> Completions \union {None}] /\ result'[c] = k
        /\ \A e \in Calls \ {c} : result'[e] = result[e]
    BY <1>0, <1>6 DEF Types
  <2>2. Grows /\ ByHolder(p)
    BY <1>0, <1>6, <2>1 DEF Grows, ByHolder
  <2>3. CallOk(c)'
    <3>1. Approved(c, started[c])'
      BY <1>0, <1>4, <1>5 DEF CallOk, Approved
    <3>2. QED BY <1>0, <1>4, <1>5, <2>1, <3>1 DEF CallOk
  <2>4. \A e \in Calls : CallOk(e)'
    <3>1. ASSUME NEW e \in Calls \ {c} PROVE CallOk(e)'
      BY <1>0, <2>1, <2>2, <3>1, CallKept
    <3>2. QED BY <2>3, <3>1
  <2>5. HoldOk(p)'
    BY <1>0, <1>1, <1>2, <1>3, <1>6, <2>1, <2>2, MoveHold
  <2>6. QED BY <1>0, <1>1, <1>4, <1>6, <2>1, <2>2, <2>4, <2>5, WriteKeeps DEF Types
<1>7. CASE Ends(p) /\ UNCHANGED result
  BY <1>0, <1>7, EndKeeps DEF Types, Quiet
<1>8. QED BY <1>2, <1>3, <1>6, <1>7 DEF AppendResult, Raises

\* The next prefix of the batch.
LEMMA NextPrefix ==
    ASSUME BatchFit, NEW d \in Prefixes, Len(d) < Len(Batch)
    PROVE  Append(d, Batch[Len(d) + 1]) \in Prefixes
<1>1. PICK n \in 0 .. Len(Batch) : d = SubSeq(Batch, 1, n)
  BY DEF Prefixes
<1>2. Batch \in Seq(Calls) /\ Len(Batch) \in Nat
  BY SMT DEF BatchFit
<1>3. Len(d) = n /\ n < Len(Batch) /\ n + 1 \in 0 .. Len(Batch)
  BY <1>1, <1>2, SMT
<1>4. Append(d, Batch[n + 1]) = SubSeq(Batch, 1, n + 1)
  BY <1>1, <1>2, <1>3, SMT
<1>5. QED BY <1>3, <1>4 DEF Prefixes

\* The receipt reaches the model.
LEMMA DeliverKeeps ==
    ASSUME BatchFit, IInv, NEW p \in Procs, Deliver(p), owners' = owners
    PROVE  IInv'
<1>0. /\ Types /\ PlaceOk(p) /\ HoldOk(p) /\ proc[p] \in Records /\ proc[p].st = "deliver"
      /\ UNCHANGED <<owners, decision, saved, intent, started, sealed, result, artifacts, effects>>
  BY DEF IInv, Types, Deliver, receipts, At
<1>1. /\ "deliver" \in Authorized3 \ Running /\ "deliver" \in Returning /\ "deliver" \notin Resting
      /\ "deliver" # "idle"
      /\ "ready" \in Resting /\ "ready" \notin Authorized3 /\ "ready" # "idle"
  BY DEF Authorized3, Running, Storing, Sealing, Writing, Returning, Reading, Resting
<1>2. PICK c \in Calls : c = Call(p)
  BY <1>0, <1>1, HolderFacts
<1>3. PICK k \in Completions : k = proc[p].completion
  BY <1>0, <1>1, HolderFacts
<1>4. result[c] = k /\ delivered' = delivered \union {<<c, k>>}
  BY <1>0, <1>1, <1>2, <1>3 DEF HoldOk, Deliver
<1>5. /\ delivered' \subseteq Calls \X Completions
      /\ \A d \in delivered' : d \in delivered \/ result'[d[1]] = d[2]
  <2>1. /\ <<c, k>> \in Calls \X Completions /\ <<c, k>>[1] = c /\ <<c, k>>[2] = k
        /\ result'[c] = k
    BY <1>0, <1>4, SMT
  <2>2. delivered \subseteq Calls \X Completions
    BY <1>0 DEF Types
  <2> DEFINE e == <<c, k>>
  <2> HIDE DEF e
  <2>3. /\ e \in Calls \X Completions /\ result'[e[1]] = e[2]
        /\ delivered' = delivered \union {e}
    BY <1>4, <2>1 DEF e
  <2>4. QED BY <2>2, <2>3
<1>6. Grows /\ ByHolder(p) /\ \A e \in Calls : CallOk(e)'
  <2>1. Grows /\ ByHolder(p)
    BY <1>0 DEF Grows, ByHolder
  <2>2. QED BY <1>0, <2>1, CallKept
<1>7. CASE Ends(p)
  <2>1. /\ proc' \in [Procs -> Records] /\ Others(p) /\ PlaceOk(p)' /\ HoldOk(p)'
        /\ proc'[p].disp # "execute"
    BY <1>0, <1>7, IdleFields DEF Ends
  <2>2. /\ lease' \in [owner : Range(owners) \union {None}, token : 0 .. MaxToken]
        /\ lease'.owner # None => lease'.token >= 1
    BY <1>0, <1>7, ReleasedType DEF Ends
  <2>3. Types'
    BY <1>0, <1>5, <2>1, <2>2 DEF Types
  <2>4. QED BY <1>5, <1>6, <2>1, <2>3, StepKeeps
<1>8. CASE ~Ends(p)
  <2> DEFINE n == IF HasTransition(k) THEN k.next ELSE proc[p].state
             d == Append(proc[p].done, c)
             r == [Idle EXCEPT !.st = "ready", !.token = proc[p].token,
                               !.resumed = proc[p].resumed, !.state = n, !.done = d]
  <2>1. proc' = [proc EXCEPT ![p] = r] /\ UNCHANGED lease
    BY <1>2, <1>3, <1>8 DEF Deliver, Raises
  <2>2. n \in States
    BY <1>0 DEF Records, Completions
  <2>3. d \in Prefixes
    <3>1. proc[p].done \in Prefixes /\ Len(proc[p].done) < Len(Batch)
      BY <1>0, <1>1 DEF Records, PlaceOk
    <3>2. QED BY <1>2, <3>1, NextPrefix DEF Call
  <2> HIDE DEF n, d
  <2>4. /\ r.st = "ready" /\ r.token = proc[p].token /\ r.resumed = proc[p].resumed
        /\ r.disp = "none" /\ r \in Records
    BY <1>0, <2>2, <2>3 DEF Idle, Records, Labels, Resting
  <2> HIDE DEF r
  <2>5. proc' \in [Procs -> Records] /\ proc'[p] = r /\ Others(p)
    BY <1>0, <2>1, <2>4, Replaced
  <2>6. Types'
    BY <1>0, <1>5, <2>1, <2>5 DEF Types
  <2>7. PlaceOk(p)'
    BY <1>0, <1>1, <2>4, <2>5 DEF PlaceOk
  <2>8. HoldOk(p)'
    BY <1>1, <2>4, <2>5 DEF HoldOk, Authorized3, Storing
  <2>9. QED BY <1>5, <1>6, <2>4, <2>5, <2>6, <2>7, <2>8, StepKeeps
<1>9. QED BY <1>7, <1>8

(***************************************************************************)
(* The invariant holds                                                     *)
(***************************************************************************)

\* Every step keeps the invariant.
LEMMA NextKeeps ==
    ASSUME BatchFit, IInv, [Next]_vars
    PROVE  IInv'
<1>1. CASE UNCHANGED vars
  <2>1. UNCHANGED <<owners, lease, decision, saved, intent, started, sealed, result, artifacts,
                    proc, effects, delivered>>
    BY <1>1 DEF vars, durable, receipts, history
  <2>2. Types'
    BY <2>1 DEF IInv, Types
  <2>3. /\ \A c \in Calls : CallOk(c)'
        /\ \A p \in Procs : PlaceOk(p)' /\ HoldOk(p)'
    <3>1. ASSUME NEW c \in Calls PROVE CallOk(c)'
      BY <2>1, CallKept DEF Grows
    <3>2. ASSUME NEW p \in Procs PROVE PlaceOk(p)'
      BY <2>1 DEF IInv, PlaceOk
    <3>3. ASSUME NEW p \in Procs PROVE HoldOk(p)'
      <4>1. Call(p)' = Call(p) /\ HoldOk(p)
        BY <2>1 DEF Call, IInv
      <4>2. Approved(Call(p), proc[p].subject) => Approved(Call(p), proc[p].subject)'
        BY <2>1, <4>1 DEF Approved
      <4>3. QED BY <2>1, <4>1, <4>2, ZenonT(30) DEF HoldOk
    <3>4. QED BY <3>1, <3>2, <3>3
  <2>4. Exclusive' /\ \A d \in delivered' : result'[d[1]] = d[2]
    BY <2>1 DEF IInv, Exclusive, Call
  <2>5. QED BY <2>2, <2>3, <2>4 DEF IInv
<1>2. CASE Next
  <2>1. owners' = owners
    BY <1>2 DEF Next
  <2>2. CASE Decide
    BY <2>1, <2>2, DecideKeeps
  <2>3. ASSUME NEW p \in Procs, Acquire(p) \/ Step(p) \/ Crash(p)
        PROVE  IInv'
    BY <2>1, <2>3, AcquireKeeps, EntryKeeps, StopsKeep, AssertLiveKeeps, PrepareKeeps,
       AuthorizeKeeps, ClaimKeeps, ValidateKeeps, RunHandlerKeeps, HandlerFailsKeeps,
       PutArtifactKeeps, SealKeeps, ReadsKeep, AppendResultKeeps, DeliverKeeps DEF Step
  <2>4. QED BY <1>2, <2>2, <2>3 DEF Next
<1>3. QED BY <1>1, <1>2

\* A turn that has not begun satisfies it.
LEMMA InitHolds ==
    ASSUME BatchFit, Init
    PROVE  IInv
<1>1. <<>> \in Seq(Subjects) /\ <<>> \in States /\ <<>> \in Prefixes /\ 0 \in 0 .. MaxToken
      /\ Len(<<>>) <= 1
  <2>1. SubSeq(Batch, 1, 0) = <<>> /\ 0 \in 0 .. Len(Batch)
    BY SubSeqEmpty, LenProperties, SMT DEF BatchFit
  <2>2. <<>> \in Prefixes
    BY <2>1 DEF Prefixes
  <2>3. <<>> \in Seq(Subjects) /\ <<>> \in States /\ 0 \in 0 .. MaxToken /\ Len(<<>>) <= 1
    BY SMT DEF States, BatchFit
  <2>4. QED BY <2>2, <2>3
<1>2. Idle \in Records /\ Idle.st = "idle" /\ Idle.disp = "none" /\ Idle.resumed = None
  BY <1>1 DEF Idle, Records, Labels, Resting
<1>3. Types
  <2>1. proc \in [Procs -> Records]
    BY <1>2 DEF Init
  <2>2. saved \in [pending : Calls \union {None}, state : States, done : Prefixes]
    BY <1>1 DEF Init, Fresh
  <2>3. QED BY <1>1, <2>1, <2>2 DEF Init, Types
<1>4. ASSUME NEW c \in Calls PROVE CallOk(c)
  BY <1>1 DEF Init, CallOk
<1>5. ASSUME NEW p \in Procs PROVE PlaceOk(p) /\ HoldOk(p)
  <2>1. proc[p] = Idle
    BY DEF Init
  <2>2. "idle" \in Resting /\ "idle" \notin Authorized3
    BY DEF Resting, Authorized3, Running, Storing, Sealing, Writing, Returning, Reading
  <2>3. PlaceOk(p)
    BY <1>2, <2>1, <2>2 DEF PlaceOk
  <2>4. HoldOk(p)
    BY <1>2, <2>1, <2>2 DEF HoldOk, Authorized3, Storing
  <2>5. QED BY <2>3, <2>4
<1>6. Exclusive /\ \A d \in delivered : result[d[1]] = d[2]
  BY <1>2 DEF Init, Exclusive
<1>7. QED BY <1>3, <1>4, <1>5, <1>6 DEF IInv

\* The receipts, the processes and what they hold agree in every reachable state of the
\* durable tool boundary, however the processes overlap, stall, crash and take over.
THEOREM ToolInvariant ==
    ASSUME BatchFit
    PROVE  Spec => []IInv
<1>1. Init => IInv
  BY InitHolds
<1>2. IInv /\ [Next]_vars => IInv'
  BY NextKeeps
<1>3. QED BY <1>1, <1>2, PTL DEF Spec

\* The handler of a call runs at most once, after its start is durable and only as the
\* user decided (DurableToolBoundary.authorize_execution, prepare_tool_execution).
THEOREM HandlerRunsOnce ==
    ASSUME BatchFit
    PROVE  Spec => []EffectOnce
<1>1. IInv => EffectOnce
  <2> SUFFICES ASSUME IInv, NEW c \in Calls
               PROVE  /\ Len(effects[c]) <= 1
                      /\ effects[c] # <<>> =>
                           /\ started[c] = effects[c][1]
                           /\ effects[c][1].approval =
                                 IF c \in Guarded THEN decision[c] ELSE "not_required"
    BY DEF EffectOnce
  <2>1. CallOk(c) /\ effects[c] \in Seq(Subjects)
    BY DEF IInv, Types
  <2>2. effects[c] # <<>> => effects[c][1] # None
    <3>1. effects[c] # <<>> => effects[c][1] \in Subjects
      BY <2>1, EmptySeq, LenProperties, ElementOfSeq, SMT
    <3>2. QED BY <3>1 DEF BatchFit
  <2>3. QED BY <2>1, <2>2 DEF CallOk, Approved
<1>2. QED BY <1>1, ToolInvariant, PTL

\* The recorded completion is the sealed one, the model is handed the recorded one, and
\* what a receipt refers to can be read back
\* (DurableToolBoundary.persist_prepared_result, DurableToolExecutor._execute_once).
THEOREM RecordedIsSealed ==
    ASSUME BatchFit
    PROVE  Spec => []SealBindsResult
<1>1. IInv => TypeOK
  <2> SUFFICES ASSUME IInv PROVE TypeOK
    OBVIOUS
  <2>1. Types
    BY DEF IInv
  <2>2. ASSUME NEW p \in Procs
        PROVE  /\ proc[p].token \in 0 .. MaxToken /\ proc[p].bound \in BOOLEAN
               /\ proc[p].subject \in Subjects \union {None}
               /\ proc[p].completion \in Completions \union {None}
               /\ proc[p].state \in States
               /\ \E n \in 0 .. Len(Batch) : proc[p].done = SubSeq(Batch, 1, n)
    <3>1. proc[p] \in Records
      BY <2>1 DEF Types
    <3>2. proc[p].done \in Prefixes
      BY <3>1 DEF Records
    <3>3. QED BY <3>1, <3>2 DEF Records, Prefixes
  <2>3. saved.pending \in Calls \union {None} /\ saved.state \in States
    BY <2>1 DEF Types
  <2>4. QED BY <2>1, <2>2, <2>3 DEF Types, TypeOK
<1>2. IInv => SealBindsResult
  <2> SUFFICES ASSUME IInv PROVE SealBindsResult
    OBVIOUS
  <2>1. ASSUME NEW c \in Calls
        PROVE  /\ result[c] # None =>
                    sealed[c] = IF HasTransition(result[c]) THEN result[c] ELSE None
               /\ \A k \in {sealed[c], result[c]} \ {None} : Artifacts(c, k) \subseteq artifacts
    BY DEF IInv, CallOk
  <2>2. QED BY <1>1, <2>1 DEF IInv, SealBindsResult
<1>3. QED BY <1>2, ToolInvariant, PTL

(***************************************************************************)
(* A lost outcome                                                          *)
(***************************************************************************)

\* The start of c is durable, its outcome is not, and nobody is left who may run it.
Lost(c) ==
    /\ Recovery(c) = "uncertain"
    /\ \A p \in Procs : proc[p].disp = "execute" => Call(p) # c

\* What a step says of a lost call.
StillLost(c) ==
    /\ Recovery(c)' = "uncertain" /\ effects'[c] = effects[c]
    /\ \A p \in Procs : proc'[p].disp = "execute" => Call(p)' # c

\* A step of p gives it no authorization to run a call that was started.
NoGrant(p) ==
    /\ Others(p)
    /\ proc'[p].disp = "execute" =>
         (proc[p].disp = "execute" /\ Call(p)' = Call(p)) \/ started[Call(p)'] = None

LEMMA LostKept ==
    ASSUME NEW c \in Calls, Lost(c), NEW p \in Procs, NoGrant(p), intent \subseteq intent',
           started'[c] = started[c], sealed'[c] = sealed[c], result'[c] = result[c],
           effects'[c] = effects[c]
    PROVE  StillLost(c)
<1>1. c \in intent /\ result[c] = None /\ sealed[c] = None /\ started[c] # None
  BY DEF Lost, Recovery
<1>2. Recovery(c)' = "uncertain"
  BY <1>1 DEF Recovery
<1>3. ASSUME NEW q \in Procs, proc'[q].disp = "execute", Call(q)' = c
      PROVE  FALSE
  <2>1. CASE q = p
    BY <1>1, <1>3, <2>1 DEF NoGrant, Lost
  <2>2. CASE q # p
    BY <1>3, <2>2 DEF NoGrant, Others, Lost, Call
  <2>3. QED BY <2>1, <2>2
<1>4. QED BY <1>2, <1>3 DEF StillLost

\* The steps that authorize nothing.
LEMMA GotoGrantsNothing ==
    ASSUME Types, NEW p \in Procs, NEW l, Goto(p, l)
    PROVE  NoGrant(p)
<1>1. proc \in [Procs -> Records] /\ proc[p] \in Records
  BY DEF Types
<1> DEFINE r == [proc[p] EXCEPT !.st = l]
<1>2. r.disp = proc[p].disp /\ r.done = proc[p].done
  BY <1>1 DEF Records
<1>3. proc' = [proc EXCEPT ![p] = r]
  BY DEF Goto
<1> HIDE DEF r
<1>4. proc'[p] = r /\ Others(p)
  BY <1>1, <1>3 DEF Others
<1>5. QED BY <1>2, <1>4 DEF NoGrant, Call

LEMMA IdleGrantsNothing ==
    ASSUME BatchFit, Types, NEW p \in Procs, proc' = [proc EXCEPT ![p] = Idle]
    PROVE  NoGrant(p)
BY IdleFields DEF NoGrant

LEMMA PlaceGrantsNothing ==
    ASSUME Types, NEW p \in Procs, Others(p), PlaceOk(p)', proc'[p].st \notin ExecuteAt
    PROVE  NoGrant(p)
BY DEF NoGrant, PlaceOk

\* One process's record becomes r.
LEMMA Became ==
    ASSUME Types, NEW p \in Procs, NEW r, proc' = [proc EXCEPT ![p] = r]
    PROVE  proc'[p] = r /\ Others(p)
BY DEF Types, Others

\* The steps that only read the receipts, or write none of a call that was started.
LEMMA ReadersGrantNothing ==
    ASSUME BatchFit, IInv, IInv', NEW p \in Procs,
           \/ EmitCall(p) \/ AssertLive(p) \/ Validate(p) \/ PutArtifact(p) \/ Finalize(p)
           \/ Recover(p) \/ PersistCheck(p) \/ Suspend(p) \/ Finish(p) \/ Crash(p)
    PROVE  NoGrant(p)
<1>0. Types
  BY DEF IInv
<1>1. (\E l : Goto(p, l)) \/ proc' = [proc EXCEPT ![p] = Idle]
  BY DEF EmitCall, AssertLive, Validate, PutArtifact, Finalize, Recover, PersistCheck, Suspend,
     Finish, Crash, Raises, Ends
<1>2. QED BY <1>0, <1>1, GotoGrantsNothing, IdleGrantsNothing

LEMMA EntriesGrantNothing ==
    ASSUME BatchFit, IInv, IInv', NEW p \in Procs, Acquire(p) \/ Prepare(p) \/ Enter(p) \/ Deliver(p)
    PROVE  NoGrant(p)
<1>0. Types /\ PlaceOk(p)' /\ proc[p] \in Records
  BY DEF IInv, Types
<1>1. /\ "ready" \notin ExecuteAt /\ "execute" \notin ExecuteAt /\ "guard_authorize" \notin ExecuteAt
  BY DEF ExecuteAt, Running, Storing, Sealing, Writing, Returning
<1>2. CASE Acquire(p)
  <2> DEFINE r == [Idle EXCEPT !.st = "ready", !.token = lease'.token, !.resumed = saved.pending,
                               !.state = saved.state, !.done = saved.done]
  <2>1. PICK a : a = r
    OBVIOUS
  <2>2. a.st = "ready"
    BY <2>1 DEF Idle
  <2>3. proc' = [proc EXCEPT ![p] = a]
    BY <1>2, <2>1 DEF Acquire
  <2> HIDE DEF r
  <2>4. proc'[p] = a /\ Others(p)
    BY <1>0, <2>3, Became
  <2>5. QED BY <1>0, <1>1, <2>2, <2>4, PlaceGrantsNothing
<1>3. CASE Prepare(p)
  <2>1. CASE Goto(p, "suspend")
    BY <1>0, <2>1, GotoGrantsNothing
  <2>2. CASE \E x : proc' = [proc EXCEPT ![p].st = "execute", ![p].subject = x]
    <3>1. PICK x : proc' = [proc EXCEPT ![p].st = "execute", ![p].subject = x]
      BY <2>2
    <3>2. PICK a : a = [proc[p] EXCEPT !.st = "execute", !.subject = x]
      OBVIOUS
    <3>3. a.st = "execute"
      BY <1>0, <3>2 DEF Records
    <3>4. proc' = [proc EXCEPT ![p] = a]
      BY <3>1, <3>2
    <3>5. proc'[p] = a /\ Others(p)
      BY <1>0, <3>4, Became
    <3>6. QED BY <1>0, <1>1, <3>3, <3>5, PlaceGrantsNothing
  <2>3. QED BY <1>3, <2>1, <2>2 DEF Prepare
<1>4. CASE Enter(p)
  <2>1. PICK x : proc' = [proc EXCEPT ![p].st = "guard_authorize", ![p].bound = x]
    BY <1>4 DEF Enter
  <2>2. PICK a : a = [proc[p] EXCEPT !.st = "guard_authorize", !.bound = x]
    OBVIOUS
  <2>3. a.st = "guard_authorize"
    BY <1>0, <2>2 DEF Records
  <2>4. proc' = [proc EXCEPT ![p] = a]
    BY <2>1, <2>2
  <2>5. proc'[p] = a /\ Others(p)
    BY <1>0, <2>4, Became
  <2>6. QED BY <1>0, <1>1, <2>3, <2>5, PlaceGrantsNothing
<1>5. CASE Deliver(p)
  <2>1. CASE Ends(p)
    BY <1>0, <2>1, IdleGrantsNothing DEF Ends
  <2>2. CASE ~Ends(p)
    <3> DEFINE r == [Idle EXCEPT !.st = "ready", !.token = proc[p].token,
                        !.resumed = proc[p].resumed,
                        !.state = IF HasTransition(proc[p].completion)
                                  THEN proc[p].completion.next ELSE proc[p].state,
                        !.done = Append(proc[p].done, Call(p))]
    <3>1. proc' = [proc EXCEPT ![p] = r]
      BY <1>5, <2>2 DEF Deliver, Raises
    <3>2. PICK a : a = r
      OBVIOUS
    <3>3. a.st = "ready"
      BY <3>2 DEF Idle
    <3>4. proc' = [proc EXCEPT ![p] = a]
      BY <3>1, <3>2
    <3>5. proc'[p] = a /\ Others(p)
      BY <1>0, <3>4, Became
    <3>6. QED BY <1>0, <1>1, <3>3, <3>5, PlaceGrantsNothing
  <2>3. QED BY <2>1, <2>2
<1>6. QED BY <1>2, <1>3, <1>4, <1>5

\* The steps that write a receipt, or give an authorization.
LEMMA WritersKeepLost ==
    ASSUME BatchFit, IInv, IInv', NEW c \in Calls, Lost(c), NEW p \in Procs,
           Authorize(p) \/ Claim(p) \/ RunHandler(p) \/ HandlerFails(p) \/ Seal(p) \/ AppendResult(p)
    PROVE  StillLost(c)
<1>0. /\ Types /\ PlaceOk(p) /\ HoldOk(p) /\ proc[p] \in Records
      /\ c \in intent /\ result[c] = None /\ sealed[c] = None /\ started[c] # None
  BY DEF IInv, Types, Lost, Recovery
<1>1. ASSUME NEW d \in {"finalize", "reuse"}, Authorized(p, d) PROVE NoGrant(p)
  <2>1. PICK k : proc' = [proc EXCEPT ![p].st = "validate", ![p].disp = d, ![p].completion = k]
    BY <1>1 DEF Authorized
  <2>2. PICK a : a = [proc[p] EXCEPT !.st = "validate", !.disp = d, !.completion = k]
    OBVIOUS
  <2>3. a.disp = d
    BY <1>0, <2>2 DEF Records
  <2>4. proc' = [proc EXCEPT ![p] = a]
    BY <2>1, <2>2
  <2>5. proc'[p] = a /\ Others(p)
    BY <1>0, <2>4, Became
  <2>6. QED BY <2>3, <2>5 DEF NoGrant
<1>2. CASE Authorize(p)
  <2>1. ASSUME Goto(p, "claim") \/ Ends(p) PROVE NoGrant(p)
    BY <1>0, <2>1, GotoGrantsNothing, IdleGrantsNothing DEF Ends
  <2>2. NoGrant(p)
    BY <1>1, <1>2, <2>1 DEF Authorize, Raises
  <2>3. UNCHANGED <<intent, started, sealed, result, effects>>
    BY <1>2 DEF Authorize, receipts, history
  <2>4. QED BY <2>2, <2>3, LostKept
<1>3. CASE Claim(p)
  <2>1. UNCHANGED <<intent, sealed, result, effects>>
    BY <1>3 DEF Claim, history
  <2>2. CASE (Goto(p, "authorize") \/ Ends(p)) /\ UNCHANGED started
    BY <1>0, <2>1, <2>2, GotoGrantsNothing, IdleGrantsNothing, LostKept DEF Ends
  <2>3. CASE /\ started[Call(p)] = None /\ started' = [started EXCEPT ![Call(p)] = proc[p].subject]
             /\ Authorized(p, "execute")
    <3>1. started'[c] = started[c]
      BY <1>0, <2>3 DEF Types
    <3>2. Granted(p, "execute", None)
      BY <2>3 DEF Authorized, Granted
    <3>3. Others(p) /\ Call(p)' = Call(p)
      BY <1>0, <3>2, AuthorizedFields
    <3>4. NoGrant(p)
      BY <2>3, <3>3 DEF NoGrant
    <3>5. QED BY <2>1, <3>1, <3>4, LostKept
  <2>4. QED BY <1>3, <2>2, <2>3 DEF Claim, Raises
<1>4. CASE RunHandler(p)
  <2>1. /\ proc[p].st = "run" /\ UNCHANGED <<intent, started, sealed, result>>
        /\ \/ effects' = effects
           \/ effects' = [effects EXCEPT ![Call(p)] = Append(@, proc[p].subject)]
    BY <1>4 DEF RunHandler, At, durable, receipts
  <2>2. c # Call(p)
    BY <2>1, AboutToRun DEF Lost
  <2>3. effects'[c] = effects[c]
    BY <2>1, <2>2, EffectFields
  <2>4. PICK k : Returned(p, "guard_store", k)
    BY <1>4 DEF RunHandler, Returned
  <2>5. PICK a : a = [proc[p] EXCEPT !.st = "guard_store", !.completion = k]
    OBVIOUS
  <2>6. a.disp = proc[p].disp /\ a.done = proc[p].done
    BY <1>0, <2>5 DEF Records
  <2>7. proc' = [proc EXCEPT ![p] = a]
    BY <2>4, <2>5 DEF Returned
  <2>8. proc'[p] = a /\ Others(p)
    BY <1>0, <2>7, Became
  <2>9. NoGrant(p)
    BY <2>6, <2>8 DEF NoGrant, Call
  <2>10. QED BY <2>1, <2>3, <2>9, LostKept
<1>5. CASE HandlerFails(p)
  <2>1. /\ proc[p].st = "run" /\ UNCHANGED <<intent, started, sealed, result>>
        /\ effects' = [effects EXCEPT ![Call(p)] = Append(@, proc[p].subject)]
        /\ proc' = [proc EXCEPT ![p] = Idle]
    BY <1>5 DEF HandlerFails, At, receipts, Raises, Ends
  <2>2. c # Call(p)
    BY <2>1, AboutToRun DEF Lost
  <2>3. QED BY <1>0, <2>1, <2>2, EffectFields, IdleGrantsNothing, LostKept
<1>6. CASE Seal(p)
  <2>1. /\ proc[p].st = "seal" /\ UNCHANGED <<intent, started, result, effects>>
        /\ sealed' = sealed \/ sealed' = [sealed EXCEPT ![Call(p)] = proc[p].completion]
        /\ Goto(p, "guard_result") \/ proc' = [proc EXCEPT ![p] = Idle]
    BY <1>6 DEF Seal, At, history, Raises, Ends
  <2>2. proc[p].disp = "execute"
    <3>1. "seal" \in Authorized3 /\ "seal" \notin FinalizeAt /\ "seal" \notin ReuseAt
      BY DEF Authorized3, Sealing, FinalizeAt, ReuseAt, Returning
    <3>2. QED BY <2>1, <3>1, HolderFacts
  <2>3. sealed'[c] = sealed[c]
    BY <1>0, <2>1, <2>2 DEF Types, Lost
  <2>4. NoGrant(p)
    BY <1>0, <2>1, GotoGrantsNothing, IdleGrantsNothing
  <2>5. QED BY <2>1, <2>3, <2>4, LostKept
<1>7. CASE AppendResult(p)
  <2>1. /\ proc[p].st = "append_result" /\ UNCHANGED <<intent, started, sealed, effects>>
        /\ result' = result \/ result' = [result EXCEPT ![Call(p)] = proc[p].completion]
        /\ Goto(p, "guard_return") \/ proc' = [proc EXCEPT ![p] = Idle]
    BY <1>7 DEF AppendResult, At, history, Raises, Ends
  <2>2. c # Call(p)
    <3>1. "append_result" \in Authorized3 /\ "append_result" \notin ReuseAt
      BY DEF Authorized3, Writing, ReuseAt, Returning
    <3>2. proc[p].disp \in {"execute", "finalize"}
      BY <2>1, <3>1, HolderFacts
    <3>3. QED BY <1>0, <3>2 DEF HoldOk, Lost
  <2>3. result'[c] = result[c]
    BY <1>0, <2>1, <2>2 DEF Types
  <2>4. NoGrant(p)
    BY <1>0, <2>1, GotoGrantsNothing, IdleGrantsNothing
  <2>5. QED BY <2>1, <2>3, <2>4, LostKept
<1>8. QED BY <1>2, <1>3, <1>4, <1>5, <1>6, <1>7

\* A call whose outcome was lost stays uncertain: it is neither authorized, run nor given
\* a result later (the DurableToolBoundary docstring).
THEOREM LostOutcomeIsFinal ==
    ASSUME BatchFit
    PROVE  Spec => LostStaysUncertain
<1>1. ASSUME IInv, IInv', Next, NEW c \in Calls, Lost(c)
      PROVE  StillLost(c)
  <2>1. CASE Decide
    <3>1. UNCHANGED <<proc, intent, started, sealed, result, effects>>
      BY <2>1 DEF Decide, receipts, history
    <3>2. QED BY <1>1, <3>1 DEF Lost, StillLost, Recovery, Call
  <2>2. ASSUME NEW p \in Procs, Acquire(p) \/ Step(p) \/ Crash(p)
        PROVE  StillLost(c)
    <3>1. CASE \/ Authorize(p) \/ Claim(p) \/ RunHandler(p) \/ HandlerFails(p) \/ Seal(p)
               \/ AppendResult(p)
      BY <1>1, <3>1, WritersKeepLost
    <3>2. CASE \/ EmitCall(p) \/ AssertLive(p) \/ Validate(p) \/ PutArtifact(p) \/ Finalize(p)
               \/ Recover(p) \/ PersistCheck(p) \/ Suspend(p) \/ Finish(p) \/ Crash(p)
      <4>1. intent \subseteq intent' /\ UNCHANGED <<started, sealed, result, effects>>
        BY <3>2 DEF EmitCall, AssertLive, Validate, PutArtifact, Finalize, Recover, PersistCheck,
           Suspend, Finish, Crash, durable, receipts, history
      <4>2. QED BY <1>1, <3>2, <4>1, ReadersGrantNothing, LostKept
    <3>3. CASE Acquire(p) \/ Prepare(p) \/ Enter(p) \/ Deliver(p)
      <4>1. UNCHANGED <<intent, started, sealed, result, effects>>
        BY <3>3 DEF Acquire, Prepare, Enter, Deliver, durable, receipts, history
      <4>2. QED BY <1>1, <3>3, <4>1, EntriesGrantNothing, LostKept
    <3>4. QED BY <2>2, <3>1, <3>2, <3>3 DEF Step
  <2>3. QED BY <1>1, <2>1, <2>2 DEF Next
<1>2. IInv /\ IInv' /\ [Next]_vars =>
        [\A c \in Calls :
           (/\ Recovery(c) = "uncertain"
            /\ \A p \in Procs : proc[p].disp = "execute" => Call(p) # c)
           => /\ Recovery(c)' = "uncertain" /\ effects'[c] = effects[c]
              /\ \A p \in Procs : proc'[p].disp = "execute" => Call(p)' # c]_vars
  BY <1>1 DEF Lost, StillLost
<1>3. QED BY <1>2, ToolInvariant, PTL DEF Spec, LostStaysUncertain
=============================================================================
