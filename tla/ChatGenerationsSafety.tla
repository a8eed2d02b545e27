----------------------- MODULE ChatGenerationsSafety -----------------------
(***************************************************************************)
(* What the tables of a chat keep to, for every set of chats, executions   *)
(* and hosts: one line of generations, nothing of a deleted chat back      *)
(* where no host uses advance, and every chat serviceable where the        *)
(* rebase alone serves it.  IInv is the invariant they rest on.            *)
(***************************************************************************)
EXTENDS ChatGenerations, TLAPS

USE Zenon

(***************************************************************************)
(* The inductive invariant.                                                *)
(***************************************************************************)
\* An import fills at least one row of the journal.
RangesFit == \A m \in db.manifests : m.first = m.last /\ 1 <= m.last

\* The rows that a rebase leaves beside its manifest.
RecordOf(i) ==
    [chat |-> i.chat, x |-> i.x, g |-> i.g, kind |-> CompatibleKind(i.kind),
     prev |-> i.prev, rev |-> i.rev + 1, op |-> <<"transition", i.op>>]
TransitionOf(i) ==
    [chat |-> i.chat, op |-> <<"transition", i.op>>, kind |-> "transition", g |-> i.g,
     rev |-> i.rev + 1, att |-> None]
BindingOf(i) ==
    [chat |-> i.chat, x |-> i.x, g |-> i.g, att |-> i.att, rev |-> i.rev + 1,
     op |-> <<"binding", i.op>>]
BindingOpOf(i) ==
    [chat |-> i.chat, op |-> <<"binding", i.op>>, kind |-> "attempt_binding", g |-> i.g,
     rev |-> i.rev + 1, att |-> i.att]

\* A manifest stands with everything its rebase wrote, on the execution its
\* chat is bound to.
Backed(m) ==
    /\ m.intent.svc = "rebase"
    /\ m.intent \in db.operations
    /\ m.intent.x = db.binding[m.intent.chat]
    /\ RecordOf(m.intent) \in db.records
    /\ TransitionOf(m.intent) \in db.hostOps
    /\ BindingOf(m.intent) \in db.bound
    /\ BindingOpOf(m.intent) \in db.hostOps
    /\ ImportIntact(m)

\* Both heads of a chat are those of one manifest, or neither is there.
HeadsOf(c) ==
    IF db.hostHead[c] = None THEN db.legacyHead[c] = None /\ db.binding[c] = None
    ELSE /\ db.hostTables
         /\ db.binding[c] = db.hostHead[c].x
         /\ \E m \in ManifestsOf(c) :
              /\ m.intent.x = db.hostHead[c].x
              /\ m.intent.g = db.hostHead[c].g
              /\ m.intent.rev + 1 = db.hostHead[c].rev
              /\ db.legacyHead[c] = LegacyHead(m.intent, db.hostHead[c].rev)

Serviced ==
    /\ \A c \in Chats : HeadsOf(c)
    /\ \A m \in db.manifests : Backed(m)
    /\ \A i \in db.operations : \E m \in db.manifests : m.intent = i
    /\ \A c, d \in Chats : db.binding[c] # None /\ db.binding[c] = db.binding[d] => c = d

IInv == Lineage /\ RangesFit /\ NotResurrected /\ (OnlyRebase => Serviced)

(***************************************************************************)
(* The parts of Lineage.                                                   *)
(***************************************************************************)
RecordsOf(c) == {r \in db.records : r.chat = c}

\* The records of a chat number the revisions up to its head, in order.
Line(rs, h) ==
    IF h = None THEN rs = {}
    ELSE /\ \A r \in rs : r.rev \in 1 .. h.rev
         /\ \A n \in 1 .. h.rev : \E r \in rs : r.rev = n
         /\ \A r, s \in rs : r.rev = s.rev => r = s
         /\ \A r \in rs : r.rev = h.rev => r.g = h.g
         /\ \A r \in rs : r.x = h.x /\ (r.rev = 1 <=> r.prev = None)
         /\ \A r, s \in rs : s.rev = r.rev + 1 => s.prev = r.g

LineOf(c) == Line(RecordsOf(c), db.hostHead[c])

BoundRecorded ==
    \A b \in db.bound : \E r \in db.records :
        r.chat = b.chat /\ r.x = b.x /\ r.g = b.g /\ r.rev = b.rev

BoundOnce == \A a, b \in db.bound : a.x = b.x /\ a.att = b.att => a = b

\* A manifest's events are where it says.
Holds(m) ==
    /\ m.last <= Len(Journal(m.intent.x))
    /\ \A n \in m.first .. m.last :
         /\ Journal(m.intent.x)[n].g = m.intent.g
         /\ Journal(m.intent.x)[n].type \in {"import", "legacy"}

\* Lineage, part by part.
LEMMA LineageParts ==
    Lineage <=> /\ TypeOK
                /\ \A c \in Chats : LineOf(c)
                /\ BoundRecorded
                /\ BoundOnce
                /\ \A m \in db.manifests : Holds(m)
<1>1. ASSUME NEW c \in Chats
      PROVE  LineOf(c) <=>
               LET rs == {r \in db.records : r.chat = c}
                   h == db.hostHead[c]
               IN /\ h = None => rs = {}
                  /\ h # None =>
                       /\ {r.rev : r \in rs} = 1 .. h.rev
                       /\ \A r, s \in rs : r.rev = s.rev => r = s
                       /\ \A r \in rs : r.rev = h.rev => r.g = h.g
                       /\ \A r \in rs : r.x = h.x /\ (r.rev = 1) = (r.prev = None)
                       /\ \A r, s \in rs : s.rev = r.rev + 1 => s.prev = r.g
  <2> DEFINE rs == RecordsOf(c)
             h == db.hostHead[c]
  <2>1. {r.rev : r \in rs} = 1 .. h.rev <=>
          /\ \A r \in rs : r.rev \in 1 .. h.rev
          /\ \A n \in 1 .. h.rev : \E r \in rs : r.rev = n
    <3> HIDE DEF rs, h
    <3>1. QED OBVIOUS
  <2>2. \A r \in rs : ((r.rev = 1) = (r.prev = None)) <=> (r.rev = 1 <=> r.prev = None)
    OBVIOUS
  <2>3. QED BY <2>1, <2>2 DEF LineOf, Line, RecordsOf
<1>2. QED BY <1>1 DEF Lineage, BoundRecorded, BoundOnce, Holds

(***************************************************************************)
(* Types of the rows that a step writes.                                   *)
(***************************************************************************)
\* The ids a request carries are ids.
LEMMA ArgTypes ==
    /\ OpArgs \subseteq Ops /\ GenArgs \subseteq Gens
    /\ AttemptArgs \subseteq Attempts /\ SourceArgs \subseteq Sources
  BY DEF OpArgs, GenArgs, AttemptArgs, SourceArgs, Named

\* What the host of a site knows is named in the constants.
LEMMA SiteNames ==
    ASSUME SitesFit, site \in Sites
    PROVE  /\ site.chats \subseteq Chats /\ site.execs \subseteq Execs
           /\ Gens \subseteq Nat /\ Sources \subseteq Nat
  BY SMT DEF SitesFit, SiteType, Gens, Sources

LEMMA HostOpIdType ==
    ASSUME NEW op \in Ops
    PROVE  /\ <<"host", op>> \in HostOpIds /\ <<"transition", op>> \in HostOpIds
           /\ <<"binding", op>> \in HostOpIds
  BY SMT DEF HostOpIds

LEMMA JournalType ==
    ASSUME db \in Rows, NEW x \in Execs
    PROVE  Journal(x) \in Seq(Events)
  BY SMT DEF Rows, Journal

\* The columns of the tables.
LEMMA Columns ==
    ASSUME NEW d \in Rows
    PROVE  /\ d.journal \in [Execs -> {None} \cup Seq(Events)]
           /\ d.operations \subseteq Intents
           /\ d.binding \in [Chats -> Execs \cup {None}]
           /\ d.records \subseteq Records
           /\ d.hostHead \in [Chats -> Heads \cup {None}]
           /\ d.hostOps \subseteq HostOps
           /\ d.bound \subseteq Bindings
           /\ d.manifests \subseteq Manifests
           /\ d.legacyHead \in [Chats -> LegacyHeads \cup {None}]
           /\ d.tombstone \in [Chats -> {None} \cup SUBSET Execs]
  BY SMT DEF Rows

LEMMA TransitionRows ==
    ASSUME db \in Rows, NEW c \in Chats, NEW x \in Execs,
           NEW kind \in {"initial", "regenerate"}, NEW prev \in Gens \cup {None},
           NEW g \in Gens, NEW rev \in Revisions, NEW id \in HostOpIds
    PROVE  Transition(c, x, kind, prev, g, rev, id) \in Rows
<1>1. [chat |-> c, x |-> x, g |-> g, kind |-> kind, prev |-> prev, rev |-> rev, op |-> id]
        \in Records
  BY SMT DEF Records
<1>2. [chat |-> c, op |-> id, kind |-> "transition", g |-> g, rev |-> rev, att |-> None]
        \in HostOps
  BY SMT DEF HostOps
<1>3. [x |-> x, g |-> g, rev |-> rev] \in Heads
  BY SMT DEF Heads
<1>4. PICK rs \in SUBSET Records :
        rs = db.records \cup {[chat |-> c, x |-> x, g |-> g, kind |-> kind, prev |-> prev,
                               rev |-> rev, op |-> id]}
  BY <1>1, Columns
<1>5. PICK os \in SUBSET HostOps :
        os = db.hostOps \cup {[chat |-> c, op |-> id, kind |-> "transition", g |-> g,
                               rev |-> rev, att |-> None]}
  BY <1>2, Columns
<1>6. PICK hs \in [Chats -> Heads \cup {None}] :
        hs = [db.hostHead EXCEPT ![c] = [x |-> x, g |-> g, rev |-> rev]]
  BY <1>3, Columns
<1>7. Transition(c, x, kind, prev, g, rev, id)
        = [db EXCEPT !.records = rs, !.hostOps = os, !.hostHead = hs]
  BY <1>4, <1>5, <1>6 DEF Transition
<1>8. QED BY <1>7 DEF Rows

LEMMA BindingRowsRows ==
    ASSUME NEW d \in Rows, NEW c \in Chats, NEW x \in Execs, NEW g \in Gens,
           NEW att \in Attempts, NEW rev \in Revisions, NEW id \in HostOpIds
    PROVE  BindingRows(d, c, x, g, att, rev, id) \in Rows
<1>1. [chat |-> c, op |-> id, kind |-> "attempt_binding", g |-> g, rev |-> rev, att |-> att]
        \in HostOps
  BY SMT DEF HostOps
<1>2. [chat |-> c, x |-> x, g |-> g, att |-> att, rev |-> rev, op |-> id] \in Bindings
  BY SMT DEF Bindings
<1>3. PICK os \in SUBSET HostOps :
        os = d.hostOps \cup {[chat |-> c, op |-> id, kind |-> "attempt_binding", g |-> g,
                              rev |-> rev, att |-> att]}
  BY <1>1, Columns
<1>4. PICK bs \in SUBSET Bindings :
        bs = d.bound \cup {[chat |-> c, x |-> x, g |-> g, att |-> att, rev |-> rev, op |-> id]}
  BY <1>2, Columns
<1>5. BindingRows(d, c, x, g, att, rev, id) = [d EXCEPT !.hostOps = os, !.bound = bs]
  BY <1>3, <1>4 DEF BindingRows
<1>6. QED BY <1>5 DEF Rows

LEMMA ImportRows ==
    ASSUME db \in Rows, NEW d \in Rows, NEW i \in Intents, NEW type \in {"import", "legacy"}
    PROVE  Import(d, i, type) \in Rows
<1>i. i.x \in Execs /\ i.g \in Gens /\ i.att \in Attempts
  BY SMT DEF Intents
<1>1. [g |-> i.g, att |-> i.att, type |-> type] \in Events
  BY <1>i, SMT DEF Events, EventTypes
<1>2. Append(Journal(i.x), [g |-> i.g, att |-> i.att, type |-> type]) \in Seq(Events)
  BY <1>1, <1>i, JournalType, SMT
<1>3. PICK n \in Nat : n = Len(Journal(i.x)) + 1
  BY <1>i, JournalType, SMT
<1>4. [intent |-> i, first |-> n, last |-> n] \in Manifests
  BY SMT DEF Manifests
<1>5. PICK js \in [Execs -> {None} \cup Seq(Events)] :
        js = [d.journal EXCEPT ![i.x] =
                 Append(Journal(i.x), [g |-> i.g, att |-> i.att, type |-> type])]
  BY <1>2, <1>i, Columns
<1>6. PICK ms \in SUBSET Manifests :
        ms = d.manifests \cup {[intent |-> i, first |-> n, last |-> n]}
  BY <1>4, Columns
<1>7. PICK is \in SUBSET Intents : is = d.operations \cup {i}
  BY Columns
<1>8. Import(d, i, type)
        = [d EXCEPT !.journal = js, !.operations = is, !.manifests = ms]
  BY <1>3, <1>5, <1>6, <1>7 DEF Import
<1>9. QED BY <1>8 DEF Rows

\* None is no head, no id and no journal.
LEMMA NoneApart ==
    ASSUME SitesFit, NoneFits, site \in Sites
    PROVE  /\ None \notin Heads /\ None \notin LegacyHeads
           /\ None \notin Gens /\ None \notin Execs
           /\ None \notin Seq(Events)
<1>1. Gens \subseteq Nat /\ Attempts \subseteq Nat /\ Sources \subseteq Nat
  BY SMT DEF SitesFit, SiteType, Gens, Attempts, Sources
<1>2. Heads \subseteq [x : Execs, g : Nat, rev : Nat]
  BY <1>1 DEF Heads, Revisions
<1>3. LegacyHeads \subseteq [x : Execs, g : Nat, rev : Nat, src : Nat]
  BY <1>1 DEF LegacyHeads
<1>4. None \notin Seq(Events)
  BY DEF NoneFits, Events, Gens, Attempts
<1>5. QED BY <1>1, <1>2, <1>3, <1>4 DEF NoneFits

(***************************************************************************)
(* The line of generations.                                                *)
(***************************************************************************)
\* Lines depend on the records and the heads alone.
LEMMA LinesKept ==
    ASSUME \A c \in Chats : LineOf(c),
           db'.records = db.records, db'.hostHead = db.hostHead
    PROVE  \A c \in Chats : LineOf(c)'
<1>1. \A c \in Chats : RecordsOf(c)' = RecordsOf(c)
  BY DEF RecordsOf
<1>2. QED BY <1>1 DEF LineOf

\* A record that follows the head of its chat, or begins one, extends its line.
Follows(r) ==
    IF db.hostHead[r.chat] = None THEN r.rev = 1 /\ r.prev = None
    ELSE /\ r.rev = db.hostHead[r.chat].rev + 1
         /\ r.prev = db.hostHead[r.chat].g
         /\ r.x = db.hostHead[r.chat].x

LEMMA LineExtended ==
    ASSUME SitesFit, NoneFits, TypeOK, \A c \in Chats : LineOf(c),
           NEW r \in Records, Follows(r),
           db'.records = db.records \cup {r},
           db'.hostHead = [db.hostHead EXCEPT ![r.chat] = [x |-> r.x, g |-> r.g, rev |-> r.rev]]
    PROVE  \A c \in Chats : LineOf(c)'
<1> SUFFICES ASSUME NEW c \in Chats PROVE LineOf(c)'
  OBVIOUS
<1>r. r.chat \in Chats /\ r.rev \in Revisions /\ r.g \in Gens /\ r.x \in Execs
  BY SMT DEF Records
<1>n. None \notin Heads /\ None \notin Gens
  BY NoneApart DEF TypeOK
<1>t. /\ db.hostHead \in [Chats -> Heads \cup {None}]
      /\ db.records \subseteq Records
  BY Columns DEF TypeOK
<1>1. CASE c # r.chat
  <2>1. db'.hostHead[c] = db.hostHead[c]
    BY <1>1, <1>t
  <2>2. RecordsOf(c)' = RecordsOf(c)
    BY <1>1 DEF RecordsOf
  <2>3. QED BY <2>1, <2>2 DEF LineOf
<1>2. CASE c = r.chat
  <2>h. PICK h \in Heads : h = [x |-> r.x, g |-> r.g, rev |-> r.rev]
    BY <1>r DEF Heads
  <2>f. h.x = r.x /\ h.g = r.g /\ h.rev = r.rev
    BY <2>h, SMT
  <2>1. db'.hostHead[c] = h /\ h # None
    BY <1>2, <1>t, <2>h, <1>n
  <2>2. RecordsOf(c)' = RecordsOf(c) \cup {r}
    BY <1>2 DEF RecordsOf
  <2>3. CASE db.hostHead[c] = None
    <3>1. RecordsOf(c) = {}
      BY <2>3 DEF LineOf, Line
    <3>2. r.rev = 1 /\ r.prev = None
      BY <1>2, <2>3 DEF Follows
    <3>3. RecordsOf(c)' = {r}
      BY <3>1, <2>2
    <3>4. QED BY <2>1, <3>2, <3>3, <2>f, SMT DEF LineOf, Line
  <2>4. CASE db.hostHead[c] # None
    <3> DEFINE k == db.hostHead[c]
    <3>1. /\ r.rev = k.rev + 1 /\ r.prev = k.g /\ r.x = k.x
      BY <1>2, <2>4 DEF Follows
    <3>2. k \in Heads
      BY <2>4, <1>t
    <3>3. k.rev \in Revisions /\ k.g \in Gens
      BY <3>2, SMT DEF Heads
    <3>4. /\ \A s \in RecordsOf(c) : s.rev \in 1 .. k.rev
          /\ \A n \in 1 .. k.rev : \E s \in RecordsOf(c) : s.rev = n
          /\ \A q, s \in RecordsOf(c) : q.rev = s.rev => q = s
          /\ \A s \in RecordsOf(c) : s.rev = k.rev => s.g = k.g
          /\ \A s \in RecordsOf(c) : s.x = k.x /\ (s.rev = 1 <=> s.prev = None)
          /\ \A q, s \in RecordsOf(c) : s.rev = q.rev + 1 => s.prev = q.g
      BY <2>4 DEF LineOf, Line
    <3> HIDE DEF k
    <3>5. \A s \in RecordsOf(c)' : s.rev \in 1 .. h.rev
      BY <2>2, <2>f, <3>1, <3>3, <3>4, SMT DEF Revisions
    <3>6. \A n \in 1 .. h.rev : \E s \in RecordsOf(c)' : s.rev = n
      BY <2>2, <2>f, <3>1, <3>3, <3>4, SMT DEF Revisions
    <3>7. \A q, s \in RecordsOf(c)' : q.rev = s.rev => q = s
      BY <2>2, <2>f, <3>1, <3>3, <3>4, SMT DEF Revisions
    <3>8. \A s \in RecordsOf(c)' : s.rev = h.rev => s.g = h.g
      BY <2>2, <2>f, <3>1, <3>3, <3>4, SMT DEF Revisions
    <3>9. \A s \in RecordsOf(c)' : s.x = h.x /\ (s.rev = 1 <=> s.prev = None)
      <4>1. r.rev # 1 /\ r.prev # None
        BY <3>1, <3>3, <1>n, SMT DEF Revisions
      <4>2. QED BY <4>1, <2>2, <2>f, <3>1, <3>4
    <3>10. \A q, s \in RecordsOf(c)' : s.rev = q.rev + 1 => s.prev = q.g
      BY <2>2, <2>f, <3>1, <3>3, <3>4, SMT DEF Revisions
    <3>11. QED BY <2>1, <3>5, <3>6, <3>7, <3>8, <3>9, <3>10 DEF LineOf, Line
  <2>5. QED BY <2>3, <2>4
<1>3. QED BY <1>1, <1>2

\* Without one chat, the lines of the others stand.
LEMMA LinesOfOthers ==
    ASSUME TypeOK, NEW c \in Chats, \A d \in Chats : LineOf(d),
           db'.records = {r \in db.records : r.chat # c},
           db'.hostHead = [db.hostHead EXCEPT ![c] = None]
    PROVE  \A d \in Chats : LineOf(d)'
<1>t. db.hostHead \in [Chats -> Heads \cup {None}]
  BY Columns DEF TypeOK
<1> SUFFICES ASSUME NEW d \in Chats PROVE LineOf(d)'
  OBVIOUS
<1>1. CASE d = c
  <2>1. RecordsOf(d)' = {}
    BY <1>1 DEF RecordsOf
  <2>2. db'.hostHead[d] = None
    BY <1>1, <1>t
  <2>3. QED BY <2>1, <2>2 DEF LineOf, Line
<1>2. CASE d # c
  <2>1. RecordsOf(d)' = RecordsOf(d)
    BY <1>2 DEF RecordsOf
  <2>2. db'.hostHead[d] = db.hostHead[d]
    BY <1>2, <1>t
  <2>3. QED BY <2>1, <2>2 DEF LineOf
<1>3. QED BY <1>1, <1>2

(***************************************************************************)
(* The attempts that are bound.                                            *)
(***************************************************************************)
LEMMA BoundsKept ==
    ASSUME BoundRecorded, BoundOnce, db.records \subseteq db'.records, db'.bound = db.bound
    PROVE  BoundRecorded' /\ BoundOnce'
  BY DEF BoundRecorded, BoundOnce

\* A new binding names a record, and an attempt that was not bound before.
LEMMA BoundsExtended ==
    ASSUME BoundRecorded, BoundOnce, NEW b, AttemptUnbound(b.x, b.att),
           db.records \subseteq db'.records, db'.bound = db.bound \cup {b},
           \E r \in db'.records : r.chat = b.chat /\ r.x = b.x /\ r.g = b.g /\ r.rev = b.rev
    PROVE  BoundRecorded' /\ BoundOnce'
<1>1. BoundRecorded'
  BY DEF BoundRecorded
<1>2. BoundOnce'
  BY DEF BoundOnce, AttemptUnbound
<1>3. QED BY <1>1, <1>2

LEMMA BoundsOfOthers ==
    ASSUME BoundRecorded, BoundOnce, NEW c,
           db'.records = {r \in db.records : r.chat # c},
           db'.bound = {b \in db.bound : b.chat # c}
    PROVE  BoundRecorded' /\ BoundOnce'
<1>1. BoundRecorded'
  <2> SUFFICES ASSUME NEW b \in db'.bound
               PROVE  \E r \in db'.records :
                        r.chat = b.chat /\ r.x = b.x /\ r.g = b.g /\ r.rev = b.rev
    BY DEF BoundRecorded
  <2>1. b \in db.bound /\ b.chat # c
    OBVIOUS
  <2>2. PICK r \in db.records : r.chat = b.chat /\ r.x = b.x /\ r.g = b.g /\ r.rev = b.rev
    BY <2>1 DEF BoundRecorded
  <2>3. r \in db'.records
    BY <2>1, <2>2
  <2>4. QED BY <2>2, <2>3
<1>2. BoundOnce'
  BY DEF BoundOnce
<1>3. QED BY <1>1, <1>2

(***************************************************************************)
(* The journals.                                                           *)
(***************************************************************************)
\* What is in the journal of an execution stays where it is.
Grown(x) ==
    /\ Len(Journal(x)') \in Nat
    /\ Len(Journal(x)) <= Len(Journal(x)')
    /\ \A n \in 1 .. Len(Journal(x)) : Journal(x)'[n] = Journal(x)[n]

LEMMA StillGrown ==
    ASSUME TypeOK, NEW y \in Execs, db'.journal[y] = db.journal[y]
    PROVE  Grown(y)
<1>1. Journal(y)' = Journal(y)
  BY DEF Journal
<1>2. PICK p \in Seq(Events) : p = Journal(y)
  BY JournalType DEF TypeOK
<1>3. Len(p) \in Nat /\ Len(p) <= Len(p)
  BY SMT
<1>4. QED BY <1>1, <1>2, <1>3 DEF Grown

\* The journal of one execution grows by one event.
LEMMA AppendGrows ==
    ASSUME SitesFit, NoneFits, TypeOK, NEW x \in Execs, NEW e \in Events,
           db'.journal = [db.journal EXCEPT ![x] = Append(Journal(x), e)]
    PROVE  /\ \A y \in Execs : Grown(y)
           /\ Len(Journal(x)) \in Nat
           /\ Journal(x)' = Append(Journal(x), e)
           /\ Len(Journal(x)') = Len(Journal(x)) + 1
           /\ Journal(x)'[Len(Journal(x)) + 1] = e
<1>t. db.journal \in [Execs -> {None} \cup Seq(Events)]
  BY Columns DEF TypeOK
<1>q. PICK q \in Seq(Events) : q = Journal(x)
  BY JournalType DEF TypeOK
<1>a. Append(q, e) \in Seq(Events)
  BY SMT
<1>n. None \notin Seq(Events)
  BY NoneApart DEF TypeOK
<1>1. db'.journal[x] = Append(q, e)
  BY <1>t, <1>q
<1>2. Journal(x)' = Append(q, e)
  BY <1>1, <1>a, <1>n DEF Journal
<1>3. /\ Len(q) \in Nat /\ Len(Append(q, e)) = Len(q) + 1
      /\ \A n \in 1 .. Len(q) : Append(q, e)[n] = q[n]
      /\ Append(q, e)[Len(q) + 1] = e
  BY SMT
<1>4. Len(q) + 1 \in Nat /\ Len(q) <= Len(q) + 1
  BY <1>3, SMT
<1>5. Grown(x)
  BY <1>q, <1>2, <1>3, <1>4 DEF Grown
<1>6. \A y \in Execs : y # x => Grown(y)
  BY <1>t, StillGrown
<1>7. QED BY <1>q, <1>2, <1>3, <1>5, <1>6

\* A manifest keeps its events in a journal that only grows.
LEMMA HoldsKept ==
    ASSUME TypeOK, RangesFit, NEW m \in db.manifests, Grown(m.intent.x)
    PROVE  /\ Holds(m) => Holds(m)'
           /\ ImportIntact(m) => ImportIntact(m)'
<1>t. db.manifests \subseteq Manifests
  BY Columns DEF TypeOK
<1>m. m.first \in Nat /\ m.last \in Nat /\ m.first = m.last /\ 1 <= m.last
  BY <1>t, SMT DEF RangesFit, Manifests
<1>x. m.intent.x \in Execs
  BY <1>t, SMT DEF Manifests, Intents
<1>j. Len(Journal(m.intent.x)) \in Nat
  BY <1>x, JournalType, SMT DEF TypeOK
<1>g. /\ Len(Journal(m.intent.x)') \in Nat
      /\ Len(Journal(m.intent.x)) <= Len(Journal(m.intent.x)')
      /\ \A n \in 1 .. Len(Journal(m.intent.x)) :
           Journal(m.intent.x)'[n] = Journal(m.intent.x)[n]
  BY DEF Grown
<1>1. ASSUME m.last <= Len(Journal(m.intent.x))
      PROVE  /\ m.last <= Len(Journal(m.intent.x)')
             /\ \A n \in m.first .. m.last : Journal(m.intent.x)'[n] = Journal(m.intent.x)[n]
  BY <1>1, <1>m, <1>j, <1>g, SMT
<1>2. ASSUME Holds(m) PROVE Holds(m)'
  BY <1>1, <1>2 DEF Holds
<1>3. ASSUME ImportIntact(m) PROVE ImportIntact(m)'
  BY <1>1, <1>3 DEF ImportIntact
<1>4. QED BY <1>2, <1>3

\* The event that an import writes is the one its manifest names.
LEMMA ImportHolds ==
    ASSUME SitesFit, NoneFits, TypeOK, NEW i \in Intents, NEW type \in {"import", "legacy"},
           NEW m, m = [intent |-> i, first |-> Len(Journal(i.x)) + 1,
                       last |-> Len(Journal(i.x)) + 1],
           db'.journal = [db.journal EXCEPT ![i.x] =
                             Append(Journal(i.x), [g |-> i.g, att |-> i.att, type |-> type])]
    PROVE  /\ \A x \in Execs : Grown(x)
           /\ m.intent = i /\ m.first = m.last /\ 1 <= m.last
           /\ Holds(m)'
           /\ type = "import" => ImportIntact(m)'
<1>i. i.x \in Execs /\ i.g \in Gens /\ i.att \in Attempts
  BY SMT DEF Intents
<1>e. PICK e \in Events : e = [g |-> i.g, att |-> i.att, type |-> type]
  BY <1>i DEF Events, EventTypes
<1>f. e.g = i.g /\ e.type = type
  BY <1>e, SMT
<1>1. /\ \A x \in Execs : Grown(x)
      /\ Len(Journal(i.x)) \in Nat
      /\ Len(Journal(i.x)') = Len(Journal(i.x)) + 1
      /\ Journal(i.x)'[Len(Journal(i.x)) + 1] = e
  BY <1>i, <1>e, AppendGrows
<1>n. PICK n \in Nat : n = Len(Journal(i.x)) + 1
  BY <1>1, SMT
<1>2. m.intent = i /\ m.first = n /\ m.last = n
  BY <1>n, SMT
<1>3. 1 <= n /\ n <= n /\ \A k \in n .. n : k = n
  BY <1>1, <1>n, SMT
<1>4. Holds(m)'
  BY <1>1, <1>n, <1>2, <1>3, <1>f DEF Holds
<1>5. type = "import" => ImportIntact(m)'
  BY <1>1, <1>n, <1>2, <1>3, <1>e DEF ImportIntact
<1>6. QED BY <1>1, <1>2, <1>3, <1>4, <1>5

(***************************************************************************)
(* Deleted chats.                                                          *)
(***************************************************************************)
\* A step for the chats of C on the executions of X writes nothing of others.
OnlyAt(C, X) ==
    /\ db'.tombstone = db.tombstone
    /\ \A d \in Chats \ C : /\ db'.hostHead[d] = db.hostHead[d]
                            /\ db'.binding[d] = db.binding[d]
                            /\ db'.legacyHead[d] = db.legacyHead[d]
    /\ \A r \in db'.records : r \in db.records \/ r.chat \in C
    /\ \A r \in db'.bound : r \in db.bound \/ r.chat \in C
    /\ \A r \in db'.hostOps : r \in db.hostOps \/ r.chat \in C
    /\ \A m \in db'.manifests : m \in db.manifests \/ (m.intent.chat \in C /\ m.intent.x \in X)
    /\ \A y \in Execs \ X : db'.journal[y] = db.journal[y]

\* An execution that was deleted with no chat.
Undeleted(x) == \A d \in Chats : db.tombstone[d] # None => x \notin db.tombstone[d]

LEMMA StaysGone ==
    ASSUME TypeOK, NonResurrectable, NEW C \in SUBSET Chats, NEW X \in SUBSET Execs, OnlyAt(C, X),
           \A c \in C : db.tombstone[c] = None, \A x \in X : Undeleted(x)
    PROVE  NonResurrectable'
<1> SUFFICES ASSUME NEW d \in Chats, db'.tombstone[d] # None
             PROVE  /\ db'.hostHead[d] = None /\ db'.binding[d] = None
                    /\ db'.legacyHead[d] = None
                    /\ \A r \in db'.records \cup db'.bound \cup db'.hostOps : r.chat # d
                    /\ ManifestsOf(d)' = {}
                    /\ \A y \in db'.tombstone[d] :
                         db'.journal[y] = None /\ ManifestsOn(y)' = {}
  BY DEF NonResurrectable
<1>t. db.tombstone \in [Chats -> {None} \cup SUBSET Execs]
  BY Columns DEF TypeOK
<1>d. db.tombstone[d] # None /\ d \notin C /\ db'.tombstone[d] = db.tombstone[d]
  BY DEF OnlyAt
<1>g. /\ db.hostHead[d] = None /\ db.binding[d] = None /\ db.legacyHead[d] = None
      /\ \A r \in db.records \cup db.bound \cup db.hostOps : r.chat # d
      /\ ManifestsOf(d) = {}
      /\ \A y \in db.tombstone[d] : db.journal[y] = None /\ ManifestsOn(y) = {}
  BY <1>d DEF NonResurrectable
<1>1. db'.hostHead[d] = None /\ db'.binding[d] = None /\ db'.legacyHead[d] = None
  BY <1>d, <1>g DEF OnlyAt
<1>2. \A r \in db'.records \cup db'.bound \cup db'.hostOps : r.chat # d
  BY <1>d, <1>g DEF OnlyAt
<1>3. ManifestsOf(d)' = {}
  <2> SUFFICES ASSUME NEW m \in db'.manifests PROVE m.intent.chat # d
    BY DEF ManifestsOf
  <2>1. CASE m \in db.manifests
    BY <2>1, <1>g DEF ManifestsOf
  <2>2. CASE m.intent.chat \in C
    BY <2>2, <1>d
  <2>3. QED BY <2>1, <2>2 DEF OnlyAt
<1>4. ASSUME NEW y \in db'.tombstone[d]
      PROVE  db'.journal[y] = None /\ ManifestsOn(y)' = {}
  <2>1. y \in db.tombstone[d] /\ y \in Execs /\ y \notin X
    BY <1>4, <1>d, <1>t DEF Undeleted
  <2>2. db'.journal[y] = None
    BY <2>1, <1>g DEF OnlyAt
  <2>3. ManifestsOn(y)' = {}
    <3> SUFFICES ASSUME NEW m \in db'.manifests PROVE m.intent.x # y
      BY DEF ManifestsOn
    <3>1. CASE m \in db.manifests
      BY <3>1, <2>1, <1>g DEF ManifestsOn
    <3>2. CASE m.intent.x \in X
      BY <3>2, <2>1
    <3>3. QED BY <3>1, <3>2 DEF OnlyAt
  <2>4. QED BY <2>2, <2>3
<1>5. QED BY <1>1, <1>2, <1>3, <1>4

\* Events alone bring nothing back.
LEMMA EventsAlone ==
    ASSUME TypeOK, NonResurrectable, NEW X \in SUBSET Execs, \A x \in X : Undeleted(x),
           \A y \in Execs \ X : db'.journal[y] = db.journal[y],
           db'.binding = db.binding, db'.records = db.records, db'.hostHead = db.hostHead,
           db'.hostOps = db.hostOps, db'.bound = db.bound, db'.manifests = db.manifests,
           db'.legacyHead = db.legacyHead, db'.tombstone = db.tombstone
    PROVE  NonResurrectable'
<1>1. PICK C \in SUBSET Chats : C = {}
  OBVIOUS
<1>2. OnlyAt(C, X)
  <2>1. \A d \in Chats \ C : /\ db'.hostHead[d] = db.hostHead[d]
                             /\ db'.binding[d] = db.binding[d]
                             /\ db'.legacyHead[d] = db.legacyHead[d]
    OBVIOUS
  <2>2. /\ \A r \in db'.records : r \in db.records
        /\ \A r \in db'.bound : r \in db.bound
        /\ \A r \in db'.hostOps : r \in db.hostOps
        /\ \A m \in db'.manifests : m \in db.manifests
    BY SMT
  <2>3. /\ \A r \in db'.records : r \in db.records \/ r.chat \in C
        /\ \A r \in db'.bound : r \in db.bound \/ r.chat \in C
        /\ \A r \in db'.hostOps : r \in db.hostOps \/ r.chat \in C
    BY <2>2
  <2>4. \A m \in db'.manifests : m \in db.manifests \/ (m.intent.chat \in C /\ m.intent.x \in X)
    BY <2>2
  <2>5. QED BY <2>1, <2>3, <2>4 DEF OnlyAt
<1>3. QED BY <1>1, <1>2, StaysGone

\* An execution that can be written to was deleted with no chat.
LEMMA EnsuredUndeleted ==
    ASSUME NonResurrectable, NEW x, ExecutionEnsured(x)
    PROVE  Undeleted(x)
  BY DEF NonResurrectable, ExecutionEnsured, ExecutionInsertable, Undeleted

LEMMA ImportedUndeleted ==
    ASSUME NonResurrectable, NEW m \in db.manifests
    PROVE  Undeleted(m.intent.x)
  BY DEF NonResurrectable, Undeleted, ManifestsOn

\* A chat that has a head was not deleted.
LEMMA HeadUndeleted ==
    ASSUME NonResurrectable, NEW c \in Chats, db.hostHead[c] # None
    PROVE  db.tombstone[c] = None
  BY DEF NonResurrectable

(***************************************************************************)
(* Chats served by the rebase.                                             *)
(***************************************************************************)
\* The rows of a manifest that are still there keep it backed.
LEMMA BackedKept ==
    ASSUME TypeOK, RangesFit, NEW m \in db.manifests, Backed(m), Grown(m.intent.x),
           m.intent \in db'.operations,
           db'.binding[m.intent.chat] = db.binding[m.intent.chat],
           RecordOf(m.intent) \in db'.records, TransitionOf(m.intent) \in db'.hostOps,
           BindingOf(m.intent) \in db'.bound, BindingOpOf(m.intent) \in db'.hostOps
    PROVE  Backed(m)'
<1>1. ImportIntact(m)'
  BY HoldsKept DEF Backed
<1>2. /\ RecordOf(m.intent)' = RecordOf(m.intent)
      /\ TransitionOf(m.intent)' = TransitionOf(m.intent)
      /\ BindingOf(m.intent)' = BindingOf(m.intent)
      /\ BindingOpOf(m.intent)' = BindingOpOf(m.intent)
  BY DEF RecordOf, TransitionOf, BindingOf, BindingOpOf, CompatibleKind
<1>3. QED BY <1>1, <1>2 DEF Backed

\* Steps that leave the heads and the imports alone.
LEMMA ServicedKept ==
    ASSUME TypeOK, RangesFit, Serviced, db.hostTables => db'.hostTables,
           db'.operations = db.operations, db'.binding = db.binding,
           db.records \subseteq db'.records, db.hostOps \subseteq db'.hostOps,
           db.bound \subseteq db'.bound, db'.manifests = db.manifests,
           db'.hostHead = db.hostHead, db'.legacyHead = db.legacyHead,
           \A x \in Execs : Grown(x)
    PROVE  Serviced'
<1>m. \A m \in db.manifests : m.intent.x \in Execs
  BY Columns, SMT DEF TypeOK, Manifests, Intents
<1>1. \A c \in Chats : HeadsOf(c)'
  <2> SUFFICES ASSUME NEW c \in Chats PROVE HeadsOf(c)'
    OBVIOUS
  <2>1. ManifestsOf(c)' = ManifestsOf(c)
    BY DEF ManifestsOf
  <2>2. HeadsOf(c)
    BY DEF Serviced
  <2>3. QED BY <2>1, <2>2 DEF HeadsOf, LegacyHead
<1>2. \A m \in db'.manifests : Backed(m)'
  BY <1>m, BackedKept DEF Serviced, Backed
<1>3. /\ \A i \in db.operations : \E m \in db.manifests : m.intent = i
      /\ \A c, d \in Chats : db.binding[c] # None /\ db.binding[c] = db.binding[d] => c = d
  BY DEF Serviced
<1>4. \A i \in db'.operations : \E m \in db'.manifests : m.intent = i
  <2> SUFFICES ASSUME NEW i \in db'.operations PROVE \E m \in db.manifests : m.intent = i
    OBVIOUS
  <2>1. QED BY <1>3
<1>5. \A c, d \in Chats : db'.binding[c] # None /\ db'.binding[c] = db'.binding[d] => c = d
  BY <1>3, SMT
<1>6. QED BY <1>1, <1>2, <1>4, <1>5 DEF Serviced

\* The columns after a rebase of intent i.
NewHead(i) == [x |-> i.x, g |-> i.g, rev |-> i.rev + 1]
NewManifest(i) ==
    [intent |-> i, first |-> Len(Journal(i.x)) + 1, last |-> Len(Journal(i.x)) + 1]
Imported(i, type) == Append(Journal(i.x), [g |-> i.g, att |-> i.att, type |-> type])

Rebased(i) ==
    /\ db'.hostTables = db.hostTables
    /\ db'.tombstone = db.tombstone
    /\ db'.records = db.records \cup {RecordOf(i)}
    /\ db'.hostHead = [db.hostHead EXCEPT ![i.chat] = NewHead(i)]
    /\ db'.hostOps = (db.hostOps \cup {TransitionOf(i)}) \cup {BindingOpOf(i)}
    /\ db'.bound = db.bound \cup {BindingOf(i)}
    /\ db'.operations = db.operations \cup {i}
    /\ db'.manifests = db.manifests \cup {NewManifest(i)}
    /\ db'.journal = [db.journal EXCEPT ![i.x] = Imported(i, "import")]
    /\ db'.legacyHead = [db.legacyHead EXCEPT ![i.chat] = LegacyHead(i, i.rev + 1)]
    /\ \A d \in Chats \ {i.chat} : db'.binding[d] = db.binding[d]

\* A rebase leaves its chat, and every other, serviced.
LEMMA RebaseServiced ==
    ASSUME SitesFit, NoneFits, TypeOK, RangesFit, Serviced, db.hostTables,
           NEW i \in Intents, i.svc = "rebase", Rebased(i), db'.binding[i.chat] = i.x,
           \/ db.binding[i.chat] = i.x
           \/ ManifestsOf(i.chat) = {} /\ \A d \in Chats : db.binding[d] # i.x
    PROVE  Serviced'
<1>t. /\ db.hostHead \in [Chats -> Heads \cup {None}]
      /\ db.legacyHead \in [Chats -> LegacyHeads \cup {None}]
      /\ db.binding \in [Chats -> Execs \cup {None}]
      /\ db.manifests \subseteq Manifests
  BY Columns DEF TypeOK
<1>i. i.chat \in Chats /\ i.x \in Execs /\ i.g \in Gens /\ i.rev \in Nat /\ i.rev + 1 \in Revisions
  BY SMT DEF Intents, Revisions
<1>n. None \notin Heads /\ None \notin Execs
  BY NoneApart DEF TypeOK
<1>v. PICK v \in Revisions : v = i.rev + 1
  BY <1>i
<1>h. PICK h \in Heads : h = [x |-> i.x, g |-> i.g, rev |-> v]
  BY <1>i DEF Heads
<1>f. /\ h # None /\ h.x = i.x /\ h.g = i.g /\ h.rev = v
  BY <1>h, <1>n
<1>l. PICK l : l = LegacyHead(i, v)
  OBVIOUS
<1>c. /\ db'.hostHead = [db.hostHead EXCEPT ![i.chat] = h]
      /\ db'.legacyHead = [db.legacyHead EXCEPT ![i.chat] = l]
  BY <1>v, <1>h, <1>l DEF Rebased, NewHead
<1>b. /\ db'.hostTables = db.hostTables
      /\ db'.binding[i.chat] = i.x
      /\ \A d \in Chats : d # i.chat => db'.binding[d] = db.binding[d]
  BY DEF Rebased
<1>w. PICK w : w = NewManifest(i)
  OBVIOUS
<1>j. db'.journal = [db.journal EXCEPT ![i.x] =
                        Append(Journal(i.x), [g |-> i.g, att |-> i.att, type |-> "import"])]
  BY DEF Rebased, Imported
<1>m. (\A x \in Execs : Grown(x)) /\ w.intent = i /\ ImportIntact(w)'
  BY <1>w, <1>j, ImportHolds DEF NewManifest
<1>M. db'.manifests = db.manifests \cup {w}
  BY <1>w DEF Rebased
<1>1. ASSUME NEW c \in Chats PROVE HeadsOf(c)'
  <2>1. CASE c = i.chat
    <3>1. db'.hostHead[c] = h /\ db'.binding[c] = i.x /\ db'.legacyHead[c] = l
      BY <2>1, <1>t, <1>i, <1>c, <1>b, SMT
    <3>2. w \in ManifestsOf(c)'
      BY <2>1, <1>m, <1>M DEF ManifestsOf
    <3>3. LegacyHead(w.intent, v)' = l
      BY <1>m, <1>l DEF LegacyHead
    <3>4. \E m \in ManifestsOf(c)' :
            /\ m.intent.x = h.x /\ m.intent.g = h.g /\ m.intent.rev + 1 = h.rev
            /\ l = LegacyHead(m.intent, h.rev)'
      BY <3>2, <3>3, <1>f, <1>m, <1>v
    <3>5. QED BY <3>1, <3>4, <1>f, <1>b DEF HeadsOf
  <2>2. CASE c # i.chat
    <3>1. db'.hostHead[c] = db.hostHead[c] /\ db'.legacyHead[c] = db.legacyHead[c]
      BY <2>2, <1>t, <1>c, SMT
    <3>2. db'.binding[c] = db.binding[c]
      BY <2>2, <1>b
    <3>3. ManifestsOf(c) \subseteq ManifestsOf(c)'
      BY <1>M DEF ManifestsOf
    <3>4. HeadsOf(c)
      BY DEF Serviced
    <3>5. CASE db.hostHead[c] = None
      BY <3>1, <3>2, <3>4, <3>5 DEF HeadsOf
    <3>6. CASE db.hostHead[c] # None
      <4>1. PICK m \in ManifestsOf(c) :
              /\ m.intent.x = db.hostHead[c].x
              /\ m.intent.g = db.hostHead[c].g
              /\ m.intent.rev + 1 = db.hostHead[c].rev
              /\ db.legacyHead[c] = LegacyHead(m.intent, db.hostHead[c].rev)
        BY <3>4, <3>6 DEF HeadsOf
      <4>2. m \in ManifestsOf(c)' /\ db.binding[c] = db.hostHead[c].x
        BY <3>3, <3>4, <3>6 DEF HeadsOf
      <4>3. QED BY <3>1, <3>2, <3>6, <4>1, <4>2, <1>b DEF HeadsOf, LegacyHead
    <3>7. QED BY <3>5, <3>6
  <2>3. QED BY <2>1, <2>2
<1>2. ASSUME NEW m \in db'.manifests PROVE Backed(m)'
  <2>1. CASE m \in db.manifests
    <3>1. Backed(m) /\ m.intent.x \in Execs /\ m.intent.chat \in Chats
      <4>1. m.intent.x \in Execs /\ m.intent.chat \in Chats
        BY <2>1, <1>t, SMT DEF Manifests, Intents
      <4>2. QED BY <2>1, <4>1 DEF Serviced
    <3>2. db'.binding[m.intent.chat] = db.binding[m.intent.chat]
      <4>1. CASE m.intent.chat = i.chat /\ db.binding[i.chat] = i.x
        BY <4>1 DEF Rebased
      <4>2. CASE m.intent.chat = i.chat /\ ManifestsOf(i.chat) = {}
        BY <4>2, <2>1 DEF ManifestsOf
      <4>3. CASE m.intent.chat # i.chat
        BY <4>3, <3>1 DEF Rebased
      <4>4. QED BY <4>1, <4>2, <4>3
    <3>3. /\ m.intent \in db'.operations
          /\ RecordOf(m.intent) \in db'.records /\ TransitionOf(m.intent) \in db'.hostOps
          /\ BindingOf(m.intent) \in db'.bound /\ BindingOpOf(m.intent) \in db'.hostOps
      BY <3>1 DEF Rebased, Backed
    <3>4. QED BY <2>1, <3>1, <3>2, <3>3, <1>m, BackedKept
  <2>2. CASE m = w
    <3>1. /\ i \in db'.operations /\ RecordOf(i) \in db'.records
          /\ TransitionOf(i) \in db'.hostOps /\ BindingOpOf(i) \in db'.hostOps
          /\ BindingOf(i) \in db'.bound /\ i.x = db'.binding[i.chat]
      BY DEF Rebased
    <3>2. /\ RecordOf(i)' = RecordOf(i) /\ TransitionOf(i)' = TransitionOf(i)
          /\ BindingOf(i)' = BindingOf(i) /\ BindingOpOf(i)' = BindingOpOf(i)
      BY DEF RecordOf, TransitionOf, BindingOf, BindingOpOf, CompatibleKind
    <3>3. QED BY <2>2, <3>1, <3>2, <1>m DEF Backed
  <2>3. QED BY <2>1, <2>2, <1>M
<1>3. ASSUME NEW k \in db'.operations PROVE \E m \in db'.manifests : m.intent = k
  <2>1. CASE k = i
    BY <2>1, <1>m, <1>M
  <2>2. CASE k \in db.operations
    BY <2>2, <1>M DEF Serviced
  <2>3. db'.operations = db.operations \cup {i}
    BY DEF Rebased
  <2>4. QED BY <2>1, <2>2, <2>3
<1>4. ASSUME NEW c \in Chats, NEW d \in Chats,
             db'.binding[c] # None, db'.binding[c] = db'.binding[d]
      PROVE  c = d
  <2>1. \A e \in Chats : e # i.chat => db'.binding[e] = db.binding[e]
    BY DEF Rebased
  <2>2. \A e, f \in Chats : db.binding[e] # None /\ db.binding[e] = db.binding[f] => e = f
    BY DEF Serviced
  <2>3. \A e \in Chats : e # i.chat => db.binding[e] # i.x
    <3>1. CASE db.binding[i.chat] = i.x
      BY <3>1, <2>2, <1>i, <1>n
    <3>2. QED BY <3>1
  <2>4. db'.binding[i.chat] = i.x
    BY DEF Rebased
  <2>5. CASE c = i.chat
    BY <2>5, <2>1, <2>3, <2>4, <1>4
  <2>6. CASE d = i.chat
    BY <2>6, <2>1, <2>3, <2>4, <1>4
  <2>7. CASE c # i.chat /\ d # i.chat
    BY <2>7, <2>1, <2>2, <1>4
  <2>8. QED BY <2>5, <2>6, <2>7
<1>5. QED BY <1>1, <1>2, <1>3, <1>4 DEF Serviced

(***************************************************************************)
(* The deletion of a chat.                                                 *)
(***************************************************************************)
\* The columns after the deletion of chat c with a scope.
Deleted(c, scope) ==
    /\ db'.hostTables = db.hostTables
    /\ db'.journal = [x \in Execs |-> IF x \in scope THEN None ELSE db.journal[x]]
    /\ db'.operations = {i \in db.operations : i.x \notin scope}
    /\ db'.binding = [db.binding EXCEPT ![c] = None]
    /\ db'.records = {r \in db.records : r.chat # c}
    /\ db'.hostHead = [db.hostHead EXCEPT ![c] = None]
    /\ db'.hostOps = {h \in db.hostOps : h.chat # c}
    /\ db'.bound = {b \in db.bound : b.chat # c}
    /\ db'.manifests = {m \in db.manifests : m.intent.chat # c}
    /\ db'.legacyHead = [db.legacyHead EXCEPT ![c] = None]
    /\ db'.tombstone = [db.tombstone EXCEPT ![c] = scope]

\* The manifests of the other chats keep their journals.
LEMMA OthersUntouched ==
    ASSUME TypeOK, NEW c \in Chats, NEW scope \in SUBSET Execs, ScopeValid(c, scope),
           Deleted(c, scope), NEW m \in db'.manifests
    PROVE  /\ m \in db.manifests /\ m.intent.chat # c /\ m.intent.chat \in Chats
           /\ m.intent.x \in Execs /\ m.intent.x \notin scope
           /\ Grown(m.intent.x)
<1>1. m \in db.manifests /\ m.intent.chat # c
  BY DEF Deleted
<1>2. m.intent.x \in Execs /\ m.intent.chat \in Chats
  BY <1>1, Columns, SMT DEF TypeOK, Manifests, Intents
<1>3. m.intent.x \notin scope
  BY <1>1 DEF ScopeValid, OwnsExecution, ManifestsOn
<1>4. db'.journal[m.intent.x] = db.journal[m.intent.x]
  BY <1>2, <1>3 DEF Deleted
<1>5. QED BY <1>1, <1>2, <1>3, <1>4, StillGrown

\* Whatever was deleted stays deleted, and so does this chat.
LEMMA DeleteGone ==
    ASSUME TypeOK, NonResurrectable, NEW c \in Chats, NEW scope \in SUBSET Execs,
           ScopeValid(c, scope), Deleted(c, scope)
    PROVE  NonResurrectable'
<1>t. /\ db.hostHead \in [Chats -> Heads \cup {None}]
      /\ db.legacyHead \in [Chats -> LegacyHeads \cup {None}]
      /\ db.binding \in [Chats -> Execs \cup {None}]
      /\ db.tombstone \in [Chats -> {None} \cup SUBSET Execs]
  BY Columns DEF TypeOK
<1> SUFFICES ASSUME NEW d \in Chats, db'.tombstone[d] # None
             PROVE  /\ db'.hostHead[d] = None /\ db'.binding[d] = None
                    /\ db'.legacyHead[d] = None
                    /\ \A r \in db'.records \cup db'.bound \cup db'.hostOps : r.chat # d
                    /\ ManifestsOf(d)' = {}
                    /\ \A y \in db'.tombstone[d] :
                         db'.journal[y] = None /\ ManifestsOn(y)' = {}
  BY DEF NonResurrectable
<1>c. /\ db'.hostHead = [db.hostHead EXCEPT ![c] = None]
      /\ db'.legacyHead = [db.legacyHead EXCEPT ![c] = None]
      /\ db'.binding = [db.binding EXCEPT ![c] = None]
      /\ db'.tombstone = [db.tombstone EXCEPT ![c] = scope]
  BY DEF Deleted
<1>r. /\ db'.records = {r \in db.records : r.chat # c}
      /\ db'.hostOps = {h \in db.hostOps : h.chat # c}
      /\ db'.bound = {b \in db.bound : b.chat # c}
      /\ db'.manifests = {m \in db.manifests : m.intent.chat # c}
      /\ \A x \in Execs : db'.journal[x] = IF x \in scope THEN None ELSE db.journal[x]
  BY DEF Deleted
<1>1. CASE d = c
  <2>1. db'.hostHead[d] = None /\ db'.binding[d] = None /\ db'.legacyHead[d] = None
    BY <1>1, <1>c, <1>t, SMT
  <2>2. db'.tombstone[d] = scope
    BY <1>1, <1>c, <1>t
  <2>3. \A r \in db'.records \cup db'.bound \cup db'.hostOps : r.chat # d
    BY <1>1, <1>r
  <2>4. ManifestsOf(d)' = {}
    BY <1>1, <1>r DEF ManifestsOf
  <2>5. ASSUME NEW y \in db'.tombstone[d]
        PROVE  db'.journal[y] = None /\ ManifestsOn(y)' = {}
    <3>1. y \in scope /\ y \in Execs
      BY <2>2, <2>5
    <3>2. db'.journal[y] = None
      BY <3>1, <1>r
    <3>3. ManifestsOn(y)' = {}
      <4> SUFFICES ASSUME NEW m \in db'.manifests PROVE m.intent.x # y
        BY DEF ManifestsOn
      <4>1. m.intent.x \notin scope
        BY OthersUntouched
      <4>2. QED BY <3>1, <4>1
    <3>4. QED BY <3>2, <3>3
  <2>6. QED BY <2>1, <2>3, <2>4, <2>5
<1>2. CASE d # c
  <2>1. /\ db'.hostHead[d] = db.hostHead[d] /\ db'.binding[d] = db.binding[d]
        /\ db'.legacyHead[d] = db.legacyHead[d]
    BY <1>2, <1>c, <1>t, SMT
  <2>2. db'.tombstone[d] = db.tombstone[d]
    BY <1>2, <1>c, <1>t
  <2>3. /\ db.hostHead[d] = None /\ db.binding[d] = None /\ db.legacyHead[d] = None
        /\ \A r \in db.records \cup db.bound \cup db.hostOps : r.chat # d
        /\ ManifestsOf(d) = {}
        /\ \A y \in db.tombstone[d] : db.journal[y] = None /\ ManifestsOn(y) = {}
    BY <2>2 DEF NonResurrectable
  <2>4. \A r \in db'.records \cup db'.bound \cup db'.hostOps : r.chat # d
    BY <2>3, <1>r
  <2>5. ManifestsOf(d)' = {}
    BY <2>3, <1>r DEF ManifestsOf
  <2>6. ASSUME NEW y \in db'.tombstone[d]
        PROVE  db'.journal[y] = None /\ ManifestsOn(y)' = {}
    <3>1. y \in db.tombstone[d] /\ y \in Execs
      BY <2>2, <2>6, <1>t
    <3>2. db'.journal[y] = None
      BY <3>1, <2>3, <1>r
    <3>3. ManifestsOn(y)' = {}
      BY <3>1, <2>3, <1>r DEF ManifestsOn
    <3>4. QED BY <3>2, <3>3
  <2>7. QED BY <2>1, <2>3, <2>4, <2>5, <2>6
<1>3. QED BY <1>1, <1>2

\* The chats that are left are as serviced as they were.
LEMMA DeleteServiced ==
    ASSUME TypeOK, RangesFit, Serviced, NEW c \in Chats, NEW scope \in SUBSET Execs,
           ScopeValid(c, scope), Deleted(c, scope)
    PROVE  Serviced'
<1>t. /\ db.hostHead \in [Chats -> Heads \cup {None}]
      /\ db.legacyHead \in [Chats -> LegacyHeads \cup {None}]
      /\ db.binding \in [Chats -> Execs \cup {None}]
  BY Columns DEF TypeOK
<1>c. /\ db'.hostHead = [db.hostHead EXCEPT ![c] = None]
      /\ db'.legacyHead = [db.legacyHead EXCEPT ![c] = None]
      /\ db'.binding = [db.binding EXCEPT ![c] = None]
  BY DEF Deleted
<1>r. /\ db'.records = {r \in db.records : r.chat # c}
      /\ db'.hostOps = {h \in db.hostOps : h.chat # c}
      /\ db'.bound = {b \in db.bound : b.chat # c}
      /\ db'.manifests = {m \in db.manifests : m.intent.chat # c}
      /\ db'.operations = {i \in db.operations : i.x \notin scope}
      /\ db'.hostTables = db.hostTables
  BY DEF Deleted
<1>o. \A d \in Chats : d # c => /\ db'.hostHead[d] = db.hostHead[d]
                                /\ db'.legacyHead[d] = db.legacyHead[d]
                                /\ db'.binding[d] = db.binding[d]
  BY <1>c, <1>t, SMT
<1>n. db'.hostHead[c] = None /\ db'.legacyHead[c] = None /\ db'.binding[c] = None
  BY <1>c, <1>t, SMT
<1>1. ASSUME NEW d \in Chats PROVE HeadsOf(d)'
  <2>1. CASE d = c
    BY <2>1, <1>n DEF HeadsOf
  <2>2. CASE d # c
    <3>1. ManifestsOf(d)' = ManifestsOf(d)
      BY <2>2, <1>r DEF ManifestsOf
    <3>2. HeadsOf(d)
      BY DEF Serviced
    <3>3. /\ db'.hostHead[d] = db.hostHead[d] /\ db'.legacyHead[d] = db.legacyHead[d]
          /\ db'.binding[d] = db.binding[d] /\ db'.hostTables = db.hostTables
      BY <2>2, <1>o, <1>r
    <3>4. QED BY <3>1, <3>2, <3>3 DEF HeadsOf, LegacyHead
  <2>3. QED BY <2>1, <2>2
<1>2. ASSUME NEW m \in db'.manifests PROVE Backed(m)'
  <2>1. /\ m \in db.manifests /\ m.intent.chat # c /\ m.intent.chat \in Chats
        /\ m.intent.x \notin scope /\ Grown(m.intent.x)
    BY OthersUntouched
  <2>2. Backed(m)
    BY <2>1 DEF Serviced
  <2>3. /\ RecordOf(m.intent).chat = m.intent.chat
        /\ TransitionOf(m.intent).chat = m.intent.chat
        /\ BindingOf(m.intent).chat = m.intent.chat
        /\ BindingOpOf(m.intent).chat = m.intent.chat
    BY DEF RecordOf, TransitionOf, BindingOf, BindingOpOf
  <2>4. /\ m.intent \in db'.operations
        /\ RecordOf(m.intent) \in db'.records /\ TransitionOf(m.intent) \in db'.hostOps
        /\ BindingOf(m.intent) \in db'.bound /\ BindingOpOf(m.intent) \in db'.hostOps
    BY <2>1, <2>2, <2>3, <1>r DEF Backed
  <2>5. QED BY <2>1, <2>2, <2>4, <1>o, BackedKept
<1>3. ASSUME NEW k \in db'.operations PROVE \E m \in db'.manifests : m.intent = k
  <2>1. k \in db.operations /\ k.x \notin scope
    BY <1>r
  <2>2. PICK m \in db.manifests : m.intent = k
    BY <2>1 DEF Serviced
  <2>3. m.intent.chat # c
    BY <2>1, <2>2 DEF ScopeValid, ManifestsOf
  <2>4. QED BY <2>2, <2>3, <1>r
<1>4. ASSUME NEW e \in Chats, NEW d \in Chats,
             db'.binding[e] # None, db'.binding[e] = db'.binding[d]
      PROVE  e = d
  <2>1. e # c /\ d # c
    BY <1>4, <1>n
  <2>2. QED BY <2>1, <1>4, <1>o DEF Serviced
<1>5. QED BY <1>1, <1>2, <1>3, <1>4 DEF Serviced

(***************************************************************************)
(* The steps.                                                              *)
(***************************************************************************)
Runtimes == [x : Execs, g : Gens, att : Attempts, open : BOOLEAN]

\* The host of a database stays the same.
LEMMA SiteKept ==
    ASSUME site' = site
    PROVE  /\ Rows' = Rows /\ Runtimes' = Runtimes
           /\ Services' = Services /\ (OnlyRebase' <=> OnlyRebase)
<1>1. Gens' = Gens /\ Sources' = Sources /\ Attempts' = Attempts /\ Ops' = Ops
  BY DEF Gens, Sources, Attempts, Ops
<1>2. Services' = Services /\ (OnlyRebase' <=> OnlyRebase)
  BY DEF Services, OnlyRebase
<1>3. Runtimes' = Runtimes
  BY <1>1 DEF Runtimes
<1>4. Events' = Events /\ Intents' = Intents /\ HostOpIds' = HostOpIds /\ Heads' = Heads
  BY <1>1 DEF Events, Intents, HostOpIds, Heads
<1>5. LegacyHeads' = LegacyHeads /\ Manifests' = Manifests
  BY <1>1, <1>4 DEF LegacyHeads, Manifests
<1>6. Records' = Records /\ HostOps' = HostOps /\ Bindings' = Bindings
  BY <1>1, <1>4 DEF Records, HostOps, Bindings
<1>7. Rows' = Rows
  BY <1>4, <1>5, <1>6 DEF Rows
<1>8. QED BY <1>2, <1>3, <1>7

\* The parts of IInv.
LEMMA Parts ==
    IInv <=> /\ TypeOK
             /\ \A c \in Chats : LineOf(c)
             /\ BoundRecorded /\ BoundOnce
             /\ \A m \in db.manifests : Holds(m)
             /\ RangesFit
             /\ "advance" \notin Services => NonResurrectable
             /\ OnlyRebase => Serviced
  BY LineageParts DEF IInv, NotResurrected

\* What a step has to establish.
LEMMA Assemble ==
    ASSUME site \in Sites, site' = site, db' \in Rows, running' \subseteq Runtimes,
           \A c \in Chats : LineOf(c)', BoundRecorded', BoundOnce',
           \A m \in db'.manifests : Holds(m)', RangesFit',
           "advance" \notin Services => NonResurrectable',
           OnlyRebase => Serviced'
    PROVE  IInv'
<1>1. TypeOK'
  BY SiteKept DEF TypeOK, Runtimes
<1>2. ("advance" \notin Services => NonResurrectable)' /\ (OnlyRebase => Serviced)'
  BY SiteKept
<1>3. IInv' <=> (/\ TypeOK
                 /\ \A c \in Chats : LineOf(c)
                 /\ BoundRecorded /\ BoundOnce
                 /\ \A m \in db.manifests : Holds(m)
                 /\ RangesFit
                 /\ "advance" \notin Services => NonResurrectable
                 /\ OnlyRebase => Serviced)'
  BY Parts, PTL
<1>4. QED BY <1>1, <1>2, <1>3

\* Steps that leave every row of a chat where it is.
LEMMA RowsStill ==
    ASSUME IInv, site' = site, db' \in Rows, running' \subseteq Runtimes,
           db.hostTables => db'.hostTables, db'.journal = db.journal,
           db'.operations = db.operations \/ ~OnlyRebase, db'.binding = db.binding,
           db'.records = db.records, db'.hostHead = db.hostHead, db'.hostOps = db.hostOps,
           db'.bound = db.bound, db'.manifests = db.manifests,
           db'.legacyHead = db.legacyHead, db'.tombstone = db.tombstone
    PROVE  IInv'
<1>p. /\ TypeOK /\ (\A c \in Chats : LineOf(c)) /\ BoundRecorded /\ BoundOnce
      /\ (\A m \in db.manifests : Holds(m)) /\ RangesFit
      /\ ("advance" \notin Services => NonResurrectable) /\ (OnlyRebase => Serviced)
  BY Parts
<1>g. \A x \in Execs : Grown(x)
  BY <1>p, StillGrown
<1>x. \A m \in db.manifests : m.intent.x \in Execs
  BY <1>p, Columns, SMT DEF TypeOK, Manifests, Intents
<1>1. \A c \in Chats : LineOf(c)'
  BY <1>p, LinesKept
<1>2. BoundRecorded' /\ BoundOnce'
  BY <1>p, BoundsKept
<1>3. \A m \in db'.manifests : Holds(m)'
  BY <1>p, <1>g, <1>x, HoldsKept
<1>4. RangesFit'
  BY <1>p DEF RangesFit
<1>5. ASSUME NonResurrectable PROVE NonResurrectable'
  <2>1. PICK X \in SUBSET Execs : X = {}
    OBVIOUS
  <2>2. QED BY <1>5, <1>p, <2>1, EventsAlone
<1>6. ASSUME OnlyRebase, Serviced PROVE Serviced'
  BY <1>6, <1>p, <1>g, ServicedKept
<1>7. QED BY <1>p, <1>1, <1>2, <1>3, <1>4, <1>5, <1>6, Assemble DEF TypeOK

LEMMA OpenHostStep ==
    ASSUME IInv, site' = site, OpenHost
    PROVE  IInv'
<1>p. db \in Rows /\ running \subseteq Runtimes
  BY Parts DEF TypeOK, Runtimes
<1>1. db' = [db EXCEPT !.hostTables = TRUE] /\ running' = running
  BY DEF OpenHost, Commits
<1>2. db' \in Rows
  BY <1>p, <1>1 DEF Rows
<1>3. /\ db'.hostTables /\ db'.journal = db.journal
      /\ db'.operations = db.operations /\ db'.binding = db.binding
      /\ db'.records = db.records /\ db'.hostHead = db.hostHead /\ db'.hostOps = db.hostOps
      /\ db'.bound = db.bound /\ db'.manifests = db.manifests
      /\ db'.legacyHead = db.legacyHead /\ db'.tombstone = db.tombstone
  BY <1>p, <1>1, SMT DEF Rows
<1>4. QED BY <1>p, <1>1, <1>2, <1>3, RowsStill

LEMMA OpenDeletionStep ==
    ASSUME IInv, site' = site, OpenDeletion
    PROVE  IInv'
<1>p. db \in Rows /\ running \subseteq Runtimes
  BY Parts DEF TypeOK, Runtimes
<1>1. db' = [db EXCEPT !.guarded = db.hostTables] /\ running' = running
  BY DEF OpenDeletion, Commits
<1>2. db' \in Rows
  <2>1. db.hostTables \in BOOLEAN
    BY <1>p DEF Rows
  <2>2. QED BY <1>p, <1>1, <2>1 DEF Rows
<1>3. /\ db'.hostTables = db.hostTables /\ db'.journal = db.journal
      /\ db'.operations = db.operations /\ db'.binding = db.binding
      /\ db'.records = db.records /\ db'.hostHead = db.hostHead /\ db'.hostOps = db.hostOps
      /\ db'.bound = db.bound /\ db'.manifests = db.manifests
      /\ db'.legacyHead = db.legacyHead /\ db'.tombstone = db.tombstone
  BY <1>p, <1>1, SMT DEF Rows
<1>4. QED BY <1>p, <1>1, <1>2, <1>3, RowsStill

\* A runtime reads its binding, or is gone.
LEMMA RuntimeStep ==
    ASSUME IInv, site' = site, Launch \/ \E r \in running : RunDies(r)
    PROVE  IInv'
<1>p. db \in Rows /\ running \subseteq Runtimes
  BY Parts DEF TypeOK, Runtimes
<1>1. db' = db
  BY DEF Launch, RunDies
<1>2. running' \subseteq Runtimes
  <2>1. CASE Launch
    <3>1. PICK b \in db.bound :
            running' = running \cup {[x |-> b.x, g |-> b.g, att |-> b.att, open |-> FALSE]}
      BY <2>1 DEF Launch
    <3>2. [x |-> b.x, g |-> b.g, att |-> b.att, open |-> FALSE] \in Runtimes
      BY <1>p, Columns, SMT DEF Bindings, Runtimes
    <3>3. QED BY <1>p, <3>1, <3>2
  <2>2. CASE \E r \in running : RunDies(r)
    BY <1>p, <2>2 DEF RunDies
  <2>3. QED BY <2>1, <2>2
<1>3. QED BY <1>p, <1>1, <1>2, RowsStill

\* A runtime appends to the journal of its execution, and to nothing else.
LEMMA AppendStep ==
    ASSUME SitesFit, NoneFits, IInv, site' = site, NEW r \in running, AppendEvent(r)
    PROVE  IInv'
<1>p. /\ TypeOK /\ (\A c \in Chats : LineOf(c)) /\ BoundRecorded /\ BoundOnce
      /\ (\A m \in db.manifests : Holds(m)) /\ RangesFit
      /\ ("advance" \notin Services => NonResurrectable) /\ (OnlyRebase => Serviced)
  BY Parts
<1>q. db \in Rows /\ running \subseteq Runtimes
  BY <1>p DEF TypeOK, Runtimes
<1>r. r.x \in Execs /\ r.g \in Gens /\ r.att \in Attempts /\ r \in Runtimes
  BY <1>q, SMT DEF Runtimes
<1>e. PICK e \in Events :
        e = [g |-> r.g, att |-> r.att, type |-> IF r.open THEN "end" ELSE "start"]
  <2>1. PICK type \in EventTypes : type = IF r.open THEN "end" ELSE "start"
    BY SMT DEF EventTypes
  <2>2. QED BY <1>r, <2>1 DEF Events
<1>a. db' = [db EXCEPT !.journal[r.x] = Append(Journal(r.x), e)]
  BY <1>e DEF AppendEvent
<1>j. PICK js \in [Execs -> {None} \cup Seq(Events)] :
        js = [db.journal EXCEPT ![r.x] = Append(Journal(r.x), e)]
  <2>1. Append(Journal(r.x), e) \in Seq(Events)
    BY <1>q, <1>r, JournalType, SMT
  <2>2. QED BY <2>1, <1>q, <1>r, Columns
<1>b. db' = [db EXCEPT !.journal = js]
  BY <1>a, <1>j
<1>c. /\ db'.hostTables = db.hostTables /\ db'.journal = js
      /\ db'.operations = db.operations /\ db'.binding = db.binding
      /\ db'.records = db.records /\ db'.hostHead = db.hostHead /\ db'.hostOps = db.hostOps
      /\ db'.bound = db.bound /\ db'.manifests = db.manifests
      /\ db'.legacyHead = db.legacyHead /\ db'.tombstone = db.tombstone
  BY <1>q, <1>b, SMT DEF Rows
<1>g. \A x \in Execs : Grown(x)
  <2>1. db'.journal = [db.journal EXCEPT ![r.x] = Append(Journal(r.x), e)]
    BY <1>c, <1>j
  <2>2. QED BY <2>1, <1>p, <1>r, AppendGrows
<1>x. \A m \in db.manifests : m.intent.x \in Execs
  BY <1>p, Columns, SMT DEF TypeOK, Manifests, Intents
<1>0. db' \in Rows /\ running' \subseteq Runtimes
  <2>1. db' \in Rows
    BY <1>q, <1>b DEF Rows
  <2>2. [r EXCEPT !.open = TRUE] \in Runtimes
    BY <1>r DEF Runtimes
  <2>3. running' \subseteq running \cup {[r EXCEPT !.open = TRUE]}
    BY DEF AppendEvent
  <2>4. QED BY <2>1, <2>2, <2>3, <1>q
<1>1. \A c \in Chats : LineOf(c)'
  BY <1>p, <1>c, LinesKept
<1>2. BoundRecorded' /\ BoundOnce'
  BY <1>p, <1>c, BoundsKept
<1>3. \A m \in db'.manifests : Holds(m)'
  BY <1>p, <1>c, <1>g, <1>x, HoldsKept
<1>4. RangesFit'
  BY <1>p, <1>c DEF RangesFit
<1>5. ASSUME NonResurrectable PROVE NonResurrectable'
  <2>1. Undeleted(r.x)
    BY <1>5, EnsuredUndeleted DEF AppendEvent
  <2>2. PICK X \in SUBSET Execs : X = {r.x}
    BY <1>r
  <2>3. \A y \in Execs \ X : db'.journal[y] = db.journal[y]
    BY <1>c, <1>j, <1>q, <1>r, <2>2, Columns
  <2>4. QED BY <1>5, <1>p, <1>c, <2>1, <2>2, <2>3, EventsAlone
<1>6. ASSUME Serviced PROVE Serviced'
  BY <1>6, <1>p, <1>c, <1>g, ServicedKept
<1>7. QED BY <1>0, <1>p, <1>1, <1>2, <1>3, <1>4, <1>5, <1>6, Assemble DEF TypeOK

\* advance: a record that follows the head of its chat, and the head on it.
LEMMA Advanced ==
    ASSUME SitesFit, NoneFits, IInv, site' = site, "advance" \in Services,
           NEW r \in Records, Follows(r), db' \in Rows, running' = running,
           db'.records = db.records \cup {r},
           db'.hostHead = [db.hostHead EXCEPT ![r.chat] = [x |-> r.x, g |-> r.g, rev |-> r.rev]],
           db'.bound = db.bound, db'.manifests = db.manifests, \A x \in Execs : Grown(x)
    PROVE  IInv'
<1>p. /\ TypeOK /\ (\A c \in Chats : LineOf(c)) /\ BoundRecorded /\ BoundOnce
      /\ (\A m \in db.manifests : Holds(m)) /\ RangesFit
  BY Parts
<1>x. \A m \in db.manifests : m.intent.x \in Execs
  BY <1>p, Columns, SMT DEF TypeOK, Manifests, Intents
<1>0. ~OnlyRebase
  BY SMT DEF OnlyRebase
<1>1. \A c \in Chats : LineOf(c)'
  BY <1>p, LineExtended
<1>2. BoundRecorded' /\ BoundOnce'
  BY <1>p, BoundsKept
<1>3. \A m \in db'.manifests : Holds(m)'
  BY <1>p, <1>x, HoldsKept
<1>4. RangesFit'
  BY <1>p DEF RangesFit
<1>5. QED BY <1>0, <1>p, <1>1, <1>2, <1>3, <1>4, Assemble DEF TypeOK, Runtimes

LEMMA AdvanceInitialStep ==
    ASSUME SitesFit, NoneFits, IInv, site' = site, "advance" \in Services,
           NEW c \in Chats, NEW x \in Execs, AdvanceInitial(c, x)
    PROVE  IInv'
<1>p. TypeOK /\ db \in Rows
  BY Parts DEF TypeOK
<1>1. PICK op \in OpArgs, g \in GenArgs :
        /\ db' = [Transition(c, x, "initial", None, g, 1, <<"host", op>>) EXCEPT
                     !.journal[x] = Journal(x), !.binding[c] = x]
        /\ running' = running
  BY DEF AdvanceInitial, Commits
<1>a. op \in Ops /\ g \in Gens /\ 1 \in Revisions
  BY ArgTypes, SMT DEF Revisions
<1>b. PICK id \in HostOpIds : id = <<"host", op>>
  BY <1>a, HostOpIdType
<1>c. PICK t \in Rows : t = Transition(c, x, "initial", None, g, 1, id)
  BY <1>p, <1>a, TransitionRows
<1>d. PICK js \in [Execs -> {None} \cup Seq(Events)] : js = [t.journal EXCEPT ![x] = Journal(x)]
  BY <1>p, JournalType, Columns
<1>e. PICK bs \in [Chats -> Execs \cup {None}] : bs = [t.binding EXCEPT ![c] = x]
  BY Columns
<1>f. db' = [t EXCEPT !.journal = js, !.binding = bs]
  BY <1>1, <1>b, <1>c, <1>d, <1>e
<1>2. db' \in Rows
  BY <1>f DEF Rows
<1>r. PICK r \in Records :
        r = [chat |-> c, x |-> x, g |-> g, kind |-> "initial", prev |-> None, rev |-> 1,
             op |-> id]
  BY <1>a DEF Records
<1>g. r.chat = c /\ r.x = x /\ r.g = g /\ r.rev = 1 /\ r.prev = None
  BY <1>r
<1>3. db'.records = db.records \cup {r}
  BY <1>p, <1>c, <1>f, <1>r, SMT DEF Rows, Transition
<1>4. db'.hostHead = [db.hostHead EXCEPT ![r.chat] = [x |-> r.x, g |-> r.g, rev |-> r.rev]]
  <2>1. db'.hostHead = [db.hostHead EXCEPT ![c] = [x |-> x, g |-> g, rev |-> 1]]
    BY <1>p, <1>c, <1>f, SMT DEF Rows, Transition
  <2>2. QED BY <2>1, <1>g
<1>5. db'.bound = db.bound /\ db'.manifests = db.manifests
  BY <1>p, <1>c, <1>f, SMT DEF Rows, Transition
<1>6. ASSUME NEW y \in Execs PROVE Grown(y)
  <2>1. db'.journal = [db.journal EXCEPT ![x] = Journal(x)]
    BY <1>p, <1>c, <1>d, <1>f, SMT DEF Rows, Transition
  <2>2. CASE y = x
    <3>1. Journal(y)' = Journal(y)
      BY <2>1, <2>2, <1>p, Columns DEF Journal
    <3>2. PICK q \in Seq(Events) : q = Journal(y)
      BY <1>p, JournalType
    <3>3. Len(q) \in Nat /\ Len(q) <= Len(q)
      BY SMT
    <3>4. QED BY <3>1, <3>2, <3>3 DEF Grown
  <2>3. CASE y # x
    <3>1. db'.journal[y] = db.journal[y]
      BY <2>1, <2>3, <1>p, Columns
    <3>2. QED BY <3>1, <1>p, StillGrown
  <2>4. QED BY <2>2, <2>3
<1>7. Follows(r)
  BY <1>g DEF Follows, AdvanceInitial
<1>8. QED BY <1>1, <1>2, <1>3, <1>4, <1>5, <1>6, <1>7, Advanced

LEMMA AdvanceNextStep ==
    ASSUME SitesFit, NoneFits, IInv, site' = site, "advance" \in Services,
           NEW c \in Chats, NEW x \in Execs, AdvanceNext(c, x)
    PROVE  IInv'
<1>p. TypeOK /\ db \in Rows
  BY Parts DEF TypeOK
<1>h. db.hostHead[c] # None /\ db.hostHead[c].x = x
  BY DEF AdvanceNext, HeadOn
<1>k. /\ db.hostHead[c].g \in Gens /\ db.hostHead[c].rev + 1 \in Revisions
  <2>1. db.hostHead[c] \in Heads
    BY <1>p, <1>h, Columns
  <2>2. QED BY <2>1, SMT DEF Heads, Revisions
<1>v. PICK v \in Revisions : v = db.hostHead[c].rev + 1
  BY <1>k
<1>w. PICK w \in Gens \cup {None} : w = db.hostHead[c].g
  BY <1>k
<1>1. PICK op \in OpArgs, g \in GenArgs :
        /\ db' = Transition(c, x, "regenerate", w, g, v, <<"host", op>>)
        /\ running' = running
  BY <1>v, <1>w DEF AdvanceNext, Commits
<1>a. op \in Ops /\ g \in Gens
  BY ArgTypes
<1>b. PICK id \in HostOpIds : id = <<"host", op>>
  BY <1>a, HostOpIdType
<1>f. db' = Transition(c, x, "regenerate", w, g, v, id)
  BY <1>1, <1>b
<1>2. db' \in Rows
  BY <1>p, <1>a, <1>f, TransitionRows
<1>r. PICK r \in Records :
        r = [chat |-> c, x |-> x, g |-> g, kind |-> "regenerate", prev |-> w, rev |-> v,
             op |-> id]
  BY <1>a DEF Records
<1>g. r.chat = c /\ r.x = x /\ r.g = g /\ r.rev = v /\ r.prev = w
  BY <1>r
<1>3. db'.records = db.records \cup {r}
  BY <1>p, <1>f, <1>r, SMT DEF Rows, Transition
<1>4. db'.hostHead = [db.hostHead EXCEPT ![r.chat] = [x |-> r.x, g |-> r.g, rev |-> r.rev]]
  <2>1. db'.hostHead = [db.hostHead EXCEPT ![c] = [x |-> x, g |-> g, rev |-> v]]
    BY <1>p, <1>f, SMT DEF Rows, Transition
  <2>2. QED BY <2>1, <1>g
<1>5. db'.bound = db.bound /\ db'.manifests = db.manifests /\ db'.journal = db.journal
  BY <1>p, <1>f, SMT DEF Rows, Transition
<1>6. \A y \in Execs : Grown(y)
  BY <1>5, <1>p, StillGrown
<1>7. Follows(r)
  BY <1>g, <1>h, <1>v, <1>w DEF Follows
<1>8. QED BY <1>1, <1>2, <1>3, <1>4, <1>5, <1>6, <1>7, Advanced

\* bind_current_attempt: the attempt is bound to the record the head is on.
LEMMA BindStep ==
    ASSUME SitesFit, NoneFits, IInv, site' = site,
           NEW c \in Chats, NEW x \in Execs, BindCurrentAttempt(c, x)
    PROVE  IInv'
<1>p. /\ TypeOK /\ (\A d \in Chats : LineOf(d)) /\ BoundRecorded /\ BoundOnce
      /\ (\A m \in db.manifests : Holds(m)) /\ RangesFit
      /\ ("advance" \notin Services => NonResurrectable) /\ (OnlyRebase => Serviced)
  BY Parts
<1>q. db \in Rows /\ running \subseteq Runtimes
  BY <1>p DEF TypeOK, Runtimes
<1>h. db.hostHead[c] # None /\ db.hostHead[c].x = x
  BY DEF BindCurrentAttempt, HeadOn
<1>k. PICK h \in Heads : h = db.hostHead[c]
  BY <1>q, <1>h, Columns
<1>l. h.g \in Gens /\ h.rev \in Revisions
  BY SMT DEF Heads
<1>1. PICK op \in OpArgs, att \in AttemptArgs :
        /\ AttemptUnbound(x, att)
        /\ db' = BindingRows(db, c, x, h.g, att, h.rev, <<"host", op>>)
        /\ running' = running
  BY <1>k DEF BindCurrentAttempt, Commits
<1>a. op \in Ops /\ att \in Attempts
  BY ArgTypes
<1>b. PICK id \in HostOpIds : id = <<"host", op>>
  BY <1>a, HostOpIdType
<1>f. db' = BindingRows(db, c, x, h.g, att, h.rev, id)
  BY <1>1, <1>b
<1>2. db' \in Rows
  BY <1>q, <1>a, <1>l, <1>f, BindingRowsRows
<1>B. PICK b \in Bindings :
        b = [chat |-> c, x |-> x, g |-> h.g, att |-> att, rev |-> h.rev, op |-> id]
  BY <1>a, <1>l DEF Bindings
<1>g. b.chat = c /\ b.x = x /\ b.g = h.g /\ b.rev = h.rev /\ b.att = att
  BY <1>B
<1>O. PICK o : o = [chat |-> c, op |-> id, kind |-> "attempt_binding", g |-> h.g,
                    rev |-> h.rev, att |-> att]
  OBVIOUS
<1>o. o.chat = c
  BY <1>O
<1>3. db'.bound = db.bound \cup {b} /\ db'.hostOps = db.hostOps \cup {o}
  BY <1>q, <1>f, <1>B, <1>O, SMT DEF Rows, BindingRows
<1>4. /\ db'.hostTables = db.hostTables /\ db'.journal = db.journal
      /\ db'.operations = db.operations /\ db'.binding = db.binding
      /\ db'.records = db.records /\ db'.hostHead = db.hostHead
      /\ db'.manifests = db.manifests
      /\ db'.legacyHead = db.legacyHead /\ db'.tombstone = db.tombstone
  BY <1>q, <1>f, SMT DEF Rows, BindingRows
<1>G. \A y \in Execs : Grown(y)
  BY <1>4, <1>p, StillGrown
<1>x. \A m \in db.manifests : m.intent.x \in Execs
  BY <1>p, Columns, SMT DEF TypeOK, Manifests, Intents
<1>5. \A d \in Chats : LineOf(d)'
  BY <1>p, <1>4, LinesKept
<1>6. BoundRecorded' /\ BoundOnce'
  <2>1. \E r \in db.records : r.chat = b.chat /\ r.x = b.x /\ r.g = b.g /\ r.rev = b.rev
    <3>1. h.rev \in 1 .. h.rev
      BY <1>l, SMT DEF Revisions
    <3>2. PICK r \in RecordsOf(c) : r.rev = h.rev
      <4>1. Line(RecordsOf(c), h) /\ h # None
        BY <1>p, <1>k, <1>h DEF LineOf
      <4>2. QED BY <4>1, <3>1 DEF Line
    <3>3. r.g = h.g /\ r.x = h.x
      BY <1>p, <1>k, <1>h, <3>2 DEF LineOf, Line
    <3>4. r \in db.records /\ r.chat = c
      BY DEF RecordsOf
    <3>5. QED BY <3>2, <3>3, <3>4, <1>g, <1>h, <1>k
  <2>2. AttemptUnbound(b.x, b.att)
    BY <1>1, <1>g
  <2>3. QED BY <2>1, <2>2, <1>p, <1>3, <1>4, BoundsExtended
<1>7. \A m \in db'.manifests : Holds(m)'
  BY <1>p, <1>4, <1>G, <1>x, HoldsKept
<1>8. RangesFit'
  BY <1>p, <1>4 DEF RangesFit
<1>9. ASSUME NonResurrectable PROVE NonResurrectable'
  <2>1. db.tombstone[c] = None
    BY <1>9, <1>h, HeadUndeleted
  <2>2. PICK C \in SUBSET Chats : C = {c}
    OBVIOUS
  <2>3. PICK X \in SUBSET Execs : X = {}
    OBVIOUS
  <2>4. \A d \in Chats \ C : /\ db'.hostHead[d] = db.hostHead[d]
                             /\ db'.binding[d] = db.binding[d]
                             /\ db'.legacyHead[d] = db.legacyHead[d]
    BY <1>4
  <2>5. /\ \A r \in db'.records : r \in db.records \/ r.chat \in C
        /\ \A m \in db'.manifests : m \in db.manifests
        /\ \A y \in Execs \ X : db'.journal[y] = db.journal[y]
    BY <1>4, SMT
  <2>6. /\ \A r \in db'.bound : r \in db.bound \/ r.chat \in C
        /\ \A r \in db'.hostOps : r \in db.hostOps \/ r.chat \in C
    BY <2>2, <1>3, <1>g, <1>o
  <2>7. OnlyAt(C, X)
    BY <1>4, <2>4, <2>5, <2>6 DEF OnlyAt
  <2>8. QED BY <1>9, <1>p, <2>1, <2>2, <2>3, <2>7, StaysGone
<1>10. ASSUME Serviced PROVE Serviced'
  <2>1. db.records \subseteq db'.records /\ db.bound \subseteq db'.bound /\ db.hostOps \subseteq db'.hostOps
    BY <1>3, <1>4
  <2>2. QED BY <1>10, <2>1, <1>p, <1>4, <1>G, ServicedKept
<1>11. QED BY <1>1, <1>2, <1>q, <1>p, <1>5, <1>6, <1>7, <1>8, <1>9, <1>10, Assemble DEF TypeOK

\* bootstrap of a source revision that is already there claims its operation.
LEMMA BootstrapAgainStep ==
    ASSUME SitesFit, NoneFits, IInv, site' = site, "bootstrap" \in Services,
           NEW c \in Chats, NEW x \in Execs, BootstrapAgain(c, x)
    PROVE  IInv'
<1>p. db \in Rows /\ running \subseteq Runtimes
  BY Parts DEF TypeOK, Runtimes
<1>1. PICK m \in ManifestsOf(c), op \in OpArgs :
        /\ db' = [db EXCEPT !.operations = @ \cup {[m.intent EXCEPT !.op = op]}]
        /\ running' = running
  BY DEF BootstrapAgain, Commits
<1>2. [m.intent EXCEPT !.op = op] \in Intents
  <2>1. m.intent \in Intents
    BY <1>p, Columns, SMT DEF ManifestsOf, Manifests
  <2>2. op \in Ops
    BY ArgTypes
  <2>3. QED BY <2>1, <2>2 DEF Intents
<1>3. PICK is \in SUBSET Intents : is = db.operations \cup {[m.intent EXCEPT !.op = op]}
  BY <1>p, <1>2, Columns
<1>4. db' = [db EXCEPT !.operations = is]
  BY <1>1, <1>3
<1>5. db' \in Rows
  BY <1>p, <1>4 DEF Rows
<1>6. /\ db'.hostTables = db.hostTables /\ db'.journal = db.journal
      /\ db'.binding = db.binding
      /\ db'.records = db.records /\ db'.hostHead = db.hostHead /\ db'.hostOps = db.hostOps
      /\ db'.bound = db.bound /\ db'.manifests = db.manifests
      /\ db'.legacyHead = db.legacyHead /\ db'.tombstone = db.tombstone
  BY <1>p, <1>4, SMT DEF Rows
<1>7. ~OnlyRebase
  BY SMT DEF OnlyRebase
<1>8. QED BY <1>p, <1>1, <1>5, <1>6, <1>7, RowsStill

\* bootstrap of a new source revision: one more import, and the legacy head on it.
LEMMA BootstrapNewStep ==
    ASSUME SitesFit, NoneFits, IInv, site' = site, "bootstrap" \in Services,
           NEW c \in Chats, NEW x \in Execs, BootstrapNew(c, x),
           LegacyInsertable(c), ExecutionEnsured(x)
    PROVE  IInv'
<1>p. /\ TypeOK /\ (\A d \in Chats : LineOf(d)) /\ BoundRecorded /\ BoundOnce
      /\ (\A m \in db.manifests : Holds(m)) /\ RangesFit
      /\ ("advance" \notin Services => NonResurrectable)
  BY Parts
<1>q. db \in Rows /\ running \subseteq Runtimes
  BY <1>p DEF TypeOK, Runtimes
<1>s. ~OnlyRebase
  BY SMT DEF OnlyRebase
<1>1. PICK op \in OpArgs, g \in GenArgs, att \in AttemptArgs, src \in SourceArgs :
        LET head == db.legacyHead[c]
            first == head = None
            i == [svc |-> "bootstrap", op |-> op,
                  kind |-> IF first THEN "initial" ELSE "regenerate",
                  chat |-> c, x |-> x, prev |-> IF first THEN None ELSE head.g,
                  g |-> g, att |-> att, src |-> src, rev |-> 0]
        IN /\ ~first => head.x = x
           /\ ManifestInsertable(i)
           /\ ~OpUsed(x, op)
           /\ Commits([Import(db, i, "legacy") EXCEPT
                          !.legacyHead[c] = LegacyHead(i, IF first THEN 1 ELSE head.rev + 1)])
  BY DEF BootstrapNew
<1>a. op \in Ops /\ g \in Gens /\ att \in Attempts /\ src \in Sources
  BY ArgTypes
<1>l. db.legacyHead[c] # None => db.legacyHead[c].g \in Gens /\ db.legacyHead[c].rev + 1 \in Nat
  <2>1. db.legacyHead[c] # None => db.legacyHead[c] \in LegacyHeads
    BY <1>q, Columns
  <2>2. QED BY <2>1, SMT DEF LegacyHeads
<1>k. PICK k \in {"initial", "regenerate", "retry"} :
        k = IF db.legacyHead[c] = None THEN "initial" ELSE "regenerate"
  BY SMT
<1>w. PICK w \in Gens \cup {None} :
        w = IF db.legacyHead[c] = None THEN None ELSE db.legacyHead[c].g
  BY <1>l
<1>v. PICK v \in Nat : v = IF db.legacyHead[c] = None THEN 1 ELSE db.legacyHead[c].rev + 1
  BY <1>l, SMT
<1>z. PICK z \in Nat : z = 0
  BY SMT
<1>i. PICK i \in Intents :
        i = [svc |-> "bootstrap", op |-> op, kind |-> k, chat |-> c, x |-> x, prev |-> w,
             g |-> g, att |-> att, src |-> src, rev |-> z]
  BY <1>a DEF Intents
<1>j. i.chat = c /\ i.x = x /\ i.g = g /\ i.src = src
  BY <1>i
<1>2. /\ db' = [Import(db, i, "legacy") EXCEPT !.legacyHead[c] = LegacyHead(i, v)]
      /\ running' = running
  BY <1>1, <1>i, <1>k, <1>w, <1>v, <1>z DEF Commits
<1>t. PICK t \in Rows : t = Import(db, i, "legacy")
  BY <1>q, ImportRows
<1>L. PICK ls \in [Chats -> LegacyHeads \cup {None}] :
        ls = [t.legacyHead EXCEPT ![c] = LegacyHead(i, v)]
  <2>1. LegacyHead(i, v) \in LegacyHeads
    BY <1>a, <1>j, <1>v, SMT DEF LegacyHead, LegacyHeads
  <2>2. QED BY <2>1, Columns
<1>3. db' = [t EXCEPT !.legacyHead = ls]
  BY <1>2, <1>t, <1>L
<1>4. db' \in Rows
  BY <1>3 DEF Rows
<1>5. /\ db'.binding = db.binding /\ db'.records = db.records /\ db'.hostHead = db.hostHead
      /\ db'.hostOps = db.hostOps /\ db'.bound = db.bound /\ db'.tombstone = db.tombstone
  BY <1>q, <1>t, <1>3, SMT DEF Rows, Import
<1>W. PICK m : m = [intent |-> i, first |-> Len(Journal(i.x)) + 1,
                    last |-> Len(Journal(i.x)) + 1]
  OBVIOUS
<1>6. db'.manifests = db.manifests \cup {m}
  BY <1>q, <1>t, <1>3, <1>W, SMT DEF Rows, Import
<1>7. db'.journal = [db.journal EXCEPT ![i.x] =
                        Append(Journal(i.x), [g |-> i.g, att |-> i.att, type |-> "legacy"])]
  BY <1>q, <1>t, <1>3, SMT DEF Rows, Import
<1>8. db'.legacyHead = [db.legacyHead EXCEPT ![c] = LegacyHead(i, v)]
  BY <1>q, <1>t, <1>L, <1>3, SMT DEF Rows, Import
<1>9. /\ \A y \in Execs : Grown(y)
      /\ m.intent = i /\ m.first = m.last /\ 1 <= m.last /\ Holds(m)'
  BY <1>p, <1>W, <1>7, ImportHolds
<1>x. \A n \in db.manifests : n.intent.x \in Execs
  BY <1>p, Columns, SMT DEF TypeOK, Manifests, Intents
<1>10. \A d \in Chats : LineOf(d)'
  BY <1>p, <1>5, LinesKept
<1>11. BoundRecorded' /\ BoundOnce'
  BY <1>p, <1>5, BoundsKept
<1>12. \A n \in db'.manifests : Holds(n)'
  BY <1>p, <1>6, <1>9, <1>x, HoldsKept
<1>13. RangesFit'
  BY <1>p, <1>6, <1>9 DEF RangesFit
<1>14. ASSUME NonResurrectable PROVE NonResurrectable'
  <2>1. db.tombstone[c] = None /\ Undeleted(x)
    BY <1>14, EnsuredUndeleted DEF LegacyInsertable
  <2>2. PICK C \in SUBSET Chats : C = {c}
    OBVIOUS
  <2>3. PICK X \in SUBSET Execs : X = {x}
    OBVIOUS
  <2>4. \A d \in Chats \ C : db'.hostHead[d] = db.hostHead[d] /\ db'.binding[d] = db.binding[d]
    BY <1>5
  <2>5. \A d \in Chats \ C : db'.legacyHead[d] = db.legacyHead[d]
    BY <1>8, <1>q, <2>2, Columns
  <2>6. /\ \A r \in db'.records : r \in db.records \/ r.chat \in C
        /\ \A r \in db'.bound : r \in db.bound \/ r.chat \in C
        /\ \A r \in db'.hostOps : r \in db.hostOps \/ r.chat \in C
    BY <1>5, SMT
  <2>7. \A n \in db'.manifests : n \in db.manifests \/ (n.intent.chat \in C /\ n.intent.x \in X)
    BY <1>6, <1>9, <1>j, <2>2, <2>3
  <2>8. \A y \in Execs \ X : db'.journal[y] = db.journal[y]
    BY <1>7, <1>q, <1>j, <2>3, Columns
  <2>9. OnlyAt(C, X)
    BY <1>5, <2>4, <2>5, <2>6, <2>7, <2>8 DEF OnlyAt
  <2>10. QED BY <1>14, <1>p, <2>1, <2>2, <2>3, <2>9, StaysGone
<1>15. QED BY <1>2, <1>4, <1>q, <1>p, <1>s, <1>10, <1>11, <1>12, <1>13, <1>14, Assemble DEF TypeOK

\* The rows that a rebase writes have their types.
LEMMA RebaseTypes ==
    ASSUME NEW i \in Intents
    PROVE  /\ i.chat \in Chats /\ i.x \in Execs /\ i.g \in Gens /\ i.att \in Attempts
           /\ i.prev \in Gens \cup {None} /\ i.rev + 1 \in Revisions /\ i.src \in Sources
           /\ CompatibleKind(i.kind) \in {"initial", "regenerate"}
           /\ <<"transition", i.op>> \in HostOpIds /\ <<"binding", i.op>> \in HostOpIds
<1>1. /\ i.chat \in Chats /\ i.x \in Execs /\ i.g \in Gens /\ i.att \in Attempts
      /\ i.prev \in Gens \cup {None} /\ i.rev \in Nat /\ i.src \in Sources
      /\ i.kind \in {"initial", "regenerate", "retry"} /\ i.op \in Ops
  BY SMT DEF Intents
<1>2. i.rev + 1 \in Revisions
  BY <1>1, SMT DEF Revisions
<1>3. CompatibleKind(i.kind) \in {"initial", "regenerate"}
  BY <1>1, SMT DEF CompatibleKind
<1>4. QED BY <1>1, <1>2, <1>3, HostOpIdType

\* A step that writes the rows of a rebase keeps the invariant.
LEMMA RebasedStep ==
    ASSUME SitesFit, NoneFits, IInv, site' = site, db.hostTables,
           NEW i \in Intents, i.svc = "rebase", Rebased(i), db' \in Rows, running' = running,
           Serviced => /\ db'.binding[i.chat] = i.x
                       /\ \/ db.binding[i.chat] = i.x
                          \/ ManifestsOf(i.chat) = {} /\ \A d \in Chats : db.binding[d] # i.x,
           Follows(RecordOf(i)), AttemptUnbound(i.x, i.att),
           NonResurrectable => db.tombstone[i.chat] = None /\ Undeleted(i.x)
    PROVE  IInv'
<1>p. /\ TypeOK /\ (\A d \in Chats : LineOf(d)) /\ BoundRecorded /\ BoundOnce
      /\ (\A m \in db.manifests : Holds(m)) /\ RangesFit
      /\ ("advance" \notin Services => NonResurrectable) /\ (OnlyRebase => Serviced)
  BY Parts
<1>q. db \in Rows /\ running \subseteq Runtimes
  BY <1>p DEF TypeOK, Runtimes
<1>i. /\ i.chat \in Chats /\ i.x \in Execs /\ i.g \in Gens /\ i.att \in Attempts
      /\ i.prev \in Gens \cup {None} /\ i.rev + 1 \in Revisions
      /\ CompatibleKind(i.kind) \in {"initial", "regenerate"}
      /\ <<"transition", i.op>> \in HostOpIds
  BY RebaseTypes
<1>r. PICK r \in Records : r = RecordOf(i)
  BY <1>i DEF RecordOf, Records
<1>s. r.chat = i.chat /\ r.x = i.x /\ r.g = i.g /\ r.rev = i.rev + 1
  BY <1>r DEF RecordOf
<1>b. PICK b : b = BindingOf(i)
  OBVIOUS
<1>c. b.chat = i.chat /\ b.x = i.x /\ b.g = i.g /\ b.rev = i.rev + 1 /\ b.att = i.att
  BY <1>b DEF BindingOf
<1>w. PICK w : w = [intent |-> i, first |-> Len(Journal(i.x)) + 1,
                    last |-> Len(Journal(i.x)) + 1]
  OBVIOUS
<1>1. db'.records = db.records \cup {r} /\ db'.bound = db.bound \cup {b}
  BY <1>r, <1>b DEF Rebased
<1>2. db'.manifests = db.manifests \cup {w}
  BY <1>w DEF Rebased, NewManifest
<1>3. db'.hostHead = [db.hostHead EXCEPT ![r.chat] = [x |-> r.x, g |-> r.g, rev |-> r.rev]]
  BY <1>s DEF Rebased, NewHead
<1>4. db'.journal = [db.journal EXCEPT ![i.x] =
                        Append(Journal(i.x), [g |-> i.g, att |-> i.att, type |-> "import"])]
  BY DEF Rebased, Imported
<1>5. /\ \A y \in Execs : Grown(y)
      /\ w.intent = i /\ w.first = w.last /\ 1 <= w.last /\ Holds(w)'
  BY <1>p, <1>w, <1>4, ImportHolds
<1>x. \A n \in db.manifests : n.intent.x \in Execs
  BY <1>p, Columns, SMT DEF TypeOK, Manifests, Intents
<1>6. \A d \in Chats : LineOf(d)'
  BY <1>p, <1>r, <1>1, <1>3, LineExtended
<1>7. BoundRecorded' /\ BoundOnce'
  <2>1. r \in db'.records /\ db.records \subseteq db'.records
    BY <1>1
  <2>2. AttemptUnbound(b.x, b.att)
    BY <1>c
  <2>3. \E q \in db'.records : q.chat = b.chat /\ q.x = b.x /\ q.g = b.g /\ q.rev = b.rev
    BY <2>1, <1>s, <1>c
  <2>4. QED BY <1>p, <1>1, <2>1, <2>2, <2>3, BoundsExtended
<1>8. \A n \in db'.manifests : Holds(n)'
  BY <1>p, <1>2, <1>5, <1>x, HoldsKept
<1>9. RangesFit'
  BY <1>p, <1>2, <1>5 DEF RangesFit
<1>10. ASSUME NonResurrectable PROVE NonResurrectable'
  <2>1. PICK C \in SUBSET Chats : C = {i.chat}
    BY <1>i
  <2>2. PICK X \in SUBSET Execs : X = {i.x}
    BY <1>i
  <2>3. \A d \in Chats \ C : db'.hostHead[d] = db.hostHead[d]
    <3>1. db'.hostHead = [db.hostHead EXCEPT ![i.chat] = NewHead(i)]
      BY DEF Rebased
    <3>2. QED BY <3>1, <1>q, <2>1, Columns
  <2>4. \A d \in Chats \ C : db'.binding[d] = db.binding[d]
    BY <2>1 DEF Rebased
  <2>5. \A d \in Chats \ C : db'.legacyHead[d] = db.legacyHead[d]
    <3>1. db'.legacyHead = [db.legacyHead EXCEPT ![i.chat] = LegacyHead(i, i.rev + 1)]
      BY DEF Rebased
    <3>2. QED BY <3>1, <1>q, <2>1, Columns
  <2>6. /\ \A q \in db'.records : q \in db.records \/ q.chat \in C
        /\ \A q \in db'.bound : q \in db.bound \/ q.chat \in C
    BY <1>1, <1>s, <1>c, <2>1
  <2>7. \A q \in db'.hostOps : q \in db.hostOps \/ q.chat \in C
    <3>1. TransitionOf(i).chat = i.chat /\ BindingOpOf(i).chat = i.chat
      BY DEF TransitionOf, BindingOpOf
    <3>2. db'.hostOps = (db.hostOps \cup {TransitionOf(i)}) \cup {BindingOpOf(i)}
      BY DEF Rebased
    <3>3. QED BY <3>1, <3>2, <2>1
  <2>8. \A n \in db'.manifests : n \in db.manifests \/ (n.intent.chat \in C /\ n.intent.x \in X)
    BY <1>2, <1>5, <2>1, <2>2
  <2>9. \A y \in Execs \ X : db'.journal[y] = db.journal[y]
    BY <1>4, <1>q, <2>2, Columns
  <2>10. db'.tombstone = db.tombstone
    BY DEF Rebased
  <2>11. OnlyAt(C, X)
    BY <2>3, <2>4, <2>5, <2>6, <2>7, <2>8, <2>9, <2>10 DEF OnlyAt
  <2>12. QED BY <1>10, <1>p, <2>1, <2>2, <2>11, StaysGone
<1>11. ASSUME Serviced PROVE Serviced'
  BY <1>11, <1>p, RebaseServiced
<1>12. QED BY <1>q, <1>p, <1>6, <1>7, <1>8, <1>9, <1>10, <1>11, Assemble DEF TypeOK

LEMMA RebaseRowsRows ==
    ASSUME db \in Rows, NEW i \in Intents
    PROVE  RebaseRows(i) \in Rows
<1>1. PICK t \in Rows : t = Transition(i.chat, i.x, CompatibleKind(i.kind), i.prev, i.g, i.rev + 1,
                                       <<"transition", i.op>>)
  BY RebaseTypes, TransitionRows
<1>2. PICK u \in Rows : u = Import(t, i, "import")
  BY ImportRows
<1>3. BindingRows(u, i.chat, i.x, i.g, i.att, i.rev + 1, <<"binding", i.op>>) \in Rows
  BY RebaseTypes, BindingRowsRows
<1>4. QED BY <1>1, <1>2, <1>3 DEF RebaseRows

\* The columns of those rows.
LEMMA RebaseColumns ==
    ASSUME db \in Rows, NEW i \in Intents, NEW t, t = RebaseRows(i)
    PROVE  /\ t.hostTables = db.hostTables
           /\ t.tombstone = db.tombstone /\ t.binding = db.binding
           /\ t.legacyHead = db.legacyHead
           /\ t.records = db.records \cup {RecordOf(i)}
           /\ t.hostHead = [db.hostHead EXCEPT ![i.chat] = NewHead(i)]
           /\ t.hostOps = (db.hostOps \cup {TransitionOf(i)}) \cup {BindingOpOf(i)}
           /\ t.bound = db.bound \cup {BindingOf(i)}
           /\ t.operations = db.operations \cup {i}
           /\ t.manifests = db.manifests \cup {NewManifest(i)}
           /\ t.journal = [db.journal EXCEPT ![i.x] = Imported(i, "import")]
<1>1. t.hostTables = db.hostTables /\ t.tombstone = db.tombstone
  BY SMT DEF Rows, RebaseRows, BindingRows, Import, Transition
<1>2. t.binding = db.binding /\ t.legacyHead = db.legacyHead
  BY SMT DEF Rows, RebaseRows, BindingRows, Import, Transition
<1>3. t.records = db.records \cup {RecordOf(i)}
  BY SMT DEF Rows, RebaseRows, BindingRows, Import, Transition, RecordOf
<1>4. t.hostHead = [db.hostHead EXCEPT ![i.chat] = NewHead(i)]
  BY SMT DEF Rows, RebaseRows, BindingRows, Import, Transition, NewHead
<1>5. t.hostOps = (db.hostOps \cup {TransitionOf(i)}) \cup {BindingOpOf(i)}
  BY SMT DEF Rows, RebaseRows, BindingRows, Import, Transition, TransitionOf, BindingOpOf
<1>6. t.bound = db.bound \cup {BindingOf(i)}
  BY SMT DEF Rows, RebaseRows, BindingRows, Import, Transition, BindingOf
<1>7. t.operations = db.operations \cup {i}
  BY SMT DEF Rows, RebaseRows, BindingRows, Import, Transition
<1>8. t.manifests = db.manifests \cup {NewManifest(i)}
  BY SMT DEF Rows, RebaseRows, BindingRows, Import, Transition, NewManifest
<1>9. t.journal = [db.journal EXCEPT ![i.x] = Imported(i, "import")]
  BY SMT DEF Rows, RebaseRows, BindingRows, Import, Transition, Imported
<1>10. QED BY <1>1, <1>2, <1>3, <1>4, <1>5, <1>6, <1>7, <1>8, <1>9

LEMMA LegacyHeadType ==
    ASSUME NEW i \in Intents
    PROVE  LegacyHead(i, i.rev + 1) \in LegacyHeads
<1>1. PICK v \in Nat : v = i.rev + 1
  <2>1. i.rev + 1 \in Revisions
    BY RebaseTypes
  <2>2. QED BY <2>1, SMT DEF Revisions
<1>2. LegacyHead(i, v) \in LegacyHeads
  BY RebaseTypes DEF LegacyHead, LegacyHeads
<1>3. QED BY <1>1, <1>2

\* A step writes the rows of a rebase and moves the legacy head, with the
\* binding of the chat as it is or as the rebase sets it.
LEMMA RebaseEffect ==
    ASSUME SitesFit, NoneFits, db \in Rows, NEW i \in Intents, NEW bs \in [Chats -> Execs \cup {None}],
           \A d \in Chats \ {i.chat} : bs[d] = db.binding[d],
           db' = [RebaseRows(i) EXCEPT !.binding = bs,
                                       !.legacyHead[i.chat] = LegacyHead(i, i.rev + 1)]
    PROVE  Rebased(i) /\ db' \in Rows /\ db'.binding = bs
<1>t. PICK t \in Rows : t = RebaseRows(i)
  BY RebaseRowsRows
<1>c. /\ t.hostTables = db.hostTables
      /\ t.tombstone = db.tombstone /\ t.binding = db.binding
      /\ t.legacyHead = db.legacyHead
      /\ t.records = db.records \cup {RecordOf(i)}
      /\ t.hostHead = [db.hostHead EXCEPT ![i.chat] = NewHead(i)]
      /\ t.hostOps = (db.hostOps \cup {TransitionOf(i)}) \cup {BindingOpOf(i)}
      /\ t.bound = db.bound \cup {BindingOf(i)}
      /\ t.operations = db.operations \cup {i}
      /\ t.manifests = db.manifests \cup {NewManifest(i)}
      /\ t.journal = [db.journal EXCEPT ![i.x] = Imported(i, "import")]
  BY <1>t, RebaseColumns
<1>l. PICK ls \in [Chats -> LegacyHeads \cup {None}] :
        ls = [t.legacyHead EXCEPT ![i.chat] = LegacyHead(i, i.rev + 1)]
  BY LegacyHeadType, Columns
<1>1. db' = [t EXCEPT !.binding = bs, !.legacyHead = ls]
  BY <1>t, <1>l
<1>2. db' \in Rows
  BY <1>1 DEF Rows
<1>3. /\ db'.hostTables = t.hostTables /\ db'.tombstone = t.tombstone
      /\ db'.records = t.records /\ db'.hostHead = t.hostHead /\ db'.hostOps = t.hostOps
      /\ db'.bound = t.bound /\ db'.operations = t.operations
      /\ db'.manifests = t.manifests /\ db'.journal = t.journal
      /\ db'.legacyHead = ls /\ db'.binding = bs
  <2>1. t \in Rows
    OBVIOUS
  <2>2. QED BY ONLY <2>1, <1>1, SMT DEF Rows
<1>4. Rebased(i)
  <2>1. db'.legacyHead = [db.legacyHead EXCEPT ![i.chat] = LegacyHead(i, i.rev + 1)]
    BY <1>3, <1>l, <1>c
  <2>2. \A d \in Chats \ {i.chat} : db'.binding[d] = db.binding[d]
    BY <1>3
  <2>3. QED BY <1>3, <1>c, <2>1, <2>2 DEF Rebased
<1>5. QED BY <1>2, <1>3, <1>4

\* create: the first generation of a chat that has nothing yet.
LEMMA CreateStep ==
    ASSUME SitesFit, NoneFits, IInv, site' = site, db.hostTables,
           NEW c \in Chats, NEW x \in Execs, Create(c, x)
    PROVE  IInv'
<1>p. db \in Rows
  BY Parts DEF TypeOK
<1>c. /\ db.hostHead[c] = None /\ ManifestsOf(c) = {} /\ db.tombstone[c] = None
      /\ ExecutionEnsured(x) /\ \A d \in Chats : db.binding[d] # x
  BY DEF Create, Unbound, LegacyInsertable
<1>z. PICK z \in Nat : z = 0
  BY SMT
<1>1. PICK op \in OpArgs, g \in GenArgs, att \in AttemptArgs, src \in SourceArgs :
        LET i == [svc |-> "rebase", op |-> op, kind |-> "initial", chat |-> c, x |-> x,
                  prev |-> None, g |-> g, att |-> att, src |-> src, rev |-> 0]
        IN /\ RebaseInsertable(i)
           /\ Commits([RebaseRows(i) EXCEPT !.binding[c] = x,
                                            !.legacyHead[c] = LegacyHead(i, 1)])
  BY DEF Create
<1>a. op \in Ops /\ g \in Gens /\ att \in Attempts /\ src \in Sources
  BY ArgTypes
<1>i. PICK i \in Intents :
        i = [svc |-> "rebase", op |-> op, kind |-> "initial", chat |-> c, x |-> x,
             prev |-> None, g |-> g, att |-> att, src |-> src, rev |-> z]
  BY <1>a DEF Intents
<1>j. /\ i.svc = "rebase" /\ i.chat = c /\ i.x = x /\ i.att = att /\ i.prev = None /\ i.rev = 0
  BY <1>i, <1>z
<1>k. i.rev + 1 = 1
  BY <1>j, SMT
<1>2. /\ AttemptUnbound(i.x, i.att) /\ running' = running
      /\ db' = [RebaseRows(i) EXCEPT !.binding[c] = x, !.legacyHead[c] = LegacyHead(i, 1)]
  BY <1>1, <1>i, <1>z DEF Commits, RebaseInsertable
<1>b. PICK bs \in [Chats -> Execs \cup {None}] : bs = [db.binding EXCEPT ![c] = x]
  BY <1>p, Columns
<1>3. RebaseRows(i).binding = db.binding
  BY <1>p, RebaseColumns
<1>4. db' = [RebaseRows(i) EXCEPT !.binding = bs,
                                  !.legacyHead[i.chat] = LegacyHead(i, i.rev + 1)]
  BY <1>2, <1>3, <1>b, <1>j, <1>k
<1>5. bs[c] = x /\ \A d \in Chats \ {c} : bs[d] = db.binding[d]
  BY <1>b, <1>p, Columns
<1>6. Rebased(i) /\ db' \in Rows /\ db'.binding = bs
  BY <1>p, <1>4, <1>5, <1>j, RebaseEffect
<1>7. Follows(RecordOf(i))
  <2>1. RecordOf(i).chat = c /\ RecordOf(i).rev = 1 /\ RecordOf(i).prev = None
    BY <1>j, <1>k DEF RecordOf
  <2>2. QED BY <2>1, <1>c DEF Follows
<1>8. NonResurrectable => db.tombstone[i.chat] = None /\ Undeleted(i.x)
  BY <1>c, <1>j, EnsuredUndeleted
<1>9. /\ db'.binding[i.chat] = i.x
      /\ ManifestsOf(i.chat) = {} /\ \A d \in Chats : db.binding[d] # i.x
  BY <1>6, <1>5, <1>c, <1>j
<1>10. QED BY <1>j, <1>2, <1>6, <1>7, <1>8, <1>9, RebasedStep

\* replace: the next generation of a chat, on the head it was read at.
LEMMA ReplaceStep ==
    ASSUME SitesFit, NoneFits, IInv, site' = site, db.hostTables,
           NEW c \in Chats, NEW x \in Execs, Replace(c, x)
    PROVE  IInv'
<1>p. db \in Rows
  BY Parts DEF TypeOK
<1>h. db.hostHead[c] # None /\ db.hostHead[c].x = x
  BY DEF Replace, HeadOn
<1>H. PICK h \in Heads : h = db.hostHead[c]
  BY <1>p, <1>h, Columns
<1>k. /\ h.g \in Gens /\ h.rev \in Nat
  BY SMT DEF Heads, Revisions
<1>m. PICK m \in ManifestsOf(c) : m.intent.x = x
  <2>1. \E r : r \in Receipts(c, x, db.hostHead[c].g)
    BY DEF Replace
  <2>2. PICK t \in ManifestsOf(c) \X db.records \X db.bound :
          Receipted(c, x, db.hostHead[c].g, t[1], t[2], t[3])
    BY <2>1 DEF Receipts
  <2>3. t[1] \in ManifestsOf(c)
    BY SMT
  <2>4. t[1].intent.x = x
    BY <2>2 DEF Receipted
  <2>5. QED BY <2>3, <2>4
<1>1. PICK op \in OpArgs, g \in GenArgs \ {db.hostHead[c].g}, att \in AttemptArgs,
           src \in SourceArgs :
        LET i == [svc |-> "rebase", op |-> op, kind |-> "retry", chat |-> c, x |-> x,
                  prev |-> db.hostHead[c].g, g |-> g, att |-> att, src |-> src,
                  rev |-> db.hostHead[c].rev]
        IN /\ RebaseInsertable(i)
           /\ Commits([RebaseRows(i) EXCEPT
                          !.legacyHead[c] = LegacyHead(i, db.hostHead[c].rev + 1)])
  BY DEF Replace
<1>a. op \in Ops /\ g \in Gens /\ att \in Attempts /\ src \in Sources
  BY ArgTypes
<1>i. PICK i \in Intents :
        i = [svc |-> "rebase", op |-> op, kind |-> "retry", chat |-> c, x |-> x,
             prev |-> h.g, g |-> g, att |-> att, src |-> src, rev |-> h.rev]
  BY <1>a, <1>k DEF Intents
<1>j. /\ i.svc = "rebase" /\ i.chat = c /\ i.x = x /\ i.att = att /\ i.prev = h.g
      /\ i.rev = h.rev
  BY <1>i
<1>2. /\ AttemptUnbound(i.x, i.att) /\ running' = running
      /\ db' = [RebaseRows(i) EXCEPT !.legacyHead[c] = LegacyHead(i, h.rev + 1)]
  BY <1>1, <1>i, <1>H DEF Commits, RebaseInsertable
<1>b. PICK bs \in [Chats -> Execs \cup {None}] : bs = db.binding
  BY <1>p, Columns
<1>t. PICK t \in Rows : t = RebaseRows(i)
  BY <1>p, RebaseRowsRows
<1>3. t.binding = bs
  BY <1>p, <1>t, <1>b, RebaseColumns
<1>4. db' = [RebaseRows(i) EXCEPT !.binding = bs,
                                  !.legacyHead[i.chat] = LegacyHead(i, i.rev + 1)]
  <2>1. t = [t EXCEPT !.binding = t.binding]
    BY ONLY t \in Rows DEF Rows
  <2>2. db' = [t EXCEPT !.legacyHead[c] = LegacyHead(i, h.rev + 1)]
    BY <1>2, <1>t
  <2>3. QED BY <2>1, <2>2, <1>t, <1>3, <1>j
<1>5. \A d \in Chats \ {c} : bs[d] = db.binding[d]
  BY <1>b
<1>6. Rebased(i) /\ db' \in Rows /\ db'.binding = bs
  BY <1>p, <1>4, <1>5, <1>j, RebaseEffect
<1>7. Follows(RecordOf(i))
  <2>1. /\ RecordOf(i).chat = c /\ RecordOf(i).rev = h.rev + 1 /\ RecordOf(i).prev = h.g
        /\ RecordOf(i).x = x
    BY <1>j DEF RecordOf
  <2>2. QED BY <2>1, <1>h, <1>H DEF Follows
<1>8. NonResurrectable => db.tombstone[i.chat] = None /\ Undeleted(i.x)
  <2>1. m \in db.manifests
    BY DEF ManifestsOf
  <2>2. QED BY <2>1, <1>m, <1>h, <1>j, HeadUndeleted, ImportedUndeleted
<1>9. Serviced => db'.binding[i.chat] = i.x /\ db.binding[i.chat] = i.x
  <2>1. Serviced => db.binding[c] = x
    BY <1>h DEF Serviced, HeadsOf
  <2>2. QED BY <2>1, <1>6, <1>b, <1>j
<1>10. QED BY <1>j, <1>2, <1>6, <1>7, <1>8, <1>9, RebasedStep

\* The columns after delete_chat.
LEMMA DeleteEffect ==
    ASSUME db \in Rows, NEW c \in Chats, NEW scope \in SUBSET Execs,
           db' = [RowsWithout(c, scope) EXCEPT !.tombstone[c] = scope]
    PROVE  Deleted(c, scope) /\ db' \in Rows
<1>t. /\ db.journal \in [Execs -> {None} \cup Seq(Events)]
      /\ db.binding \in [Chats -> Execs \cup {None}]
      /\ db.hostHead \in [Chats -> Heads \cup {None}]
      /\ db.legacyHead \in [Chats -> LegacyHeads \cup {None}]
      /\ db.tombstone \in [Chats -> {None} \cup SUBSET Execs]
  BY Columns
<1>j. PICK js \in [Execs -> {None} \cup Seq(Events)] :
        js = [x \in Execs |-> IF x \in scope THEN None ELSE db.journal[x]]
  BY <1>t
<1>i. PICK is \in SUBSET Intents : is = {i \in db.operations : i.x \notin scope}
  BY Columns
<1>b. PICK bs \in [Chats -> Execs \cup {None}] : bs = [db.binding EXCEPT ![c] = None]
  BY <1>t
<1>r. PICK rs \in SUBSET Records : rs = {r \in db.records : r.chat # c}
  BY Columns
<1>h. PICK hs \in [Chats -> Heads \cup {None}] : hs = [db.hostHead EXCEPT ![c] = None]
  BY <1>t
<1>o. PICK os \in SUBSET HostOps : os = {h \in db.hostOps : h.chat # c}
  BY Columns
<1>u. PICK us \in SUBSET Bindings : us = {b \in db.bound : b.chat # c}
  BY Columns
<1>m. PICK ms \in SUBSET Manifests : ms = {m \in db.manifests : m.intent.chat # c}
  BY Columns
<1>l. PICK ls \in [Chats -> LegacyHeads \cup {None}] : ls = [db.legacyHead EXCEPT ![c] = None]
  BY <1>t
<1>s. PICK ts \in [Chats -> {None} \cup SUBSET Execs] : ts = [db.tombstone EXCEPT ![c] = scope]
  BY <1>t
<1>1. PICK d : d = [db EXCEPT !.operations = is, !.journal = js]
  OBVIOUS
<1>2. d = RowsOutside(db, scope)
  BY <1>1, <1>i, <1>j DEF RowsOutside
<1>3. d \in Rows
  BY <1>1 DEF Rows
<1>4. /\ d.hostTables = db.hostTables /\ d.binding = db.binding /\ d.records = db.records
      /\ d.hostHead = db.hostHead /\ d.hostOps = db.hostOps /\ d.bound = db.bound
      /\ d.manifests = db.manifests /\ d.legacyHead = db.legacyHead
      /\ d.tombstone = db.tombstone /\ d.operations = is /\ d.journal = js
  BY ONLY <1>1, db \in Rows, SMT DEF Rows
<1>5. PICK e : e = [d EXCEPT !.bound = us, !.hostHead = hs, !.hostOps = os, !.records = rs,
                             !.binding = bs, !.legacyHead = ls, !.manifests = ms]
  OBVIOUS
<1>6. e = RowsWithout(c, scope)
  <2>1. RowsWithout(c, scope) =
          [d EXCEPT !.bound = {b \in d.bound : b.chat # c},
                    !.hostHead = [d.hostHead EXCEPT ![c] = None],
                    !.hostOps = {h \in d.hostOps : h.chat # c},
                    !.records = {r \in d.records : r.chat # c},
                    !.binding = [d.binding EXCEPT ![c] = None],
                    !.legacyHead = [d.legacyHead EXCEPT ![c] = None],
                    !.manifests = {m \in d.manifests : m.intent.chat # c}]
    BY ONLY <1>2 DEF RowsWithout
  <2>2. us = {b \in d.bound : b.chat # c} /\ hs = [d.hostHead EXCEPT ![c] = None]
    BY <1>u, <1>h, <1>4
  <2>3. os = {h \in d.hostOps : h.chat # c} /\ rs = {r \in d.records : r.chat # c}
    BY <1>o, <1>r, <1>4
  <2>4. bs = [d.binding EXCEPT ![c] = None] /\ ls = [d.legacyHead EXCEPT ![c] = None]
    BY <1>b, <1>l, <1>4
  <2>5. ms = {m \in d.manifests : m.intent.chat # c}
    BY <1>m, <1>4
  <2>6. QED BY ONLY <1>5, <2>1, <2>2, <2>3, <2>4, <2>5
<1>7. e \in Rows
  BY <1>3, <1>5 DEF Rows
<1>8. /\ e.hostTables = d.hostTables /\ e.binding = bs /\ e.records = rs
      /\ e.hostHead = hs /\ e.hostOps = os /\ e.bound = us
      /\ e.manifests = ms /\ e.legacyHead = ls
      /\ e.tombstone = d.tombstone /\ e.operations = d.operations /\ e.journal = d.journal
  BY ONLY <1>5, <1>3, SMT DEF Rows
<1>9. db' = [e EXCEPT !.tombstone = ts]
  BY <1>6, <1>8, <1>4, <1>s
<1>10. db' \in Rows
  BY <1>7, <1>9 DEF Rows
<1>11. /\ db'.hostTables = e.hostTables /\ db'.binding = e.binding /\ db'.records = e.records
       /\ db'.hostHead = e.hostHead /\ db'.hostOps = e.hostOps /\ db'.bound = e.bound
       /\ db'.manifests = e.manifests /\ db'.legacyHead = e.legacyHead
       /\ db'.tombstone = ts /\ db'.operations = e.operations /\ db'.journal = e.journal
  BY ONLY <1>9, <1>7, SMT DEF Rows
<1>12. Deleted(c, scope)
  <2>1. /\ db'.hostTables = db.hostTables /\ db'.binding = bs /\ db'.records = rs
        /\ db'.hostHead = hs /\ db'.hostOps = os /\ db'.bound = us
        /\ db'.manifests = ms /\ db'.legacyHead = ls
        /\ db'.tombstone = ts /\ db'.operations = is /\ db'.journal = js
    BY ONLY <1>4, <1>8, <1>11
  <2>2. QED BY ONLY <2>1, <1>j, <1>i, <1>b, <1>r, <1>h, <1>o, <1>u, <1>m, <1>l, <1>s DEF Deleted
<1>13. QED BY <1>10, <1>12

\* delete_chat.
LEMMA DeleteStep ==
    ASSUME IInv, site' = site, NEW c \in Chats, NEW scope \in SUBSET Execs,
           DeleteChat(c, scope)
    PROVE  IInv'
<1>p. /\ TypeOK /\ (\A d \in Chats : LineOf(d)) /\ BoundRecorded /\ BoundOnce
      /\ (\A m \in db.manifests : Holds(m)) /\ RangesFit
      /\ ("advance" \notin Services => NonResurrectable) /\ (OnlyRebase => Serviced)
  BY Parts
<1>q. db \in Rows /\ running \subseteq Runtimes
  BY <1>p DEF TypeOK, Runtimes
<1>1. /\ ScopeValid(c, scope) /\ running' = running
      /\ db' = [RowsWithout(c, scope) EXCEPT !.tombstone[c] = scope]
  BY DEF DeleteChat, Commits
<1>2. Deleted(c, scope) /\ db' \in Rows
  BY <1>q, <1>1, DeleteEffect
<1>3. /\ db'.records = {r \in db.records : r.chat # c}
      /\ db'.hostHead = [db.hostHead EXCEPT ![c] = None]
      /\ db'.bound = {b \in db.bound : b.chat # c}
      /\ db'.manifests = {m \in db.manifests : m.intent.chat # c}
  BY <1>2 DEF Deleted
<1>4. \A d \in Chats : LineOf(d)'
  BY <1>p, <1>3, LinesOfOthers
<1>5. BoundRecorded' /\ BoundOnce'
  BY <1>p, <1>3, BoundsOfOthers
<1>6. \A m \in db'.manifests : Holds(m)'
  <2> SUFFICES ASSUME NEW m \in db'.manifests PROVE Holds(m)'
    OBVIOUS
  <2>1. m \in db.manifests /\ Grown(m.intent.x)
    BY <1>p, <1>1, <1>2, OthersUntouched
  <2>2. QED BY <2>1, <1>p, HoldsKept
<1>7. RangesFit'
  BY <1>p, <1>3 DEF RangesFit
<1>8. ASSUME NonResurrectable PROVE NonResurrectable'
  BY <1>8, <1>p, <1>1, <1>2, DeleteGone
<1>9. ASSUME Serviced PROVE Serviced'
  BY <1>9, <1>p, <1>1, <1>2, DeleteServiced
<1>10. QED BY <1>1, <1>2, <1>q, <1>p, <1>4, <1>5, <1>6, <1>7, <1>8, <1>9, Assemble DEF TypeOK

\* Every step of the specification.
LEMMA NextIInv ==
    ASSUME SitesFit, NoneFits, IInv, [Next]_vars
    PROVE  IInv'
<1>p. site \in Sites
  BY Parts DEF TypeOK
<1>n. site.chats \subseteq Chats /\ site.execs \subseteq Execs
  BY <1>p, SiteNames
<1>1. CASE UNCHANGED vars
  <2>1. site' = site /\ db' = db /\ running' = running
    BY <1>1 DEF vars
  <2>2. db \in Rows /\ running \subseteq Runtimes
    BY Parts DEF TypeOK, Runtimes
  <2>3. QED BY <2>1, <2>2, RowsStill
<1>2. CASE Next
  <2>s. site' = site /\ Step
    BY <1>2 DEF Next
  <2>1. CASE OpenHost
    BY <2>1, <2>s, OpenHostStep
  <2>2. CASE OpenDeletion
    BY <2>2, <2>s, OpenDeletionStep
  <2>3. ASSUME NEW c \in site.chats, NEW x \in site.execs, Advance(c, x) PROVE IInv'
    BY <2>3, <2>s, <1>n, AdvanceInitialStep, AdvanceNextStep DEF Advance
  <2>4. ASSUME NEW c \in site.chats, NEW x \in site.execs, BindCurrentAttempt(c, x) PROVE IInv'
    BY <2>4, <2>s, <1>n, BindStep
  <2>5. ASSUME NEW c \in site.chats, NEW x \in site.execs, Bootstrap(c, x) PROVE IInv'
    BY <2>5, <2>s, <1>n, BootstrapAgainStep, BootstrapNewStep DEF Bootstrap
  <2>6. ASSUME NEW c \in site.chats, NEW x \in site.execs, Rebase(c, x) PROVE IInv'
    BY <2>6, <2>s, <1>n, CreateStep, ReplaceStep DEF Rebase
  <2>7. ASSUME NEW c \in site.chats, NEW scope \in SUBSET site.execs, DeleteChat(c, scope)
        PROVE  IInv'
    <3>1. c \in Chats /\ scope \in SUBSET Execs
      BY <1>n
    <3>2. QED BY <2>7, <2>s, <3>1, DeleteStep
  <2>8. CASE Launch \/ \E r \in running : RunDies(r)
    BY <2>8, <2>s, RuntimeStep
  <2>9. ASSUME NEW r \in running, AppendEvent(r) PROVE IInv'
    BY <2>9, <2>s, AppendStep
  <2>10. QED BY <2>s, <2>1, <2>2, <2>3, <2>4, <2>5, <2>6, <2>7, <2>8, <2>9 DEF Step
<1>3. QED BY <1>1, <1>2

\* An empty database satisfies the invariant.
LEMMA InitIInv ==
    ASSUME SitesFit, NoneFits, Init
    PROVE  IInv
<1>1. /\ site \in Sites /\ running = {}
      /\ db = [hostTables |-> FALSE, guarded |-> FALSE,
               journal |-> [x \in Execs |-> None], operations |-> {},
               binding |-> [c \in Chats |-> None], records |-> {},
               hostHead |-> [c \in Chats |-> None], hostOps |-> {}, bound |-> {},
               manifests |-> {}, legacyHead |-> [c \in Chats |-> None],
               tombstone |-> [c \in Chats |-> None]]
  BY DEF Init
<1>2. db \in Rows
  BY <1>1 DEF Rows
<1>3. TypeOK
  BY <1>1, <1>2 DEF TypeOK
<1>4. /\ db.records = {} /\ db.bound = {} /\ db.manifests = {} /\ db.operations = {}
      /\ db.hostHead = [c \in Chats |-> None] /\ db.binding = [c \in Chats |-> None]
      /\ db.legacyHead = [c \in Chats |-> None] /\ db.tombstone = [c \in Chats |-> None]
  BY <1>1
<1>5. \A c \in Chats : LineOf(c)
  BY <1>4 DEF LineOf, Line, RecordsOf
<1>6. BoundRecorded /\ BoundOnce
  BY <1>4 DEF BoundRecorded, BoundOnce
<1>7. (\A m \in db.manifests : Holds(m)) /\ RangesFit
  BY <1>4 DEF RangesFit
<1>8. NonResurrectable
  BY <1>4 DEF NonResurrectable
<1>9. Serviced
  BY <1>4 DEF Serviced, HeadsOf
<1>10. QED BY <1>3, <1>5, <1>6, <1>7, <1>8, <1>9, Parts

(***************************************************************************)
(* What the invariant says of a chat that the rebase serves.               *)
(***************************************************************************)
\* The rebase that made a manifest is answered with its receipt.
LEMMA ReceiptOf ==
    ASSUME Serviced, NEW m \in db.manifests
    PROVE  Receipt(m, RecordOf(m.intent))
             \in Receipts(m.intent.chat, m.intent.x, m.intent.g)
<1> DEFINE i == m.intent
<1>b. Backed(m)
  BY DEF Serviced
<1>1. PICK l \in db.records : l = RecordOf(i)
  BY <1>b DEF Backed
<1>2. PICK b \in db.bound : b = BindingOf(i)
  BY <1>b DEF Backed
<1>3. /\ l.chat = i.chat /\ l.g = i.g /\ l.x = i.x /\ l.kind = CompatibleKind(i.kind)
      /\ l.prev = i.prev /\ l.rev = i.rev + 1 /\ l.op = <<"transition", i.op>>
  BY <1>1 DEF RecordOf
<1>4. /\ b.chat = i.chat /\ b.x = i.x /\ b.g = i.g /\ b.att = i.att /\ b.rev = i.rev + 1
      /\ b.op = <<"binding", i.op>>
  BY <1>2 DEF BindingOf
<1>5. [chat |-> i.chat, op |-> l.op, kind |-> "transition", g |-> i.g,
       rev |-> l.rev, att |-> None] \in db.hostOps
  BY <1>b, <1>3 DEF Backed, TransitionOf
<1>6. \E h \in db.hostOps :
         /\ h.chat = i.chat /\ h.op = b.op /\ h.kind = "attempt_binding"
         /\ h.g = i.g /\ h.att = b.att
  <2>1. BindingOpOf(i) \in db.hostOps
    BY <1>b DEF Backed
  <2>2. QED BY <2>1, <1>4 DEF BindingOpOf
<1>7. Receipted(i.chat, i.x, i.g, m, l, b)
  BY <1>b, <1>3, <1>4, <1>5, <1>6 DEF Receipted, Backed
<1>8. PICK t \in ManifestsOf(i.chat) \X db.records \X db.bound :
        t[1] = m /\ t[2] = l /\ t[3] = b
  <2>1. m \in ManifestsOf(i.chat)
    BY DEF ManifestsOf
  <2>2. <<m, l, b>> \in ManifestsOf(i.chat) \X db.records \X db.bound
    BY <2>1, SMT
  <2>3. <<m, l, b>>[1] = m /\ <<m, l, b>>[2] = l /\ <<m, l, b>>[3] = b
    BY SMT
  <2>4. QED BY <2>2, <2>3
<1>9. QED BY <1>1, <1>7, <1>8 DEF Receipts

\* current answers: both heads agree, and the head's generation has its receipt.
LEMMA ServicedReadable ==
    ASSUME SitesFit, NoneFits, TypeOK, Serviced, NEW c \in Chats
    PROVE  Readable(c)
<1>h. HeadsOf(c)
  BY DEF Serviced
<1>1. CASE db.hostHead[c] = None
  BY <1>1, <1>h DEF HeadsOf, Readable, MatchingHeads
<1>2. CASE db.hostHead[c] # None
  <2>h. PICK h \in Heads : h = db.hostHead[c]
    BY <1>2, Columns DEF TypeOK
  <2>m. PICK m \in ManifestsOf(c) :
          /\ m.intent.x = h.x /\ m.intent.g = h.g /\ m.intent.rev + 1 = h.rev
          /\ db.legacyHead[c] = LegacyHead(m.intent, h.rev)
    BY <1>2, <1>h, <2>h DEF HeadsOf
  <2>c. m \in db.manifests /\ m.intent.chat = c
    BY DEF ManifestsOf
  <2>i. m.intent \in Intents
    BY <2>c, Columns, SMT DEF TypeOK, Manifests
  <2>l. PICK l \in LegacyHeads : l = db.legacyHead[c]
    BY <2>i, <2>m, LegacyHeadType
  <2>f. l.x = h.x /\ l.g = h.g /\ l.rev = h.rev /\ l.src = m.intent.src
    <3>1. l = [x |-> m.intent.x, g |-> m.intent.g, rev |-> h.rev, src |-> m.intent.src]
      BY <2>l, <2>m DEF LegacyHead
    <3>2. QED BY ONLY <3>1, <2>m, SMT
  <2>1. h = [x |-> l.x, g |-> l.g, rev |-> l.rev]
    BY <2>f, SMT DEF Heads
  <2>2. h # None /\ l # None
    BY NoneApart DEF TypeOK
  <2>3. MatchingHeads(c)
    BY <2>1, <2>2, <2>h, <2>l DEF MatchingHeads
  <2>4. Receipt(m, RecordOf(m.intent)) \in Receipts(c, h.x, h.g)
    BY <2>c, <2>m, ReceiptOf
  <2>5. /\ Receipt(m, RecordOf(m.intent)).rev = h.rev
        /\ Receipt(m, RecordOf(m.intent)).src = l.src
    BY <2>m, <2>f DEF Receipt, RecordOf
  <2>6. QED BY <2>3, <2>4, <2>5, <2>h, <2>l DEF Readable
<1>3. QED BY <1>1, <1>2

\* Some scope passes the validation of delete_chat: the chat's execution, if
\* it has one.
LEMMA ServicedDeletable ==
    ASSUME SitesFit, NoneFits, TypeOK, RangesFit, Serviced, NEW c \in Chats
    PROVE  \E scope \in SUBSET Execs : ScopeValid(c, scope)
<1>h. HeadsOf(c)
  BY DEF Serviced
<1>t. db.binding[c] \in Execs \cup {None} /\ None \notin Execs
  BY Columns, NoneApart DEF TypeOK
<1>m. \A m \in db.manifests : m.intent.x \in Execs /\ m.intent.chat \in Chats
  BY Columns, SMT DEF TypeOK, Manifests, Intents
<1>b. \A m \in db.manifests : m.intent.x = db.binding[m.intent.chat]
  BY DEF Serviced, Backed
<1>u. \A e, d \in Chats : db.binding[e] # None /\ db.binding[e] = db.binding[d] => e = d
  BY DEF Serviced
<1>1. CASE db.binding[c] = None
  <2>1. ManifestsOf(c) = {}
    BY <1>1, <1>b, <1>m, <1>t DEF ManifestsOf
  <2>2. PICK scope \in SUBSET Execs : scope = {}
    OBVIOUS
  <2>3. ScopeValid(c, scope)
    BY <1>1, <2>1, <2>2 DEF ScopeValid
  <2>4. QED BY <2>3
<1>2. CASE db.binding[c] # None
  <2>x. PICK x \in Execs : x = db.binding[c]
    BY <1>2, <1>t
  <2>1. PICK m \in ManifestsOf(c) : TRUE
    BY <1>2, <1>h DEF HeadsOf
  <2>2. m \in db.manifests /\ m.intent.x = x
    BY <2>x, <1>b DEF ManifestsOf
  <2>3. db.journal[x] # None
    <3>1. m.last <= Len(Journal(x))
      BY <2>2 DEF Serviced, Backed, ImportIntact
    <3>2. m.last \in Nat /\ 1 <= m.last
      BY <2>2, Columns, SMT DEF TypeOK, RangesFit, Manifests
    <3>3. CASE db.journal[x] = None
      <4>1. Journal(x) = << >>
        BY <3>3 DEF Journal
      <4>2. QED BY <4>1, <3>1, <3>2, SMT
    <3>4. QED BY <3>3
  <2>4. {n.intent.x : n \in ManifestsOf(c)} \subseteq {x}
    BY <2>x, <1>b DEF ManifestsOf
  <2>5. OwnsExecution(c, x)
    <3> SUFFICES ASSUME NEW n \in db.manifests, n.intent.x = x PROVE n.intent.chat = c
      BY DEF OwnsExecution, ManifestsOn
    <3>1. db.binding[n.intent.chat] = db.binding[c]
      BY <1>b, <2>x
    <3>2. QED BY <3>1, <1>2, <1>u, <1>m
  <2>6. \A d \in Chats \ {c} : db.binding[d] # x
    BY <2>x, <1>2, <1>u
  <2>7. PICK scope \in SUBSET Execs : scope = {x}
    OBVIOUS
  <2>8. ScopeValid(c, scope)
    BY <2>x, <2>3, <2>4, <2>5, <2>6, <2>7 DEF ScopeValid
  <2>9. QED BY <2>8
<1>3. QED BY <1>1, <1>2

LEMMA IInvServiceable ==
    ASSUME SitesFit, NoneFits, IInv
    PROVE  StaysServiceable
<1> SUFFICES ASSUME OnlyRebase
             PROVE  /\ \A c \in Chats :
                         /\ Readable(c)
                         /\ db.tombstone[c] = None =>
                              \E scope \in SUBSET Execs : ScopeValid(c, scope)
                    /\ \A i \in db.operations : i.svc = "rebase" =>
                         \E r \in Receipts(i.chat, i.x, i.g) : r.op = i.op /\ r.rev = i.rev + 1
  BY DEF StaysServiceable
<1>p. TypeOK /\ RangesFit /\ Serviced
  BY Parts
<1>1. \A c \in Chats : Readable(c)
  BY <1>p, ServicedReadable
<1>2. \A c \in Chats : \E scope \in SUBSET Execs : ScopeValid(c, scope)
  BY <1>p, ServicedDeletable
<1>3. ASSUME NEW i \in db.operations
      PROVE  \E r \in Receipts(i.chat, i.x, i.g) : r.op = i.op /\ r.rev = i.rev + 1
  <2>1. PICK m \in db.manifests : m.intent = i
    BY <1>p DEF Serviced
  <2>2. Receipt(m, RecordOf(i)) \in Receipts(i.chat, i.x, i.g)
    BY <1>p, <2>1, ReceiptOf
  <2>3. Receipt(m, RecordOf(i)).op = i.op /\ Receipt(m, RecordOf(i)).rev = i.rev + 1
    BY <2>1 DEF Receipt, RecordOf
  <2>4. QED BY <2>2, <2>3
<1>4. QED BY <1>1, <1>2, <1>3

(***************************************************************************)
(* The theorems.                                                           *)
(***************************************************************************)
\* The tables satisfy the inductive invariant at every commit of the
\* lifecycle, bootstrap, rebase and deletion services and of the runtimes.
THEOREM ChatInvariant ==
    ASSUME SitesFit, NoneFits
    PROVE  Spec => []IInv
<1>1. Init => IInv
  BY InitIInv
<1>2. IInv /\ [Next]_vars => IInv'
  BY NextIInv
<1>3. QED BY <1>1, <1>2, PTL DEF Spec

\* The records of a chat are one line of generations that its head ends, every
\* binding names the generation of its revision, no attempt is bound twice, and
\* imported events stay in the journal (host_generation_records, _bindings,
\* _verify_events).
THEOREM OneLineOfGenerations ==
    ASSUME SitesFit, NoneFits
    PROVE  Spec => []Lineage
<1>1. IInv => Lineage
  BY DEF IInv
<1>2. QED BY <1>1, ChatInvariant, PTL

\* Where no host uses advance, no row of a deleted chat or of its executions
\* comes back (delete_chat and its guard triggers).
THEOREM DeletedStaysDeleted ==
    ASSUME SitesFit, NoneFits
    PROVE  Spec => []NotResurrected
<1>1. IInv => NotResurrected
  BY DEF IInv
<1>2. QED BY <1>1, ChatInvariant, PTL

\* A chat that the rebase alone serves can be read, can be deleted, and every
\* rebase it accepted is answered with its receipt (current, _validate_scope,
\* _receipt_for_generation).
THEOREM ChatsStayServiceable ==
    ASSUME SitesFit, NoneFits
    PROVE  Spec => []StaysServiceable
<1>1. IInv => StaysServiceable
  BY IInvServiceable
<1>2. QED BY <1>1, ChatInvariant, PTL
=============================================================================
