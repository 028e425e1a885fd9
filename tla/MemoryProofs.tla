---------------------------- MODULE MemoryProofs ----------------------------
(***************************************************************************)
(* Proofs about the memory: the store (MemoryStore) and the scheduler of   *)
(* its consolidations (MemoryScheduler).  The two share no variable.       *)
(***************************************************************************)
EXTENDS MemoryStore, MemoryScheduler, FiniteSetTheorems, TLAPS

-----------------------------------------------------------------------------
(***************************************************************************)
(* Proofs about the memory store, for any set of cards and any number of   *)
(* writes, errors and crashes.                                             *)
(*                                                                         *)
(* The journal is written from the map and the map is read back from the   *)
(* files, so ReplicasOrdered needs the third side of the triangle: while   *)
(* the process runs the journal is no further than the map either          *)
(* (JournalBehind), also for a card whose file is cut short.  One fault    *)
(* cuts short a file or the journal, not both (OneFault).  For the edges,  *)
(* map and files agree except for the card under way as long as no write   *)
(* failed (Agree), which carries the ends of an edge over a restart.       *)
(***************************************************************************)


\* Nothing of RebuildProjections is under way.
NoRebuild == replayed = NoReplay /\ op.step # "rebuild"

FileBehind ==
  \A k \in Card :
    /\ k \notin torn => last[k] \subseteq file[k]
    /\ up => file[k] \subseteq mem[k]

JournalBehind ==
  \A k \in Card : acked[k] \subseteq last[k] /\ (up => last[k] \subseteq mem[k])

\* Between persistCard and the journal event the file is the map's card.
Persisted ==
  up /\ op.step = "journal" /\ op.kind = "card" =>
    op.id \notin torn /\ file[op.id] = mem[op.id]

OneFault ==
  /\ errors + crashes = 0 => torn = {} /\ ~jtorn
  /\ errors + crashes = 1 => torn = {} \/ ~jtorn

\* The card whose file is about to be written.
Pending(k) == op.step = "persist" /\ op.kind = "card" /\ op.id = k

Agree ==
  up => /\ torn = {}
        /\ \A k \in Card : mem[k] = file[k] \/ Pending(k)
        /\ \A k \in Card : Pending(k) => mem[k] # {}
        /\ op.step = "persist" /\ op.kind = "edge" => op.id \in emem

Ends(e) == {e[1], e[2]}

EdgesFit ==
  /\ up => \A e \in emem : \A k \in Ends(e) : mem[k] # {}
  /\ \A e \in efile : \A k \in Ends(e) : file[k] # {} \/ k \in torn

\* A process that died runs no call.
DownIdle == ~up => op = NoOp

Fit ==
  /\ NoRebuild
  /\ DownIdle
  /\ FileBehind
  /\ JournalBehind
  /\ Persisted
  /\ OneFault
  /\ errors = 0 => Agree /\ EdgesFit

IInv == TypeOK /\ (~rebuilt => Fit)

-----------------------------------------------------------------------------
(***************************************************************************)
(* Types                                                                   *)
(***************************************************************************)

USE MemoryStoreAssumption

\* What the call under way is about, by its step.
LEMMA OpShape ==
  ASSUME NEW o \in Ops
  PROVE  /\ o.step \in {"persist", "journal"} /\ o.kind = "card" =>
              /\ o.id \in Card /\ o.rest \subseteq Card
              /\ o = [step |-> o.step, kind |-> "card", id |-> o.id, rest |-> o.rest]
         /\ o.step \in {"persist", "journal"} /\ o.kind = "edge" =>
              /\ o.id \in Edge
              /\ o = [step |-> o.step, kind |-> "edge", id |-> o.id]
         /\ o.step \in {"persist", "journal"} => o.kind \in {"card", "edge"}
         /\ o.step = "decay" => o.rest \subseteq Card
         /\ o.step = "none" => o = NoOp
  BY DEF Ops, NoOp

LEMMA OpMake ==
  ASSUME NEW k \in Card, NEW S \in SUBSET Card, NEW e \in Edge
  PROVE  /\ [step |-> "persist", kind |-> "card", id |-> k, rest |-> S] \in Ops
         /\ [step |-> "journal", kind |-> "card", id |-> k, rest |-> S] \in Ops
         /\ [step |-> "persist", kind |-> "edge", id |-> e] \in Ops
         /\ [step |-> "journal", kind |-> "edge", id |-> e] \in Ops
         /\ [step |-> "decay", rest |-> S] \in Ops
         /\ [step |-> "rebuild"] \in Ops
         /\ NoOp \in Ops
  BY DEF Ops, NoOp

\* PersistCard and PersistEdge only move the call to its journal event.
LEMMA OpAdvance ==
  ASSUME NEW o \in Ops, o.step = "persist"
  PROVE  /\ [o EXCEPT !.step = "journal"] \in Ops
         /\ [o EXCEPT !.step = "journal"].step = "journal"
         /\ [o EXCEPT !.step = "journal"].kind = o.kind
         /\ [o EXCEPT !.step = "journal"].id = o.id
  BY DEF Ops, NoOp

\* One card of a map is changed.
LEMMA MapUpdate ==
  ASSUME NEW f \in CardMap, NEW k \in Card, NEW V \in SUBSET Versions
  PROVE  /\ [f EXCEPT ![k] = V] \in CardMap
         /\ [f EXCEPT ![k] = V][k] = V
         /\ \A j \in Card \ {k} : [f EXCEPT ![k] = V][j] = f[j]
  BY DEF CardMap

LEMMA EmptyMap == Empty \in CardMap /\ \A k \in Card : Empty[k] = {}
  BY DEF Empty, CardMap

LEMMA OnlyMap ==
  ASSUME NEW f \in CardMap, NEW S \in SUBSET Card
  PROVE  Only(f, S) \in CardMap
  BY DEF Only, CardMap

LEMMA InitType == Init => TypeOK
  <1> SUFFICES ASSUME Init PROVE TypeOK
    OBVIOUS
  <1>1. op \in Ops BY DEF Init, Ops
  <1>2. 0 \in 0..MaxWrites /\ 0 \in 0..MaxErrors /\ 0 \in 0..MaxCrashes
    OBVIOUS
  <1> QED BY <1>1, <1>2, EmptyMap DEF Init, TypeOK

LEMMA RecordedType ==
  ASSUME TypeOK, Recorded, op.step = "journal"
  PROVE  last' \in CardMap /\ elast' \subseteq Edge
  <1>1. CASE op.kind = "card"
    <2>1. op.id \in Card BY <1>1, OpShape DEF TypeOK
    <2>2. mem[op.id] \in SUBSET Versions BY <2>1 DEF TypeOK, CardMap
    <2> QED BY <1>1, <2>1, <2>2, MapUpdate DEF TypeOK, Recorded
  <1>2. CASE op.kind # "card"
    <2>1. op.id \in Edge BY <1>2, OpShape DEF TypeOK
    <2> QED BY <1>2, <2>1 DEF TypeOK, Recorded
  <1> QED BY <1>1, <1>2

\* What an action leaves alone keeps its type.
LEMMA Kept ==
  ASSUME TypeOK
  PROVE  /\ UNCHANGED maps => mem' \in CardMap /\ emem' \subseteq Edge
         /\ UNCHANGED disk => /\ file' \in CardMap /\ torn' \subseteq Card
                              /\ efile' \subseteq Edge /\ etorn' \subseteq Edge
         /\ UNCHANGED journal =>
              last' \in CardMap /\ elast' \subseteq Edge /\ jtorn' \in BOOLEAN
         /\ UNCHANGED counts => /\ writes' \in 0..MaxWrites
                                /\ errors' \in 0..MaxErrors
                                /\ crashes' \in 0..MaxCrashes
  BY DEF TypeOK, maps, disk, journal, counts

LEMMA AppendType ==
  ASSUME TypeOK, NEW k \in Card, NEW S \in SUBSET Card, AppendVersion(k, S)
  PROVE  TypeOK'
  <1>1. writes + 1 \in 0..MaxWrites /\ writes + 1 \in Versions
    BY DEF TypeOK, AppendVersion, Versions
  <1>2. mem[k] \cup {writes + 1} \in SUBSET Versions
    BY <1>1 DEF TypeOK, CardMap
  <1>3. mem' \in CardMap
    BY <1>2, MapUpdate DEF TypeOK, AppendVersion
  <1>4. op' \in Ops
    BY OpMake, Zenon DEF AppendVersion, Ops
  <1> QED BY <1>1, <1>3, <1>4, Kept DEF TypeOK, AppendVersion, disk, journal

LEMMA CreateEdgeType ==
  ASSUME TypeOK, NEW e \in Edge, CreateEdge(e)
  PROVE  TypeOK'
  <1>1. op' \in Ops BY DEF CreateEdge, Ops
  <1> QED BY <1>1, Kept DEF TypeOK, CreateEdge, disk, journal, counts

LEMMA DecayType ==
  ASSUME TypeOK, DecayAndCompact
  PROVE  TypeOK'
  <1>1. op' \in Ops BY DEF DecayAndCompact, Ops
  <1> QED BY <1>1, Kept DEF TypeOK, DecayAndCompact, disk, journal, counts, maps

LEMMA PersistCardType ==
  ASSUME TypeOK, PersistCard
  PROVE  TypeOK'
  <1>1. op.id \in Card BY OpShape DEF TypeOK, PersistCard, At
  <1>2. mem[op.id] \in SUBSET Versions BY <1>1 DEF TypeOK, CardMap
  <1>3. file' \in CardMap
    BY <1>1, <1>2, MapUpdate DEF TypeOK, PersistCard
  <1>4. op' \in Ops BY OpAdvance DEF TypeOK, PersistCard, At
  <1> QED BY <1>3, <1>4, Kept DEF TypeOK, PersistCard, journal, counts, maps

LEMMA PersistEdgeType ==
  ASSUME TypeOK, PersistEdge
  PROVE  TypeOK'
  <1>1. op.id \in Edge BY OpShape DEF TypeOK, PersistEdge, At
  <1>2. op' \in Ops BY OpAdvance DEF TypeOK, PersistEdge, At
  <1> QED BY <1>1, <1>2, Kept DEF TypeOK, PersistEdge, journal, counts, maps

LEMMA JournalCardType ==
  ASSUME TypeOK, JournalCard
  PROVE  TypeOK'
  <1>1. op.id \in Card /\ op.rest \subseteq Card
    BY OpShape DEF TypeOK, JournalCard, At
  <1>2. mem[op.id] \in SUBSET Versions BY <1>1 DEF TypeOK, CardMap
  <1>3. acked' \in CardMap
    BY <1>1, <1>2, MapUpdate DEF TypeOK, JournalCard
  <1>4. op' \in Ops BY <1>1 DEF JournalCard, Ops
  <1>5. last' \in CardMap /\ elast' \subseteq Edge
    BY RecordedType DEF JournalCard, At
  <1> QED BY <1>3, <1>4, <1>5, Kept DEF TypeOK, JournalCard, disk, counts, maps

LEMMA JournalEdgeType ==
  ASSUME TypeOK, JournalEdge
  PROVE  TypeOK'
  <1>1. op' \in Ops BY DEF JournalEdge, Ops
  <1>2. last' \in CardMap /\ elast' \subseteq Edge
    BY RecordedType DEF JournalEdge, At
  <1> QED BY <1>1, <1>2, Kept DEF TypeOK, JournalEdge, disk, counts, maps

LEMMA RebuildType ==
  ASSUME TypeOK, RebuildReplay \/ RebuildLock \/ RebuildRewrite
  PROVE  TypeOK'
  <1>1. CASE RebuildReplay
    <2>1. replayed' \in [cards: CardMap, edges: SUBSET Edge]
      BY <1>1 DEF TypeOK, RebuildReplay
    <2> QED BY <1>1, <2>1, Kept DEF TypeOK, RebuildReplay, disk, journal, counts, maps
  <1>2. CASE RebuildLock
    <2>1. replayed \in [cards: CardMap, edges: SUBSET Edge]
      BY <1>2 DEF TypeOK, RebuildLock
    <2>2. mem' \in CardMap /\ emem' \subseteq Edge
      BY <1>2, <2>1 DEF RebuildLock
    <2>3. op' \in Ops BY <1>2 DEF RebuildLock, Ops
    <2> QED BY <1>2, <2>2, <2>3, Kept DEF TypeOK, RebuildLock, disk, journal, counts
  <1>3. CASE RebuildRewrite
    <2>1. op' \in Ops BY <1>3 DEF RebuildRewrite, Ops
    <2> QED BY <1>3, <2>1, Kept DEF TypeOK, RebuildRewrite, journal, counts, maps
  <1> QED BY <1>1, <1>2, <1>3

LEMMA HalfRewrittenType ==
  ASSUME TypeOK, HalfRewritten
  PROVE  /\ file' \in CardMap /\ torn' \subseteq Card
         /\ efile' \subseteq Edge /\ etorn' \subseteq Edge
  <1>1. ASSUME NEW S \in SUBSET Card, file' = Only(mem, S),
               torn' \in {T \in SUBSET (Card \ S) : AtMostOne(T)},
               efile' = {}, etorn' = {}
        PROVE  /\ file' \in CardMap /\ torn' \subseteq Card
               /\ efile' \subseteq Edge /\ etorn' \subseteq Edge
    BY <1>1, OnlyMap DEF TypeOK
  <1>2. ASSUME file' = mem, torn' = {}, efile' \in SUBSET emem,
               etorn' \in {T \in SUBSET (emem \ efile') : AtMostOne(T)}
        PROVE  /\ file' \in CardMap /\ torn' \subseteq Card
               /\ efile' \subseteq Edge /\ etorn' \subseteq Edge
    BY <1>2 DEF TypeOK
  <1> QED BY <1>1, <1>2, Zenon DEF HalfRewritten

LEMMA HalfWrittenType ==
  ASSUME TypeOK, HalfWritten
  PROVE  /\ file' \in CardMap /\ torn' \subseteq Card
         /\ efile' \subseteq Edge /\ etorn' \subseteq Edge
         /\ last' \in CardMap /\ elast' \subseteq Edge /\ jtorn' \in BOOLEAN
  <1>1. CASE UNCHANGED <<disk, journal>>
    BY <1>1, Kept DEF disk, journal
  <1>2. CASE /\ op.step = "persist" /\ op.kind = "card"
             /\ file' = [file EXCEPT ![op.id] = {}] /\ torn' = torn \cup {op.id}
             /\ UNCHANGED <<efile, etorn, journal>>
    <2>1. op.id \in Card BY <1>2, OpShape DEF TypeOK
    <2>2. file' \in CardMap BY <1>2, <2>1, MapUpdate DEF TypeOK
    <2> QED BY <1>2, <2>1, <2>2, Kept DEF TypeOK, journal
  <1>3. CASE /\ op.step = "persist" /\ op.kind = "edge"
             /\ efile' = efile \ {op.id} /\ etorn' = etorn \cup {op.id}
             /\ UNCHANGED <<file, torn, journal>>
    <2>1. op.id \in Edge BY <1>3, OpShape DEF TypeOK
    <2> QED BY <1>3, <2>1, Kept DEF TypeOK, journal
  <1>4. CASE op.step = "journal" /\ ~stuck /\ jtorn' = TRUE /\ UNCHANGED <<disk, last, elast>>
    BY <1>4, Kept DEF TypeOK, disk
  <1>5. CASE op.step = "journal" /\ ~stuck /\ Recorded /\ UNCHANGED <<disk, jtorn>>
    BY <1>5, RecordedType, Kept DEF TypeOK, disk
  <1>6. CASE op.step = "rebuild" /\ HalfRewritten /\ UNCHANGED journal
    BY <1>6, HalfRewrittenType, Kept DEF TypeOK, journal
  <1> QED BY <1>1, <1>2, <1>3, <1>4, <1>5, <1>6 DEF HalfWritten

LEMMA WriteFailsType ==
  ASSUME TypeOK, WriteFails
  PROVE  TypeOK'
  <1>1. HalfWritten BY DEF WriteFails
  <1>2. errors' \in 0..MaxErrors BY DEF TypeOK, WriteFails
  <1>3. op' \in Ops BY DEF WriteFails, Ops
  <1>4. stuck' \in BOOLEAN BY Zenon DEF TypeOK, WriteFails
  <1>5. (replayed \in [cards: CardMap, edges: SUBSET Edge] \cup {NoReplay})'
    BY DEF TypeOK, WriteFails, NoReplay
  <1>6. UNCHANGED <<maps, up, writes, crashes, rebuilt, acked>> BY DEF WriteFails
  <1> QED BY <1>1, <1>2, <1>3, <1>4, <1>5, <1>6, HalfWrittenType DEF TypeOK, maps

LEMMA CrashType ==
  ASSUME TypeOK, Crash
  PROVE  TypeOK'
  <1>1. /\ file' \in CardMap /\ torn' \subseteq Card
        /\ efile' \subseteq Edge /\ etorn' \subseteq Edge
        /\ last' \in CardMap /\ elast' \subseteq Edge /\ jtorn' \in BOOLEAN
    <2>1. CASE HalfWritten BY <2>1, HalfWrittenType
    <2>2. CASE HalfWiped /\ UNCHANGED journal
      BY <2>2, OnlyMap, Kept DEF TypeOK, HalfWiped
    <2> QED BY <2>1, <2>2 DEF Crash
  <1>2. crashes' \in 0..MaxCrashes BY DEF TypeOK, Crash
  <1>3. op' \in Ops BY DEF Crash, Ops
  <1>4. /\ mem' = Empty /\ emem' = {} /\ stuck' = FALSE /\ replayed' = NoReplay
        /\ up' = FALSE /\ UNCHANGED <<writes, errors, rebuilt, acked>>
    BY DEF Crash
  <1> QED BY <1>1, <1>2, <1>3, <1>4, EmptyMap DEF TypeOK, NoReplay

LEMMA OtherType ==
  ASSUME TypeOK, JournalRefuses \/ LoadFromDisk
  PROVE  TypeOK'
  <1>1. CASE JournalRefuses
    <2>1. op' \in Ops BY <1>1 DEF JournalRefuses, Ops
    <2> QED BY <1>1, <2>1, Kept DEF TypeOK, JournalRefuses, disk, journal, counts, maps
  <1>2. CASE LoadFromDisk
    BY <1>2, Kept DEF TypeOK, LoadFromDisk, disk, journal, counts
  <1> QED BY <1>1, <1>2

LEMMA StepType == TypeOK /\ [Next]_vars => TypeOK'
  <1> SUFFICES ASSUME TypeOK, [Next]_vars PROVE TypeOK'
    OBVIOUS
  <1>1. ASSUME NEW k \in Card, CreateCard(k) \/ UpdateCard(k) \/ TouchCard(k)
        PROVE  TypeOK'
    BY <1>1, AppendType DEF CreateCard, UpdateCard, TouchCard
  <1>2. ASSUME NEW k \in Card, DecayCard(k) PROVE TypeOK'
    <2>1. op.rest \ {k} \in SUBSET Card BY <1>2, OpShape DEF TypeOK, DecayCard
    <2> QED BY <1>2, <2>1, AppendType DEF DecayCard
  <1>3. ASSUME NEW e \in Edge, CreateEdge(e) PROVE TypeOK'
    BY <1>3, CreateEdgeType
  <1>4. CASE DecayAndCompact BY <1>4, DecayType
  <1>5. CASE PersistCard BY <1>5, PersistCardType
  <1>6. CASE PersistEdge BY <1>6, PersistEdgeType
  <1>7. CASE JournalCard BY <1>7, JournalCardType
  <1>8. CASE JournalEdge BY <1>8, JournalEdgeType
  <1>9. CASE RebuildReplay \/ RebuildLock \/ RebuildRewrite BY <1>9, RebuildType
  <1>10. CASE WriteFails BY <1>10, WriteFailsType
  <1>11. CASE Crash BY <1>11, CrashType
  <1>12. CASE JournalRefuses \/ LoadFromDisk BY <1>12, OtherType
  <1>13. CASE UNCHANGED vars
    BY <1>13 DEF vars, maps, disk, journal, counts, TypeOK
  <1> QED
    BY <1>1, <1>2, <1>3, <1>4, <1>5, <1>6, <1>7, <1>8, <1>9, <1>10, <1>11, <1>12,
       <1>13 DEF Next

\* Maps, files, journal and the call under way keep their types, rebuilds and
\* half-written files included.
THEOREM TypeCorrect == Spec => []TypeOK
  BY InitType, StepType, PTL DEF Spec

-----------------------------------------------------------------------------
(***************************************************************************)
(* Without rebuilds                                                        *)
(***************************************************************************)

LEMMA InitFit == Init => Fit
  <1> SUFFICES ASSUME Init PROVE Fit
    OBVIOUS
  <1>1. NoRebuild BY DEF Init, NoRebuild, NoOp
  <1>2. FileBehind /\ JournalBehind BY EmptyMap DEF Init, FileBehind, JournalBehind
  <1>3. Persisted BY DEF Init, Persisted, NoOp
  <1>4. OneFault BY DEF Init, OneFault
  <1>5. Agree BY DEF Init, Agree, Pending, NoOp
  <1>6. EdgesFit BY DEF Init, EdgesFit
  <1>7. DownIdle BY DEF Init, DownIdle
  <1> QED BY <1>1, <1>2, <1>3, <1>4, <1>5, <1>6, <1>7 DEF Fit

\* A new version moves the map ahead of the file, and nothing else.
LEMMA AppendFit ==
  ASSUME TypeOK, Fit, NEW k \in Card, NEW S, AppendVersion(k, S), op.step \in {"none", "decay"}
  PROVE  Fit'
  <1>1. /\ mem' = [mem EXCEPT ![k] = mem[k] \cup {writes + 1}]
        /\ \A j \in Card : mem[j] \subseteq mem'[j]
        /\ mem'[k] # {}
        /\ \A j \in Card : j # k => mem'[j] = mem[j]
    BY DEF AppendVersion, TypeOK, CardMap
  <1>2. op' = [step |-> "persist", kind |-> "card", id |-> k, rest |-> S]
    BY DEF AppendVersion
  <1>3. /\ UNCHANGED <<file, torn, efile, last, jtorn, emem>>
        /\ UNCHANGED <<replayed, up, errors, crashes, acked>>
    BY DEF AppendVersion, disk, journal
  <1>4. NoRebuild' BY <1>2, <1>3 DEF Fit, NoRebuild
  <1>5. FileBehind' BY <1>1, <1>3 DEF Fit, FileBehind
  <1>6. JournalBehind' BY <1>1, <1>3 DEF Fit, JournalBehind
  <1>7. Persisted' BY <1>2 DEF Persisted
  <1>8. OneFault' BY <1>3 DEF Fit, OneFault
  <1>9. ASSUME errors' = 0 PROVE Agree' /\ EdgesFit'
    <2>1. Agree /\ EdgesFit BY <1>3, <1>9 DEF Fit
    <2>2. Agree' BY <2>1, <1>1, <1>2, <1>3 DEF Agree, Pending
    <2>3. EdgesFit'
      <3>1. up' => \A e \in emem' : \A j \in Ends(e) : mem'[j] # {}
        <4> SUFFICES ASSUME up', NEW e \in emem', NEW j \in Ends(e) PROVE mem'[j] # {}
          OBVIOUS
        <4>1. j \in Card BY <1>3 DEF TypeOK, Edge, Ends
        <4>2. mem[j] # {} BY <2>1, <1>3 DEF EdgesFit
        <4> QED BY <4>1, <4>2, <1>1
      <3> QED BY <3>1, <2>1, <1>3 DEF EdgesFit, Ends
    <2> QED BY <2>2, <2>3
  <1>10. DownIdle' BY <1>3 DEF AppendVersion, DownIdle
  <1> QED BY <1>4, <1>5, <1>6, <1>7, <1>8, <1>9, <1>10 DEF Fit

LEMMA CreateEdgeFit ==
  ASSUME TypeOK, Fit, NEW e \in Edge, CreateEdge(e)
  PROVE  Fit'
  <1>1. /\ op = NoOp /\ op' = [step |-> "persist", kind |-> "edge", id |-> e]
        /\ emem' = emem \cup {e} /\ mem[e[1]] # {} /\ mem[e[2]] # {}
        /\ up
    BY DEF CreateEdge, Free
  <1>2. /\ UNCHANGED <<file, torn, efile, last, jtorn, mem>>
        /\ UNCHANGED <<replayed, up, errors, crashes, acked>>
    BY DEF CreateEdge, disk, journal, counts
  <1>3. NoRebuild' BY <1>1, <1>2 DEF Fit, NoRebuild
  <1>4. FileBehind' /\ JournalBehind' BY <1>2 DEF Fit, FileBehind, JournalBehind
  <1>5. Persisted' BY <1>1 DEF Persisted
  <1>6. OneFault' BY <1>2 DEF Fit, OneFault
  <1>7. ASSUME errors' = 0 PROVE Agree' /\ EdgesFit'
    <2>1. Agree /\ EdgesFit BY <1>2, <1>7 DEF Fit
    <2>2. Agree' BY <2>1, <1>1, <1>2 DEF Agree, Pending, NoOp
    <2>3. EdgesFit' BY <2>1, <1>1, <1>2 DEF EdgesFit, Ends
    <2> QED BY <2>2, <2>3
  <1>8. DownIdle' BY <1>1, <1>2 DEF DownIdle
  <1> QED BY <1>3, <1>4, <1>5, <1>6, <1>7, <1>8 DEF Fit

\* A step that moves only the call, from no write to no write.
LEMMA IdleFit ==
  ASSUME TypeOK, Fit, up, op.step \in {"none", "decay", "journal"},
         op' = NoOp \/ op'.step = "decay",
         UNCHANGED <<maps, disk, journal, replayed, up, counts, acked>>
  PROVE  Fit'
  <1>1. /\ UNCHANGED <<file, torn, efile, last, jtorn, mem, emem>>
        /\ UNCHANGED <<replayed, up, errors, crashes, acked>>
    BY DEF maps, disk, journal, counts
  <1>2. op'.step \in {"none", "decay"} BY DEF NoOp
  <1>3. NoRebuild' BY <1>1, <1>2 DEF Fit, NoRebuild
  <1>4. FileBehind' /\ JournalBehind' BY <1>1 DEF Fit, FileBehind, JournalBehind
  <1>5. Persisted' BY <1>2 DEF Persisted
  <1>6. OneFault' BY <1>1 DEF Fit, OneFault
  <1>7. ASSUME errors' = 0 PROVE Agree' /\ EdgesFit'
    <2>1. Agree /\ EdgesFit BY <1>1, <1>7 DEF Fit
    <2>2. Agree' BY <2>1, <1>1, <1>2 DEF Agree, Pending
    <2>3. EdgesFit' BY <2>1, <1>1 DEF EdgesFit, Ends
    <2> QED BY <2>2, <2>3
  <1>8. DownIdle' BY <1>1 DEF DownIdle
  <1> QED BY <1>3, <1>4, <1>5, <1>6, <1>7, <1>8 DEF Fit

LEMMA PersistCardFit ==
  ASSUME TypeOK, Fit, PersistCard
  PROVE  Fit'
  <1>1. op.id \in Card /\ op.step = "persist" /\ op.kind = "card" /\ up
    BY OpShape DEF TypeOK, PersistCard, At
  <1>2. /\ file'[op.id] = mem[op.id]
        /\ \A j \in Card : j # op.id => file'[j] = file[j]
        /\ torn' = torn \ {op.id}
    BY <1>1 DEF TypeOK, PersistCard, CardMap
  <1>3. op'.step = "journal" /\ op'.id = op.id
    BY <1>1, OpAdvance DEF TypeOK, PersistCard
  <1>4. /\ UNCHANGED <<efile, last, jtorn, mem, emem>>
        /\ UNCHANGED <<replayed, up, errors, crashes, acked>>
    BY DEF PersistCard, journal, counts, maps
  <1>5. NoRebuild' BY <1>3, <1>4 DEF Fit, NoRebuild
  <1>6. FileBehind' BY <1>1, <1>2, <1>4 DEF Fit, FileBehind, JournalBehind
  <1>7. JournalBehind' BY <1>4 DEF Fit, JournalBehind
  <1>8. Persisted' BY <1>2, <1>3, <1>4 DEF Persisted
  <1>9. OneFault' BY <1>2, <1>4 DEF Fit, OneFault
  <1>10. ASSUME errors' = 0 PROVE Agree' /\ EdgesFit'
    <2>1. Agree /\ EdgesFit BY <1>4, <1>10 DEF Fit
    <2>2. Agree' BY <2>1, <1>1, <1>2, <1>3, <1>4 DEF Agree, Pending
    <2>3. ASSUME NEW e \in efile', NEW j \in Ends(e) PROVE file'[j] # {} \/ j \in torn'
      <3>1. j \in Card BY <1>4, <2>3 DEF TypeOK, Edge, Ends
      <3>2. file[j] # {} \/ j \in torn BY <2>1, <1>4, <2>3 DEF EdgesFit
      <3>3. mem[op.id] # {} BY <2>1, <1>1 DEF Agree, Pending
      <3> QED BY <3>1, <3>2, <3>3, <1>2
    <2> QED BY <2>1, <2>2, <2>3, <1>4 DEF EdgesFit, Ends
  <1>11. DownIdle' BY <1>1, <1>4 DEF DownIdle
  <1> QED BY <1>5, <1>6, <1>7, <1>8, <1>9, <1>10, <1>11 DEF Fit

LEMMA PersistEdgeFit ==
  ASSUME TypeOK, Fit, PersistEdge
  PROVE  Fit'
  <1>1. op.id \in Edge /\ op.step = "persist" /\ op.kind = "edge" /\ up
    BY OpShape DEF TypeOK, PersistEdge, At
  <1>2. efile' = efile \cup {op.id} BY DEF PersistEdge
  <1>3. op'.step = "journal" /\ op'.kind = "edge"
    BY <1>1, OpAdvance DEF TypeOK, PersistEdge
  <1>4. /\ UNCHANGED <<file, torn, last, jtorn, mem, emem>>
        /\ UNCHANGED <<replayed, up, errors, crashes, acked>>
    BY DEF PersistEdge, journal, counts, maps
  <1>5. NoRebuild' BY <1>3, <1>4 DEF Fit, NoRebuild
  <1>6. FileBehind' /\ JournalBehind' BY <1>4 DEF Fit, FileBehind, JournalBehind
  <1>7. Persisted' BY <1>3 DEF Persisted
  <1>8. OneFault' BY <1>4 DEF Fit, OneFault
  <1>9. ASSUME errors' = 0 PROVE Agree' /\ EdgesFit'
    <2>1. Agree /\ EdgesFit BY <1>4, <1>9 DEF Fit
    <2>2. Agree' BY <2>1, <1>1, <1>3, <1>4 DEF Agree, Pending
    <2>3. ASSUME NEW e \in efile', NEW j \in Ends(e) PROVE file'[j] # {} \/ j \in torn'
      <3>1. CASE e \in efile BY <3>1, <2>1, <1>4, <2>3 DEF EdgesFit
      <3>2. CASE e = op.id
        <4>1. op.id \in emem BY <2>1, <1>1 DEF Agree
        <4>2. mem[j] # {} BY <4>1, <3>2, <2>1, <2>3, <1>1 DEF EdgesFit
        <4>3. j \in Card BY <3>2, <1>1, <2>3 DEF Edge, Ends
        <4> QED BY <4>2, <4>3, <2>1, <1>1, <1>4 DEF Agree, Pending
      <3> QED BY <3>1, <3>2, <2>3, <1>2
    <2> QED BY <2>1, <2>2, <2>3, <1>4 DEF EdgesFit, Ends
  <1>10. DownIdle' BY <1>1, <1>4 DEF DownIdle
  <1> QED BY <1>5, <1>6, <1>7, <1>8, <1>9, <1>10 DEF Fit

\* The event of a card carries the map's card, which the file has by then.
LEMMA RecordedBehind ==
  ASSUME TypeOK, Fit, up, op.step = "journal", Recorded, UNCHANGED <<file, torn>>
  PROVE  \A k \in Card :
           /\ k \notin torn' => last'[k] \subseteq file'[k]
           /\ last'[k] \subseteq mem[k]
           /\ last[k] \subseteq last'[k]
  <1>1. CASE op.kind = "card"
    <2>1. op.id \in Card BY <1>1, OpShape DEF TypeOK
    <2>2. /\ last'[op.id] = mem[op.id]
          /\ \A j \in Card : j # op.id => last'[j] = last[j]
      BY <1>1, <2>1 DEF Recorded, TypeOK, CardMap
    <2>3. file[op.id] = mem[op.id] BY <1>1 DEF Fit, Persisted
    <2> QED BY <2>1, <2>2, <2>3 DEF Fit, FileBehind, JournalBehind
  <1>2. CASE op.kind # "card"
    <2>1. UNCHANGED last BY <1>2 DEF Recorded
    <2> QED BY <2>1 DEF Fit, FileBehind, JournalBehind
  <1> QED BY <1>1, <1>2

LEMMA JournalFit ==
  ASSUME TypeOK, Fit, JournalCard \/ JournalEdge
  PROVE  Fit'
  <1>1. /\ up /\ op.step = "journal" /\ Recorded
        /\ op' = NoOp \/ op'.step = "decay"
    BY DEF JournalCard, JournalEdge, At
  <1>2. /\ UNCHANGED <<file, torn, efile, jtorn, mem, emem>>
        /\ UNCHANGED <<replayed, up, errors, crashes>>
    BY DEF JournalCard, JournalEdge, disk, counts, maps
  <1>3. op'.step \in {"none", "decay"} BY <1>1 DEF NoOp
  <1>4. NoRebuild' BY <1>2, <1>3 DEF Fit, NoRebuild
  <1>5. FileBehind' BY <1>1, <1>2, RecordedBehind DEF Fit, FileBehind
  <1>6. JournalBehind'
    <2>1. CASE JournalCard
      <3>1. op.id \in Card /\ op.kind = "card"
        BY <2>1, OpShape DEF TypeOK, JournalCard, At
      <3>2. /\ acked'[op.id] = mem[op.id] /\ last'[op.id] = mem[op.id]
            /\ \A j \in Card : j # op.id => acked'[j] = acked[j] /\ last'[j] = last[j]
        BY <2>1, <3>1 DEF JournalCard, Recorded, TypeOK, CardMap
      <3> QED BY <3>2, <1>2 DEF Fit, JournalBehind
    <2>2. CASE JournalEdge
      <3>1. UNCHANGED <<acked, last>> BY <2>2 DEF JournalEdge, Recorded, At
      <3> QED BY <3>1, <1>2 DEF Fit, JournalBehind
    <2> QED BY <2>1, <2>2
  <1>7. Persisted' BY <1>3 DEF Persisted
  <1>8. OneFault' BY <1>2 DEF Fit, OneFault
  <1>9. ASSUME errors' = 0 PROVE Agree' /\ EdgesFit'
    <2>1. Agree /\ EdgesFit BY <1>2, <1>9 DEF Fit
    <2>2. Agree' BY <2>1, <1>1, <1>2, <1>3 DEF Agree, Pending
    <2>3. EdgesFit' BY <2>1, <1>2 DEF EdgesFit, Ends
    <2> QED BY <2>2, <2>3
  <1>10. DownIdle' BY <1>1, <1>2 DEF DownIdle
  <1> QED BY <1>4, <1>5, <1>6, <1>7, <1>8, <1>9, <1>10 DEF Fit

\* What a fault leaves on disk, whatever step it hits: snapshots that can be
\* read still hold what the journal has and nothing the map had not, the
\* journal lost nothing, and only one of the two is cut short by it.
LEMMA HalfWrittenBehind ==
  ASSUME TypeOK, Fit, up, HalfWritten
  PROVE  /\ \A k \in Card :
              /\ k \notin torn' => last'[k] \subseteq file'[k]
              /\ file'[k] \subseteq mem[k]
              /\ last'[k] \subseteq mem[k]
              /\ last[k] \subseteq last'[k]
              /\ file[k] # {} \/ k \in torn => file'[k] # {} \/ k \in torn'
         /\ torn' = torn \/ jtorn' = jtorn
         /\ efile' \subseteq efile
  <1>1. CASE UNCHANGED <<disk, journal>>
    BY <1>1 DEF disk, journal, Fit, FileBehind, JournalBehind
  <1>2. CASE /\ op.step = "persist" /\ op.kind = "card"
             /\ file' = [file EXCEPT ![op.id] = {}] /\ torn' = torn \cup {op.id}
             /\ UNCHANGED <<efile, etorn, journal>>
    <2>1. op.id \in Card BY <1>2, OpShape DEF TypeOK
    <2>2. /\ file'[op.id] = {} /\ torn' = torn \cup {op.id}
          /\ \A j \in Card : j # op.id => file'[j] = file[j]
      BY <1>2, <2>1 DEF TypeOK, CardMap
    <2>3. UNCHANGED <<last, jtorn, efile>> BY <1>2 DEF journal
    <2> QED BY <2>2, <2>3 DEF Fit, FileBehind, JournalBehind
  <1>3. CASE /\ op.step = "persist" /\ op.kind = "edge"
             /\ efile' = efile \ {op.id} /\ etorn' = etorn \cup {op.id}
             /\ UNCHANGED <<file, torn, journal>>
    BY <1>3 DEF journal, Fit, FileBehind, JournalBehind
  <1>4. CASE op.step = "journal" /\ ~stuck /\ jtorn' = TRUE /\ UNCHANGED <<disk, last, elast>>
    BY <1>4 DEF disk, Fit, FileBehind, JournalBehind
  <1>5. CASE op.step = "journal" /\ ~stuck /\ Recorded /\ UNCHANGED <<disk, jtorn>>
    <2>1. UNCHANGED <<file, torn, efile, jtorn>> BY <1>5 DEF disk
    <2> QED BY <1>5, <2>1, RecordedBehind DEF Fit, FileBehind
  <1>6. CASE op.step = "rebuild" BY <1>6 DEF Fit, NoRebuild
  <1> QED BY <1>1, <1>2, <1>3, <1>4, <1>5, <1>6 DEF HalfWritten

\* A fault is counted, so it may cut short what was whole before it.
LEMMA FaultCounted ==
  ASSUME TypeOK, OneFault, torn' = torn \/ jtorn' = jtorn,
         (errors + crashes)' = errors + crashes + 1
  PROVE  OneFault'
  <1>1. errors \in Nat /\ crashes \in Nat BY DEF TypeOK
  <1>2. jtorn \in BOOLEAN BY DEF TypeOK
  <1>3. (errors + crashes)' # 0 BY <1>1
  <1>4. ASSUME (errors + crashes)' = 1 PROVE torn' = {} \/ ~jtorn'
    <2>1. errors + crashes = 0 BY <1>1, <1>4
    <2>2. torn = {} /\ ~jtorn BY <2>1 DEF OneFault
    <2> QED BY <2>2
  <1> QED BY <1>3, <1>4 DEF OneFault

LEMMA WriteFailsFit ==
  ASSUME TypeOK, Fit, WriteFails
  PROVE  Fit'
  <1>1. up /\ HalfWritten /\ op' = NoOp /\ errors' = errors + 1
    BY DEF WriteFails
  <1>2. UNCHANGED <<mem, emem, up, crashes, acked>> BY DEF WriteFails, maps
  <1>3. NoRebuild' BY <1>1 DEF WriteFails, Fit, NoRebuild, NoOp
  <1>4. FileBehind' BY <1>1, <1>2, HalfWrittenBehind DEF FileBehind
  <1>5. JournalBehind' BY <1>1, <1>2, HalfWrittenBehind DEF Fit, JournalBehind
  <1>6. Persisted' BY <1>1 DEF Persisted, NoOp
  <1>7. OneFault'
    <2>1. (errors + crashes)' = errors + crashes + 1 BY <1>1, <1>2 DEF TypeOK
    <2> QED BY <2>1, <1>1, HalfWrittenBehind, FaultCounted DEF Fit
  <1>8. errors' # 0 BY <1>1 DEF TypeOK
  <1>9. DownIdle' BY <1>1 DEF DownIdle, NoOp
  <1> QED BY <1>3, <1>4, <1>5, <1>6, <1>7, <1>8, <1>9 DEF Fit

LEMMA CrashFit ==
  ASSUME TypeOK, Fit, Crash
  PROVE  Fit'
  <1>1. up /\ up' = FALSE /\ op' = NoOp /\ replayed' = NoReplay /\ crashes' = crashes + 1
    BY DEF Crash
  <1>2. HalfWritten BY DEF Crash, Fit, NoRebuild
  <1>3. UNCHANGED <<errors, acked>> BY DEF Crash
  <1>4. NoRebuild' BY <1>1 DEF NoRebuild, NoOp, NoReplay
  <1>5. FileBehind' BY <1>1, <1>2, HalfWrittenBehind DEF FileBehind
  <1>6. JournalBehind' BY <1>1, <1>2, <1>3, HalfWrittenBehind DEF Fit, JournalBehind
  <1>7. Persisted' BY <1>1 DEF Persisted
  <1>8. OneFault'
    <2>1. (errors + crashes)' = errors + crashes + 1 BY <1>1, <1>3 DEF TypeOK
    <2> QED BY <2>1, <1>1, <1>2, HalfWrittenBehind, FaultCounted DEF Fit
  <1>9. ASSUME errors' = 0 PROVE Agree' /\ EdgesFit'
    <2>1. EdgesFit BY <1>3, <1>9 DEF Fit
    <2>2. Agree' BY <1>1 DEF Agree
    <2>3. ASSUME NEW e \in efile', NEW j \in Ends(e) PROVE file'[j] # {} \/ j \in torn'
      <3>1. e \in efile BY <1>1, <1>2, <2>3, HalfWrittenBehind
      <3>2. j \in Card BY <3>1, <2>3 DEF TypeOK, Edge, Ends
      <3>3. file[j] # {} \/ j \in torn BY <3>1, <2>1, <2>3 DEF EdgesFit
      <3> QED BY <3>2, <3>3, <1>1, <1>2, HalfWrittenBehind
    <2> QED BY <1>1, <2>2, <2>3 DEF EdgesFit, Ends
  <1>10. DownIdle' BY <1>1 DEF DownIdle, NoOp
  <1> QED BY <1>4, <1>5, <1>6, <1>7, <1>8, <1>9, <1>10 DEF Fit

\* The files become the map: what the journal has is in them, and no edge is
\* there without its cards.
LEMMA LoadFit ==
  ASSUME TypeOK, Fit, LoadFromDisk
  PROVE  Fit'
  <1>1. ~up /\ torn = {} /\ up' = TRUE /\ mem' = file /\ emem' = efile
    BY DEF LoadFromDisk
  <1>2. UNCHANGED <<file, torn, efile, last, jtorn, op, replayed, errors, crashes, acked>>
    BY DEF LoadFromDisk, disk, journal, counts
  <1>3. op' = NoOp BY <1>1, <1>2 DEF Fit, DownIdle
  <1>4. NoRebuild' BY <1>2 DEF Fit, NoRebuild
  <1>5. FileBehind' /\ JournalBehind' BY <1>1, <1>2 DEF Fit, FileBehind, JournalBehind
  <1>6. Persisted' BY <1>3 DEF Persisted, NoOp
  <1>7. OneFault' BY <1>2 DEF Fit, OneFault
  <1>8. ASSUME errors' = 0 PROVE Agree' /\ EdgesFit'
    <2>1. EdgesFit BY <1>2, <1>8 DEF Fit
    <2>2. Agree' BY <1>1, <1>2, <1>3 DEF Agree, Pending, NoOp
    <2>3. EdgesFit' BY <2>1, <1>1, <1>2 DEF EdgesFit, Ends
    <2> QED BY <2>2, <2>3
  <1>9. DownIdle' BY <1>1 DEF DownIdle
  <1> QED BY <1>4, <1>5, <1>6, <1>7, <1>8, <1>9 DEF Fit

\* A rebuild is never forgotten.
LEMMA RebuiltStays == [Next]_vars /\ ~rebuilt' => ~rebuilt
  BY DEF Next, vars, counts, CreateCard, UpdateCard, TouchCard, DecayCard, AppendVersion,
       CreateEdge, DecayAndCompact, PersistCard, PersistEdge, JournalCard, JournalEdge,
       RebuildReplay, RebuildLock, RebuildRewrite, WriteFails, JournalRefuses, Crash,
       LoadFromDisk

LEMMA StepFit == TypeOK /\ Fit /\ ~rebuilt' /\ [Next]_vars => Fit'
  <1> SUFFICES ASSUME TypeOK, Fit, ~rebuilt', [Next]_vars PROVE Fit'
    OBVIOUS
  <1>1. ASSUME NEW k \in Card,
               CreateCard(k) \/ UpdateCard(k) \/ TouchCard(k) \/ DecayCard(k)
        PROVE  Fit'
    <2>1. PICK S : AppendVersion(k, S)
      BY <1>1 DEF CreateCard, UpdateCard, TouchCard, DecayCard
    <2>2. op.step \in {"none", "decay"}
      BY <1>1 DEF CreateCard, UpdateCard, TouchCard, DecayCard, Free, NoOp
    <2> QED BY <2>1, <2>2, AppendFit
  <1>2. ASSUME NEW e \in Edge, CreateEdge(e) PROVE Fit'
    BY <1>2, CreateEdgeFit
  <1>3. CASE DecayAndCompact
    <2>1. op'.step = "decay" /\ op.step = "none" /\ up
      BY <1>3 DEF DecayAndCompact, Free, NoOp
    <2>2. UNCHANGED <<maps, disk, journal, replayed, up, counts, acked>>
      BY <1>3 DEF DecayAndCompact
    <2> QED BY <2>1, <2>2, IdleFit
  <1>4. CASE PersistCard BY <1>4, PersistCardFit
  <1>5. CASE PersistEdge BY <1>5, PersistEdgeFit
  <1>6. CASE JournalCard \/ JournalEdge BY <1>6, JournalFit
  <1>7. CASE RebuildReplay \/ RebuildLock \/ RebuildRewrite
    BY <1>7 DEF RebuildReplay, RebuildLock, RebuildRewrite, Fit, NoRebuild
  <1>8. CASE WriteFails BY <1>8, WriteFailsFit
  <1>9. CASE JournalRefuses
    <2>1. UNCHANGED <<maps, disk, journal, replayed, up, counts, acked>>
      BY <1>9 DEF JournalRefuses
    <2> QED BY <1>9, <2>1, IdleFit DEF JournalRefuses
  <1>10. CASE Crash BY <1>10, CrashFit
  <1>11. CASE LoadFromDisk BY <1>11, LoadFit
  <1>12. CASE UNCHANGED vars
    BY <1>12 DEF vars, maps, disk, journal, counts, Fit, NoRebuild, DownIdle, FileBehind,
         JournalBehind, Persisted, OneFault, Agree, EdgesFit, Pending
  <1> QED
    BY <1>1, <1>2, <1>3, <1>4, <1>5, <1>6, <1>7, <1>8, <1>9, <1>10, <1>11, <1>12 DEF Next

LEMMA Inductive == Spec => []IInv
  <1>1. Init => IInv BY InitType, InitFit DEF IInv
  <1>2. IInv /\ [Next]_vars => IInv' BY StepType, StepFit, RebuiltStays DEF IInv
  <1> QED BY <1>1, <1>2, PTL DEF Spec

\* Journal, snapshot and map never overtake one another in that order,
\* whatever write fails and wherever the process dies.
THEOREM ReplicasOrderedHolds == Spec => []ReplicasOrdered
  <1>1. IInv => ReplicasOrdered BY DEF IInv, Fit, FileBehind, ReplicasOrdered
  <1> QED BY <1>1, Inductive, PTL

\* A version a caller was told of outlives any one fault, and its event stays
\* in the journal's text through any number of them.
THEOREM AckedDurableHolds == Spec => []AckedDurable
  <1>1. IInv => AckedDurable
    <2> SUFFICES ASSUME TypeOK, Fit, NEW k \in Card
                 PROVE  /\ acked[k] \subseteq last[k]
                        /\ errors + crashes <= 1 =>
                             (k \notin torn /\ acked[k] \subseteq file[k]) \/ ~jtorn
      BY DEF IInv, AckedDurable
    <2>1. acked[k] \subseteq last[k] BY DEF Fit, JournalBehind
    <2>2. ASSUME errors + crashes <= 1 PROVE torn = {} \/ ~jtorn
      <3>1. errors + crashes = 0 \/ errors + crashes = 1 BY <2>2 DEF TypeOK
      <3> QED BY <3>1 DEF Fit, OneFault
    <2> QED BY <2>1, <2>2 DEF Fit, FileBehind
  <1> QED BY <1>1, Inductive, PTL

\* As long as no write failed, an edge always finds both of its cards, also
\* in the maps read back after a crash.
THEOREM EdgeEndsExistHolds == Spec => []EdgeEndsExist
  <1>1. IInv => EdgeEndsExist BY DEF IInv, Fit, EdgesFit, Ends, EdgeEndsExist
  <1> QED BY <1>1, Inductive, PTL

\* Before any rebuild nothing a replica or a caller knows is forgotten by the
\* replica written before it (CreateCard, UpdateCard, persistCard, AppendVersion).
THEOREM NothingForgottenHolds == Spec => []NothingForgotten
  BY ReplicasOrderedHolds, AckedDurableHolds, PTL DEF NothingForgotten

-----------------------------------------------------------------------------
(***************************************************************************)
(* Maps and files, with rebuilds                                           *)
(***************************************************************************)

\* As long as no write failed, maps and files differ in what the call under
\* way is about to write, and, while a rebuild holds the mutex, in anything.
Match ==
  /\ DownIdle
  /\ up /\ errors = 0 =>
       /\ op.step \notin {"persist", "rebuild"} => mem = file /\ emem = efile
       /\ op.step = "persist" /\ op.kind = "card" =>
            emem = efile /\ \A k \in Card \ {op.id} : mem[k] = file[k]
       /\ op.step = "persist" /\ op.kind = "edge" =>
            mem = file /\ emem = efile \cup {op.id}

LEMMA AppendMatch ==
  ASSUME TypeOK, Match, NEW k \in Card, NEW S, AppendVersion(k, S), op.step \in {"none", "decay"}
  PROVE  Match'
  <1>1. up' = up /\ errors' = errors /\ emem' = emem /\ file' = file /\ efile' = efile /\ up
    BY DEF AppendVersion, disk
  <1>2. op'.step = "persist" /\ op'.kind = "card" /\ op'.id = k BY DEF AppendVersion
  <1>3. \A j \in Card \ {k} : mem'[j] = mem[j] BY DEF AppendVersion, TypeOK, CardMap
  <1> QED BY <1>1, <1>2, <1>3 DEF Match, DownIdle

LEMMA PersistMatch ==
  ASSUME TypeOK, Match, PersistCard \/ PersistEdge
  PROVE  Match'
  <1>1. up /\ up' /\ errors' = errors /\ mem' = mem /\ emem' = emem
    BY DEF PersistCard, PersistEdge, At, maps, counts
  <1>2. op'.step = "journal" BY OpAdvance DEF PersistCard, PersistEdge, At, TypeOK
  <1>3. CASE PersistCard
    <2>1. op.id \in Card /\ op.step = "persist" /\ op.kind = "card"
      BY <1>3, OpShape DEF PersistCard, At, TypeOK
    <2>2. file' = [file EXCEPT ![op.id] = mem[op.id]] /\ efile' = efile
      BY <1>3 DEF PersistCard
    <2>3. errors = 0 => file' = mem
      BY <1>1, <2>1, <2>2 DEF Match, TypeOK, CardMap
    <2> QED BY <1>1, <1>2, <2>1, <2>2, <2>3 DEF Match, DownIdle
  <1>4. CASE PersistEdge
    <2>1. op.step = "persist" /\ op.kind = "edge" BY <1>4 DEF PersistEdge, At
    <2>2. file' = file /\ efile' = efile \cup {op.id} BY <1>4 DEF PersistEdge
    <2> QED BY <1>1, <1>2, <2>1, <2>2 DEF Match, DownIdle
  <1> QED BY <1>3, <1>4

\* A step that leaves maps and files alone and does not come from a write.
LEMMA QuietMatch ==
  ASSUME Match, UNCHANGED <<maps, disk, up, errors>>,
         op.step \notin {"persist", "rebuild"}, op'.step \notin {"persist"}, up
  PROVE  Match'
  BY DEF Match, DownIdle, maps, disk

LEMMA StepMatch == TypeOK /\ Match /\ [Next]_vars => Match'
  <1> SUFFICES ASSUME TypeOK, Match, [Next]_vars PROVE Match'
    OBVIOUS
  <1>1. ASSUME NEW k \in Card,
               CreateCard(k) \/ UpdateCard(k) \/ TouchCard(k) \/ DecayCard(k)
        PROVE  Match'
    <2>1. PICK S : AppendVersion(k, S)
      BY <1>1 DEF CreateCard, UpdateCard, TouchCard, DecayCard
    <2>2. op.step \in {"none", "decay"}
      BY <1>1 DEF CreateCard, UpdateCard, TouchCard, DecayCard, Free, NoOp
    <2> QED BY <2>1, <2>2, AppendMatch
  <1>2. ASSUME NEW e \in Edge, CreateEdge(e) PROVE Match'
    <2>1. up /\ up' /\ op.step = "none" /\ errors' = errors
      BY <1>2 DEF CreateEdge, Free, NoOp, counts
    <2>2. emem' = emem \cup {e} /\ mem' = mem /\ UNCHANGED <<file, efile>>
      BY <1>2 DEF CreateEdge, disk
    <2>3. op'.step = "persist" /\ op'.kind = "edge" /\ op'.id = e BY <1>2 DEF CreateEdge
    <2> QED BY <2>1, <2>2, <2>3 DEF Match, DownIdle
  <1>3. CASE DecayAndCompact
    <2>1. op'.step = "decay" /\ op.step = "none" /\ up
      BY <1>3 DEF DecayAndCompact, Free, NoOp
    <2> QED BY <1>3, <2>1, QuietMatch DEF DecayAndCompact, counts
  <1>4. CASE PersistCard \/ PersistEdge BY <1>4, PersistMatch
  <1>5. CASE JournalCard \/ JournalEdge
    <2>1. op.step = "journal" /\ up /\ op'.step \in {"none", "decay"}
      BY <1>5 DEF JournalCard, JournalEdge, At, NoOp
    <2> QED BY <1>5, <2>1, QuietMatch DEF JournalCard, JournalEdge, counts
  <1>6. CASE RebuildReplay
    BY <1>6 DEF RebuildReplay, Match, DownIdle, maps, disk
  <1>7. CASE RebuildLock
    <2>1. op'.step = "rebuild" /\ up' BY <1>7 DEF RebuildLock, Free
    <2> QED BY <2>1 DEF Match, DownIdle
  <1>8. CASE RebuildRewrite
    BY <1>8 DEF RebuildRewrite, Match, DownIdle, NoOp, maps
  <1>9. CASE WriteFails
    <2>1. errors' # 0 /\ up' BY <1>9 DEF WriteFails, TypeOK
    <2> QED BY <2>1 DEF Match, DownIdle
  <1>10. CASE JournalRefuses
    <2>1. op.step = "journal" /\ up /\ op'.step = "none"
      BY <1>10 DEF JournalRefuses, NoOp
    <2> QED BY <1>10, <2>1, QuietMatch DEF JournalRefuses, counts
  <1>11. CASE Crash
    BY <1>11 DEF Crash, Match, DownIdle
  <1>12. CASE LoadFromDisk
    <2>1. op' = NoOp /\ up' /\ mem' = file' /\ emem' = efile'
      BY <1>12 DEF LoadFromDisk, Match, DownIdle, disk
    <2> QED BY <2>1 DEF Match, DownIdle, NoOp
  <1>13. CASE UNCHANGED vars
    BY <1>13 DEF vars, maps, disk, counts, Match, DownIdle
  <1> QED
    BY <1>1, <1>2, <1>3, <1>4, <1>5, <1>6, <1>7, <1>8, <1>9, <1>10, <1>11, <1>12, <1>13 DEF Next

\* Between calls maps and files agree as long as no write failed, also after
\* rebuilds, crashes during them, and a rebuild that undid newer writes
\* (RebuildProjections, loadFromDisk).
THEOREM DiskMatchesMemoryHolds == Spec => []DiskMatchesMemory
  <1>1. Init => Match BY DEF Init, Match, DownIdle, NoOp
  <1>2. Match => DiskMatchesMemory BY DEF Match, DiskMatchesMemory, Free, NoOp
  <1> QED BY <1>1, <1>2, StepMatch, TypeCorrect, PTL DEF Spec

-----------------------------------------------------------------------------
(***************************************************************************)
(* Proofs about the memory scheduler, for any number of callers, policies, *)
(* cards and faults and any cooldown.                                      *)
(*                                                                         *)
(* A caller is at "submit" only after it saw no open consolidation, so the *)
(* open ones and the callers at "submit" together stay within the number   *)
(* of callers.  The cooldown depends on what the state file says when it   *)
(* is read: as long as nothing dropped it, the file has the time of the    *)
(* last submission or a caller is about to write it (Tracked), and a       *)
(* caller that nobody overlaps reads and writes just that time (SoloOK).   *)
(***************************************************************************)


Record == [pc: Steps, min: Thresholds \cup {1}, save: Time, keeps: BOOLEAN, solo: BOOLEAN]

\* The callers that are about to submit.
Submitting == {c \in Caller : call[c].pc = "submit"}

Room == open + Cardinality(Submitting) <= Cardinality(Caller) + byHand

CInv == SchedulerTypeOK /\ Room

LEMMA Times ==
  /\ Never \in Time /\ 0 \in Time
  /\ \A t \in Time : Older(t) \in Time
  <1>1. Cooldown \in Nat \ {0} BY MemorySchedulerAssumption
  <1> QED BY <1>1 DEF Time, Age, Never, Older

LEMMA NoCallFacts ==
  /\ NoCall \in Record /\ NoCall.pc = "idle" /\ NoCall.save = Never
  /\ NoCall.keeps = TRUE /\ NoCall.solo = TRUE
  BY Times DEF NoCall, Record, Steps

\* A call record that goes on.
LEMMA GotoRecord ==
  ASSUME NEW q \in Record, NEW p \in Steps
  PROVE  /\ [q EXCEPT !.pc = p] \in Record /\ [q EXCEPT !.pc = p].pc = p
         /\ [q EXCEPT !.pc = p].solo = q.solo
  BY DEF Record

\* How a step changes the record of its caller: nothing else of call.
LEMMA GotoFacts ==
  ASSUME call \in [Caller -> Record], NEW c \in Caller, NEW p \in Steps, Goto(c, p)
  PROVE  /\ call' \in [Caller -> Record]
         /\ call'[c].pc = p /\ call'[c].solo = call[c].solo
         /\ \A d \in Caller : d # c => call'[d] = call[d]
  <1>1. PICK q : q = [call[c] EXCEPT !.pc = p] OBVIOUS
  <1>2. q \in Record /\ q.pc = p /\ q.solo = call[c].solo BY <1>1, GotoRecord
  <1>3. call' = [call EXCEPT ![c] = q] BY <1>1 DEF Goto
  <1> QED BY <1>2, <1>3

LEMMA SaveFacts ==
  ASSUME call \in [Caller -> Record], NEW c \in Caller, NEW t \in Time, NEW k \in BOOLEAN,
         SaveNext(c, t, k)
  PROVE  /\ call' \in [Caller -> Record]
         /\ call'[c].pc = "save" /\ call'[c].save = t /\ call'[c].keeps = k
         /\ call'[c].solo = call[c].solo
         /\ \A d \in Caller : d # c => call'[d] = call[d]
  <1>1. PICK q : q = [call[c] EXCEPT !.pc = "save", !.save = t, !.keeps = k] OBVIOUS
  <1>2. /\ q \in Record /\ q.pc = "save" /\ q.save = t /\ q.keeps = k
        /\ q.solo = call[c].solo
    <2>1. call[c] \in Record OBVIOUS
    <2> QED BY <1>1, <2>1 DEF Record, Steps
  <1>3. call' = [call EXCEPT ![c] = q] BY <1>1 DEF SaveNext
  <1> QED BY <1>2, <1>3

LEMMA EndFacts ==
  ASSUME call \in [Caller -> Record], NEW c \in Caller, call' = [call EXCEPT ![c] = NoCall]
  PROVE  /\ call' \in [Caller -> Record] /\ call'[c] = NoCall
         /\ \A d \in Caller : d # c => call'[d] = call[d]
  BY NoCallFacts

\* Evaluate changes nothing but marks of the other calls.
LEMMA EvaluateFacts ==
  ASSUME call \in [Caller -> Record], NEW c \in Caller, NEW m \in Thresholds, Evaluate(c, m)
  PROVE  /\ call' \in [Caller -> Record]
         /\ call[c].pc = "idle" /\ call'[c].pc = "count"
         /\ call'[c].solo = (\A e \in Caller : AtStep(e, "idle"))
         /\ \A d \in Caller : d # c =>
              /\ call'[d].pc = call[d].pc /\ call'[d].save = call[d].save
              /\ call'[d].keeps = call[d].keeps
              /\ call'[d].solo = (call[d].solo /\ AtStep(d, "idle"))
  <1>1. PICK b \in BOOLEAN : b = (\A e \in Caller : AtStep(e, "idle")) BY Zenon
  <1>2. PICK q : q = [NoCall EXCEPT !.pc = "count", !.min = m, !.solo = b] OBVIOUS
  <1>3. q \in Record /\ q.pc = "count" /\ q.solo = b
    BY <1>2, NoCallFacts DEF Record, Steps
  <1>4. ASSUME NEW d \in Caller
        PROVE  /\ [call[d] EXCEPT !.solo = call[d].solo /\ AtStep(d, "idle")] \in Record
               /\ [call[d] EXCEPT !.solo = call[d].solo /\ AtStep(d, "idle")].pc = call[d].pc
               /\ [call[d] EXCEPT !.solo = call[d].solo /\ AtStep(d, "idle")].save = call[d].save
               /\ [call[d] EXCEPT !.solo = call[d].solo /\ AtStep(d, "idle")].keeps = call[d].keeps
               /\ [call[d] EXCEPT !.solo = call[d].solo /\ AtStep(d, "idle")].solo
                    = (call[d].solo /\ AtStep(d, "idle"))
    <2>1. PICK s \in BOOLEAN : s = (call[d].solo /\ AtStep(d, "idle")) BY Zenon
    <2> QED BY <2>1 DEF Record
  <1>5. call' = [d \in Caller |->
          IF d = c THEN q ELSE [call[d] EXCEPT !.solo = call[d].solo /\ AtStep(d, "idle")]]
    BY <1>1, <1>2 DEF Evaluate
  <1>6. call[c].pc = "idle" BY DEF Evaluate, AtStep
  <1> QED BY <1>1, <1>3, <1>4, <1>5, <1>6

LEMMA TickFacts ==
  ASSUME call \in [Caller -> Record], Tick
  PROVE  /\ call' \in [Caller -> Record]
         /\ \A c \in Caller :
              /\ call'[c].pc = call[c].pc /\ call'[c].save = Older(call[c].save)
              /\ call'[c].keeps = call[c].keeps /\ call'[c].solo = call[c].solo
  <1>1. ASSUME NEW c \in Caller
        PROVE  /\ [call[c] EXCEPT !.save = Older(call[c].save)] \in Record
               /\ [call[c] EXCEPT !.save = Older(call[c].save)].pc = call[c].pc
               /\ [call[c] EXCEPT !.save = Older(call[c].save)].save = Older(call[c].save)
               /\ [call[c] EXCEPT !.save = Older(call[c].save)].keeps = call[c].keeps
               /\ [call[c] EXCEPT !.save = Older(call[c].save)].solo = call[c].solo
    <2>1. PICK t \in Time : t = Older(call[c].save) BY Times DEF Record
    <2> QED BY <2>1 DEF Record
  <1>2. call' = [c \in Caller |-> [call[c] EXCEPT !.save = Older(call[c].save)]]
    BY DEF Tick
  <1> QED BY <1>1, <1>2

-----------------------------------------------------------------------------
(***************************************************************************)
(* Counts                                                                  *)
(***************************************************************************)

LEMMA CallType ==
  ASSUME SchedulerTypeOK
  PROVE  /\ call \in [Caller -> Record]
         /\ \A c \in Caller : call[c] \in Record /\ call[c].save \in Time
                              /\ call[c].keeps \in BOOLEAN /\ call[c].solo \in BOOLEAN
  <1>1. call \in [Caller -> Record] BY DEF SchedulerTypeOK, Record
  <1> QED BY <1>1 DEF Record

\* The types, once the calls have theirs.
LEMMA TypeFrom ==
  ASSUME call' \in [Caller -> Record],
         cards' \in 0..MaxCards, open' \in Nat, byHand' \in 0..MaxByHand,
         busy' \in BOOLEAN, forgotten' \in BOOLEAN, faults' \in 0..MaxFaults,
         lastTriggered' \in Time, since' \in Time
  PROVE  SchedulerTypeOK'
  BY DEF SchedulerTypeOK, Record

LEMMA WorldSame ==
  ASSUME SchedulerTypeOK, UNCHANGED <<world, lastTriggered, ledgers>>, call' \in [Caller -> Record]
  PROVE  SchedulerTypeOK'
  <1>1. UNCHANGED <<cards, busy, open, byHand, faults, lastTriggered, since, forgotten>>
    BY DEF world, ledgers
  <1> QED BY <1>1, TypeFrom DEF SchedulerTypeOK

LEMMA FaultType ==
  ASSUME SchedulerTypeOK, Fault
  PROVE  faults' \in 0..MaxFaults
  BY MemorySchedulerAssumption DEF SchedulerTypeOK, Fault

\* A step of c that reads and goes on, and is not the one to "submit".
LEMMA ReadStep ==
  ASSUME SchedulerTypeOK, NEW c \in Caller,
         CountCandidates(c) \/ QueryAgain(c) \/ LoadState(c) \/ LoadRuntime(c) \/ ListTasks(c)
  PROVE  /\ UNCHANGED <<world, lastTriggered, ledgers>> /\ call' \in [Caller -> Record]
         /\ call[c].pc \in {"count", "query", "load", "runtime", "list"}
         /\ call'[c].pc # "idle" /\ call'[c].solo = call[c].solo
         /\ call'[c].pc = "submit" => ListTasks(c) /\ open = 0 /\ call[c].pc = "list"
         /\ \A d \in Caller : d # c => call'[d] = call[d]
  <1>0. call \in [Caller -> Record] BY CallType
  <1>1. UNCHANGED <<world, lastTriggered, ledgers>>
    BY DEF CountCandidates, QueryAgain, LoadState, LoadRuntime, ListTasks
  <1>2. call[c].pc \in {"count", "query", "load", "runtime", "list"}
    BY DEF CountCandidates, QueryAgain, LoadState, LoadRuntime, ListTasks, AtStep
  <1>3. \/ \E t \in Time, k \in BOOLEAN : SaveNext(c, t, k)
        \/ \E p \in {"query", "load", "runtime", "list"} : Goto(c, p)
        \/ ListTasks(c) /\ open = 0 /\ call[c].pc = "list" /\ Goto(c, "submit")
    <2>1. \A t \in Loadable(c) : t \in Time BY Times DEF SchedulerTypeOK, Loadable
    <2>2. CASE CountCandidates(c) BY <2>2, Times DEF CountCandidates
    <2>3. CASE QueryAgain(c) BY <2>3, Times DEF QueryAgain
    <2>4. CASE LoadState(c) BY <2>1, <2>4 DEF LoadState
    <2>5. CASE LoadRuntime(c) BY <2>5, Times DEF LoadRuntime
    <2>6. CASE ListTasks(c)
      <3>1. open \in Nat BY DEF SchedulerTypeOK
      <3>2. CASE open > 0
        <4>1. SaveNext(c, Never, FALSE) BY <2>6, <3>2 DEF ListTasks
        <4> QED BY <4>1, Times
      <3>3. CASE ~(open > 0)
        <4>1. Goto(c, "submit") /\ call[c].pc = "list" BY <2>6, <3>3 DEF ListTasks, AtStep
        <4> QED BY <2>6, <3>1, <3>3, <4>1
      <3> QED BY <3>2, <3>3
    <2> QED BY <2>2, <2>3, <2>4, <2>5, <2>6
  <1>4. ASSUME NEW t \in Time, NEW k \in BOOLEAN, SaveNext(c, t, k)
        PROVE  /\ call' \in [Caller -> Record] /\ call'[c].pc = "save"
               /\ call'[c].solo = call[c].solo
               /\ \A d \in Caller : d # c => call'[d] = call[d]
    BY <1>0, <1>4, SaveFacts
  <1>5. ASSUME NEW p \in Steps, Goto(c, p)
        PROVE  /\ call' \in [Caller -> Record] /\ call'[c].pc = p
               /\ call'[c].solo = call[c].solo
               /\ \A d \in Caller : d # c => call'[d] = call[d]
    BY <1>0, <1>5, GotoFacts
  <1> QED BY <1>1, <1>2, <1>3, <1>4, <1>5 DEF Steps

LEMMA TypeStep == SchedulerTypeOK /\ [SchedulerNext]_schedulerVars => SchedulerTypeOK'
  <1> SUFFICES ASSUME SchedulerTypeOK, [SchedulerNext]_schedulerVars PROVE SchedulerTypeOK'
    OBVIOUS
  <1>0. call \in [Caller -> Record] BY CallType
  <1>1. ASSUME NEW c \in Caller,
               CountCandidates(c) \/ QueryAgain(c) \/ LoadState(c) \/ LoadRuntime(c) \/ ListTasks(c)
        PROVE  SchedulerTypeOK'
    BY <1>1, ReadStep, WorldSame
  <1>2. ASSUME NEW c \in Caller, SubmitTask(c) PROVE SchedulerTypeOK'
    <2>1. call' \in [Caller -> Record] BY <1>0, <1>2, SaveFacts, Times DEF SubmitTask
    <2>2. open' \in Nat BY <1>2 DEF SubmitTask, Submitted, SchedulerTypeOK
    <2>3. since' \in Time BY <1>2, Times DEF SubmitTask, Submitted
    <2>4. forgotten' \in BOOLEAN BY <1>2, Zenon DEF SubmitTask, Submitted
    <2> QED BY <1>2, <2>1, <2>2, <2>3, <2>4, TypeFrom DEF SubmitTask, SchedulerTypeOK
  <1>3. ASSUME NEW c \in Caller, SaveState(c) PROVE SchedulerTypeOK'
    <2>1. call' \in [Caller -> Record] BY <1>0, <1>3, EndFacts DEF SaveState
    <2>2. lastTriggered' \in Time BY <1>3, CallType DEF SaveState
    <2>3. forgotten' \in BOOLEAN BY <1>3, Zenon DEF SaveState
    <2> QED BY <1>3, <2>1, <2>2, <2>3, TypeFrom DEF SaveState, SchedulerTypeOK, world
  <1>4. ASSUME NEW c \in Caller, EvaluateFails(c) PROVE SchedulerTypeOK'
    <2>1. call' \in [Caller -> Record] BY <1>0, <1>4, EndFacts DEF EvaluateFails
    <2>2. open' \in Nat /\ since' \in Time BY <1>4, Times DEF EvaluateFails, SchedulerTypeOK
    <2>3. forgotten' = forgotten \/ forgotten' = TRUE BY <1>4 DEF EvaluateFails
    <2>4. forgotten' \in BOOLEAN BY <2>3, Zenon DEF SchedulerTypeOK
    <2> QED BY <1>4, <2>1, <2>2, <2>4, TypeFrom, FaultType DEF EvaluateFails, SchedulerTypeOK
  <1>5. ASSUME NEW c \in Caller, SaveFails(c) PROVE SchedulerTypeOK'
    <2>1. call' \in [Caller -> Record] BY <1>0, <1>5, EndFacts DEF SaveFails
    <2>2. lastTriggered' \in Time BY <1>5, Times DEF SaveFails, SchedulerTypeOK
    <2>3. forgotten' \in BOOLEAN BY <1>5, Zenon DEF SaveFails
    <2> QED BY <1>5, <2>1, <2>2, <2>3, TypeFrom, FaultType DEF SaveFails, SchedulerTypeOK
  <1>6. ASSUME NEW c \in Caller, NEW m \in Thresholds, Evaluate(c, m) PROVE SchedulerTypeOK'
    BY <1>0, <1>6, EvaluateFacts, WorldSame DEF Evaluate
  <1>7. CASE SchedulerCrash
    <2>1. call' \in [Caller -> Record] BY <1>7, NoCallFacts DEF SchedulerCrash
    <2>2. lastTriggered' \in Time BY <1>7, Times DEF SchedulerCrash, SchedulerTypeOK
    <2>3. forgotten' \in BOOLEAN BY <1>7, Zenon DEF SchedulerCrash
    <2> QED BY <1>7, <2>1, <2>2, <2>3, TypeFrom, FaultType DEF SchedulerCrash, SchedulerTypeOK
  <1>8. CASE CreateCandidate
    BY <1>0, <1>8, TypeFrom, MemorySchedulerAssumption DEF CreateCandidate, SchedulerTypeOK, ledgers
  <1>9. CASE Consolidate \/ DenyConsolidation
    <2>1. open' \in Nat /\ cards' \in 0..MaxCards
      BY <1>9, MemorySchedulerAssumption DEF Consolidate, DenyConsolidation, SchedulerTypeOK
    <2> QED BY <1>0, <1>9, <2>1, TypeFrom DEF Consolidate, DenyConsolidation, SchedulerTypeOK, ledgers
  <1>10. CASE OpenByHand
    <2>1. open' \in Nat /\ byHand' \in 0..MaxByHand
      BY <1>10, MemorySchedulerAssumption DEF OpenByHand, SchedulerTypeOK
    <2> QED BY <1>0, <1>10, <2>1, TypeFrom DEF OpenByHand, SchedulerTypeOK, ledgers
  <1>11. CASE RuntimeChanges
    BY <1>0, <1>11, TypeFrom DEF RuntimeChanges, SchedulerTypeOK, ledgers
  <1>12. CASE Tick
    <2>1. lastTriggered' \in Time /\ since' \in Time BY <1>12, Times DEF Tick, SchedulerTypeOK
    <2> QED BY <1>0, <1>12, <2>1, TickFacts, TypeFrom DEF Tick, SchedulerTypeOK, world
  <1>13. CASE UNCHANGED schedulerVars
    <2>1. UNCHANGED <<world, lastTriggered, ledgers>> /\ call' = call BY <1>13 DEF schedulerVars
    <2> QED BY <1>0, <2>1, WorldSame
  <1> QED BY <1>1, <1>2, <1>3, <1>4, <1>5, <1>6, <1>7, <1>8, <1>9, <1>10, <1>11, <1>12, <1>13
       DEF SchedulerNext, Step

LEMMA SubmittingFinite ==
  /\ IsFiniteSet(Submitting) /\ Cardinality(Submitting) \in Nat
  /\ Cardinality(Caller) \in Nat /\ Cardinality(Submitting) <= Cardinality(Caller)
  <1>1. IsFiniteSet(Caller) /\ Submitting \subseteq Caller
    BY MemorySchedulerAssumption DEF Submitting
  <1> QED BY <1>1, FS_Subset, FS_CardinalityType

\* No caller begins to submit: the room left is at least what it was.
LEMMA RoomKept ==
  ASSUME SchedulerTypeOK, Room, SchedulerTypeOK', Submitting' \subseteq Submitting,
         open' + byHand <= open + byHand'
  PROVE  Room'
  <1>1. PICK S : S = Submitting' OBVIOUS
  <1>2. IsFiniteSet(S) /\ Cardinality(S) <= Cardinality(Submitting) /\ Cardinality(S) \in Nat
    BY <1>1, SubmittingFinite, FS_Subset, FS_CardinalityType
  <1>3. /\ open \in Nat /\ open' \in Nat /\ byHand \in Nat /\ byHand' \in Nat
    BY DEF SchedulerTypeOK
  <1>4. open' + Cardinality(S) <= Cardinality(Caller) + byHand'
    <2>1. PICK m \in Nat, n \in Nat, k \in Nat :
            m = Cardinality(S) /\ n = Cardinality(Submitting) /\ k = Cardinality(Caller)
      BY <1>2, SubmittingFinite
    <2>2. open + n <= k + byHand /\ m <= n BY <1>2, <2>1 DEF Room
    <2>3. open' + m <= k + byHand'
      <3>1. PICK o \in Nat, p \in Nat, b \in Nat, e \in Nat :
              o = open /\ p = open' /\ b = byHand /\ e = byHand'
        BY <1>3
      <3>2. p + b <= o + e /\ o + n <= k + b /\ m <= n BY <2>2, <3>1
      <3>3. p + m <= k + e BY <3>2
      <3> QED BY <3>1, <3>3
    <2> QED BY <2>1, <2>3
  <1> QED BY <1>1, <1>4 DEF Room

\* A caller at "submit" leaves, with a task or without.
LEMMA RoomUsed ==
  ASSUME SchedulerTypeOK, Room, NEW c \in Submitting, Submitting' = Submitting \ {c},
         open' \in {open, open + 1}, byHand' = byHand
  PROVE  Room'
  <1>1. PICK S : S = Submitting' OBVIOUS
  <1>2. Cardinality(S) = Cardinality(Submitting) - 1
    BY <1>1, SubmittingFinite, FS_RemoveElement
  <1>3. open' + Cardinality(S) <= Cardinality(Caller) + byHand'
    BY <1>2, SubmittingFinite DEF Room, SchedulerTypeOK
  <1> QED BY <1>1, <1>3 DEF Room

LEMMA RoomStep == SchedulerTypeOK /\ Room /\ [SchedulerNext]_schedulerVars => Room'
  <1> SUFFICES ASSUME SchedulerTypeOK, Room, [SchedulerNext]_schedulerVars PROVE Room'
    OBVIOUS
  <1>0. call \in [Caller -> Record] /\ SchedulerTypeOK' BY CallType, TypeStep
  <1>1. ASSUME NEW c \in Caller,
               CountCandidates(c) \/ QueryAgain(c) \/ LoadState(c) \/ LoadRuntime(c) \/ ListTasks(c)
        PROVE  Room'
    <2>1. UNCHANGED <<open, byHand>> BY <1>1, ReadStep DEF world
    <2>2. CASE call'[c].pc = "submit"
      <3>1. open = 0 BY <1>1, <2>2, ReadStep
      <3>2. PICK S : S = Submitting' OBVIOUS
      <3>3. S \subseteq Caller BY <3>2 DEF Submitting
      <3>4. Cardinality(S) \in Nat /\ Cardinality(S) <= Cardinality(Caller) /\ Cardinality(Caller) \in Nat
        BY <3>3, MemorySchedulerAssumption, FS_Subset, FS_CardinalityType
      <3> QED BY <2>1, <3>1, <3>2, <3>4 DEF Room, SchedulerTypeOK
    <2>3. CASE call'[c].pc # "submit"
      <3>1. Submitting' \subseteq Submitting BY <1>1, <2>3, ReadStep DEF Submitting
      <3> QED BY <1>0, <2>1, <3>1, RoomKept DEF SchedulerTypeOK
    <2> QED BY <2>2, <2>3
  <1>2. ASSUME NEW c \in Caller, call[c].pc = "submit", call'[c].pc # "submit",
               \A d \in Caller : d # c => call'[d] = call[d],
               open' \in {open, open + 1}, byHand' = byHand
        PROVE  Room'
    <2>1. c \in Submitting /\ Submitting' = Submitting \ {c} BY <1>2 DEF Submitting
    <2> QED BY <1>2, <2>1, RoomUsed
  <1>3. ASSUME NEW c \in Caller, SubmitTask(c) PROVE Room'
    <2>1. call'[c].pc = "save" /\ \A d \in Caller : d # c => call'[d] = call[d]
      BY <1>0, <1>3, SaveFacts, Times DEF SubmitTask
    <2> QED BY <1>2, <1>3, <2>1 DEF SubmitTask, Submitted, AtStep
  <1>4. ASSUME NEW c \in Caller, call' = [call EXCEPT ![c] = NoCall],
               UNCHANGED <<open, byHand>>
        PROVE  Room'
    <2>1. Submitting' \subseteq Submitting BY <1>0, <1>4, EndFacts, NoCallFacts DEF Submitting
    <2> QED BY <1>0, <1>4, <2>1, RoomKept DEF SchedulerTypeOK
  <1>5. ASSUME NEW c \in Caller, EvaluateFails(c) PROVE Room'
    <2>1. CASE UNCHANGED open BY <1>4, <1>5, <2>1 DEF EvaluateFails
    <2>2. CASE AtStep(c, "submit") /\ open' = open + 1
      BY <1>0, <1>2, <1>5, <2>2, EndFacts, NoCallFacts DEF EvaluateFails, AtStep
    <2> QED BY <1>5, <2>1, <2>2 DEF EvaluateFails
  <1>6. ASSUME NEW c \in Caller, SaveState(c) \/ SaveFails(c) PROVE Room'
    BY <1>4, <1>6 DEF SaveState, SaveFails, world
  <1>7. ASSUME UNCHANGED <<open, byHand>>, Submitting' \subseteq Submitting PROVE Room'
    BY <1>0, <1>7, RoomKept DEF SchedulerTypeOK
  <1>8. ASSUME NEW c \in Caller, NEW m \in Thresholds, Evaluate(c, m) PROVE Room'
    <2>1. Submitting' \subseteq Submitting BY <1>0, <1>8, EvaluateFacts DEF Submitting
    <2> QED BY <1>7, <1>8, <2>1 DEF Evaluate, world
  <1>9. CASE SchedulerCrash
    <2>1. Submitting' = {} BY <1>9, NoCallFacts DEF SchedulerCrash, Submitting
    <2> QED BY <1>7, <1>9, <2>1 DEF SchedulerCrash
  <1>10. CASE CreateCandidate \/ RuntimeChanges
    BY <1>7, <1>10 DEF CreateCandidate, RuntimeChanges, Submitting
  <1>11. CASE Tick
    <2>1. Submitting' \subseteq Submitting BY <1>0, <1>11, TickFacts DEF Submitting
    <2> QED BY <1>7, <1>11, <2>1 DEF Tick, world
  <1>12. CASE Consolidate \/ DenyConsolidation \/ OpenByHand
    <2>1. Submitting' \subseteq Submitting
      BY <1>12 DEF Consolidate, DenyConsolidation, OpenByHand, Submitting
    <2>2. open' + byHand <= open + byHand'
      BY <1>12 DEF Consolidate, DenyConsolidation, OpenByHand, SchedulerTypeOK
    <2> QED BY <1>0, <2>1, <2>2, RoomKept
  <1>13. CASE UNCHANGED schedulerVars BY <1>7, <1>13 DEF schedulerVars, world, Submitting
  <1> QED BY <1>1, <1>3, <1>5, <1>6, <1>8, <1>9, <1>10, <1>11, <1>12, <1>13 DEF SchedulerNext, Step

LEMMA InitCounts == SchedulerInit => CInv
  <1> SUFFICES ASSUME SchedulerInit PROVE CInv
    OBVIOUS
  <1>1. SchedulerTypeOK
    <2>1. call \in [Caller -> Record] BY NoCallFacts DEF SchedulerInit
    <2>2. 0 \in 0..MaxCards /\ 0 \in 0..MaxByHand /\ 0 \in 0..MaxFaults
      BY MemorySchedulerAssumption
    <2> QED BY <2>1, <2>2, Times DEF SchedulerInit, SchedulerTypeOK, Record
  <1>2. Submitting = {} BY NoCallFacts DEF SchedulerInit, Submitting
  <1>3. Room
    <2>1. Cardinality(Submitting) = 0 BY <1>2, FS_EmptySet
    <2> QED BY <2>1, SubmittingFinite DEF SchedulerInit, Room
  <1> QED BY <1>1, <1>3 DEF CInv

LEMMA Counts == SchedulerSpec => []CInv
  BY InitCounts, TypeStep, RoomStep, PTL DEF SchedulerSpec, CInv

\* However many skills finish at once, EvaluateAndSchedule opens no more
\* consolidations than there are callers, and every count has its type: for
\* any number of callers, policies and faults.
THEOREM CountsBoundedHolds == SchedulerSpec => []CountsBounded
  <1>1. CInv => CountsBounded
    <2> SUFFICES ASSUME CInv PROVE OpenBounded
      BY DEF CInv, CountsBounded
    <2> QED BY SubmittingFinite DEF CInv, SchedulerTypeOK, Room, OpenBounded
  <1> QED BY <1>1, Counts, PTL

-----------------------------------------------------------------------------
(***************************************************************************)
(* The cooldown                                                            *)
(***************************************************************************)

\* A call that nothing overlaps is the only one.
SoloAlone ==
  \A c, d \in Caller :
    call[c].solo /\ call[c].pc # "idle" /\ d # c => call[d].pc = "idle"

\* Unless it was dropped, the time of the last submission is in the state
\* file or a call is about to save.
Tracked == forgotten \/ lastTriggered = since \/ \E c \in Caller : call[c].pc = "save"

\* What a call that nothing overlaps knows: it saves the time it means to
\* keep, and has seen the cooldown pass.
SoloOK ==
  \A c \in Caller : call[c].solo /\ ~forgotten =>
    /\ call[c].pc = "save" /\ call[c].keeps => call[c].save = since
    /\ call[c].pc \in {"runtime", "list", "submit"} => since \in {Never, Cooldown}

KInv == SoloAlone /\ Tracked /\ SoloOK

\* A step of c that goes on.
LEMMA ReadKeeps ==
  ASSUME SchedulerTypeOK, KInv, NEW c \in Caller,
         CountCandidates(c) \/ QueryAgain(c) \/ LoadState(c) \/ LoadRuntime(c) \/ ListTasks(c)
  PROVE  KInv'
  <1>0. /\ call \in [Caller -> Record] /\ UNCHANGED <<lastTriggered, since, forgotten>>
        /\ call[c].pc \in {"count", "query", "load", "runtime", "list"}
        /\ call'[c].pc # "idle" /\ call'[c].solo = call[c].solo
        /\ \A d \in Caller : d # c => call'[d] = call[d]
    BY CallType, ReadStep DEF ledgers
  <1>1. SoloAlone' BY <1>0 DEF KInv, SoloAlone
  <1>2. Tracked' BY <1>0 DEF KInv, Tracked
  <1>3. ASSUME call[c].solo, ~forgotten
        PROVE  /\ call'[c].pc = "save" /\ call'[c].keeps => call'[c].save = since
               /\ call'[c].pc \in {"runtime", "list", "submit"} => since \in {Never, Cooldown}
    <2>1. CASE CountCandidates(c)
      <3>1. SaveNext(c, Never, FALSE) \/ Goto(c, "query") BY <2>1 DEF CountCandidates
      <3>2. \/ call'[c].pc = "save" /\ call'[c].keeps = FALSE
            \/ call'[c].pc = "query"
        BY <1>0, <3>1, SaveFacts, GotoFacts, Times DEF Steps
      <3> QED BY <3>2
    <2>2. CASE QueryAgain(c)
      <3>1. SaveNext(c, Never, FALSE) \/ Goto(c, "load") BY <2>2 DEF QueryAgain
      <3>2. \/ call'[c].pc = "save" /\ call'[c].keeps = FALSE
            \/ call'[c].pc = "load"
        BY <1>0, <3>1, SaveFacts, GotoFacts, Times DEF Steps
      <3> QED BY <3>2
    <2>3. CASE LoadState(c)
      <3>1. call[c].pc = "load" BY <2>3 DEF LoadState, AtStep
      <3>2. \A d \in Caller : d # c => call[d].pc = "idle"
        BY <1>3, <3>1 DEF KInv, SoloAlone
      <3>3. lastTriggered = since BY <1>3, <3>1, <3>2 DEF KInv, Tracked
      <3>4. Loadable(c) = {lastTriggered} BY <3>2 DEF Loadable, AtStep
      <3>5. \/ SaveNext(c, lastTriggered, TRUE)
            \/ (lastTriggered = Never \/ ~(lastTriggered < Cooldown)) /\ Goto(c, "runtime")
        BY <2>3, <3>4 DEF LoadState
      <3>6. lastTriggered \in Time BY DEF SchedulerTypeOK
      <3>7. CASE SaveNext(c, lastTriggered, TRUE)
        <4>1. call'[c].pc = "save" /\ call'[c].save = lastTriggered
          BY <1>0, <3>6, <3>7, SaveFacts
        <4> QED BY <4>1, <3>3
      <3>8. CASE (lastTriggered = Never \/ ~(lastTriggered < Cooldown)) /\ Goto(c, "runtime")
        <4>1. call'[c].pc = "runtime" BY <1>0, <3>8, GotoFacts DEF Steps
        <4>2. lastTriggered \in {Never, Cooldown}
          BY <3>6, <3>8, MemorySchedulerAssumption DEF Time, Age, Never
        <4> QED BY <4>1, <4>2, <3>3
      <3> QED BY <3>5, <3>7, <3>8
    <2>4. CASE LoadRuntime(c) \/ ListTasks(c)
      <3>1. since \in {Never, Cooldown}
        BY <1>3, <2>4 DEF LoadRuntime, ListTasks, AtStep, KInv, SoloOK
      <3>2. SaveNext(c, Never, FALSE) \/ Goto(c, "list") \/ Goto(c, "submit")
        BY <2>4 DEF LoadRuntime, ListTasks
      <3>3. \/ call'[c].pc = "save" /\ call'[c].keeps = FALSE
            \/ call'[c].pc \in {"list", "submit"}
        BY <1>0, <3>2, SaveFacts, GotoFacts, Times DEF Steps
      <3> QED BY <3>1, <3>3
    <2> QED BY <2>1, <2>2, <2>3, <2>4
  <1>4. SoloOK' BY <1>0, <1>3 DEF KInv, SoloOK
  <1> QED BY <1>1, <1>2, <1>4 DEF KInv

LEMMA SubmitKeeps ==
  ASSUME SchedulerTypeOK, KInv, NEW c \in Caller, SubmitTask(c)
  PROVE  KInv'
  <1>0. /\ call[c].pc = "submit" /\ since' = 0 /\ forgotten' = FALSE
        /\ SaveNext(c, 0, TRUE)
    BY DEF SubmitTask, Submitted, AtStep
  <1>1. /\ call'[c].pc = "save" /\ call'[c].save = 0 /\ call'[c].solo = call[c].solo
        /\ \A d \in Caller : d # c => call'[d] = call[d]
    BY <1>0, CallType, SaveFacts, Times
  <1>2. SoloAlone' BY <1>0, <1>1 DEF KInv, SoloAlone
  <1>3. Tracked' BY <1>1 DEF Tracked
  <1>4. ASSUME NEW d \in Caller, d # c, call[d].solo PROVE call[d].pc = "idle"
    BY <1>0, <1>4 DEF KInv, SoloAlone
  <1>5. SoloOK' BY <1>0, <1>1, <1>4 DEF SoloOK
  <1> QED BY <1>2, <1>3, <1>5 DEF KInv

\* A call ends; the time it leaves in the file is that of the last submission,
\* or that is dropped.
LEMMA EndKeeps ==
  ASSUME SchedulerTypeOK, KInv, NEW c \in Caller, call' = [call EXCEPT ![c] = NoCall],
         forgotten' \/ (UNCHANGED <<since, forgotten>> /\ ~forgotten),
         ~forgotten' => lastTriggered' = since \/ (lastTriggered' = lastTriggered /\ call[c].pc # "save")
  PROVE  KInv'
  <1>1. call'[c] = NoCall /\ \A d \in Caller : d # c => call'[d] = call[d]
    BY CallType, EndFacts
  <1>2. SoloAlone' BY <1>1, NoCallFacts DEF KInv, SoloAlone
  <1>3. Tracked' BY <1>1 DEF KInv, Tracked
  <1>4. SoloOK' BY <1>1, NoCallFacts DEF KInv, SoloOK
  <1> QED BY <1>2, <1>3, <1>4 DEF KInv

LEMMA SaveKeeps ==
  ASSUME SchedulerTypeOK, KInv, NEW c \in Caller, SaveState(c)
  PROVE  KInv'
  <1>1. /\ call[c].pc = "save" /\ lastTriggered' = call[c].save /\ since' = since
        /\ forgotten' = (forgotten \/ ~call[c].keeps \/ ~call[c].solo)
        /\ call' = [call EXCEPT ![c] = NoCall]
    BY DEF SaveState, AtStep
  <1>2. forgotten \in BOOLEAN /\ call[c].keeps \in BOOLEAN /\ call[c].solo \in BOOLEAN
    BY CallType DEF SchedulerTypeOK
  <1>3. CASE forgotten' BY <1>1, <1>3, EndKeeps
  <1>4. CASE ~forgotten'
    <2>1. ~forgotten /\ call[c].keeps /\ call[c].solo BY <1>1, <1>4, Zenon
    <2>2. lastTriggered' = since BY <1>1, <2>1 DEF KInv, SoloOK
    <2>3. forgotten' = forgotten BY <1>1, <1>2, <1>4, <2>1
    <2> QED BY <1>1, <2>1, <2>2, <2>3, EndKeeps
  <1> QED BY <1>3, <1>4

LEMMA FailKeeps ==
  ASSUME SchedulerTypeOK, KInv, NEW c \in Caller, EvaluateFails(c) \/ SaveFails(c)
  PROVE  KInv'
  <1>0. forgotten \in BOOLEAN BY DEF SchedulerTypeOK
  <1>1. call' = [call EXCEPT ![c] = NoCall] BY DEF EvaluateFails, SaveFails
  <1>2. CASE SaveFails(c)
    <2>1. since' = since /\ forgotten' = (forgotten \/ lastTriggered' # since)
      BY <1>2 DEF SaveFails
    <2>2. CASE forgotten' BY <1>1, <2>2, EndKeeps
    <2>3. CASE ~forgotten'
      <3>1. ~forgotten /\ lastTriggered' = since BY <2>1, <2>3, Zenon
      <3>2. forgotten' = forgotten BY <2>1, <3>1, <1>0
      <3> QED BY <1>1, <2>1, <3>1, <3>2, EndKeeps
    <2> QED BY <2>2, <2>3
  <1>3. CASE EvaluateFails(c)
    <2>1. lastTriggered' = lastTriggered /\ call[c].pc # "save" BY <1>3 DEF EvaluateFails
    <2>2. \/ UNCHANGED <<since, forgotten>>
          \/ forgotten' = TRUE
      BY <1>3 DEF EvaluateFails
    <2> QED BY <1>0, <1>1, <2>1, <2>2, EndKeeps
  <1> QED BY <1>2, <1>3

LEMMA EvaluateKeeps ==
  ASSUME SchedulerTypeOK, KInv, NEW c \in Caller, NEW m \in Thresholds, Evaluate(c, m)
  PROVE  KInv'
  <1>0. UNCHANGED <<lastTriggered, since, forgotten>> BY DEF Evaluate, ledgers
  <1>1. /\ call[c].pc = "idle" /\ call'[c].pc = "count"
        /\ call'[c].solo = (\A e \in Caller : AtStep(e, "idle"))
        /\ \A d \in Caller : d # c =>
             /\ call'[d].pc = call[d].pc /\ call'[d].save = call[d].save
             /\ call'[d].keeps = call[d].keeps
             /\ call'[d].solo = (call[d].solo /\ AtStep(d, "idle"))
    BY CallType, EvaluateFacts
  <1>2. ASSUME NEW d \in Caller, d # c, call'[d].solo PROVE call'[d].pc = "idle"
    BY <1>1, <1>2 DEF AtStep
  <1>3. call'[c].solo => \A e \in Caller : e # c => call'[e].pc = "idle"
    BY <1>1 DEF AtStep
  <1>4. SoloAlone' BY <1>2, <1>3 DEF SoloAlone
  <1>5. Tracked' BY <1>0, <1>1 DEF KInv, Tracked
  <1>6. SoloOK' BY <1>1, <1>2 DEF SoloOK
  <1> QED BY <1>4, <1>5, <1>6 DEF KInv

LEMMA TickKeeps ==
  ASSUME SchedulerTypeOK, KInv, Tick
  PROVE  KInv'
  <1>0. lastTriggered' = Older(lastTriggered) /\ since' = Older(since) /\ forgotten' = forgotten
    BY DEF Tick
  <1>1. \A c \in Caller :
          /\ call'[c].pc = call[c].pc /\ call'[c].save = Older(call[c].save)
          /\ call'[c].keeps = call[c].keeps /\ call'[c].solo = call[c].solo
    BY CallType, TickFacts
  <1>2. SoloAlone' BY <1>1 DEF KInv, SoloAlone
  <1>3. Tracked' BY <1>0, <1>1 DEF KInv, Tracked
  <1>4. Older(Never) = Never /\ Older(Cooldown) = Cooldown BY DEF Older
  <1>5. SoloOK' BY <1>0, <1>1, <1>4 DEF KInv, SoloOK
  <1> QED BY <1>2, <1>3, <1>5 DEF KInv

LEMMA KeepsStep == SchedulerTypeOK /\ KInv /\ [SchedulerNext]_schedulerVars => KInv'
  <1> SUFFICES ASSUME SchedulerTypeOK, KInv, [SchedulerNext]_schedulerVars PROVE KInv'
    OBVIOUS
  <1>1. ASSUME UNCHANGED <<lastTriggered, call, since, forgotten>> PROVE KInv'
    BY <1>1 DEF KInv, SoloAlone, Tracked, SoloOK
  <1>2. CASE \/ CreateCandidate \/ Consolidate \/ DenyConsolidation \/ OpenByHand
             \/ RuntimeChanges
    BY <1>1, <1>2 DEF CreateCandidate, Consolidate, DenyConsolidation, OpenByHand,
                      RuntimeChanges, ledgers
  <1>3. CASE SchedulerCrash
    <2>1. \A c \in Caller : call'[c] = NoCall BY <1>3 DEF SchedulerCrash
    <2>2. forgotten' = (forgotten \/ lastTriggered' # since) /\ since' = since BY <1>3 DEF SchedulerCrash
    <2>3. SoloAlone' /\ SoloOK' BY <2>1, NoCallFacts DEF SoloAlone, SoloOK
    <2>4. Tracked' BY <2>2 DEF Tracked
    <2> QED BY <2>3, <2>4 DEF KInv
  <1>4. CASE UNCHANGED schedulerVars BY <1>1, <1>4 DEF schedulerVars, ledgers
  <1> QED BY <1>2, <1>3, <1>4, ReadKeeps, SubmitKeeps, SaveKeeps, FailKeeps, EvaluateKeeps,
             TickKeeps DEF SchedulerNext, Step

\* An evaluation that nothing overlaps submits within the cooldown only after
\* the time of the submission before was dropped from the state file, for any
\* cooldown and any number of callers and faults (EvaluateAndSchedule).
THEOREM CooldownKeptHolds == SchedulerSpec => CooldownKept
  <1>1. SchedulerInit => KInv
    BY NoCallFacts DEF SchedulerInit, KInv, SoloAlone, Tracked, SoloOK
  <1>2. KInv /\ [SchedulerNext]_schedulerVars =>
          [\A c \in Caller :
             AtStep(c, "submit") /\ call[c].solo /\ open' > open /\ byHand' = byHand =>
               since = Never \/ since = Cooldown \/ forgotten]_schedulerVars
    BY DEF KInv, SoloOK, AtStep
  <1>3. CInv => SchedulerTypeOK BY DEF CInv
  <1> QED BY <1>1, <1>2, <1>3, KeepsStep, Counts, PTL DEF SchedulerSpec, CooldownKept
=============================================================================
