---------------------------- MODULE MemoryStore ----------------------------
(***************************************************************************)
(* The persistent memory store (internal/memory/store.go, journal.go,      *)
(* governance.go): the maps in memory, the snapshot files cards/<id>.json  *)
(* and edges/<id>.json, and the append-only journal.jsonl.                 *)
(*                                                                         *)
(* A mutation holds the store's mutex through three steps: it changes the  *)
(* map, writes the entity's snapshot file, and appends a journal event     *)
(* that carries the whole entity.  A write may fail, which ends the call   *)
(* with an error and leaves the map changed; the process may die in any    *)
(* step.  Both may leave a file or the journal's end cut short.            *)
(*                                                                         *)
(* A version of a card is the number of the write that made it, and a      *)
(* card, wherever it is kept, is the set of its versions: appending is the *)
(* only change, so the set determines the list.                            *)
(***************************************************************************)
EXTENDS Naturals

CONSTANTS
  Card,        \* card ids
  MaxWrites,   \* bound: versions ever written
  MaxErrors,   \* bound: writes that fail
  MaxCrashes   \* bound: crashes

ASSUME MemoryStoreAssumption ==
  /\ MaxWrites \in Nat
  /\ MaxErrors \in Nat
  /\ MaxCrashes \in Nat

\* An edge connects two cards.
Edge == Card \X Card

VARIABLES
  mem,       \* s.cards: the versions of each card
  file,      \* cards/<id>.json
  torn,      \* the cards whose file is cut short
  last,      \* the snapshot in each card's last journal event
  emem,      \* s.edges
  efile,     \* the edges with a file
  etorn,     \* the edges whose file is cut short
  elast,     \* the edges with a journal event
  jtorn,     \* the journal has an event that was cut short
  stuck,     \* the journal's json.Encoder failed: it refuses every later event
  op,        \* the call that holds s.mu and its next step
  replayed,  \* what RebuildProjections replayed before it takes s.mu
  rebuilt,   \* ledger: RebuildProjections was called
  up,        \* whether the process runs
  writes,    \* versions written so far
  errors,    \* writes that failed so far
  crashes,   \* crashes so far
  acked      \* ledger: the versions of each card its callers were told of

maps == <<mem, emem>>
disk == <<file, torn, efile, etorn>>
journal == <<last, elast, jtorn>>
counts == <<writes, errors, crashes, rebuilt>>
vars == <<maps, disk, journal, stuck, op, replayed, up, counts, acked>>

NoOp == [step |-> "none"]
NoReplay == [cards |-> "none"]

Empty == [k \in Card |-> {}]

Init ==
  /\ mem = Empty /\ file = Empty /\ last = Empty /\ torn = {}
  /\ emem = {} /\ efile = {} /\ elast = {} /\ etorn = {}
  /\ jtorn = FALSE /\ stuck = FALSE
  /\ op = NoOp /\ replayed = NoReplay /\ up = TRUE
  /\ writes = 0 /\ errors = 0 /\ crashes = 0 /\ rebuilt = FALSE
  /\ acked = Empty

-----------------------------------------------------------------------------
(***************************************************************************)
(* Mutations                                                               *)
(***************************************************************************)

Free == up /\ op = NoOp

\* A new version of card k in the map; persistCard comes next.  rest: the
\* cards the call goes on to after this one.
AppendVersion(k, rest) ==
  /\ up
  /\ writes < MaxWrites
  /\ writes' = writes + 1
  /\ mem' = [mem EXCEPT ![k] = @ \cup {writes + 1}]
  /\ op' = [step |-> "persist", kind |-> "card", id |-> k, rest |-> rest]
  /\ UNCHANGED <<emem, disk, journal, stuck, replayed, up, errors, crashes, rebuilt, acked>>

CreateCard(k) == Free /\ mem[k] = {} /\ AppendVersion(k, {})
UpdateCard(k) == Free /\ mem[k] # {} /\ AppendVersion(k, {})
TouchCard(k) == Free /\ mem[k] # {} /\ AppendVersion(k, {})

\* DecayAndCompact: one version for each of the cards that decay, all under
\* one lock; the first error ends it.
DecayAndCompact ==
  /\ Free
  /\ \E S \in SUBSET {k \in Card : mem[k] # {}} :
       S # {} /\ op' = [step |-> "decay", rest |-> S]
  /\ UNCHANGED <<maps, disk, journal, stuck, replayed, up, counts, acked>>

DecayCard(k) == up /\ op.step = "decay" /\ k \in op.rest /\ AppendVersion(k, op.rest \ {k})

\* Mutant: CreateEdge does not look for its two cards.
CreateEdgeUnchecked(e) ==
  /\ Free
  /\ e \notin emem
  /\ emem' = emem \cup {e}
  /\ op' = [step |-> "persist", kind |-> "edge", id |-> e]
  /\ UNCHANGED <<mem, disk, journal, stuck, replayed, up, counts, acked>>

CreateEdge(e) ==
  /\ Free
  /\ e \notin emem
  /\ mem[e[1]] # {} /\ mem[e[2]] # {}
  /\ emem' = emem \cup {e}
  /\ op' = [step |-> "persist", kind |-> "edge", id |-> e]
  /\ UNCHANGED <<mem, disk, journal, stuck, replayed, up, counts, acked>>

At(step, kind) == up /\ op.step = step /\ op.kind = kind

\* persistCard writes all versions of the card.
PersistCard ==
  /\ At("persist", "card")
  /\ file' = [file EXCEPT ![op.id] = mem[op.id]]
  /\ torn' = torn \ {op.id}
  /\ op' = [op EXCEPT !.step = "journal"]
  /\ UNCHANGED <<maps, efile, etorn, journal, stuck, replayed, up, counts, acked>>

PersistEdge ==
  /\ At("persist", "edge")
  /\ efile' = efile \cup {op.id}
  /\ etorn' = etorn \ {op.id}
  /\ op' = [op EXCEPT !.step = "journal"]
  /\ UNCHANGED <<maps, file, torn, journal, stuck, replayed, up, counts, acked>>

\* The event that stands for the call is in the journal.
Recorded ==
  IF op.kind = "card"
  THEN last' = [last EXCEPT ![op.id] = mem[op.id]] /\ UNCHANGED elast
  ELSE elast' = elast \cup {op.id} /\ UNCHANGED last

\* Mutant: the journal event is written without the card's snapshot.
JournalCardEmpty ==
  /\ At("journal", "card")
  /\ acked' = [acked EXCEPT ![op.id] = mem[op.id]]
  /\ op' = NoOp
  /\ UNCHANGED <<maps, disk, journal, stuck, replayed, up, counts>>

\* appendCardJournalEvent, and the call returns the card or goes on to the
\* next one.
JournalCard ==
  /\ At("journal", "card") /\ ~stuck
  /\ Recorded
  /\ acked' = [acked EXCEPT ![op.id] = mem[op.id]]
  /\ op' = IF op.rest = {} THEN NoOp ELSE [step |-> "decay", rest |-> op.rest]
  /\ UNCHANGED <<maps, disk, jtorn, stuck, replayed, up, counts>>

JournalEdge ==
  /\ At("journal", "edge") /\ ~stuck
  /\ Recorded
  /\ op' = NoOp
  /\ UNCHANGED <<maps, disk, jtorn, stuck, replayed, up, counts, acked>>

-----------------------------------------------------------------------------
(***************************************************************************)
(* RebuildProjections                                                      *)
(***************************************************************************)

\* The journal is replayed before s.mu is taken; an event cut short fails it.
RebuildReplay ==
  /\ up /\ replayed = NoReplay
  /\ ~jtorn
  /\ replayed' = [cards |-> last, edges |-> elast]
  /\ rebuilt' = TRUE
  /\ UNCHANGED <<maps, disk, journal, stuck, op, up, writes, errors, crashes, acked>>

\* Takes s.mu: the old files are removed and the replayed state becomes the
\* maps ...
RebuildLock ==
  /\ Free /\ replayed # NoReplay
  /\ op' = [step |-> "rebuild"]
  /\ mem' = replayed.cards /\ emem' = replayed.edges
  /\ UNCHANGED <<disk, journal, stuck, replayed, up, counts, acked>>

\* Mutant: the old edge files stay.
RebuildRewriteKeepsEdges ==
  /\ up /\ op.step = "rebuild"
  /\ file' = mem /\ efile' = efile \cup emem /\ torn' = {} /\ etorn' = {}
  /\ op' = NoOp /\ replayed' = NoReplay
  /\ UNCHANGED <<maps, journal, stuck, up, counts, acked>>

\* ... and is written out.
RebuildRewrite ==
  /\ up /\ op.step = "rebuild"
  /\ file' = mem /\ efile' = emem /\ torn' = {} /\ etorn' = {}
  /\ op' = NoOp /\ replayed' = NoReplay
  /\ UNCHANGED <<maps, journal, stuck, up, counts, acked>>

-----------------------------------------------------------------------------
(***************************************************************************)
(* Faults                                                                  *)
(***************************************************************************)

Only(f, S) == [k \in Card |-> IF k \in S THEN f[k] ELSE {}]

AtMostOne(T) == \A x, y \in T : x = y

\* What a rebuild leaves that ends while it removes the old files ...
HalfWiped ==
  \E S \in SUBSET Card :
    /\ file' = Only(file, S) /\ torn' = torn \cap S
    /\ efile' \in SUBSET efile /\ etorn' \in SUBSET etorn

\* ... and while it writes the new ones, first cards, then edges: perhaps
\* one of them cut short.
HalfRewritten ==
  \/ \E S \in SUBSET Card :
       /\ file' = Only(mem, S)
       /\ torn' \in {T \in SUBSET (Card \ S) : AtMostOne(T)}
       /\ efile' = {} /\ etorn' = {}
  \/ /\ file' = mem /\ torn' = {}
     /\ efile' \in SUBSET emem
     /\ etorn' \in {T \in SUBSET (emem \ efile') : AtMostOne(T)}

\* What a write that fails or is interrupted leaves.  os.WriteFile empties
\* the file it opens before it writes.
HalfWritten ==
  \/ UNCHANGED <<disk, journal>>
  \/ /\ op.step = "persist" /\ op.kind = "card"
     /\ file' = [file EXCEPT ![op.id] = {}] /\ torn' = torn \cup {op.id}
     /\ UNCHANGED <<efile, etorn, journal>>
  \/ /\ op.step = "persist" /\ op.kind = "edge"
     /\ efile' = efile \ {op.id} /\ etorn' = etorn \cup {op.id}
     /\ UNCHANGED <<file, torn, journal>>
  \/ op.step = "journal" /\ ~stuck /\ jtorn' = TRUE /\ UNCHANGED <<disk, last, elast>>
  \/ op.step = "journal" /\ ~stuck /\ Recorded /\ UNCHANGED <<disk, jtorn>>
  \/ op.step = "rebuild" /\ HalfRewritten /\ UNCHANGED journal

\* A write fails: the call ends with an error, the map keeps the change, and
\* an encoder that failed (not file.Sync after it) stays failed.
WriteFails ==
  /\ up /\ op.step \in {"persist", "journal", "rebuild"}
  /\ errors < MaxErrors
  /\ errors' = errors + 1
  /\ HalfWritten
  /\ stuck' = (stuck \/ (op.step = "journal" /\ UNCHANGED <<last, elast>>))
  /\ op' = NoOp
  /\ replayed' = IF op.step = "rebuild" THEN NoReplay ELSE replayed
  /\ UNCHANGED <<maps, up, writes, crashes, rebuilt, acked>>

\* The encoder refuses the event.
JournalRefuses ==
  /\ up /\ op.step = "journal" /\ stuck
  /\ op' = NoOp
  /\ UNCHANGED <<maps, disk, journal, stuck, replayed, up, counts, acked>>

\* The process dies: the maps are gone, files and journal stay.
Crash ==
  /\ up /\ crashes < MaxCrashes
  /\ crashes' = crashes + 1
  /\ up' = FALSE
  /\ \/ HalfWritten
     \/ op.step = "rebuild" /\ HalfWiped /\ UNCHANGED journal
  /\ mem' = Empty /\ emem' = {} /\ stuck' = FALSE
  /\ op' = NoOp /\ replayed' = NoReplay
  /\ UNCHANGED <<writes, errors, rebuilt, acked>>

\* NewPersistentStore: loadFromDisk reads the snapshots, not the journal, and
\* fails on one it cannot parse.
LoadFromDisk ==
  /\ ~up
  /\ torn = {} /\ etorn = {}
  /\ up' = TRUE
  /\ mem' = file /\ emem' = efile
  /\ UNCHANGED <<disk, journal, stuck, op, replayed, counts, acked>>

Next ==
  \/ \E k \in Card : CreateCard(k) \/ UpdateCard(k) \/ TouchCard(k) \/ DecayCard(k)
  \/ \E e \in Edge : CreateEdge(e)
  \/ DecayAndCompact
  \/ PersistCard \/ PersistEdge \/ JournalCard \/ JournalEdge
  \/ RebuildReplay \/ RebuildLock \/ RebuildRewrite
  \/ WriteFails \/ JournalRefuses \/ Crash \/ LoadFromDisk

Spec == Init /\ [][Next]_vars

-----------------------------------------------------------------------------
(***************************************************************************)
(* Properties                                                              *)
(***************************************************************************)

Versions == 1..MaxWrites
CardMap == [Card -> SUBSET Versions]

Ops ==
  [step: {"persist", "journal"}, kind: {"card"}, id: Card, rest: SUBSET Card]
    \cup [step: {"persist", "journal"}, kind: {"edge"}, id: Edge]
    \cup [step: {"decay"}, rest: SUBSET Card]
    \cup [step: {"rebuild"}] \cup {NoOp}

\* The types of maps, files, journal and the call under way.
TypeOK ==
  /\ mem \in CardMap /\ file \in CardMap /\ last \in CardMap /\ acked \in CardMap
  /\ emem \subseteq Edge /\ efile \subseteq Edge /\ elast \subseteq Edge
  /\ torn \subseteq Card /\ etorn \subseteq Edge
  /\ jtorn \in BOOLEAN /\ stuck \in BOOLEAN
  /\ op \in Ops
  /\ replayed \in [cards: CardMap, edges: SUBSET Edge] \cup {NoReplay}
  /\ up \in BOOLEAN
  /\ writes \in 0..MaxWrites
  /\ errors \in 0..MaxErrors
  /\ crashes \in 0..MaxCrashes
  /\ rebuilt \in BOOLEAN

\* Before any rebuild no replica is ever ahead of the one written before it:
\* the journal never knows a version that a readable snapshot has not, nor
\* the snapshot one that the map has not, whatever fails and wherever the
\* process dies.  So a restart from snapshots never forgets what the journal
\* has.
ReplicasOrdered ==
  ~rebuilt =>
    \A k \in Card :
      /\ k \notin torn => last[k] \subseteq file[k]
      /\ up => file[k] \subseteq mem[k]

\* Before any rebuild every version a caller was told of survives one fault, a
\* failed write or a crash, in a card file that can be read or in a journal
\* that can be replayed; through any number of faults its event stays in the
\* journal's text.
AckedDurable ==
  ~rebuilt =>
    \A k \in Card :
      /\ acked[k] \subseteq last[k]
      /\ errors + crashes <= 1 => (k \notin torn /\ acked[k] \subseteq file[k]) \/ ~jtorn

\* No replica forgets what a later one or a caller knows: ReplicasOrdered and
\* AckedDurable.
NothingForgotten == ReplicasOrdered /\ AckedDurable

\* While no call is under way and as long as no write failed, maps and files
\* agree, even across a rebuild that a crash cut short.
DiskMatchesMemory ==
  Free /\ errors = 0 => mem = file /\ emem = efile

\* As long as no write failed and before any rebuild, both cards of every edge
\* exist, also after a crash between the files of an edge and of its cards.
EdgeEndsExist ==
  ~rebuilt /\ errors = 0 /\ up => \A e \in emem : mem[e[1]] # {} /\ mem[e[2]] # {}
=============================================================================
