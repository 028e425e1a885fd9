-------------------------- MODULE LifecycleProofs --------------------------
(***************************************************************************)
(* Proofs about records that live through many steps of several callers:   *)
(* the cards of the memory (MemoryLife) and the actions of the executor    *)
(* (Execution).                                                            *)
(***************************************************************************)
EXTENDS MemoryLife, Execution, FiniteSetTheorems, WellFoundedInduction, TLAPS

-----------------------------------------------------------------------------
(***************************************************************************)
(* Proofs about the life of memory cards, for any cards, topics, texts,    *)
(* requests, turns and faults.                                             *)
(*                                                                         *)
(* The governance loop and the consolidations write what they queried      *)
(* earlier, so the invariant says what they hold: cards that exist and     *)
(* texts that were read (GovOK, PassOK).  NoRevival then is a matter of    *)
(* what each step may do to the status of a card (Moves) and to the cards  *)
(* a consolidation holds (HeldMoves).  For SupersededOut a card is younger *)
(* than the one it supersedes (Ordered), and a card that was promoted has  *)
(* put the other out, where no pass holds it, or is about to (Replaced):   *)
(* this holds of the cards the ledger of requests by hand does not name,   *)
(* which keep what they supersede, also in what a pass has read (ReadOK).  *)
(***************************************************************************)

Existing == {c \in Card : Exists(c)}
Claims == Text \cup {"none"}

\* The labels of cards; a card that is yet to be made supersedes none.
LabelsOK ==
  /\ scope \in [Card -> Scope]
  /\ over \in [Card -> Card \cup {NoCard}]
  /\ byhand \subseteq Card
  /\ \A c \in Card : Exists(c) \/ over[c] = NoCard

\* The cards' part of the types, and the order of creation.
CardsOK ==
  /\ LabelsOK
  /\ status \in [Card -> Status \cup {"none"}]
  /\ score \in [Card -> 0..1000]
  /\ age \in [Card -> 0..MaxAge]
  /\ born \in [Card -> Nat]
  /\ text \in [Card -> Claims]
  /\ \A c \in Card : Exists(c) <=> born[c] > 0
  /\ \A c, d \in Card : Exists(c) /\ born[c] = born[d] => c = d
  /\ \A c \in Card : born[c] <= Cardinality(Existing)

EvidenceOK ==
  /\ refs \in [Card -> SUBSET Card]
  /\ edges \subseteq Card \X Card
  /\ cut \subseteq Card

CountsOK ==
  /\ runs \in [Procedure \cup Class -> 0..MinRuns]
  /\ edits \in 0..MaxEdits /\ turns \in 0..MaxTurns /\ faults \in 0..MaxFaults

\* The clusters of events the loop has yet to upgrade.
LeftOK(f) == \A t \in DOMAIN f : f[t] \subseteq Card \X Claims

\* What the governance loop holds.
GovOK ==
  /\ gov.at \in {"look", "create", "link"} => LeftOK(gov.left)
  /\ gov.at = "create" => gov.topic \in DOMAIN gov.left \cap DOMAIN FactOf
  /\ gov.at = "link" =>
       /\ gov = [at |-> "link", i |-> gov.i, left |-> gov.left, fact |-> gov.fact,
                 todo |-> gov.todo]
       /\ gov.fact \in Card /\ gov.todo \subseteq Card

\* A version that a consolidation has read.
Version == [text : Claims, scope : Scope, over : Card \cup {NoCard}, refs : SUBSET Card]

\* What a consolidation holds, when the cards of E exist.
PassOK(m, E) ==
  /\ m.at \in {"idle", "extract", "asked", "promote"}
  /\ m.at \in {"extract", "asked"} =>
       m = [at |-> m.at, req |-> m.req, class |-> m.class, todo |-> m.todo, ask |-> m.ask]
  /\ m.at = "promote" =>
       /\ m = [at |-> "promote", todo |-> m.todo, target |-> m.target, drop |-> m.drop,
               was |-> m.was]
       /\ m.todo \subseteq E /\ m.drop \subseteq E /\ m.target \in Card \cup {NoCard}
       /\ \A c \in m.todo : m.was[c] \in Version

\* What a card supersedes, and its evidence, are as they were read.
ReadOK(m) ==
  m.at = "promote" =>
    \A c \in m.todo : c \in byhand \/ (m.was[c].over = over[c] /\ m.was[c].refs = refs[c])

\* What a chat turn holds.
PacketOK(m) ==
  m.at = "touch" => \A c \in DOMAIN m.todo : m.todo[c] \in Int

HoldersOK ==
  /\ GovOK
  /\ pass = [p \in Task |-> pass[p]]
  /\ \A p \in Task : PassOK(pass[p], Existing) /\ ReadOK(pass[p])
  /\ packet = [u \in Turn |-> packet[u]] /\ \A u \in Turn : PacketOK(packet[u])

LInv == CardsOK /\ EvidenceOK /\ CountsOK /\ HoldersOK /\ EvidenceLinked

\* A card that supersedes another is the younger one.
Ordered ==
  \A c \in Card \ byhand : Exists(c) /\ over[c] # NoCard =>
    Exists(over[c]) /\ born[over[c]] < born[c]

\* Card t is out of use for good, or a pass is about to put it out.
Out(t) == status[t] \in {"superseded", "archived"} /\ t \notin HeldCards
Underway(t) ==
  \E p \in Task : pass[p].at = "promote" /\ pass[p].target = t /\ t \notin pass[p].todo

Replaced ==
  faults = 0 =>
    \A c \in Card \ byhand : status[c] = "active" /\ over[c] \in Card \ (Found \cup byhand) =>
      Out(over[c]) \/ Underway(over[c])

\* What a step does to cards: those that exist stay, a new one is younger.
Births ==
  \A c, d \in Card :
    /\ Exists(c) => born'[c] = born[c]
    /\ Exists(d) /\ ~Exists(c) /\ Exists(c)' => born[d] < born'[c]
Marked ==
  /\ byhand \subseteq byhand'
  /\ \A c \in Card : Exists(c) => c \in byhand' \/ over'[c] = over[c]
Steady == CardsOK' /\ Births /\ Existing \subseteq Existing' /\ Marked

\* What a step does to the evidence of cards: that of existing ones, and of all.
Cited == \A c \in Card : Exists(c) => c \in byhand' \/ refs'[c] = refs[c]
AllCited == \A c \in Card : c \in byhand' \/ refs'[c] = refs[c]

\* What a step may do to the status of a card, and to the cards that
\* consolidations hold.
Made(c) ==
  /\ status[c] = "none" /\ status'[c] \in Status
  /\ c \notin byhand' /\ over'[c] # NoCard => status'[c] = "candidate" /\ Exists(over'[c])
Promoting == \E p \in Task : Promote(p)
Moves ==
  \A c \in Card : \/ status'[c] = status[c]
                  \/ Made(c)
                  \/ status[c] = "active" /\ status'[c] = "stale"
                  \/ Exists(c) /\ status'[c] \in {"superseded", "archived"}
                  \/ c \in HeldCards /\ status'[c] = "active" /\ Promoting
                  \/ Exists(c) /\ c \in Found /\ status'[c] = "candidate"
                  \/ Exists(c) /\ c \in byhand' /\ SetByHand(c)
HeldMoves == \A c \in HeldCards' : c \in HeldCards \/ status[c] = "candidate"

\* Consolidations run one after the other.
Alone == \A p, q \in Task : p = q

-----------------------------------------------------------------------------
(***************************************************************************)
(* The store                                                               *)
(***************************************************************************)

LEMMA ClampUnit == ASSUME NEW x \in Int PROVE clampUnit(x) \in 0..1000
  BY DEF clampUnit

LEMMA ExistingFinite ==
  /\ IsFiniteSet(Existing) /\ Cardinality(Existing) \in Nat
  /\ Cardinality(Existing) <= Cardinality(Card) /\ Cardinality(Card) \in Nat
  <1>1. Existing \subseteq Card BY DEF Existing
  <1> QED BY <1>1, FS_Subset, FS_CardinalityType, MemoryLifeAssumption

\* As long as the same cards exist, a step that leaves the order of creation
\* alone keeps it.
LEMMA SameCards ==
  ASSUME CardsOK, born' = born, status' \in [Card -> Status \cup {"none"}],
         \A c \in Card : status'[c] = "none" <=> status[c] = "none"
  PROVE  /\ Existing' = Existing /\ Births
         /\ \A c \in Card : Exists(c)' <=> Exists(c)
         /\ born' \in [Card -> Nat]
         /\ \A c \in Card : Exists(c)' <=> born'[c] > 0
         /\ \A c, d \in Card : Exists(c)' /\ born'[c] = born'[d] => c = d
         /\ \A c \in Card : born'[c] <= Cardinality(Existing')
  <1>1. \A c \in Card : Exists(c)' <=> Exists(c) BY DEF Exists
  <1>2. Existing' = Existing BY <1>1 DEF Existing
  <1>3. Births BY <1>1 DEF Births
  <1> QED BY <1>1, <1>2, <1>3 DEF CardsOK

LEMMA CreateAsKeeps ==
  ASSUME CardsOK, NEW c \in Card, ~Exists(c), NEW st \in Status, NEW sc \in Int, NEW tx \in Claims,
         CreateAs(c, st, sc, tx), LabelsOK', Marked
  PROVE  Steady /\ status' = [status EXCEPT ![c] = st]
  <1> DEFINE n == Cardinality(Existing)
  <1>1. status' = [status EXCEPT ![c] = st] BY DEF CreateAs
  <1>2. born' = [born EXCEPT ![c] = n + 1] BY DEF CreateAs, Existing
  <1>3. n \in Nat /\ IsFiniteSet(Existing) BY ExistingFinite
  <1>4. st # "none" BY DEF Status
  <1>5. \A d \in Card : Exists(d)' <=> Exists(d) \/ d = c BY <1>1, <1>4 DEF Exists, CardsOK
  <1>6. Existing' = Existing \cup {c} BY <1>5 DEF Existing
  <1>7. Cardinality(Existing') = n + 1
    <2>1. c \notin Existing BY DEF Existing
    <2> QED BY <1>3, <1>6, <2>1, FS_AddElement
  <1>8. \A d \in Card : born[d] \in Nat /\ born[d] <= n BY DEF CardsOK
  <1> HIDE DEF n
  <1>9. status' \in [Card -> Status \cup {"none"}] BY <1>1 DEF CardsOK
  <1>10. score' \in [Card -> 0..1000] BY ClampUnit, ZenonT(60) DEF CardsOK, CreateAs
  <1>11. age' \in [Card -> 0..MaxAge] BY MemoryLifeAssumption DEF CardsOK, CreateAs
  <1>12. born' \in [Card -> Nat] BY <1>2, <1>3 DEF CardsOK
  <1>13. text' \in [Card -> Claims] BY DEF CardsOK, CreateAs
  <1>14. \A d \in Card : born'[d] = IF d = c THEN n + 1 ELSE born[d] BY <1>2 DEF CardsOK
  <1>15. \A d \in Card : Exists(d)' <=> born'[d] > 0 BY <1>3, <1>5, <1>14 DEF CardsOK
  <1>16. \A d, e \in Card : Exists(d)' /\ born'[d] = born'[e] => d = e
    <2> SUFFICES ASSUME NEW d \in Card, NEW e \in Card, Exists(d)', born'[d] = born'[e]
                 PROVE  d = e
      OBVIOUS
    <2>1. CASE d = c \/ e = c BY <1>3, <1>8, <1>14, <2>1
    <2>2. CASE d # c /\ e # c
      <3>1. Exists(d) /\ born[d] = born[e] BY <1>5, <1>14, <2>2
      <3> QED BY <3>1 DEF CardsOK
    <2> QED BY <2>1, <2>2
  <1>17. \A d \in Card : born'[d] <= Cardinality(Existing') BY <1>3, <1>7, <1>8, <1>14
  <1>18. CardsOK'
    BY <1>9, <1>10, <1>11, <1>12, <1>13, <1>15, <1>16, <1>17 DEF CardsOK
  <1>19. Births BY <1>3, <1>5, <1>8, <1>14 DEF Births
  <1> QED BY <1>1, <1>6, <1>18, <1>19 DEF Steady

\* Labels that stay the same.
LEMMA LabelsSame ==
  ASSUME LabelsOK, UNCHANGED labels, \A c \in Card : Exists(c) => Exists(c)'
  PROVE  LabelsOK' /\ Marked /\ over' = over
  BY DEF LabelsOK, Marked, labels

LEMMA StatusStays ==
  ASSUME CardsOK, NEW c \in Card, NEW st \in Status, status' = [status EXCEPT ![c] = st]
  PROVE  \A d \in Card : Exists(d) => Exists(d)'
  BY DEF CardsOK, Exists, Status

LEMMA CreateKeeps ==
  ASSUME CardsOK, NEW c \in Card, ~Exists(c), NEW st \in Status, NEW sc \in Int, NEW tx \in Claims,
         CreateCard(c, st, sc, tx)
  PROVE  Steady /\ status' = [status EXCEPT ![c] = st] /\ over'[c] = NoCard
  <1>1. CreateAs(c, st, sc, tx) /\ UNCHANGED labels BY DEF CreateCard
  <1>2. \A d \in Card : Exists(d) => Exists(d)' BY <1>1, StatusStays DEF CreateAs
  <1>3. LabelsOK' /\ Marked /\ over' = over BY <1>1, <1>2, LabelsSame DEF CardsOK
  <1>4. over[c] = NoCard BY DEF CardsOK, LabelsOK
  <1> QED BY <1>1, <1>3, <1>4, CreateAsKeeps

LEMMA UpdateAsKeeps ==
  ASSUME CardsOK, NEW c \in Card, Exists(c), NEW st \in Status, NEW tx \in Claims,
         UpdateAs(c, st, tx), LabelsOK', Marked
  PROVE  Steady /\ status' = [status EXCEPT ![c] = st]
  <1>1. status' = [status EXCEPT ![c] = st] /\ born' = born /\ score' = score /\ age' = age
    BY DEF UpdateAs
  <1>2. status' \in [Card -> Status \cup {"none"}] BY <1>1 DEF CardsOK
  <1>3. \A d \in Card : status'[d] = "none" <=> status[d] = "none"
    BY <1>1 DEF Exists, Status, CardsOK
  <1>4. text' \in [Card -> Claims] BY DEF CardsOK, UpdateAs
  <1> QED BY <1>1, <1>2, <1>3, <1>4, SameCards DEF CardsOK, Steady

LEMMA UpdateKeeps ==
  ASSUME CardsOK, NEW c \in Card, Exists(c), NEW st \in Status, UpdateCard(c, st)
  PROVE  Steady /\ status' = [status EXCEPT ![c] = st]
  <1>1. UpdateAs(c, st, text[c]) /\ UNCHANGED labels BY DEF UpdateCard
  <1>2. \A d \in Card : Exists(d) => Exists(d)' BY <1>1, StatusStays DEF UpdateAs
  <1>3. LabelsOK' /\ Marked BY <1>1, <1>2, LabelsSame DEF CardsOK
  <1>4. text[c] \in Claims BY DEF CardsOK
  <1> QED BY <1>1, <1>3, <1>4, UpdateAsKeeps

LEMMA TouchKeeps ==
  ASSUME CardsOK, NEW c \in Card, NEW delta \in Int, TouchCard(c, delta)
  PROVE  Steady /\ status' = status
  <1>1. status' = status /\ born' = born /\ age' = age /\ text' = text BY DEF TouchCard
  <1>0. LabelsOK' /\ Marked
    <2>1. UNCHANGED labels BY DEF TouchCard
    <2>2. \A d \in Card : Exists(d) => Exists(d)' BY <1>1 DEF Exists
    <2> QED BY <2>1, <2>2, LabelsSame DEF CardsOK
  <1>2. PICK x : x = clampUnit(score[c] + delta) OBVIOUS
  <1>3. x \in 0..1000
    <2>0. score \in [Card -> 0..1000] BY DEF CardsOK
    <2>1. score[c] + delta \in Int BY <2>0
    <2> QED BY <1>2, <2>1, ClampUnit
  <1>4. score' = [score EXCEPT ![c] = x] BY <1>2, Zenon DEF TouchCard, CardsOK
  <1>5. score' \in [Card -> 0..1000] BY <1>3, <1>4 DEF CardsOK
  <1> QED BY <1>0, <1>1, <1>5, SameCards DEF CardsOK, Steady

\* Decay moves a card one status on, if at all.
LEMMA NewStatusMoves ==
  ASSUME NEW c \in Card
  PROVE  \/ NewStatus(c) = status[c]
         \/ status[c] = "active" /\ NewStatus(c) = "stale"
         \/ status[c] = "stale" /\ NewStatus(c) = "archived"
  BY DEF NewStatus

LEMMA DecayRateNat == ASSUME NEW c \in Card PROVE DecayRate(c) \in Nat
  BY DEF DecayRate, BaseDecayRate

LEMMA NewScoreOK == ASSUME CardsOK, NEW c \in Card PROVE NewScore(c) \in 0..1000
  <1>1. score[c] \in Int /\ age[c] \in Int /\ Interval \in Int
    <2>1. score \in [Card -> 0..1000] /\ age \in [Card -> 0..MaxAge] BY DEF CardsOK
    <2>2. MaxAge \in Nat /\ Interval \in Nat BY MemoryLifeAssumption
    <2>3. score[c] \in 0..1000 /\ age[c] \in 0..MaxAge BY <2>1
    <2> QED BY <2>2, <2>3
  <1>0. DecayRate(c) \in Int BY DecayRateNat
  <1>2. age[c] * Interval * DecayRate(c) \in Int BY <1>0, <1>1
  <1>3. score[c] - age[c] * Interval * DecayRate(c) \in Int BY <1>1, <1>2
  <1> QED BY <1>3, ClampUnit, SMTT(30) DEF NewScore

LEMMA DecayKeeps ==
  ASSUME CardsOK, DecayAndCompact
  PROVE  Steady /\ Moves
  <1>1. born' = born /\ text' = text BY DEF DecayAndCompact
  <1>2. status' = [c \in Card |-> IF c \in Evaluated THEN NewStatus(c) ELSE status[c]]
    BY DEF DecayAndCompact
  <1>3. \A c \in Card : \/ status'[c] = status[c]
                        \/ status[c] = "active" /\ status'[c] = "stale"
                        \/ status[c] = "stale" /\ status'[c] = "archived"
    BY <1>2, NewStatusMoves
  <1>4. status' \in [Card -> Status \cup {"none"}] BY <1>2, <1>3 DEF CardsOK, Status
  <1>5. \A c \in Card : status'[c] = "none" <=> status[c] = "none" BY <1>3
  <1>6. score' \in [Card -> 0..1000] BY NewScoreOK DEF CardsOK, DecayAndCompact
  <1>7. age' \in [Card -> 0..MaxAge] BY MemoryLifeAssumption DEF CardsOK, DecayAndCompact
  <1>0. LabelsOK' /\ Marked
    <2>1. UNCHANGED labels BY DEF DecayAndCompact
    <2>2. \A d \in Card : Exists(d) => Exists(d)' BY <1>5 DEF Exists
    <2> QED BY <2>1, <2>2, LabelsSame DEF CardsOK
  <1>8. Steady BY <1>0, <1>1, <1>4, <1>5, <1>6, <1>7, SameCards DEF CardsOK, Steady
  <1> QED BY <1>3, <1>8 DEF Moves, Exists

LEMMA Least ==
  ASSUME NEW T, T \subseteq Nat, T # {}
  PROVE  \E x \in T : \A y \in T : x <= y
  <1>1. PICK x \in T : \A y \in T : ~(<<y, x>> \in OpToRel(<, Nat))
    BY NatLessThanWellFounded, WFMin
  <1>2. ASSUME NEW y \in T PROVE x <= y
    <2>1. <<y, x>> \in Nat \X Nat
      OBVIOUS
    <2>2. ~(y < x)
      BY <1>1, <2>1 DEF OpToRel
    <2> QED BY <2>2
  <1> QED BY <1>2

\* The oldest card of a set of cards is in it.
LEMMA OldestIn ==
  ASSUME CardsOK, NEW S, S \subseteq Card, S # {}
  PROVE  Oldest(S) \in S /\ \A d \in S : born[Oldest(S)] <= born[d]
  <1> DEFINE B == {born[c] : c \in S}
  <1>1. B \subseteq Nat /\ B # {} BY DEF CardsOK
  <1>2. PICK b \in B : \A e \in B : b <= e
    <2> HIDE DEF B
    <2> QED BY <1>1, Least
  <1>3. PICK c \in S : b = born[c] BY <1>2
  <1>4. \A d \in S : born[c] <= born[d] BY <1>2, <1>3
  <1> QED BY <1>3, <1>4, Zenon DEF Oldest

\* A step that leaves the cards alone.
LEMMA CardsKept ==
  ASSUME CardsOK, UNCHANGED cards
  PROVE  Steady /\ status' = status
  <1>1. status' = status /\ born' = born /\ age' = age /\ text' = text /\ score' = score
    BY DEF cards
  <1>2. LabelsOK' /\ Marked
    <2>1. UNCHANGED labels BY DEF cards
    <2>2. \A d \in Card : Exists(d) => Exists(d)' BY <1>1 DEF Exists
    <2> QED BY <2>1, <2>2, LabelsSame DEF CardsOK
  <1> QED BY <1>1, <1>2, SameCards DEF CardsOK, Steady

LEMMA SameStatus == ASSUME status' = status PROVE Moves
  BY DEF Moves

\* The status of one card changes.
LEMMA OneMoves ==
  ASSUME CardsOK, NEW c \in Card, NEW st, status' = [status EXCEPT ![c] = st],
         \/ st = status[c]
         \/ /\ ~Exists(c) /\ st \in Status
            /\ c \notin byhand' /\ over'[c] # NoCard => st = "candidate" /\ Exists(over'[c])
         \/ Exists(c) /\ st \in {"superseded", "archived"}
         \/ c \in HeldCards /\ st = "active" /\ Promoting
         \/ Exists(c) /\ c \in Found /\ st = "candidate"
         \/ Exists(c) /\ c \in byhand' /\ SetByHand(c)
  PROVE  Moves
  <1>1. status'[c] = st /\ \A d \in Card \ {c} : status'[d] = status[d] BY DEF CardsOK
  <1> QED BY <1>1 DEF Moves, Made, Exists

-----------------------------------------------------------------------------
(***************************************************************************)
(* What goes on around the cards                                           *)
(***************************************************************************)

LEMMA PassGrows ==
  ASSUME NEW m, NEW E, NEW F, PassOK(m, E), E \subseteq F
  PROVE  PassOK(m, F)
  BY DEF PassOK

LEMMA ReadGrows ==
  ASSUME NEW m, PassOK(m, Existing), ReadOK(m), Marked, Cited
  PROVE  ReadOK(m)'
  <1> SUFFICES ASSUME m.at = "promote", NEW c \in m.todo, c \notin byhand'
               PROVE  m.was[c].over = over'[c] /\ m.was[c].refs = refs'[c]
    BY DEF ReadOK
  <1>1. c \in Card /\ Exists(c) BY DEF PassOK, Existing
  <1>2. c \notin byhand /\ over'[c] = over[c] /\ refs'[c] = refs[c] BY <1>1 DEF Marked, Cited
  <1> QED BY <1>2 DEF ReadOK

LEMMA EvidenceSame == ASSUME UNCHANGED evidence PROVE Cited /\ AllCited /\ refs' = refs
  BY DEF evidence, Cited, AllCited

LEMMA HeldSame == ASSUME pass' = pass PROVE HeldCards' = HeldCards /\ HeldMoves
  BY DEF HeldCards, HeldBy, HeldMoves

LEMMA LinkedSame ==
  ASSUME EvidenceLinked, UNCHANGED <<edges, cut, gov>>, AllCited, byhand \subseteq byhand'
  PROVE  EvidenceLinked'
  BY DEF EvidenceLinked, AllCited

\* A step of the loop, or of the cards alone.
LEMMA KeepGov ==
  ASSUME LInv, Steady, Cited, UNCHANGED <<pass, packet>>, CountsOK', EvidenceOK', GovOK',
         EvidenceLinked'
  PROVE  LInv' /\ HeldMoves
  <1>1. pass' = pass /\ packet' = packet OBVIOUS
  <1>2. \A p \in Task : PassOK(pass'[p], Existing') /\ ReadOK(pass[p])'
    <2> SUFFICES ASSUME NEW p \in Task PROVE PassOK(pass'[p], Existing') /\ ReadOK(pass[p])'
      OBVIOUS
    <2>1. PICK m : m = pass[p] OBVIOUS
    <2>2. PassOK(m, Existing) /\ ReadOK(m) BY <2>1 DEF LInv, HoldersOK
    <2>3. PassOK(m, Existing') /\ ReadOK(m)' BY <2>2, PassGrows, ReadGrows DEF Steady
    <2>4. m = pass'[p] BY <1>1, <2>1
    <2> QED BY <2>3, <2>4 DEF ReadOK
  <1>3. HoldersOK' BY <1>1, <1>2 DEF LInv, HoldersOK
  <1> QED BY <1>1, <1>3, HeldSame DEF LInv, Steady

\* A step of a user: the evidence of a card may change, which the ledger knows.
LEMMA KeepHand ==
  ASSUME LInv, Steady, refs' \in [Card -> SUBSET Card], AllCited,
         UNCHANGED <<edges, cut, gov, pass, packet>>, CountsOK'
  PROVE  LInv' /\ HeldMoves
  <1>1. GovOK' BY DEF LInv, HoldersOK, GovOK
  <1>2. EvidenceOK' BY DEF LInv, EvidenceOK
  <1>3. EvidenceLinked' BY LinkedSame DEF LInv, Steady, Marked
  <1>4. Cited BY DEF Cited, AllCited
  <1> QED BY <1>1, <1>2, <1>3, <1>4, KeepGov

LEMMA RefsOK == ASSUME LInv, UNCHANGED evidence
  PROVE refs' \in [Card -> SUBSET Card] /\ AllCited /\ UNCHANGED <<edges, cut>>
  BY EvidenceSame DEF LInv, EvidenceOK, evidence

LEMMA KeepRest ==
  ASSUME LInv, Steady, UNCHANGED <<evidence, gov, pass, packet>>, CountsOK'
  PROVE  LInv' /\ HeldMoves
  <1>1. refs' \in [Card -> SUBSET Card] /\ AllCited /\ UNCHANGED <<edges, cut>> BY RefsOK
  <1> QED BY <1>1, KeepHand

\* A step of the pass of task p, which becomes m.
LEMMA KeepPassRefs ==
  ASSUME LInv, Steady, refs' \in [Card -> SUBSET Card], AllCited,
         UNCHANGED <<edges, cut, gov, packet>>, CountsOK',
         NEW p \in Task, NEW m, pass' = [pass EXCEPT ![p] = m], PassOK(m, Existing'), ReadOK(m)',
         m.at = "promote" => \A c \in m.todo : c \in HeldBy(p) \/ status[c] = "candidate"
  PROVE  LInv' /\ HeldMoves
  <1>1. pass = [q \in Task |-> pass[q]] /\ \A q \in Task : PassOK(pass[q], Existing) /\ ReadOK(pass[q])
    BY DEF LInv, HoldersOK
  <1>2. pass' = [q \in Task |-> pass'[q]] /\ pass'[p] = m /\ \A q \in Task \ {p} : pass'[q] = pass[q]
    BY <1>1
  <1>3. \A q \in Task : PassOK(pass'[q], Existing') /\ ReadOK(pass[q])'
    <2> SUFFICES ASSUME NEW q \in Task PROVE PassOK(pass'[q], Existing') /\ ReadOK(pass[q])'
      OBVIOUS
    <2>1. CASE q = p BY <1>2, <2>1 DEF ReadOK
    <2>2. CASE q # p
      <3>1. PICK n : n = pass[q] OBVIOUS
      <3>2. PassOK(n, Existing) /\ ReadOK(n) /\ Cited BY <1>1, <3>1 DEF Cited, AllCited
      <3>3. PassOK(n, Existing') /\ ReadOK(n)' BY <3>2, PassGrows, ReadGrows DEF Steady
      <3>4. n = pass'[q] BY <1>2, <2>2, <3>1
      <3> QED BY <3>3, <3>4 DEF ReadOK
    <2> QED BY <2>1, <2>2
  <1>4. GovOK' BY DEF LInv, HoldersOK, GovOK
  <1>5. EvidenceOK' BY DEF LInv, EvidenceOK
  <1>6. EvidenceLinked' BY LinkedSame DEF LInv, Steady, Marked
  <1>7. packet' = packet OBVIOUS
  <1>8. HoldersOK' BY <1>2, <1>3, <1>4, <1>7 DEF LInv, HoldersOK
  <1>9. ASSUME NEW c \in HeldCards' PROVE c \in HeldCards \/ status[c] = "candidate"
    <2>1. PICK q \in Task : c \in HeldBy(q)' BY DEF HeldCards
    <2>2. CASE q = p BY <1>2, <2>1, <2>2 DEF HeldBy, HeldCards
    <2>3. CASE q # p BY <1>2, <2>1, <2>3 DEF HeldBy, HeldCards
    <2> QED BY <2>2, <2>3
  <1> QED BY <1>5, <1>6, <1>8, <1>9 DEF LInv, Steady, HeldMoves

LEMMA KeepPass ==
  ASSUME LInv, Steady, UNCHANGED <<evidence, gov, packet>>, CountsOK',
         NEW p \in Task, NEW m, pass' = [pass EXCEPT ![p] = m], PassOK(m, Existing'), ReadOK(m)',
         m.at = "promote" => \A c \in m.todo : c \in HeldBy(p) \/ status[c] = "candidate"
  PROVE  LInv' /\ HeldMoves
  <1>1. refs' \in [Card -> SUBSET Card] /\ AllCited /\ UNCHANGED <<edges, cut>> BY RefsOK
  <1> QED BY <1>1, KeepPassRefs

\* A step of turn u, whose packet becomes m.
LEMMA KeepPacket ==
  ASSUME LInv, Steady, UNCHANGED <<evidence, gov, pass>>, CountsOK',
         NEW u \in Turn, NEW m, packet' = [packet EXCEPT ![u] = m], PacketOK(m)
  PROVE  LInv' /\ HeldMoves
  <1>1. packet = [v \in Turn |-> packet[v]] /\ \A v \in Turn : PacketOK(packet[v])
    BY DEF LInv, HoldersOK
  <1>2. packet' = [v \in Turn |-> packet'[v]] /\ \A v \in Turn : PacketOK(packet'[v])
    BY <1>1
  <1>3. pass' = pass OBVIOUS
  <1>4. \A p \in Task : PassOK(pass'[p], Existing') /\ ReadOK(pass[p])'
    <2> SUFFICES ASSUME NEW p \in Task PROVE PassOK(pass'[p], Existing') /\ ReadOK(pass[p])'
      OBVIOUS
    <2>1. PICK n : n = pass[p] OBVIOUS
    <2>2. PassOK(n, Existing) /\ ReadOK(n) /\ Cited BY <2>1, EvidenceSame DEF LInv, HoldersOK
    <2>3. PassOK(n, Existing') /\ ReadOK(n)' BY <2>2, PassGrows, ReadGrows DEF Steady
    <2>4. n = pass'[p] BY <1>3, <2>1
    <2> QED BY <2>3, <2>4 DEF ReadOK
  <1>5. GovOK' BY DEF LInv, HoldersOK, GovOK
  <1>6. EvidenceOK' BY DEF LInv, EvidenceOK, evidence
  <1>7. EvidenceLinked' BY RefsOK, LinkedSame DEF LInv, Steady, Marked
  <1>8. HoldersOK' BY <1>2, <1>3, <1>4, <1>5 DEF LInv, HoldersOK
  <1> QED BY <1>3, <1>6, <1>7, <1>8, HeldSame DEF LInv, Steady

LEMMA CountsKept == ASSUME CountsOK, UNCHANGED <<runs, edits, turns, faults>> PROVE CountsOK'
  BY DEF CountsOK

LEMMA Quiet == /\ Idle.at = "idle" /\ NoCard \notin Card
               /\ \A c \in Card : Says[c] \in Claims
  BY MemoryLifeAssumption DEF Idle, Claims

\* What one step has to do.
Good == LInv' /\ Steady /\ Moves /\ HeldMoves

-----------------------------------------------------------------------------
(***************************************************************************)
(* Time, tasks and users                                                   *)
(***************************************************************************)

LEMMA ClockGood == ASSUME LInv, Clock PROVE Good
  <1>1. status' = status /\ born' = born /\ text' = text /\ score' = score BY DEF Clock
  <1>2. age' \in [Card -> 0..MaxAge]
    <2>1. age \in [Card -> 0..MaxAge] /\ MaxAge \in Nat BY MemoryLifeAssumption DEF LInv, CardsOK
    <2>2. \A c \in Card : age[c] \in 0..MaxAge BY <2>1
    <2>3. \A c \in Card : age[c] < MaxAge => age[c] + 1 \in 0..MaxAge BY <2>1, <2>2
    <2>4. age' = [c \in Card |-> IF Exists(c) /\ Decays(c) /\ age[c] < MaxAge
                                  THEN age[c] + 1 ELSE age[c]] BY DEF Clock
    <2> QED BY <2>2, <2>3, <2>4
  <1>6. LabelsOK' /\ Marked
    <2>1. UNCHANGED labels BY DEF Clock
    <2>2. \A d \in Card : Exists(d) => Exists(d)' BY <1>1 DEF Exists
    <2> QED BY <2>1, <2>2, LabelsSame DEF LInv, CardsOK
  <1>3. Steady BY <1>1, <1>2, <1>6, SameCards DEF LInv, CardsOK, Steady
  <1>4. UNCHANGED <<evidence, gov, pass, packet>> BY DEF Clock
  <1>5. CountsOK' BY CountsKept DEF Clock, counts, LInv
  <1> QED BY <1>1, <1>3, <1>4, <1>5, SameStatus, KeepRest DEF Good

LEMMA SchedulerDecayGood == ASSUME LInv, SchedulerDecay PROVE Good
  <1>1. Steady /\ Moves BY DecayKeeps DEF LInv, SchedulerDecay
  <1>2. UNCHANGED <<evidence, gov, pass, packet>> BY DEF SchedulerDecay
  <1>3. CountsOK' BY CountsKept DEF SchedulerDecay, counts, LInv
  <1> QED BY <1>1, <1>2, <1>3, KeepRest DEF Good

LEMMA TaskDoneGood == ASSUME LInv, NEW k \in Procedure \cup Class, TaskDone(k) PROVE Good
  <1>1. Steady /\ status' = status BY CardsKept DEF TaskDone, LInv
  <1>2. UNCHANGED <<evidence, gov, pass, packet>> BY DEF TaskDone
  <1>3. CountsOK'
    <2>1. runs \in [Procedure \cup Class -> 0..MinRuns] /\ MinRuns \in Nat
      BY MemoryLifeAssumption DEF LInv, CountsOK
    <2>2. runs[k] \in 0..MinRuns /\ runs[k] < MinRuns BY <2>1 DEF TaskDone
    <2>3. runs[k] + 1 \in 0..MinRuns BY <2>1, <2>2
    <2>4. runs' = [runs EXCEPT ![k] = runs[k] + 1] BY Zenon DEF TaskDone
    <2>5. runs' \in [Procedure \cup Class -> 0..MinRuns] BY <2>1, <2>3, <2>4
    <2>6. edits' = edits /\ turns' = turns /\ faults' = faults BY DEF TaskDone, counts
    <2> QED BY <2>5, <2>6 DEF LInv, CountsOK
  <1> QED BY <1>1, <1>2, <1>3, SameStatus, KeepRest DEF Good

LEMMA EditCounts ==
  ASSUME CountsOK, edits < MaxEdits, edits' = edits + 1, UNCHANGED <<runs, turns, faults>>
  PROVE  CountsOK'
  <1>1. edits \in 0..MaxEdits /\ MaxEdits \in Nat BY MemoryLifeAssumption DEF CountsOK
  <1>2. edits' \in 0..MaxEdits BY <1>1
  <1> QED BY <1>2 DEF CountsOK

LEMMA RecordChatEventGood == ASSUME LInv, NEW c \in Card, RecordChatEvent(c) PROVE Good
  <1>1. ~Exists(c) /\ CardType[c] = "event" /\ CreateCard(c, "active", 900, Says[c])
    BY DEF RecordChatEvent
  <1>2. Steady /\ status' = [status EXCEPT ![c] = "active"] /\ over'[c] = NoCard
    BY <1>1, CreateKeeps, Quiet DEF LInv, Status
  <1>4. Moves BY <1>1, <1>2, OneMoves DEF LInv, Status
  <1>5. UNCHANGED <<evidence, gov, pass, packet>> BY DEF RecordChatEvent
  <1>6. CountsOK' BY CountsKept DEF RecordChatEvent, counts, LInv
  <1> QED BY <1>2, <1>4, <1>5, <1>6, KeepRest DEF Good

LEMMA UpsertCardGood == ASSUME LInv, NEW c \in Card, UpsertCard(c) PROVE Good
  <1>1. c \in Found BY DEF UpsertCard
  <1>3. UNCHANGED <<evidence, gov, pass, packet>> BY DEF UpsertCard
  <1>4. CASE ~Exists(c) /\ CreateCard(c, "candidate", 1000, Says[c]) /\ UNCHANGED edits
    <2>1. Steady /\ status' = [status EXCEPT ![c] = "candidate"] /\ over'[c] = NoCard
      BY <1>4, CreateKeeps, Quiet DEF LInv, Status
    <2>2. Moves BY <1>4, <2>1, OneMoves DEF LInv, Status
    <2>3. CountsOK' BY <1>4, CountsKept DEF UpsertCard, LInv
    <2> QED BY <1>3, <2>1, <2>2, <2>3, KeepRest DEF Good
  <1>5. CASE /\ Exists(c) /\ edits < MaxEdits /\ UpdateAs(c, "candidate", Says[c])
             /\ scope' = [scope EXCEPT ![c] = ScopeOf[c]]
             /\ edits' = edits + 1
             /\ UNCHANGED <<over, byhand>>
    <2>0. LabelsOK' /\ Marked
      <3>1. scope' \in [Card -> Scope] BY <1>5, MemoryLifeAssumption DEF LInv, CardsOK, LabelsOK
      <3>2. \A d \in Card : Exists(d) => Exists(d)'
        BY <1>5, StatusStays DEF UpdateAs, LInv, Status
      <3> QED BY <1>5, <3>1, <3>2 DEF LInv, CardsOK, LabelsOK, Marked
    <2>1. Steady /\ status' = [status EXCEPT ![c] = "candidate"]
      BY <1>5, <2>0, UpdateAsKeeps, Quiet DEF LInv, Status
    <2>2. Moves BY <1>1, <1>5, <2>1, OneMoves DEF LInv
    <2>3. CountsOK' BY <1>5, EditCounts DEF UpsertCard, LInv
    <2> QED BY <1>3, <2>1, <2>2, <2>3, KeepRest DEF Good
  <1> QED BY <1>4, <1>5 DEF UpsertCard

\* What a request gives is of the type of its field.
LEMMA RequestOK ==
  ASSUME NEW c \in Card, NEW e \in CreateRequests[c] \cup UpdateRequests[c]
  PROVE  /\ e.status \in Status \cup {"none"} /\ e.supersedes \in Card \cup {NoCard}
         /\ e.scope \in Scope \cup {"none"} /\ e.content \in Text \cup {"none"}
         /\ e.evidence \in SUBSET Card
  <1>1. e \in HandRequest BY MemoryLifeAssumption
  <1> QED BY <1>1 DEF HandRequest

\* The labels a request leaves.
LEMMA Labelling ==
  ASSUME LInv, NEW c \in Card, NEW e \in CreateRequests[c] \cup UpdateRequests[c], NEW place \in Scope,
         NEW ok \in BOOLEAN, Label(c, e, place, ok), \A d \in Card : Exists(d) => Exists(d)', Exists(c)',
         Exists(c) /\ ok => e.supersedes = NoCard
  PROVE  /\ LabelsOK' /\ Marked /\ refs' \in [Card -> SUBSET Card] /\ AllCited
         /\ UNCHANGED <<edges, cut>>
         /\ over'[c] = Given(e.supersedes, NoCard, over[c])
         /\ c \in byhand' \/ ok
         /\ ok \/ c \in byhand'
  <1>1. /\ e.supersedes \in Card \cup {NoCard} /\ e.scope \in Scope \cup {"none"}
        /\ e.evidence \in SUBSET Card
    BY RequestOK
  <1>2. /\ scope \in [Card -> Scope] /\ over \in [Card -> Card \cup {NoCard}]
        /\ refs \in [Card -> SUBSET Card] /\ byhand \subseteq Card
        /\ \A d \in Card : Exists(d) \/ over[d] = NoCard
    BY DEF LInv, CardsOK, LabelsOK, EvidenceOK
  <1>3. PICK x, y, z : /\ x = Given(e.scope, "none", place)
                       /\ y = Given(e.supersedes, NoCard, over[c])
                       /\ z = Given(e.evidence, {}, refs[c])
    OBVIOUS
  <1>4. x \in Scope /\ y \in Card \cup {NoCard} /\ z \in SUBSET Card
    BY <1>1, <1>2, <1>3 DEF Given
  <1>5. /\ scope' = [scope EXCEPT ![c] = x] /\ over' = [over EXCEPT ![c] = y]
        /\ refs' = [refs EXCEPT ![c] = z]
    BY <1>3, Zenon DEF Label
  <1>6. byhand' = IF ok /\ e.evidence = {} THEN byhand ELSE byhand \cup {c}
    BY DEF Label
  <1>7. UNCHANGED <<edges, cut>> BY DEF Label
  <1>8. scope' \in [Card -> Scope] /\ over' \in [Card -> Card \cup {NoCard}] /\ byhand' \subseteq Card
    BY <1>2, <1>4, <1>5, <1>6
  <1>9. LabelsOK' BY <1>2, <1>5, <1>8 DEF LabelsOK
  <1>10. c \in byhand' \/ (ok /\ e.evidence = {}) BY <1>6
  <1>11. c \in byhand' \/ ~Exists(c) \/ over'[c] = over[c]
    <2>1. Exists(c) /\ ok => y = over[c] BY <1>3 DEF Given
    <2> QED BY <1>2, <1>5, <1>10, <2>1
  <1>12. Marked BY <1>2, <1>5, <1>6, <1>11 DEF Marked
  <1>13. AllCited
    <2>1. e.evidence = {} => z = refs[c] BY <1>3 DEF Given
    <2> QED BY <1>2, <1>5, <1>10, <2>1 DEF AllCited
  <1>14. refs' \in [Card -> SUBSET Card] BY <1>2, <1>4, <1>5
  <1> QED BY <1>2, <1>3, <1>5, <1>7, <1>9, <1>10, <1>12, <1>13, <1>14

LEMMA HandCreateGood ==
  ASSUME LInv, NEW c \in Card, NEW e \in CreateRequests[c], HandCreate(c, e) PROVE Good
  <1>1. PICK st, tx, ok :
          /\ st = Given(e.status, "none", "active") /\ tx = Given(e.content, "none", Says[c])
          /\ ok = (e.supersedes # NoCard => e.status = "candidate" /\ Exists(e.supersedes))
    OBVIOUS
  <1>2. ~Exists(c) /\ CreateAs(c, st, 1000, tx) /\ Label(c, e, ScopeOf[c], ok)
    BY <1>1, Zenon DEF HandCreate
  <1>3. st \in Status /\ tx \in Claims /\ ScopeOf[c] \in Scope
    BY <1>1, RequestOK, Quiet, MemoryLifeAssumption DEF Given, Claims, Status
  <1>4. status' = [status EXCEPT ![c] = st] BY <1>2 DEF CreateAs
  <1>5. (\A d \in Card : Exists(d) => Exists(d)') /\ Exists(c)'
    BY <1>3, <1>4 DEF LInv, CardsOK, Exists, Status
  <1>6. /\ LabelsOK' /\ Marked /\ refs' \in [Card -> SUBSET Card] /\ AllCited
        /\ UNCHANGED <<edges, cut>>
        /\ over'[c] = Given(e.supersedes, NoCard, over[c]) /\ (c \in byhand' \/ ok)
    <2>1. PICK place \in Scope : place = ScopeOf[c] BY <1>3
    <2>2. ok \in BOOLEAN BY <1>1
    <2> QED BY <1>2, <1>5, <2>1, <2>2, Labelling
  <1>7. Steady BY <1>2, <1>3, <1>6, CreateAsKeeps DEF LInv
  <1>8. c \notin byhand' /\ over'[c] # NoCard => st = "candidate" /\ Exists(over'[c])
    <2>1. over[c] = NoCard BY <1>2 DEF LInv, CardsOK, LabelsOK
    <2>2. over'[c] = e.supersedes BY <1>6, <2>1 DEF Given
    <2> QED BY <1>1, <1>6, <2>2 DEF Given
  <1>9. Moves BY <1>2, <1>3, <1>4, <1>8, OneMoves DEF LInv
  <1>10. UNCHANGED <<gov, pass, packet>> BY DEF HandCreate
  <1>11. CountsOK' BY CountsKept DEF HandCreate, counts, LInv
  <1> QED BY <1>6, <1>7, <1>9, <1>10, <1>11, KeepHand DEF Good

LEMMA ExistsStatus == ASSUME CardsOK, NEW c \in Card, Exists(c) PROVE status[c] \in Status /\ text[c] \in Claims
  BY DEF CardsOK, Exists

LEMMA HandEditGood ==
  ASSUME LInv, NEW c \in Card, NEW e \in UpdateRequests[c], HandEdit(c, e) PROVE Good
  <1>1. PICK st, tx, ok :
          /\ st = Given(e.status, "none", status[c]) /\ tx = Given(e.content, "none", text[c])
          /\ ok = (e.supersedes = NoCard /\ e.status \in {"none", "superseded", "archived"})
    OBVIOUS
  <1>2. Exists(c) /\ UpdateAs(c, st, tx) /\ Label(c, e, scope[c], ok)
    BY <1>1, Zenon DEF HandEdit
  <1>3. st \in Status /\ tx \in Claims /\ scope[c] \in Scope
    BY <1>1, <1>2, ExistsStatus, RequestOK DEF Given, Claims, LInv, CardsOK, LabelsOK
  <1>4. status' = [status EXCEPT ![c] = st] BY <1>2 DEF UpdateAs
  <1>5. (\A d \in Card : Exists(d) => Exists(d)') /\ Exists(c)'
    BY <1>3, <1>4 DEF LInv, CardsOK, Exists, Status
  <1>6. /\ LabelsOK' /\ Marked /\ refs' \in [Card -> SUBSET Card] /\ AllCited
        /\ UNCHANGED <<edges, cut>> /\ (c \in byhand' \/ ok)
    <2>1. PICK place \in Scope : place = scope[c] BY <1>3
    <2>2. ok \in BOOLEAN /\ (ok => e.supersedes = NoCard) BY <1>1
    <2> QED BY <1>2, <1>5, <2>1, <2>2, Labelling
  <1>7. Steady BY <1>2, <1>3, <1>6, UpdateAsKeeps DEF LInv
  <1>8. Moves
    <2>1. CASE e.status = "none"
      <3>1. st = status[c] BY <1>1, <2>1 DEF Given
      <3> QED BY <1>4, <3>1, OneMoves DEF LInv
    <2>2. CASE e.status \in {"superseded", "archived"}
      <3>1. st \in {"superseded", "archived"} BY <1>1, <2>2 DEF Given
      <3> QED BY <1>2, <1>4, <3>1, OneMoves DEF LInv
    <2>3. CASE e.status \notin {"none", "superseded", "archived"}
      <3>1. c \in byhand' BY <1>1, <1>6, <2>3
      <3>2. SetByHand(c) BY <2>3 DEF SetByHand
      <3> QED BY <1>2, <1>4, <3>1, <3>2, OneMoves DEF LInv
    <2> QED BY <2>1, <2>2, <2>3
  <1>9. UNCHANGED <<gov, pass, packet>> BY DEF HandEdit
  <1>10. CountsOK'
    <2>1. edits < MaxEdits /\ edits' = edits + 1 /\ UNCHANGED <<runs, turns, faults>> BY DEF HandEdit
    <2> QED BY <2>1, EditCounts DEF LInv
  <1> QED BY <1>6, <1>7, <1>8, <1>9, <1>10, KeepHand DEF Good

-----------------------------------------------------------------------------
(***************************************************************************)
(* The governance loop                                                     *)
(***************************************************************************)

LEMMA QueryIn ==
  ASSUME NEW type, NEW where, NEW st, NEW c \in Query(type, where, st)
  PROVE  c \in Card /\ status[c] = st
  BY Zenon DEF Query

LEMMA ClustersOK == ASSUME CardsOK, NEW where PROVE LeftOK(Clusters(where))
  <1> DEFINE found == Query("event", where, "active")
             on(t) == {c \in found : Topic[c] = t}
             large == {t \in {Topic[c] : c \in found} :
                         /\ Cardinality(on(t)) >= MinOccurrences
                         /\ averageConfidence(on(t)) >= MinConfidence}
  <1>1. Clusters(where) = [t \in large |-> {<<c, text[c]>> : c \in on(t)}]
    BY Zenon DEF Clusters
  <1>2. \A c \in found : c \in Card BY QueryIn
  <1>3. \A c \in Card : text[c] \in Claims BY DEF CardsOK
  <1> HIDE DEF found, large
  <1> QED BY <1>1, <1>2, <1>3 DEF LeftOK

LEMMA AfterScopeAt == ASSUME NEW i PROVE AfterScope(i).at \in {"upgrade", "active"}
  BY DEF AfterScope

LEMMA NextTopicAt ==
  ASSUME NEW left
  PROVE  /\ NextTopic(left).at \in {"upgrade", "active", "look"}
         /\ NextTopic(left).at = "look" => NextTopic(left).left = left
  BY AfterScopeAt DEF NextTopic

\* Once nothing is left to link, all evidence has its edge.
LEMMA LinkedNow ==
  ASSUME EvidenceLinked, gov.at # "link", UNCHANGED evidence, byhand \subseteq byhand'
  PROVE  EvidenceLinked'
  BY DEF EvidenceLinked, evidence

LEMMA WithoutOK == ASSUME NEW f, NEW t, LeftOK(f) PROVE LeftOK(Without(f, t))
  BY DEF LeftOK, Without

\* A step of the loop that only reads.
LEMMA LoopGood ==
  ASSUME LInv, gov.at # "link", gov'.at # "link", UNCHANGED <<cards, evidence, pass, packet, runs, counts>>,
         gov'.at \in {"look", "create"} => LeftOK(gov'.left),
         gov'.at = "create" => gov'.topic \in DOMAIN gov'.left \cap DOMAIN FactOf
  PROVE  Good
  <1>1. Steady /\ status' = status BY CardsKept DEF LInv
  <1>2. GovOK' BY DEF GovOK
  <1>3. EvidenceLinked' BY <1>1, LinkedNow DEF LInv, Steady, Marked
  <1>4. EvidenceOK' BY DEF LInv, EvidenceOK, evidence
  <1>5. CountsOK' BY CountsKept DEF counts, LInv
  <1> QED BY <1>1, <1>2, <1>3, <1>4, <1>5, SameStatus, EvidenceSame, KeepGov DEF Good

LEMMA TickGood == ASSUME LInv, Tick PROVE Good
  <1>1. Steady /\ Moves BY DecayKeeps DEF LInv, Tick
  <1>2. gov.at = "idle" /\ gov'.at = "upgrade" BY Quiet DEF Tick
  <1>3. GovOK' BY <1>2 DEF GovOK
  <1>4. EvidenceLinked' BY <1>1, <1>2, LinkedNow DEF LInv, Tick, Steady, Marked
  <1>5. EvidenceOK' BY DEF LInv, EvidenceOK, evidence, Tick
  <1>6. CountsOK' BY CountsKept DEF Tick, counts, LInv
  <1>7. UNCHANGED <<pass, packet>> /\ Cited BY EvidenceSame DEF Tick
  <1> QED BY <1>1, <1>3, <1>4, <1>5, <1>6, <1>7, KeepGov DEF Good

LEMMA UpgradeQueryGood == ASSUME LInv, UpgradeQuery PROVE Good
  <1>1. PICK left : left = Clusters(UpgradeScopes[gov.i]) OBVIOUS
  <1>2. LeftOK(left) BY <1>1, ClustersOK DEF LInv
  <1>3. gov.at = "upgrade" /\ gov' = NextTopic(left) BY <1>1, Zenon DEF UpgradeQuery
  <1>4. gov'.at \in {"upgrade", "active", "look"} /\ (gov'.at = "look" => gov'.left = left)
    BY <1>3, NextTopicAt
  <1>5. UNCHANGED <<cards, evidence, pass, packet, runs, counts>> BY DEF UpgradeQuery
  <1> QED BY <1>2, <1>3, <1>4, <1>5, LoopGood

LEMMA UpgradeLookGood == ASSUME LInv, NEW t \in DOMAIN FactOf, UpgradeLook(t) PROVE Good
  <1>1. gov.at = "look" /\ t \in DOMAIN gov.left BY DEF UpgradeLook
  <1>2. LeftOK(gov.left) BY <1>1 DEF LInv, HoldersOK, GovOK
  <1>3. UNCHANGED <<cards, evidence, pass, packet, runs, counts>> BY DEF UpgradeLook
  <1>4. CASE Exists(FactOf[t])
    <2>1. PICK left : left = Without(gov.left, t) OBVIOUS
    <2>2. LeftOK(left) BY <1>2, <2>1, WithoutOK
    <2>3. gov' = NextTopic(left) BY <1>4, <2>1, Zenon DEF UpgradeLook
    <2>4. gov'.at \in {"upgrade", "active", "look"} /\ (gov'.at = "look" => gov'.left = left)
      BY <2>3, NextTopicAt
    <2> QED BY <1>1, <1>3, <2>2, <2>4, LoopGood
  <1>5. CASE ~Exists(FactOf[t])
    <2>1. gov' = [at |-> "create", i |-> gov.i, left |-> gov.left, topic |-> t]
      BY <1>5, Zenon DEF UpgradeLook
    <2>2. gov'.at = "create" /\ gov'.left = gov.left /\ gov'.topic = t BY <2>1
    <2> QED BY <1>1, <1>2, <1>3, <2>2, LoopGood
  <1> QED BY <1>4, <1>5

LEMMA ConflictActiveGood == ASSUME LInv, ConflictActive PROVE Good
  <1>1. gov.at = "active" /\ gov'.at = "candidates"
    <2>1. PICK S : gov' = [at |-> "candidates", i |-> gov.i, seen |-> S] BY Zenon DEF ConflictActive
    <2> QED BY <2>1 DEF ConflictActive
  <1>2. UNCHANGED <<cards, evidence, pass, packet, runs, counts>> BY Zenon DEF ConflictActive
  <1> QED BY <1>1, <1>2, LoopGood

LEMMA ConflictReportGood == ASSUME LInv, ConflictReport PROVE Good
  <1>1. gov.at = "candidates" /\ gov'.at \in {"active", "idle"}
    <2>1. gov' = IF gov.i < Len(ConflictScopes) THEN [at |-> "active", i |-> gov.i + 1] ELSE Idle
      BY Zenon DEF ConflictReport
    <2>2. gov.at = "candidates" BY Zenon DEF ConflictReport
    <2> QED BY <2>1, <2>2, Quiet
  <1>2. UNCHANGED <<cards, evidence, pass, packet, runs, counts>> BY Zenon DEF ConflictReport
  <1> QED BY <1>1, <1>2, LoopGood

\* The events of a cluster.
Firsts(S) == {x[1] : x \in S}

\* The fact of a cluster of events is made.
LEMMA FactMade ==
  ASSUME LInv, gov.at = "create", NEW fact, fact = FactOf[gov.topic], ~Exists(fact),
         NEW S, S = gov.left[gov.topic], NEW s \in S, CreateCard(fact, "candidate", 1000, s[2]),
         NEW R, R = Firsts(S)
  PROVE  Steady /\ Moves /\ fact \in Card /\ R \subseteq Card /\ LeftOK(gov.left)
  <1>1. /\ LeftOK(gov.left) /\ gov.topic \in DOMAIN gov.left
        /\ gov.topic \in DOMAIN FactOf
    BY DEF LInv, HoldersOK, GovOK
  <1>2. S \subseteq Card \X Claims BY <1>1 DEF LeftOK
  <1>3. fact \in Card BY <1>1, MemoryLifeAssumption
  <1>4. s[2] \in Claims /\ R \subseteq Card BY <1>2 DEF Firsts
  <1>5. Steady /\ status' = [status EXCEPT ![fact] = "candidate"] /\ over'[fact] = NoCard
    BY <1>3, <1>4, CreateKeeps DEF LInv, Status
  <1>7. Moves BY <1>3, <1>5, OneMoves DEF LInv, Status
  <1> QED BY <1>1, <1>3, <1>4, <1>5, <1>7

LEMMA UpgradeCreateGood == ASSUME LInv, UpgradeCreate PROVE Good
  <1>1. gov.at = "create" /\ UNCHANGED <<pass, packet, runs, counts>> BY DEF UpgradeCreate
  <1>2. PICK fact, S, R : /\ fact = FactOf[gov.topic] /\ S = gov.left[gov.topic]
                          /\ R = Firsts(S)
    OBVIOUS
  <1>3. CASE Exists(fact) /\ gov' = AfterScope(gov.i) /\ UNCHANGED <<cards, evidence>>
    <2>1. gov'.at \in {"upgrade", "active"} BY <1>3, AfterScopeAt
    <2> QED BY <1>1, <1>3, <2>1, LoopGood
  <1>4. CASE /\ ~Exists(fact)
             /\ \E s \in S : CreateCard(fact, "candidate", 1000, s[2])
             /\ refs' = [refs EXCEPT ![fact] = R]
             /\ gov' = [at |-> "link", i |-> gov.i, left |-> Without(gov.left, gov.topic),
                        fact |-> fact, todo |-> R]
             /\ UNCHANGED <<edges, cut>>
    <2>1. PICK s \in S : CreateCard(fact, "candidate", 1000, s[2]) BY <1>4
    <2>2. /\ Steady /\ Moves /\ fact \in Card /\ R \subseteq Card /\ LeftOK(gov.left)
          /\ refs' \in [Card -> SUBSET Card]
          /\ refs'[fact] = R /\ \A f \in Card \ {fact} : refs'[f] = refs[f]
      <3>1. ~Exists(fact) /\ refs' = [refs EXCEPT ![fact] = R] BY <1>4
      <3>2. Steady /\ Moves /\ fact \in Card /\ R \subseteq Card /\ LeftOK(gov.left)
        BY <1>1, <1>2, <2>1, <3>1, FactMade
      <3>3. refs \in [Card -> SUBSET Card] BY DEF LInv, EvidenceOK
      <3> QED BY <3>1, <3>2, <3>3
    <2>3. PICK left : left = Without(gov.left, gov.topic) OBVIOUS
    <2>4. LeftOK(left) BY <2>2, <2>3, WithoutOK
    <2>5. gov' = [at |-> "link", i |-> gov.i, left |-> left, fact |-> fact, todo |-> R]
      BY <1>4, <2>3
    <2>6. GovOK' BY <2>2, <2>4, <2>5 DEF GovOK
    <2>7. EvidenceOK' BY <1>4, <2>2 DEF EvidenceOK, LInv
    <2>8. gov'.at = "link" /\ gov'.fact = fact /\ gov'.todo = R BY <2>5
    <2>9. EvidenceLinked' BY <1>1, <1>4, <2>2, <2>8 DEF EvidenceLinked, LInv, Steady, Marked
    <2>10. CountsOK' BY <1>1, CountsKept DEF counts, LInv
    <2>11. Cited BY <1>4, <2>2 DEF Cited
    <2> QED BY <1>1, <2>2, <2>6, <2>7, <2>9, <2>10, <2>11, KeepGov DEF Good
  <1> QED BY <1>2, <1>3, <1>4, ZenonT(40) DEF UpgradeCreate, Firsts

\* What the loop holds once event c is dealt with.
LEMMA LinkNext ==
  ASSUME LInv, gov.at = "link", NEW c \in gov.todo,
         gov' = IF gov.todo = {c} THEN NextTopic(gov.left) ELSE [gov EXCEPT !.todo = @ \ {c}]
  PROVE  /\ GovOK' /\ c \in Card /\ gov.fact \in Card
         /\ \A e \in gov.todo \ {c} : gov'.at = "link" /\ gov'.fact = gov.fact /\ e \in gov'.todo
  <1>1. /\ gov = [at |-> "link", i |-> gov.i, left |-> gov.left, fact |-> gov.fact,
                  todo |-> gov.todo]
        /\ gov.fact \in Card /\ gov.todo \subseteq Card /\ LeftOK(gov.left)
    BY DEF LInv, HoldersOK, GovOK
  <1>2. CASE gov.todo = {c}
    <2>1. gov' = NextTopic(gov.left) BY <1>2
    <2>2. gov'.at \in {"upgrade", "active", "look"} /\ (gov'.at = "look" => gov'.left = gov.left)
      BY <2>1, NextTopicAt
    <2>3. GovOK' BY <1>1, <2>2 DEF GovOK
    <2> QED BY <1>1, <1>2, <2>3
  <1>3. CASE gov.todo # {c}
    <2>1. gov' = [at |-> "link", i |-> gov.i, left |-> gov.left, fact |-> gov.fact,
                  todo |-> gov.todo \ {c}]
      BY <1>1, <1>3
    <2>2. GovOK' BY <1>1, <2>1 DEF GovOK
    <2> QED BY <1>1, <2>1, <2>2
  <1> QED BY <1>2, <1>3

LEMMA UpgradeLinkGood == ASSUME LInv, NEW c \in Card, UpgradeLink(c) PROVE Good
  <1>1. gov.at = "link" /\ c \in gov.todo /\ edges' = edges \cup {<<c, gov.fact>>}
    BY DEF UpgradeLink
  <1>2. /\ GovOK' /\ gov.fact \in Card
        /\ \A e \in gov.todo \ {c} : gov'.at = "link" /\ gov'.fact = gov.fact /\ e \in gov'.todo
    BY <1>1, LinkNext DEF UpgradeLink
  <1>3. refs' = refs /\ cut' = cut /\ UNCHANGED <<cards, pass, packet, runs, counts>>
    BY DEF UpgradeLink
  <1>4. EvidenceOK' BY <1>1, <1>2, <1>3 DEF LInv, EvidenceOK
  <1>6. Steady /\ status' = status BY <1>3, CardsKept DEF LInv
  <1>5. EvidenceLinked' BY <1>1, <1>2, <1>3, <1>6 DEF LInv, EvidenceLinked, Steady, Marked
  <1>7. CountsOK' BY <1>3, CountsKept DEF counts, LInv
  <1>8. Cited BY <1>3 DEF Cited
  <1> QED BY <1>2, <1>3, <1>4, <1>5, <1>6, <1>7, <1>8, SameStatus, KeepGov DEF Good

LEMMA FaultCounts ==
  ASSUME CountsOK, faults < MaxFaults, faults' = faults + 1, UNCHANGED <<runs, edits, turns>>
  PROVE  CountsOK' /\ faults' # 0
  <1>1. faults \in 0..MaxFaults /\ MaxFaults \in Nat BY MemoryLifeAssumption DEF CountsOK
  <1>2. faults' \in 0..MaxFaults /\ faults' # 0 BY <1>1
  <1> QED BY <1>2 DEF CountsOK

LEMMA UpgradeFailsGood == ASSUME LInv, UpgradeFails PROVE Good
  <1>1. CountsOK' BY FaultCounts DEF LInv, UpgradeFails
  <1>2. edges' = edges /\ UNCHANGED <<pass, packet>> BY DEF UpgradeFails
  <1>3. PICK fact, S, R : /\ fact = FactOf[gov.topic] /\ S = gov.left[gov.topic]
                          /\ R = Firsts(S)
    OBVIOUS
  <1>4. CASE /\ gov.at = "create" /\ ~Exists(fact)
             /\ \E s \in S : CreateCard(fact, "candidate", 1000, s[2])
             /\ refs' = [refs EXCEPT ![fact] = R]
             /\ cut' = cut \cup {fact}
             /\ gov' = AfterScope(gov.i)
    <2>1. PICK s \in S : CreateCard(fact, "candidate", 1000, s[2]) BY <1>4
    <2>2. /\ Steady /\ Moves /\ fact \in Card
          /\ refs' \in [Card -> SUBSET Card]
          /\ \A f \in Card \ {fact} : refs'[f] = refs[f]
      <3>1. ~Exists(fact) /\ refs' = [refs EXCEPT ![fact] = R] BY <1>4
      <3>2. gov.at = "create" BY <1>4
      <3>3. Steady /\ Moves /\ fact \in Card /\ R \subseteq Card /\ LeftOK(gov.left)
        BY <1>3, <2>1, <3>1, <3>2, FactMade
      <3>4. refs \in [Card -> SUBSET Card] BY DEF LInv, EvidenceOK
      <3> QED BY <3>1, <3>3, <3>4
    <2>3. gov'.at \in {"upgrade", "active"} BY <1>4, AfterScopeAt
    <2>4. GovOK' BY <2>3 DEF GovOK
    <2>5. EvidenceOK' BY <1>2, <1>4, <2>2 DEF EvidenceOK, LInv
    <2>6. EvidenceLinked' BY <1>2, <1>4, <2>2 DEF EvidenceLinked, LInv, Steady, Marked
    <2>7. Cited BY <1>4, <2>2 DEF Cited
    <2> QED BY <1>1, <1>2, <2>2, <2>4, <2>5, <2>6, <2>7, KeepGov DEF Good
  <1>5. CASE /\ gov.at = "link"
             /\ \E c \in gov.todo :
                  gov' = IF gov.todo = {c} THEN NextTopic(gov.left) ELSE [gov EXCEPT !.todo = @ \ {c}]
             /\ cut' = cut \cup {gov.fact}
             /\ UNCHANGED <<cards, refs>>
    <2>1. PICK c \in gov.todo :
            gov' = IF gov.todo = {c} THEN NextTopic(gov.left) ELSE [gov EXCEPT !.todo = @ \ {c}]
      BY <1>5
    <2>2. GovOK' /\ gov.fact \in Card BY <1>5, <2>1, LinkNext
    <2>3. cut' = cut \cup {gov.fact} /\ refs' = refs BY <1>5
    <2>4. EvidenceOK' BY <1>2, <2>2, <2>3 DEF EvidenceOK, LInv
    <2>6. Steady /\ status' = status BY <1>5, CardsKept DEF LInv
    <2>5. EvidenceLinked' BY <1>2, <2>3, <2>6 DEF EvidenceLinked, LInv, Steady, Marked
    <2>7. Cited BY <2>3 DEF Cited
    <2> QED BY <1>1, <1>2, <2>2, <2>4, <2>5, <2>6, <2>7, SameStatus, KeepGov DEF Good
  <1> QED BY <1>3, <1>4, <1>5, ZenonT(40) DEF UpgradeFails, Firsts

LEMMA CrashGood == ASSUME LInv, LifeCrash PROVE Good
  <1>1. CountsOK' BY FaultCounts DEF LInv, LifeCrash
  <1>2. Steady /\ status' = status BY CardsKept DEF LifeCrash, LInv
  <1>3. gov' = Idle /\ pass' = [p \in Task |-> Idle] /\ packet' = [u \in Turn |-> Idle] BY DEF LifeCrash
  <1>4. gov'.at = "idle" /\ GovOK' BY <1>3, Quiet DEF GovOK
  <1>5. HoldersOK' BY <1>3, <1>4, Quiet DEF HoldersOK, PassOK, ReadOK, PacketOK
  <1>6. edges' = edges /\ refs' = refs /\ cut' = IF gov.at = "link" THEN cut \cup {gov.fact} ELSE cut
    BY DEF LifeCrash
  <1>7. gov.at = "link" => gov.fact \in Card BY DEF LInv, HoldersOK, GovOK
  <1>8. EvidenceOK' BY <1>6, <1>7 DEF LInv, EvidenceOK
  <1>9. EvidenceLinked' BY <1>2, <1>6 DEF LInv, EvidenceLinked, Steady, Marked
  <1>10. HeldCards' = {} BY <1>3, Quiet DEF HeldCards, HeldBy
  <1> QED BY <1>1, <1>2, <1>5, <1>8, <1>9, <1>10, SameStatus DEF Good, LInv, Steady, HeldMoves

-----------------------------------------------------------------------------
(***************************************************************************)
(* Consolidations                                                          *)
(***************************************************************************)

LEMMA IdlePass == ASSUME NEW E PROVE PassOK(Idle, E)
  BY Quiet DEF PassOK

LEMMA RestOK ==
  ASSUME NEW r, NEW E, PassOK(r, E), r.at = "promote"
  PROVE  /\ PassOK(Rest(r), E)
         /\ Rest(r).at = "promote" => Rest(r) = r
  BY IdlePass, Quiet DEF Rest

\* A pass that does not promote has read nothing.
LEMMA NotRead == ASSUME NEW m, m.at # "promote" PROVE ReadOK(m)'
  BY DEF ReadOK

LEMMA ProcedureCard == ASSUME NEW c \in Procedure PROVE c \in Card
  BY DEF Procedure

LEMMA ConsolidateGood ==
  ASSUME LInv, NEW p \in Task, NEW req, Consolidate(p, req)
  PROVE  Good
  <1>1. PICK todo, ask : pass' = [pass EXCEPT ![p] =
          [at |-> "extract", req |-> req, class |-> "none", todo |-> todo, ask |-> ask]]
    BY Zenon DEF Consolidate
  <1>2. PICK m : m = [at |-> "extract", req |-> req, class |-> "none", todo |-> todo, ask |-> ask]
    OBVIOUS
  <1>3. PassOK(m, Existing') /\ m.at = "extract" BY <1>2 DEF PassOK
  <1>4. Steady /\ status' = status BY CardsKept DEF LInv, Consolidate
  <1>5. UNCHANGED <<evidence, gov, packet>> BY DEF Consolidate
  <1>6. CountsOK' BY CountsKept DEF Consolidate, counts, LInv
  <1>7. pass' = [pass EXCEPT ![p] = m] BY <1>1, <1>2
  <1> QED BY <1>3, <1>4, <1>5, <1>6, <1>7, NotRead, SameStatus, KeepPass DEF Good

\* A procedure is written, or not.
LEMMA WriteProcedure ==
  ASSUME LInv, NEW c \in Procedure,
         UNCHANGED cards \/ (~Exists(c) /\ CreateCard(c, "candidate", 1000, Says[c]))
  PROVE  Steady /\ Moves
  <1>1. CASE UNCHANGED cards BY <1>1, CardsKept, SameStatus DEF LInv
  <1>2. CASE ~Exists(c) /\ CreateCard(c, "candidate", 1000, Says[c])
    <2>1. Steady /\ status' = [status EXCEPT ![c] = "candidate"] /\ over'[c] = NoCard
      BY <1>2, CreateKeeps, Quiet, ProcedureCard DEF LInv, Status
    <2> QED BY <1>2, <2>1, ProcedureCard, OneMoves DEF LInv, Status
  <1> QED BY <1>1, <1>2

LEMMA ExtractOK ==
  ASSUME LInv, NEW p \in Task, pass[p].at \in {"extract", "asked"}
  PROVE  pass[p] = [at |-> pass[p].at, req |-> pass[p].req, class |-> pass[p].class,
                    todo |-> pass[p].todo, ask |-> pass[p].ask]
  BY DEF LInv, HoldersOK, PassOK

LEMMA ExtractProcedureGood ==
  ASSUME LInv, NEW p \in Task, NEW c \in Procedure, ExtractProcedure(p, c)
  PROVE  Good
  <1>1. pass[p].at = "extract" BY DEF ExtractProcedure
  <1>2. PICK m : m = [at |-> "extract", req |-> pass[p].req, class |-> pass[p].class,
                      todo |-> pass[p].todo \ {c}, ask |-> pass[p].ask]
    OBVIOUS
  <1>3. PassOK(m, Existing') /\ m.at = "extract" BY <1>2 DEF PassOK
  <1>4. pass' = [pass EXCEPT ![p] = m]
    <2>1. PICK q : q = pass[p] OBVIOUS
    <2>2. q = [at |-> q.at, req |-> q.req, class |-> q.class, todo |-> q.todo, ask |-> q.ask]
      BY <1>1, <2>1, ExtractOK
    <2>3. m = [q EXCEPT !.todo = q.todo \ {c}] BY <1>1, <1>2, <2>1, <2>2
    <2>4. pass' = [pass EXCEPT ![p] = [pass[p] EXCEPT !.todo = pass[p].todo \ {c}]]
      BY DEF ExtractProcedure
    <2> QED BY <2>1, <2>3, <2>4
  <1>5. Steady /\ Moves BY WriteProcedure DEF ExtractProcedure
  <1>6. UNCHANGED <<evidence, gov, packet>> BY DEF ExtractProcedure
  <1>7. CountsOK' BY CountsKept DEF ExtractProcedure, counts, LInv
  <1> QED BY <1>3, <1>4, <1>5, <1>6, <1>7, NotRead, KeepPass DEF Good

LEMMA SmartLookGood ==
  ASSUME LInv, NEW p \in Task, NEW k, SmartLook(p, k)
  PROVE  Good
  <1>1. pass[p].at = "extract" BY DEF SmartLook
  <1>2. PICK m : m = [at |-> IF Covered(k) THEN pass[p].at ELSE "asked", req |-> pass[p].req,
                      class |-> k, todo |-> pass[p].todo, ask |-> pass[p].ask \ {k}]
    OBVIOUS
  <1>3. PassOK(m, Existing') /\ m.at \in {"extract", "asked"} BY <1>1, <1>2 DEF PassOK
  <1>4. pass' = [pass EXCEPT ![p] = m]
    <2>1. PICK q, a, b : /\ q = pass[p] /\ a = q.ask \ {k}
                         /\ b = IF Covered(k) THEN q.at ELSE "asked"
      OBVIOUS
    <2>2. q = [at |-> q.at, req |-> q.req, class |-> q.class, todo |-> q.todo, ask |-> q.ask]
      BY <1>1, <2>1, ExtractOK
    <2>3. m = [q EXCEPT !.ask = a, !.at = b, !.class = k]
      <3>1. m = [at |-> b, req |-> q.req, class |-> k, todo |-> q.todo, ask |-> a]
        BY <1>2, <2>1, Zenon
      <3>2. PICK w : w = [q EXCEPT !.ask = a, !.at = b, !.class = k] OBVIOUS
      <3>3. w = [at |-> b, req |-> q.req, class |-> k, todo |-> q.todo, ask |-> a] BY <2>2, <3>2
      <3> QED BY <3>1, <3>2, <3>3
    <2>4. pass' = [pass EXCEPT ![p].ask = pass[p].ask \ {k},
                               ![p].at = IF Covered(k) THEN pass[p].at ELSE "asked",
                               ![p].class = k] BY DEF SmartLook
    <2>5. pass' = [pass EXCEPT ![p].ask = a, ![p].at = b, ![p].class = k] BY <2>1, <2>4
    <2>6. pass' = [pass EXCEPT ![p] = [pass[p] EXCEPT !.ask = a, !.at = b, !.class = k]] BY <2>5
    <2> QED BY <2>1, <2>3, <2>6
  <1>5. Steady /\ status' = status BY CardsKept DEF LInv, SmartLook
  <1>6. UNCHANGED <<evidence, gov, packet>> BY DEF SmartLook
  <1>7. CountsOK' BY CountsKept DEF SmartLook, counts, LInv
  <1> QED BY <1>3, <1>4, <1>5, <1>6, <1>7, NotRead, SameStatus, KeepPass DEF Good

LEMMA SmartAnswerGood ==
  ASSUME LInv, NEW p \in Task, SmartAnswer(p)
  PROVE  Good
  <1>1. pass[p].at = "asked" BY DEF SmartAnswer
  <1>2. PICK m : m = [at |-> "extract", req |-> pass[p].req, class |-> pass[p].class,
                      todo |-> pass[p].todo, ask |-> pass[p].ask]
    OBVIOUS
  <1>3. PassOK(m, Existing') /\ m.at = "extract" BY <1>2 DEF PassOK
  <1>4. pass' = [pass EXCEPT ![p] = m]
    <2>1. PICK q : q = pass[p] OBVIOUS
    <2>2. q = [at |-> q.at, req |-> q.req, class |-> q.class, todo |-> q.todo, ask |-> q.ask]
      BY <1>1, <2>1, ExtractOK
    <2>3. m = [q EXCEPT !.at = "extract"] BY <1>2, <2>1, <2>2
    <2>4. pass' = [pass EXCEPT ![p] = [pass[p] EXCEPT !.at = "extract"]] BY DEF SmartAnswer
    <2> QED BY <2>1, <2>3, <2>4
  <1>5. Steady /\ Moves
    <2>1. CASE UNCHANGED cards BY <2>1, CardsKept, SameStatus DEF LInv
    <2>2. CASE \E c \in Procedure : ~Exists(c) /\ CreateCard(c, "candidate", 1000, Says[c])
      BY <2>2, WriteProcedure
    <2> QED BY <2>1, <2>2 DEF SmartAnswer
  <1>6. UNCHANGED <<evidence, gov, packet>> BY DEF SmartAnswer
  <1>7. CountsOK' BY CountsKept DEF SmartAnswer, counts, LInv
  <1> QED BY <1>3, <1>4, <1>5, <1>6, <1>7, NotRead, KeepPass DEF Good

LEMMA PromoteQueryGood ==
  ASSUME LInv, NEW p \in Task, PromoteQuery(p)
  PROVE  /\ Good /\ status' = status
         /\ PassOK(pass'[p], Existing) /\ (pass'[p].at = "promote" => pass'[p].target = NoCard)
  <1>1. PICK found, first, drop, was, r :
          /\ found = Query(pass[p].req.type, pass[p].req.scope, "candidate")
          /\ first = FirstOf(found, pass[p].req.limit)
          /\ drop = IF pass[p].req.archive THEN found \ first ELSE {}
          /\ was = [c \in found |-> [text |-> text[c], scope |-> scope[c], over |-> over[c],
                                      refs |-> refs[c]]]
          /\ r = [at |-> "promote", todo |-> first, target |-> NoCard, drop |-> drop, was |-> was]
    OBVIOUS
  <1>2. pass' = [pass EXCEPT ![p] = Rest(r)] BY <1>1, Zenon DEF PromoteQuery
  <1>3. \A c \in found : c \in Card /\ status[c] = "candidate" BY <1>1, QueryIn
  <1>4. first \subseteq found /\ drop \subseteq found
    <2>1. first \subseteq found BY <1>1, Zenon DEF FirstOf
    <2>2. drop \subseteq found BY <1>1
    <2> QED BY <2>1, <2>2
  <1>5. found \subseteq Existing BY <1>3 DEF Existing, Exists
  <1>6. \A c \in found : was[c] \in Version /\ was[c].over = over[c] /\ was[c].refs = refs[c]
    <2> SUFFICES ASSUME NEW c \in found
                 PROVE  was[c] \in Version /\ was[c].over = over[c] /\ was[c].refs = refs[c]
      OBVIOUS
    <2>1. c \in Card /\ was[c] = [text |-> text[c], scope |-> scope[c], over |-> over[c],
                                  refs |-> refs[c]]
      BY <1>1, <1>3
    <2>2. /\ text[c] \in Claims /\ scope[c] \in Scope /\ over[c] \in Card \cup {NoCard}
          /\ refs[c] \in SUBSET Card
      BY <2>1 DEF LInv, CardsOK, LabelsOK, EvidenceOK
    <2> QED BY <2>1, <2>2 DEF Version
  <1>7. PassOK(r, Existing) /\ r.at = "promote" /\ r.todo = first /\ r.target = NoCard
    BY <1>1, <1>4, <1>5, <1>6 DEF PassOK
  <1>8. PICK m : m = Rest(r) OBVIOUS
  <1>9. PassOK(m, Existing) /\ (m.at = "promote" => m = r) BY <1>7, <1>8, RestOK
  <1>10. Steady /\ status' = status BY CardsKept DEF LInv, PromoteQuery
  <1>11. PassOK(m, Existing') BY <1>9, <1>10, PassGrows DEF Steady
  <1>12. UNCHANGED <<evidence, gov, packet>> BY DEF PromoteQuery
  <1>13. CountsOK' BY CountsKept DEF PromoteQuery, counts, LInv
  <1>14. pass' = [pass EXCEPT ![p] = m] BY <1>2, <1>8
  <1>15. pass'[p] = m BY <1>14 DEF LInv, HoldersOK
  <1>16. m.at = "promote" => \A c \in m.todo : c \in HeldBy(p) \/ status[c] = "candidate"
    BY <1>3, <1>4, <1>7, <1>9
  <1>18. ReadOK(m)'
    <2>1. m.at = "promote" => \A c \in m.todo : m.was[c].over = over[c] /\ m.was[c].refs = refs[c]
      BY <1>1, <1>4, <1>6, <1>7, <1>9
    <2>2. over' = over /\ refs' = refs BY DEF PromoteQuery, cards, labels, evidence
    <2> QED BY <2>1, <2>2 DEF ReadOK
  <1>17. LInv' /\ HeldMoves BY <1>10, <1>11, <1>12, <1>13, <1>14, <1>16, <1>18, KeepPass
  <1> QED BY <1>7, <1>9, <1>10, <1>15, <1>17, SameStatus DEF Good

LEMMA PromoteOK ==
  ASSUME LInv, NEW p \in Task, pass[p].at = "promote"
  PROVE  /\ pass[p] = [at |-> "promote", todo |-> pass[p].todo, target |-> pass[p].target,
                       drop |-> pass[p].drop, was |-> pass[p].was]
         /\ pass[p].todo \subseteq Card /\ pass[p].drop \subseteq Card
         /\ \A c \in pass[p].todo \cup pass[p].drop : Exists(c)
         /\ pass[p].target \in Card \cup {NoCard}
         /\ \A c \in pass[p].todo : pass[p].was[c] \in Version
         /\ pass[p].todo \subseteq Existing /\ pass[p].drop \subseteq Existing
  <1>1. PassOK(pass[p], Existing) BY DEF LInv, HoldersOK
  <1> QED BY <1>1 DEF PassOK, Existing

\* What is left of a pass.
LEMMA LeftOver ==
  ASSUME LInv, NEW p \in Task, pass[p].at = "promote", NEW todo, NEW target, NEW drop,
         todo \subseteq pass[p].todo, drop \subseteq pass[p].drop, target \in Card \cup {NoCard},
         NEW r, r = [at |-> "promote", todo |-> todo, target |-> target, drop |-> drop,
                     was |-> pass[p].was]
  PROVE  PassOK(r, Existing) /\ r.at = "promote" /\ r.todo \subseteq pass[p].todo /\ ReadOK(r)
  <1>1. PassOK(r, Existing) BY PromoteOK DEF PassOK
  <1>2. ReadOK(pass[p]) BY DEF LInv, HoldersOK
  <1>3. ReadOK(r) BY <1>2 DEF ReadOK
  <1> QED BY <1>1, <1>3

\* A pass that promotes goes on with r, or is over.
LEMMA KeepPromote ==
  ASSUME LInv, Steady, refs' \in [Card -> SUBSET Card], AllCited,
         UNCHANGED <<edges, cut, gov, packet>>, CountsOK', NEW p \in Task,
         pass[p].at = "promote", NEW r, PassOK(r, Existing), r.at = "promote", ReadOK(r),
         r.todo \subseteq pass[p].todo, NEW m, m = Rest(r), pass' = [pass EXCEPT ![p] = m]
  PROVE  LInv' /\ HeldMoves /\ pass'[p] = m
  <1>1. PassOK(m, Existing) /\ (m.at = "promote" => m = r) BY RestOK
  <1>2. PassOK(m, Existing') BY <1>1, PassGrows DEF Steady
  <1>3. m.at = "promote" => \A c \in m.todo : c \in HeldBy(p) \/ status[c] = "candidate"
    BY <1>1 DEF HeldBy
  <1>6. ReadOK(m)'
    <2>1. ReadOK(r)' BY ReadGrows DEF Steady, Cited, AllCited
    <2> QED BY <1>1, <2>1, NotRead DEF ReadOK
  <1>4. LInv' /\ HeldMoves BY <1>2, <1>3, <1>6, KeepPassRefs
  <1>5. pass'[p] = m BY DEF LInv, HoldersOK
  <1> QED BY <1>4, <1>5

LEMMA PromoteGood ==
  ASSUME LInv, NEW p \in Task, Promote(p), NEW c, c = Oldest(pass[p].todo),
         NEW card, card = pass[p].was[c],
         NEW r, r = [at |-> "promote", todo |-> pass[p].todo \ {c}, target |-> card.over,
                     drop |-> pass[p].drop, was |-> pass[p].was]
  PROVE  /\ Good /\ c \in pass[p].todo /\ \A d \in pass[p].todo : born[c] <= born[d]
         /\ status' = [status EXCEPT ![c] = "active"]
         /\ pass'[p] = Rest(r) /\ (c \in byhand \/ card.over = over[c])
         /\ UNCHANGED <<over, byhand>>
  <1>1. /\ pass[p].at = "promote" /\ pass[p].todo # {}
        /\ UpdateAs(c, "active", card.text)
        /\ scope' = [scope EXCEPT ![c] = card.scope]
        /\ refs' = [refs EXCEPT ![c] = Given(card.refs, {}, refs[c])]
        /\ pass' = [pass EXCEPT ![p] =
             Rest([pass[p] EXCEPT !.todo = pass[p].todo \ {c}, !.target = card.over])]
        /\ UNCHANGED <<over, byhand, edges, cut, gov, packet, runs, log, counts>>
    BY Zenon DEF Promote, PromoteCard
  <1>2. /\ pass[p] = [at |-> "promote", todo |-> pass[p].todo, target |-> pass[p].target,
                      drop |-> pass[p].drop, was |-> pass[p].was]
        /\ pass[p].todo \subseteq Card /\ \A d \in pass[p].todo : Exists(d)
        /\ \A d \in pass[p].todo : pass[p].was[d] \in Version
    BY <1>1, PromoteOK
  <1>3. c \in pass[p].todo /\ \A d \in pass[p].todo : born[c] <= born[d]
    BY <1>1, <1>2, OldestIn DEF LInv
  <1>15. /\ card.text \in Claims /\ card.scope \in Scope /\ card.over \in Card \cup {NoCard}
         /\ card.refs \in SUBSET Card
         /\ c \in byhand \/ (card.over = over[c] /\ card.refs = refs[c])
    <2>1. card \in Version BY <1>2, <1>3
    <2>2. ReadOK(pass[p]) BY DEF LInv, HoldersOK
    <2> QED BY <1>1, <1>3, <2>1, <2>2 DEF Version, ReadOK
  <1>16. LabelsOK' /\ Marked
    <2>1. scope' \in [Card -> Scope] BY <1>1, <1>15 DEF LInv, CardsOK, LabelsOK
    <2>2. \A d \in Card : Exists(d) => Exists(d)'
      BY <1>1, <1>2, <1>3, StatusStays DEF UpdateAs, LInv, Status
    <2> QED BY <1>1, <2>1, <2>2 DEF LInv, CardsOK, LabelsOK, Marked
  <1>17. refs' \in [Card -> SUBSET Card] /\ AllCited
    <2>1. PICK z : z = Given(card.refs, {}, refs[c]) OBVIOUS
    <2>2. refs \in [Card -> SUBSET Card] /\ refs' = [refs EXCEPT ![c] = z]
      BY <1>1, <2>1 DEF LInv, EvidenceOK
    <2>3. z \in SUBSET Card /\ (c \in byhand \/ z = refs[c])
      BY <1>2, <1>3, <1>15, <2>1, <2>2 DEF Given
    <2> QED BY <1>1, <2>2, <2>3 DEF AllCited
  <1>4. Steady /\ status' = [status EXCEPT ![c] = "active"]
    BY <1>1, <1>2, <1>3, <1>15, <1>16, UpdateAsKeeps DEF LInv, Status
  <1>5. [pass[p] EXCEPT !.todo = pass[p].todo \ {c}, !.target = card.over] = r
    <2>1. PICK q : q = pass[p] OBVIOUS
    <2>2. /\ q = [at |-> q.at, todo |-> q.todo, target |-> q.target, drop |-> q.drop, was |-> q.was]
          /\ q.at = "promote"
      BY <1>2, <2>1
    <2>3. PICK x, y : x = q.todo \ {c} /\ y = card.over OBVIOUS
    <2>4. PICK w : w = [q EXCEPT !.todo = x, !.target = y] OBVIOUS
    <2>5. w = [at |-> q.at, todo |-> x, target |-> y, drop |-> q.drop, was |-> q.was]
      BY <2>2, <2>4
    <2> QED BY <2>1, <2>2, <2>3, <2>4, <2>5
  <1>6. pass' = [pass EXCEPT ![p] = Rest(r)] BY <1>1, <1>5
  <1>8. UNCHANGED <<edges, cut, gov, packet>> /\ CountsOK' BY <1>1, CountsKept DEF counts, LInv
  <1>9. PICK todo, target, drop : /\ todo = pass[p].todo \ {c} /\ target = card.over
                                  /\ drop = pass[p].drop
    OBVIOUS
  <1>10. r = [at |-> "promote", todo |-> todo, target |-> target, drop |-> drop, was |-> pass[p].was]
    BY <1>9
  <1>11. todo \subseteq pass[p].todo /\ drop \subseteq pass[p].drop /\ target \in Card \cup {NoCard}
    BY <1>9, <1>15
  <1>12. LInv' /\ HeldMoves /\ pass'[p] = Rest(r)
    <2>1. PassOK(r, Existing) /\ r.at = "promote" /\ r.todo \subseteq pass[p].todo /\ ReadOK(r)
      <3>1. PICK s : s = r OBVIOUS
      <3>2. PassOK(s, Existing) /\ s.at = "promote" /\ s.todo \subseteq pass[p].todo /\ ReadOK(s)
        BY <1>1, <1>10, <1>11, <3>1, LeftOver
      <3> QED BY <3>1, <3>2
    <2>2. PICK m : m = Rest(r) OBVIOUS
    <2>3. pass' = [pass EXCEPT ![p] = m] BY <1>6, <2>2
    <2>4. LInv' /\ HeldMoves /\ pass'[p] = m
      <3>1. pass[p].at = "promote" /\ Steady BY <1>1, <1>4
      <3> QED BY <1>8, <1>17, <2>1, <2>2, <2>3, <3>1, KeepPromote
    <2> QED BY <2>2, <2>4
  <1>13. c \in HeldCards /\ c \in Card BY <1>1, <1>2, <1>3 DEF HeldCards, HeldBy
  <1>14. Moves BY <1>4, <1>13, OneMoves DEF LInv, Promoting
  <1> QED BY <1>1, <1>3, <1>4, <1>12, <1>14, <1>15 DEF Good

LEMMA SupersedeGood ==
  ASSUME LInv, NEW p \in Task, Supersede(p),
         NEW r, r = [at |-> "promote", todo |-> pass[p].todo, target |-> NoCard,
                     drop |-> pass[p].drop, was |-> pass[p].was]
  PROVE  /\ Good /\ pass[p].target \in Card /\ pass[p].at = "promote"
         /\ IF Exists(pass[p].target)
            THEN status' = [status EXCEPT ![pass[p].target] = "superseded"]
            ELSE status' = status
         /\ pass'[p] = Rest(r)
  <1>1. /\ pass[p].at = "promote" /\ pass[p].target # NoCard
        /\ pass' = [pass EXCEPT ![p] = Rest([pass[p] EXCEPT !.target = NoCard])]
    BY Zenon DEF Supersede
  <1>2. /\ pass[p] = [at |-> "promote", todo |-> pass[p].todo, target |-> pass[p].target,
                      drop |-> pass[p].drop, was |-> pass[p].was]
        /\ pass[p].target \in Card
    BY <1>1, PromoteOK
  <1>3. PICK t : t = pass[p].target OBVIOUS
  <1>4. IF Exists(t) THEN UpdateCard(t, "superseded") ELSE UNCHANGED cards
    BY <1>3, Zenon DEF Supersede
  <1>5. /\ Steady /\ Moves
        /\ IF Exists(t) THEN status' = [status EXCEPT ![t] = "superseded"] ELSE status' = status
    <2>1. CASE Exists(t)
      <3>2. Steady /\ status' = [status EXCEPT ![t] = "superseded"]
        BY <1>2, <1>3, <1>4, <2>1, UpdateKeeps DEF LInv, Status
      <3>3. Moves BY <1>2, <1>3, <2>1, <3>2, OneMoves DEF LInv
      <3> QED BY <2>1, <3>2, <3>3
    <2>2. CASE ~Exists(t) BY <1>4, <2>2, CardsKept, SameStatus DEF LInv
    <2> QED BY <2>1, <2>2
  <1>6. [pass[p] EXCEPT !.target = NoCard] = r
    <2>1. PICK q : q = pass[p] OBVIOUS
    <2>2. q = [at |-> "promote", todo |-> q.todo, target |-> q.target, drop |-> q.drop, was |-> q.was]
      BY <1>2, <2>1
    <2>3. [q EXCEPT !.target = NoCard] = r BY <2>1, <2>2
    <2> QED BY <2>1, <2>3
  <1>7. pass' = [pass EXCEPT ![p] = Rest(r)] BY <1>1, <1>6
  <1>8. UNCHANGED <<evidence, gov, packet>> /\ CountsOK' BY CountsKept DEF Supersede, counts, LInv
  <1>9. LInv' /\ HeldMoves /\ pass'[p] = Rest(r)
    <2>0. refs' \in [Card -> SUBSET Card] /\ AllCited /\ UNCHANGED <<edges, cut>> BY <1>8, RefsOK
    <2>1. PassOK(r, Existing) /\ r.at = "promote" /\ r.todo \subseteq pass[p].todo /\ ReadOK(r)
      BY <1>1, LeftOver
    <2>2. PICK m : m = Rest(r) OBVIOUS
    <2>3. pass' = [pass EXCEPT ![p] = m] BY <1>7, <2>2
    <2>4. LInv' /\ HeldMoves /\ pass'[p] = m
      <3>1. pass[p].at = "promote" /\ Steady BY <1>1, <1>5
      <3>2. PICK n, s : n = m /\ s = r OBVIOUS
      <3>3. /\ PassOK(s, Existing) /\ s.at = "promote" /\ s.todo \subseteq pass[p].todo /\ n = Rest(s)
            /\ ReadOK(s)
            /\ pass' = [pass EXCEPT ![p] = n]
        BY <2>1, <2>2, <2>3, <3>2, Zenon
      <3>5. UNCHANGED <<edges, cut, gov, packet>> BY <1>8, <2>0
      <3>4. LInv' /\ HeldMoves /\ pass'[p] = n BY <1>8, <2>0, <3>1, <3>3, <3>5, KeepPromote, Zenon
      <3> QED BY <3>2, <3>4
    <2> QED BY <2>2, <2>4
  <1> QED BY <1>1, <1>2, <1>3, <1>5, <1>9 DEF Good

LEMMA ArchiveRemainingGood == ASSUME LInv, NEW p \in Task, ArchiveRemaining(p) PROVE Good
  <1>1. PICK c : c = Oldest(pass[p].drop) OBVIOUS
  <1>0. PICK o : /\ o = Oldest(pass[p].drop) /\ UpdateCard(o, "archived")
                 /\ pass' = [pass EXCEPT ![p] = Rest([pass[p] EXCEPT !.drop = @ \ {o}])]
    BY Zenon DEF ArchiveRemaining
  <1>2. /\ pass[p].at = "promote" /\ pass[p].drop # {} /\ UpdateCard(c, "archived")
        /\ pass' = [pass EXCEPT ![p] = Rest([pass[p] EXCEPT !.drop = pass[p].drop \ {c}])]
    BY <1>0, <1>1, Zenon DEF ArchiveRemaining
  <1>3. /\ pass[p] = [at |-> "promote", todo |-> pass[p].todo, target |-> pass[p].target,
                      drop |-> pass[p].drop, was |-> pass[p].was]
        /\ pass[p].drop \subseteq Card /\ \A d \in pass[p].drop : Exists(d)
        /\ pass[p].target \in Card \cup {NoCard}
    BY <1>2, PromoteOK
  <1>4. c \in pass[p].drop BY <1>1, <1>2, <1>3, OldestIn DEF LInv
  <1>6. Steady /\ status' = [status EXCEPT ![c] = "archived"]
    BY <1>2, <1>3, <1>4, UpdateKeeps DEF LInv, Status
  <1>7. Moves BY <1>3, <1>4, <1>6, OneMoves DEF LInv
  <1>8. PICK r : r = [at |-> "promote", todo |-> pass[p].todo, target |-> pass[p].target,
                      drop |-> pass[p].drop \ {c}, was |-> pass[p].was]
    OBVIOUS
  <1>9. [pass[p] EXCEPT !.drop = pass[p].drop \ {c}] = r
    <2>1. PICK q : q = pass[p] OBVIOUS
    <2>2. q = [at |-> "promote", todo |-> q.todo, target |-> q.target, drop |-> q.drop, was |-> q.was]
      BY <1>3, <2>1
    <2>3. [q EXCEPT !.drop = q.drop \ {c}] = r BY <1>8, <2>1, <2>2
    <2> QED BY <2>1, <2>3
  <1>10. pass' = [pass EXCEPT ![p] = Rest(r)] BY <1>2, <1>9
  <1>11. UNCHANGED <<evidence, gov, packet>> /\ CountsOK'
    BY CountsKept DEF ArchiveRemaining, counts, LInv
  <1>12. PICK drop : drop = pass[p].drop \ {c} OBVIOUS
  <1>13. r = [at |-> "promote", todo |-> pass[p].todo, target |-> pass[p].target,
              drop |-> drop, was |-> pass[p].was] /\ drop \subseteq pass[p].drop
    BY <1>8, <1>12
  <1>14. LInv' /\ HeldMoves
    <2>0. refs' \in [Card -> SUBSET Card] /\ AllCited /\ UNCHANGED <<edges, cut, gov, packet>>
      BY <1>11, RefsOK
    <2>1. PassOK(r, Existing) /\ r.at = "promote" /\ r.todo \subseteq pass[p].todo /\ ReadOK(r)
      BY <1>2, <1>3, <1>13, LeftOver
    <2>2. PICK m : m = Rest(r) OBVIOUS
    <2>3. pass' = [pass EXCEPT ![p] = m] BY <1>10, <2>2
    <2> QED BY <1>2, <1>6, <1>11, <2>0, <2>1, <2>2, <2>3, KeepPromote
  <1> QED BY <1>6, <1>7, <1>14 DEF Good

LEMMA PassFailsGood == ASSUME LInv, NEW p \in Task, PassFails(p) PROVE Good
  <1>1. Steady /\ status' = status BY CardsKept DEF LInv, PassFails
  <1>2. CountsOK' BY FaultCounts DEF LInv, PassFails
  <1>3. UNCHANGED <<evidence, gov, packet>> /\ pass' = [pass EXCEPT ![p] = Idle] BY DEF PassFails
  <1>4. PassOK(Idle, Existing') /\ Idle.at # "promote" BY IdlePass, Quiet
  <1> QED BY <1>1, <1>2, <1>3, <1>4, NotRead, SameStatus, KeepPass DEF Good

-----------------------------------------------------------------------------
(***************************************************************************)
(* Recall and use                                                          *)
(***************************************************************************)

LEMMA HoldGood == ASSUME LInv, NEW u \in Turn, NEW proc, NEW sem, Hold(u, proc, sem) PROVE Good
  <1>1. PICK m : m = [at |-> "held", proc |-> proc, sem |-> sem] OBVIOUS
  <1>2. PacketOK(m) BY <1>1 DEF PacketOK
  <1>3. packet' = [packet EXCEPT ![u] = m] BY <1>1 DEF Hold
  <1>4. Steady /\ status' = status BY CardsKept DEF LInv, Hold
  <1>5. UNCHANGED <<evidence, gov, pass>> BY DEF Hold
  <1>6. CountsOK'
    <2>1. turns \in 0..MaxTurns /\ MaxTurns \in Nat BY MemoryLifeAssumption DEF LInv, CountsOK
    <2>2. turns' \in 0..MaxTurns BY <2>1 DEF Hold
    <2>3. runs' = runs /\ edits' = edits /\ faults' = faults BY DEF Hold
    <2> QED BY <2>2, <2>3 DEF LInv, CountsOK
  <1> QED BY <1>2, <1>3, <1>4, <1>5, <1>6, SameStatus, KeepPacket DEF Good

LEMMA DeltasInt ==
  ASSUME NEW class, NEW outcome
  PROVE  procedureFeedbackDelta(class, outcome) \in Int /\ semanticFeedbackDelta(class, outcome) \in Int
  <1>1. PICK w \in Int : w = outcomeWeight(outcome) BY DEF outcomeWeight
  <1>2. procedureFeedbackDelta(class, outcome) \in Int BY <1>1 DEF procedureFeedbackDelta
  <1>3. semanticFeedbackDelta(class, outcome) \in Int BY <1>1 DEF semanticFeedbackDelta
  <1> QED BY <1>2, <1>3

LEMMA RecordPacketUseGood ==
  ASSUME LInv, NEW u \in Turn, NEW class, NEW outcome, RecordPacketUse(u, class, outcome)
  PROVE  Good
  <1>1. PICK x, y : x = procedureFeedbackDelta(class, outcome) /\ y = semanticFeedbackDelta(class, outcome)
    OBVIOUS
  <1>2. x \in Int /\ y \in Int BY <1>1, DeltasInt
  <1>3. PICK todo : todo = [c \in packet[u].proc \cup packet[u].sem |->
                              IF c \in packet[u].proc THEN x ELSE y]
    OBVIOUS
  <1>4. PICK m : m = [at |-> "touch", todo |-> todo] OBVIOUS
  <1>5. PacketOK(m) BY <1>2, <1>3, <1>4 DEF PacketOK
  <1>6. packet' = [packet EXCEPT ![u] = m] BY <1>1, <1>3, <1>4, Zenon DEF RecordPacketUse
  <1>7. Steady /\ status' = status BY CardsKept DEF LInv, RecordPacketUse
  <1>8. UNCHANGED <<evidence, gov, pass>> BY DEF RecordPacketUse
  <1>9. CountsOK' BY CountsKept DEF RecordPacketUse, counts, LInv
  <1> QED BY <1>5, <1>6, <1>7, <1>8, <1>9, SameStatus, KeepPacket DEF Good

LEMMA ApplyFeedbackGood == ASSUME LInv, NEW u \in Turn, NEW c \in Card, ApplyFeedback(u, c) PROVE Good
  <1>1. packet[u].at = "touch" /\ c \in DOMAIN packet[u].todo BY DEF ApplyFeedback
  <1>2. \A d \in DOMAIN packet[u].todo : packet[u].todo[d] \in Int
    BY <1>1 DEF LInv, HoldersOK, PacketOK
  <1>3. PICK delta : delta = packet[u].todo[c] OBVIOUS
  <1>4. delta \in Int /\ TouchCard(c, delta) BY <1>1, <1>2, <1>3 DEF ApplyFeedback
  <1>5. Steady /\ status' = status BY <1>4, TouchKeeps DEF LInv
  <1>6. PICK m : m = IF DOMAIN packet[u].todo = {c} THEN Idle
                     ELSE [at |-> "touch", todo |-> Without(packet[u].todo, c)]
    OBVIOUS
  <1>7. PacketOK(m)
    <2>1. CASE DOMAIN packet[u].todo = {c} BY <1>6, <2>1, Quiet DEF PacketOK
    <2>2. CASE DOMAIN packet[u].todo # {c}
      <3>1. PICK todo : todo = Without(packet[u].todo, c) OBVIOUS
      <3>2. \A d \in DOMAIN todo : todo[d] \in Int BY <1>2, <3>1 DEF Without
      <3>3. m = [at |-> "touch", todo |-> todo] BY <1>6, <2>2, <3>1
      <3> QED BY <3>2, <3>3 DEF PacketOK
    <2> QED BY <2>1, <2>2
  <1>8. packet' = [packet EXCEPT ![u] = m] BY <1>6, Zenon DEF ApplyFeedback
  <1>9. UNCHANGED <<evidence, gov, pass>> BY DEF ApplyFeedback
  <1>10. CountsOK' BY CountsKept DEF ApplyFeedback, counts, LInv
  <1> QED BY <1>5, <1>7, <1>8, <1>9, <1>10, SameStatus, KeepPacket DEF Good

-----------------------------------------------------------------------------
(***************************************************************************)
(* The theorems                                                            *)
(***************************************************************************)

LEMMA GovernGood == ASSUME LInv, Govern PROVE Good
  BY TickGood, UpgradeQueryGood, UpgradeLookGood, UpgradeCreateGood, UpgradeLinkGood,
     ConflictActiveGood, ConflictReportGood DEF Govern

LEMMA PassStepGood == ASSUME LInv, NEW p \in Task, PassStep(p) PROVE Good
  <1>1. CASE Promote(p)
    <2>1. PICK c : c = Oldest(pass[p].todo) OBVIOUS
    <2>2. PICK card, r : /\ card = pass[p].was[c]
                         /\ r = [at |-> "promote", todo |-> pass[p].todo \ {c}, target |-> card.over,
                                 drop |-> pass[p].drop, was |-> pass[p].was]
      OBVIOUS
    <2> QED BY <1>1, <2>1, <2>2, PromoteGood
  <1>2. CASE Supersede(p) BY <1>2, SupersedeGood
  <1>3. CASE PromoteQuery(p) BY <1>3, PromoteQueryGood
  <1> QED BY <1>1, <1>2, <1>3, ExtractProcedureGood, SmartLookGood, SmartAnswerGood,
             ArchiveRemainingGood DEF PassStep

LEMMA TurnGood ==
  ASSUME LInv, NEW u \in Turn,
         \/ \E cue : \/ BuildFastPacket(u, cue)
                     \/ \E skill : BuildTaskPacket(u, cue, skill)
         \/ \E use \in Usages : RecordPacketUse(u, use[1], use[2])
         \/ \E c \in Card : ApplyFeedback(u, c)
  PROVE  Good
  <1>1. CASE \E proc, sem : Hold(u, proc, sem) BY <1>1, HoldGood
  <1>2. CASE \E class, outcome : RecordPacketUse(u, class, outcome) BY <1>2, RecordPacketUseGood
  <1>3. CASE \E c \in Card : ApplyFeedback(u, c) BY <1>3, ApplyFeedbackGood
  <1> QED BY <1>1, <1>2, <1>3, Zenon DEF BuildFastPacket, BuildTaskPacket

LEMMA UserGood ==
  ASSUME LInv, NEW c \in Card,
         \/ RecordChatEvent(c)
         \/ UpsertCard(c)
         \/ \E e \in CreateRequests[c] : HandCreate(c, e)
         \/ \E e \in UpdateRequests[c] : HandEdit(c, e)
  PROVE  Good
  BY RecordChatEventGood, UpsertCardGood, HandCreateGood, HandEditGood

LEMMA NextGood == ASSUME LInv, LifeNext PROVE Good
  <1>1. CASE Clock \/ SchedulerDecay \/ UpgradeFails \/ LifeCrash
    BY <1>1, ClockGood, SchedulerDecayGood, UpgradeFailsGood, CrashGood
  <1>2. CASE Govern BY <1>2, GovernGood
  <1>3. CASE \E k \in Procedure \cup Class : TaskDone(k) BY <1>3, TaskDoneGood
  <1>4. CASE \E p \in Task : \/ \E req \in Requests : Consolidate(p, req)
                              \/ PassStep(p)
                              \/ PassFails(p)
    BY <1>4, ConsolidateGood, PassStepGood, PassFailsGood
  <1>5. CASE \E u \in Turn :
               \/ \E cue : \/ BuildFastPacket(u, cue)
                           \/ \E skill : BuildTaskPacket(u, cue, skill)
               \/ \E use \in Usages : RecordPacketUse(u, use[1], use[2])
               \/ \E c \in Card : ApplyFeedback(u, c)
    BY <1>5, TurnGood
  <1>6. CASE \E c \in Card :
               \/ RecordChatEvent(c)
               \/ UpsertCard(c)
               \/ \E e \in CreateRequests[c] : HandCreate(c, e)
               \/ \E e \in UpdateRequests[c] : HandEdit(c, e)
    BY <1>6, UserGood
  <1> QED BY <1>1, <1>2, <1>3, <1>4, <1>5, <1>6, Zenon DEF LifeNext

LEMMA StutterGood == ASSUME LInv, UNCHANGED lifeVars PROVE Good
  <1>1. UNCHANGED <<cards, evidence, gov, pass, packet, runs, counts>> BY DEF lifeVars
  <1>2. Steady /\ status' = status BY <1>1, CardsKept DEF LInv
  <1>3. CountsOK' BY <1>1, CountsKept DEF counts, LInv
  <1> QED BY <1>1, <1>2, <1>3, SameStatus, KeepRest DEF Good

LEMMA InitLInv == ASSUME LifeInit PROVE LInv
  <1>1. \A c \in Card : status[c] = "none" /\ born[c] = 0 BY DEF LifeInit
  <1>2. CardsOK
    <2>1. Existing = {} BY <1>1 DEF Existing, Exists
    <2>2. Cardinality(Existing) = 0 BY <2>1, FS_EmptySet
    <2>3. \A c \in Card : ~Exists(c) BY <1>1 DEF Exists
    <2>4. /\ status \in [Card -> Status \cup {"none"}] /\ born \in [Card -> Nat]
          /\ text \in [Card -> Claims]
      BY DEF LifeInit, Claims
    <2>5. score \in [Card -> 0..1000] BY DEF LifeInit
    <2>6. age \in [Card -> 0..MaxAge] BY MemoryLifeAssumption DEF LifeInit
    <2>7. LabelsOK BY MemoryLifeAssumption DEF LifeInit, LabelsOK
    <2> QED BY <1>1, <2>2, <2>3, <2>4, <2>5, <2>6, <2>7 DEF CardsOK
  <1>3. EvidenceOK BY DEF LifeInit, EvidenceOK
  <1>4. CountsOK BY MemoryLifeAssumption DEF LifeInit, CountsOK
  <1>5. GovOK BY Quiet DEF LifeInit, GovOK
  <1>6. HoldersOK
    <2>1. \A p \in Task : PassOK(pass[p], Existing) /\ ReadOK(pass[p])
      BY IdlePass, Quiet DEF LifeInit, ReadOK
    <2>2. \A u \in Turn : PacketOK(packet[u]) BY Quiet DEF LifeInit, PacketOK
    <2>3. pass = [p \in Task |-> pass[p]] /\ packet = [u \in Turn |-> packet[u]] BY DEF LifeInit
    <2> QED BY <1>5, <2>1, <2>2, <2>3 DEF HoldersOK
  <1>7. EvidenceLinked BY DEF LifeInit, EvidenceLinked
  <1> QED BY <1>2, <1>3, <1>4, <1>6, <1>7 DEF LInv

LEMMA LInvHolds == LifeSpec => []LInv
  <1>1. LifeInit => LInv BY InitLInv
  <1>2. LInv /\ [LifeNext]_lifeVars => LInv' BY NextGood, StutterGood DEF Good
  <1> QED BY <1>1, <1>2, PTL DEF LifeSpec

LEMMA LInvTypes == ASSUME LInv PROVE LifeTypeOK
  <1>1. \A c \in Card : born[c] \in 0..Cardinality(Card)
    <2>1. \A c \in Card : born[c] \in Nat /\ born[c] <= Cardinality(Existing) BY DEF LInv, CardsOK
    <2> QED BY <2>1, ExistingFinite
  <1>2. born \in [Card -> 0..Cardinality(Card)] BY <1>1 DEF LInv, CardsOK
  <1> QED BY <1>2 DEF LInv, CardsOK, LabelsOK, EvidenceOK, CountsOK, LifeTypeOK, Claims

\* The type invariant of MemoryLife: whatever goroutines write late, scores
\* stay within the unit and no two cards are created at the same time.
THEOREM LifeTypeCorrect == LifeSpec => []LifeTypeOK
  BY LInvHolds, LInvTypes, PTL

\* Every fact made from events has its edges, or is being linked, or a fault
\* ended its upgrade, or a user named its evidence (UpgradeEventsToFacts).
THEOREM EvidenceLinkedHolds == LifeSpec => []EvidenceLinked
  <1>1. LInv => EvidenceLinked BY DEF LInv
  <1> QED BY <1>1, LInvHolds, PTL

\* A card out of use comes back only by a consolidation that had queried it
\* as a candidate, or, a search result, by being found again, or by a user who
\* gives it another status (PromoteCandidates, ApplyFeedback, DecayAndCompact,
\* upsertCard, handleUpdateCard).
THEOREM NoRevivalHolds == LifeSpec => NoRevival
  <1>1. ASSUME LInv, [LifeNext]_lifeVars, NEW c \in Card, status[c] \in Gone, c \notin HeldCards
        PROVE  /\ \/ status'[c] \in Gone
                  \/ c \in Found /\ status'[c] = "candidate"
                  \/ SetByHand(c)
               /\ c \notin HeldCards'
    <2>1. Good BY <1>1, NextGood, StutterGood
    <2>2. c \notin HeldCards' BY <1>1, <2>1 DEF Good, HeldMoves, Gone
    <2>3. Moves BY <2>1 DEF Good
    <2> QED BY <1>1, <2>2, <2>3 DEF Moves, Made, Gone
  <1>2. LInv /\ [LifeNext]_lifeVars =>
          [\A c \in Card : status[c] \in Gone /\ c \notin HeldCards =>
             /\ \/ status'[c] \in Gone
                \/ c \in Found /\ status'[c] = "candidate"
                \/ SetByHand(c)
             /\ c \notin HeldCards']_lifeVars
    BY <1>1
  <1> QED BY <1>2, LInvHolds, PTL DEF LifeSpec, NoRevival

-----------------------------------------------------------------------------
(***************************************************************************)
(* Supersession                                                            *)
(***************************************************************************)

LEMMA HeldExist == ASSUME LInv, NEW c \in HeldCards PROVE c \in Card /\ Exists(c)
  <1>1. PICK p \in Task : c \in HeldBy(p) BY DEF HeldCards
  <1>2. pass[p].at = "promote" /\ c \in pass[p].todo BY <1>1 DEF HeldBy
  <1> QED BY <1>2, PromoteOK

LEMMA OrderedStep == ASSUME LInv, Ordered, Good PROVE Ordered'
  <1> SUFFICES ASSUME NEW c \in Card, c \notin byhand', Exists(c)', NEW t, t = over'[c], t # NoCard
               PROVE  Exists(t)' /\ born'[t] < born'[c]
    BY DEF Ordered, Exists
  <1>1. t \in Card /\ t = over'[c]
    <2>1. over' \in [Card -> Card \cup {NoCard}] BY DEF Good, LInv, CardsOK, LabelsOK
    <2> QED BY <2>1
  <1>2. Births /\ Marked /\ (Exists(t) => Exists(t)') BY <1>1 DEF Good, Steady, Existing
  <1>3. CASE Exists(c)
    <2>0. c \notin byhand /\ over[c] = t BY <1>1, <1>2, <1>3 DEF Marked
    <2>1. Exists(t) /\ born[t] < born[c] BY <1>1, <1>3, <2>0 DEF Ordered
    <2> QED BY <1>1, <1>2, <1>3, <2>1 DEF Births
  <1>4. CASE ~Exists(c)
    <2>1. c \notin HeldCards BY <1>4, HeldExist
    <2>2. Made(c) BY <1>4, <2>1 DEF Good, Moves, Exists
    <2>3. Exists(t) BY <1>1, <2>2 DEF Made
    <2> QED BY <1>1, <1>2, <1>4, <2>3 DEF Births
  <1> QED BY <1>3, <1>4

\* The steps that fail, those of consolidations, and all others.
Failing == UpgradeFails \/ LifeCrash \/ \E p \in Task : PassFails(p)

LEMMA FailingCounts == ASSUME LInv, Failing PROVE faults' # 0
  <1>1. CountsOK /\ faults < MaxFaults /\ faults' = faults + 1 /\ UNCHANGED <<runs, edits, turns>>
    BY DEF Failing, UpgradeFails, LifeCrash, PassFails, LInv
  <1> QED BY <1>1, FaultCounts

LEMMA Elsewhere ==
  ASSUME LifeNext
  PROVE  \/ Failing
         \/ pass' = pass /\ faults' = faults
         \/ faults' = faults /\ \E p \in Task : (\E req \in Requests : Consolidate(p, req)) \/ PassStep(p)
  <1>1. ASSUME Govern PROVE pass' = pass /\ faults' = faults
    BY <1>1, Zenon DEF Govern, Tick, UpgradeQuery, UpgradeLook, UpgradeCreate, UpgradeLink, ConflictActive,
       ConflictReport, counts
  <1>2. ASSUME Clock \/ SchedulerDecay \/ (\E k \in Procedure \cup Class : TaskDone(k))
        PROVE  pass' = pass /\ faults' = faults
    BY <1>2, Zenon DEF Clock, SchedulerDecay, TaskDone, counts
  <1>3. ASSUME NEW p \in Task, (\E req \in Requests : Consolidate(p, req)) \/ PassStep(p)
        PROVE  faults' = faults
    BY <1>3, Zenon DEF Consolidate, PassStep, ExtractProcedure, SmartLook, SmartAnswer, PromoteQuery,
       Promote, PromoteCard, Supersede, ArchiveRemaining, counts
  <1>4. ASSUME NEW u \in Turn,
               \/ \E cue \in SUBSET {Topic[c] : c \in Card} :
                    \/ BuildFastPacket(u, cue)
                    \/ \E skill \in {"web-search", "task-plan"} : BuildTaskPacket(u, cue, skill)
               \/ \E use \in Usages : RecordPacketUse(u, use[1], use[2])
               \/ \E c \in Card : ApplyFeedback(u, c)
        PROVE  pass' = pass /\ faults' = faults
    BY <1>4, Zenon DEF BuildFastPacket, BuildTaskPacket, Hold, RecordPacketUse, ApplyFeedback, counts
  <1>5. ASSUME NEW c \in Card,
               \/ RecordChatEvent(c)
               \/ UpsertCard(c)
               \/ \E e \in CreateRequests[c] : HandCreate(c, e)
               \/ \E e \in UpdateRequests[c] : HandEdit(c, e)
        PROVE  pass' = pass /\ faults' = faults
    BY <1>5, ZenonT(40) DEF RecordChatEvent, UpsertCard, HandCreate, HandEdit, Label, counts
  <1> QED BY <1>1, <1>2, <1>3, <1>4, <1>5, Zenon DEF LifeNext, Failing

\* A pass with a card to supersede does that first.
LEMMA TargetStays ==
  ASSUME LInv, Alone, LifeNext, ~Failing, ~Promoting, ~\E q \in Task : Supersede(q),
         NEW p \in Task, pass[p].at = "promote", pass[p].target # NoCard
  PROVE  pass'[p] = pass[p]
  <1>1. ASSUME NEW q \in Task, (\E req \in Requests : Consolidate(q, req)) \/ PassStep(q)
        PROVE  FALSE
    <2>1. q = p BY DEF Alone
    <2>2. \/ \E req \in Requests : Consolidate(p, req)
          \/ \E c \in Procedure : ExtractProcedure(p, c)
          \/ \E k \in Class : SmartLook(p, k)
          \/ SmartAnswer(p) \/ PromoteQuery(p) \/ ArchiveRemaining(p)
      BY <1>1, <2>1, Zenon DEF PassStep, Promoting
    <2>3. pass[p].at \in {"idle", "extract", "asked"} \/ pass[p].target = NoCard
      <3>1. CASE \E req \in Requests : Consolidate(p, req) BY <3>1, Quiet DEF Consolidate
      <3>2. CASE \E c \in Procedure : ExtractProcedure(p, c) BY <3>2, Zenon DEF ExtractProcedure
      <3>3. CASE \E k \in Class : SmartLook(p, k) BY <3>3, Zenon DEF SmartLook
      <3>4. CASE SmartAnswer(p) BY <3>4, Zenon DEF SmartAnswer
      <3>5. CASE PromoteQuery(p) BY <3>5, Zenon DEF PromoteQuery
      <3>6. CASE ArchiveRemaining(p) BY <3>6, Zenon DEF ArchiveRemaining
      <3> QED BY <2>2, <3>1, <3>2, <3>3, <3>4, <3>5, <3>6
    <2> QED BY <2>3
  <1> QED BY <1>1, Elsewhere

LEMMA ReplacedOther ==
  ASSUME LInv, Alone, Replaced, LifeNext, ~Failing, ~Promoting, ~\E q \in Task : Supersede(q)
  PROVE  Replaced'
  <1> SUFFICES ASSUME faults' = 0, NEW c \in Card, c \notin byhand', status'[c] = "active",
                      NEW t \in Card, t = over'[c], t \notin Found, t \notin byhand'
               PROVE  Out(t)' \/ Underway(t)'
    BY DEF Replaced, Out, Underway
  <1>1. t # NoCard BY Quiet
  <1>2. Moves /\ HeldMoves /\ Marked BY NextGood DEF Good, Steady
  <1>3. faults = 0 BY Elsewhere
  <1>7. status[c] = "active" BY <1>1, <1>2 DEF Moves, Made
  <1>8. Exists(c) /\ c \notin byhand /\ t \notin byhand BY <1>2, <1>7 DEF Exists, Marked
  <1>4. over[c] = t BY <1>2, <1>8 DEF Marked
  <1>5. CASE Out(t)
    <2>1. status'[t] \in {"superseded", "archived"} BY <1>1, <1>2, <1>5 DEF Moves, Made, Out
    <2>2. t \notin HeldCards' BY <1>2, <1>5 DEF HeldMoves, Out
    <2> QED BY <1>1, <2>1, <2>2 DEF Out
  <1>6. CASE Underway(t)
    <2>1. PICK p \in Task : pass[p].at = "promote" /\ pass[p].target = t /\ t \notin pass[p].todo
      BY <1>6 DEF Underway
    <2>2. pass'[p] = pass[p] BY <1>1, <2>1, TargetStays, Quiet
    <2> QED BY <1>1, <2>1, <2>2 DEF Underway
  <1> QED BY <1>3, <1>4, <1>5, <1>6, <1>7, <1>8 DEF Replaced

\* A promotion: the promoted card's own target is next, and is older than what
\* is left to promote; what was out stays out.
LEMMA ReplacedPromote ==
  ASSUME LInv, Alone, Ordered, Replaced, NEW p \in Task, Promote(p)
  PROVE  Replaced'
  <1> SUFFICES ASSUME faults' = 0, NEW c \in Card, c \notin byhand', status'[c] = "active",
                      NEW t \in Card, t = over'[c], t \notin Found, t \notin byhand'
               PROVE  Out(t)' \/ Underway(t)'
    BY DEF Replaced, Out, Underway
  <1>1. t # NoCard BY Quiet
  <1>2. PICK o : o = Oldest(pass[p].todo) OBVIOUS
  <1>3. PICK card, r : /\ card = pass[p].was[o]
                       /\ r = [at |-> "promote", todo |-> pass[p].todo \ {o}, target |-> card.over,
                               drop |-> pass[p].drop, was |-> pass[p].was]
    OBVIOUS
  <1>4. /\ Good /\ o \in pass[p].todo /\ \A d \in pass[p].todo : born[o] <= born[d]
        /\ status' = [status EXCEPT ![o] = "active"]
        /\ pass'[p] = Rest(r) /\ (o \in byhand \/ card.over = over[o])
        /\ UNCHANGED <<over, byhand>>
    BY <1>2, <1>3, PromoteGood
  <1>5. pass[p].at = "promote" /\ pass[p].target = NoCard /\ faults' = faults
    BY Zenon DEF Promote, PromoteCard, counts
  <1>9. over[c] = t /\ c \notin byhand /\ t \notin byhand BY <1>4
  <1>6. o \in Card /\ o \in HeldCards BY <1>4, <1>5, HeldExist DEF HeldCards, HeldBy
  <1>7. CASE c = o
    <2>1. r.at = "promote" /\ r.target = t /\ r.todo \subseteq pass[p].todo BY <1>3, <1>4, <1>7, <1>9
    <2>2. Rest(r) = r BY <1>1, <2>1 DEF Rest
    <2>3. born[t] < born[o]
      <3>1. Exists(o) BY <1>6, HeldExist
      <3> QED BY <1>1, <1>6, <1>7, <1>9, <3>1 DEF Ordered
    <2>4. born[t] \in Nat /\ born[o] \in Nat BY <1>6 DEF LInv, CardsOK
    <2>5. t \notin pass[p].todo
      <3>1. PICK x, y : x = born[t] /\ y = born[o] OBVIOUS
      <3>2. x < y /\ x \in Nat /\ y \in Nat BY <2>3, <2>4, <3>1
      <3>3. ~(y <= x) BY <3>2
      <3> QED BY <1>4, <3>1, <3>3
    <2>6. pass'[p].at = "promote" /\ pass'[p].target = t /\ t \notin pass'[p].todo
      BY <1>4, <2>1, <2>2, <2>5
    <2> QED BY <1>1, <2>6 DEF Underway
  <1>8. CASE c # o
    <2>1. status[c] = "active" BY <1>4, <1>8 DEF LInv, CardsOK
    <2>2. Out(t) \/ Underway(t) BY <1>5, <1>9, <2>1 DEF Replaced
    <2>3. ~Underway(t) BY <1>1, <1>5 DEF Underway, Alone
    <2>4. t # o /\ t \notin HeldCards /\ status[t] \in {"superseded", "archived"}
      BY <1>6, <2>2, <2>3 DEF Out
    <2>5. status'[t] = status[t] BY <1>4, <2>4 DEF LInv, CardsOK
    <2>6. t \notin HeldCards' BY <1>4, <2>4 DEF Good, HeldMoves
    <2> QED BY <1>1, <2>4, <2>5, <2>6 DEF Out
  <1> QED BY <1>7, <1>8

\* The card that was to be put out is.
LEMMA ReplacedSupersede ==
  ASSUME LInv, Alone, Ordered, Replaced, NEW p \in Task, Supersede(p)
  PROVE  Replaced'
  <1> SUFFICES ASSUME faults' = 0, NEW c \in Card, c \notin byhand', status'[c] = "active",
                      NEW t \in Card, t = over'[c], t \notin Found, t \notin byhand'
               PROVE  Out(t)' \/ Underway(t)'
    BY DEF Replaced, Out, Underway
  <1>1. t # NoCard BY Quiet
  <1>2. PICK r : r = [at |-> "promote", todo |-> pass[p].todo, target |-> NoCard,
                      drop |-> pass[p].drop, was |-> pass[p].was]
    OBVIOUS
  <1>3. /\ Good /\ pass[p].target \in Card /\ pass[p].at = "promote"
        /\ IF Exists(pass[p].target)
           THEN status' = [status EXCEPT ![pass[p].target] = "superseded"]
           ELSE status' = status
        /\ pass'[p] = Rest(r)
    BY <1>2, SupersedeGood
  <1>4. faults' = faults BY Zenon DEF Supersede, counts
  <1>5. status[c] = "active" BY <1>3 DEF LInv, CardsOK
  <1>9. over[c] = t /\ c \notin byhand /\ t \notin byhand
    BY <1>3, <1>5 DEF Good, Steady, Marked, Exists
  <1>6. Out(t) \/ Underway(t) BY <1>4, <1>5, <1>9 DEF Replaced
  <1>7. CASE Out(t)
    <2>1. status'[t] \in {"superseded", "archived"} BY <1>3, <1>7 DEF Out, LInv, CardsOK
    <2>2. t \notin HeldCards' BY <1>3, <1>7 DEF Good, HeldMoves, Out
    <2> QED BY <1>1, <2>1, <2>2 DEF Out
  <1>8. CASE Underway(t)
    <2>1. pass[p].target = t /\ t \notin pass[p].todo BY <1>8 DEF Underway, Alone
    <2>2. Exists(t) BY <1>1, <1>5, <1>9 DEF Ordered, Exists
    <2>3. status'[t] = "superseded" BY <1>3, <2>1, <2>2 DEF LInv, CardsOK
    <2>4. r.todo = pass[p].todo BY <1>2
    <2>5. HeldBy(p)' \subseteq pass[p].todo
      <3>1. pass'[p].at = "promote" => pass'[p].todo = r.todo BY <1>3, Quiet DEF Rest
      <3> QED BY <2>4, <3>1 DEF HeldBy
    <2>6. t \notin HeldCards' BY <2>1, <2>5 DEF HeldCards, Alone
    <2> QED BY <1>1, <2>3, <2>6 DEF Out
  <1> QED BY <1>6, <1>7, <1>8

LEMMA ReplacedStep ==
  ASSUME LInv, Alone, Ordered, Replaced, [LifeNext]_lifeVars
  PROVE  Ordered' /\ Replaced'
  <1>1. CASE LifeNext
    <2>1. Ordered' BY <1>1, NextGood, OrderedStep
    <2>2. CASE Failing BY <2>1, <2>2, FailingCounts DEF Replaced
    <2>3. CASE Promoting BY <2>1, <2>3, ReplacedPromote DEF Promoting
    <2>4. CASE \E q \in Task : Supersede(q) BY <2>1, <2>4, ReplacedSupersede
    <2> QED BY <1>1, <2>1, <2>2, <2>3, <2>4, ReplacedOther
  <1>2. CASE UNCHANGED lifeVars
    <2>1. Ordered' BY <1>2, StutterGood, OrderedStep
    <2>2. UNCHANGED <<status, pass, faults, over, byhand>>
      BY <1>2, Zenon DEF lifeVars, cards, labels, counts
    <2>3. HeldCards' = HeldCards BY <2>2, HeldSame
    <2>4. Replaced' BY <2>2, <2>3 DEF Replaced, Out, Underway
    <2> QED BY <2>1, <2>4
  <1> QED BY <1>1, <1>2

LEMMA ReplacedHolds == ASSUME Alone PROVE LifeSpec => [](LInv /\ Ordered /\ Replaced)
  <1>1. LifeInit => Ordered /\ Replaced
    <2>1. LifeInit => \A c \in Card : status[c] = "none" BY DEF LifeInit
    <2> QED BY <2>1 DEF Ordered, Replaced, Exists
  <1>2. LInv /\ Ordered /\ Replaced /\ [LifeNext]_lifeVars => Ordered' /\ Replaced' BY ReplacedStep
  <1> QED BY <1>1, <1>2, LInvHolds, PTL DEF LifeSpec

\* Where consolidations do not overlap, cards keep their types, a card that was
\* promoted to supersede another has put it out of use between consolidations
\* unless a write failed or a user decided otherwise, and facts have their edges
\* (PromoteCandidates, UpgradeEventsToFacts).  Two passes that had queried the same candidates
\* could promote the replaced card again.
THEOREM CardsConsistentHolds == ASSUME Alone PROVE LifeSpec => []CardsConsistent
  <1>1. ASSUME LInv, Replaced PROVE CardsConsistent
    <2>1. ASSUME \A p \in Task : pass[p] = Idle, faults = 0, NEW c \in Card \ byhand,
                 status[c] = "active", over[c] \in Card \ (Found \cup byhand)
          PROVE  status[over[c]] \in {"superseded", "archived"}
      <3>1. ~Underway(over[c]) BY <2>1, Quiet DEF Underway
      <3> QED BY <1>1, <2>1, <3>1 DEF Replaced, Out
    <2>2. SupersededOut BY <2>1 DEF SupersededOut
    <2> QED BY <1>1, <2>2, LInvTypes DEF CardsConsistent, LInv
  <1> QED BY <1>1, ReplacedHolds, PTL

-----------------------------------------------------------------------------
(***************************************************************************)
(* Proofs about the executor, for any number of callers, requests,         *)
(* actions, failed writes and crashes.                                     *)
(*                                                                         *)
(* The properties speak of records; what keeps them true is what each call *)
(* knows of its own action between its store operations (CallOK), that no  *)
(* other call touches that action (Apart), and that an id not yet drawn    *)
(* has left no trace (Fresh).  A completed record is never removed, since  *)
(* a call only moves its own and that one is under running/ : hence a call *)
(* that began after it finds it.                                           *)
(***************************************************************************)

USE DEF None

\* No trace of an action.
Fresh(a) ==
  /\ whole[a] = {} /\ torn[a] = {} /\ tries[a] = 0
  /\ a \notin succeeded /\ a \notin reported

\* What a call knows of its action.
CallOK(q) ==
  /\ q.pc = "idle" => q = NoCall
  /\ q.pc # "idle" => q.id \in Action /\ q.id < nextId /\ made[q.id] \in Request
  /\ q.pc \in {"replay", "replayed", "save"} =>
       Fresh(q.id) /\ q.attempt = NormalizeAttempt(made[q.id])
  /\ q.pc \in {"attempt", "completed", "failed"} =>
       whole[q.id] = {"running"} /\ torn[q.id] = {} /\ q.id \notin reported
  /\ q.pc = "attempt" =>
       /\ tries[q.id] + NormalizeAttempt(made[q.id]) = q.attempt
       /\ q.attempt <= NormalizeMaxAttempts(made[q.id])
  /\ q.pc = "completed" => output[q.id] = q.id /\ q.id \in succeeded
  /\ q.pc = "replayed" =>
       q.found \in succeeded /\ Same(made[q.id], made[q.found]) /\ made[q.id].key # 0
  /\ q.late =>
       /\ q.pc \in {"replay", "replayed"} /\ made[q.id].key # 0
       /\ Completed(made[q.id]) # {}

\* What a record says.
RecOK(a) ==
  /\ whole[a] \cap torn[a] = {} /\ \A d, e \in whole[a] \cup torn[a] : d = e
  /\ "completed" \in whole[a] =>
       /\ output[a] \in succeeded
       /\ Same(made[a], made[output[a]])
       /\ output[a] # a => tries[a] = 0 /\ made[a].key # 0
  /\ a \in reported => "completed" \in whole[a]
  /\ tries[a] > 0 =>
       tries[a] + NormalizeAttempt(made[a]) <= NormalizeMaxAttempts(made[a]) + 1
  /\ a >= nextId => Fresh(a)

Apart ==
  \A c, d \in Caller :
    c # d /\ call[c].pc # "idle" /\ call[d].pc # "idle" => call[c].id # call[d].id

IInv ==
  /\ TypeOK
  /\ \A c \in Caller : CallOK(call[c])
  /\ \A a \in Action : RecOK(a)
  /\ Apart

LEMMA NoneOutside == None \notin Action
  BY DEF Action

LEMMA NoCallFacts == NoCall \in CallState /\ NoCall.pc = "idle" /\ ~NoCall.late
  BY DEF NoCall, CallState

LEMMA NoCallOK == CallOK(NoCall) /\ CallOK(NoCall)'
  BY DEF NoCall, CallOK

LEMMA Normalized ==
  ASSUME NEW r \in Request
  PROVE  /\ NormalizeAttempt(r) \in Nat /\ NormalizeAttempt(r) >= 1
         /\ NormalizeMaxAttempts(r) \in Nat
         /\ NormalizeAttempt(r) <= NormalizeMaxAttempts(r)
         /\ r.key \in Nat /\ r.kind \in Kind
  <1>1. r \in [kind: Kind, key: Nat, print: Nat, attempt: Nat, max: Nat]
    BY ExecutionAssumption
  <1> QED BY <1>1 DEF NormalizeAttempt, NormalizeMaxAttempts

LEMMA InitInv == Init => IInv
  <1> SUFFICES ASSUME Init PROVE IInv
    OBVIOUS
  <1>1. TypeOK
    <2>1. 1 \in 1..(MaxActions + 1) /\ 0 \in 0..MaxErrors /\ 0 \in 0..MaxCrashes
      BY ExecutionAssumption
    <2>2. call \in [Caller -> CallState] /\ \A c \in Caller : call[c].pc = "idle"
      BY NoCallFacts DEF Init
    <2> QED BY <2>1, <2>2 DEF Init, TypeOK
  <1>2. \A c \in Caller : call[c] = NoCall BY DEF Init
  <1>3. \A a \in Action : RecOK(a) BY DEF Init, RecOK, Fresh
  <1>4. Apart BY <1>2, NoCallFacts DEF Apart
  <1> QED BY <1>1, <1>2, <1>3, <1>4, NoCallOK DEF IInv

\* What the action b shows to others is left alone.
Untouched(b) ==
  /\ whole'[b] = whole[b] /\ torn'[b] = torn[b] /\ output'[b] = output[b]
  /\ tries'[b] = tries[b]
  /\ b \in reported' <=> b \in reported
  /\ b \in succeeded' <=> b \in succeeded

\* A step that concerns one action only, adds to what succeeded and takes no
\* completed record away.
Frame(a) ==
  /\ UNCHANGED <<made, nextId>>
  /\ \A b \in Action \ {a} : Untouched(b)
  /\ succeeded \subseteq succeeded'
  /\ \A b \in Action : "completed" \in whole[b] => "completed" \in whole'[b]

LEMMA FrameCompleted ==
  ASSUME NEW a, Frame(a), NEW r, Completed(r) # {}
  PROVE  Completed(r)' # {}
  <1>1. PICK b \in Action : "completed" \in whole[b] /\ Same(made[b], r)
    BY DEF Completed
  <1>2. "completed" \in whole'[b] /\ Same(made[b], r)'
    BY <1>1 DEF Frame, Same
  <1> QED BY <1>2 DEF Completed

LEMMA FrameCall ==
  ASSUME NEW a, Frame(a), NEW q, CallOK(q), q.pc # "idle" => q.id # a
  PROVE  CallOK(q)'
  <1>1. q.pc # "idle" => Untouched(q.id) BY DEF Frame, CallOK
  <1>2. UNCHANGED <<made, nextId>> /\ succeeded \subseteq succeeded' BY DEF Frame
  <1>3. q.late => Completed(made[q.id])' # {}
    <2> SUFFICES ASSUME q.late PROVE Completed(made[q.id])' # {}
      OBVIOUS
    <2>1. PICK r : r = made[q.id] OBVIOUS
    <2>2. Completed(r)' # {} BY <2>1, FrameCompleted DEF CallOK
    <2> QED BY <2>1, <2>2, <1>2 DEF Completed, Same
  <1> QED BY <1>1, <1>2, <1>3
    DEF CallOK, Untouched, Fresh, Same, NoCall, NormalizeAttempt, NormalizeMaxAttempts, Completed

LEMMA FrameRec ==
  ASSUME NEW a, Frame(a), NEW b \in Action, b # a, RecOK(b)
  PROVE  RecOK(b)'
  <1>1. Untouched(b) /\ UNCHANGED <<made, nextId>> /\ succeeded \subseteq succeeded'
    BY DEF Frame
  <1> QED BY <1>1
    DEF RecOK, Untouched, Fresh, Same, NormalizeAttempt, NormalizeMaxAttempts

\* A step of a call on its own action: what is left to show is about them.
LEMMA CallStep ==
  ASSUME IInv, NEW c \in Caller, NEW q, NEW a, a = call[c].id, call[c].pc # "idle",
         call' = [call EXCEPT ![c] = q], q = NoCall \/ q.id = a,
         Frame(a), CallOK(q)', RecOK(a)', TypeOK'
  PROVE  IInv'
  <1>1. call'[c] = q /\ \A d \in Caller : d # c => call'[d] = call[d]
    BY DEF IInv, TypeOK
  <1>2. \A d \in Caller : CallOK(call[d])'
    <2> SUFFICES ASSUME NEW d \in Caller PROVE CallOK(call[d])'
      OBVIOUS
    <2>1. CASE d = c BY <2>1, <1>1 DEF CallOK, Fresh, Completed
    <2>2. CASE d # c
      <3>1. PICK p : p = call[d] OBVIOUS
      <3>2. CallOK(p) /\ (p.pc # "idle" => p.id # a)
        BY <3>1, <2>2 DEF IInv, Apart
      <3>3. CallOK(p)' BY <3>2, FrameCall
      <3>4. p = call'[d] BY <3>1, <2>2, <1>1
      <3> QED BY <3>3, <3>4 DEF CallOK, Fresh, Completed
    <2> QED BY <2>1, <2>2
  <1>3. ASSUME NEW b \in Action PROVE RecOK(b)'
    <2>1. CASE b = a BY <2>1
    <2>2. CASE b # a BY <2>2, FrameRec DEF IInv
    <2> QED BY <2>1, <2>2
  <1>4. Apart'
    <2> SUFFICES ASSUME NEW d \in Caller, NEW e \in Caller, d # e,
                        call'[d].pc # "idle", call'[e].pc # "idle"
                 PROVE  call'[d].id # call'[e].id
      BY DEF Apart
    <2> QED BY <1>1, NoCallFacts DEF IInv, Apart
  <1> QED BY <1>2, <1>3, <1>4 DEF IInv

\* The call's own facts, for citing.
LEMMA Own ==
  ASSUME IInv, NEW c \in Caller, call[c].pc # "idle"
  PROVE  /\ call[c] \in CallState /\ CallOK(call[c])
         /\ call[c].id \in Action /\ made[call[c].id] \in Request
         /\ RecOK(call[c].id) /\ call[c].id < nextId
  BY DEF IInv, TypeOK, CallOK

LEMMA ExecuteInv ==
  ASSUME IInv, NEW c \in Caller, NEW r \in Request, Execute(c, r)
  PROVE  IInv'
  <1> DEFINE q == [pc |-> "replay", id |-> nextId, attempt |-> NormalizeAttempt(r),
                   found |-> None, late |-> r.key # 0 /\ Completed(r) # {}]
  <1>1. nextId \in Action /\ nextId' = nextId + 1 /\ call[c].pc = "idle"
    BY DEF Execute, At
  <1>2. /\ call' = [call EXCEPT ![c] = q]
        /\ made' = [made EXCEPT ![nextId] = r]
        /\ UNCHANGED <<whole, torn, output, tries, succeeded, reported, errors, crashes>>
    BY DEF Execute, files, ledgers
  <1>3. q \in CallState
    <2>1. q.late \in BOOLEAN BY Zenon
    <2>2. NormalizeAttempt(r) \in Nat BY Normalized
    <2> QED BY <1>1, <2>1, <2>2 DEF CallState, Steps
  <1>4a. q.pc = "replay" /\ q.id = nextId OBVIOUS
  <1>4. /\ call'[c] = q /\ \A d \in Caller : d # c => call'[d] = call[d]
        /\ made'[nextId] = r /\ \A b \in Action : b # nextId => made'[b] = made[b]
    BY <1>1, <1>2 DEF IInv, TypeOK
  <1>5. TypeOK'
    <2>1. nextId' \in 1..(MaxActions + 1)
      BY <1>1, ExecutionAssumption DEF IInv, TypeOK, Action
    <2> HIDE DEF q
    <2>2. call' \in [Caller -> CallState] /\ made' \in [Action -> Request \cup {NoRequest}]
      BY <1>1, <1>2, <1>3 DEF IInv, TypeOK
    <2>3. \A d \in Caller : call'[d].pc # "idle" => call'[d].id \in Action
      BY <1>1, <1>4, <1>4a DEF IInv, TypeOK
    <2> QED BY <2>1, <2>2, <2>3, <1>2 DEF IInv, TypeOK, NoRequest
  <1>6. Fresh(nextId) /\ RecOK(nextId)
    BY <1>1 DEF IInv, RecOK, Action
  <1>7. nextId \in Nat /\ \A b \in Action : b \in Nat
    BY DEF IInv, TypeOK, Action
  <1>8. \A s : Completed(s) # {} => Completed(s)' # {}
    <2> SUFFICES ASSUME NEW s, NEW b \in Action, "completed" \in whole[b], Same(made[b], s)
                 PROVE  b \in Completed(s)'
      BY DEF Completed
    <2>1. b # nextId BY <1>6 DEF Fresh
    <2> QED BY <2>1, <1>2, <1>4 DEF Completed, Same
  <1>9. \A d \in Caller : CallOK(call[d])'
    <2> SUFFICES ASSUME NEW d \in Caller PROVE CallOK(call[d])'
      OBVIOUS
    <2>1. CASE d = c
      <3>0. PICK n : n = nextId OBVIOUS
      <3>1. Fresh(n)'
        <4>1. Fresh(n) BY <3>0, <1>6
        <4> QED BY <4>1, <1>2 DEF Fresh
      <3>2. q.late => Completed(r)' # {} BY <1>8
      <3>3. NormalizeAttempt(r)' = NormalizeAttempt(r)
        BY DEF NormalizeAttempt
      <3>4. call'[d] = q BY <2>1, <1>4
      <3>5. /\ q.pc = "replay" /\ q.id = nextId /\ q.attempt = NormalizeAttempt(r)
            /\ q.late => r.key # 0
        OBVIOUS
      <3> HIDE DEF q
      <3>7. Fresh(n)' /\ made'[n] = r /\ n \in Action /\ n < nextId'
        BY <3>1, <3>0, <1>1, <1>4, <1>7
      <3>8. NormalizeAttempt(made'[n]) = NormalizeAttempt(r) BY <3>7
      <3> QED BY <3>2, <3>3, <3>4, <3>5, <3>0, <3>7, <3>8
           DEF CallOK, Fresh, Completed, NormalizeAttempt
    <2>2. CASE d # c
      <3>1. PICK p : p = call[d] OBVIOUS
      <3>2. CallOK(p) /\ p = call'[d] BY <3>1, <2>2, <1>4 DEF IInv
      <3>3. p.pc # "idle" => p.id # nextId /\ made'[p.id] = made[p.id] /\ p.id < nextId'
        <4> SUFFICES ASSUME p.pc # "idle"
                     PROVE  p.id # nextId /\ made'[p.id] = made[p.id] /\ p.id < nextId'
          OBVIOUS
        <4>1. p.id \in Action /\ p.id < nextId BY <3>2 DEF CallOK
        <4>2. p.id \in Nat BY <4>1, <1>7
        <4> HIDE DEF q
        <4> QED BY <4>1, <4>2, <1>1, <1>4, <1>7
      <3>4. p.pc = "replayed" => p.found # nextId /\ p.found \in Action
        BY <3>2, <1>6 DEF CallOK, Fresh, IInv, TypeOK
      <3>5. p.late => Completed(made[p.id])' # {}
        <4> SUFFICES ASSUME p.late PROVE Completed(made[p.id])' # {}
          OBVIOUS
        <4>1. PICK s : s = made[p.id] OBVIOUS
        <4>2. Completed(s)' # {} BY <4>1, <3>2, <1>8 DEF CallOK
        <4>3. s = made'[p.id]
          BY <4>1, <3>2, <3>3 DEF CallOK
        <4> QED BY <4>2, <4>3 DEF Completed, Same
      <3> HIDE DEF q
      <3>6. CallOK(p)'
        BY <3>2, <3>3, <3>4, <3>5, <1>2, <1>4
           DEF CallOK, Fresh, Same, NoCall, NormalizeAttempt, NormalizeMaxAttempts, Completed
      <3> QED BY <3>2, <3>6 DEF CallOK, Fresh, Completed
    <2> QED BY <2>1, <2>2
  <1>10. \A b \in Action : RecOK(b)'
    <2> SUFFICES ASSUME NEW b \in Action PROVE RecOK(b)'
      OBVIOUS
    <2>1. CASE b = nextId
      BY <2>1, <1>1, <1>2, <1>6, <1>7 DEF RecOK, Fresh
    <2>2. CASE b # nextId
      <3>1. RecOK(b) /\ made'[b] = made[b] BY <2>2, <1>4 DEF IInv
      <3>2. "completed" \in whole[b] => output[b] # nextId /\ output[b] \in Action
        BY <3>1, <1>6 DEF RecOK, Fresh, IInv, TypeOK
      <3>3. b >= nextId' => b >= nextId BY <1>1, <1>7
      <3> QED BY <3>1, <3>2, <3>3, <1>2, <1>4
           DEF RecOK, Fresh, Same, NormalizeAttempt, NormalizeMaxAttempts
    <2> QED BY <2>1, <2>2
  <1>11. Apart'
    <2> SUFFICES ASSUME NEW d \in Caller, NEW e \in Caller, d # e,
                        call'[d].pc # "idle", call'[e].pc # "idle"
                 PROVE  call'[d].id # call'[e].id
      BY DEF Apart
    <2>1. \A p \in Caller : p # c /\ call[p].pc # "idle" => call[p].id < nextId
      BY DEF IInv, CallOK
    <2>2. \A p \in Caller : p # c /\ call[p].pc # "idle" => call[p].id # nextId
      BY <2>1, <1>7
    <2>3. call'[c].id = nextId BY <1>4
    <2> QED BY <2>2, <2>3, <1>4 DEF IInv, Apart
  <1> QED BY <1>5, <1>9, <1>10, <1>11 DEF IInv

\* A call that only moves on.
LEMMA GotoInv ==
  ASSUME IInv, NEW c \in Caller, NEW q \in CallState, call[c].pc # "idle",
         call' = [call EXCEPT ![c] = q], q = NoCall \/ (q.id = call[c].id /\ q.pc # "idle"),
         CallOK(q),
         UNCHANGED <<files, made, nextId, errors, crashes, ledgers>>
  PROVE  IInv'
  <1>0. UNCHANGED <<whole, torn, output, made, nextId, errors, crashes, tries, succeeded,
                    reported>>
    BY DEF files, ledgers
  <1>1. PICK a : a = call[c].id OBVIOUS
  <1>2. Frame(a) BY <1>0 DEF Frame, Untouched
  <1>3. CallOK(q)'
    BY <1>0 DEF CallOK, Fresh, Same, NoCall, NormalizeAttempt, NormalizeMaxAttempts, Completed
  <1>4. RecOK(a)'
    <2>1. RecOK(a) BY <1>1, Own
    <2> QED BY <2>1, <1>0
         DEF RecOK, Fresh, Same, NormalizeAttempt, NormalizeMaxAttempts
  <1>5. TypeOK'
    <2>1. call' \in [Caller -> CallState] BY DEF IInv, TypeOK
    <2>2. \A d \in Caller : call'[d].pc # "idle" => call'[d].id \in Action
      BY Own, NoCallFacts DEF IInv, TypeOK
    <2> QED BY <2>1, <2>2, <1>0 DEF IInv, TypeOK
  <1> QED BY <1>1, <1>2, <1>3, <1>4, <1>5, CallStep

\* A call record with another step.
LEMMA NextPc ==
  ASSUME NEW p \in CallState, NEW s \in Steps
  PROVE  /\ [p EXCEPT !.pc = s] \in CallState
         /\ [p EXCEPT !.pc = s].pc = s /\ [p EXCEPT !.pc = s].id = p.id
         /\ [p EXCEPT !.pc = s].attempt = p.attempt /\ [p EXCEPT !.pc = s].late = p.late
         /\ [p EXCEPT !.pc = s].found = p.found
  BY DEF CallState

LEMMA NoReplayInv ==
  ASSUME IInv, NEW c \in Caller, NoReplay(c)
  PROVE  IInv'
  <1>1. call[c].pc = "replay" BY DEF NoReplay, At
  <1>2. /\ call[c] \in CallState /\ CallOK(call[c])
        /\ call[c].id \in Action /\ made[call[c].id] \in Request
    BY <1>1, Own
  <1>3. PICK q : q = [call[c] EXCEPT !.pc = "save"] OBVIOUS
  <1>4. /\ q \in CallState /\ q.pc = "save" /\ q.id = call[c].id
        /\ q.attempt = call[c].attempt /\ q.late = call[c].late
    BY <1>2, <1>3, NextPc DEF Steps
  <1>5. ~call[c].late BY <1>2 DEF NoReplay, CallOK
  <1>6. CallOK(q) BY <1>1, <1>2, <1>4, <1>5 DEF CallOK
  <1>7. call' = [call EXCEPT ![c] = q] BY <1>3 DEF NoReplay, Goto, IInv, TypeOK
  <1> QED BY <1>1, <1>4, <1>6, <1>7, GotoInv DEF NoReplay

LEMMA FindCompletedInv ==
  ASSUME IInv, NEW c \in Caller, FindCompleted(c)
  PROVE  IInv'
  <1>1. call[c].pc = "replay" BY DEF FindCompleted, At
  <1>2. /\ call[c] \in CallState /\ CallOK(call[c])
        /\ call[c].id \in Action /\ made[call[c].id] \in Request
    BY <1>1, Own
  <1>3. PICK b \in Action :
          /\ "completed" \in whole[b] /\ Same(made[b], made[call[c].id])
          /\ call' = [call EXCEPT ![c].pc = "replayed", ![c].found = output[b]]
    BY DEF FindCompleted, Completed
  <1>4. PICK q : q = [call[c] EXCEPT !.pc = "replayed", !.found = output[b]] OBVIOUS
  <1>5. RecOK(b) /\ output[b] \in Action \cup {None} BY DEF IInv, TypeOK
  <1>6. /\ q \in CallState /\ q.pc = "replayed" /\ q.id = call[c].id
        /\ q.attempt = call[c].attempt /\ q.late = call[c].late /\ q.found = output[b]
    BY <1>2, <1>4, <1>5 DEF CallState, Steps
  <1>7. q.found \in succeeded /\ Same(made[q.id], made[q.found])
    BY <1>3, <1>5, <1>6 DEF RecOK, Same
  <1>8. made[call[c].id].key # 0 BY DEF FindCompleted
  <1>9. CallOK(q) BY <1>1, <1>2, <1>6, <1>7, <1>8 DEF CallOK
  <1>10. call' = [call EXCEPT ![c] = q] BY <1>3, <1>4 DEF IInv, TypeOK
  <1> QED BY <1>1, <1>6, <1>9, <1>10, GotoInv DEF FindCompleted

LEMMA FindFailsInv ==
  ASSUME IInv, NEW c \in Caller, FindFails(c)
  PROVE  IInv'
  BY GotoInv, NoCallFacts, NoCallOK DEF FindFails, At, Return

\* The types after a step of one call on its own action a.
LEMMA TouchType ==
  ASSUME IInv, NEW c \in Caller, NEW q \in CallState, call[c].pc # "idle",
         call' = [call EXCEPT ![c] = q], q = NoCall \/ q.id = call[c].id,
         whole' \in [Action -> SUBSET Dir], torn' \in [Action -> SUBSET Dir],
         output' \in [Action -> Action \cup {None}], tries' \in [Action -> Nat],
         succeeded' \subseteq Action, reported' \subseteq Action,
         errors' \in 0..MaxErrors, UNCHANGED <<made, nextId, crashes>>
  PROVE  TypeOK'
  <1>1. call' \in [Caller -> CallState] BY DEF IInv, TypeOK
  <1>2. \A d \in Caller : call'[d].pc # "idle" => call'[d].id \in Action
    BY Own, NoCallFacts DEF IInv, TypeOK
  <1> QED BY <1>1, <1>2 DEF IInv, TypeOK

LEMMA SaveReplayedInv ==
  ASSUME IInv, NEW c \in Caller, SaveReplayed(c)
  PROVE  IInv'
  <1>1. PICK a : a = call[c].id OBVIOUS
  <1>2. call[c].pc = "replayed" BY DEF SaveReplayed, At
  <1>3. PICK f : f = call[c].found OBVIOUS
  <1>4. /\ a \in Action /\ made[a] \in Request /\ RecOK(a) /\ a < nextId
        /\ Fresh(a) /\ f \in succeeded /\ Same(made[a], made[f]) /\ made[a].key # 0
    BY <1>1, <1>2, <1>3, Own DEF CallOK
  <1>5. f \in Action BY <1>4 DEF IInv, TypeOK
  <1>6. /\ whole' = [whole EXCEPT ![a] = whole[a] \cup {"completed"}]
        /\ output' = [output EXCEPT ![a] = f]
        /\ reported' = reported \cup {a}
        /\ call' = [call EXCEPT ![c] = NoCall]
        /\ UNCHANGED <<torn, made, nextId, errors, crashes, tries, succeeded>>
    BY <1>1, <1>3 DEF SaveReplayed, Return
  <1>7. /\ whole'[a] = {"completed"} /\ output'[a] = f
        /\ \A b \in Action : b # a => whole'[b] = whole[b] /\ output'[b] = output[b]
    BY <1>4, <1>6 DEF IInv, TypeOK, Fresh
  <1>8. TypeOK'
    <2>1. whole' \in [Action -> SUBSET Dir] BY <1>6 DEF IInv, TypeOK, Dir
    <2>2. output' \in [Action -> Action \cup {None}] BY <1>5, <1>6 DEF IInv, TypeOK
    <2> QED BY <2>1, <2>2, <1>2, <1>4, <1>6, TouchType, NoCallFacts DEF IInv, TypeOK
  <1>9. Frame(a) BY <1>4, <1>6, <1>7 DEF Frame, Untouched, Fresh
  <1>10. RecOK(a)'
    <2>1. ~(a >= nextId) BY <1>4 DEF IInv, TypeOK, Action
    <2> QED BY <2>1, <1>4, <1>6, <1>7 DEF RecOK, Fresh, Same
  <1> QED BY <1>1, <1>2, <1>6, <1>8, <1>9, <1>10, CallStep, NoCallOK

LEMMA SaveInv ==
  ASSUME IInv, NEW c \in Caller, Save(c)
  PROVE  IInv'
  <1>1. PICK a : a = call[c].id OBVIOUS
  <1>2. call[c].pc = "save" BY DEF Save, At
  <1>3. /\ call[c] \in CallState /\ CallOK(call[c])
        /\ a \in Action /\ made[a] \in Request /\ RecOK(a) /\ a < nextId
        /\ Fresh(a)
    BY <1>1, <1>2, Own DEF CallOK
  <1>4. PICK q : q = [call[c] EXCEPT !.pc = "attempt"] OBVIOUS
  <1>5. /\ q \in CallState /\ q.pc = "attempt" /\ q.id = a
        /\ q.attempt = call[c].attempt /\ q.late = call[c].late
    BY <1>1, <1>3, <1>4, NextPc DEF Steps
  <1>6. /\ whole' = [whole EXCEPT ![a] = whole[a] \cup {"running"}]
        /\ call' = [call EXCEPT ![c] = q]
        /\ UNCHANGED <<torn, output, made, nextId, errors, crashes, tries, succeeded, reported>>
    BY <1>1, <1>4 DEF Save, Goto, ledgers, IInv, TypeOK
  <1>7. whole'[a] = {"running"} /\ \A b \in Action : b # a => whole'[b] = whole[b]
    BY <1>3, <1>6 DEF IInv, TypeOK, Fresh
  <1>8. TypeOK'
    <2>1. whole' \in [Action -> SUBSET Dir] BY <1>6 DEF IInv, TypeOK, Dir
    <2> QED BY <2>1, <1>1, <1>2, <1>5, <1>6, TouchType DEF IInv, TypeOK
  <1>9. Frame(a) BY <1>3, <1>6, <1>7 DEF Frame, Untouched, Fresh
  <1>10. RecOK(a)'
    <2>1. ~(a >= nextId) BY <1>3 DEF IInv, TypeOK, Action
    <2> QED BY <2>1, <1>3, <1>6, <1>7 DEF RecOK, Fresh, Same
  <1>11. CallOK(q)'
    <2>1. PICK r : r = made[a] OBVIOUS
    <2>2. /\ q.attempt = NormalizeAttempt(r) /\ ~q.late
          /\ torn[a] = {} /\ tries[a] = 0 /\ a \notin reported
      BY <2>1, <1>1, <1>2, <1>3, <1>5 DEF CallOK, Fresh
    <2>3. /\ NormalizeAttempt(r) \in Nat
          /\ NormalizeAttempt(r) <= NormalizeMaxAttempts(r)
      BY <2>1, <1>3, Normalized
    <2>4. made'[a] = r /\ r \in Request BY <2>1, <1>3, <1>6
    <2>5. tries'[a] + NormalizeAttempt(made'[a]) = q.attempt
      BY <2>2, <2>3, <2>4, <1>6
    <2>6. q.attempt <= NormalizeMaxAttempts(made'[a]) BY <2>2, <2>3, <2>4
    <2> QED BY <2>2, <2>4, <2>5, <2>6, <1>3, <1>5, <1>6, <1>7
         DEF CallOK, NormalizeAttempt, NormalizeMaxAttempts
  <1> QED BY <1>1, <1>2, <1>5, <1>6, <1>8, <1>9, <1>10, <1>11, CallStep

\* What an attempt starts from.
LEMMA AttemptFacts ==
  ASSUME IInv, NEW c \in Caller, call[c].pc = "attempt", NEW a, a = call[c].id, Tried(c)
  PROVE  /\ a \in Action /\ made[a] \in Request /\ RecOK(a) /\ a < nextId
         /\ call[c] \in CallState /\ ~call[c].late
         /\ whole[a] = {"running"} /\ torn[a] = {} /\ a \notin reported
         /\ tries[a] \in Nat /\ tries[a] + NormalizeAttempt(made[a]) = call[c].attempt
         /\ call[c].attempt <= NormalizeMaxAttempts(made[a])
         /\ tries' \in [Action -> Nat] /\ tries'[a] = tries[a] + 1
         /\ \A b \in Action : b # a => tries'[b] = tries[b]
         /\ ~(a >= nextId)
  <1>1. /\ call[c] \in CallState /\ CallOK(call[c])
        /\ a \in Action /\ made[a] \in Request /\ RecOK(a) /\ a < nextId
    BY Own
  <1>2. tries[a] \in Nat BY <1>1 DEF IInv, TypeOK
  <1>3. /\ tries' \in [Action -> Nat] /\ tries'[a] = tries[a] + 1
        /\ \A b \in Action : b # a => tries'[b] = tries[b]
    BY <1>1 DEF Tried, IInv, TypeOK
  <1>4. ~(a >= nextId) BY <1>1 DEF IInv, TypeOK, Action
  <1> QED BY <1>1, <1>2, <1>3, <1>4 DEF CallOK

\* The attempt just made is within the bound.
LEMMA AttemptBound ==
  ASSUME IInv, NEW c \in Caller, call[c].pc = "attempt", NEW a, a = call[c].id, Tried(c)
  PROVE  tries'[a] + NormalizeAttempt(made[a]) <= NormalizeMaxAttempts(made[a]) + 1
  <1>1. PICK r : r = made[a] OBVIOUS
  <1>2. /\ NormalizeAttempt(r) \in Nat /\ NormalizeMaxAttempts(r) \in Nat
    BY <1>1, AttemptFacts, Normalized
  <1> HIDE DEF Tried
  <1> QED BY <1>1, <1>2, AttemptFacts

LEMMA AttemptSucceedsInv ==
  ASSUME IInv, NEW c \in Caller, AttemptSucceeds(c)
  PROVE  IInv'
  <1>1. PICK a : a = call[c].id OBVIOUS
  <1>2. call[c].pc = "attempt" /\ Tried(c) BY DEF AttemptSucceeds, At
  <1>3. /\ a \in Action /\ made[a] \in Request /\ RecOK(a) /\ a < nextId
        /\ call[c] \in CallState /\ ~call[c].late
        /\ whole[a] = {"running"} /\ torn[a] = {} /\ a \notin reported
        /\ tries' \in [Action -> Nat]
        /\ \A b \in Action : b # a => tries'[b] = tries[b]
        /\ ~(a >= nextId)
    BY <1>1, <1>2, AttemptFacts
  <1>4. PICK q : q = [call[c] EXCEPT !.pc = "completed"] OBVIOUS
  <1>5. q \in CallState /\ q.pc = "completed" /\ q.id = a /\ ~q.late
    BY <1>1, <1>3, <1>4, NextPc DEF Steps
  <1>6. /\ output' = [output EXCEPT ![a] = a]
        /\ succeeded' = succeeded \cup {a}
        /\ call' = [call EXCEPT ![c] = q]
        /\ UNCHANGED <<whole, torn, made, nextId, errors, crashes, reported>>
    BY <1>1, <1>4 DEF AttemptSucceeds, Goto, IInv, TypeOK
  <1>7. output'[a] = a /\ \A b \in Action : b # a => output'[b] = output[b]
    BY <1>3, <1>6 DEF IInv, TypeOK
  <1>8. TypeOK'
    <2>1. output' \in [Action -> Action \cup {None}] BY <1>3, <1>6 DEF IInv, TypeOK
    <2>2. succeeded' \subseteq Action BY <1>3, <1>6 DEF IInv, TypeOK
    <2> QED BY <2>1, <2>2, <1>1, <1>2, <1>3, <1>5, <1>6, TouchType DEF IInv, TypeOK
  <1>9. Frame(a) BY <1>3, <1>6, <1>7 DEF Frame, Untouched
  <1>10. RecOK(a)'
    <2>1. tries'[a] + NormalizeAttempt(made'[a]) <= NormalizeMaxAttempts(made'[a]) + 1
      BY <1>1, <1>2, <1>6, AttemptBound
    <2> QED BY <2>1, <1>3, <1>6, <1>7
         DEF RecOK, NormalizeAttempt, NormalizeMaxAttempts
  <1>11. CallOK(q)' BY <1>3, <1>5, <1>6, <1>7 DEF CallOK
  <1> QED BY <1>1, <1>2, <1>5, <1>6, <1>8, <1>9, <1>10, <1>11, CallStep

LEMMA AttemptFailsInv ==
  ASSUME IInv, NEW c \in Caller, AttemptFails(c)
  PROVE  IInv'
  <1>1. PICK a : a = call[c].id OBVIOUS
  <1>2. call[c].pc = "attempt" /\ Tried(c) BY DEF AttemptFails, At
  <1>3. /\ a \in Action /\ made[a] \in Request /\ RecOK(a) /\ a < nextId
        /\ call[c] \in CallState /\ ~call[c].late
        /\ whole[a] = {"running"} /\ torn[a] = {} /\ a \notin reported
        /\ tries[a] \in Nat /\ tries[a] + NormalizeAttempt(made[a]) = call[c].attempt
        /\ tries' \in [Action -> Nat] /\ tries'[a] = tries[a] + 1
        /\ \A b \in Action : b # a => tries'[b] = tries[b]
        /\ ~(a >= nextId)
    BY <1>1, <1>2, AttemptFacts
  <1>4. UNCHANGED <<whole, torn, output, made, nextId, errors, crashes, succeeded, reported>>
    BY DEF AttemptFails, files
  <1>5. Frame(a) BY <1>3, <1>4 DEF Frame, Untouched
  <1>6. RecOK(a)'
    <2>1. tries'[a] + NormalizeAttempt(made'[a]) <= NormalizeMaxAttempts(made'[a]) + 1
      BY <1>1, <1>2, <1>4, AttemptBound
    <2> QED BY <2>1, <1>3, <1>4
         DEF RecOK, NormalizeAttempt, NormalizeMaxAttempts
  <1>7. CASE call' = [call EXCEPT ![c].pc = "failed"]
    <2>1. PICK q : q = [call[c] EXCEPT !.pc = "failed"] OBVIOUS
    <2>2. q \in CallState /\ q.pc = "failed" /\ q.id = a /\ ~q.late
      BY <1>1, <1>3, <2>1, NextPc DEF Steps
    <2>3. call' = [call EXCEPT ![c] = q] BY <1>7, <2>1 DEF IInv, TypeOK
    <2>4. TypeOK' BY <2>2, <2>3, <1>1, <1>2, <1>3, <1>4, TouchType DEF IInv, TypeOK
    <2>5. CallOK(q)' BY <2>2, <1>3, <1>4 DEF CallOK
    <2> QED BY <1>1, <1>2, <1>5, <1>6, <2>2, <2>3, <2>4, <2>5, CallStep
  <1>8. CASE /\ call[c].attempt < NormalizeMaxAttempts(made[a])
             /\ call' = [call EXCEPT ![c].attempt = call[c].attempt + 1]
    <2>0. PICK r : r = made[a] OBVIOUS
    <2>1. PICK q : q = [call[c] EXCEPT !.attempt = call[c].attempt + 1] OBVIOUS
    <2>2. call[c].attempt \in Nat BY <1>3 DEF CallState
    <2>3. /\ q \in CallState /\ q.pc = "attempt" /\ q.id = a /\ ~q.late
          /\ q.attempt = call[c].attempt + 1
      BY <1>1, <1>2, <1>3, <2>1, <2>2 DEF CallState
    <2>4. call' = [call EXCEPT ![c] = q] BY <1>8, <2>1 DEF IInv, TypeOK
    <2>5. TypeOK' BY <2>3, <2>4, <1>1, <1>2, <1>3, <1>4, TouchType DEF IInv, TypeOK
    <2>6. NormalizeAttempt(r) \in Nat /\ NormalizeMaxAttempts(r) \in Nat
      BY <2>0, <1>3, Normalized
    <2>7. /\ tries'[a] + NormalizeAttempt(r) = q.attempt
          /\ q.attempt <= NormalizeMaxAttempts(r)
      BY <2>0, <2>2, <2>3, <2>6, <1>3, <1>8
    <2>8. made'[a] = r /\ r \in Request BY <2>0, <1>3, <1>4
    <2>9. /\ tries'[a] + NormalizeAttempt(made'[a]) = q.attempt
          /\ q.attempt <= NormalizeMaxAttempts(made'[a])
      BY <2>7, <2>8
    <2>10. CallOK(q)'
      BY <2>3, <2>8, <2>9, <1>3, <1>4 DEF CallOK, NormalizeAttempt, NormalizeMaxAttempts
    <2> QED BY <1>1, <1>2, <1>5, <1>6, <2>3, <2>4, <2>5, <2>10, CallStep
  <1> QED BY <1>1, <1>7, <1>8 DEF AttemptFails, Goto

\* Before Move and Save the call's own file is all there is.
LEMMA MoveInv ==
  ASSUME IInv, NEW c \in Caller, NEW d \in {"completed", "failed"}, Move(c, d)
  PROVE  IInv'
  <1>1. PICK a : a = call[c].id OBVIOUS
  <1>2. call[c].pc = d BY DEF Move, At
  <1>3. /\ a \in Action /\ made[a] \in Request /\ RecOK(a) /\ a < nextId
        /\ whole[a] = {"running"} /\ torn[a] = {}
        /\ d = "completed" => output[a] = a /\ a \in succeeded
    BY <1>1, <1>2, Own DEF CallOK
  <1>4. Removed(a) = {"running"} BY <1>3 DEF Removed, Before
  <1>5. /\ whole' = [whole EXCEPT ![a] = (whole[a] \ {"running"}) \cup {d}]
        /\ call' = [call EXCEPT ![c] = NoCall]
        /\ reported' = IF d = "completed" THEN reported \cup {a} ELSE reported
        /\ UNCHANGED <<torn, output, made, nextId, errors, crashes, tries, succeeded>>
    BY <1>1, <1>4 DEF Move, Return
  <1>6. whole'[a] = {d} /\ \A b \in Action : b # a => whole'[b] = whole[b]
    BY <1>3, <1>5 DEF IInv, TypeOK
  <1>7. TypeOK'
    <2>1. whole' \in [Action -> SUBSET Dir] BY <1>5 DEF IInv, TypeOK, Dir
    <2>2. reported' \subseteq Action BY <1>3, <1>5 DEF IInv, TypeOK
    <2> QED BY <2>1, <2>2, <1>2, <1>5, TouchType, NoCallFacts DEF IInv, TypeOK
  <1>8. Frame(a) BY <1>3, <1>5, <1>6 DEF Frame, Untouched
  <1>9. RecOK(a)'
    <2>1. ~(a >= nextId) BY <1>3 DEF IInv, TypeOK, Action
    <2>2. a \in reported' => d = "completed"
      BY <1>3, <1>5 DEF RecOK
    <2> QED BY <2>1, <2>2, <1>3, <1>5, <1>6
         DEF RecOK, Same, NormalizeAttempt, NormalizeMaxAttempts
  <1> QED BY <1>1, <1>2, <1>5, <1>7, <1>8, <1>9, CallStep, NoCallOK

\* A write that is cut short concerns the record of its call only, takes no
\* completed record away and leaves at most one file.
LEMMA HalfWrittenFacts ==
  ASSUME IInv, NEW c \in Caller, call[c].pc # "idle", NEW a, a = call[c].id, HalfWritten(c),
         UNCHANGED <<output, made, nextId, ledgers>>
  PROVE  /\ whole' \in [Action -> SUBSET Dir] /\ torn' \in [Action -> SUBSET Dir]
         /\ Frame(a) /\ RecOK(a)'
  <1>0. UNCHANGED <<output, made, nextId, tries, succeeded, reported>> BY DEF ledgers
  <1>1. /\ CallOK(call[c]) /\ a \in Action /\ made[a] \in Request /\ RecOK(a) /\ a < nextId
        /\ whole \in [Action -> SUBSET Dir] /\ torn \in [Action -> SUBSET Dir]
    BY Own DEF IInv, TypeOK
  <1>2. ~(a >= nextId) BY <1>1 DEF IInv, TypeOK, Action
  <1>3. CASE UNCHANGED <<whole, torn>>
    BY <1>0, <1>1, <1>3
       DEF Frame, Untouched, RecOK, Fresh, Same, NormalizeAttempt, NormalizeMaxAttempts
  <1>4. ASSUME NEW d \in Dir, torn' = [torn EXCEPT ![a] = torn[a] \cup {d}], UNCHANGED whole,
               whole[a] = {}, torn[a] = {}, a \notin reported
        PROVE  /\ whole' \in [Action -> SUBSET Dir] /\ torn' \in [Action -> SUBSET Dir]
               /\ Frame(a) /\ RecOK(a)'
    <2>1. /\ torn'[a] = {d} /\ torn' \in [Action -> SUBSET Dir]
          /\ \A b \in Action : b # a => torn'[b] = torn[b]
      BY <1>1, <1>4
    <2>2. Frame(a) BY <2>1, <1>0, <1>4 DEF Frame, Untouched
    <2>3. RecOK(a)'
      BY <2>1, <1>0, <1>1, <1>2, <1>4 DEF RecOK, NormalizeAttempt, NormalizeMaxAttempts
    <2> QED BY <2>1, <2>2, <2>3, <1>1, <1>4
  <1>5. ASSUME NEW d \in {"completed", "failed"}, call[c].pc = d,
               whole' = [whole EXCEPT ![a] = whole[a] \ Removed(a)],
               UNCHANGED torn \/ torn' = [torn EXCEPT ![a] = torn[a] \cup {d}]
        PROVE  /\ whole' \in [Action -> SUBSET Dir] /\ torn' \in [Action -> SUBSET Dir]
               /\ Frame(a) /\ RecOK(a)'
    <2>1. whole[a] = {"running"} /\ torn[a] = {} /\ a \notin reported
      BY <1>1, <1>5 DEF CallOK
    <2>2. Removed(a) = {"running"} BY <2>1 DEF Removed, Before
    <2>3. /\ whole'[a] = {} /\ whole' \in [Action -> SUBSET Dir]
          /\ \A b \in Action : b # a => whole'[b] = whole[b]
      BY <2>1, <2>2, <1>1, <1>5
    <2>4. /\ torn'[a] \in {{}, {d}} /\ torn' \in [Action -> SUBSET Dir]
          /\ \A b \in Action : b # a => torn'[b] = torn[b]
      BY <2>1, <1>1, <1>5 DEF Dir
    <2>5. Frame(a) BY <2>1, <2>3, <2>4, <1>0 DEF Frame, Untouched
    <2>6. RecOK(a)'
      BY <2>1, <2>3, <2>4, <1>0, <1>1, <1>2 DEF RecOK, NormalizeAttempt, NormalizeMaxAttempts
    <2> QED BY <2>3, <2>4, <2>5, <2>6
  <1>6. CASE call[c].pc = "save" /\ torn' = [torn EXCEPT ![a] = torn[a] \cup {"running"}]
             /\ UNCHANGED whole
    <2>1. whole[a] = {} /\ torn[a] = {} /\ a \notin reported BY <1>1, <1>6 DEF CallOK, Fresh
    <2> QED BY <2>1, <1>4, <1>6 DEF Dir
  <1>7. CASE call[c].pc = "replayed" /\ torn' = [torn EXCEPT ![a] = torn[a] \cup {"completed"}]
             /\ UNCHANGED whole
    <2>1. whole[a] = {} /\ torn[a] = {} /\ a \notin reported BY <1>1, <1>7 DEF CallOK, Fresh
    <2> QED BY <2>1, <1>4, <1>7 DEF Dir
  <1>8. \/ UNCHANGED <<whole, torn>>
        \/ call[c].pc = "save" /\ torn' = [torn EXCEPT ![a] = torn[a] \cup {"running"}]
           /\ UNCHANGED whole
        \/ call[c].pc = "replayed" /\ torn' = [torn EXCEPT ![a] = torn[a] \cup {"completed"}]
           /\ UNCHANGED whole
        \/ \E d \in {"completed", "failed"} :
             /\ call[c].pc = d
             /\ whole' = [whole EXCEPT ![a] = whole[a] \ Removed(a)]
             /\ UNCHANGED torn \/ torn' = [torn EXCEPT ![a] = torn[a] \cup {d}]
    BY DEF HalfWritten, At
  <1> QED BY <1>3, <1>5, <1>6, <1>7, <1>8

LEMMA WriteFailsInv ==
  ASSUME IInv, NEW c \in Caller, WriteFails(c)
  PROVE  IInv'
  <1>1. PICK a : a = call[c].id OBVIOUS
  <1>2. call[c].pc # "idle" /\ call' = [call EXCEPT ![c] = NoCall] /\ HalfWritten(c)
    BY DEF WriteFails, Return
  <1>3. UNCHANGED <<output, made, nextId, crashes, ledgers>> BY DEF WriteFails
  <1>4. /\ whole' \in [Action -> SUBSET Dir] /\ torn' \in [Action -> SUBSET Dir]
        /\ Frame(a) /\ RecOK(a)'
    BY <1>1, <1>2, <1>3, HalfWrittenFacts
  <1>5. errors' \in 0..MaxErrors
    BY ExecutionAssumption DEF WriteFails, IInv, TypeOK
  <1>6. UNCHANGED <<output, made, nextId, crashes, tries, succeeded, reported>>
    BY <1>3 DEF ledgers
  <1>7. TypeOK' BY <1>2, <1>4, <1>5, <1>6, TouchType, NoCallFacts DEF IInv, TypeOK
  <1> QED BY <1>1, <1>2, <1>4, <1>7, CallStep, NoCallOK

LEMMA CrashInv ==
  ASSUME IInv, Crash
  PROVE  IInv'
  <1>1. PICK c \in Caller : HalfWritten(c) BY DEF Crash
  <1>2. PICK a : a = call[c].id OBVIOUS
  <1>3. /\ \A d \in Caller : call'[d] = NoCall
        /\ call' \in [Caller -> CallState]
    BY NoCallFacts DEF Crash
  <1>4. UNCHANGED <<output, made, nextId, errors, tries, succeeded, reported>>
    BY DEF Crash, ledgers
  <1>5. /\ whole' \in [Action -> SUBSET Dir] /\ torn' \in [Action -> SUBSET Dir]
        /\ \A b \in Action : RecOK(b)'
    <2>1. CASE call[c].pc # "idle"
      <3>1. UNCHANGED <<output, made, nextId, ledgers>> BY DEF Crash
      <3>2. /\ whole' \in [Action -> SUBSET Dir] /\ torn' \in [Action -> SUBSET Dir]
            /\ Frame(a) /\ RecOK(a)'
        BY <1>1, <1>2, <2>1, <3>1, HalfWrittenFacts
      <3>3. ASSUME NEW b \in Action PROVE RecOK(b)'
        <4>1. CASE b = a BY <4>1, <3>2
        <4>2. CASE b # a BY <4>2, <3>2, FrameRec DEF IInv
        <4> QED BY <4>1, <4>2
      <3> QED BY <3>2, <3>3
    <2>2. CASE call[c].pc = "idle"
      <3>1. UNCHANGED <<whole, torn>> BY <1>1, <2>2 DEF HalfWritten, At
      <3> QED BY <3>1, <1>4
           DEF IInv, TypeOK, RecOK, Fresh, Same, NormalizeAttempt, NormalizeMaxAttempts
    <2> QED BY <2>1, <2>2
  <1>6. crashes' \in 0..MaxCrashes
    BY ExecutionAssumption DEF Crash, IInv, TypeOK
  <1>7. TypeOK' BY <1>3, <1>4, <1>5, <1>6, NoCallFacts DEF IInv, TypeOK
  <1>8. \A d \in Caller : CallOK(call[d])'
    <2> SUFFICES ASSUME NEW d \in Caller PROVE CallOK(call[d])'
      OBVIOUS
    <2>1. call'[d] = NoCall BY <1>3
    <2> QED BY <2>1, NoCallOK DEF CallOK, Fresh, Completed
  <1>9. Apart' BY <1>3, NoCallFacts DEF Apart
  <1> QED BY <1>5, <1>7, <1>8, <1>9 DEF IInv

LEMMA StepInv == IInv /\ [Next]_vars => IInv'
  <1> SUFFICES ASSUME IInv, [Next]_vars PROVE IInv'
    OBVIOUS
  <1>1. ASSUME NEW c \in Caller, NEW r \in Request, Execute(c, r) PROVE IInv'
    BY <1>1, ExecuteInv
  <1>2. ASSUME NEW c \in Caller, Step(c) PROVE IInv'
    <2>1. CASE NoReplay(c) BY <2>1, NoReplayInv
    <2>2. CASE FindCompleted(c) BY <2>2, FindCompletedInv
    <2>3. CASE FindFails(c) BY <2>3, FindFailsInv
    <2>4. CASE SaveReplayed(c) BY <2>4, SaveReplayedInv
    <2>5. CASE Save(c) BY <2>5, SaveInv
    <2>6. CASE AttemptSucceeds(c) BY <2>6, AttemptSucceedsInv
    <2>7. CASE AttemptFails(c) BY <2>7, AttemptFailsInv
    <2>8. ASSUME NEW d \in {"completed", "failed"}, Move(c, d) PROVE IInv'
      BY <2>8, MoveInv
    <2> QED BY <1>2, <2>1, <2>2, <2>3, <2>4, <2>5, <2>6, <2>7, <2>8 DEF Step
  <1>3. ASSUME NEW c \in Caller, WriteFails(c) PROVE IInv'
    BY <1>3, WriteFailsInv
  <1>4. CASE Crash BY <1>4, CrashInv
  <1>5. CASE UNCHANGED vars
    <2>1. UNCHANGED <<whole, torn, output, made, call, nextId, errors, crashes, tries,
                      succeeded, reported>>
      BY <1>5 DEF vars, files, ledgers
    <2> QED BY <2>1 DEF IInv, TypeOK, CallOK, RecOK, Apart, Fresh, Same, Completed, NoCall,
                        NormalizeAttempt, NormalizeMaxAttempts, NoRequest
  <1> QED BY <1>1, <1>2, <1>3, <1>4, <1>5 DEF Next

LEMMA Inductive == Spec => []IInv
  BY InitInv, StepInv, PTL DEF Spec

\* Records, calls and ledgers keep their types.
THEOREM TypeCorrect == Spec => []TypeOK
  <1>1. IInv => TypeOK BY DEF IInv
  <1> QED BY <1>1, Inductive, PTL

\* However a Move fails or dies, an action has one file at most.
THEOREM OneFileHolds == Spec => []OneFile
  <1>1. IInv => OneFile BY DEF IInv, RecOK, OneFile
  <1> QED BY <1>1, Inductive, PTL

\* The output in a completed record is that of an action of the same request
\* that did succeed.
THEOREM OutputHonestHolds == Spec => []OutputHonest
  <1>1. IInv => OutputHonest BY DEF IInv, RecOK, OutputHonest
  <1> QED BY <1>1, Inductive, PTL

\* A request that comes after a matching one was completed is not carried
\* out again.
THEOREM DoneNeverRedoneHolds == Spec => []DoneNeverRedone
  <1>1. IInv => DoneNeverRedone BY DEF IInv, CallOK, DoneNeverRedone
  <1> QED BY <1>1, Inductive, PTL

\* What was reported as completed stays on record.
THEOREM ReportedKeptHolds == Spec => []ReportedKept
  <1>1. IInv => ReportedKept BY DEF IInv, TypeOK, RecOK, ReportedKept
  <1> QED BY <1>1, Inductive, PTL

\* Attempts stay within what the request allows.
THEOREM AttemptsBoundedHolds == Spec => []AttemptsBounded
  <1>1. IInv => AttemptsBounded BY DEF IInv, RecOK, AttemptsBounded
  <1> QED BY <1>1, Inductive, PTL

\* The records of the action store are those of what was done (Store.Move).
THEOREM RecordsHonestHolds == Spec => []RecordsHonest
  BY OneFileHolds, OutputHonestHolds, ReportedKeptHolds, PTL DEF RecordsHonest

\* A completed request is not carried out again and no request more often than
\* it allows (tryReplay, shouldRetry).
THEOREM NeverTooOftenHolds == Spec => []NeverTooOften
  BY DoneNeverRedoneHolds, AttemptsBoundedHolds, PTL DEF NeverTooOften

-----------------------------------------------------------------------------
(***************************************************************************)
(* How often a request can succeed                                         *)
(*                                                                         *)
(* Until a record of r is completed, each success is in the hands of a     *)
(* caller that is about to record it, or was lost to a fault: a failed     *)
(* write loses one, a crash at most one for each caller.  From then on     *)
(* only the callers already past tryReplay can still succeed, and they and *)
(* the holders were different callers when the first record was completed. *)
(***************************************************************************)

\* The successes of r, the callers that have one to record, and the callers
\* that may still get one.
Won(r) == {a \in succeeded : Same(made[a], r)}
Holding(r) == {c \in Caller : call[c].pc = "completed" /\ Same(made[call[c].id], r)}
Trying(r) ==
  {c \in Caller : call[c].pc \in {"save", "attempt"} /\ Same(made[call[c].id], r)}

\* W, H and T as above; k and e are what crashes and failed writes may lose.
Room(W, H, T, done, k, e) ==
  IF done THEN Cardinality(W) + Cardinality(T) <= Cardinality(Caller) + k + e
          ELSE Cardinality(W) <= Cardinality(H) + k + e

Lost == Cardinality(Caller) * crashes

Bound(r) == Room(Won(r), Holding(r), Trying(r), Completed(r) # {}, Lost, errors)

\* A call about to save a replay has a completed record behind it.
ReplayBacked ==
  \A c \in Caller : call[c].pc = "replayed" => Completed(made[call[c].id]) # {}

RInv == IInv /\ ReplayBacked /\ \A r \in Request : r.key # 0 => Bound(r)

LEMMA CallersFinite ==
  IsFiniteSet(Caller) /\ Cardinality(Caller) \in Nat
  BY ExecutionAssumption, FS_CardinalityType

LEMMA SubsetSize ==
  ASSUME NEW S, IsFiniteSet(S), NEW T, T \subseteq S
  PROVE  /\ IsFiniteSet(T) /\ Cardinality(T) \in Nat /\ Cardinality(S) \in Nat
         /\ Cardinality(T) <= Cardinality(S)
  BY FS_Subset, FS_CardinalityType

\* Two sets of callers with no caller in common.
LEMMA SplitSize ==
  ASSUME NEW H, NEW T, H \subseteq Caller, T \subseteq Caller, H \cap T = {}
  PROVE  Cardinality(H) + Cardinality(T) <= Cardinality(Caller)
  <1>1. IsFiniteSet(H) /\ IsFiniteSet(T) BY SubsetSize, CallersFinite
  <1>2. Cardinality(H \cup T) = Cardinality(H) + Cardinality(T) - Cardinality({})
    BY <1>1, FS_Union
  <1>3. Cardinality(H \cup T) <= Cardinality(Caller)
    BY SubsetSize, CallersFinite
  <1>4. Cardinality(H) \in Nat /\ Cardinality(T) \in Nat BY <1>1, FS_CardinalityType
  <1> QED BY <1>2, <1>3, <1>4, FS_EmptySet

LEMMA WonFinite ==
  ASSUME IInv, NEW r
  PROVE  IsFiniteSet(Won(r))
  <1>1. IsFiniteSet(Action) BY ExecutionAssumption, FS_Interval DEF Action
  <1>2. Won(r) \subseteq Action BY DEF Won, IInv, TypeOK
  <1> QED BY <1>1, <1>2, SubsetSize

\* The bound stays when nothing succeeds, no holder is lost, and after the
\* first record no caller begins to try.
LEMMA RoomQuiet ==
  ASSUME NEW W, IsFiniteSet(W), NEW H, H \subseteq Caller, NEW T, T \subseteq Caller,
         NEW W2, W2 \subseteq W, NEW H2, H2 \subseteq Caller, H \subseteq H2,
         NEW T2, NEW done, done => T2 \subseteq T,
         NEW k \in Nat, NEW e \in Nat, NEW e2 \in Nat, e <= e2,
         Room(W, H, T, done, k, e)
  PROVE  Room(W2, H2, T2, done, k, e2)
  <1>1. /\ Cardinality(W) \in Nat /\ Cardinality(W2) \in Nat
        /\ Cardinality(W2) <= Cardinality(W)
    BY SubsetSize
  <1>2. IsFiniteSet(H2) /\ IsFiniteSet(T) BY SubsetSize, CallersFinite
  <1>3. /\ Cardinality(H) \in Nat /\ Cardinality(H2) \in Nat
        /\ Cardinality(H) <= Cardinality(H2)
    BY <1>2, SubsetSize
  <1>4. CASE done
    <2>1. /\ Cardinality(T) \in Nat /\ Cardinality(T2) \in Nat
          /\ Cardinality(T2) <= Cardinality(T)
      BY <1>2, <1>4, SubsetSize
    <2> QED BY <2>1, <1>1, <1>4, CallersFinite DEF Room
  <1>5. CASE ~done BY <1>1, <1>3, <1>5 DEF Room
  <1> QED BY <1>4, <1>5

\* A success: its caller now holds it and no longer tries.
LEMMA RoomWin ==
  ASSUME NEW W, IsFiniteSet(W), NEW H, H \subseteq Caller, NEW T, T \subseteq Caller,
         NEW c \in T, c \notin H, NEW a, NEW done, NEW k \in Nat, NEW e \in Nat,
         Room(W, H, T, done, k, e)
  PROVE  Room(W \cup {a}, H \cup {c}, T \ {c}, done, k, e)
  <1>1. IsFiniteSet(H) /\ IsFiniteSet(T) BY SubsetSize, CallersFinite
  <1>2. /\ Cardinality(W) \in Nat /\ Cardinality(H) \in Nat /\ Cardinality(T) \in Nat
    BY <1>1, FS_CardinalityType
  <1>3. Cardinality(W \cup {a}) = Cardinality(W) \/ Cardinality(W \cup {a}) = Cardinality(W) + 1
    BY FS_AddElement
  <1>4. Cardinality(H \cup {c}) = Cardinality(H) + 1 BY <1>1, FS_AddElement
  <1>5. Cardinality(T \ {c}) = Cardinality(T) - 1 BY <1>1, FS_RemoveElement
  <1> QED BY <1>2, <1>3, <1>4, <1>5, CallersFinite DEF Room

\* The first record, or another one.
LEMMA RoomRecord ==
  ASSUME NEW W, IsFiniteSet(W), NEW H, H \subseteq Caller, NEW T, T \subseteq Caller,
         H \cap T = {}, NEW H2, NEW done, NEW k \in Nat, NEW e \in Nat,
         Room(W, H, T, done, k, e)
  PROVE  Room(W, H2, T, TRUE, k, e)
  <1>1. IsFiniteSet(H) /\ IsFiniteSet(T) BY SubsetSize, CallersFinite
  <1>2. /\ Cardinality(W) \in Nat /\ Cardinality(H) \in Nat /\ Cardinality(T) \in Nat
    BY <1>1, FS_CardinalityType
  <1>3. Cardinality(H) + Cardinality(T) <= Cardinality(Caller) BY SplitSize
  <1> QED BY <1>2, <1>3, CallersFinite DEF Room

\* A failed write loses one success at most.
LEMMA RoomError ==
  ASSUME NEW W, IsFiniteSet(W), NEW H, H \subseteq Caller, NEW T, T \subseteq Caller,
         NEW c, NEW done, NEW k \in Nat, NEW e \in Nat,
         Room(W, H, T, done, k, e)
  PROVE  Room(W, H \ {c}, T \ {c}, done, k, e + 1)
  <1>1. IsFiniteSet(H) /\ IsFiniteSet(T) BY SubsetSize, CallersFinite
  <1>2. /\ Cardinality(W) \in Nat /\ Cardinality(H) \in Nat /\ Cardinality(T) \in Nat
    BY <1>1, FS_CardinalityType
  <1>3. /\ Cardinality(H \ {c}) \in {Cardinality(H), Cardinality(H) - 1}
        /\ Cardinality(T \ {c}) \in {Cardinality(T), Cardinality(T) - 1}
    BY <1>1, FS_RemoveElement
  <1> QED BY <1>2, <1>3, CallersFinite DEF Room

\* A crash loses what the callers hold.
LEMMA RoomCrash ==
  ASSUME NEW W, IsFiniteSet(W), NEW H, H \subseteq Caller, NEW T, T \subseteq Caller,
         NEW done, NEW k \in Nat, NEW e \in Nat,
         Room(W, H, T, done, k, e)
  PROVE  Room(W, {}, {}, done, k + Cardinality(Caller), e)
  <1>1. /\ Cardinality(H) \in Nat /\ Cardinality(T) \in Nat
        /\ Cardinality(H) <= Cardinality(Caller)
    BY SubsetSize, CallersFinite
  <1>2. Cardinality(W) \in Nat BY FS_CardinalityType
  <1> QED BY <1>1, <1>2, CallersFinite, FS_EmptySet DEF Room

\* The sets of callers after a step of c.
LEMMA Shift ==
  ASSUME IInv, NEW c \in Caller, NEW q, call' = [call EXCEPT ![c] = q], UNCHANGED made, NEW r
  PROVE  /\ Holding(r)' \ {c} = Holding(r) \ {c} /\ Trying(r)' \ {c} = Trying(r) \ {c}
         /\ c \in Holding(r)' <=> q.pc = "completed" /\ Same(made[q.id], r)
         /\ c \in Trying(r)' <=> q.pc \in {"save", "attempt"} /\ Same(made[q.id], r)
  <1>1. call'[c] = q /\ \A d \in Caller : d # c => call'[d] = call[d]
    BY DEF IInv, TypeOK
  <1> QED BY <1>1 DEF Holding, Trying, Same

\* The same records are completed.
LEMMA CompletedSame ==
  ASSUME UNCHANGED made, NEW r,
         \A b \in Action : "completed" \in whole'[b] <=> "completed" \in whole[b]
  PROVE  Completed(r)' = Completed(r)
  BY DEF Completed, Same

LEMMA SetFacts ==
  ASSUME IInv, NEW r
  PROVE  /\ IsFiniteSet(Won(r)) /\ Holding(r) \subseteq Caller /\ Trying(r) \subseteq Caller
         /\ Holding(r) \cap Trying(r) = {} /\ Lost \in Nat /\ errors \in Nat
  <1>1. crashes \in Nat /\ errors \in Nat BY DEF IInv, TypeOK
  <1> QED BY <1>1, WonFinite, CallersFinite DEF Holding, Trying, Lost

LEMMA BoundQuiet ==
  ASSUME IInv, NEW r, Bound(r), Won(r)' \subseteq Won(r), Holding(r) \subseteq Holding(r)',
         (Completed(r)' # {}) <=> (Completed(r) # {}),
         Completed(r) # {} => Trying(r)' \subseteq Trying(r),
         errors' \in Nat, errors <= errors', crashes' = crashes
  PROVE  Bound(r)'
  <1>1. /\ IsFiniteSet(Won(r)) /\ Holding(r) \subseteq Caller /\ Trying(r) \subseteq Caller
        /\ Lost \in Nat /\ errors \in Nat
    BY SetFacts
  <1>2. Holding(r)' \subseteq Caller BY DEF Holding
  <1>3. PICK done \in BOOLEAN : done = (Completed(r) # {}) BY Zenon
  <1>4. Room(Won(r), Holding(r), Trying(r), done, Lost, errors) BY <1>3 DEF Bound
  <1>5. Room(Won(r)', Holding(r)', Trying(r)', done, Lost, errors')
    BY <1>1, <1>2, <1>3, <1>4, RoomQuiet
  <1>6. Lost' = Lost BY DEF Lost
  <1>7. done = (Completed(r)' # {}) BY <1>3
  <1> QED BY <1>5, <1>6, <1>7 DEF Bound, Room

\* A step of c that only moves it on, and neither to "completed" nor from
\* there; it may begin to try only while no record is completed.
LEMMA MoveOnBound ==
  ASSUME IInv, NEW c \in Caller, NEW q, call' = [call EXCEPT ![c] = q],
         call[c].pc # "completed",
         UNCHANGED <<made, succeeded, errors, crashes>>, NEW r, Bound(r),
         (Completed(r)' # {}) <=> (Completed(r) # {}),
         \/ q.pc \notin {"save", "attempt"}
         \/ call[c].pc \in {"save", "attempt"} /\ q.id = call[c].id
         \/ Completed(r) = {} \/ ~Same(made[q.id], r)
  PROVE  Bound(r)'
  <1>1. Won(r)' = Won(r) BY DEF Won, Same
  <1>2. /\ Holding(r)' \ {c} = Holding(r) \ {c} /\ Trying(r)' \ {c} = Trying(r) \ {c}
        /\ c \in Trying(r)' <=> q.pc \in {"save", "attempt"} /\ Same(made[q.id], r)
    BY Shift
  <1>3. c \notin Holding(r) BY DEF Holding
  <1>4. Completed(r) # {} => Trying(r)' \subseteq Trying(r)
    <2>1. Completed(r) # {} /\ c \in Trying(r)' => c \in Trying(r)
      BY <1>2 DEF Trying
    <2> QED BY <2>1, <1>2
  <1>5. errors' \in Nat /\ errors <= errors' BY SetFacts
  <1>6. Holding(r) \subseteq Holding(r)' BY <1>2, <1>3
  <1> QED BY <1>1, <1>4, <1>5, <1>6, BoundQuiet

LEMMA ExecuteBound ==
  ASSUME IInv, NEW c \in Caller, NEW s \in Request, Execute(c, s), NEW r, Bound(r)
  PROVE  Bound(r)'
  <1>1. /\ nextId \in Action /\ call[c].pc = "idle"
        /\ made' = [made EXCEPT ![nextId] = s]
        /\ UNCHANGED <<whole, succeeded, errors, crashes>>
    BY DEF Execute, At, files, ledgers
  <1>2. PICK q : q.pc = "replay" /\ call' = [call EXCEPT ![c] = q]
    <2>1. [pc |-> "replay", id |-> nextId, attempt |-> NormalizeAttempt(s), found |-> None,
           late |-> s.key # 0 /\ Completed(s) # {}].pc = "replay"
      OBVIOUS
    <2> QED BY <2>1 DEF Execute
  <1>3. /\ call'[c].pc = "replay" /\ \A d \in Caller : d # c => call'[d] = call[d]
        /\ \A b \in Action : b # nextId => made'[b] = made[b]
    BY <1>1, <1>2 DEF IInv, TypeOK
  <1>4. Fresh(nextId) BY <1>1 DEF IInv, RecOK, Action
  <1>5. Completed(r)' = Completed(r) BY <1>1, <1>3, <1>4 DEF Completed, Fresh, Same
  <1>6. Won(r)' = Won(r) BY <1>1, <1>3, <1>4 DEF Won, Fresh, Same, IInv, TypeOK
  <1>7. ASSUME NEW d \in Caller, d # c, call[d].pc # "idle"
        PROVE  made'[call[d].id] = made[call[d].id]
    <2>1. call[d].id \in Action /\ call[d].id < nextId BY <1>7, Own
    <2>2. call[d].id # nextId BY <2>1 DEF IInv, TypeOK, Action
    <2> QED BY <2>1, <2>2, <1>3
  <1>8. Holding(r)' = Holding(r) /\ Trying(r)' = Trying(r)
    BY <1>1, <1>3, <1>7 DEF Holding, Trying, Same
  <1>9. errors' \in Nat /\ errors <= errors' BY <1>1, SetFacts
  <1> QED BY <1>1, <1>5, <1>6, <1>8, <1>9, BoundQuiet

LEMMA NoReplayBound ==
  ASSUME IInv, NEW c \in Caller, NoReplay(c), NEW r, r.key # 0, Bound(r)
  PROVE  Bound(r)'
  <1>1. call[c].pc = "replay" BY DEF NoReplay, At
  <1>2. call[c] \in CallState BY <1>1, Own
  <1>3. PICK q : q = [call[c] EXCEPT !.pc = "save"] OBVIOUS
  <1>4. q.pc = "save" /\ q.id = call[c].id BY <1>2, <1>3, NextPc DEF Steps
  <1>5. call' = [call EXCEPT ![c] = q] BY <1>3 DEF NoReplay, Goto, IInv, TypeOK
  <1>6. UNCHANGED <<made, succeeded, errors, crashes, whole>>
    BY DEF NoReplay, files, ledgers
  <1>7. Completed(r)' = Completed(r) BY <1>6, CompletedSame
  <1>8. Completed(r) = {} \/ ~Same(made[q.id], r)
    <2>1. made[q.id].key = 0 \/ Completed(made[q.id]) = {} BY <1>4 DEF NoReplay
    <2> QED BY <2>1 DEF Same, Completed
  <1> QED BY <1>1, <1>5, <1>6, <1>7, <1>8, MoveOnBound

LEMMA FindBound ==
  ASSUME IInv, NEW c \in Caller, FindCompleted(c) \/ FindFails(c), NEW r, Bound(r)
  PROVE  Bound(r)'
  <1>1. call[c].pc = "replay" BY DEF FindCompleted, FindFails, At
  <1>2. call[c] \in CallState BY <1>1, Own
  <1>3. PICK q : q.pc \notin {"save", "attempt"} /\ call' = [call EXCEPT ![c] = q]
    <2>1. CASE FindFails(c) BY <2>1, NoCallFacts DEF FindFails, Return
    <2>2. CASE FindCompleted(c)
      <3>1. PICK b : call' = [call EXCEPT ![c].pc = "replayed", ![c].found = output[b]]
        BY <2>2 DEF FindCompleted
      <3>2. PICK q : q = [call[c] EXCEPT !.pc = "replayed", !.found = output[b]] OBVIOUS
      <3>3. q.pc = "replayed" BY <3>2, <1>2 DEF CallState
      <3>4. call' = [call EXCEPT ![c] = q] BY <3>1, <3>2 DEF IInv, TypeOK
      <3> QED BY <3>3, <3>4
    <2> QED BY <2>1, <2>2
  <1>4. UNCHANGED <<made, succeeded, errors, crashes, whole>>
    BY DEF FindCompleted, FindFails, files, ledgers
  <1>5. Completed(r)' = Completed(r) BY <1>4, CompletedSame
  <1> QED BY <1>1, <1>3, <1>4, <1>5, MoveOnBound

\* Recording a replay adds a completed record where one was.
LEMMA SaveReplayedBound ==
  ASSUME IInv, ReplayBacked, NEW c \in Caller, SaveReplayed(c), NEW r, Bound(r)
  PROVE  Bound(r)'
  <1>1. PICK a : a = call[c].id OBVIOUS
  <1>2. call[c].pc = "replayed" BY DEF SaveReplayed, At
  <1>3. a \in Action /\ Completed(made[a]) # {} BY <1>1, <1>2, Own DEF ReplayBacked
  <1>4. /\ whole' = [whole EXCEPT ![a] = whole[a] \cup {"completed"}]
        /\ call' = [call EXCEPT ![c] = NoCall]
        /\ UNCHANGED <<made, errors, crashes, succeeded>>
    BY <1>1 DEF SaveReplayed, Return
  <1>5. /\ "completed" \in whole'[a]
        /\ \A b \in Action : b # a => whole'[b] = whole[b]
    BY <1>3, <1>4 DEF IInv, TypeOK
  <1>6. (Completed(r)' # {}) <=> (Completed(r) # {})
    <2>1. Completed(r) # {} => Completed(r)' # {}
      BY <1>4, <1>5 DEF Completed, Same
    <2>2. Completed(r)' # {} => Completed(r) # {}
      <3>1. CASE Same(made[a], r) BY <3>1, <1>3 DEF Completed, Same
      <3>2. CASE ~Same(made[a], r) BY <3>2, <1>4, <1>5 DEF Completed, Same
      <3> QED BY <3>1, <3>2
    <2> QED BY <2>1, <2>2
  <1> QED BY <1>2, <1>4, <1>6, MoveOnBound, NoCallFacts

LEMMA SaveBound ==
  ASSUME IInv, NEW c \in Caller, Save(c), NEW r, Bound(r)
  PROVE  Bound(r)'
  <1>1. PICK a : a = call[c].id OBVIOUS
  <1>2. call[c].pc = "save" BY DEF Save, At
  <1>3. call[c] \in CallState /\ a \in Action BY <1>1, <1>2, Own
  <1>4. PICK q : q = [call[c] EXCEPT !.pc = "attempt"] OBVIOUS
  <1>5. q.pc = "attempt" /\ q.id = call[c].id BY <1>3, <1>4, NextPc DEF Steps
  <1>6. /\ whole' = [whole EXCEPT ![a] = whole[a] \cup {"running"}]
        /\ call' = [call EXCEPT ![c] = q]
        /\ UNCHANGED <<made, errors, crashes, succeeded>>
    BY <1>1, <1>4 DEF Save, Goto, ledgers, IInv, TypeOK
  <1>7. \A b \in Action : "completed" \in whole'[b] <=> "completed" \in whole[b]
    BY <1>3, <1>6 DEF IInv, TypeOK
  <1>8. Completed(r)' = Completed(r) BY <1>6, <1>7, CompletedSame
  <1> QED BY <1>2, <1>5, <1>6, <1>8, MoveOnBound

LEMMA AttemptSucceedsBound ==
  ASSUME IInv, NEW c \in Caller, AttemptSucceeds(c), NEW r, Bound(r)
  PROVE  Bound(r)'
  <1>1. PICK a : a = call[c].id OBVIOUS
  <1>2. call[c].pc = "attempt" BY DEF AttemptSucceeds, At
  <1>3. call[c] \in CallState /\ a \in Action BY <1>1, <1>2, Own
  <1>4. PICK q : q = [call[c] EXCEPT !.pc = "completed"] OBVIOUS
  <1>5. q.pc = "completed" /\ q.id = a BY <1>1, <1>3, <1>4, NextPc DEF Steps
  <1>6. /\ succeeded' = succeeded \cup {a} /\ call' = [call EXCEPT ![c] = q]
        /\ UNCHANGED <<whole, made, errors, crashes>>
    BY <1>1, <1>4 DEF AttemptSucceeds, Goto, IInv, TypeOK
  <1>7. Completed(r)' = Completed(r) BY <1>6, CompletedSame
  <1>8. /\ Holding(r)' \ {c} = Holding(r) \ {c} /\ Trying(r)' \ {c} = Trying(r) \ {c}
        /\ c \in Holding(r)' <=> Same(made[a], r)
        /\ c \notin Trying(r)' /\ c \notin Holding(r)
        /\ c \in Trying(r) <=> Same(made[a], r)
    <2>1. /\ Holding(r)' \ {c} = Holding(r) \ {c} /\ Trying(r)' \ {c} = Trying(r) \ {c}
          /\ c \in Holding(r)' <=> q.pc = "completed" /\ Same(made[q.id], r)
          /\ c \in Trying(r)' <=> q.pc \in {"save", "attempt"} /\ Same(made[q.id], r)
      BY <1>6, Shift
    <2>2. c \notin Holding(r) /\ (c \in Trying(r) <=> Same(made[a], r))
      BY <1>1, <1>2 DEF Holding, Trying
    <2> QED BY <2>1, <2>2, <1>5
  <1>9. /\ IsFiniteSet(Won(r)) /\ Holding(r) \subseteq Caller /\ Trying(r) \subseteq Caller
        /\ Lost \in Nat /\ errors \in Nat
    BY SetFacts
  <1>10. CASE Same(made[a], r)
    <2>1. Won(r)' = Won(r) \cup {a} BY <1>6, <1>10 DEF Won, Same
    <2>2. Holding(r)' = Holding(r) \cup {c} /\ Trying(r)' = Trying(r) \ {c}
      BY <1>8, <1>10
    <2>3. PICK done \in BOOLEAN : done = (Completed(r) # {}) BY Zenon
    <2>4. Room(Won(r), Holding(r), Trying(r), done, Lost, errors) BY <2>3 DEF Bound
    <2>5. Room(Won(r) \cup {a}, Holding(r) \cup {c}, Trying(r) \ {c}, done, Lost, errors)
      BY <2>4, <1>8, <1>9, <1>10, RoomWin
    <2>6. Lost' = Lost /\ errors' = errors /\ done = (Completed(r)' # {})
      BY <2>3, <1>6, <1>7 DEF Lost
    <2> QED BY <2>1, <2>2, <2>5, <2>6 DEF Bound, Room
  <1>11. CASE ~Same(made[a], r)
    <2>1. Won(r)' = Won(r) BY <1>6, <1>11 DEF Won, Same
    <2>2. Holding(r)' = Holding(r) /\ Trying(r)' = Trying(r) BY <1>8, <1>11
    <2>3. errors' \in Nat /\ errors <= errors' BY <1>6, <1>9
    <2> QED BY <2>1, <2>2, <2>3, <1>6, <1>7, BoundQuiet
  <1> QED BY <1>10, <1>11

LEMMA AttemptFailsBound ==
  ASSUME IInv, NEW c \in Caller, AttemptFails(c), NEW r, Bound(r)
  PROVE  Bound(r)'
  <1>1. call[c].pc = "attempt" BY DEF AttemptFails, At
  <1>2. call[c] \in CallState BY <1>1, Own
  <1>3. UNCHANGED <<whole, made, errors, crashes, succeeded>> BY DEF AttemptFails, files
  <1>4. PICK q : /\ call' = [call EXCEPT ![c] = q]
                 /\ q.pc \notin {"save", "attempt"} \/ q.id = call[c].id
    <2>1. CASE call' = [call EXCEPT ![c].pc = "failed"]
      <3>1. PICK q : q = [call[c] EXCEPT !.pc = "failed"] OBVIOUS
      <3>2. q.pc = "failed" BY <3>1, <1>2, NextPc DEF Steps
      <3>3. call' = [call EXCEPT ![c] = q] BY <2>1, <3>1 DEF IInv, TypeOK
      <3> QED BY <3>2, <3>3
    <2>2. CASE call' = [call EXCEPT ![c].attempt = call[c].attempt + 1]
      <3>1. PICK q : q = [call[c] EXCEPT !.attempt = call[c].attempt + 1] OBVIOUS
      <3>2. q.id = call[c].id BY <3>1, <1>2 DEF CallState
      <3>3. call' = [call EXCEPT ![c] = q] BY <2>2, <3>1 DEF IInv, TypeOK
      <3> QED BY <3>2, <3>3
    <2> QED BY <2>1, <2>2 DEF AttemptFails, Goto
  <1>5. Completed(r)' = Completed(r) BY <1>3, CompletedSame
  <1> QED BY <1>1, <1>3, <1>4, <1>5, MoveOnBound

\* The call leaves, and the record it moves is the first or another one of
\* its request.
LEMMA MoveBound ==
  ASSUME IInv, NEW c \in Caller, NEW d \in {"completed", "failed"}, Move(c, d),
         NEW r, Bound(r)
  PROVE  Bound(r)'
  <1>1. PICK a : a = call[c].id OBVIOUS
  <1>2. call[c].pc = d BY DEF Move, At
  <1>3. a \in Action /\ whole[a] = {"running"} /\ torn[a] = {}
    BY <1>1, <1>2, Own DEF CallOK
  <1>4. Removed(a) = {"running"} BY <1>3 DEF Removed, Before
  <1>5. /\ whole' = [whole EXCEPT ![a] = (whole[a] \ {"running"}) \cup {d}]
        /\ call' = [call EXCEPT ![c] = NoCall]
        /\ UNCHANGED <<made, errors, crashes, succeeded>>
    BY <1>1, <1>4 DEF Move, Return
  <1>6. whole'[a] = {d} /\ \A b \in Action : b # a => whole'[b] = whole[b]
    BY <1>3, <1>5 DEF IInv, TypeOK
  <1>7. CASE d = "failed"
    <2>1. Completed(r)' = Completed(r) BY <1>3, <1>5, <1>6, <1>7, CompletedSame
    <2> QED BY <2>1, <1>2, <1>5, <1>7, MoveOnBound, NoCallFacts
  <1>8. CASE d = "completed" /\ Same(made[a], r)
    <2>1. Completed(r)' # {} BY <1>3, <1>5, <1>6, <1>8 DEF Completed, Same
    <2>2. Won(r)' = Won(r) BY <1>5 DEF Won, Same
    <2>3. Trying(r)' = Trying(r)
      <3>1. c \notin Trying(r) BY <1>2, <1>8 DEF Trying
      <3>2. Trying(r)' \ {c} = Trying(r) \ {c} /\ c \notin Trying(r)'
        BY <1>5, Shift, NoCallFacts
      <3> QED BY <3>1, <3>2
    <2>4. PICK done \in BOOLEAN : done = (Completed(r) # {}) BY Zenon
    <2>5. Room(Won(r), Holding(r), Trying(r), done, Lost, errors) BY <2>4 DEF Bound
    <2>6. Room(Won(r), Holding(r)', Trying(r), TRUE, Lost, errors)
      BY <2>5, SetFacts, RoomRecord
    <2>7. Lost' = Lost /\ errors' = errors BY <1>5 DEF Lost
    <2> QED BY <2>1, <2>2, <2>3, <2>6, <2>7 DEF Bound, Room
  <1>9. CASE d = "completed" /\ ~Same(made[a], r)
    <2>1. (Completed(r)' # {}) <=> (Completed(r) # {})
      BY <1>3, <1>5, <1>6, <1>9 DEF Completed, Same
    <2>2. Won(r)' = Won(r) BY <1>5 DEF Won, Same
    <2>3. /\ Holding(r)' \ {c} = Holding(r) \ {c} /\ Trying(r)' \ {c} = Trying(r) \ {c}
          /\ c \notin Trying(r)' /\ c \notin Holding(r)
      BY <1>1, <1>5, <1>9, Shift, NoCallFacts DEF Holding
    <2>4. errors' \in Nat /\ errors <= errors' BY <1>5, SetFacts
    <2> QED BY <2>1, <2>2, <2>3, <2>4, <1>5, BoundQuiet
  <1> QED BY <1>7, <1>8, <1>9

\* A write that is cut short changes nothing under completed/ that parses.
LEMMA HalfWrittenCompleted ==
  ASSUME IInv, NEW c \in Caller, HalfWritten(c), NEW b \in Action
  PROVE  "completed" \in whole'[b] <=> "completed" \in whole[b]
  <1>1. PICK a : a = call[c].id OBVIOUS
  <1>2. CASE UNCHANGED whole BY <1>2
  <1>3. CASE \E d \in {"completed", "failed"} :
               call[c].pc = d /\ whole' = [whole EXCEPT ![a] = whole[a] \ Removed(a)]
    <2>1. a \in Action /\ whole[a] = {"running"} BY <1>1, <1>3, Own DEF CallOK
    <2>2. whole'[a] = {"running"} \ Removed(a) /\ (b # a => whole'[b] = whole[b])
      BY <2>1, <1>3 DEF IInv, TypeOK
    <2> QED BY <2>1, <2>2
  <1> QED BY <1>1, <1>2, <1>3 DEF HalfWritten, At

LEMMA WriteFailsBound ==
  ASSUME IInv, NEW c \in Caller, WriteFails(c), NEW r, Bound(r)
  PROVE  Bound(r)'
  <1>1. /\ call' = [call EXCEPT ![c] = NoCall] /\ HalfWritten(c) /\ errors' = errors + 1
        /\ UNCHANGED <<made, crashes, succeeded>>
    BY DEF WriteFails, Return, ledgers
  <1>2. Completed(r)' = Completed(r) BY <1>1, HalfWrittenCompleted, CompletedSame
  <1>3. Won(r)' = Won(r) BY <1>1 DEF Won, Same
  <1>4. Holding(r)' = Holding(r) \ {c} /\ Trying(r)' = Trying(r) \ {c}
    <2>1. /\ Holding(r)' \ {c} = Holding(r) \ {c} /\ Trying(r)' \ {c} = Trying(r) \ {c}
          /\ c \notin Holding(r)' /\ c \notin Trying(r)'
      BY <1>1, Shift, NoCallFacts
    <2> QED BY <2>1
  <1>5. PICK done \in BOOLEAN : done = (Completed(r) # {}) BY Zenon
  <1>6. Room(Won(r), Holding(r), Trying(r), done, Lost, errors) BY <1>5 DEF Bound
  <1>7. Room(Won(r), Holding(r) \ {c}, Trying(r) \ {c}, done, Lost, errors + 1)
    BY <1>6, SetFacts, RoomError
  <1>8. Lost' = Lost /\ done = (Completed(r)' # {}) BY <1>1, <1>2, <1>5 DEF Lost
  <1> QED BY <1>1, <1>3, <1>4, <1>7, <1>8 DEF Bound, Room

LEMMA CrashBound ==
  ASSUME IInv, Crash, NEW r, Bound(r)
  PROVE  Bound(r)'
  <1>1. PICK c \in Caller : HalfWritten(c) BY DEF Crash
  <1>2. /\ \A d \in Caller : call'[d] = NoCall
        /\ crashes' = crashes + 1 /\ UNCHANGED <<made, errors, succeeded>>
    BY DEF Crash, ledgers
  <1>3. Completed(r)' = Completed(r) BY <1>1, <1>2, HalfWrittenCompleted, CompletedSame
  <1>4. Won(r)' = Won(r) BY <1>2 DEF Won, Same
  <1>5. Holding(r)' = {} /\ Trying(r)' = {} BY <1>2, NoCallFacts DEF Holding, Trying
  <1>6. PICK done \in BOOLEAN : done = (Completed(r) # {}) BY Zenon
  <1>7. Room(Won(r), Holding(r), Trying(r), done, Lost, errors) BY <1>6 DEF Bound
  <1>8. Room(Won(r), {}, {}, done, Lost + Cardinality(Caller), errors)
    BY <1>7, SetFacts, RoomCrash
  <1>9. Lost' = Lost + Cardinality(Caller)
    <2>1. crashes \in Nat BY DEF IInv, TypeOK
    <2>2. PICK n \in Nat : n = Cardinality(Caller) BY CallersFinite
    <2>3. n * (crashes + 1) = n * crashes + n BY <2>1, <2>2
    <2> QED BY <2>2, <2>3, <1>2 DEF Lost
  <1>10. done = (Completed(r)' # {}) BY <1>3, <1>6
  <1> QED BY <1>2, <1>4, <1>5, <1>8, <1>9, <1>10 DEF Bound, Room

\* A completed record stays, whatever the step.
LEMMA CompletedKept ==
  ASSUME IInv, [Next]_vars, NEW s, Completed(s) # {}
  PROVE  Completed(s)' # {}
  <1>0. ASSUME UNCHANGED made,
               \A b \in Action : "completed" \in whole[b] => "completed" \in whole'[b]
        PROVE  Completed(s)' # {}
    BY <1>0 DEF Completed, Same
  <1>1. ASSUME NEW c \in Caller, NEW r \in Request, Execute(c, r) PROVE Completed(s)' # {}
    <2>1. nextId \in Action /\ made' = [made EXCEPT ![nextId] = r] /\ UNCHANGED whole
      BY <1>1 DEF Execute, files
    <2>2. Fresh(nextId) BY <2>1 DEF IInv, RecOK, Action
    <2>3. \A b \in Action : b # nextId => made'[b] = made[b] BY <2>1 DEF IInv, TypeOK
    <2> QED BY <2>1, <2>2, <2>3 DEF Completed, Fresh, Same
  <1>2. ASSUME NEW c \in Caller,
               NoReplay(c) \/ FindCompleted(c) \/ FindFails(c) \/ AttemptSucceeds(c) \/ AttemptFails(c)
        PROVE  Completed(s)' # {}
    BY <1>0, <1>2 DEF NoReplay, FindCompleted, FindFails, AttemptSucceeds, AttemptFails, files
  <1>3. ASSUME NEW c \in Caller, SaveReplayed(c) \/ Save(c) PROVE Completed(s)' # {}
    <2>1. PICK a, d : whole' = [whole EXCEPT ![a] = whole[a] \cup {d}]
      BY <1>3 DEF SaveReplayed, Save
    <2>2. \A b \in Action : "completed" \in whole[b] => "completed" \in whole'[b]
      BY <2>1 DEF IInv, TypeOK
    <2> QED BY <2>2, <1>0, <1>3 DEF SaveReplayed, Save
  <1>4. ASSUME NEW c \in Caller, NEW d \in {"completed", "failed"}, Move(c, d)
        PROVE  Completed(s)' # {}
    <2>1. PICK a : a = call[c].id OBVIOUS
    <2>2. a \in Action /\ whole[a] = {"running"}
      BY <2>1, <1>4, Own DEF Move, At, CallOK
    <2>3. \A b \in Action : b # a => whole'[b] = whole[b]
      BY <2>1, <1>4 DEF Move, IInv, TypeOK
    <2> QED BY <2>2, <2>3, <1>0, <1>4 DEF Move
  <1>5. ASSUME NEW c \in Caller, WriteFails(c) PROVE Completed(s)' # {}
    BY <1>5, <1>0, HalfWrittenCompleted DEF WriteFails
  <1>6. CASE Crash BY <1>6, <1>0, HalfWrittenCompleted DEF Crash
  <1>7. CASE UNCHANGED vars BY <1>7, <1>0 DEF vars, files
  <1> QED BY <1>1, <1>2, <1>3, <1>4, <1>5, <1>6, <1>7 DEF Next, Step

LEMMA ReplayBackedStep ==
  ASSUME IInv, ReplayBacked, [Next]_vars
  PROVE  ReplayBacked'
  <1>0. ASSUME NEW d \in Caller, call'[d] = call[d], call[d].pc = "replayed"
        PROVE  /\ call[d].id \in Action /\ call[d].id # nextId
               /\ Completed(made[call[d].id]) # {}
    <2>1. call[d].id \in Action /\ call[d].id < nextId BY <1>0, Own
    <2>2. call[d].id # nextId BY <2>1 DEF IInv, TypeOK, Action
    <2> QED BY <2>1, <2>2, <1>0 DEF ReplayBacked
  <1>1. ASSUME NEW d \in Caller, call'[d].pc = "replayed",
               call'[d] = call[d] \/ FindCompleted(d)
        PROVE  Completed(made[call'[d].id]) # {} /\ made'[call'[d].id] = made[call'[d].id]
    <2>1. CASE call'[d] = call[d]
      <3>1. /\ call[d].id \in Action /\ call[d].id # nextId
            /\ Completed(made[call[d].id]) # {}
        BY <1>0, <1>1, <2>1
      <3>2. made' = made \/ \E r \in Request : made' = [made EXCEPT ![nextId] = r]
        BY DEF Next, Step, NoReplay, FindCompleted, FindFails, SaveReplayed, Save,
               AttemptSucceeds, AttemptFails, Move, WriteFails, Execute, Crash, vars
      <3>3. made'[call[d].id] = made[call[d].id] BY <3>1, <3>2 DEF IInv, TypeOK
      <3> QED BY <3>1, <3>3, <2>1
    <2>2. CASE FindCompleted(d)
      <3>1. PICK b \in Completed(made[call[d].id]) :
              call' = [call EXCEPT ![d].pc = "replayed", ![d].found = output[b]]
        BY <2>2 DEF FindCompleted
      <3>2. PICK q : q = [call[d] EXCEPT !.pc = "replayed", !.found = output[b]] OBVIOUS
      <3>3. call[d] \in CallState BY DEF IInv, TypeOK
      <3>4. q.id = call[d].id BY <3>2, <3>3 DEF CallState
      <3>5. call'[d] = q BY <3>1, <3>2 DEF IInv, TypeOK
      <3>6. UNCHANGED made BY <2>2 DEF FindCompleted
      <3> QED BY <3>1, <3>4, <3>5, <3>6
    <2> QED BY <1>1, <2>1, <2>2
  <1>2. ASSUME NEW c \in Caller, NEW q, call' = [call EXCEPT ![c] = q],
               NEW d \in Caller, call'[d].pc = "replayed", q.pc # "replayed"
        PROVE  call'[d] = call[d]
    BY <1>2 DEF IInv, TypeOK
  <1>3. ASSUME NEW c \in Caller, NEW p \in Steps, call' = [call EXCEPT ![c].pc = p],
               NEW d \in Caller, call'[d].pc = "replayed", p # "replayed"
        PROVE  call'[d] = call[d]
    <2>1. PICK q : q = [call[c] EXCEPT !.pc = p] OBVIOUS
    <2>2. call[c] \in CallState BY DEF IInv, TypeOK
    <2>3. q.pc = p BY <2>1, <2>2, NextPc
    <2>4. call' = [call EXCEPT ![c] = q] BY <2>1, <1>3 DEF IInv, TypeOK
    <2> QED BY <2>3, <2>4, <1>2, <1>3
  <1>4. ASSUME NEW d \in Caller, call'[d].pc = "replayed"
        PROVE  call'[d] = call[d] \/ FindCompleted(d)
    <2>1. ASSUME NEW c \in Caller, NEW r \in Request, Execute(c, r)
          PROVE  call'[d] = call[d]
      <3>1. PICK q : q.pc = "replay" /\ call' = [call EXCEPT ![c] = q]
        <4>1. [pc |-> "replay", id |-> nextId, attempt |-> NormalizeAttempt(r),
               found |-> None, late |-> r.key # 0 /\ Completed(r) # {}].pc = "replay"
          OBVIOUS
        <4> QED BY <4>1, <2>1 DEF Execute
      <3> QED BY <3>1, <1>2, <1>4
    <2>2. ASSUME NEW c \in Caller, call' = [call EXCEPT ![c] = NoCall] PROVE call'[d] = call[d]
      BY <2>2, <1>2, <1>4, NoCallFacts
    <2>3. ASSUME NEW c \in Caller, NoReplay(c) \/ Save(c) \/ AttemptSucceeds(c)
          PROVE  call'[d] = call[d]
      BY <2>3, <1>3, <1>4 DEF NoReplay, Save, AttemptSucceeds, Goto, Steps
    <2>4. ASSUME NEW c \in Caller, AttemptFails(c) PROVE call'[d] = call[d]
      <3>1. CASE call' = [call EXCEPT ![c].pc = "failed"] BY <3>1, <1>3, <1>4 DEF Steps
      <3>2. CASE call' = [call EXCEPT ![c].attempt = call[c].attempt + 1]
        <4>1. PICK q : q = [call[c] EXCEPT !.attempt = call[c].attempt + 1] OBVIOUS
        <4>2. call[c] \in CallState /\ call[c].pc = "attempt"
          BY <2>4 DEF IInv, TypeOK, AttemptFails, At
        <4>3. q.pc = "attempt" BY <4>1, <4>2 DEF CallState
        <4>4. call' = [call EXCEPT ![c] = q] BY <4>1, <3>2 DEF IInv, TypeOK
        <4> QED BY <4>3, <4>4, <1>2, <1>4
      <3> QED BY <2>4, <3>1, <3>2 DEF AttemptFails, Goto
    <2>5. ASSUME NEW c \in Caller, FindCompleted(c)
          PROVE  call'[d] = call[d] \/ FindCompleted(d)
      <3>1. CASE d = c BY <3>1, <2>5
      <3>2. CASE d # c BY <3>2, <2>5 DEF FindCompleted, IInv, TypeOK
      <3> QED BY <3>1, <3>2
    <2>6. CASE Crash BY <2>6, <1>4, NoCallFacts DEF Crash
    <2>7. CASE UNCHANGED vars BY <2>7 DEF vars
    <2> QED BY <2>1, <2>2, <2>3, <2>4, <2>5, <2>6, <2>7
         DEF Next, Step, FindFails, SaveReplayed, Move, WriteFails, Return
  <1> SUFFICES ASSUME NEW d \in Caller, call'[d].pc = "replayed"
               PROVE  Completed(made[call[d].id])' # {}
    BY DEF ReplayBacked
  <1>5. PICK s : s = made[call'[d].id] OBVIOUS
  <1>6. Completed(s) # {} /\ made'[call'[d].id] = s BY <1>1, <1>4, <1>5
  <1>7. Completed(s)' # {} BY <1>6, CompletedKept
  <1> QED BY <1>6, <1>7 DEF Completed, Same

LEMMA BoundStep ==
  ASSUME RInv, [Next]_vars, NEW r \in Request, r.key # 0
  PROVE  Bound(r)'
  <1>1. IInv /\ ReplayBacked /\ Bound(r) BY DEF RInv
  <1>2. ASSUME NEW c \in Caller, NEW s \in Request, Execute(c, s) PROVE Bound(r)'
    BY <1>1, <1>2, ExecuteBound
  <1>3. ASSUME NEW c \in Caller, Step(c) PROVE Bound(r)'
    <2>1. CASE NoReplay(c) BY <2>1, <1>1, NoReplayBound
    <2>2. CASE FindCompleted(c) \/ FindFails(c) BY <2>2, <1>1, FindBound
    <2>3. CASE SaveReplayed(c) BY <2>3, <1>1, SaveReplayedBound
    <2>4. CASE Save(c) BY <2>4, <1>1, SaveBound
    <2>5. CASE AttemptSucceeds(c) BY <2>5, <1>1, AttemptSucceedsBound
    <2>6. CASE AttemptFails(c) BY <2>6, <1>1, AttemptFailsBound
    <2>7. ASSUME NEW d \in {"completed", "failed"}, Move(c, d) PROVE Bound(r)'
      BY <2>7, <1>1, MoveBound
    <2> QED BY <1>3, <2>1, <2>2, <2>3, <2>4, <2>5, <2>6, <2>7 DEF Step
  <1>4. ASSUME NEW c \in Caller, WriteFails(c) PROVE Bound(r)'
    BY <1>1, <1>4, WriteFailsBound
  <1>5. CASE Crash BY <1>1, <1>5, CrashBound
  <1>6. CASE UNCHANGED vars
    <2>1. UNCHANGED <<whole, made, call, succeeded, errors, crashes>>
      BY <1>6 DEF vars, files, ledgers
    <2> QED BY <2>1, <1>1
         DEF Bound, Room, Won, Holding, Trying, Completed, Same, Lost
  <1> QED BY <1>2, <1>3, <1>4, <1>5, <1>6 DEF Next

LEMMA InitBound == Init => RInv
  <1> SUFFICES ASSUME Init PROVE RInv
    OBVIOUS
  <1>1. \A c \in Caller : call[c].pc = "idle" BY NoCallFacts DEF Init
  <1>2. ASSUME NEW r \in Request PROVE Bound(r)
    <2>1. Won(r) = {} /\ Holding(r) = {} /\ Trying(r) = {}
      BY <1>1 DEF Init, Won, Holding, Trying
    <2>2. Lost = 0 /\ errors = 0 BY CallersFinite DEF Init, Lost
    <2> QED BY <2>1, <2>2, FS_EmptySet, CallersFinite DEF Bound, Room
  <1> QED BY <1>1, <1>2, InitInv DEF RInv, ReplayBacked

\* A request with an idempotency key succeeds at most once for each caller
\* that was past tryReplay when its first record was completed, and again for
\* each success that a failed write or a crash kept from being recorded, for
\* any number of callers, errors and crashes (Executor.tryReplay, Store.Move).
THEOREM RepeatsBoundedHolds == Spec => []RepeatsBounded
  <1>1. RInv /\ [Next]_vars => RInv'
    <2> SUFFICES ASSUME RInv, [Next]_vars PROVE RInv'
      OBVIOUS
    <2>1. IInv' /\ ReplayBacked' BY StepInv, ReplayBackedStep DEF RInv
    <2>2. \A r \in Request : r.key # 0 => Bound(r)' BY BoundStep
    <2> QED BY <2>1, <2>2 DEF RInv
  <1>2. RInv => RepeatsBounded
    <2> SUFFICES ASSUME RInv, NEW r \in Request, r.key # 0
                 PROVE  Cardinality(Won(r)) <= Cardinality(Caller) * (1 + crashes) + errors
      BY DEF RepeatsBounded, Won
    <2>1. IInv /\ Bound(r) BY DEF RInv
    <2>2. /\ Cardinality(Won(r)) \in Nat /\ Cardinality(Holding(r)) \in Nat
          /\ Cardinality(Trying(r)) \in Nat /\ Cardinality(Holding(r)) <= Cardinality(Caller)
          /\ Lost \in Nat /\ errors \in Nat
      BY <2>1, SetFacts, SubsetSize, CallersFinite, FS_CardinalityType
    <2>3. Cardinality(Won(r)) <= Cardinality(Caller) + Lost + errors
      BY <2>1, <2>2, CallersFinite DEF Bound, Room
    <2>4. PICK n \in Nat : n = Cardinality(Caller) BY CallersFinite
    <2>5. crashes \in Nat BY <2>1 DEF IInv, TypeOK
    <2>6. n * (1 + crashes) = n + n * crashes BY <2>4, <2>5
    <2> QED BY <2>3, <2>4, <2>6 DEF Lost
  <1> QED BY <1>1, <1>2, InitBound, PTL DEF Spec
=============================================================================
