--------------------------- MODULE MemoirLanesProofs ---------------------------
(***************************************************************************)
(* For any number of processes, sources, events, changes and faults: the   *)
(* safety properties of MemoirLanes hold of its specification.  The        *)
(* inductive invariant says of each lane what its target, its pending mark *)
(* and its snapshot leave out, and why nothing that is open, and no        *)
(* correction, is among that unless a receipt is still to be delivered.    *)
(***************************************************************************)
EXTENDS MemoirLanes, TLAPS, WellFoundedInduction

\* Rounds are numbered by sources that have been accepted.
RoundsOK ==
  /\ \A q \in 1..MaxSource : ordinal[q] <= source
  /\ turn # 0 => \A q \in 1..MaxSource : ordinal[q] < source
  /\ \A q \in 1..MaxSource : q > source => ordinal[q] = 0

\* A lane that is neither held nor marked will not run again by itself.
Resting(k) == lane[k].token = NoRun /\ ~lane[k].pending

\* Once every receipt is delivered the timeline's target covers what is open,
\* and a lane at rest has left nothing open.
TimelineOK ==
  receipts = {} =>
    /\ open \subseteq 1..lane["timeline"].target
    /\ Resting("timeline") => open = {}

\* A snapshot has passed only what is extracted, and a composition was begun
\* only on testimony that is.
SnapshotsOK ==
  /\ lane["timeline"].doneEvent = 0 /\ snap["timeline"].event = 0
  /\ snap["timeline"].pending =>
       /\ snap["timeline"].last <= source
       /\ open \cap (1..snap["timeline"].last) = {}
  /\ snap["composer"].pending => open \cap (1..snap["composer"].source) = {}
  /\ \A k \in Skills : snap[k].pending => snap[k].source <= source
  /\ agent.high <= source

\* A composer that exists has a milestone; once the receipt of an edit is
\* delivered its target covers the correction, and at rest it has composed it.
ComposerOK ==
  /\ edited.source <= source /\ edited.event <= event
  /\ Exists("composer") =>
       /\ \E q \in 1..MaxSource : ordinal[q] >= Cadence
       /\ "edit" \notin receipts =>
            /\ lane["composer"].target >= edited.source
            /\ Resting("composer") =>
                 /\ lane["composer"].done >= edited.source
                 /\ lane["composer"].doneEvent >= edited.event

IInv == TypeOK /\ RoundsOK /\ TimelineOK /\ SnapshotsOK /\ ComposerOK

-----------------------------------------------------------------------------
(* Rounds and milestones.                                                  *)

\* A bounded set of numbers has a largest one: the least of its bounds.
LEMMA LargestExists ==
  ASSUME NEW bound \in Nat, NEW S, S \subseteq 0..bound, S # {}
  PROVE  Largest(S) \in S /\ \A m \in S : m <= Largest(S)
<1> DEFINE bounds == {b \in Nat : \A m \in S : m <= b}
<1>1. bound \in bounds /\ bounds \subseteq Nat
  OBVIOUS
<1>2. PICK b \in bounds : \A c \in bounds : ~(<<c, b>> \in OpToRel(<, Nat))
  <2> HIDE DEF bounds
  <2> QED  BY <1>1, NatLessThanWellFounded, WFMin
<1>3. ASSUME NEW c \in Nat, NEW d \in Nat, c < d PROVE <<c, d>> \in OpToRel(<, Nat)
  BY <1>3 DEF OpToRel
<1>4. \A c \in bounds : b <= c
  <2> SUFFICES ASSUME NEW c \in bounds, ~(b <= c) PROVE FALSE
    OBVIOUS
  <2>1. c < b /\ b \in Nat /\ c \in Nat
    OBVIOUS
  <2>2. <<c, b>> \in OpToRel(<, Nat)
    BY <2>1, <1>3
  <2> QED  BY <2>2, <1>2
<1>5. b \in S
  <2>1. SUFFICES ASSUME b \notin S PROVE FALSE
    OBVIOUS
  <2>2. \A m \in S : m \in Nat /\ m < b
    <3>1. \A m \in S : m \in Nat /\ m <= b /\ m # b
      BY <2>1
    <3> QED  BY <3>1
  <2>3. b # 0
    <3>1. PICK m \in S : TRUE
      OBVIOUS
    <3> QED  BY <2>2, <3>1
  <2>4. b - 1 \in Nat /\ \A m \in S : m \in Nat /\ m <= b - 1
    BY <2>2, <2>3
  <2>5. b - 1 \in bounds
    BY <2>4
  <2>6. b <= b - 1
    BY <2>5, <1>4
  <2> QED  BY <2>6
<1>6. \E n \in S : \A m \in S : m <= n
  BY <1>2, <1>5
<1> QED  BY <1>6 DEF Largest

LEMMA RoundsWithinOK ==
  ASSUME TypeOK, NEW frontier \in Sources
  PROVE  /\ RoundsWithin(frontier) \in Sources
         /\ \A q \in 1..frontier : ordinal[q] <= RoundsWithin(frontier)
         /\ RoundsWithin(frontier) # 0 => \E q \in 1..frontier : ordinal[q] = RoundsWithin(frontier)
<1> DEFINE rounds == {0} \cup {ordinal[q] : q \in 1..frontier}
<1>1. MaxSource \in Nat /\ frontier \in 0..MaxSource
  BY BoundsAssumption DEF Sources
<1>2. \A q \in 1..frontier : ordinal[q] \in 0..MaxSource
  BY <1>1 DEF TypeOK, Sources
<1>3. rounds \subseteq 0..MaxSource /\ rounds # {}
  BY <1>1, <1>2
<1>4. Largest(rounds) \in rounds /\ \A m \in rounds : m <= Largest(rounds)
  <2> HIDE DEF rounds
  <2> QED  BY <1>1, <1>3, LargestExists
<1>5. RoundsWithin(frontier) = Largest(rounds)
  BY DEF RoundsWithin
<1>6. Largest(rounds) \in 0..MaxSource
  BY <1>3, <1>4
<1> HIDE DEF rounds
<1>7. \A q \in 1..frontier : ordinal[q] \in rounds
  BY DEF rounds
<1>8. Largest(rounds) # 0 => \E q \in 1..frontier : ordinal[q] = Largest(rounds)
  BY <1>4 DEF rounds
<1> QED  BY <1>4, <1>5, <1>6, <1>7, <1>8 DEF Sources

\* The multiples of a positive number.
LEMMA Multiple ==
  ASSUME NEW n \in Nat, NEW c \in Nat \ {0}
  PROVE  (n \div c) * c \in 0..n /\ ((n \div c) * c > 0 <=> n >= c)
<1>1. n \div c \in Nat /\ n = c * (n \div c) + (n % c) /\ n % c \in 0..(c - 1)
  BY Z3
<1>2. n < c => n \div c = 0
  BY Z3
<1>3. PICK d \in Nat : d = n \div c
  BY <1>1
<1>4. d * c \in Nat /\ d * c <= n
  BY <1>1, <1>3, Z3
<1>5. n >= c => d >= 1
  BY <1>1, <1>3, Z3
<1>6. d >= 1 => d * c >= c
  BY <1>3, Z3
<1> QED  BY <1>2, <1>3, <1>4, <1>5, <1>6

\* A milestone is reached by a round of that number or a later one.
LEMMA MilestoneOK ==
  ASSUME TypeOK
  PROVE  /\ Milestone \in Sources
         /\ Milestone > 0 <=> \E q \in 1..MaxSource : ordinal[q] >= Cadence
<1>1. MaxSource \in Nat /\ Cadence \in Nat \ {0} /\ MaxSource \in Sources
  BY BoundsAssumption DEF Sources
<1>2. PICK n : n = RoundsWithin(MaxSource)
  OBVIOUS
<1>3. /\ n \in 0..MaxSource /\ \A q \in 1..MaxSource : ordinal[q] <= n
      /\ n # 0 => \E q \in 1..MaxSource : ordinal[q] = n
  BY <1>1, <1>2, RoundsWithinOK DEF Sources
<1>4. n \in Nat
  BY <1>1, <1>3
<1>5. (n \div Cadence) * Cadence \in 0..n /\ ((n \div Cadence) * Cadence > 0 <=> n >= Cadence)
  BY <1>1, <1>4, Multiple
<1>6. Milestone = (n \div Cadence) * Cadence
  BY <1>2 DEF Milestone
<1>7. Milestone \in 0..n /\ (Milestone > 0 <=> n >= Cadence)
  BY <1>5, <1>6
<1>8. Milestone \in Sources
  BY <1>1, <1>3, <1>7 DEF Sources
<1>9. ASSUME Milestone > 0 PROVE \E q \in 1..MaxSource : ordinal[q] >= Cadence
  <2>1. n >= Cadence /\ n # 0
    BY <1>1, <1>3, <1>7, <1>9
  <2> QED  BY <1>3, <2>1
<1>10. ASSUME NEW q \in 1..MaxSource, ordinal[q] >= Cadence PROVE Milestone > 0
  <2>1. ordinal[q] \in Nat
    BY DEF TypeOK, Sources
  <2> QED  BY <1>1, <1>3, <1>4, <1>7, <1>10, <2>1
<1> QED  BY <1>8, <1>9, <1>10

-----------------------------------------------------------------------------
(* The invariant at the start.                                             *)

LEMMA Numbers ==
  /\ MaxAttempts \in Nat \ {0} /\ Cadence \in Nat \ {0}
  /\ MaxSource \in Nat \ {0} /\ MaxEvent \in Nat \ {0}
  /\ MaxAuthority \in Nat /\ MaxFaults \in Nat
BY BoundsAssumption

LEMMA InitIInv == Init => IInv
<1> SUFFICES ASSUME Init PROVE IInv
  OBVIOUS
<1>1. TypeOK
  <2>1. \A k \in Skills : lane[k] \in Lane /\ snap[k] \in Snapshot
    BY Numbers DEF Init, Lane, Snapshot, NoSnapshot, Owner, Sources, Events, Authorities
  <2>2. agent \in Agent /\ \A r \in Runs : proc[r] \in Process
    BY Numbers DEF Init, Agent, Process, Idle, Skills, Owner, Sources, Authorities
  <2>3. lane \in [Skills -> Lane] /\ snap \in [Skills -> Snapshot] /\ proc \in [Runs -> Process]
    BY <2>1, <2>2 DEF Init
  <2>4. /\ source \in Sources /\ event \in Events /\ authority \in Authorities
        /\ ordinal \in [1..MaxSource -> Sources] /\ faults \in 0..MaxFaults
        /\ edited \in [source : Sources, event : Events]
        /\ turn \in 0..source
    BY Numbers DEF Init, Sources, Events, Authorities
  <2> QED  BY <2>2, <2>3, <2>4 DEF Init, TypeOK
<1>2. RoundsOK
  BY DEF Init, RoundsOK
<1>3. TimelineOK
  BY DEF Init, TimelineOK
<1>4. SnapshotsOK
  BY DEF Init, SnapshotsOK, Skills, NoSnapshot
<1>5. ComposerOK
  BY DEF Init, ComposerOK, Exists, Skills
<1> QED  BY <1>1, <1>2, <1>3, <1>4, <1>5 DEF IInv

-----------------------------------------------------------------------------
(* What the steps have in common.                                          *)

\* The parts of the invariant read the project and the lanes as follows.
LEMMA ProjectFacts ==
  ASSUME TypeOK
  PROVE  /\ source \in Nat /\ event \in Nat /\ authority \in Nat /\ turn \in Nat
         /\ source <= MaxSource /\ event <= MaxEvent /\ authority <= MaxAuthority
         /\ \A q \in active : q \in Nat /\ 1 <= q /\ q <= source
         /\ open \subseteq active
         /\ turn <= source
         /\ \A q \in 1..MaxSource : ordinal[q] \in Nat
         /\ edited.source \in Nat /\ edited.event \in Nat
BY Numbers DEF TypeOK, Sources, Events, Authorities

LEMMA LaneFacts ==
  ASSUME TypeOK, NEW k \in Skills
  PROVE  /\ lane[k] \in Lane
         /\ lane[k].pending \in BOOLEAN /\ lane[k].live \in BOOLEAN /\ lane[k].token \in Owner
         /\ lane[k].target \in Nat /\ lane[k].targetEvent \in Nat /\ lane[k].milestone \in Nat
         /\ lane[k].attempts \in 0..MaxAttempts /\ lane[k].attempts \in Nat
         /\ lane[k].done \in Nat /\ lane[k].doneEvent \in Nat
         /\ lane[k].done \in Sources /\ lane[k].doneEvent \in Events
         /\ lane[k].doneAuthority \in Authorities
         /\ snap[k] \in Snapshot
         /\ snap[k].pending \in BOOLEAN
         /\ snap[k].source \in Nat /\ snap[k].event \in Nat /\ snap[k].last \in Nat
         /\ snap[k].source \in Sources /\ snap[k].event \in Events /\ snap[k].authority \in Authorities
<1>1. lane[k] \in Lane /\ snap[k] \in Snapshot
  BY DEF TypeOK
<1>2. /\ lane[k].pending \in BOOLEAN /\ lane[k].live \in BOOLEAN /\ lane[k].token \in Owner
      /\ lane[k].target \in Sources /\ lane[k].targetEvent \in Events /\ lane[k].milestone \in Sources
      /\ lane[k].attempts \in 0..MaxAttempts
      /\ lane[k].done \in Sources /\ lane[k].doneEvent \in Events
      /\ lane[k].doneAuthority \in Authorities
  BY <1>1 DEF Lane
<1>3. /\ snap[k].pending \in BOOLEAN /\ snap[k].last \in Sources \cup Events
      /\ snap[k].source \in Sources /\ snap[k].event \in Events /\ snap[k].authority \in Authorities
  BY <1>1 DEF Snapshot
<1>4. Sources \subseteq Nat /\ Events \subseteq Nat
  BY DEF Sources, Events
<1>5. snap[k].last \in Nat /\ lane[k].attempts \in Nat
  <2>1. 0..MaxAttempts \subseteq Nat
    OBVIOUS
  <2> QED  BY <1>2, <1>3, <1>4, <2>1
<1> QED  BY <1>1, <1>2, <1>3, <1>4, <1>5

LEMMA TwoSkills == "timeline" \in Skills /\ "composer" \in Skills /\ "timeline" # "composer"
BY DEF Skills

LEMMA ChangeOneLane ==
  ASSUME TypeOK, NEW k \in Skills, NEW l \in Lane, lane' = [lane EXCEPT ![k] = l]
  PROVE  /\ lane' \in [Skills -> Lane]
         /\ lane'[k] = l
         /\ \A j \in Skills : j # k => lane'[j] = lane[j]
BY DEF TypeOK

LEMMA ChangeOneSnapshot ==
  ASSUME TypeOK, NEW k \in Skills, NEW s \in Snapshot, snap' = [snap EXCEPT ![k] = s]
  PROVE  /\ snap' \in [Skills -> Snapshot]
         /\ snap'[k] = s
         /\ \A j \in Skills : j # k => snap'[j] = snap[j]
BY DEF TypeOK

LEMMA ChangeOneProcess ==
  ASSUME TypeOK, NEW r \in Runs, NEW p \in Process, proc' = [proc EXCEPT ![r] = p]
  PROVE  proc' \in [Runs -> Process]
BY DEF TypeOK

\* A change of fences leaves no snapshot, whose parts then say nothing.
LEMMA FenceOK ==
  ASSUME TypeOK, Fence
  PROVE  /\ authority' \in Authorities
         /\ snap' \in [Skills -> Snapshot]
         /\ \A k \in Skills : ~snap'[k].pending /\ snap'[k].event = 0
         /\ turn' = 0
<1>1. authority' \in Authorities
  BY Numbers, ProjectFacts DEF Fence, Authorities
<1>2. NoSnapshot \in Snapshot /\ ~NoSnapshot.pending /\ NoSnapshot.event = 0
  BY Numbers DEF NoSnapshot, Snapshot, Authorities, Sources, Events
<1> QED  BY <1>1, <1>2 DEF Fence

-----------------------------------------------------------------------------
(* The narrator.                                                           *)

LEMMA AcceptStep ==
  ASSUME IInv, Accept
  PROVE  IInv'
<1> DEFINE l == [lane["timeline"] EXCEPT !.pending = TRUE, !.target = source', !.attempts = 0]
<1>1. /\ source' = source + 1 /\ turn' = source' /\ turn = 0 /\ source' \in Sources
      /\ active' = active \cup {source'} /\ open' = open \cup {source'}
      /\ receipts' = receipts \cup {"turn"}
      /\ lane' = [lane EXCEPT !["timeline"] = l]
      /\ UNCHANGED <<event, authority, ordinal, snap, agent, proc, faults, edited>>
  BY Numbers, ProjectFacts DEF IInv, Accept, Sources
<1>2. l \in Lane /\ l.doneEvent = lane["timeline"].doneEvent
  <2>1. lane["timeline"] \in Lane /\ 0 \in 0..MaxAttempts
    BY Numbers, TwoSkills, LaneFacts DEF IInv
  <2> QED  BY <1>1, <2>1 DEF Lane
<1>3. /\ lane' \in [Skills -> Lane] /\ lane'["timeline"] = l /\ lane'["composer"] = lane["composer"]
  <2> HIDE DEF l
  <2> QED  BY <1>1, <1>2, TwoSkills, ChangeOneLane DEF IInv
<1> HIDE DEF l
<1>4. TypeOK'
  BY <1>1, <1>3, ProjectFacts DEF IInv, TypeOK
<1>5. RoundsOK'
  BY <1>1, ProjectFacts DEF IInv, RoundsOK
<1>6. TimelineOK'
  BY <1>1 DEF TimelineOK
<1>7. SnapshotsOK'
  <2>1. \A k \in Skills : snap[k].source \in Nat /\ snap[k].last \in Nat
    BY LaneFacts DEF IInv
  <2>2. agent.high \in Nat
    BY Numbers DEF IInv, TypeOK, Agent, Sources
  <2> QED  BY <1>1, <1>2, <1>3, <2>1, <2>2, TwoSkills, ProjectFacts DEF IInv, SnapshotsOK
<1>8. ComposerOK'
  BY <1>1, <1>3, ProjectFacts DEF IInv, ComposerOK, Exists, Resting
<1> QED  BY <1>4, <1>5, <1>6, <1>7, <1>8 DEF IInv

LEMMA RoundStep ==
  ASSUME IInv, Round
  PROVE  IInv'
<1> DEFINE n == RoundsWithin(MaxSource) + 1
<1>1. n \in Nat /\ n <= source /\ n <= MaxSource /\ \A q \in 1..MaxSource : ordinal[q] < n
  <2>1. /\ RoundsWithin(MaxSource) \in Nat
        /\ \A q \in 1..MaxSource : ordinal[q] <= RoundsWithin(MaxSource)
        /\ RoundsWithin(MaxSource) # 0 => \E q \in 1..MaxSource : ordinal[q] = RoundsWithin(MaxSource)
    BY Numbers, RoundsWithinOK DEF IInv, Sources
  <2>2. RoundsWithin(MaxSource) < source
    BY <2>1, ProjectFacts DEF Round, IInv, RoundsOK
  <2> QED  BY <2>1, <2>2, ProjectFacts, Numbers DEF IInv
<1>2. /\ turn \in 1..MaxSource /\ turn' = 0 /\ turn <= source
      /\ ordinal' = [ordinal EXCEPT ![turn] = n]
      /\ receipts' = receipts \cup {"turn"}
      /\ UNCHANGED <<source, event, authority, active, open, lane, snap, agent, proc, faults, edited>>
  BY Numbers, ProjectFacts DEF IInv, Round
<1> HIDE DEF n
<1>3. /\ ordinal' \in [1..MaxSource -> Sources] /\ ordinal'[turn] = n
      /\ \A q \in 1..MaxSource : q # turn => ordinal'[q] = ordinal[q]
  BY <1>1, <1>2, Numbers DEF IInv, TypeOK, Sources
<1>4. TypeOK'
  BY <1>2, <1>3, ProjectFacts DEF IInv, TypeOK
<1>5. RoundsOK'
  BY <1>1, <1>2, <1>3, ProjectFacts DEF IInv, RoundsOK
<1>6. TimelineOK'
  BY <1>2 DEF TimelineOK
<1>7. SnapshotsOK'
  BY <1>2 DEF IInv, SnapshotsOK
<1>8. ComposerOK'
  <2>1. (\E q \in 1..MaxSource : ordinal[q] >= Cadence) => \E q \in 1..MaxSource : ordinal'[q] >= Cadence
    <3> SUFFICES ASSUME NEW q \in 1..MaxSource, ordinal[q] >= Cadence
                 PROVE  ordinal'[q] >= Cadence
      OBVIOUS
    <3> QED  BY <1>1, <1>3, ProjectFacts, Numbers DEF IInv
  <2> QED  BY <1>2, <2>1 DEF IInv, ComposerOK, Exists, Resting
<1> QED  BY <1>4, <1>5, <1>6, <1>7, <1>8 DEF IInv

\* What Change, Correct and Detach have in common: fences are new, an edit's
\* receipt is on its way, and the lanes are as they were.
Edits ==
  /\ Fence
  /\ "edit" \in receipts' /\ receipts' \subseteq {"turn", "edit"}
  /\ UNCHANGED <<lane, agent, proc, faults>>

LEMMA EditsOK ==
  ASSUME IInv, Edits,
         source' \in Sources, event' \in Events, source <= source', event <= event',
         active' \subseteq 1..source', open' \subseteq active',
         ordinal' \in [1..MaxSource -> Sources],
         edited' \in [source : Sources, event : Events],
         edited'.source <= source', edited'.event <= event',
         \A q \in 1..MaxSource : ordinal'[q] <= source' /\ (q > source' => ordinal'[q] = 0),
         (\E q \in 1..MaxSource : ordinal[q] >= Cadence) => \E q \in 1..MaxSource : ordinal'[q] >= Cadence
  PROVE  IInv'
<1>1. TypeOK'
  <2>1. 0 \in 0..source'
    BY DEF Sources
  <2> QED  BY <2>1, FenceOK DEF IInv, TypeOK, Edits
<1>2. RoundsOK'
  BY FenceOK DEF IInv, RoundsOK, Edits
<1>3. TimelineOK'
  BY DEF TimelineOK, Edits
<1>4. SnapshotsOK'
  <2>1. agent.high \in Nat /\ source \in Nat /\ source' \in Nat
    BY Numbers, ProjectFacts DEF IInv, TypeOK, Agent, Sources
  <2> QED  BY <2>1, FenceOK, TwoSkills DEF IInv, SnapshotsOK, Edits
<1>5. ComposerOK'
  BY DEF IInv, ComposerOK, Exists, Edits
<1> QED  BY <1>1, <1>2, <1>3, <1>4, <1>5 DEF IInv

LEMMA ChangeStep ==
  ASSUME IInv, NEW q \in 1..MaxSource, NEW withdraw \in BOOLEAN, Change(q, withdraw)
  PROVE  IInv'
<1>1. /\ q \in active /\ source' = source + 1 /\ source' \in 1..MaxSource /\ source' \in Sources
      /\ q # source' /\ q <= source
      /\ active' = (active \ {q}) \cup (IF withdraw THEN {} ELSE {source'})
      /\ ordinal' = [ordinal EXCEPT ![source'] = ordinal[q], ![q] = 0]
      /\ edited' = [source |-> source', event |-> event']
  BY Numbers, ProjectFacts DEF IInv, Change, Sources
<1>2. Edits
  BY DEF Change, Edits, IInv, TypeOK
<1>3. PICK supported \in BOOLEAN, others \in SUBSET (active \ (open \cup {q})) :
        /\ supported => event \in 1..(MaxEvent - 1) /\ q \notin open
        /\ event' = IF supported THEN event + 1 ELSE event
        /\ open' = StillOpen(q, others, withdraw)
  BY DEF Change
<1>4. event' \in Events /\ event <= event'
  BY <1>3, Numbers, ProjectFacts DEF IInv, Events
<1>5. active' \subseteq 1..source' /\ open' \subseteq active'
  BY <1>1, <1>3, ProjectFacts DEF IInv, StillOpen
<1>6. /\ ordinal' \in [1..MaxSource -> Sources]
      /\ ordinal'[q] = 0 /\ ordinal'[source'] = ordinal[q]
      /\ \A p \in 1..MaxSource : p # q /\ p # source' => ordinal'[p] = ordinal[p]
  <2>1. ordinal \in [1..MaxSource -> Sources] /\ 0 \in Sources
    BY Numbers DEF IInv, TypeOK, Sources
  <2>2. ordinal[q] \in Sources
    BY <2>1
  <2>3. /\ ordinal'[q] = 0 /\ ordinal'[source'] = ordinal[q]
        /\ \A p \in 1..MaxSource : p # q /\ p # source' => ordinal'[p] = ordinal[p]
    BY <1>1, <2>1
  <2>4. ordinal' \in [1..MaxSource -> Sources]
    BY <1>1, <2>1, <2>2
  <2> QED  BY <2>3, <2>4
<1>7. \A p \in 1..MaxSource : ordinal'[p] <= source' /\ (p > source' => ordinal'[p] = 0)
  BY <1>1, <1>6, ProjectFacts DEF IInv, RoundsOK
<1>8. (\E p \in 1..MaxSource : ordinal[p] >= Cadence) => \E p \in 1..MaxSource : ordinal'[p] >= Cadence
  <2> SUFFICES ASSUME NEW p \in 1..MaxSource, ordinal[p] >= Cadence
               PROVE  \E o \in 1..MaxSource : ordinal'[o] >= Cadence
    OBVIOUS
  <2>1. CASE p = q
    BY <1>1, <1>6, <2>1
  <2>2. CASE p # q
    <3>1. p # source'
      BY <1>1, Numbers, ProjectFacts DEF IInv, RoundsOK
    <3> QED  BY <1>6, <2>2, <3>1
  <2> QED  BY <2>1, <2>2
<1>9. edited' \in [source : Sources, event : Events] /\ edited'.source = source' /\ edited'.event = event'
  BY <1>1, <1>4
<1>10. source <= source' /\ source' \in Nat /\ event' \in Nat
  BY <1>1, <1>4, ProjectFacts DEF IInv, Events
<1> QED  BY <1>1, <1>2, <1>4, <1>5, <1>6, <1>7, <1>8, <1>9, <1>10, EditsOK

LEMMA CorrectStep ==
  ASSUME IInv, Correct
  PROVE  IInv'
<1>1. /\ source' = source + 1 /\ event' = event + 1 /\ source' \in Sources /\ event' \in Events
      /\ active' = active \cup {source'}
      /\ edited' = [source |-> source', event |-> event']
      /\ UNCHANGED <<open, ordinal>>
  BY Numbers, ProjectFacts DEF IInv, Correct, Sources, Events
<1>2. Edits
  BY DEF Correct, Edits, IInv, TypeOK
<1>3. active' \subseteq 1..source' /\ open' \subseteq active'
  BY <1>1, ProjectFacts DEF IInv
<1>4. ordinal' \in [1..MaxSource -> Sources]
  BY <1>1 DEF IInv, TypeOK
<1>5. \A p \in 1..MaxSource : ordinal'[p] <= source' /\ (p > source' => ordinal'[p] = 0)
  BY <1>1, ProjectFacts DEF IInv, RoundsOK
<1>6. edited' \in [source : Sources, event : Events] /\ edited'.source = source' /\ edited'.event = event'
  BY <1>1
<1>7. source <= source' /\ event <= event' /\ source' \in Nat /\ event' \in Nat
  BY <1>1, ProjectFacts DEF IInv
<1> QED  BY <1>1, <1>2, <1>3, <1>4, <1>5, <1>6, <1>7, EditsOK

LEMMA DetachStep ==
  ASSUME IInv, Detach
  PROVE  IInv'
<1>1. /\ event' = event + 1 /\ event' \in Events
      /\ edited' = [source |-> edited.source, event |-> event']
      /\ UNCHANGED <<source, active, ordinal>>
  BY Numbers, ProjectFacts DEF IInv, Detach, Events
<1>2. Edits
  BY DEF Detach, Edits, IInv, TypeOK
<1>3. active' \subseteq 1..source' /\ open' \subseteq active'
  BY <1>1 DEF IInv, TypeOK, Detach
<1>4. ordinal' \in [1..MaxSource -> Sources] /\ source' \in Sources
  BY <1>1 DEF IInv, TypeOK
<1>5. \A p \in 1..MaxSource : ordinal'[p] <= source' /\ (p > source' => ordinal'[p] = 0)
  BY <1>1, ProjectFacts DEF IInv, RoundsOK
<1>6. /\ edited' \in [source : Sources, event : Events] /\ edited'.source = edited.source
      /\ edited'.event = event' /\ edited.source <= source'
  BY <1>1 DEF IInv, TypeOK, ComposerOK
<1>7. source <= source' /\ event <= event' /\ source' \in Nat /\ event' \in Nat
  BY <1>1, ProjectFacts DEF IInv
<1> QED  BY <1>1, <1>2, <1>3, <1>4, <1>5, <1>6, <1>7, EditsOK

LEMMA RestrictStep ==
  ASSUME IInv, Restrict
  PROVE  IInv'
<1>1. TypeOK'
  <2>1. 0 \in 0..source
    BY ProjectFacts DEF IInv
  <2> QED  BY <2>1, FenceOK DEF IInv, TypeOK, Restrict
<1>2. RoundsOK'
  BY FenceOK DEF IInv, RoundsOK, Restrict
<1>3. TimelineOK'
  BY DEF IInv, TimelineOK, Resting, Restrict
<1>4. SnapshotsOK'
  BY FenceOK, TwoSkills DEF IInv, SnapshotsOK, Restrict
<1>5. ComposerOK'
  BY DEF IInv, ComposerOK, Exists, Resting, Restrict
<1> QED  BY <1>1, <1>2, <1>3, <1>4, <1>5 DEF IInv

-----------------------------------------------------------------------------
(* Steps that leave the project, its receipts and the snapshots alone.     *)

\* A lane keeps what it aims at and what it has done, and is not laid to rest.
LaneKept(k) ==
  /\ lane'[k].target = lane[k].target
  /\ lane'[k].done = lane[k].done /\ lane'[k].doneEvent = lane[k].doneEvent
  /\ Resting(k)' => Resting(k)

LEMMA KeptOK ==
  ASSUME IInv, UNCHANGED <<project, receipts, snap>>,
         lane' \in [Skills -> Lane], agent' \in Agent, agent'.high <= source,
         proc' \in [Runs -> Process], faults' \in 0..MaxFaults,
         \A k \in Skills : LaneKept(k)
  PROVE  IInv'
<1>1. TypeOK'
  BY DEF IInv, TypeOK, project
<1>2. RoundsOK'
  BY DEF IInv, RoundsOK, project
<1>3. TimelineOK'
  BY TwoSkills DEF IInv, TimelineOK, LaneKept, project
<1>4. SnapshotsOK'
  BY TwoSkills DEF IInv, SnapshotsOK, LaneKept, project
<1>5. ComposerOK'
  BY TwoSkills DEF IInv, ComposerOK, LaneKept, Exists, project
<1> QED  BY <1>1, <1>2, <1>3, <1>4, <1>5 DEF IInv

\* Steps that move a process and perhaps count a fault.
LEMMA SameLanes ==
  ASSUME lane' = lane
  PROVE  \A k \in Skills : LaneKept(k)
BY DEF LaneKept, Resting

LEMMA Types ==
  ASSUME IInv
  PROVE  /\ TypeOK
         /\ lane \in [Skills -> Lane] /\ snap \in [Skills -> Snapshot]
         /\ agent \in Agent /\ agent.high <= source /\ agent.high \in Sources
         /\ agent.attempts \in 0..MaxAttempts
         /\ proc \in [Runs -> Process] /\ faults \in 0..MaxFaults
         /\ \A r \in Runs : proc[r] \in Process
BY DEF IInv, TypeOK, SnapshotsOK, Agent

LEMMA IdleOK ==
  /\ Idle \in Process
  /\ [Idle EXCEPT !.pc = "agent"] \in Process
  /\ [Idle EXCEPT !.pc = "agent", !.called = TRUE] \in Process
  /\ [Idle EXCEPT !.pc = "ending"] \in Process
  /\ \A b \in BOOLEAN : [Idle EXCEPT !.pc = "ending", !.success = b] \in Process
BY DEF Idle, Process, Skills

LEMMA FaultOK ==
  ASSUME IInv, Fault
  PROVE  faults' \in 0..MaxFaults
BY Numbers, Types DEF Fault

LEMMA OwnerOK == NoRun \in Owner /\ \A r \in Runs : r \in Owner /\ r # NoRun
BY RunsAssumption DEF Owner

LEMMA NoAttempts == 0 \in 0..MaxAttempts /\ MaxAttempts \in 0..MaxAttempts
BY Numbers

\* A lane given back is marked, with its frontiers as they were.
Marked(k, a) == [lane[k] EXCEPT !.token = NoRun, !.live = FALSE, !.pending = TRUE, !.attempts = a]

LEMMA MarkedOK ==
  ASSUME IInv, NEW k \in Skills, NEW a \in 0..MaxAttempts
  PROVE  /\ Marked(k, a) \in Lane /\ Marked(k, a).pending
         /\ Marked(k, a).target = lane[k].target
         /\ Marked(k, a).done = lane[k].done /\ Marked(k, a).doneEvent = lane[k].doneEvent
<1>1. lane[k] \in Lane
  BY Types
<1> QED  BY <1>1, OwnerOK DEF Lane, Marked

\* A lane that is left as it was, or given back.
LEMMA GivenBack ==
  ASSUME IInv, NEW k \in Skills, NEW a \in 0..MaxAttempts,
         lane'[k] = lane[k] \/ lane'[k] = Marked(k, a)
  PROVE  lane'[k] \in Lane /\ LaneKept(k)
<1>1. CASE lane'[k] = lane[k]
  BY <1>1, Types DEF LaneKept, Resting
<1>2. CASE lane'[k] = Marked(k, a)
  BY <1>2, MarkedOK DEF LaneKept, Resting
<1> QED  BY <1>1, <1>2

LEMMA MarkLane ==
  ASSUME IInv, NEW k \in Skills, NEW l \in Lane, lane' = [lane EXCEPT ![k] = l],
         l.pending \/ l.token # NoRun \/ (l.token = lane[k].token /\ l.pending = lane[k].pending),
         l.target = lane[k].target, l.done = lane[k].done, l.doneEvent = lane[k].doneEvent
  PROVE  lane' \in [Skills -> Lane] /\ \A j \in Skills : LaneKept(j)
<1>1. /\ lane' \in [Skills -> Lane] /\ lane'[k] = l
      /\ \A j \in Skills : j # k => lane'[j] = lane[j]
  BY Types, ChangeOneLane
<1>2. LaneKept(k)
  BY <1>1 DEF LaneKept, Resting
<1>3. \A j \in Skills : j # k => LaneKept(j)
  BY <1>1 DEF LaneKept, Resting
<1> QED  BY <1>1, <1>2, <1>3

LEMMA RetryStep ==
  ASSUME IInv, NEW k \in Skills, Retry(k)
  PROVE  IInv'
<1>1. \A j \in Skills : lane'[j] = lane[j] \/ lane'[j] = Marked(j, 0)
  <2>1. \A j \in Skills : lane'[j] = lane[j] \/ lane'[j] = Retried(j)
    BY DEF Retry
  <2>2. \A j \in Skills : Retried(j) = Marked(j, 0)
    BY Types DEF Retried, Marked, Lane
  <2> QED  BY <2>1, <2>2
<1>2. \A j \in Skills : lane'[j] \in Lane /\ LaneKept(j)
  BY <1>1, NoAttempts, GivenBack
<1>3. lane' \in [Skills -> Lane]
  BY <1>2 DEF Retry
<1>4. agent' \in Agent /\ agent'.high <= source
  <2>1. agent' = agent \/ agent' = [agent EXCEPT !.attempts = 0, !.pending = TRUE]
    BY DEF Retry
  <2>2. [agent EXCEPT !.attempts = 0, !.pending = TRUE] \in Agent
    BY Types, NoAttempts DEF Agent
  <2>3. [agent EXCEPT !.attempts = 0, !.pending = TRUE].high = agent.high
    BY Types DEF Agent
  <2> QED  BY <2>1, <2>2, <2>3, Types
<1>5. UNCHANGED <<project, receipts, snap, proc, faults>>
  BY DEF Retry
<1> QED  BY <1>2, <1>3, <1>4, <1>5, Types, KeptOK

LEMMA DispatchStep ==
  ASSUME IInv, Dispatch
  PROVE  IInv'
<1>1. UNCHANGED <<project, receipts, lane, snap, proc, faults>> /\ agent' = Queued
  BY DEF Dispatch
<1>2. source \in Sources /\ \A n \in Sources : Later(n, source) \in Sources
  BY Types DEF TypeOK, Later
<1>3. Queued \in Agent /\ Queued.high = agent.high
  <2>1. CASE ~agent.exists
    BY <2>1, <1>2, Types DEF Queued, Agent
  <2>2. CASE agent.exists
    <3> DEFINE p == agent.pending \/ agent.token = NoRun \/ source > agent.target
               a == IF ~agent.batch /\ source > agent.target THEN 0 ELSE agent.attempts
               t == Later(agent.target, source)
    <3>1. p \in BOOLEAN /\ a \in 0..MaxAttempts /\ t \in Sources
      BY <1>2, Types, NoAttempts DEF Agent
    <3>2. Queued = [agent EXCEPT !.pending = p, !.attempts = a, !.target = t]
      BY <2>2, Types DEF Queued, Agent
    <3> HIDE DEF p, a, t
    <3> QED  BY <3>1, <3>2, Types DEF Agent
  <2> QED  BY <2>1, <2>2
<1> QED  BY <1>1, <1>3, Types, SameLanes, KeptOK

LEMMA ClaimAgentStep ==
  ASSUME IInv, NEW r \in Runs, ClaimAgent(r)
  PROVE  IInv'
<1> DEFINE high == IF agent.batch THEN agent.high ELSE source
           rounds == IF agent.batch THEN agent.rounds ELSE RoundsWithin(MaxSource)
<1>1. high \in Sources /\ high <= source /\ rounds \in Sources /\ authority \in Authorities
  <2>1. RoundsWithin(MaxSource) \in Sources
    BY Types, Numbers, RoundsWithinOK DEF Sources
  <2>2. agent.rounds \in Sources /\ source \in Sources /\ authority \in Authorities /\ source <= source
    BY Types, ProjectFacts DEF TypeOK, Agent
  <2> QED  BY <2>1, <2>2, Types
<1>2. agent' = [agent EXCEPT !.token = r, !.live = TRUE, !.pending = FALSE,
         !.attempts = agent.attempts + 1, !.batch = TRUE, !.high = high, !.rounds = rounds,
         !.authority = authority, !.progressed = FALSE]
  BY Types DEF ClaimAgent, Agent
<1>3. agent.attempts + 1 \in 0..MaxAttempts
  BY Types, Numbers DEF ClaimAgent
<1> HIDE DEF high, rounds
<1>4. agent' \in Agent /\ agent'.high = high
  BY <1>1, <1>2, <1>3, OwnerOK, Types DEF Agent
<1>5. proc' \in [Runs -> Process]
  BY IdleOK, Types, ChangeOneProcess DEF ClaimAgent
<1>6. UNCHANGED <<project, receipts, lane, snap, faults>>
  BY DEF ClaimAgent
<1> QED  BY <1>1, <1>4, <1>5, <1>6, Types, SameLanes, KeptOK

LEMMA YieldLaneStep ==
  ASSUME IInv, NEW r \in Runs, NEW k \in Skills, YieldLane(r, k)
  PROVE  IInv'
<1>1. lane' \in [Skills -> Lane] /\ \A j \in Skills : LaneKept(j)
  <2>1. Yielded(k) = Marked(k, 0) /\ lane' = [lane EXCEPT ![k] = Yielded(k)]
    BY DEF YieldLane, Yielded, Marked
  <2> QED  BY <2>1, NoAttempts, MarkedOK, MarkLane
<1>2. proc' \in [Runs -> Process]
  BY IdleOK, Types, ChangeOneProcess DEF YieldLane, Returns
<1>3. UNCHANGED <<project, receipts, snap, agent, faults>>
  BY DEF YieldLane
<1> QED  BY <1>1, <1>2, <1>3, Types, KeptOK

LEMMA FailLaneStep ==
  ASSUME IInv, NEW r \in Runs, NEW k \in Skills, FailLane(r, k)
  PROVE  IInv'
<1> DEFINE l == [lane[k] EXCEPT !.token = NoRun, !.live = FALSE, !.pending = TRUE]
<1>1. l \in Lane /\ l.pending /\ lane' = [lane EXCEPT ![k] = l]
      /\ l.target = lane[k].target /\ l.done = lane[k].done /\ l.doneEvent = lane[k].doneEvent
  BY Types, OwnerOK DEF FailLane, Lane
<1> HIDE DEF l
<1>2. lane' \in [Skills -> Lane] /\ \A j \in Skills : LaneKept(j)
  BY <1>1, MarkLane
<1>3. proc' \in [Runs -> Process]
  BY IdleOK, Types, ChangeOneProcess DEF FailLane, Returns
<1>4. UNCHANGED <<project, receipts, snap, agent>> /\ faults' \in 0..MaxFaults
  BY FaultOK DEF FailLane
<1> QED  BY <1>2, <1>3, <1>4, Types, KeptOK

LEMMA AbandonStep ==
  ASSUME IInv, NEW r \in Runs, NEW k \in Skills, Abandon(r, k)
  PROVE  IInv'
<1>1. ASSUME lane' = [lane EXCEPT ![k] = Yielded(k)]
      PROVE  lane' \in [Skills -> Lane] /\ \A j \in Skills : LaneKept(j)
  <2>1. Yielded(k) = Marked(k, 0)
    BY DEF Yielded, Marked
  <2> QED  BY <1>1, <2>1, NoAttempts, MarkedOK, MarkLane
<1>2. lane' \in [Skills -> Lane] /\ \A j \in Skills : LaneKept(j)
  BY <1>1, Types, SameLanes DEF Abandon
<1>3. proc' \in [Runs -> Process]
  BY IdleOK, Types, ChangeOneProcess DEF Abandon
<1>4. UNCHANGED <<project, receipts, snap, agent, faults>>
  BY DEF Abandon
<1> QED  BY <1>2, <1>3, <1>4, Types, KeptOK

LEMMA ConcludeStep ==
  ASSUME IInv, NEW r \in Runs, Conclude(r)
  PROVE  IInv'
<1>1. proc' \in [Runs -> Process]
  <2>1. Reports(r) \subseteq BOOLEAN
    BY DEF Reports
  <2> QED  BY <2>1, IdleOK, Types, ChangeOneProcess DEF Conclude
<1>2. UNCHANGED <<project, receipts, lane, snap, agent>> /\ faults' \in 0..MaxFaults
  BY FaultOK, Types DEF Conclude
<1> QED  BY <1>1, <1>2, Types, SameLanes, KeptOK

LEMMA PauseStep ==
  ASSUME IInv, NEW r \in Runs, Pause(r)
  PROVE  IInv'
<1>1. proc' \in [Runs -> Process]
  <2>1. TRUE \in BOOLEAN
    OBVIOUS
  <2> QED  BY <2>1, IdleOK, Types, ChangeOneProcess DEF Pause
<1>2. UNCHANGED <<project, receipts, lane, snap, agent>> /\ faults' \in 0..MaxFaults
  BY FaultOK, Types DEF Pause
<1> QED  BY <1>1, <1>2, Types, SameLanes, KeptOK

LEMMA FinishAgentStep ==
  ASSUME IInv, NEW r \in Runs, FinishAgent(r)
  PROVE  IInv'
<1>1. \A k \in Skills : lane'[k] = lane[k] \/ lane'[k] = Marked(k, MaxAttempts)
  <2> DEFINE over(k) == [lane[k] EXCEPT !.attempts = MaxAttempts, !.pending = TRUE,
                                        !.token = NoRun, !.live = FALSE]
  <2> DEFINE complete == BatchComplete(proc[r].success)
             reset == proc[r].success \/ agent.authority # authority \/ agent.progressed
             exhausted == ~reset /\ ~complete /\ agent.attempts >= MaxAttempts
  <2>1. \/ lane' = lane
        \/ lane' = [k \in Skills |->
             IF exhausted /\ Wanted(k) /\ ~Running(k) THEN over(k) ELSE lane[k]]
    BY DEF FinishAgent
  <2>2. \A k \in Skills : over(k) = Marked(k, MaxAttempts)
    BY Types DEF Marked, Lane
  <2> HIDE DEF over, exhausted
  <2> QED  BY <2>1, <2>2
<1>2. \A k \in Skills : lane'[k] \in Lane /\ LaneKept(k)
  BY <1>1, NoAttempts, GivenBack
<1>3. lane' \in [Skills -> Lane]
  BY <1>2, Types DEF FinishAgent
<1>4. agent' \in Agent /\ agent'.high <= source
  <2>1. CASE agent' = agent
    BY <2>1, Types
  <2>2. ASSUME NEW a \in 0..MaxAttempts, NEW p \in BOOLEAN, NEW kept \in BOOLEAN,
               agent' = [agent EXCEPT !.token = NoRun, !.live = FALSE, !.attempts = a, !.pending = p,
                  !.batch = kept, !.high = IF kept THEN @ ELSE 0,
                  !.rounds = IF kept THEN @ ELSE 0, !.authority = 0, !.progressed = FALSE]
        PROVE  agent' \in Agent /\ agent'.high <= source
    <3>1. 0 \in Sources /\ 0 \in Authorities /\ 0 <= source
      BY Numbers, Types, ProjectFacts DEF Sources, Authorities
    <3> QED  BY <2>2, <3>1, OwnerOK, Types DEF Agent
  <2>3. \/ agent' = agent
        \/ \E a \in 0..MaxAttempts, p \in BOOLEAN, kept \in BOOLEAN :
             agent' = [agent EXCEPT !.token = NoRun, !.live = FALSE, !.attempts = a, !.pending = p,
                  !.batch = kept, !.high = IF kept THEN @ ELSE 0,
                  !.rounds = IF kept THEN @ ELSE 0, !.authority = 0, !.progressed = FALSE]
    BY NoAttempts, Types DEF FinishAgent, BatchComplete, Agent
  <2> QED  BY <2>1, <2>2, <2>3
<1>5. proc' \in [Runs -> Process]
  BY IdleOK, Types, ChangeOneProcess DEF FinishAgent
<1>6. UNCHANGED <<project, receipts, snap, faults>>
  BY DEF FinishAgent
<1> QED  BY <1>2, <1>3, <1>4, <1>5, <1>6, Types, KeptOK

LEMMA LapseAgentStep ==
  ASSUME IInv, NEW r \in Runs, LapseAgent(r)
  PROVE  IInv'
<1>1. agent' \in Agent /\ agent'.high = agent.high
  BY Types DEF LapseAgent, Agent
<1>2. UNCHANGED <<project, receipts, lane, snap, proc>> /\ faults' \in 0..MaxFaults
  BY FaultOK DEF LapseAgent
<1> QED  BY <1>1, <1>2, Types, SameLanes, KeptOK

LEMMA LapseLaneStep ==
  ASSUME IInv, NEW r \in Runs, NEW k \in Skills, LapseLane(r, k)
  PROVE  IInv'
<1> DEFINE l == [lane[k] EXCEPT !.live = FALSE]
<1>1. l \in Lane /\ lane' = [lane EXCEPT ![k] = l]
      /\ l.token = lane[k].token /\ l.pending = lane[k].pending
      /\ l.target = lane[k].target /\ l.done = lane[k].done /\ l.doneEvent = lane[k].doneEvent
  BY Types DEF LapseLane, Lane
<1> HIDE DEF l
<1>2. lane' \in [Skills -> Lane] /\ \A j \in Skills : LaneKept(j)
  BY <1>1, MarkLane
<1>3. UNCHANGED <<project, receipts, snap, agent, proc>> /\ faults' \in 0..MaxFaults
  BY FaultOK DEF LapseLane
<1> QED  BY <1>2, <1>3, Types, KeptOK

LEMMA DieStep ==
  ASSUME IInv, NEW r \in Runs, Die(r)
  PROVE  IInv'
<1>1. \A k \in Skills : lane'[k] = lane[k] \/ lane'[k] = [lane[k] EXCEPT !.live = FALSE]
  BY DEF Die
<1>2. \A k \in Skills : lane'[k] \in Lane /\ LaneKept(k)
  <2> SUFFICES ASSUME NEW k \in Skills PROVE lane'[k] \in Lane /\ LaneKept(k)
    OBVIOUS
  <2>1. PICK l : l = [lane[k] EXCEPT !.live = FALSE]
    OBVIOUS
  <2>2. lane[k] \in Lane
    BY Types
  <2>3. /\ l \in Lane /\ l.token = lane[k].token /\ l.pending = lane[k].pending
        /\ l.target = lane[k].target /\ l.done = lane[k].done /\ l.doneEvent = lane[k].doneEvent
    BY <2>1, <2>2 DEF Lane
  <2> QED  BY <1>1, <2>1, <2>2, <2>3 DEF LaneKept, Resting
<1>3. lane' \in [Skills -> Lane]
  BY <1>2 DEF Die
<1>4. agent' \in Agent /\ agent'.high = agent.high
  BY Types DEF Die, Agent
<1>5. proc' \in [Runs -> Process]
  BY IdleOK, Types, ChangeOneProcess DEF Die
<1>6. UNCHANGED <<project, receipts, snap>> /\ faults' \in 0..MaxFaults
  BY FaultOK DEF Die
<1> QED  BY <1>2, <1>3, <1>4, <1>5, <1>6, Types, KeptOK

-----------------------------------------------------------------------------
(* Receipts, claims, pages and completions.                                *)

LEMMA LaterOK ==
  ASSUME NEW n \in Sources, NEW m \in Sources
  PROVE  Later(n, m) \in Sources /\ Later(n, m) >= n /\ Later(n, m) >= m
BY DEF Later, Sources

LEMMA QueuedTimelineOK ==
  ASSUME IInv
  PROVE  /\ QueuedTimeline \in Lane
         /\ QueuedTimeline.target = Later(lane["timeline"].target, source)
         /\ QueuedTimeline.doneEvent = lane["timeline"].doneEvent
         /\ ~QueuedTimeline.pending => open = {}
<1> DEFINE l == lane["timeline"]
           p == l.pending \/ open # {} \/ l.target = 0
           a == IF source > l.target THEN 0 ELSE l.attempts
<1>1. l \in Lane /\ l.target \in Sources /\ source \in Sources /\ p \in BOOLEAN /\ a \in 0..MaxAttempts
  BY Types, TwoSkills, NoAttempts, LaneFacts DEF TypeOK, Lane
<1>2. QueuedTimeline = [l EXCEPT !.pending = p, !.attempts = a, !.target = Later(l.target, source)]
  BY <1>1 DEF QueuedTimeline, Lane
<1>3. Later(l.target, source) \in Sources
  BY <1>1, LaterOK
<1>4. p \/ open = {}
  OBVIOUS
<1> HIDE DEF l, p, a
<1>5. /\ QueuedTimeline \in Lane /\ QueuedTimeline.target = Later(l.target, source)
      /\ QueuedTimeline.doneEvent = l.doneEvent /\ QueuedTimeline.pending = p
  BY <1>1, <1>2, <1>3 DEF Lane
<1> QED  BY <1>4, <1>5 DEF l

LEMMA QueuedComposerOK ==
  ASSUME IInv, NEW kind, Milestone > 0
  PROVE  /\ QueuedComposer(kind) \in Lane
         /\ QueuedComposer(kind).target = source
         /\ QueuedComposer(kind).token = lane["composer"].token
         /\ QueuedComposer(kind).done = lane["composer"].done
         /\ QueuedComposer(kind).doneEvent = lane["composer"].doneEvent
         /\ ~QueuedComposer(kind).pending =>
              /\ ~lane["composer"].pending /\ lane["composer"].target # 0
              /\ kind = "edit" => event <= lane["composer"].doneEvent /\ source <= lane["composer"].done
<1> DEFINE l == lane["composer"]
           p == \/ l.pending \/ l.target = 0 \/ Milestone > l.milestone
                \/ kind = "edit" /\ (event > l.doneEvent \/ source > l.done)
           a == IF Milestone > l.milestone \/ event > l.targetEvent THEN 0 ELSE l.attempts
<1>1. /\ l \in Lane /\ p \in BOOLEAN /\ a \in 0..MaxAttempts
      /\ source \in Sources /\ event \in Events /\ Milestone \in Sources
  BY Types, TwoSkills, NoAttempts, MilestoneOK, LaneFacts DEF TypeOK, Lane
<1>2. QueuedComposer(kind) = [l EXCEPT !.pending = p, !.attempts = a, !.target = source,
                                       !.targetEvent = event, !.milestone = Milestone]
  BY <1>1 DEF QueuedComposer, Lane
<1>3. ~p => /\ ~l.pending /\ l.target # 0
            /\ kind = "edit" => event <= l.doneEvent /\ source <= l.done
  <2>1. l.done \in Nat /\ l.doneEvent \in Nat /\ source \in Nat /\ event \in Nat
    BY Types, TwoSkills, LaneFacts, ProjectFacts
  <2> QED  BY <2>1
<1>4. l = lane["composer"]
  OBVIOUS
<1> HIDE DEF l, p, a
<1>5. /\ QueuedComposer(kind) \in Lane /\ QueuedComposer(kind).target = source
      /\ QueuedComposer(kind).token = l.token /\ QueuedComposer(kind).done = l.done
      /\ QueuedComposer(kind).doneEvent = l.doneEvent /\ QueuedComposer(kind).pending = p
  BY <1>1, <1>2 DEF Lane
<1> QED  BY <1>3, <1>4, <1>5

LEMMA DeliverStep ==
  ASSUME IInv, NEW kind \in {"turn", "edit"}, Deliver(kind)
  PROVE  IInv'
<1> DEFINE c == IF Milestone > 0 THEN QueuedComposer(kind) ELSE lane["composer"]
<1>1. /\ kind \in receipts /\ receipts' = receipts \ {kind}
      /\ lane' = [lane EXCEPT !["timeline"] = QueuedTimeline, !["composer"] = c]
      /\ UNCHANGED <<project, snap, agent, proc, faults>>
  BY Types, TwoSkills DEF Deliver
<1>2. c \in Lane
  BY QueuedComposerOK, Types, TwoSkills
<1>3. /\ lane' \in [Skills -> Lane] /\ lane'["timeline"] = QueuedTimeline /\ lane'["composer"] = c
  <2> HIDE DEF c
  <2> QED  BY <1>1, <1>2, QueuedTimelineOK, Types, TwoSkills
<1>4. TypeOK'
  BY <1>1, <1>3 DEF IInv, TypeOK, project
<1>5. RoundsOK'
  BY <1>1 DEF IInv, RoundsOK, project
<1>6. TimelineOK'
  <2>1. open \subseteq 1..source
    BY DEF IInv, TypeOK
  <2>2. lane["timeline"].target \in Sources /\ source \in Sources
    BY Types, TwoSkills DEF TypeOK, Lane
  <2>3. open \subseteq 1..Later(lane["timeline"].target, source)
    BY <2>1, <2>2, LaterOK DEF Sources
  <2> QED  BY <1>1, <1>3, <2>3, QueuedTimelineOK DEF TimelineOK, Resting, project
<1>7. SnapshotsOK'
  BY <1>1, <1>3, QueuedTimelineOK DEF IInv, SnapshotsOK, project
<1>8. ComposerOK'
  <2>1. edited'.source <= source' /\ edited'.event <= event'
    BY <1>1 DEF IInv, ComposerOK, project
  <2>2. CASE Milestone > 0
    <3>1. \E q \in 1..MaxSource : ordinal'[q] >= Cadence
      BY <1>1, <2>2, Types, MilestoneOK DEF project
    <3>2. c = QueuedComposer(kind)
      BY <2>2
    <3>3. lane'["composer"].target = source
      BY <1>3, <2>2, <3>2, QueuedComposerOK
    <3>4. ASSUME "edit" \notin receipts', Resting("composer")'
          PROVE  /\ lane'["composer"].done >= edited.source
                 /\ lane'["composer"].doneEvent >= edited.event
      <4>1. /\ ~QueuedComposer(kind).pending /\ lane["composer"].token = NoRun
            /\ lane'["composer"].done = lane["composer"].done
            /\ lane'["composer"].doneEvent = lane["composer"].doneEvent
        BY <1>3, <2>2, <3>2, <3>4, QueuedComposerOK DEF Resting
      <4>2. /\ ~lane["composer"].pending /\ lane["composer"].target # 0
            /\ kind = "edit" => event <= lane["composer"].doneEvent /\ source <= lane["composer"].done
        BY <2>2, <4>1, QueuedComposerOK
      <4>3. CASE kind = "edit"
        BY <2>1, <4>1, <4>2, <4>3, <1>1, Types, TwoSkills, LaneFacts, ProjectFacts DEF project
      <4>4. CASE kind # "edit"
        <5>1. "edit" \notin receipts
          BY <1>1, <3>4, <4>4
        <5>2. Exists("composer") /\ Resting("composer")
          BY <4>1, <4>2, Types, TwoSkills, LaneFacts DEF Exists, Resting
        <5> QED  BY <4>1, <5>1, <5>2 DEF IInv, ComposerOK
      <4> QED  BY <4>3, <4>4
    <3> QED  BY <1>1, <2>1, <3>1, <3>3, <3>4 DEF ComposerOK, project
  <2>3. CASE ~(Milestone > 0)
    <3>1. ~Exists("composer")
      BY <2>3, Types, MilestoneOK DEF IInv, ComposerOK
    <3>2. lane'["composer"] = lane["composer"]
      BY <1>3, <2>3
    <3> QED  BY <2>1, <3>1, <3>2 DEF ComposerOK, Exists
  <2> QED  BY <2>2, <2>3
<1> QED  BY <1>4, <1>5, <1>6, <1>7, <1>8 DEF IInv

LEMMA ClaimLaneStep ==
  ASSUME IInv, NEW r \in Runs, NEW k \in Skills, ClaimLane(r, k)
  PROVE  IInv'
<1> DEFINE l == [lane[k] EXCEPT !.token = r, !.live = TRUE, !.pending = FALSE,
                                !.attempts = lane[k].attempts + 1]
           fresh == [pending |-> TRUE, authority |-> authority, source |-> agent.high,
                     event |-> IF k = "composer" THEN event ELSE 0,
                     last |-> IF lane[k].doneAuthority = authority THEN lane[k].doneEvent ELSE 0]
           s == IF Resumable(k) THEN snap[k] ELSE fresh
<1>1. /\ lane' = [lane EXCEPT ![k] = l] /\ snap' = [snap EXCEPT ![k] = s]
      /\ lane[k].attempts < MaxAttempts /\ (k = "composer" => Composable(agent.high))
      /\ UNCHANGED <<project, receipts, agent, faults>>
  <2>1. lane' = [lane EXCEPT ![k] = l]
    BY DEF ClaimLane
  <2>2. snap' = [snap EXCEPT ![k] = s]
    BY Types DEF ClaimLane
  <2>3. /\ Claimable(k) /\ UNCHANGED <<project, receipts, agent, faults>>
    BY DEF ClaimLane
  <2> HIDE DEF l, s
  <2> QED  BY <2>1, <2>2, <2>3 DEF Claimable, Listed
<1>2. /\ l \in Lane /\ l.token = r /\ l.target = lane[k].target
      /\ l.done = lane[k].done /\ l.doneEvent = lane[k].doneEvent
  <2>1. lane[k].attempts + 1 \in 0..MaxAttempts /\ lane[k] \in Lane
    BY <1>1, Types, LaneFacts, Numbers
  <2> QED  BY <2>1, OwnerOK DEF Lane
<1>3. fresh \in Snapshot
  <2>1. /\ authority \in Authorities /\ agent.high \in Sources /\ event \in Events
        /\ lane[k].doneEvent \in Events /\ 0 \in Events
    BY Types, LaneFacts, Numbers DEF TypeOK, Events
  <2> QED  BY <2>1 DEF Snapshot
<1>4. s \in Snapshot
  BY <1>3, Types
<1> HIDE DEF l
<1>5. lane' \in [Skills -> Lane] /\ \A j \in Skills : LaneKept(j)
  BY <1>1, <1>2, OwnerOK, MarkLane
<1>6. /\ snap' \in [Skills -> Snapshot] /\ snap'[k] = s
      /\ \A j \in Skills : j # k => snap'[j] = snap[j]
  <2> HIDE DEF s
  <2> QED  BY <1>1, <1>4, Types, ChangeOneSnapshot
<1>7. proc' \in [Runs -> Process]
  <2>1. [proc[r] EXCEPT !.pc = "lane", !.skill = k] \in Process
    BY Types DEF Process
  <2> QED  BY <2>1, Types DEF ClaimLane
<1>8. TypeOK'
  BY <1>1, <1>5, <1>6, <1>7 DEF IInv, TypeOK, project
<1>9. RoundsOK' /\ TimelineOK' /\ ComposerOK'
  BY <1>1, <1>5, TwoSkills DEF IInv, RoundsOK, TimelineOK, ComposerOK, LaneKept, Exists, project
<1>10. SnapshotsOK'
  <2>1. CASE snap'[k] = snap[k]
    <3>1. snap' = snap
      BY <1>6, <2>1, Types
    <3> QED  BY <1>1, <1>5, <3>1, TwoSkills DEF IInv, SnapshotsOK, LaneKept, project
  <2>2. CASE snap'[k] = fresh
    <3>1. /\ snap'[k].source = agent.high /\ agent.high <= source
          /\ k = "composer" => open \cap (1..agent.high) = {}
      BY <1>1, <2>2, Types DEF Composable
    <3>2. k = "timeline" => snap'[k].last = 0 /\ snap'[k].event = 0
      BY <2>2 DEF IInv, SnapshotsOK
    <3>3. 0 <= source /\ open \cap (1..0) = {}
      BY Types, ProjectFacts
    <3>4. CASE k = "timeline"
      BY <1>1, <1>5, <1>6, <3>1, <3>2, <3>3, <3>4, TwoSkills
      DEF IInv, SnapshotsOK, LaneKept, project, Skills
    <3>5. CASE k = "composer"
      BY <1>1, <1>5, <1>6, <3>1, <3>5, TwoSkills DEF IInv, SnapshotsOK, LaneKept, project, Skills
    <3> QED  BY <3>4, <3>5 DEF Skills
  <2> QED  BY <1>6, <2>1, <2>2
<1> QED  BY <1>8, <1>9, <1>10 DEF IInv

LEMMA CommitPageStep ==
  ASSUME IInv, NEW r \in Runs, CommitPage(r)
  PROVE  IInv'
<1> DEFINE old == snap["timeline"]
<1>1. PICK q \in Uncovered("timeline") :
        /\ \A p \in Uncovered("timeline") : q <= p
        /\ open' = open \ {q}
        /\ event' \in {event, event + 1} \cap 0..(MaxEvent - 1)
        /\ snap' = [snap EXCEPT !["timeline"] = [@ EXCEPT !.last = q]]
  BY DEF CommitPage
<1>2. /\ receipts' = receipts \cup {"turn"} /\ agent' = [agent EXCEPT !.progressed = TRUE]
      /\ old.pending
      /\ UNCHANGED <<source, authority, active, turn, ordinal, edited, lane, proc, faults>>
  BY DEF CommitPage, Works, Holds
<1>3. /\ Uncovered("timeline") = open \cap ((old.last + 1)..old.source)
      /\ old.last \in Nat /\ old.source \in Nat /\ old.source <= source
      /\ open \cap (1..old.last) = {}
      /\ \A p \in open : p \in Nat /\ 1 <= p /\ p <= source
  BY <1>2, Types, TwoSkills, LaneFacts, ProjectFacts DEF Uncovered, IInv, SnapshotsOK
<1> DEFINE s == [old EXCEPT !.last = q]
<1>4. q \in Sources /\ q <= source /\ q \in Nat /\ q <= old.source
  <2>1. q \in open /\ q \in (old.last + 1)..old.source
    BY <1>1, <1>3
  <2>2. source \in Nat /\ source <= MaxSource /\ q \in Nat /\ 1 <= q /\ q <= source
    BY <1>3, <2>1, Types, ProjectFacts
  <2> HIDE DEF old
  <2> QED  BY <1>3, <2>1, <2>2, Numbers DEF Sources
<1>5. s \in Snapshot /\ s.last = q /\ s.source = old.source /\ s.event = old.event /\ s.pending = old.pending
  BY <1>4, Types, TwoSkills DEF Snapshot
<1>6. /\ snap' \in [Skills -> Snapshot] /\ snap'["timeline"] = s
      /\ snap'["composer"] = snap["composer"]
  <2>1. snap' = [snap EXCEPT !["timeline"] = s]
    BY <1>1, Types, TwoSkills
  <2> HIDE DEF s
  <2> QED  BY <1>5, <2>1, Types, TwoSkills, ChangeOneSnapshot
<1>7. event' \in Events /\ event' >= event /\ event' \in Nat
  BY <1>1, Types, ProjectFacts, Numbers DEF Events
<1>8. agent' \in Agent /\ agent'.high = agent.high
  BY <1>2, Types DEF Agent
<1> HIDE DEF s
<1>9. TypeOK'
  BY <1>1, <1>2, <1>6, <1>7, <1>8 DEF IInv, TypeOK
<1>10. RoundsOK' /\ TimelineOK'
  BY <1>2 DEF IInv, RoundsOK, TimelineOK
<1>11. SnapshotsOK'
  <2>1. open' \cap (1..q) = {}
    <3> SUFFICES ASSUME NEW x \in open, x # q, x <= q PROVE FALSE
      BY <1>1, <1>3, <1>4
    <3>1. x > old.last
      BY <1>3
    <3>2. x \in Uncovered("timeline")
      BY <1>3, <1>4, <3>1
    <3> QED  BY <1>1, <1>3, <1>4, <3>2
  <2>2. open' \subseteq open
    BY <1>1
  <2>3. /\ snap'["timeline"].last <= source' /\ snap'["timeline"].event = 0
        /\ open' \cap (1..snap'["timeline"].last) = {}
        /\ snap'["timeline"].source <= source'
    BY <1>2, <1>3, <1>4, <1>5, <1>6, <2>1 DEF IInv, SnapshotsOK
  <2> QED  BY <1>2, <1>6, <1>8, <2>2, <2>3 DEF IInv, SnapshotsOK, Skills
<1>12. ComposerOK'
  <2>1. edited.event \in Nat /\ event \in Nat
    BY Types, ProjectFacts
  <2>2. edited'.source <= source' /\ edited'.event <= event'
    BY <1>2, <1>7, <2>1 DEF IInv, ComposerOK
  <2>3. "edit" \notin receipts' => "edit" \notin receipts
    BY <1>2
  <2> QED  BY <1>2, <2>2, <2>3 DEF IInv, ComposerOK, Exists, Resting
<1> QED  BY <1>9, <1>10, <1>11, <1>12 DEF IInv

LEMMA CommitSectionStep ==
  ASSUME IInv, NEW r \in Runs, CommitSection(r)
  PROVE  IInv'
<1> DEFINE old == snap["composer"]
<1>1. PICK e \in Uncovered("composer") : snap' = [snap EXCEPT !["composer"] = [@ EXCEPT !.last = e]]
  BY DEF CommitSection
<1>2. agent' = [agent EXCEPT !.progressed = TRUE] /\ UNCHANGED <<project, receipts, lane, proc, faults>>
  BY DEF CommitSection
<1>3. e \in Events
  <2>1. old.last \in Nat /\ old.event \in 0..MaxEvent
    BY Types, TwoSkills, LaneFacts DEF Events
  <2>2. e \in (old.last + 1)..old.event
    BY <1>1, TwoSkills DEF Uncovered
  <2> QED  BY <2>1, <2>2, Numbers DEF Events
<1> DEFINE s == [old EXCEPT !.last = e]
<1>4. s \in Snapshot /\ s.source = old.source /\ s.pending = old.pending
  BY <1>3, Types, TwoSkills DEF Snapshot
<1>5. /\ snap' \in [Skills -> Snapshot] /\ snap'["composer"] = s
      /\ snap'["timeline"] = snap["timeline"]
  <2>1. snap' = [snap EXCEPT !["composer"] = s]
    BY <1>1, Types, TwoSkills
  <2> HIDE DEF s
  <2> QED  BY <1>4, <2>1, Types, TwoSkills, ChangeOneSnapshot
<1>6. agent' \in Agent /\ agent'.high = agent.high
  BY <1>2, Types DEF Agent
<1> HIDE DEF s
<1>7. TypeOK'
  BY <1>2, <1>5, <1>6 DEF IInv, TypeOK, project
<1>8. RoundsOK' /\ TimelineOK' /\ ComposerOK'
  BY <1>2 DEF IInv, RoundsOK, TimelineOK, ComposerOK, Exists, Resting, project
<1>9. SnapshotsOK'
  BY <1>2, <1>4, <1>5, <1>6 DEF IInv, SnapshotsOK, Skills, project
<1> QED  BY <1>7, <1>8, <1>9 DEF IInv

LEMMA CompleteFacts ==
  ASSUME IInv, NEW r \in Runs, NEW k \in Skills, Complete(r, k)
  PROVE  /\ lane' \in [Skills -> Lane] /\ snap' \in [Skills -> Snapshot]
         /\ lane'[k].target = lane[k].target /\ lane'[k].token = NoRun
         /\ lane'[k].done = snap[k].source /\ lane'[k].doneEvent = snap[k].event
         /\ ~lane'[k].pending => lane[k].target <= snap[k].source
         /\ ~snap'[k].pending /\ snap'[k].event = 0
         /\ \A j \in Skills : j # k => lane'[j] = lane[j] /\ snap'[j] = snap[j]
<1> DEFINE p == \/ lane[k].pending \/ lane[k].target > snap[k].source
                \/ k = "composer" /\ lane[k].targetEvent > snap[k].event
           l == [lane[k] EXCEPT !.token = NoRun, !.live = FALSE, !.attempts = 0, !.done = snap[k].source,
                  !.doneEvent = snap[k].event, !.doneAuthority = snap[k].authority, !.pending = p]
<1>1. p \in BOOLEAN /\ (~p => lane[k].target <= snap[k].source)
  BY Types, LaneFacts
<1>2. lane' = [lane EXCEPT ![k] = l] /\ snap' = [snap EXCEPT ![k] = NoSnapshot]
  <2>1. Completed(k) = l
    BY Types DEF Completed, Lane
  <2> HIDE DEF l
  <2> QED  BY <2>1 DEF Complete
<1>3. /\ lane[k] \in Lane /\ snap[k].source \in Sources /\ snap[k].event \in Events
      /\ snap[k].authority \in Authorities
  BY Types, LaneFacts
<1> HIDE DEF p
<1>4. /\ l \in Lane /\ l.target = lane[k].target /\ l.token = NoRun
      /\ l.done = snap[k].source /\ l.doneEvent = snap[k].event /\ l.pending = p
  BY <1>1, <1>3, OwnerOK, NoAttempts DEF Lane
<1> HIDE DEF l
<1>5. NoSnapshot \in Snapshot /\ ~NoSnapshot.pending /\ NoSnapshot.event = 0
  BY Numbers DEF NoSnapshot, Snapshot, Authorities, Sources, Events
<1>6. /\ lane' \in [Skills -> Lane] /\ lane'[k] = l
      /\ \A j \in Skills : j # k => lane'[j] = lane[j]
  BY <1>2, <1>4, Types, ChangeOneLane
<1>7. /\ snap' \in [Skills -> Snapshot] /\ snap'[k] = NoSnapshot
      /\ \A j \in Skills : j # k => snap'[j] = snap[j]
  BY <1>2, <1>5, Types, ChangeOneSnapshot
<1> QED  BY <1>1, <1>4, <1>5, <1>6, <1>7

LEMMA CompleteStep ==
  ASSUME IInv, NEW r \in Runs, NEW k \in Skills, Complete(r, k)
  PROVE  IInv'
<1>1. /\ Holds(r, k) /\ Uncovered(k) = {} /\ UNCHANGED <<project, receipts, agent, faults>>
      /\ proc' \in [Runs -> Process]
  <2>1. proc' \in [Runs -> Process]
    BY IdleOK, Types, ChangeOneProcess DEF Complete, Returns
  <2> QED  BY <2>1 DEF Complete, Works
<1>2. TypeOK'
  BY <1>1, CompleteFacts DEF IInv, TypeOK, project
<1>3. RoundsOK'
  BY <1>1 DEF IInv, RoundsOK, project
<1>4. TimelineOK'
  <2>1. CASE k = "composer"
    BY <1>1, <2>1, CompleteFacts, TwoSkills DEF IInv, TimelineOK, Resting, project
  <2>2. CASE k = "timeline"
    <3>1. receipts = {} => open \subseteq 1..lane'["timeline"].target
      BY <2>2, CompleteFacts DEF IInv, TimelineOK
    <3>2. ASSUME receipts = {}, ~lane'["timeline"].pending, NEW x \in open PROVE FALSE
      <4>1. /\ snap["timeline"].last \in Nat /\ snap["timeline"].source \in Nat
            /\ lane["timeline"].target \in Nat /\ x \in Nat /\ 1 <= x
        BY Types, TwoSkills, LaneFacts, ProjectFacts
      <4>2. x <= lane["timeline"].target /\ lane["timeline"].target <= snap["timeline"].source
        BY <2>2, <3>1, <3>2, <4>1, CompleteFacts
      <4>3. x > snap["timeline"].last
        BY <1>1, <2>2, <4>1 DEF Holds, IInv, SnapshotsOK
      <4>4. x \in Uncovered("timeline")
        BY <4>1, <4>2, <4>3 DEF Uncovered
      <4> QED  BY <1>1, <2>2, <4>4
    <3> QED  BY <1>1, <3>1, <3>2 DEF TimelineOK, Resting, project
  <2> QED  BY <2>1, <2>2 DEF Skills
<1>5. SnapshotsOK'
  <2>1. CASE k = "timeline"
    BY <1>1, <2>1, CompleteFacts, TwoSkills DEF IInv, SnapshotsOK, Skills, project
  <2>2. CASE k = "composer"
    BY <1>1, <2>2, CompleteFacts, TwoSkills DEF IInv, SnapshotsOK, Skills, project
  <2> QED  BY <2>1, <2>2 DEF Skills
<1>6. ComposerOK'
  <2>1. CASE k = "timeline"
    BY <1>1, <2>1, CompleteFacts, TwoSkills DEF IInv, ComposerOK, Exists, Resting, project
  <2>2. CASE k = "composer"
    <3>1. Exists("composer")' <=> Exists("composer")
      BY <2>2, CompleteFacts DEF Exists
    <3>2. ASSUME Exists("composer"), "edit" \notin receipts
          PROVE  /\ lane'["composer"].target >= edited.source
                 /\ Resting("composer")' =>
                      /\ lane'["composer"].done >= edited.source
                      /\ lane'["composer"].doneEvent >= edited.event
      <4>1. /\ lane["composer"].target \in Nat /\ snap["composer"].source \in Nat
            /\ edited.source \in Nat
        BY Types, TwoSkills, LaneFacts, ProjectFacts
      <4>2. lane["composer"].target >= edited.source /\ edited.event <= event
        BY <3>2 DEF IInv, ComposerOK
      <4>3. lane'["composer"].doneEvent = event
        BY <1>1, <2>2, CompleteFacts DEF Holds
      <4>4. event \in Nat /\ edited.event \in Nat
        BY Types, ProjectFacts
      <4> QED  BY <2>2, <4>1, <4>2, <4>3, <4>4, CompleteFacts DEF Resting
    <3> QED  BY <1>1, <3>1, <3>2 DEF IInv, ComposerOK, project
  <2> QED  BY <2>1, <2>2 DEF Skills
<1> QED  BY <1>2, <1>3, <1>4, <1>5, <1>6 DEF IInv


-----------------------------------------------------------------------------
(* Every step.                                                             *)

LEMMA WorkStep ==
  ASSUME IInv, NEW r \in Runs, Work(r)
  PROVE  IInv'
<1>1. ASSUME NEW k \in Skills, ClaimLane(r, k) PROVE IInv'
  BY <1>1, ClaimLaneStep
<1>2. CASE CommitPage(r)
  BY <1>2, CommitPageStep
<1>3. CASE CommitSection(r)
  BY <1>3, CommitSectionStep
<1>4. ASSUME NEW k \in Skills, Complete(r, k) PROVE IInv'
  BY <1>4, CompleteStep
<1>5. ASSUME NEW k \in Skills, YieldLane(r, k) PROVE IInv'
  BY <1>5, YieldLaneStep
<1>6. ASSUME NEW k \in Skills, Abandon(r, k) PROVE IInv'
  BY <1>6, AbandonStep
<1>7. CASE Conclude(r)
  BY <1>7, ConcludeStep
<1>8. CASE FinishAgent(r)
  BY <1>8, FinishAgentStep
<1> QED  BY <1>1, <1>2, <1>3, <1>4, <1>5, <1>6, <1>7, <1>8 DEF Work

LEMMA NextIInv ==
  ASSUME IInv, [Next]_vars
  PROVE  IInv'
<1>1. CASE Accept
  BY <1>1, AcceptStep
<1>2. CASE Round
  BY <1>2, RoundStep
<1>3. ASSUME NEW q \in 1..MaxSource, NEW withdraw \in BOOLEAN, Change(q, withdraw) PROVE IInv'
  BY <1>3, ChangeStep
<1>4. CASE Correct
  BY <1>4, CorrectStep
<1>5. CASE Detach
  BY <1>5, DetachStep
<1>6. CASE Restrict
  BY <1>6, RestrictStep
<1>7. ASSUME NEW k \in Skills, Retry(k) PROVE IInv'
  BY <1>7, RetryStep
<1>8. ASSUME NEW kind \in {"turn", "edit"}, Deliver(kind) PROVE IInv'
  BY <1>8, DeliverStep
<1>9. CASE Dispatch
  BY <1>9, DispatchStep
<1>10. ASSUME NEW r \in Runs, ClaimAgent(r) PROVE IInv'
  BY <1>10, ClaimAgentStep
<1>11. ASSUME NEW r \in Runs, Work(r) PROVE IInv'
  BY <1>11, WorkStep
<1>12. ASSUME NEW r \in Runs, LapseAgent(r) PROVE IInv'
  BY <1>12, LapseAgentStep
<1>13. ASSUME NEW r \in Runs, Die(r) PROVE IInv'
  BY <1>13, DieStep
<1>14. ASSUME NEW r \in Runs, NEW k \in Skills, FailLane(r, k) PROVE IInv'
  BY <1>14, FailLaneStep
<1>15. ASSUME NEW r \in Runs, NEW k \in Skills, LapseLane(r, k) PROVE IInv'
  BY <1>15, LapseLaneStep
<1>16. CASE UNCHANGED vars
  BY <1>16 DEF vars, project, IInv, TypeOK, RoundsOK, TimelineOK, SnapshotsOK, ComposerOK, Exists, Resting
<1>17. ASSUME NEW r \in Runs, Pause(r) PROVE IInv'
  BY <1>17, PauseStep
<1> QED
  BY <1>1, <1>2, <1>3, <1>4, <1>5, <1>6, <1>7, <1>8, <1>9, <1>10, <1>11, <1>12, <1>13, <1>14,
     <1>15, <1>16, <1>17 DEF Next

\* The inductive invariant holds in every reachable state: what is open stays
\* within the target of a lane that will still run, snapshots have passed only
\* testimony that is extracted, and a correction stays ahead of a composer that
\* has not composed it, until the receipt that tells of it is delivered.
THEOREM Invariance == Spec => []IInv
<1>1. Init => IInv
  BY InitIInv
<1>2. IInv /\ [Next]_vars => IInv'
  BY NextIInv
<1> QED  BY <1>1, <1>2, PTL DEF Spec

\* Every lane, snapshot, coordinator row and process keeps its shape, and
\* attempts stay within the three that the claims allow.
THEOREM TypesHold == Spec => []TypeOK
<1>1. IInv => TypeOK
  BY DEF IInv
<1> QED  BY <1>1, Invariance, PTL

-----------------------------------------------------------------------------
(* What is shown as finished.                                              *)

\* memoir_lane_progress calls a lane finished only when it is at rest.
LEMMA FinishedRests ==
  ASSUME TypeOK, NEW k \in Skills, State(k) = "finished"
  PROVE  Resting(k)
<1>1. lane[k].attempts \in Nat /\ lane[k].live \in BOOLEAN
  BY LaneFacts
<1>2. MaxAttempts \in Nat
  BY Numbers
<1>3. ~Running(k)
  BY DEF State
<1>4. lane[k].attempts < MaxAttempts
  BY <1>1, <1>2, <1>3 DEF State
<1>5. ~Runnable(k)
  BY <1>3, <1>4 DEF State
<1> QED  BY <1>1, <1>3, <1>5 DEF Running, Runnable, Resting

\* The narrator is never told that a lane has finished while testimony it
\* accepted is unread or a correction it delivered is not composed, however
\* receipts, claims, half-finished runs, yields, lapses and deaths interleave.
THEOREM FinishedHolds == Spec => []FinishedIsTrue
<1>1. ASSUME IInv PROVE FinishedMeansExtracted
  BY <1>1, FinishedRests, TwoSkills DEF FinishedMeansExtracted, IInv, TimelineOK
<1>2. ASSUME IInv PROVE CorrectionsAreComposed
  BY <1>2, FinishedRests, TwoSkills DEF CorrectionsAreComposed, IInv, ComposerOK
<1>3. IInv => FinishedIsTrue
  BY <1>1, <1>2 DEF FinishedIsTrue
<1> QED  BY <1>3, Invariance, PTL

-----------------------------------------------------------------------------
(* What a composition and a batch end with.                                *)

\* A composition that is given back together with its snapshot was completed:
\* nothing within its frontier waits for extraction, and it has read the events
\* of this moment.
LEMMA CompositionStep ==
  ASSUME IInv, [Next]_vars,
         lane["composer"].token # NoRun, lane'["composer"].token = NoRun,
         snap'["composer"] # snap["composer"]
  PROVE  /\ open' \cap (1..lane'["composer"].done) = {}
         /\ lane'["composer"].doneEvent = event'
<1>1. \/ \E r \in Runs, k \in Skills : Complete(r, k)
      \/ \E r \in Runs, k \in Skills : ClaimLane(r, k)
  <2>1. lane' # lane /\ snap' # snap
    OBVIOUS
  <2>2. ~Accept /\ ~Round /\ ~Dispatch
    BY <2>1 DEF Accept, Round, Dispatch
  <2>3. ~Correct /\ ~Detach /\ ~Restrict /\ \A q \in 1..MaxSource, w \in BOOLEAN : ~Change(q, w)
    BY <2>1 DEF Correct, Detach, Restrict, Change
  <2>4. /\ \A k \in Skills : ~Retry(k)
        /\ \A kind \in {"turn", "edit"} : ~Deliver(kind)
    BY <2>1 DEF Retry, Deliver
  <2>5. \A r \in Runs : /\ ~ClaimAgent(r) /\ ~LapseAgent(r) /\ ~Die(r) /\ ~Pause(r) /\ ~CommitPage(r)
                        /\ ~CommitSection(r) /\ ~Conclude(r) /\ ~FinishAgent(r)
    BY <2>1 DEF ClaimAgent, LapseAgent, Die, Pause, CommitPage, CommitSection, Conclude, FinishAgent
  <2>6. \A r \in Runs, k \in Skills :
          ~FailLane(r, k) /\ ~LapseLane(r, k) /\ ~YieldLane(r, k) /\ ~Abandon(r, k)
    BY <2>1 DEF FailLane, LapseLane, YieldLane, Abandon
  <2>7. ~UNCHANGED vars
    BY <2>1 DEF vars
  <2> QED  BY <2>2, <2>3, <2>4, <2>5, <2>6, <2>7 DEF Next, Work
<1>2. ASSUME NEW r \in Runs, NEW k \in Skills, Complete(r, k)
      PROVE  /\ open' \cap (1..lane'["composer"].done) = {}
             /\ lane'["composer"].doneEvent = event'
  <2>1. k = "composer"
    BY <1>2, CompleteFacts, TwoSkills
  <2>2. Holds(r, "composer") /\ UNCHANGED project
    BY <1>2, <2>1 DEF Complete, Works
  <2>3. lane'["composer"].done = snap["composer"].source /\ lane'["composer"].doneEvent = snap["composer"].event
    BY <1>2, <2>1, CompleteFacts
  <2>4. snap["composer"].pending /\ snap["composer"].event = event
    BY <2>2 DEF Holds
  <2> QED  BY <2>2, <2>3, <2>4 DEF IInv, SnapshotsOK, project
<1>3. ASSUME NEW r \in Runs, NEW k \in Skills, ClaimLane(r, k) PROVE FALSE
  <2>1. CASE k = "composer"
    BY <1>3, <2>1, Types, TwoSkills, OwnerOK DEF ClaimLane
  <2>2. CASE k = "timeline"
    BY <1>3, <2>2, Types, TwoSkills DEF ClaimLane
  <2> QED  BY <2>1, <2>2 DEF Skills
<1> QED  BY <1>1, <1>2, <1>3

\* Only finish_memoir_background_agent ends a batch, by its own account of the
\* sources and never by the run's word.
LEMMA BatchStep ==
  ASSUME IInv, [Next]_vars, agent.batch, ~agent'.batch
  PROVE  agent.authority # authority \/ open \cap (1..agent.high) = {}
<1>1. PICK r \in Runs : FinishAgent(r)
  <2>1. agent' # agent
    OBVIOUS
  <2>2. ~Accept /\ ~Round /\ ~Dispatch
    BY <2>1, Types DEF Accept, Round, Dispatch, Queued, Agent
  <2>3. ~Correct /\ ~Detach /\ ~Restrict /\ \A q \in 1..MaxSource, w \in BOOLEAN : ~Change(q, w)
    BY <2>1 DEF Correct, Detach, Restrict, Change
  <2>4. \A k \in Skills : ~Retry(k)
    BY <2>1, Types DEF Retry, Agent
  <2>5. \A kind \in {"turn", "edit"} : ~Deliver(kind)
    BY <2>1 DEF Deliver
  <2>6. \A r \in Runs : ~ClaimAgent(r) /\ ~LapseAgent(r) /\ ~Die(r) /\ ~Pause(r)
    BY <2>1, Types DEF ClaimAgent, LapseAgent, Die, Pause, Agent
  <2>7. \A r \in Runs : ~CommitPage(r) /\ ~CommitSection(r) /\ ~Conclude(r)
    BY <2>1, Types DEF CommitPage, CommitSection, Conclude, Agent
  <2>8. \A r \in Runs, k \in Skills :
          /\ ~FailLane(r, k) /\ ~LapseLane(r, k) /\ ~YieldLane(r, k) /\ ~Abandon(r, k)
          /\ ~ClaimLane(r, k) /\ ~Complete(r, k)
    BY <2>1 DEF FailLane, LapseLane, YieldLane, Abandon, ClaimLane, Complete
  <2>9. ~UNCHANGED vars
    BY <2>1 DEF vars
  <2> QED  BY <2>2, <2>3, <2>4, <2>5, <2>6, <2>7, <2>8, <2>9 DEF Next, Work
<1> DEFINE complete == BatchComplete(proc[r].success)
           kept == ~complete /\ ~(agent.authority # authority)
<1>2. agent.token = r => agent'.batch = kept
  BY <1>1, Types DEF FinishAgent, Agent
<1>3. agent.token # r => agent' = agent
  BY <1>1 DEF FinishAgent
<1>4. ~kept
  BY <1>2, <1>3
<1>5. complete => open \cap (1..agent.high) = {}
  BY DEF BatchComplete
<1> QED  BY <1>4, <1>5

\* A composition that completes covers the events of that moment and only
\* extracted testimony, and a batch is left behind only when its sources are
\* extracted or its authority was replaced: a run can neither compose ahead of
\* the timeline nor skip testimony by reporting success.
THEOREM BatchesWhole == Spec => BatchesAreWhole
<1>1. IInv /\ [Next]_vars =>
        [lane["composer"].token # NoRun /\ lane'["composer"].token = NoRun /\ snap'["composer"] # snap["composer"]
         => /\ open' \cap (1..lane'["composer"].done) = {}
            /\ lane'["composer"].doneEvent = event']_vars
  BY CompositionStep
<1>2. IInv /\ [Next]_vars =>
        [agent.batch /\ ~agent'.batch
         => agent.authority # authority \/ open \cap (1..agent.high) = {}]_vars
  BY BatchStep
<1>3. Spec => CompositionCoversTestimony
  BY <1>1, Invariance, PTL DEF Spec, CompositionCoversTestimony
<1>4. Spec => BatchesAreNotSkipped
  BY <1>2, Invariance, PTL DEF Spec, BatchesAreNotSkipped
<1> QED  BY <1>3, <1>4 DEF BatchesAreWhole

=============================================================================
