---------------------------- MODULE MemoirLanes ----------------------------
(***************************************************************************)
(* How accepted testimony becomes timeline events and composed chapters in *)
(* the background: the lanes of a project (user_memoir_lane), the receipts *)
(* that wake them, and the coordinator (user_memoir_background_agent) that *)
(* runs them over a frozen batch of sources.                               *)
(*                                                                         *)
(* Processes claim the coordinator's row and, under it, one lane at a      *)
(* time.  Both claims are leases: a process may die, or stall past its     *)
(* lease and go on.  Everything else is one transaction under the lock of  *)
(* the project row.  A source is one page of the timeline lane, whatever   *)
(* its length.                                                             *)
(***************************************************************************)
EXTENDS Naturals, FiniteSets

CONSTANTS
  Runs,          \* processes executing memoir.execute_background_agent
  NoRun,
  MaxAttempts,   \* claims without progress before a retry is required: 3
  Cadence,       \* completed rounds for each milestone
  MaxSource,     \* bound: source_sequence, the last left to edits and corrections
  MaxEvent,      \* bound: event_sequence, the last left to corrections
  MaxAuthority,  \* bound: changes of policy_epoch or preference_revision
  MaxFaults,     \* bound: failed generations, stalls and deaths
  MaxTrouble     \* bound: such changes and faults together

ASSUME RunsAssumption == NoRun \notin Runs
ASSUME BoundsAssumption ==
  /\ {MaxAttempts, Cadence, MaxSource, MaxEvent} \subseteq Nat \ {0}
  /\ {MaxAuthority, MaxFaults, MaxTrouble} \subseteq Nat

VARIABLES
  source,    \* source_sequence of the project
  event,     \* event_sequence
  authority, \* policy_epoch and preference_revision
  active,    \* sequences of the sources that are not withdrawn
  open,      \* those whose processing_status is not "succeeded"
  turn,      \* the source of the turn that is being answered, or 0
  ordinal,   \* the completed round of the source with this sequence, or 0
  receipts,  \* kinds of undelivered receipts in user_private_draft_outbox
  lane,      \* user_memoir_lane, by skill
  snap,      \* the pending snapshot of a lane
  agent,     \* user_memoir_background_agent
  proc,      \* what a process is doing
  faults,
  edited     \* the sequences the latest correction reached

project == <<source, event, authority, active, open, turn, ordinal, edited>>
vars == <<project, receipts, lane, snap, agent, proc, faults>>

-----------------------------------------------------------------------------
Skills == {"timeline", "composer"}
Sources == 0..MaxSource
Events == 0..MaxEvent
Authorities == 0..MaxAuthority
Owner == Runs \cup {NoRun}

Lane == [pending : BOOLEAN, target : Sources, targetEvent : Events, milestone : Sources,
         token : Owner, live : BOOLEAN, attempts : 0..MaxAttempts,
         done : Sources, doneEvent : Events, doneAuthority : Authorities]
Snapshot == [pending : BOOLEAN, authority : Authorities, source : Sources, event : Events,
             last : Sources \cup Events]
Agent == [exists : BOOLEAN, pending : BOOLEAN, token : Owner, live : BOOLEAN,
          attempts : 0..MaxAttempts, target : Sources, batch : BOOLEAN, high : Sources,
          rounds : Sources, authority : Authorities, progressed : BOOLEAN]
Process == [pc : {"idle", "agent", "lane", "ending"}, skill : Skills, called : BOOLEAN,
            success : BOOLEAN]

NoSnapshot == [pending |-> FALSE, authority |-> 0, source |-> 0, event |-> 0, last |-> 0]
Idle == [pc |-> "idle", skill |-> "timeline", called |-> FALSE,
         success |-> FALSE]

Init ==
  /\ source = 0 /\ event = 0 /\ authority = 0
  /\ active = {} /\ open = {} /\ turn = 0
  /\ ordinal = [q \in 1..MaxSource |-> 0]
  /\ receipts = {}
  /\ lane = [k \in Skills |->
       [pending |-> FALSE, target |-> 0, targetEvent |-> 0, milestone |-> 0, token |-> NoRun,
        live |-> FALSE, attempts |-> 0, done |-> 0, doneEvent |-> 0, doneAuthority |-> 0]]
  /\ snap = [k \in Skills |-> NoSnapshot]
  /\ agent = [exists |-> FALSE, pending |-> FALSE, token |-> NoRun, live |-> FALSE,
              attempts |-> 0, target |-> 0, batch |-> FALSE, high |-> 0, rounds |-> 0,
              authority |-> 0, progressed |-> FALSE]
  /\ proc = [r \in Runs |-> Idle]
  /\ faults = 0
  /\ edited = [source |-> 0, event |-> 0]

Largest(S) == CHOOSE n \in S : \A m \in S : m <= n
Later(n, m) == IF n >= m THEN n ELSE m

\* Completed rounds whose source is not beyond a frontier.
RoundsWithin(frontier) == Largest({0} \cup {ordinal[q] : q \in 1..frontier})
Milestone == (RoundsWithin(MaxSource) \div Cadence) * Cadence

Exists(k) == lane[k].target > 0
Running(k) == lane[k].token # NoRun /\ lane[k].live
Runnable(k) == lane[k].pending \/ (lane[k].token # NoRun /\ ~lane[k].live)

\* memoir_lane_progress: what the narrator is shown.
State(k) ==
  CASE Running(k) -> "running"
    [] ~Running(k) /\ lane[k].attempts >= MaxAttempts -> "retry_required"
    [] ~Running(k) /\ lane[k].attempts < MaxAttempts /\ Runnable(k) -> "pending"
    [] OTHER -> "finished"

Fault == faults < MaxFaults /\ authority + faults < MaxTrouble /\ faults' = faults + 1

-----------------------------------------------------------------------------
(* The narrator.                                                           *)

\* Fences of any kind change: pending snapshots become stale.
Fence ==
  /\ authority < MaxAuthority /\ authority + faults < MaxTrouble
  /\ authority' = authority + 1
  /\ snap' = [k \in Skills |-> NoSnapshot]
  /\ turn' = 0

\* An accepted turn wakes the timeline lane in its own transaction.
Accept ==
  /\ source < MaxSource - 1
  /\ turn = 0
  /\ source' = source + 1
  /\ turn' = source'
  /\ active' = active \cup {source'}
  /\ open' = open \cup {source'}
  /\ receipts' = receipts \cup {"turn"}
  /\ lane' = [lane EXCEPT !["timeline"] =
       [@ EXCEPT !.pending = TRUE, !.target = source', !.attempts = 0]]
  /\ UNCHANGED <<event, authority, ordinal, snap, agent, proc, faults, edited>>

\* Its reply is committed: a round is completed.
Round ==
  /\ turn # 0
  /\ turn' = 0
  /\ ordinal' = [ordinal EXCEPT ![turn] = RoundsWithin(MaxSource) + 1]
  /\ receipts' = receipts \cup {"turn"}
  /\ UNCHANGED <<source, event, authority, active, open, lane, snap, agent, proc, faults, edited>>

\* Mutant: what was withdrawn keeps waiting for its extraction.
StillOpen_Withdrawn(q, others, withdraw) == ((open \cup others) \ {q}) \cup {source + 1}

\* What waits for extraction when a source becomes another version, or nothing.
StillOpen(q, others, withdraw) ==
  ((open \cup others) \ {q}) \cup (IF withdraw THEN {} ELSE {source + 1})

\* Edit or withdraw a source.  It gets a new sequence and keeps its round; if
\* it supported an event, other testimony of that event is open again.
Change(q, withdraw) ==
  /\ q \in active
  /\ source < MaxSource
  /\ Fence
  /\ source' = source + 1
  /\ active' = (active \ {q}) \cup (IF withdraw THEN {} ELSE {source'})
  /\ ordinal' = [ordinal EXCEPT ![source'] = ordinal[q], ![q] = 0]
  /\ \E supported \in BOOLEAN, others \in SUBSET (active \ (open \cup {q})) :
       /\ supported => event \in 1..(MaxEvent - 1) /\ q \notin open
       /\ ~supported => others = {}
       /\ event' = IF supported THEN event + 1 ELSE event
       /\ open' = StillOpen(q, others, withdraw)
  /\ receipts' = receipts \cup {"edit"}
  /\ edited' = [source |-> source', event |-> event']
  /\ UNCHANGED <<lane, agent, proc, faults>>

\* Correct an event: the statement is a source that needs no extraction.
Correct ==
  /\ event \in 1..(MaxEvent - 1)
  /\ source < MaxSource
  /\ Fence
  /\ source' = source + 1
  /\ event' = event + 1
  /\ active' = active \cup {source'}
  /\ receipts' = receipts \cup {"turn", "edit"}
  /\ edited' = [source |-> source', event |-> event']
  /\ UNCHANGED <<open, ordinal, lane, agent, proc, faults>>

\* Detach a source from an event: the event's other sources are open again.
Detach ==
  /\ event \in 1..(MaxEvent - 1)
  /\ Fence
  /\ event' = event + 1
  /\ \E q \in active \ open, others \in SUBSET (active \ open) :
       q \notin others /\ open' = open \cup others
  /\ receipts' = receipts \cup {"edit"}
  /\ edited' = [source |-> edited.source, event |-> event']
  /\ UNCHANGED <<source, active, ordinal, lane, agent, proc, faults>>

\* A preference or policy changes.
Restrict ==
  /\ Fence
  /\ UNCHANGED <<source, event, active, open, ordinal, receipts, lane, agent, proc, faults, edited>>

\* retry_user_memoir_lane, which the client offers when work is shown as failed:
\* the lane, and with an exhausted coordinator every exhausted lane, starts again.
Retried(k) == [lane[k] EXCEPT !.attempts = 0, !.pending = TRUE, !.token = NoRun, !.live = FALSE]

Retry(k) ==
  /\ Exists(k)
  /\ ~Running(k)
  /\ \E j \in Skills : State(j) = "retry_required"
  /\ lane' = [j \in Skills |->
       IF j = k \/ (/\ agent.pending /\ agent.attempts >= MaxAttempts
                    /\ lane[j].pending /\ lane[j].attempts >= MaxAttempts /\ ~Running(j))
       THEN Retried(j) ELSE lane[j]]
  /\ agent' = IF agent.exists /\ ~(agent.token # NoRun /\ agent.live)
              THEN [agent EXCEPT !.attempts = 0, !.pending = TRUE] ELSE agent
  /\ UNCHANGED <<project, receipts, snap, proc, faults>>

-----------------------------------------------------------------------------
(* The dispatcher.                                                         *)

\* queue_memoir_receipt, for a lane that exists or that it creates.
QueuedTimeline ==
  LET l == lane["timeline"]
  IN [l EXCEPT !.pending = @ \/ open # {} \/ l.target = 0,
               !.attempts = IF source > l.target THEN 0 ELSE @,
               !.target = Later(@, source)]

\* Mutant: corrections wait for the next milestone.
QueuedComposer_AtMilestones(kind) ==
  LET l == lane["composer"]
  IN [l EXCEPT !.pending = @ \/ l.target = 0 \/ Milestone > l.milestone,
               !.attempts = IF Milestone > l.milestone \/ event > l.targetEvent THEN 0 ELSE @,
               !.target = source, !.targetEvent = event, !.milestone = Milestone]

QueuedComposer(kind) ==
  LET l == lane["composer"]
  IN [l EXCEPT !.pending = \/ @ \/ l.target = 0 \/ Milestone > l.milestone
                           \/ kind = "edit" /\ (event > l.doneEvent \/ source > l.done),
               !.attempts = IF Milestone > l.milestone \/ event > l.targetEvent THEN 0 ELSE @,
               !.target = source, !.targetEvent = event, !.milestone = Milestone]

Deliver(kind) ==
  /\ kind \in receipts
  /\ receipts' = receipts \ {kind}
  /\ lane' = [lane EXCEPT !["timeline"] = QueuedTimeline,
       !["composer"] = IF Milestone > 0 THEN QueuedComposer(kind) ELSE @]
  /\ UNCHANGED <<project, snap, agent, proc, faults>>

\* pending_memoir_background_agents: the coordinator is queued while a lane can
\* run.  An open batch keeps its attempts.
Queued ==
  IF ~agent.exists THEN [agent EXCEPT !.exists = TRUE, !.pending = TRUE, !.target = source]
  ELSE [agent EXCEPT !.pending = @ \/ agent.token = NoRun \/ source > agent.target,
                     !.attempts = IF ~agent.batch /\ source > agent.target THEN 0 ELSE @,
                     !.target = Later(@, source)]

Dispatch ==
  /\ \E k \in Skills : Runnable(k) /\ lane[k].attempts < MaxAttempts
  /\ agent' = Queued
  /\ UNCHANGED <<project, receipts, lane, snap, proc, faults>>

-----------------------------------------------------------------------------
(* A process under its fences.                                             *)

Fenced(r) == agent.token = r /\ agent.live /\ agent.authority = authority
Holds(r, k) ==
  /\ lane[k].token = r /\ lane[k].live
  /\ snap[k].pending /\ snap[k].authority = authority
  /\ k = "composer" => snap[k].event = event

\* The scope of the batch, and the lanes of it that are offered to the run.
InBatch(k) ==
  IF k = "timeline" THEN lane[k].done < agent.high \/ lane[k].target <= agent.high
  ELSE lane[k].milestone <= agent.rounds
Listed == {k \in Skills : InBatch(k) /\ Runnable(k) /\ lane[k].attempts < MaxAttempts}

\* A batch that is open is resumed as it was, under today's authority.
ClaimAgent(r) ==
  /\ proc[r].pc = "idle"
  /\ agent.exists
  /\ agent.pending \/ agent.token # NoRun
  /\ ~(agent.token # NoRun /\ agent.live)
  /\ agent.attempts < MaxAttempts
  /\ agent' = [agent EXCEPT
       !.token = r, !.live = TRUE, !.pending = FALSE, !.attempts = @ + 1, !.batch = TRUE,
       !.high = IF agent.batch THEN @ ELSE source,
       !.rounds = IF agent.batch THEN @ ELSE RoundsWithin(MaxSource),
       !.authority = authority, !.progressed = FALSE]
  /\ proc' = [proc EXCEPT ![r] = [Idle EXCEPT !.pc = "agent"]]
  /\ UNCHANGED <<project, receipts, lane, snap, faults>>

\* Mutant: composition does not wait for the testimony within its frontier.
Composable_RoundsOnly(frontier) == RoundsWithin(frontier) >= lane["composer"].milestone

\* A composition waits for its rounds and for the testimony within its frontier.
Composable(frontier) ==
  /\ RoundsWithin(frontier) >= lane["composer"].milestone
  /\ open \cap (1..frontier) = {}

Claimable(k) == k \in Listed /\ (k = "composer" => Composable(agent.high))

\* A pending snapshot is resumed unless the events changed under a composition.
Resumable(k) == snap[k].pending /\ (k = "composer" => snap[k].event = event)

ClaimLane(r, k) ==
  /\ proc[r].pc = "agent"
  /\ Fenced(r)
  /\ Claimable(k)
  /\ lane' = [lane EXCEPT ![k] =
       [@ EXCEPT !.token = r, !.live = TRUE, !.pending = FALSE,
                !.attempts = lane[k].attempts + 1]]
  /\ snap' = [snap EXCEPT ![k] = IF Resumable(k) THEN @ ELSE
       [pending |-> TRUE, authority |-> authority, source |-> agent.high,
        event |-> IF k = "composer" THEN event ELSE 0,
        last |-> IF lane[k].doneAuthority = authority THEN lane[k].doneEvent ELSE 0]]
  /\ proc' = [proc EXCEPT ![r] = [@ EXCEPT !.pc = "lane", !.skill = k]]
  /\ UNCHANGED <<project, receipts, agent, faults>>

\* A lane call is over.
Returns(r) == proc' = [proc EXCEPT ![r] = [Idle EXCEPT !.pc = "agent", !.called = TRUE]]

At(r, k) == proc[r].pc = "lane" /\ proc[r].skill = k
Works(r, k) == At(r, k) /\ Fenced(r) /\ Holds(r, k)

\* What a snapshot still has to cover.
Uncovered(k) == IF k = "timeline" THEN open \cap ((snap[k].last + 1)..snap[k].source)
                ELSE (snap[k].last + 1)..snap[k].event

\* One page of testimony: the source is extracted, with or without an event.
CommitPage(r) ==
  /\ Works(r, "timeline")
  /\ \E q \in Uncovered("timeline") :
       /\ \A p \in Uncovered("timeline") : q <= p
       /\ open' = open \ {q}
       /\ event' \in {event, event + 1} \cap 0..(MaxEvent - 1)
       /\ snap' = [snap EXCEPT !["timeline"] = [@ EXCEPT !.last = q]]
  /\ receipts' = receipts \cup {"turn"}
  /\ agent' = [agent EXCEPT !.progressed = TRUE]
  /\ UNCHANGED <<source, authority, active, turn, ordinal, edited, lane, proc, faults>>

\* One page of a composition.
CommitSection(r) ==
  /\ Works(r, "composer")
  /\ \E e \in Uncovered("composer") : snap' = [snap EXCEPT !["composer"] = [@ EXCEPT !.last = e]]
  /\ agent' = [agent EXCEPT !.progressed = TRUE]
  /\ UNCHANGED <<project, receipts, lane, proc, faults>>

\* The lane's row when its lease is given back.
Yielded(k) == [lane[k] EXCEPT !.token = NoRun, !.live = FALSE, !.pending = TRUE, !.attempts = 0]

\* Mutant: a completed lane forgets what arrived while it ran.
Completed_AsClaimed(k) ==
  LET covered == snap[k]
  IN [lane[k] EXCEPT !.token = NoRun, !.live = FALSE, !.attempts = 0, !.done = covered.source,
        !.doneEvent = covered.event, !.doneAuthority = covered.authority, !.pending = FALSE]

Completed(k) ==
  LET covered == snap[k]
  IN [lane[k] EXCEPT !.token = NoRun, !.live = FALSE, !.attempts = 0, !.done = covered.source,
        !.doneEvent = covered.event, !.doneAuthority = covered.authority,
        !.pending = \/ @ \/ lane[k].target > covered.source
                    \/ k = "composer" /\ lane[k].targetEvent > covered.event]

Complete(r, k) ==
  /\ Works(r, k)
  /\ Uncovered(k) = {}
  /\ lane' = [lane EXCEPT ![k] = Completed(k)]
  /\ snap' = [snap EXCEPT ![k] = NoSnapshot]
  /\ Returns(r)
  /\ UNCHANGED <<project, receipts, agent, faults>>

\* The next original is chosen anew, or a quantum of pages is over.
YieldLane(r, k) ==
  /\ Works(r, k)
  /\ agent.progressed
  /\ lane' = [lane EXCEPT ![k] = Yielded(k)]
  /\ Returns(r)
  /\ UNCHANGED <<project, receipts, snap, agent, faults>>

\* The provider or a review fails; only the lane's own lease is asked for.
FailLane(r, k) ==
  /\ At(r, k)
  /\ lane[k].token = r /\ lane[k].live
  /\ Fault
  /\ lane' = [lane EXCEPT ![k] = [@ EXCEPT !.token = NoRun, !.live = FALSE, !.pending = TRUE]]
  /\ Returns(r)
  /\ UNCHANGED <<project, receipts, snap, agent>>

\* A fence no longer holds: the lane, if still held, is given back and the run
\* ends.
Abandon(r, k) ==
  /\ At(r, k)
  /\ ~(Fenced(r) /\ Holds(r, k))
  /\ lane' = IF lane[k].token = r /\ lane[k].live
             THEN [lane EXCEPT ![k] = Yielded(k)] ELSE lane
  /\ proc' = [proc EXCEPT ![r] = [Idle EXCEPT !.pc = "ending"]]
  /\ UNCHANGED <<project, receipts, snap, agent, faults>>

\* A lane that failed is not offered again before its time.
Delayed(k) == lane[k].token = NoRun /\ lane[k].attempts > 0

\* What the run may report: success when nothing was offered it any more.
Reports(r) == {Fenced(r) /\ Listed = {}} \cup {Fenced(r) /\ \A k \in Listed : Delayed(k)}

\* The run ends: nothing is left, or it stops before that, because a fence no
\* longer holds, nothing can be claimed, its calls are used up or it fails.
Conclude(r) ==
  /\ proc[r].pc = "agent"
  /\ IF ~Fenced(r) \/ proc[r].called \/ \A k \in Skills : ~Claimable(k)
     THEN UNCHANGED faults ELSE Fault
  /\ \E success \in Reports(r) :
       proc' = [proc EXCEPT ![r] = [Idle EXCEPT !.pc = "ending", !.success = success]]
  /\ UNCHANGED <<project, receipts, lane, snap, agent>>

\* A run that the policy review holds up ends at once, and as a success.
Pause(r) ==
  /\ proc[r].pc = "agent"
  /\ Fault
  /\ proc' = [proc EXCEPT ![r] = [Idle EXCEPT !.pc = "ending", !.success = TRUE]]
  /\ UNCHANGED <<project, receipts, lane, snap, agent>>

Wanted(k) == lane[k].pending \/ lane[k].token # NoRun

\* Mutant: a batch is over when the run says so.
BatchComplete_AsTold(success) == success

\* The run's word is not enough: what the batch covers decides.
BatchComplete(success) ==
  /\ success
  /\ agent.authority = authority
  /\ open \cap (1..agent.high) = {}
  /\ \A k \in Skills : InBatch(k) => ~Wanted(k)

\* finish_memoir_background_agent asks for the token only, not for the lease.
\* What the next claim overwrites is cleared.
FinishAgent(r) ==
  /\ proc[r].pc = "ending"
  /\ LET complete == BatchComplete(proc[r].success)
         changed == agent.authority # authority
         kept == ~complete /\ ~changed
         reset == proc[r].success \/ changed \/ agent.progressed
         exhausted == ~reset /\ ~complete /\ agent.attempts >= MaxAttempts
         after == [k \in Skills |->
           IF exhausted /\ Wanted(k) /\ ~Running(k)
           THEN [lane[k] EXCEPT !.attempts = MaxAttempts, !.pending = TRUE, !.token = NoRun,
                                !.live = FALSE]
           ELSE lane[k]]
         blocked == \E k \in Skills : Wanted(k) /\ after[k].attempts >= MaxAttempts
         remaining == ~complete \/ agent.pending \/ agent.target > agent.high
                      \/ \E k \in Skills : Wanted(k)
     IN IF agent.token = r
        THEN /\ lane' = after
             /\ agent' = [agent EXCEPT
                  !.token = NoRun, !.live = FALSE,
                  !.attempts = IF blocked THEN MaxAttempts ELSE IF reset THEN 0 ELSE @,
                  !.pending = remaining,
                  !.batch = kept, !.high = IF kept THEN @ ELSE 0,
                  !.rounds = IF kept THEN @ ELSE 0, !.authority = 0, !.progressed = FALSE]
        ELSE UNCHANGED <<lane, agent>>
  /\ proc' = [proc EXCEPT ![r] = Idle]
  /\ UNCHANGED <<project, receipts, snap, faults>>

\* A process stalls: one of its leases ends and it goes on.
LapseAgent(r) ==
  /\ agent.token = r /\ agent.live
  /\ Fault
  /\ agent' = [agent EXCEPT !.live = FALSE]
  /\ UNCHANGED <<project, receipts, lane, snap, proc>>

LapseLane(r, k) ==
  /\ lane[k].token = r /\ lane[k].live
  /\ Fault
  /\ lane' = [lane EXCEPT ![k] = [@ EXCEPT !.live = FALSE]]
  /\ UNCHANGED <<project, receipts, snap, agent, proc>>

\* A process dies; its leases run out, which only others wait for.
Die(r) ==
  /\ proc[r].pc # "idle"
  /\ Fault
  /\ agent' = IF agent.token = r THEN [agent EXCEPT !.live = FALSE] ELSE agent
  /\ lane' = [k \in Skills |->
       IF lane[k].token = r THEN [lane[k] EXCEPT !.live = FALSE] ELSE lane[k]]
  /\ proc' = [proc EXCEPT ![r] = Idle]
  /\ UNCHANGED <<project, receipts, snap>>

Work(r) ==
  \/ \E k \in Skills : ClaimLane(r, k)
  \/ CommitPage(r)
  \/ CommitSection(r)
  \/ \E k \in Skills : Complete(r, k) \/ YieldLane(r, k) \/ Abandon(r, k)
  \/ Conclude(r)
  \/ FinishAgent(r)

Next ==
  \/ Accept
  \/ Round
  \/ \E q \in 1..MaxSource, withdraw \in BOOLEAN : Change(q, withdraw)
  \/ Correct
  \/ Detach
  \/ Restrict
  \/ \E k \in Skills : Retry(k)
  \/ \E kind \in {"turn", "edit"} : Deliver(kind)
  \/ Dispatch
  \/ \E r \in Runs : ClaimAgent(r) \/ Work(r) \/ Pause(r) \/ LapseAgent(r) \/ Die(r)
  \/ \E r \in Runs, k \in Skills : FailLane(r, k) \/ LapseLane(r, k)

Spec == Init /\ [][Next]_vars

\* The dispatcher polls, a turn is answered, a live process goes on until its
\* calls are used up, and the narrator asks again when that is offered.
FairSpec ==
  /\ Spec
  /\ WF_vars(Dispatch)
  /\ \A kind \in {"turn", "edit"} : WF_vars(Deliver(kind))
  /\ WF_vars(\E r \in Runs : ClaimAgent(r))
  /\ WF_vars(Round)
  /\ \A r \in Runs : WF_vars(Work(r)) /\ SF_vars(Conclude(r))
  /\ \A k \in Skills : WF_vars(Retry(k))

-----------------------------------------------------------------------------
(* Properties.                                                             *)

\* Every record has its shape, only what is active waits for its extraction,
\* and attempts stay within the three that the claims allow.
TypeOK ==
  /\ source \in Sources /\ event \in Events /\ authority \in Authorities
  /\ active \subseteq 1..source /\ open \subseteq active
  /\ turn \in 0..source
  /\ ordinal \in [1..MaxSource -> Sources]
  /\ receipts \subseteq {"turn", "edit"}
  /\ lane \in [Skills -> Lane]
  /\ snap \in [Skills -> Snapshot]
  /\ agent \in Agent
  /\ proc \in [Runs -> Process]
  /\ faults \in 0..MaxFaults
  /\ edited \in [source : Sources, event : Events]

\* The narrator is told that the timeline is finished only when every active
\* source has been extracted, once no receipt is waiting for the dispatcher:
\* turns, corrections and reopened testimony that arrive while a run holds the
\* lane, and runs that end half-way, are never lost from it.
FinishedMeansExtracted ==
  State("timeline") = "finished" /\ receipts = {} => open = {}

\* A correction that was delivered is composed before the composition is shown
\* as finished, however claims, completions and deliveries interleave.
CorrectionsAreComposed ==
  State("composer") = "finished" /\ Exists("composer") /\ "edit" \notin receipts
    => /\ lane["composer"].done >= edited.source
       /\ lane["composer"].doneEvent >= edited.event

\* What is shown as finished is: neither testimony nor a correction is left.
FinishedIsTrue == FinishedMeansExtracted /\ CorrectionsAreComposed

\* When a composition completes it covers the events of that moment, and every
\* source up to its frontier has been extracted into them.
CompositionCoversTestimony ==
  [][lane["composer"].token # NoRun /\ lane'["composer"].token = NoRun /\ snap'["composer"] # snap["composer"]
     => /\ open' \cap (1..lane'["composer"].done) = {}
        /\ lane'["composer"].doneEvent = event']_vars

\* A batch is left behind only when its sources are extracted or its authority
\* was replaced: a run cannot skip testimony by reporting success.
BatchesAreNotSkipped ==
  [][agent.batch /\ ~agent'.batch
     => agent.authority # authority \/ open \cap (1..agent.high) = {}]_vars

\* Batches and compositions end whole.
BatchesAreWhole == CompositionCoversTestimony /\ BatchesAreNotSkipped

\* "A coordinator failure pauses the project's required work together" (SQL
\* baseline, line 12330; tests/test_memoir_background_agent_postgres.py, line
\* 463, test_repeated_agent_failure_exposes_required_work_through_existing_
\* retry_state): when the coordinator has used up its attempts, the required
\* work is shown as retry_required, so that the narrator can ask again.
ExhaustedWorkIsShown ==
  /\ agent.exists /\ agent.token = NoRun /\ agent.attempts >= MaxAttempts
  /\ \E k \in Skills : Runnable(k)
  => \E k \in Skills : State(k) = "retry_required"

\* "Atlas keeps its active batch and drains later inputs" (SQL baseline, lines
\* 2494-2495): accepted testimony is eventually extracted.
TestimonyIsExtracted == (open # {}) ~> (open = {})
=============================================================================
