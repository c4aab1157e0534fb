----------------------------- MODULE ReplyTurn -----------------------------
(***************************************************************************)
(* One narrator turn in the API: run_lifetime_turn of                      *)
(* apps/api/lifetime_memory_runtime.py, the draft reply it may stream      *)
(* while the source's policy review still runs (parallel_reply.py), the    *)
(* queue and the guarded sends of lifetime_memory_transport.py, and the    *)
(* database functions whose locks and fences decide what may be saved or   *)
(* sent.                                                                   *)
(*                                                                         *)
(* The requests are the attempts of one client_turn_id, in any processes.  *)
(* Of a request run concurrently: the producer, its generation and review  *)
(* tasks, and the response that sends what the producer queued.  A guard   *)
(* holds the project's and the lease's row locks through the send, so that *)
(* a guarded send is one step; everything between two awaits is another.   *)
(*                                                                         *)
(* A request that streams no draft may open with the acknowledgement that   *)
(* the source's review wrote beside its decision, in this request or in an  *)
(* earlier one: text generated before the fence it is sent under.           *)
(*                                                                         *)
(* authority stands for what a fence compares: policy epoch, execution     *)
(* generation, preference revision and source revision.  A fence is the    *)
(* authority it was captured at, together with the request's lease token.  *)
(***************************************************************************)
EXTENDS Naturals, Sequences

CONSTANTS
  Attempts,     \* requests of the turn that get the lease
  Parallel,     \* MEMORY_SPARK_PARALLEL_POLICY_REVIEW
  MaxWrites,    \* bound: deltas and restarts of one generation
  MaxChanges,   \* bound: the owner's edits, withdrawals and preferences
  MaxFaults     \* bound: disconnections, crashes, stalls, failed calls

ASSUME AttemptsAssumption == Attempts \in Nat
ASSUME ParallelAssumption == Parallel \in BOOLEAN
ASSUME BoundsAssumption == MaxWrites \in Nat /\ MaxChanges \in Nat /\ MaxFaults \in Nat

\* The requests, numbered as they get the lease.
Requests == 1..Attempts
NoRequest == 0

VARIABLES
  \* the database
  holder,      \* whose token user_agent_turn_lease holds
  authority,
  source,      \* the turn's narrator source
  pending,     \* user_lifetime_pending_policy: sources awaiting their review
  receipt,     \* the completed review of the source's current version
  reply,       \* user_lifetime_reply of the turn
  delivered,   \* the delivery receipts of that reply
  \* each request
  pc,          \* where its producer stands
  memo,        \* what the producer has read
  emitter,     \* GovernedEmitter
  generation,  \* the task that asks the model for a reply
  reviewing,   \* the policy review it awaits
  queue,       \* envelopes not taken yet
  sending,     \* the envelope taken by the response
  browser,     \* what the page that sent the request received
  \* the reviewed acknowledgement
  acknowledged,  \* the receipt keeps one
  topics,        \* the privacy pins leave every topic open
  ack,           \* what a request has read of it and said
  \* bounds
  changes,
  faults

database == <<holder, authority, source, pending, receipt, reply, delivered>>
tasks == <<generation, reviewing>>
stream == <<queue, sending, browser>>
openings == <<acknowledged, topics, ack>>
bounds == <<changes, faults>>
vars == <<database, pc, memo, emitter, tasks, stream, openings, bounds>>

-----------------------------------------------------------------------------
(* Data.                                                                   *)

\* A reply's text is told by who generated it, under which fence, and in which
\* take: the revision it was streamed in, 0 if replies are not revisable.
Answer == [by : Requests \cup {NoRequest}, under : Nat, take : Nat]
NoText == [by |-> NoRequest, under |-> 0, take |-> 0]
Rebuild == [by |-> NoRequest, under |-> 0, take |-> 1]   \* reply null, context_rebuild_required
Text == [by : Requests, under : Nat, take : Nat]

NoReply == [text |-> NoText, authority |-> 0]
Reply == [text : Answer, authority : Nat]

\* fence 0 marks a frame without private content; revision 0 is None, and n + 1
\* the emitter's revision n.
Envelope == [kind : {"none", "revision", "opening", "delta", "result", "error"}, fence : Nat,
             revision : Nat, draft : BOOLEAN, text : Answer]

Control(kind, revision) ==
  [kind |-> kind, fence |-> 0, revision |-> revision, draft |-> FALSE, text |-> NoText]
NoEnvelope == Control("none", 0)

Source == [status : {"none", "active", "withdrawn"}, version : Nat,
           latest : BOOLEAN]   \* its sequence is the project's source_sequence

Stages == {"new", "look", "status", "clear", "accept", "review", "prepare", "start", "await",
           "commit", "replay", "sent", "ending", "release",
           "over", "dead"}

Memo == [found : BOOLEAN,       \* already_accepted
         answer : Answer,       \* the reply read, and later the reply saved
         version : Nat,         \* of the accepted source
         revisable : BOOLEAN,
         unreviewed : BOOLEAN]  \* pending_review
NoMemo == [found |-> FALSE, answer |-> NoText, version |-> 0, revisable |-> FALSE,
           unreviewed |-> FALSE]

Emitter == [fence : Nat, revision : Nat, draft : BOOLEAN]
NoEmitter == [fence |-> 0, revision |-> 0, draft |-> FALSE]

Generation == [state : {"off", "asked", "writing", "done", "failed"}, under : Nat,
               draft : BOOLEAN,   \* begun before the review was complete
               writes : Nat, wrote : BOOLEAN]
NoGeneration == [state |-> "off", under |-> 0, draft |-> FALSE, writes |-> 0, wrote |-> FALSE]

Review == [state : {"off", "begun", "asked", "clear", "restricted", "nothing", "failed"},
           fence : Nat, of : {"this", "other"}, version : Nat]
NoReview == [state |-> "off", fence |-> 0, of |-> "this", version |-> 0]
NewReview == [NoReview EXCEPT !.state = "begun"]

Browser == [revision : Nat, shown : SUBSET Text, got : Answer]

\* An acknowledgement is told by the version of the source it was written for,
\* 0 if there is none.
Ack == [read : Nat,          \* what the reviews and the status answered
        said : Nat,          \* what the reply opens with
        shown : BOOLEAN]     \* the page has it
NoAck == [read |-> 0, said |-> 0, shown |-> FALSE]

Init ==
  /\ holder = NoRequest
  /\ authority = 1
  /\ source = [status |-> "none", version |-> 0, latest |-> FALSE]
  /\ pending = {}
  /\ receipt = "none"
  /\ reply = NoReply
  /\ delivered = FALSE
  /\ pc = [r \in Requests |-> "new"]
  /\ memo = [r \in Requests |-> NoMemo]
  /\ emitter = [r \in Requests |-> NoEmitter]
  /\ generation = [r \in Requests |-> NoGeneration]
  /\ reviewing = [r \in Requests |-> NoReview]
  /\ queue = [r \in Requests |-> <<>>]
  /\ sending = [r \in Requests |-> NoEnvelope]
  /\ browser = [r \in Requests |-> [revision |-> 0, shown |-> {}, got |-> NoText]]
  /\ acknowledged = FALSE
  /\ topics \in BOOLEAN
  /\ ack = [r \in Requests |-> NoAck]
  /\ changes = 0
  /\ faults = 0

-----------------------------------------------------------------------------
(* The database's fences and guards.                                       *)

\* Mutant of Current: the lease is compared, the fence is not.
CurrentUnfenced(r, fence) == holder = r

\* lock_lifetime_publication_scope: the fence is the one that would be captured
\* now, by the same lease.
Current(r, fence) == holder = r /\ fence = authority

\* lock_lifetime_publication: and no source awaits its policy review.
FinalGuard(r, fence) == Current(r, fence) /\ pending = {}

Newest == IF source.latest THEN "this" ELSE "other"

\* The first by source sequence.
Oldest == CHOOSE item \in pending : item # Newest \/ pending = {item}

\* lock_lifetime_draft_reply: the newest source may be the one that awaits it.
DraftGuard(r, fence) ==
  /\ Current(r, fence)
  /\ source.latest => source.status = "active"
  /\ \/ pending = {Newest}
     \/ pending = {} /\ (source.latest => receipt = "clear")

Guard(r, fence, draft) == IF draft THEN DraftGuard(r, fence) ELSE FinalGuard(r, fence)

\* read_lifetime_two_lane_reply
SavedReply ==
  IF reply = NoReply THEN NoText
  ELSE IF source.status = "active" /\ reply.authority = authority THEN reply.text
  ELSE Rebuild

Released(r) == IF holder = r THEN NoRequest ELSE holder

-----------------------------------------------------------------------------
(* The emitter.  An envelope keeps the fence, revision and draft mark of   *)
(* the moment it was made.                                                 *)

Frame(r, kind, text) ==
  [kind |-> kind, fence |-> emitter[r].fence, revision |-> emitter[r].revision,
   draft |-> emitter[r].draft, text |-> text]

\* GovernedResult's envelope names no revision.
ResultFrame(r, answer) ==
  [kind |-> "result", fence |-> emitter[r].fence, revision |-> 0, draft |-> FALSE,
   text |-> answer]

\* begin_revision
BeginRevision(r, draft) ==
  /\ emitter' = [emitter EXCEPT ![r].revision = @ + 1, ![r].draft = draft]
  /\ queue' = [queue EXCEPT ![r] = Append(@, Control("revision", emitter[r].revision + 1))]

Goto(r, stage) == pc' = [pc EXCEPT ![r] = stage]

\* The producer raises: its tasks are discarded and its lease released before
\* the error frame is queued.
Fails(r) ==
  /\ Goto(r, "sent")
  /\ holder' = Released(r)
  /\ generation' = [generation EXCEPT ![r] = NoGeneration]
  /\ reviewing' = [reviewing EXCEPT ![r] = NoReview]
  /\ queue' = [queue EXCEPT ![r] = Append(@, Control("error", 0))]
  /\ UNCHANGED <<authority, source, pending, receipt, reply, delivered, memo, emitter,
                 sending, browser, openings, changes>>

-----------------------------------------------------------------------------
(* The producer: run_lifetime_turn.                                        *)

\* It takes the lease and captures a first fence.  (An attempt that does not get
\* the lease ends without a trace.)
Open(r) ==
  /\ pc[r] = "new"
  /\ \A q \in 1..(r - 1) : pc[q] # "new"
  /\ holder = NoRequest
  /\ holder' = r
  /\ emitter' = [emitter EXCEPT ![r].fence = authority]
  /\ Goto(r, "look")
  /\ UNCHANGED <<authority, source, pending, receipt, reply, delivered, memo, tasks, stream,
                 openings, bounds>>

\* validate_lifetime_replay_input and the reply saved by an earlier attempt.
Look(r) ==
  /\ pc[r] = "look"
  /\ memo' = [memo EXCEPT ![r].found = source.status # "none", ![r].answer = SavedReply]
  /\ Goto(r, "status")
  /\ UNCHANGED <<database, emitter, tasks, stream, openings, bounds>>

\* What follows once no review is pending.
AfterStatus(r) == IF memo[r].answer = NoText THEN "accept" ELSE "replay"

\* The status also answers with the acknowledgement kept for the newest source.
Kept == IF acknowledged /\ source.latest /\ source.status = "active" THEN source.version ELSE 0

ReadsKept(r) ==
  /\ ack' = [ack EXCEPT ![r].read = Kept]
  /\ UNCHANGED <<acknowledged, topics>>

\* read_lifetime_policy_status: an older pending review comes first.
Status(r) ==
  /\ pc[r] = "status"
  /\ IF pending = {}
     THEN Goto(r, AfterStatus(r)) /\ ReadsKept(r) /\ UNCHANGED reviewing
     ELSE /\ Goto(r, "clear")
          /\ reviewing' = [reviewing EXCEPT ![r] = NewReview]
          /\ UNCHANGED openings
  /\ UNCHANGED <<database, memo, emitter, generation, stream, bounds>>

\* One review is made, and none may be pending when the status is read again.
Cleared(r) ==
  /\ pc[r] = "clear"
  /\ \/ /\ reviewing[r].state \in {"clear", "restricted", "nothing"}
        /\ pending = {}
        /\ reviewing' = [reviewing EXCEPT ![r] = NoReview]
        /\ Goto(r, AfterStatus(r))
        /\ ReadsKept(r)
        /\ UNCHANGED <<database, memo, emitter, generation, stream, bounds>>
     \/ /\ \/ reviewing[r].state = "failed"
           \/ reviewing[r].state \in {"clear", "restricted", "nothing"} /\ pending # {}
        /\ Fails(r)
        /\ UNCHANGED faults

\* accept_interview_turn, idempotent and not fenced.  Only a first attempt may
\* stream a draft before its review.
Accept(r) ==
  LET revisable == Parallel /\ ~memo[r].found
      version == IF source.status = "none" THEN 1 ELSE source.version
  IN
  /\ pc[r] = "accept"
  /\ IF source.status = "none"
     THEN /\ source' = [status |-> "active", version |-> 1, latest |-> TRUE]
          /\ pending' = pending \cup {"this"}
          /\ authority' = authority + 1
     ELSE UNCHANGED <<source, pending, authority>>
  /\ memo' = [memo EXCEPT ![r].version = version, ![r].revisable = revisable,
                          ![r].unreviewed = revisable]
  /\ IF revisable
     THEN Goto(r, "prepare") /\ UNCHANGED reviewing
     ELSE Goto(r, "review") /\ reviewing' = [reviewing EXCEPT ![r] = NewReview]
  /\ UNCHANGED <<holder, receipt, reply, delivered, emitter, generation, stream, openings,
                 bounds>>

\* Without drafts the review comes before the reply.
Reviewed(r) ==
  /\ pc[r] = "review"
  /\ \/ /\ reviewing[r].state \in {"clear", "restricted", "nothing"}
        /\ reviewing' = [reviewing EXCEPT ![r] = NoReview]
        /\ Goto(r, "prepare")
        /\ UNCHANGED <<database, memo, emitter, generation, stream, openings, bounds>>
     \/ reviewing[r].state = "failed" /\ Fails(r) /\ UNCHANGED faults

\* The head of the loop: the fence under which the context will be read.
Prepare(r) ==
  /\ pc[r] = "prepare"
  /\ \/ /\ holder = r
        /\ LET new == memo[r].revisable /\ emitter[r].revision = 0
               next == emitter[r].revision + (IF new THEN 1 ELSE 0)
           IN
           /\ emitter' = [emitter EXCEPT ![r] =
                [fence |-> authority, revision |-> next, draft |-> memo[r].unreviewed]]
           /\ queue' = IF new THEN [queue EXCEPT ![r] = Append(@, Control("revision", next))]
                       ELSE queue
        /\ Goto(r, "start")
        /\ UNCHANGED <<database, memo, tasks, sending, browser, openings, bounds>>
     \/ holder # r /\ Fails(r) /\ UNCHANGED faults

\* Mutants of Openings: whatever topics are closed since, or whatever version of
\* the source the acknowledgement was written for.
OpeningsAnyTopics(r) ==
  {0} \cup {version \in {ack[r].read} : ~memo[r].revisable /\ version = memo[r].version}
OpeningsAnyVersion(r) == {0} \cup {version \in {ack[r].read} : ~memo[r].revisable /\ topics}

\* reviewed_acknowledgement: without drafts the reply may open, if the request
\* and its language allow it, with what was written for the accepted version.
Openings(r) ==
  {0} \cup {version \in {ack[r].read} :
            /\ ~memo[r].revisable
            /\ version = memo[r].version
            /\ topics}

\* The opening is queued at once, under the fence of the context.
Say(r, said) ==
  /\ ack' = [ack EXCEPT ![r] = [NoAck EXCEPT !.said = said]]
  /\ queue' = IF said = 0 THEN queue
              ELSE [queue EXCEPT ![r] = Append(@, Frame(r, "opening", NoText))]
  /\ UNCHANGED <<acknowledged, topics, sending, browser>>

\* The context is read under that fence, which must still be the current one;
\* the generation starts and, for a draft, the review beside it.
Start(r) ==
  /\ pc[r] = "start"
  /\ \/ /\ Current(r, emitter[r].fence)
        /\ generation' = [generation EXCEPT ![r] =
             [state |-> "asked", under |-> emitter[r].fence, draft |-> memo[r].unreviewed,
              writes |-> 0, wrote |-> FALSE]]
        /\ reviewing' = IF memo[r].unreviewed THEN [reviewing EXCEPT ![r] = NewReview]
                        ELSE reviewing
        /\ \E said \in Openings(r) : Say(r, said)
        /\ Goto(r, "await")
        /\ UNCHANGED <<database, memo, emitter, bounds>>
     \/ ~Current(r, emitter[r].fence) /\ Fails(r) /\ UNCHANGED faults

\* The review must have decided about the version that was accepted.
Decided(r, decision) ==
  /\ reviewing[r].state = decision
  /\ reviewing[r].of = "this"
  /\ reviewing[r].version = memo[r].version

\* Mutants of Retract: the loop begins anew as unreviewed, or in the same
\* revision.
RetractUnreviewed(r) ==
  /\ pc[r] = "await"
  /\ memo[r].unreviewed
  /\ Decided(r, "restricted")
  /\ BeginRevision(r, FALSE)
  /\ generation' = [generation EXCEPT ![r] = NoGeneration]
  /\ reviewing' = [reviewing EXCEPT ![r] = NoReview]
  /\ Goto(r, "prepare")
  /\ UNCHANGED <<database, memo, sending, browser, openings, bounds>>
RetractSilently(r) ==
  /\ pc[r] = "await"
  /\ memo[r].unreviewed
  /\ Decided(r, "restricted")
  /\ generation' = [generation EXCEPT ![r] = NoGeneration]
  /\ reviewing' = [reviewing EXCEPT ![r] = NoReview]
  /\ memo' = [memo EXCEPT ![r].unreviewed = FALSE]
  /\ Goto(r, "prepare")
  /\ UNCHANGED <<database, emitter, queue, sending, browser, openings, bounds>>

\* reviewed_reply: a restriction retracts the draft, and the loop begins anew.
Retract(r) ==
  /\ pc[r] = "await"
  /\ memo[r].unreviewed
  /\ Decided(r, "restricted")
  /\ BeginRevision(r, FALSE)
  /\ generation' = [generation EXCEPT ![r] = NoGeneration]
  /\ reviewing' = [reviewing EXCEPT ![r] = NoReview]
  /\ memo' = [memo EXCEPT ![r].unreviewed = FALSE]
  /\ Goto(r, "prepare")
  /\ UNCHANGED <<database, sending, browser, openings, bounds>>

\* The reply is complete, and so is the review it was begun without.
Complete(r) ==
  /\ pc[r] = "await"
  /\ memo[r].unreviewed => Decided(r, "clear")
  /\ generation[r].state = "done"
  /\ reviewing' = [reviewing EXCEPT ![r] = NoReview]
  /\ memo' = [memo EXCEPT ![r].unreviewed = FALSE]
  /\ emitter' = [emitter EXCEPT ![r].draft = FALSE]
  /\ Goto(r, "commit")
  /\ UNCHANGED <<database, generation, stream, openings, bounds>>

\* No review, no decision about this source, or no reply.
GiveUp(r) ==
  /\ pc[r] = "await"
  /\ \/ /\ memo[r].unreviewed
        /\ \/ reviewing[r].state \in {"nothing", "failed"}
           \/ \E d \in {"clear", "restricted"} : reviewing[r].state = d /\ ~Decided(r, d)
     \/ /\ memo[r].unreviewed => Decided(r, "clear")
        /\ generation[r].state = "failed"
  /\ Fails(r)
  /\ UNCHANGED faults

\* Mutant of Savable: the fence is not compared.
SavableUnfenced(r) ==
  /\ holder = r
  /\ pending = {}
  /\ source.status = "active"
  /\ source.version = 1
  /\ reply = NoReply

\* commit_lifetime_turn and the functions it calls.  The validated reply may
\* differ from the visible text; saving it may itself advance the authority.
Savable(r) ==
  /\ FinalGuard(r, emitter[r].fence)
  /\ source.status = "active"
  /\ source.version = 1
  /\ reply = NoReply

\* Mutant of Final: streamed text counts as one revision back.
FinalBack(r, same) ==
  [by |-> r, under |-> generation[r].under,
   take |-> IF same THEN emitter[r].revision - 1 ELSE emitter[r].revision + 1]

Final(r, same) ==
  [by |-> r, under |-> generation[r].under,
   take |-> IF same THEN emitter[r].revision ELSE emitter[r].revision + 1]

Save(r, same, next) ==
  /\ next \in {authority, authority + 1}
  /\ same \in IF memo[r].revisable THEN {generation[r].wrote, FALSE} ELSE {TRUE}
  /\ authority' = next
  /\ reply' = [text |-> Final(r, same), authority |-> next]
  /\ topics' \in (IF next = authority THEN {topics} ELSE BOOLEAN)
  /\ UNCHANGED <<source, pending, receipt, delivered, acknowledged, ack>>

\* Mutant of FinalFrames: whatever was streamed is left standing.
FinalFramesOnly(r, answer, fence) ==
  LET frame(kind) ==
        [kind |-> kind, fence |-> fence, revision |-> 0, draft |-> FALSE, text |-> answer]
  IN
  (IF memo[r].revisable THEN <<>> ELSE <<frame("delta")>>) \o <<frame("result")>>

\* The final frames.  Where the saved reply is not the text that was streamed,
\* a last revision carries it.
FinalFrames(r, answer, fence) ==
  LET frame(kind, revision) ==
        [kind |-> kind, fence |-> fence, revision |-> revision, draft |-> FALSE, text |-> answer]
      delta == frame("delta", answer.take)
  IN
  (IF answer.take # emitter[r].revision THEN <<Control("revision", answer.take), delta>>
   ELSE IF memo[r].revisable THEN <<>> ELSE <<delta>>)
    \o <<frame("result", 0)>>

\* publication.flush: everything queued has been sent or dropped.
Flushed(r) == queue[r] = <<>> /\ sending[r] = NoEnvelope

\* The reply is saved and published under the fence that saving it left.
Commit(r) ==
  /\ pc[r] = "commit"
  /\ Flushed(r)
  /\ Savable(r)
  /\ \E same \in BOOLEAN, next \in {authority, authority + 1} :
       LET answer == Final(r, same) IN
       /\ Save(r, same, next)
       /\ memo' = [memo EXCEPT ![r].answer = answer]
       /\ emitter' = [emitter EXCEPT ![r].fence = next, ![r].revision = answer.take]
       /\ queue' = [queue EXCEPT ![r] = FinalFrames(r, answer, next)]
  /\ generation' = [generation EXCEPT ![r] = NoGeneration]
  /\ Goto(r, "sent")
  /\ UNCHANGED <<holder, reviewing, sending, browser, bounds>>

\* Refused.
CommitFails(r) ==
  /\ pc[r] = "commit"
  /\ Flushed(r)
  /\ ~Savable(r)
  /\ Fails(r)
  /\ UNCHANGED faults

\* Saved, but the answer to the call is lost.
CommitLost(r) ==
  /\ pc[r] = "commit"
  /\ Flushed(r)
  /\ faults < MaxFaults
  /\ faults' = faults + 1
  /\ Savable(r)
  /\ \E same \in BOOLEAN, next \in {authority, authority + 1} : Save(r, same, next)
  /\ Goto(r, "sent")
  /\ holder' = NoRequest
  /\ generation' = [generation EXCEPT ![r] = NoGeneration]
  /\ queue' = [queue EXCEPT ![r] = Append(@, Control("error", 0))]
  /\ UNCHANGED <<memo, emitter, reviewing, sending, browser, changes>>

\* A reply saved before, under the fence captured before it was read.
Replay(r) ==
  /\ pc[r] = "replay"
  /\ queue' = [queue EXCEPT ![r] = Append(@, ResultFrame(r, memo[r].answer))]
  /\ Goto(r, "sent")
  /\ UNCHANGED <<database, memo, emitter, tasks, sending, browser, openings, bounds>>

Producer(r) ==
  \/ Look(r) \/ Status(r) \/ Cleared(r) \/ Accept(r) \/ Reviewed(r) \/ Prepare(r) \/ Start(r)
  \/ Retract(r) \/ Complete(r) \/ GiveUp(r)
  \/ Commit(r) \/ CommitFails(r) \/ Replay(r)

-----------------------------------------------------------------------------
(* The policy review: review_pending_policy.                               *)

\* It captures its own fence and reads the oldest source that is pending.
ReviewReads(r) ==
  /\ reviewing[r].state = "begun"
  /\ reviewing' = [reviewing EXCEPT ![r] =
       IF holder # r THEN [NoReview EXCEPT !.state = "failed"]
       ELSE IF pending = {} THEN [NoReview EXCEPT !.state = "nothing"]
       ELSE [state |-> "asked", fence |-> authority, of |-> Oldest,
             version |-> source.version]]
  /\ UNCHANGED <<database, pc, memo, emitter, generation, stream, openings, bounds>>

\* complete_lifetime_policy_review: a restriction saves continuity, which
\* advances the preference revision.
CompleteReview(r, decision) ==
  /\ Current(r, reviewing[r].fence)
  /\ pending' = pending \ {reviewing[r].of}
  /\ receipt' = IF reviewing[r].of = "this" THEN decision ELSE receipt
  /\ authority' = authority + (IF decision = "restricted" THEN 1 ELSE 0)
  /\ UNCHANGED <<holder, source, reply, delivered>>

\* Only the review that comes before the reply is asked for an acknowledgement,
\* and it gives none with a restriction, which closes a topic.
Acknowledge(r, decision, written) ==
  /\ written => pc[r] = "review" /\ decision = "clear"
  /\ acknowledged' = IF reviewing[r].of = "this" THEN written ELSE acknowledged
  /\ topics' = (topics /\ decision = "clear")

\* It is also the review's answer, and goes before what the status answered.
ReviewEnds(r) ==
  /\ reviewing[r].state = "asked"
  /\ \/ \E decision \in {"clear", "restricted"}, written \in BOOLEAN :
          /\ CompleteReview(r, decision)
          /\ Acknowledge(r, decision, written)
          /\ ack' = IF ~written THEN ack
                    ELSE [ack EXCEPT ![r].read =
                            IF reviewing[r].of = "this" THEN reviewing[r].version ELSE 0]
          /\ reviewing' = [reviewing EXCEPT ![r].state = decision]
     \/ /\ ~Current(r, reviewing[r].fence)
        /\ reviewing' = [reviewing EXCEPT ![r].state = "failed"]
        /\ UNCHANGED <<database, openings>>
  /\ UNCHANGED <<pc, memo, emitter, generation, stream, bounds>>

\* The provider fails, or the answer of the database is lost.
ReviewFails(r) ==
  /\ reviewing[r].state = "asked"
  /\ faults < MaxFaults
  /\ faults' = faults + 1
  /\ \/ UNCHANGED <<database, acknowledged, topics>>
     \/ \E decision \in {"clear", "restricted"}, written \in BOOLEAN :
          CompleteReview(r, decision) /\ Acknowledge(r, decision, written)
  /\ reviewing' = [reviewing EXCEPT ![r].state = "failed"]
  /\ UNCHANGED <<ack, pc, memo, emitter, generation, stream, changes>>

-----------------------------------------------------------------------------
(* The generation.                                                         *)

\* The model's request is made once an opening has been sent, and admitted under
\* the guard of what it may use.
Admit(r) ==
  /\ generation[r].state = "asked"
  /\ ack[r].said # 0 => Flushed(r)
  /\ generation' = [generation EXCEPT ![r].state =
       IF Guard(r, generation[r].under, generation[r].draft) THEN "writing" ELSE "failed"]
  /\ UNCHANGED <<database, pc, memo, emitter, reviewing, stream, openings, bounds>>

Writing(r) == generation[r].state = "writing" /\ generation[r].writes < MaxWrites

\* on_delta; after an opening nothing is streamed until the reply is saved.
Write(r) ==
  /\ Writing(r)
  /\ ack[r].said = 0
  /\ queue' = [queue EXCEPT ![r] = Append(@, Frame(r, "delta",
       [by |-> r, under |-> generation[r].under, take |-> emitter[r].revision]))]
  /\ generation' = [generation EXCEPT ![r].writes = @ + 1, ![r].wrote = TRUE]
  /\ UNCHANGED <<database, pc, memo, emitter, reviewing, sending, browser, openings, bounds>>

\* collector_restart: a validation repair writes the reply anew.
Restart(r) ==
  /\ Writing(r)
  /\ memo[r].revisable
  /\ BeginRevision(r, generation[r].draft)
  /\ generation' = [generation EXCEPT ![r].writes = @ + 1, ![r].wrote = FALSE]
  /\ UNCHANGED <<database, pc, memo, reviewing, sending, browser, openings, bounds>>

Finish(r) ==
  /\ generation[r].state = "writing"
  /\ generation' = [generation EXCEPT ![r].state = "done"]
  /\ UNCHANGED <<database, pc, memo, emitter, reviewing, stream, openings, bounds>>

ModelFails(r) ==
  /\ generation[r].state = "writing"
  /\ faults < MaxFaults
  /\ faults' = faults + 1
  /\ generation' = [generation EXCEPT ![r].state = "failed"]
  /\ UNCHANGED <<database, pc, memo, emitter, reviewing, stream, openings, changes>>

Background(r) == ReviewReads(r) \/ ReviewEnds(r) \/ Admit(r) \/ Write(r) \/ Restart(r) \/ Finish(r)

-----------------------------------------------------------------------------
(* The response: GovernedStreamingResponse.                                *)

Stale(r, e) == e.revision # 0 /\ e.revision # emitter[r].revision

Allowed(r, e) == Guard(r, e.fence, e.draft)

\* A stream that fails before its result leaves no revised text on the page.
Failed(b) == IF b.got = NoText /\ b.revision # 0 THEN [b EXCEPT !.shown = {}] ELSE b

\* What the page makes of a frame.
Received(b, e) ==
  CASE e.kind = "revision" /\ e.revision > b.revision ->
         [b EXCEPT !.revision = e.revision, !.shown = {}]
    [] e.kind = "delta" /\ e.revision = b.revision -> [b EXCEPT !.shown = @ \cup {e.text}]
    [] e.kind = "result" -> [b EXCEPT !.got = e.text]
    [] e.kind = "error" -> Failed(b)
    [] OTHER -> b

\* The next envelope is taken.  It is dropped if its revision is over, and sent
\* at once if it has no private content; the cleanup follows an error.
Take(r) ==
  LET e == Head(queue[r]) IN
  /\ queue[r] # <<>>
  /\ sending[r] = NoEnvelope
  /\ queue' = [queue EXCEPT ![r] = Tail(@)]
  /\ sending' = IF Stale(r, e) \/ e.fence = 0 THEN sending ELSE [sending EXCEPT ![r] = e]
  /\ browser' = IF Stale(r, e) \/ e.fence # 0 THEN browser
                ELSE [browser EXCEPT ![r] = Received(@, e)]
  /\ pc' = IF e.kind = "error" THEN [pc EXCEPT ![r] = "release"] ELSE pc
  /\ UNCHANGED <<database, memo, emitter, tasks, openings, bounds>>

\* Any other is sent inside its guard.  The end of the body follows the result.
Send(r) ==
  /\ sending[r] # NoEnvelope
  /\ Allowed(r, sending[r])
  /\ browser' = [browser EXCEPT ![r] = Received(@, sending[r])]
  /\ sending' = [sending EXCEPT ![r] = NoEnvelope]
  /\ pc' = IF sending[r].kind = "result" THEN [pc EXCEPT ![r] = "ending"] ELSE pc
  /\ ack' = IF sending[r].kind = "opening" THEN [ack EXCEPT ![r].shown = TRUE] ELSE ack
  /\ UNCHANGED <<database, memo, emitter, tasks, queue, acknowledged, topics, bounds>>

\* A draft that its guard refuses is dropped: a revision will replace it.
Drop(r) ==
  /\ sending[r] # NoEnvelope
  /\ ~Allowed(r, sending[r])
  /\ sending[r].draft
  /\ sending' = [sending EXCEPT ![r] = NoEnvelope]
  /\ UNCHANGED <<database, pc, memo, emitter, tasks, queue, browser, openings, bounds>>

\* The stream ends without a result and the page shows no reply; the producer
\* and its tasks are cancelled, their call settled, the lease released next.
Aborted(r) ==
  /\ Goto(r, "release")
  /\ generation' = [generation EXCEPT ![r] = NoGeneration]
  /\ reviewing' = [reviewing EXCEPT ![r] = NoReview]
  /\ queue' = [queue EXCEPT ![r] = <<>>]
  /\ sending' = [sending EXCEPT ![r] = NoEnvelope]
  /\ browser' = [browser EXCEPT ![r] = Failed(@)]
  /\ UNCHANGED <<database, memo, emitter, openings, changes>>

\* Any other frame that is refused ends the stream.
Break(r) ==
  /\ sending[r] # NoEnvelope
  /\ ~Allowed(r, sending[r])
  /\ ~sending[r].draft
  /\ Aborted(r)
  /\ UNCHANGED faults

\* After the last send, delivered is set, and close records the delivery of a
\* reply if its authority still holds; then it releases the lease.
RecordDelivery(r) ==
  /\ pc[r] = "ending"
  /\ delivered' = (\/ delivered
                   \/ /\ memo[r].answer # Rebuild
                      /\ FinalGuard(r, emitter[r].fence)
                      /\ reply.authority = emitter[r].fence)
  /\ Goto(r, "release")
  /\ UNCHANGED <<holder, authority, source, pending, receipt, reply, memo, emitter, tasks,
                 stream, openings, bounds>>

Release(r) ==
  /\ pc[r] = "release"
  /\ holder' = Released(r)
  /\ memo' = [memo EXCEPT ![r] = NoMemo]
  /\ emitter' = [emitter EXCEPT ![r] = NoEmitter]
  /\ Goto(r, "over")
  /\ UNCHANGED <<authority, source, pending, receipt, reply, delivered, tasks, stream, openings,
                 bounds>>

Response(r) ==
  Take(r) \/ Send(r) \/ Drop(r) \/ Break(r) \/ RecordDelivery(r) \/ Release(r)

-----------------------------------------------------------------------------
(* Faults, and the owner.                                                  *)

Underway(r) == pc[r] \notin {"new", "release", "over", "dead"}

Disconnect(r) ==
  /\ Underway(r)
  /\ faults < MaxFaults
  /\ faults' = faults + 1
  /\ Aborted(r)

\* The process dies; its lease stays until it expires.
Crash(r) ==
  /\ pc[r] \notin {"new", "over", "dead"}
  /\ faults < MaxFaults
  /\ faults' = faults + 1
  /\ Goto(r, "dead")
  /\ memo' = [memo EXCEPT ![r] = NoMemo]
  /\ emitter' = [emitter EXCEPT ![r] = NoEmitter]
  /\ generation' = [generation EXCEPT ![r] = NoGeneration]
  /\ reviewing' = [reviewing EXCEPT ![r] = NoReview]
  /\ queue' = [queue EXCEPT ![r] = <<>>]
  /\ sending' = [sending EXCEPT ![r] = NoEnvelope]
  /\ browser' = [browser EXCEPT ![r] = Failed(@)]
  /\ UNCHANGED <<database, openings, changes>>

\* The lease expires: of a dead process, or of one that stalls.
Lapse ==
  /\ holder # NoRequest
  /\ \/ pc[holder] = "dead" /\ UNCHANGED faults
     \/ faults < MaxFaults /\ faults' = faults + 1
  /\ holder' = NoRequest
  /\ UNCHANGED <<authority, source, pending, receipt, reply, delivered, pc, memo, emitter,
                 tasks, stream, openings, changes>>

\* change_user_narrator_source, on this source or another one, and the writers
\* of preferences: any of them may close topics or open them again.
Changes ==
  /\ changes < MaxChanges
  /\ changes' = changes + 1
  /\ authority' = authority + 1
  /\ topics' \in BOOLEAN
  /\ UNCHANGED <<holder, reply, delivered, pc, memo, emitter, tasks, stream, ack, faults>>

Edit ==
  /\ Changes
  /\ source.status = "active"
  /\ source' = [source EXCEPT !.version = @ + 1, !.latest = TRUE]
  /\ pending' = pending \cup {"this"}
  /\ receipt' = "none"
  /\ acknowledged' = FALSE

Withdraw ==
  /\ Changes
  /\ source.status = "active"
  /\ source' = [status |-> "withdrawn", version |-> source.version + 1, latest |-> TRUE]
  /\ pending' = pending \ {"this"}
  /\ receipt' = "none"
  /\ acknowledged' = FALSE

EditOther ==
  /\ Changes
  /\ source' = [source EXCEPT !.latest = FALSE]
  /\ pending' = pending \cup {"other"}
  /\ UNCHANGED <<receipt, acknowledged>>

\* The owner's, or select_language's of the request itself, which precedes the
\* fence at the head of the loop.
Prefer == Changes /\ UNCHANGED <<source, pending, receipt, acknowledged>>

-----------------------------------------------------------------------------
Next ==
  \/ \E r \in Requests :
       \/ Open(r) \/ Producer(r) \/ Background(r) \/ Response(r)
       \/ CommitLost(r) \/ ReviewFails(r) \/ ModelFails(r) \/ Disconnect(r) \/ Crash(r)
  \/ Lapse \/ Edit \/ Withdraw \/ EditOther \/ Prefer

Spec == Init /\ [][Next]_vars

\* The event loop runs a task of a request that can go on, and a generation ends.
\* Only of the last attempt is an answer asked.
Fairness ==
  LET r == Attempts IN WF_<<pc, tasks, stream>>(Producer(r) \/ Background(r) \/ Response(r))

FairSpec == Spec /\ Fairness

-----------------------------------------------------------------------------
TurnTypeOK ==
  /\ holder \in Requests \cup {NoRequest}
  /\ authority \in Nat \ {0}
  /\ source \in Source
  /\ pending \subseteq {"this", "other"}
  /\ receipt \in {"none", "clear", "restricted"}
  /\ reply \in Reply
  /\ delivered \in BOOLEAN
  /\ pc \in [Requests -> Stages]
  /\ memo \in [Requests -> Memo]
  /\ emitter \in [Requests -> Emitter]
  /\ generation \in [Requests -> Generation]
  /\ reviewing \in [Requests -> Review]
  /\ queue \in [Requests -> Seq(Envelope)]
  /\ sending \in [Requests -> Envelope]
  /\ browser \in [Requests -> Browser]
  /\ changes \in 0..MaxChanges
  /\ faults \in 0..MaxFaults

OpeningTypeOK ==
  /\ acknowledged \in BOOLEAN
  /\ topics \in BOOLEAN
  /\ ack \in [Requests -> Ack]

\* Every variable has its type.
TypeOK == TurnTypeOK /\ OpeningTypeOK

DeliveredText ==
  /\ \A r \in Requests : browser[r].got \in Text =>
       browser[r].got = reply.text /\ browser[r].shown = IF reply.text.by = r THEN {reply.text} ELSE {}
  /\ delivered => \E r \in Requests : browser[r].got = reply.text /\ reply # NoReply

\* A page that received a reply as its result shows, if it was streamed to it,
\* exactly that text, whatever drafts were retracted, restarted or dropped on
\* the way, after the acknowledgement it opens with, if any; it is the reply the
\* database keeps, for every attempt of the turn the same; and a delivery receipt
\* exists only for a reply some page received (stream_response, reviewed_reply,
\* read_lifetime_two_lane_reply, close).
DeliveredIsSaved ==
  /\ DeliveredText
  /\ \A r \in Requests : browser[r].got \in Text =>
       ack[r].shown = (reply.text.by = r /\ ack[r].said # 0)

\* A draft or reply shown to a page was generated after the last change of
\* policy, preference or testimony, or is the saved reply while it is valid:
\* neither a draft the review overtook nor one queued before the save (event
\* freezes each envelope's fence; lock_lifetime_publication_scope).
TextIsCurrentWhenSent ==
  \A r \in Requests :
    /\ \A t \in browser'[r].shown \ browser[r].shown :
         t.under = authority \/ reply = [text |-> t, authority |-> authority]
    /\ browser'[r].got # browser[r].got /\ browser'[r].got # Rebuild =>
         reply.authority = authority /\ source.status = "active"

\* A reviewed acknowledgement may be older than the fence; but it was written
\* for the version this request accepted, it is shown while no review is pending
\* and every topic is open, and unless an edit has replaced that version its
\* review found no restriction (reviewed_acknowledgement).
OpeningIsReviewedWhenSent ==
  \A r \in Requests : ack'[r].shown /\ ~ack[r].shown =>
    /\ ack[r].said = memo[r].version
    /\ pending = {} /\ topics
    /\ source.version = ack[r].said => receipt = "clear"

\* A reply is saved once and never replaced; when it is, no review is pending,
\* all of it but an acknowledgement was generated under the authority that then
\* holds, so that a restriction in the narration itself is respected, and the
\* source is the one accepted (commit_lifetime_turn and the loop before it).
ReplyIsSavedOnce ==
  reply' # reply =>
    /\ reply = NoReply
    /\ pending = {}
    /\ receipt # "none"
    /\ reply'.text.under = authority
    /\ source.status = "active" /\ source.version = 1

\* An acknowledgement the saved reply opens with may be older; then the review
\* of this very version found no restriction, and no topic is closed.
OpeningIsReviewedWhenSaved ==
  \A r \in Requests : reply' # reply /\ reply'.text.by = r /\ ack[r].said # 0 =>
    ack[r].said = source.version /\ receipt = "clear" /\ topics

\* Every step that shows text or saves it does so under the authority of that
\* moment, however long ago the text was generated and the frame was queued; the
\* one text that may be older, a reviewed acknowledgement, is of the very
\* testimony it answers and of no topic that is closed.
ReplyFollowsAuthority ==
  [][/\ TextIsCurrentWhenSent /\ ReplyIsSavedOnce
     /\ OpeningIsReviewedWhenSent /\ OpeningIsReviewedWhenSaved]_vars

\* Nothing more goes wrong or changes, and no other attempt is under way.
Calm(r) ==
  /\ changes = MaxChanges
  /\ faults = MaxFaults
  /\ \A q \in Requests \ {r} : pc[q] \in {"over", "dead"}

\* The last attempt, once nothing more goes wrong, is answered: by the reply
\* saved before, or by a new one, also when the review finds a restriction and
\* the draft is retracted; unless the source was changed, or another one is
\* unreviewed (run_lifetime_turn: "Please retry the response.").
TurnIsAnswered ==
  LET r == Attempts IN
  (/\ pc[r] = "look"
   /\ Calm(r)
   /\ Current(r, emitter[r].fence)
   /\ source.status = "active" => source.version = 1
   /\ source.status # "withdrawn"
   /\ pending \subseteq {"this"}
   /\ reply.authority \in {0, authority})
  ~> (reply # NoReply /\ browser[r].got = reply.text)
=============================================================================
