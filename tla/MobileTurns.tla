----------------------------- MODULE MobileTurns -----------------------------
(***************************************************************************)
(* The mobile client's durable outbox of conversation turns: the           *)
(* TurnController of apps/mobile/src/turn-controller.ts, the rows it keeps *)
(* in the account's vault, the reducer of packages/memoir-domain that      *)
(* decides what a receipt or a stream means, and as much of the server as  *)
(* the client can tell: which turns it accepted, saved or saw changed.     *)
(*                                                                         *)
(* One account, one project, one open vault.  A step is what JavaScript    *)
(* runs between two awaits; a write to the vault is decided in one step    *)
(* (with the check valid()) and takes effect in a later one, whatever has  *)
(* happened to the run in between.  Restart ends the process: the rows and *)
(* the server survive, everything else is lost.                            *)
(***************************************************************************)
EXTENDS Naturals, FiniteSets

CONSTANTS
  Turns,        \* client_turn_id of the turns composed in the project
  MaxSends,     \* bound: runs that may transmit (queued or retry), of all turns
  MaxFaults     \* bound: restarts, cancellations and failures of the vault

ASSUME TurnsAssumption == IsFiniteSet(Turns)
ASSUME BoundsAssumption == MaxSends \in Nat /\ MaxFaults \in Nat

VARIABLES
  outbox,        \* the vault's rows
  acknowledged,  \* the controller's turns known to be saved
  discarded,     \* its tombstones
  enqueuing,     \* where an enqueue of each turn stands
  discarding,    \* where a discard of each turn stands
  running,       \* the one run of each turn, or Idle
  source,        \* the server's narrator source of each turn
  saved,         \* the turns whose conversation the server saved
  posts,         \* transmissions of each turn that have left the client
  sends,         \* the runs counted against MaxSends
  minted,        \* in which life of the process each identifier was made
  queued,        \* history: turns whose enqueue made a durable row
  erased,        \* history: turns whose row a discard deleted
  faults

controller == <<acknowledged, discarded>>
server == <<source, saved, posts>>
bounds == <<sends, faults>>
history == <<minted, queued, erased>>
vars == <<outbox, controller, enqueuing, discarding, running, server, history, bounds>>

-----------------------------------------------------------------------------
(* Rows and runs.                                                          *)

NoRow == [state |-> "none", attempts |-> 0, wait |-> FALSE]

(* unsettled stands for uncertain, paused and rejected, which the code     *)
(* words differently for the narrator and treats alike.                    *)
RowStates == {"queued", "sending", "unsettled", "committed"}

(* wait stands for a nextAttemptAt that is still in the future.            *)
Row == [state : RowStates, attempts : 0..MaxSends, wait : BOOLEAN]

Uncommitted(row) == row # NoRow /\ row.state # "committed"

(* stale is history: the server had already saved the turn, or its source  *)
(* had been changed, when the run began.                                   *)
Run ==
  [mode : {"queued", "retry", "check"},
   pc : {"list", "receipt", "put", "stream", "finish"},
   item : Row \cup {NoRow},      \* the run's copy of the row
   next : Row \cup {NoRow},      \* the row a pending write will store
   caught : BOOLEAN,             \* the pending write is the error handler's
   answer : {"none", "saved", "changed", "unsaved"},   \* a receipt on its way
   committed : BOOLEAN,          \* the reducer's state.committed
   commit : {"none", "put", "delete", "done"},         \* commitWork
   aborted : BOOLEAN,
   stale : BOOLEAN]

Idle == [mode |-> "none"]

Running(t) == running[t] # Idle
At(t, pc) == Running(t) /\ running[t].pc = pc

(* valid(): neither cancelled nor discarded (a disposed controller and a   *)
(* vault of another owner are the end of the process).                     *)
Valid(t) == ~running[t].aborted /\ t \notin discarded

Init ==
  /\ outbox = [t \in Turns |-> NoRow]
  /\ acknowledged = {}
  /\ discarded = {}
  /\ enqueuing = [t \in Turns |-> "no"]
  /\ discarding = [t \in Turns |-> "no"]
  /\ running = [t \in Turns |-> Idle]
  /\ source = [t \in Turns |-> "none"]
  /\ saved = {}
  /\ posts = [t \in Turns |-> 0]
  /\ minted = [t \in Turns |-> "unused"]
  /\ queued = {}
  /\ erased = {}
  /\ sends = 0
  /\ faults = 0

-----------------------------------------------------------------------------
(* enqueue: the bodies run one after another (enqueueTail).                *)

EnqueueCall(t) ==
  /\ minted[t] # "past"
  /\ t \notin discarded
  /\ enqueuing[t] = "no"
  /\ minted' = [minted EXCEPT ![t] = "current"]
  /\ enqueuing' = [enqueuing EXCEPT ![t] = "waiting"]
  /\ UNCHANGED <<outbox, controller, discarding, running, server, queued, erased, bounds>>

(* No enqueue body that has begun is still to store its row.               *)
TailIsFree(t) == \A u \in Turns \ {t} : enqueuing[u] # "putting"

MayQueue(t) ==
  /\ outbox[t] = NoRow
  /\ \A u \in Turns : ~Uncommitted(outbox[u])
  /\ t \notin acknowledged

(* A row that is there already is the answer; a pending turn of the        *)
(* project, or an identifier acknowledged before, is refused.              *)
EnqueueList(t) ==
  /\ enqueuing[t] = "waiting"
  /\ TailIsFree(t)
  /\ enqueuing' = [enqueuing EXCEPT ![t] = IF MayQueue(t) THEN "putting" ELSE "no"]
  /\ UNCHANGED <<outbox, controller, discarding, running, server, history, bounds>>

EnqueuePut(t) ==
  /\ enqueuing[t] = "putting"
  /\ outbox' = [outbox EXCEPT ![t] = [state |-> "queued", attempts |-> 0, wait |-> FALSE]]
  /\ enqueuing' = [enqueuing EXCEPT ![t] = "no"]
  /\ queued' = queued \cup {t}
  /\ UNCHANGED <<controller, discarding, running, server, minted, erased, bounds>>

EnqueuePutFails(t) ==
  /\ faults < MaxFaults
  /\ enqueuing[t] = "putting"
  /\ enqueuing' = [enqueuing EXCEPT ![t] = "no"]
  /\ faults' = faults + 1
  /\ UNCHANGED <<outbox, controller, discarding, running, server, history, sends>>

-----------------------------------------------------------------------------
(* start and execute.                                                      *)

(* A duplicate joins the run there is; an acknowledged turn returns.       *)
Start(t, mode) ==
  /\ t \in queued
  /\ t \notin discarded
  /\ t \notin acknowledged
  /\ ~Running(t)
  /\ IF mode = "check" THEN UNCHANGED sends ELSE sends < MaxSends /\ sends' = sends + 1
  /\ running' = [running EXCEPT ![t] =
       [mode |-> mode, pc |-> "list", item |-> NoRow, next |-> NoRow,
        caught |-> FALSE, answer |-> "none", committed |-> FALSE, commit |-> "none",
        aborted |-> FALSE, stale |-> t \in saved \/ source[t] = "changed"]]
  /\ UNCHANGED <<outbox, controller, enqueuing, discarding, server, history, faults>>

(* Nothing but a commit under way is of use to a run that is over; what    *)
(* else it holds is forgotten here, to keep the states few.                *)
Over(run) ==
  IF run.commit = "none"
    THEN [run EXCEPT !.pc = "finish", !.item = NoRow, !.next = NoRow, !.caught = FALSE,
                     !.answer = "none"]
    ELSE [run EXCEPT !.pc = "finish", !.next = NoRow, !.caught = FALSE, !.answer = "none"]

Leave(t) == running' = [running EXCEPT ![t] = Over(running[t])]

(* Mutant: counted when it is asked for and again when it is made.         *)
Sending_CountsTwice(row) ==
  [state |-> "sending", attempts |-> row.attempts + 2, wait |-> FALSE]

(* The write that must precede a transmission.                             *)
Sending(row) == [state |-> "sending", attempts |-> row.attempts + 1, wait |-> FALSE]

(* persist(next): the write is only asked for while the run is valid.      *)
Persist(t, run, next) ==
  running' = [running EXCEPT ![t] =
    IF Valid(t) THEN [run EXCEPT !.pc = "put", !.next = next, !.answer = "none"] ELSE Over(run)]

(* Mutant: only a retry reads the receipt, also when a process died.       *)
NeedsReceipt_OnRetry(run, row) == run.mode # "queued"

NeedsReceipt(run, row) == run.mode # "queued" \/ row.attempts > 0 \/ row.state # "queued"

ListRow(t) ==
  /\ At(t, "list")
  /\ LET row == outbox[t]
         run == [running[t] EXCEPT !.item = row]
     IN \/ /\ ~Valid(t) \/ row = NoRow
           /\ Leave(t)
           /\ UNCHANGED acknowledged
        \/ /\ Valid(t) /\ row.state = "committed"
           /\ acknowledged' = acknowledged \cup {t}
           /\ Leave(t)
        \/ /\ Valid(t) /\ Uncommitted(row)
           /\ run.mode # "check" /\ row.wait           \* RETRY_NOT_DUE
           /\ Leave(t)
           /\ UNCHANGED acknowledged
        \/ /\ Valid(t) /\ Uncommitted(row)
           /\ ~(run.mode # "check" /\ row.wait)
           /\ IF NeedsReceipt(run, row)
                THEN running' = [running EXCEPT ![t] = [run EXCEPT !.pc = "receipt"]]
                ELSE Persist(t, run, Sending(row))
           /\ UNCHANGED acknowledged
  /\ UNCHANGED <<outbox, discarded, enqueuing, discarding, server, history, bounds>>

(* Mutant: words the server has accepted pass for a saved conversation.    *)
Receipt_AcceptedIsSaved(t) ==
  IF t \in saved \/ source[t] = "accepted" THEN "saved"
  ELSE IF source[t] = "changed" THEN "changed" ELSE "unsaved"

(* What turn_receipt says of a turn: an exchange that is saved is reported *)
(* as saved whether or not its source was changed since.                   *)
Receipt(t) ==
  IF t \in saved THEN "saved" ELSE IF source[t] = "changed" THEN "changed" ELSE "unsaved"

ReadReceipt(t) ==
  /\ At(t, "receipt") /\ running[t].answer = "none"
  /\ running' = [running EXCEPT ![t].answer = Receipt(t)]
  /\ UNCHANGED <<outbox, controller, enqueuing, discarding, server, history, bounds>>

(* Mutant: a check, being read-only at the server, commits nothing.        *)
Committing_NotByCheck(t, run) ==
  [run EXCEPT !.committed = TRUE,
              !.commit = IF run.commit = "none" /\ Valid(t) /\ run.mode # "check"
                         THEN "put" ELSE run.commit]

(* commit(): the durable acknowledgment is started once, by a valid run.   *)
Committing(t, run) ==
  [run EXCEPT !.committed = TRUE,
              !.commit = IF run.commit = "none" /\ Valid(t) THEN "put" ELSE run.commit]

ReceiptArrives(t) ==
  /\ At(t, "receipt") /\ running[t].answer # "none"
  /\ LET run == running[t]
         row == run.item
     IN \/ ~Valid(t) /\ Leave(t)
        \/ /\ Valid(t) /\ run.answer = "saved"
           /\ running' = [running EXCEPT ![t] = Over(Committing(t, run))]
        \/ /\ Valid(t) /\ run.answer = "changed"
           /\ Persist(t, run, [row EXCEPT !.state = "unsettled", !.wait = FALSE])
        \/ /\ Valid(t) /\ run.answer = "unsaved" /\ run.mode = "check"
           /\ Persist(t, run,
                [row EXCEPT !.state =
                   IF row.attempts = 0 /\ row.state = "queued" THEN "queued" ELSE "unsettled"])
        \/ /\ Valid(t) /\ run.answer = "unsaved" /\ run.mode # "check"
           /\ Persist(t, run, Sending(row))
  /\ UNCHANGED <<outbox, controller, enqueuing, discarding, server, history, bounds>>

(* The error handler (caught), or the end of a stream without a saved      *)
(* turn: whether a retry must wait depends on the error.                   *)
EndsUnsaved(t, wait, caught) ==
  LET run == [running[t] EXCEPT !.caught = caught]
  IN Persist(t, run, [run.item EXCEPT !.state = "unsettled", !.wait = wait])

ReceiptFails(t, wait) ==
  /\ At(t, "receipt")
  /\ EndsUnsaved(t, wait, TRUE)
  /\ UNCHANGED <<outbox, controller, enqueuing, discarding, server, history, bounds>>

(* The vault stores the row; a run still valid goes on, and a row stored   *)
(* as sending is transmitted only then.                                    *)
PutRow(t) ==
  /\ At(t, "put")
  /\ outbox' = [outbox EXCEPT ![t] = running[t].next]
  /\ LET transmits == Valid(t) /\ running[t].next.state = "sending"
     IN /\ running' = [running EXCEPT ![t] =
             IF transmits
               THEN [@ EXCEPT !.pc = "stream", !.item = running[t].next, !.next = NoRow]
               ELSE Over(@)]
        /\ posts' = [posts EXCEPT ![t] = IF transmits THEN posts[t] + 1 ELSE posts[t]]
  /\ UNCHANGED <<controller, enqueuing, discarding, source, saved, history, bounds>>

PutRowFails(t) ==
  /\ faults < MaxFaults
  /\ At(t, "put")
  /\ IF running[t].caught
       THEN Leave(t)
       ELSE EndsUnsaved(t, FALSE, TRUE)
  /\ faults' = faults + 1
  /\ UNCHANGED <<outbox, controller, enqueuing, discarding, server, history, sends>>

(* conversation_saved, or a result that is a saved one, on the stream.     *)
SavedEvent(t) ==
  /\ At(t, "stream") /\ Valid(t)
  /\ t \in saved
  /\ running' = [running EXCEPT ![t] = Committing(t, running[t])]
  /\ UNCHANGED <<outbox, controller, enqueuing, discarding, server, history, bounds>>

(* Mutant: the end of a stream forgets that the turn was saved before.     *)
StreamEnds_Forgetful(t, wait, caught) ==
  /\ At(t, "stream")
  /\ wait => caught
  /\ EndsUnsaved(t, wait, caught)
  /\ UNCHANGED <<outbox, controller, enqueuing, discarding, server, history, bounds>>

(* The stream ends, is cut off or is refused: a committed turn stays so.   *)
StreamEnds(t, wait, caught) ==
  /\ At(t, "stream")
  /\ wait => caught
  /\ IF running[t].committed
       THEN running' = [running EXCEPT ![t] = Over(Committing(t, running[t]))]
       ELSE EndsUnsaved(t, wait, caught)
  /\ UNCHANGED <<outbox, controller, enqueuing, discarding, server, history, bounds>>

(* commitWork: the committed row, then the acknowledgment, then the        *)
(* deletion, whose failure is tolerated.                                   *)
CommitPut(t) ==
  /\ Running(t) /\ running[t].commit = "put"
  /\ outbox' = [outbox EXCEPT ![t] = [running[t].item EXCEPT !.state = "committed", !.wait = FALSE]]
  /\ IF Valid(t)
       THEN /\ acknowledged' = acknowledged \cup {t}
            /\ running' = [running EXCEPT ![t].commit = "delete"]
       ELSE /\ running' = [running EXCEPT ![t].commit = "done"]
            /\ UNCHANGED acknowledged
  /\ UNCHANGED <<discarded, enqueuing, discarding, server, history, bounds>>

CommitDelete(t) ==
  /\ Running(t) /\ running[t].commit = "delete"
  /\ outbox' = [outbox EXCEPT ![t] = NoRow]
  /\ running' = [running EXCEPT ![t].commit = "done"]
  /\ UNCHANGED <<controller, enqueuing, discarding, server, history, bounds>>

CommitFails(t) ==
  /\ faults < MaxFaults
  /\ Running(t) /\ running[t].commit \in {"put", "delete"}
  /\ running' = [running EXCEPT ![t].commit = "done"]
  /\ faults' = faults + 1
  /\ UNCHANGED <<outbox, controller, enqueuing, discarding, server, history, sends>>

Finish(t) ==
  /\ At(t, "finish") /\ running[t].commit \in {"none", "done"}
  /\ running' = [running EXCEPT ![t] = Idle]
  /\ UNCHANGED <<outbox, controller, enqueuing, discarding, server, history, bounds>>

Cancel(t) ==
  /\ faults < MaxFaults
  /\ Running(t) /\ ~running[t].aborted
  /\ running' = [running EXCEPT ![t].aborted = TRUE]
  /\ faults' = faults + 1
  /\ UNCHANGED <<outbox, controller, enqueuing, discarding, server, history, sends>>

-----------------------------------------------------------------------------
(* discard: the tombstone first, then whatever is under way, then the row. *)

DiscardCall(t) ==
  /\ minted[t] # "unused"
  /\ discarding[t] = "no"
  /\ discarded' = discarded \cup {t}
  /\ discarding' = [discarding EXCEPT ![t] = "waiting"]
  /\ running' = IF Running(t) THEN [running EXCEPT ![t].aborted = TRUE] ELSE running
  /\ UNCHANGED <<outbox, acknowledged, enqueuing, server, history, bounds>>

(* Mutant: a discard does not wait for the run it aborted.                 *)
NothingUnderWay_Enqueue(t) == enqueuing[t] = "no"

NothingUnderWay(t) == enqueuing[t] = "no" /\ ~Running(t)

DiscardList(t) ==
  /\ discarding[t] = "waiting"
  /\ NothingUnderWay(t)
  /\ discarding' = [discarding EXCEPT ![t] = IF outbox[t] = NoRow THEN "no" ELSE "deleting"]
  /\ UNCHANGED <<outbox, controller, enqueuing, running, server, history, bounds>>

DiscardDelete(t) ==
  /\ discarding[t] = "deleting"
  /\ outbox' = [outbox EXCEPT ![t] = NoRow]
  /\ discarding' = [discarding EXCEPT ![t] = "no"]
  /\ erased' = erased \cup {t}
  /\ UNCHANGED <<controller, enqueuing, running, server, minted, queued, bounds>>

DiscardFails(t) ==
  /\ faults < MaxFaults
  /\ discarding[t] = "deleting"
  /\ discarding' = [discarding EXCEPT ![t] = "no"]
  /\ faults' = faults + 1
  /\ UNCHANGED <<outbox, controller, enqueuing, running, server, history, sends>>

-----------------------------------------------------------------------------
(* The process and the server.                                             *)

Restart ==
  /\ faults < MaxFaults
  /\ acknowledged' = {}
  /\ discarded' = {}
  /\ enqueuing' = [t \in Turns |-> "no"]
  /\ discarding' = [t \in Turns |-> "no"]
  /\ running' = [t \in Turns |-> Idle]
  /\ minted' = [t \in Turns |-> IF minted[t] = "current" THEN "past" ELSE minted[t]]
  /\ faults' = faults + 1
  /\ UNCHANGED <<outbox, server, queued, erased, sends>>

(* The time a row or a run's copy of it waits for has come.                *)
Elapse(t) ==
  /\ outbox[t].wait
  /\ outbox' = [outbox EXCEPT ![t].wait = FALSE]
  /\ running' = IF Running(t) THEN [running EXCEPT ![t].item.wait = FALSE] ELSE running
  /\ UNCHANGED <<controller, enqueuing, discarding, server, history, bounds>>

(* The server accepts the words of a transmission and saves the exchange,  *)
(* then or later, also when the client has stopped listening; it may give  *)
(* a transmission up, and then takes no step for it.                       *)
Accept(t) ==
  /\ posts[t] > 0
  /\ source[t] = "none"
  /\ source' = [source EXCEPT ![t] = "accepted"]
  /\ UNCHANGED <<outbox, controller, enqueuing, discarding, running, saved, posts, history, bounds>>

Save(t) ==
  /\ posts[t] > 0
  /\ source[t] = "accepted"
  /\ t \notin saved
  /\ saved' = saved \cup {t}
  /\ UNCHANGED <<outbox, controller, enqueuing, discarding, running, source, posts, history, bounds>>

(* The narrator withdraws or corrects the source from elsewhere.           *)
Change(t) ==
  /\ source[t] = "accepted"
  /\ source' = [source EXCEPT ![t] = "changed"]
  /\ UNCHANGED <<outbox, controller, enqueuing, discarding, running, saved, posts, history, bounds>>

-----------------------------------------------------------------------------
RunStep(t) ==
  \/ ListRow(t) \/ ReadReceipt(t) \/ ReceiptArrives(t) \/ PutRow(t) \/ PutRowFails(t)
  \/ SavedEvent(t) \/ CommitPut(t) \/ CommitDelete(t) \/ CommitFails(t) \/ Finish(t)
  \/ \E wait \in BOOLEAN : ReceiptFails(t, wait)
  \/ \E wait, caught \in BOOLEAN : StreamEnds(t, wait, caught)

CallStep(t) ==
  \/ EnqueueCall(t) \/ EnqueueList(t) \/ EnqueuePut(t) \/ EnqueuePutFails(t)
  \/ \E mode \in {"queued", "retry", "check"} : Start(t, mode)
  \/ Cancel(t)
  \/ DiscardCall(t) \/ DiscardList(t) \/ DiscardDelete(t) \/ DiscardFails(t)

ServerStep(t) == Accept(t) \/ Save(t) \/ Change(t)

Next == Restart \/ \E t \in Turns : RunStep(t) \/ CallStep(t) \/ ServerStep(t) \/ Elapse(t)

Spec == Init /\ [][Next]_vars

(* JavaScript goes on with what is settled, the vault answers, a request   *)
(* ends or is answered in the end, and the app checks what is pending each *)
(* time it comes to the foreground.                                        *)
Fairness ==
  \A t \in Turns :
    /\ WF_vars(ListRow(t)) /\ WF_vars(PutRow(t)) /\ WF_vars(Finish(t))
    /\ SF_vars(ReadReceipt(t)) /\ SF_vars(ReceiptArrives(t))
    /\ WF_vars(CommitPut(t)) /\ WF_vars(CommitDelete(t))
    /\ WF_vars(\E wait, caught \in BOOLEAN : StreamEnds(t, wait, caught))
    /\ WF_vars(EnqueueList(t)) /\ WF_vars(EnqueuePut(t))
    /\ WF_vars(DiscardList(t)) /\ WF_vars(DiscardDelete(t))
    /\ SF_vars(Start(t, "check"))

FairSpec == Spec /\ Fairness

-----------------------------------------------------------------------------
(* Properties.                                                             *)

(* Every variable has the values the code gives it.                        *)
TypeOK ==
  /\ outbox \in [Turns -> Row \cup {NoRow}]
  /\ acknowledged \subseteq Turns /\ discarded \subseteq Turns
  /\ enqueuing \in [Turns -> {"no", "waiting", "putting"}]
  /\ discarding \in [Turns -> {"no", "waiting", "deleting"}]
  /\ running \in [Turns -> Run \cup {Idle}]
  /\ source \in [Turns -> {"none", "accepted", "changed"}]
  /\ saved \subseteq Turns
  /\ posts \in [Turns -> 0..MaxSends]
  /\ minted \in [Turns -> {"unused", "current", "past"}]
  /\ queued \subseteq Turns /\ erased \subseteq Turns
  /\ sends \in 0..MaxSends /\ faults \in 0..MaxFaults

(* A turn that was durably queued, the moment the composer is cleared, is  *)
(* never lost: its row is in the vault until the server has saved the      *)
(* conversation or the narrator discarded it, whatever crashes, failed     *)
(* writes and interrupted streams come in between (persist, commit).       *)
NothingIsLost ==
  \A t \in queued : outbox[t] # NoRow \/ t \in saved \/ t \in erased

(* An acknowledged turn is saved at the server and its row is committed or *)
(* gone: no later write of the same run, no error handler and no check     *)
(* makes it pending again (commit, finishCommit, the catch of execute).    *)
AcknowledgedIsSettled ==
  \A t \in acknowledged : t \in saved /\ ~Uncommitted(outbox[t])

(* The project never has two pending turns, however many enqueue calls,    *)
(* discards and commits overlap (enqueue's serialized body).               *)
OnePendingTurn ==
  \A t, u \in Turns : Uncommitted(outbox[t]) /\ Uncommitted(outbox[u]) => t = u

(* A row that a discard deleted never comes back, neither from an enqueue  *)
(* nor from a run that was under way when the narrator confirmed (discard).*)
DiscardedStaysGone == \A t \in erased : outbox[t] = NoRow

(* The outbox keeps both promises: no queued turn is lost, and no discarded *)
(* one returns.                                                             *)
OutboxKeepsItsWord == NothingIsLost /\ DiscardedStaysGone

(* Transmissions.  A turn is sent only by a run the narrator asked for, not *)
(* cancelled, of a turn not discarded, and never by a run that began when   *)
(* the server had saved the turn or seen its source changed: any earlier    *)
(* attempt, also of a process that died, is reconciled first ("All retries  *)
(* read the latest local row and reconcile server state").                  *)
OnlyFreshTurnsAreSent ==
  [][\A t \in Turns :
       posts'[t] > posts[t] =>
         /\ running[t].mode # "check" /\ ~running[t].stale /\ ~running[t].aborted
         /\ t \notin discarded]_vars

(* A pending turn the server has saved is settled in the end by the checks *)
(* of the foreground, without ever being sent again, unless the narrator   *)
(* set its tombstone by a discard (check, finishCommit).                   *)
SavedSettles ==
  \A t \in Turns :
    (t \in saved /\ Uncommitted(outbox[t])) ~> (~Uncommitted(outbox[t]) \/ t \in discarded)

(* A discard the narrator confirmed comes to an end: what it waits for, an *)
(* enqueue behind the others' and an aborted run, does end (discard).      *)
DiscardsEnd == \A t \in Turns : discarding[t] # "no" ~> discarding[t] = "no"

(* Neither a saved turn nor a discard is left pending for ever.            *)
TurnsEnd == SavedSettles /\ DiscardsEnd

=============================================================================
