----------------------------- MODULE TurnLease -----------------------------
(***************************************************************************)
(* The lease that serialises one owner's conversation turns over all API   *)
(* processes: AgentTurnLease of apps/api/agent_lock.py, an asynchronous    *)
(* context manager over the row user_agent_turn_lease.                     *)
(*                                                                         *)
(* A session is one AgentTurnLease object with its own random token: the   *)
(* task that runs the turn (its owner), a heartbeat task, and database     *)
(* calls in threads.  Cancelling a task does not stop its thread, so every *)
(* call is settled before the CancelledError is raised.                    *)
(***************************************************************************)
EXTENDS Naturals

CONSTANTS
  Sessions,     \* AgentTurnLease objects, in any number of processes
  NoSession,
  MaxCancels,   \* bound: cancellations by the client, for each session
  MaxFaults     \* bound: failed calls, stalls and deaths

ASSUME SessionsAssumption == NoSession \notin Sessions
ASSUME BoundsAssumption == MaxCancels \in Nat /\ MaxFaults \in Nat

VARIABLES
  row,        \* whose lease_token the owner's row holds
  live,       \* expires_at > now()
  owner,      \* the task inside "async with", by session
  beat,       \* its heartbeat task
  cancels,    \* cancellations the client sent to the owner
  faults,
  writer,     \* the session of the last accepted fenced write
  overtaken,  \* sessions that wrote before another one did
  intruded,   \* sessions during which another one was granted the lease
  failed      \* sessions that died or one of whose calls failed

vars == <<row, live, owner, beat, cancels, faults, writer, overtaken, intruded, failed>>

-----------------------------------------------------------------------------
Reply == {"none", "sent", "true", "false", "error"}

Owner == [pc : {"new", "acquire", "backout", "body", "check", "commit", "settle",
                "release", "over", "dead"},
          op : {"none", "acquire", "release", "renew", "commit"},
          call : Reply,          \* the database call the owner waits for
          cancelled : BOOLEAN,   \* raise CancelledError once the call is settled
          exc : {"none", "error", "cancelled"},
          lost : BOOLEAN,        \* _lost
          requested : BOOLEAN,   \* _cancel_requested
          cancelling : Nat,      \* Task.cancelling()
          outcome : {"none", "ok", "busy", "error", "lost", "cancelled"}]

Beat == [pc : {"off", "asleep", "renew", "over", "dead"}, call : Reply, cancelled : BOOLEAN]

NewOwner == [pc |-> "new", op |-> "none", call |-> "none", cancelled |-> FALSE, exc |-> "none",
             lost |-> FALSE, requested |-> FALSE, cancelling |-> 0, outcome |-> "none"]

Init ==
  /\ row = NoSession
  /\ live = FALSE
  /\ owner = [s \in Sessions |-> NewOwner]
  /\ beat = [s \in Sessions |-> [pc |-> "off", call |-> "none", cancelled |-> FALSE]]
  /\ cancels = [s \in Sessions |-> 0]
  /\ faults = 0
  /\ writer = NoSession
  /\ overtaken = {}
  /\ intruded = {}
  /\ failed = {}

\* The owner starts a database call and awaits it through io.
Sends(o, pc, op) == [o EXCEPT !.pc = pc, !.op = op, !.call = "sent", !.cancelled = FALSE]

\* The session is over; only its outcome is of interest from now on.
Ends(outcome) == [NewOwner EXCEPT !.pc = "over", !.outcome = outcome]

\* The awaited call is settled and nobody cancelled meanwhile, or somebody did.
Settled(s) == owner[s].call \in {"true", "false", "error"}

Returns(s, pc, reply) ==
  /\ owner[s].pc = pc
  /\ ~owner[s].cancelled
  /\ owner[s].call = reply

Raises(s, pc) == owner[s].pc = pc /\ Settled(s) /\ owner[s].cancelled

\* Between the grant and the release, as far as the session can know.
Inside(s) ==
  \/ owner[s].pc \in {"body", "check", "commit", "settle"}
  \/ owner[s].pc = "release" /\ owner[s].call = "sent"
  \/ owner[s].pc = "acquire" /\ owner[s].call = "true"

-----------------------------------------------------------------------------
(* The database.                                                           *)

Free == row = NoSession \/ ~live

\* Mutant: the token is not compared.
Held_ByAnyone(s) == row # NoSession /\ live

Held(s) == row = s /\ live

\* Release deletes the row of this token, expired or not (and, answer or not,
\* the interview guidance prepared under it, which is not modelled here).
Deletable(s) == row = s

\* acquire_, renew_ and release_user_agent_turn_lease, and a write fenced by
\* capture_lifetime_fence: what each answers and does.
Answer(op, s) ==
  CASE op = "acquire" -> Free
    [] op = "release" -> Deletable(s)
    [] OTHER -> Held(s)

Execute(op, s) ==
  IF ~Answer(op, s) THEN UNCHANGED <<row, live, writer, overtaken, intruded>>
  ELSE
    /\ row' = CASE op = "acquire" -> s [] op = "release" -> NoSession [] OTHER -> row
    /\ live' = IF op = "commit" THEN live ELSE op # "release"
    /\ writer' = IF op = "commit" THEN s ELSE writer
    /\ overtaken' = overtaken \cup
         {t \in Sessions \ {s} : op = "commit" /\ writer = t}
    /\ intruded' = intruded \cup
         {t \in Sessions \ {s} : op = "acquire" /\ Inside(t)}

\* A call that was sent executes and answers; or its answer is lost; or it is
\* lost itself.  The calls of a dead process may still execute.
Serve(op, s, reply) ==
  \/ /\ Execute(op, s)
     /\ reply = IF Answer(op, s) THEN "true" ELSE "false"
     /\ UNCHANGED <<faults, failed>>
  \/ /\ faults < MaxFaults
     /\ faults' = faults + 1
     /\ failed' = failed \cup {s}
     /\ reply = "error"
     /\ Execute(op, s) \/ UNCHANGED <<row, live, writer, overtaken, intruded>>

ServeOwner(s) ==
  /\ owner[s].call = "sent"
  /\ \E reply \in Reply :
       /\ Serve(owner[s].op, s, reply)
       /\ owner' = [owner EXCEPT ![s].call = reply]
  /\ UNCHANGED <<beat, cancels>>

ServeBeat(s) ==
  /\ beat[s].call = "sent"
  /\ \E reply \in Reply :
       /\ Serve("renew", s, reply)
       /\ beat' = [beat EXCEPT ![s].call = reply]
  /\ UNCHANGED <<owner, cancels>>

\* expires_at passes.  While a process runs the session this takes a stall:
\* the heartbeat renews at a third of the lease.
Lapse ==
  /\ row # NoSession
  /\ live
  /\ live' = FALSE
  /\ IF owner[row].pc \in {"over", "dead"}
     THEN faults' = faults
     ELSE faults < MaxFaults /\ faults' = faults + 1
  /\ UNCHANGED <<row, owner, beat, cancels, writer, overtaken, intruded, failed>>

-----------------------------------------------------------------------------
(* The owner.                                                              *)

Enter(s) ==
  /\ owner[s].pc = "new"
  /\ owner' = [owner EXCEPT ![s] = Sends(@, "acquire", "acquire")]
  /\ UNCHANGED <<row, live, beat, cancels, faults, writer, overtaken, intruded, failed>>

\* __aenter__: granted, busy, or the call failed.
Entered(s) ==
  /\ \/ /\ Returns(s, "acquire", "true")
        /\ owner' = [owner EXCEPT ![s].pc = "body", ![s].op = "none", ![s].call = "none"]
        /\ beat' = [beat EXCEPT ![s].pc = "asleep"]
     \/ /\ Returns(s, "acquire", "false")
        /\ owner' = [owner EXCEPT ![s] = Ends("busy")]
        /\ beat' = beat
     \/ /\ Returns(s, "acquire", "error")
        /\ owner' = [owner EXCEPT ![s] = Ends("error")]
        /\ beat' = beat
  /\ UNCHANGED <<row, live, cancels, faults, writer, overtaken, intruded, failed>>

\* Mutant: the cancelled acquisition is not released.
AfterCancelledAcquire_Leaves(s) == Ends("cancelled")

\* The acquisition may have succeeded: release its random token.
AfterCancelledAcquire(s) == Sends(owner[s], "backout", "release")

EnterCancelled(s) ==
  /\ Raises(s, "acquire")
  /\ owner' = [owner EXCEPT ![s] = AfterCancelledAcquire(s)]
  /\ UNCHANGED <<row, live, beat, cancels, faults, writer, overtaken, intruded, failed>>

\* Whatever that release answered, CancelledError is raised.
BackedOut(s) ==
  /\ owner[s].pc = "backout"
  /\ Settled(s)
  /\ owner' = [owner EXCEPT ![s] = Ends("cancelled")]
  /\ UNCHANGED <<row, live, beat, cancels, faults, writer, overtaken, intruded, failed>>

\* Mutant: the row is released without waiting for the heartbeat.
Leaving_AtOnce(s, o, exc) == [Sends(o, "release", "release") EXCEPT !.exc = exc]

\* __aexit__ cancels the heartbeat; unless that task is over it is awaited.
Leaving(s, o, exc) ==
  IF beat[s].pc = "over" THEN [Sends(o, "release", "release") EXCEPT !.exc = exc]
  ELSE [o EXCEPT !.pc = "settle", !.op = "none", !.call = "none", !.cancelled = FALSE,
                 !.exc = exc]

StoppedBeat(s) == IF beat[s].pc = "over" THEN beat[s] ELSE [beat[s] EXCEPT !.cancelled = TRUE]

Leave(s, o, exc) ==
  /\ owner' = [owner EXCEPT ![s] = Leaving(s, o, exc)]
  /\ beat' = [beat EXCEPT ![s] = StoppedBeat(s)]

\* The body ends, by itself or with an error of its own.
Finish(s) ==
  /\ owner[s].pc = "body"
  /\ \E exc \in {"none", "error"} : Leave(s, owner[s], exc)
  /\ UNCHANGED <<row, live, cancels, faults, writer, overtaken, intruded, failed>>

\* The body writes under the lease, or checks it first (check).
Write(s) ==
  /\ owner[s].pc = "body"
  /\ owner' = [owner EXCEPT ![s] = Sends(@, "commit", "commit")]
  /\ UNCHANGED <<row, live, beat, cancels, faults, writer, overtaken, intruded, failed>>

Check(s) ==
  /\ owner[s].pc = "body"
  /\ ~owner[s].lost
  /\ owner' = [owner EXCEPT ![s] = Sends(@, "check", "renew")]
  /\ UNCHANGED <<row, live, beat, cancels, faults, writer, overtaken, intruded, failed>>

\* The call returns: on with the body, or out of it with an error.  A check
\* that is refused marks the lease as lost.
Continue(s) ==
  /\ owner[s].pc \in {"commit", "check"}
  /\ Settled(s)
  /\ ~owner[s].cancelled
  /\ IF owner[s].call = "true"
     THEN /\ owner' = [owner EXCEPT ![s].pc = "body", ![s].op = "none", ![s].call = "none"]
          /\ beat' = beat
     ELSE Leave(s, [owner[s] EXCEPT !.lost = @ \/ (owner[s].pc = "check" /\ owner[s].call = "false")],
                "error")
  /\ UNCHANGED <<row, live, cancels, faults, writer, overtaken, intruded, failed>>

\* The awaited call of a cancelled owner is settled: CancelledError.
Interrupted(s) ==
  /\ Raises(s, "commit") \/ Raises(s, "check")
  /\ Leave(s, owner[s], "cancelled")
  /\ UNCHANGED <<row, live, cancels, faults, writer, overtaken, intruded, failed>>

\* The heartbeat is over; now the row is released.
Release(s) ==
  /\ owner[s].pc = "settle"
  /\ beat[s].pc = "over"
  /\ owner' = [owner EXCEPT ![s] = Sends(@, "release", "release")]
  /\ UNCHANGED <<row, live, beat, cancels, faults, writer, overtaken, intruded, failed>>

\* Mutants: a release that found no row is not an error; the lease's own
\* cancellation is passed on.
Outcome_AnyRelease(o) ==
  CASE o.cancelled -> "cancelled"
    [] o.exc = "error" -> "error"
    [] o.exc = "cancelled" /\ (~o.requested \/ o.cancelling > 1) -> "cancelled"
    [] o.lost -> "lost"
    [] OTHER -> "ok"
Outcome_KeepsOwnCancel(o) ==
  CASE o.cancelled -> "cancelled"
    [] o.call # "true" /\ o.exc = "none" -> "error"
    [] o.exc = "error" -> "error"
    [] o.exc = "cancelled" -> "cancelled"
    [] o.lost -> "lost"
    [] OTHER -> "ok"

\* The end of __aexit__: cancelled during the release; a release that failed
\* or found no row matters unless an exception is under way; the lease's own
\* cancellation is consumed and becomes "lost", the client's is preserved.
Outcome(o) ==
  CASE o.cancelled -> "cancelled"
    [] o.call # "true" /\ o.exc = "none" -> "error"
    [] o.exc = "error" -> "error"
    [] o.exc = "cancelled" /\ (~o.requested \/ o.cancelling > 1) ->
         IF ~o.requested /\ o.lost THEN "lost" ELSE "cancelled"
    [] o.lost -> "lost"
    [] OTHER -> "ok"

Exit(s) ==
  /\ owner[s].pc = "release"
  /\ Settled(s)
  /\ owner' = [owner EXCEPT ![s] = Ends(Outcome(@))]
  /\ UNCHANGED <<row, live, beat, cancels, faults, writer, overtaken, intruded, failed>>

-----------------------------------------------------------------------------
(* The heartbeat.                                                          *)

Tick(s) ==
  /\ beat[s].pc = "asleep"
  /\ ~beat[s].cancelled
  /\ beat' = [beat EXCEPT ![s].pc = "renew", ![s].call = "sent"]
  /\ UNCHANGED <<row, live, owner, cancels, faults, writer, overtaken, intruded, failed>>

Renewed(s) ==
  /\ beat[s].pc = "renew"
  /\ beat[s].call = "true"
  /\ ~beat[s].cancelled
  /\ beat' = [beat EXCEPT ![s].pc = "asleep", ![s].call = "none"]
  /\ UNCHANGED <<row, live, owner, cancels, faults, writer, overtaken, intruded, failed>>

\* Mutant: a refused renewal only sets the flag.
LosingOwner_FlagOnly(s) == [owner[s] EXCEPT !.lost = TRUE]

\* _lose: the renewal failed or was refused; cancel the owner and remember it.
LosingOwner(s) ==
  LET o == [owner[s] EXCEPT !.lost = TRUE, !.requested = TRUE, !.cancelling = @ + 1]
  IN IF o.pc = "body"
     THEN [Sends(o, "release", "release") EXCEPT !.exc = "cancelled"]
     ELSE [o EXCEPT !.cancelled = TRUE]

Lose(s) ==
  /\ beat[s].pc = "renew"
  /\ beat[s].call \in {"false", "error"}
  /\ ~beat[s].cancelled
  /\ owner' = [owner EXCEPT ![s] = LosingOwner(s)]
  /\ beat' = [beat EXCEPT ![s].pc = "over", ![s].call = "none"]
  /\ UNCHANGED <<row, live, cancels, faults, writer, overtaken, intruded, failed>>

\* A cancelled heartbeat ends, after the renewal it waits for is settled.
BeatEnds(s) ==
  /\ beat[s].pc \in {"asleep", "renew"}
  /\ beat[s].cancelled
  /\ beat[s].call # "sent"
  /\ beat' = [beat EXCEPT ![s] = [pc |-> "over", call |-> "none", cancelled |-> FALSE]]
  /\ UNCHANGED <<row, live, owner, cancels, faults, writer, overtaken, intruded, failed>>

-----------------------------------------------------------------------------
(* The client and the process.                                             *)

\* Task.cancel(): raised at once if the owner awaits something else than a
\* database call or its heartbeat, after the call is settled, or not at all
\* while it awaits the heartbeat it has cancelled.
ClientCancel(s) ==
  /\ owner[s].pc \notin {"new", "over", "dead"}
  /\ cancels[s] < MaxCancels
  /\ cancels' = [cancels EXCEPT ![s] = @ + 1]
  /\ LET o == [owner[s] EXCEPT !.cancelling = @ + 1]
     IN IF o.pc = "body" THEN Leave(s, o, "cancelled")
        ELSE /\ owner' = [owner EXCEPT ![s] = [o EXCEPT !.cancelled = o.pc # "settle"]]
             /\ beat' = beat
  /\ UNCHANGED <<row, live, faults, writer, overtaken, intruded, failed>>

\* The process dies.  What it sent may still execute.
Die(s) ==
  /\ owner[s].pc \notin {"new", "over", "dead"}
  /\ faults < MaxFaults
  /\ faults' = faults + 1
  /\ failed' = failed \cup {s}
  /\ owner' = [owner EXCEPT ![s] = [NewOwner EXCEPT !.pc = "dead", !.op = owner[s].op,
                                                    !.call = owner[s].call]]
  /\ beat' = [beat EXCEPT ![s].pc = "dead", ![s].cancelled = FALSE]
  /\ UNCHANGED <<row, live, cancels, writer, overtaken, intruded>>

-----------------------------------------------------------------------------
Run(s) ==
  \/ Enter(s) \/ Entered(s) \/ EnterCancelled(s) \/ BackedOut(s)
  \/ Finish(s) \/ Write(s) \/ Check(s) \/ Continue(s) \/ Interrupted(s)
  \/ Release(s) \/ Exit(s)

Heartbeat(s) == Tick(s) \/ Renewed(s) \/ Lose(s) \/ BeatEnds(s)

Database(s) == ServeOwner(s) \/ ServeBeat(s)

Next ==
  \/ \E s \in Sessions : Run(s) \/ Heartbeat(s) \/ Database(s) \/ ClientCancel(s) \/ Die(s)
  \/ Lapse

Spec == Init /\ [][Next]_vars

\* An event loop resumes its tasks, and a call of a living process is settled
\* (requests have timeouts).  Nothing makes the body of a turn end.
FairSpec ==
  /\ Spec
  /\ \A s \in Sessions :
       /\ WF_vars(Continue(s) \/ Interrupted(s) \/ Release(s) \/ Exit(s) \/ BeatEnds(s))
       /\ WF_vars(owner[s].pc # "dead" /\ Database(s))

-----------------------------------------------------------------------------
(* Properties.                                                             *)

TypeOK ==
  /\ row \in Sessions \cup {NoSession}
  /\ live \in BOOLEAN
  /\ owner \in [Sessions -> Owner]
  /\ beat \in [Sessions -> Beat]
  /\ cancels \in [Sessions -> 0..MaxCancels]
  /\ faults \in 0..MaxFaults
  /\ writer \in Sessions \cup {NoSession}
  /\ overtaken \subseteq Sessions
  /\ intruded \subseteq Sessions
  /\ failed \subseteq Sessions
  /\ \A s \in Sessions :
       /\ owner[s].pc \in {"new", "acquire", "backout"} => beat[s].pc = "off"
       /\ owner[s].pc = "release" => beat[s].pc = "over"

\* A turn that ends without an error was alone from its grant to its release:
\* nobody else was granted the lease meanwhile, though it may have expired.
CleanExitWasExclusive ==
  \A s \in Sessions : owner[s].outcome = "ok" => s \notin intruded

\* Turns do not interleave their writes: once another session wrote, an
\* earlier one that still believes it holds the lease never writes again.
WritesDoNotInterleave == writer \notin overtaken

\* Turns exclude each other: those that end without an error were alone, and
\* those that were overtaken write no more.
TurnsExclude == CleanExitWasExclusive /\ WritesDoNotInterleave

\* A session that is over leaves no row behind, also when the client went away
\* during the acquisition, unless one of its own calls failed.
NoStrandedLease ==
  \A s \in Sessions \ failed : owner[s].pc = "over" => row # s

\* "Consume only our cancellation": the cancellation the heartbeat sends to
\* its own turn never reaches the caller as if the client had cancelled.
OnlyAClientCancels ==
  \A s \in Sessions : owner[s].outcome = "cancelled" => cancels[s] > 0

\* "Settle outstanding IO before releasing the lease or closing the request's
\* HTTP client": no heartbeat call outlives the session.
NothingRunsAfterExit ==
  \A s \in Sessions : owner[s].pc = "over" => beat[s].pc # "renew"

\* A session ends as its caller may expect: cancelled only by a client, and
\* with nothing of its own still running.
ExitsAreClean == OnlyAClientCancels /\ NothingRunsAfterExit

\* A turn whose heartbeat lost the lease ends: the heartbeat interrupts it.
LossEndsTheTurn ==
  \A s \in Sessions : owner[s].lost ~> owner[s].pc \in {"over", "dead"}
=============================================================================
