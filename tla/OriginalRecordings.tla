------------------------- MODULE OriginalRecordings -------------------------
(***************************************************************************)
(* The original audio of a spoken turn: the row that describes it          *)
(* (user_original_recording), the object in the private bucket, and the    *)
(* API requests that move between the two.  One upload key, hence at most  *)
(* one recording, stands for all of them.                                  *)
(*                                                                         *)
(* A request is a process; every call of recording_server_operation it     *)
(* makes is one transaction.  The exception is the guard: a "read" whose   *)
(* transaction, with its row locks, stays open over a read of the object,  *)
(* the call of the speech provider or the sending of a response.           *)
(***************************************************************************)
EXTENDS Naturals, FiniteSets

CONSTANTS
  Requests,   \* requests of one owner that the API serves at the same time
  MaxWrites,  \* bound: write_revision, beyond which no upload begins
  MaxFaults   \* bound: lost answers, timeouts and deaths

ASSUME RequestsAssumption == IsFiniteSet(Requests)
ASSUME BoundsAssumption == {MaxWrites, MaxFaults} \subseteq Nat

VARIABLES
  consent,    \* the owner's recording consent is in force
  rec,        \* the row of user_original_recording
  cancelled,  \* the upload key is in user_original_recording_cancel
  linked,     \* a row of user_source_recording was made for the recording
  source,     \* its narrator source is active
  object,     \* what the bucket holds under object_path
  late,       \* uploads whose caller gave up, still under way
  req,        \* what each request is doing
  faults,
  asked       \* the owner asked for the loss of the recording, draft or not

vars == <<consent, rec, cancelled, linked, source, object, late, req, faults, asked>>

-----------------------------------------------------------------------------
Object == {"none", "damaged", "whole"}

\* storage_status is "deleted" with the lifecycle; lifecycle "none": no row.
Recording ==
  [lifecycle : {"none", "draft", "attached", "deleted"}, ready : BOOLEAN,
   cleanup : {"not_requested", "pending", "complete"},
   writes : Nat, unfinished : Nat,
   asr : {"not_started", "failed", "succeeded"}, result : BOOLEAN]

NoRecording ==
  [lifecycle |-> "none", ready |-> FALSE, cleanup |-> "not_requested", writes |-> 0,
   unfinished |-> 0, asr |-> "not_started", result |-> FALSE]

\* The places where a request holds the guard.
Guarding == {"verifying", "loading", "transcribing", "sending"}

Place == Guarding \cup {"idle", "begin", "put", "verify", "finalize", "finish", "load",
  "recheck", "loaded", "failed", "respond", "delete", "discard", "erase", "report"}

Request == [pc : Place, goal : {"transcript", "content"}, ok : BOOLEAN, seen : Nat]
Idle == [pc |-> "idle", goal |-> "transcript", ok |-> FALSE, seen |-> 0]

Init ==
  /\ consent = FALSE
  /\ rec = NoRecording
  /\ cancelled = FALSE
  /\ linked = FALSE
  /\ source = FALSE
  /\ object = "none"
  /\ late = 0
  /\ req = [q \in Requests |-> Idle]
  /\ faults = 0
  /\ asked = FALSE

-----------------------------------------------------------------------------
(* Rows, locks and authority.                                              *)

Exists == rec.lifecycle # "none"

\* original_recording_visible
Visible ==
  /\ rec.lifecycle \in {"draft", "attached"}
  /\ ~cancelled
  /\ consent
  /\ rec.lifecycle = "attached" => linked /\ source

\* The rows a guard keeps locked: the owner's and the project's shared, the
\* recording's exclusively.  A draft may have no project yet.
Locks_NotTheOwner ==
  {"recording"} \cup IF rec.lifecycle = "attached" THEN {"project"} ELSE {}
Locks_NotTheProject == {"owner", "recording"}
Locks ==
  {"owner", "recording"} \cup IF rec.lifecycle = "attached" THEN {"project"} ELSE {}

Guarded == \E q \in Requests : req[q].pc \in Guarding

\* A transaction that needs this row exclusively can run now.
Unlocked(row) == Guarded => row \notin Locks

Goto(q, pc) == req' = [req EXCEPT ![q].pc = pc]
Ends(q) == req' = [req EXCEPT ![q] = Idle]

\* The row a logical deletion leaves.
Deleted_KeepsResult ==
  [rec EXCEPT !.lifecycle = "deleted", !.ready = FALSE,
              !.cleanup = IF @ = "complete" THEN @ ELSE "pending"]
Deleted ==
  [rec EXCEPT !.lifecycle = "deleted", !.ready = FALSE, !.result = FALSE,
              !.cleanup = IF @ = "complete" THEN @ ELSE "pending"]

Fault == faults < MaxFaults /\ faults' = faults + 1

outside == <<consent, source, linked>>
stored == <<object, late>>
quiet == <<faults, asked>>

-----------------------------------------------------------------------------
(* preserve: an upload, under an upload key that retries repeat.           *)

Begun_Untracked == [rec EXCEPT !.writes = @ + 1]
Begun == [rec EXCEPT !.writes = @ + 1, !.unfinished = @ + 1]

\* authorize, then reserve: a retry is given the row it made before.
Reserve(q) ==
  /\ req[q].pc = "idle"
  /\ consent /\ ~cancelled /\ rec.lifecycle # "deleted"
  /\ Exists => Unlocked("recording")
  /\ rec' = IF Exists THEN rec ELSE [rec EXCEPT !.lifecycle = "draft"]
  /\ Goto(q, IF rec.ready THEN "load" ELSE "begin")
  /\ UNCHANGED <<outside, cancelled, stored, quiet>>

Begin(q) ==
  /\ req[q].pc = "begin"
  /\ Unlocked("recording") /\ Visible
  /\ rec.writes < MaxWrites
  /\ rec' = Begun
  /\ Goto(q, "put")
  /\ UNCHANGED <<outside, cancelled, stored, quiet>>

\* An upload writes only where nothing is, and may write less than it was sent.
Written == IF object = "none" THEN {"whole", "damaged"} ELSE {object}

\* The bucket answers that it stored the object, or that there is one (409).
PutAnswered(q) ==
  /\ req[q].pc = "put"
  /\ object' \in Written
  /\ Goto(q, "verify")
  /\ UNCHANGED <<outside, rec, cancelled, late, quiet>>

\* Any other 4xx: nothing was written, and the writer has stopped.
PutRefused(q) ==
  /\ req[q].pc = "put"
  /\ Goto(q, "finish")
  /\ UNCHANGED <<outside, rec, cancelled, stored, quiet>>

\* What is left of an upload nobody waits for: it was refused, it wrote, or
\* it still will.
Abandoned ==
  \/ object' \in Written \cup {object} /\ late' = late
  \/ object' = object /\ late' = late + 1

\* A 5xx, a timeout or the death of the process: the attempt stays open.
PutUnanswered(q) ==
  /\ req[q].pc = "put"
  /\ Fault
  /\ Abandoned
  /\ Ends(q)
  /\ UNCHANGED <<outside, rec, cancelled, asked>>

Land ==
  /\ late > 0
  /\ late' = late - 1
  /\ object' \in Written \cup {object}
  /\ UNCHANGED <<outside, rec, cancelled, req, quiet>>

\* The readback: only the bytes that were sent are proof.
Proven_ByTheAnswer == object # "none"
Proven == object = "whole"

Verify(q) ==
  /\ req[q].pc = "verifying"
  /\ Goto(q, IF Proven THEN "finalize" ELSE "finish")
  /\ UNCHANGED <<outside, rec, cancelled, stored, quiet>>

Finalize(q) ==
  /\ req[q].pc = "finalize"
  /\ Unlocked("recording") /\ Visible
  /\ rec' = [rec EXCEPT !.ready = TRUE]
  /\ req' = [req EXCEPT ![q].pc = "finish", ![q].ok = TRUE]
  /\ UNCHANGED <<outside, cancelled, stored, quiet>>

\* finish_upload: the writer has stopped, so no DELETE before this counts.
Finished ==
  [rec EXCEPT !.writes = @ + 1, !.unfinished = @ - 1,
              !.cleanup = IF rec.lifecycle = "deleted" THEN "pending" ELSE @]

\* Of a deleted recording the finished writer removes the object itself; the
\* bytes it read are never transcribed then, for no guard would admit it.
Finish(q) ==
  /\ req[q].pc = "finish"
  /\ Unlocked("recording")
  /\ rec' = Finished
  /\ IF rec.lifecycle = "deleted" THEN Goto(q, "delete")
     ELSE IF req[q].ok THEN Goto(q, "loaded")
     ELSE Ends(q)
  /\ UNCHANGED <<outside, cancelled, stored, quiet>>

-----------------------------------------------------------------------------
(* Reading the original, transcribing it, answering with it.               *)

\* GET .../content, or a transcription by recording_id: metadata first.
Open(q) ==
  /\ req[q].pc = "idle"
  /\ Unlocked("recording") /\ Visible /\ rec.ready
  /\ \E goal \in {"transcript", "content"} :
       req' = [req EXCEPT ![q] = [pc |-> "load", goal |-> goal, ok |-> FALSE, seen |-> 0]]
  /\ UNCHANGED <<outside, rec, cancelled, stored, quiet>>

\* GET /recordings/by-upload/{key}: metadata, which nothing but the guard of
\* the response checks.  GET /recordings/{id} checks it twice.
Describe(q) ==
  /\ req[q].pc = "idle"
  /\ Exists
  /\ Goto(q, "respond")
  /\ UNCHANGED <<outside, rec, cancelled, stored, quiet>>

\* The guard: "read" in a transaction that is kept open.
Enter(q) ==
  /\ req[q].pc \in {"verify", "load", "loaded", "respond"}
  /\ Unlocked("recording") /\ Visible
  /\ Goto(q, CASE req[q].pc = "verify" -> "verifying"
               [] req[q].pc = "load" -> "loading"
               [] req[q].pc = "loaded" -> "transcribing"
               [] req[q].pc = "respond" -> "sending")
  /\ UNCHANGED <<outside, rec, cancelled, stored, quiet>>

\* content: the digest must be the reserved one.
Load(q) ==
  /\ req[q].pc = "loading"
  /\ IF Proven THEN Goto(q, "recheck") ELSE Ends(q)
  /\ UNCHANGED <<outside, rec, cancelled, stored, quiet>>

Recheck(q) ==
  /\ req[q].pc = "recheck"
  /\ Unlocked("recording") /\ Visible
  /\ Goto(q, IF req[q].goal = "content" THEN "respond" ELSE "loaded")
  /\ UNCHANGED <<outside, rec, cancelled, stored, quiet>>

\* A result another request saved meanwhile is used as it is; otherwise the
\* provider's is saved in the guard's own transaction.
Transcribed(q) ==
  /\ req[q].pc = "transcribing"
  /\ rec' = [rec EXCEPT !.asr = "succeeded", !.result = TRUE]
  /\ Goto(q, "respond")
  /\ UNCHANGED <<outside, cancelled, stored, quiet>>

\* The provider fails or hears nothing.
ProviderFails(q) ==
  /\ req[q].pc = "transcribing"
  /\ rec.asr # "succeeded"
  /\ Goto(q, "failed")
  /\ UNCHANGED <<outside, rec, cancelled, stored, quiet>>

\* asr_failed, after the guard: it must not overwrite a success.
RecordFailure(q) ==
  /\ req[q].pc = "failed"
  /\ Unlocked("recording") /\ Visible /\ rec.ready
  /\ rec' = IF rec.asr = "succeeded" THEN rec ELSE [rec EXCEPT !.asr = "failed"]
  /\ Ends(q)
  /\ UNCHANGED <<outside, cancelled, stored, quiet>>

Sent(q) ==
  /\ req[q].pc = "sending"
  /\ Ends(q)
  /\ UNCHANGED <<outside, rec, cancelled, stored, quiet>>

-----------------------------------------------------------------------------
(* Deletion.                                                               *)

\* A discard may come after the turn it belongs to was accepted.
Kept_Never(draftOnly) == FALSE
Kept(draftOnly) == draftOnly /\ rec.lifecycle = "attached"

DeleteRow(q, draftOnly) ==
  /\ Exists
  /\ Unlocked("recording")
  /\ IF Kept(draftOnly) THEN Ends(q) /\ rec' = rec
     ELSE /\ rec' = Deleted
          /\ req' = [req EXCEPT ![q].pc = "erase", ![q].seen = rec.writes]
  /\ UNCHANGED <<outside, cancelled, stored, faults>>

\* DELETE /recordings/{id}, of a draft only or of whatever it is.
Delete(q) ==
  /\ req[q].pc = "idle"
  /\ \E draftOnly \in BOOLEAN :
       DeleteRow(q, draftOnly) /\ asked' = (asked \/ ~draftOnly)

\* The same call, by cancel_upload or by a finished writer.
DeleteOnTheWay(q) ==
  /\ req[q].pc \in {"discard", "delete"}
  /\ DeleteRow(q, req[q].pc = "discard")
  /\ asked' = asked

\* DELETE /recordings/by-upload/{key}
Spared_Never == FALSE
Spared == rec.lifecycle = "attached"

Cancel(q) ==
  /\ req[q].pc = "idle"
  /\ Exists => Unlocked("recording")
  /\ IF Spared THEN UNCHANGED <<rec, cancelled, req>>
     ELSE /\ cancelled' = TRUE
          /\ rec' = IF Exists THEN Deleted ELSE rec
          /\ Goto(q, IF Exists THEN "discard" ELSE "idle")
  /\ UNCHANGED <<outside, stored, quiet>>

\* The bucket removes the object; its answer may take as long as it likes.  (A
\* DELETE that is lost on the way is a failure, one that comes late harmless.)
Erase(q) ==
  /\ req[q].pc = "erase"
  /\ object' = "none"
  /\ Goto(q, "report")
  /\ UNCHANGED <<outside, rec, cancelled, late, quiet>>

\* cleanup_complete: the receipt holds for the writers stopped before it.
Settled_AnyRevision(seen) == rec.unfinished = 0
Settled_AnyWriter(seen) == rec.writes = seen
Settled(seen) == rec.writes = seen /\ rec.unfinished = 0

Report(q) ==
  /\ req[q].pc = "report"
  /\ Unlocked("recording")
  /\ rec' = IF rec.lifecycle = "deleted" /\ Settled(req[q].seen)
            THEN [rec EXCEPT !.cleanup = "complete"] ELSE rec
  /\ Ends(q)
  /\ UNCHANGED <<outside, cancelled, stored, quiet>>

-----------------------------------------------------------------------------
(* The rest of the application.                                            *)

\* Consent is locked with the owner's row, and waits for every guard.
Grant ==
  /\ ~consent /\ Unlocked("owner")
  /\ consent' = TRUE
  /\ UNCHANGED <<rec, cancelled, linked, source, stored, req, quiet>>

Revoke ==
  /\ consent /\ Unlocked("owner")
  /\ consent' = FALSE
  /\ UNCHANGED <<rec, cancelled, linked, source, stored, req, quiet>>

\* accept_recorded_interview_turn
Attach ==
  /\ Unlocked("recording") /\ Unlocked("project")
  /\ Visible /\ rec.ready /\ rec.lifecycle = "draft"
  /\ rec' = [rec EXCEPT !.lifecycle = "attached"]
  /\ linked' = TRUE
  /\ source' = TRUE
  /\ UNCHANGED <<consent, cancelled, stored, req, quiet>>

\* change_user_narrator_source_record, "withdraw": the audio stays, unread.
Withdraw ==
  /\ source /\ Unlocked("project")
  /\ source' = FALSE
  /\ UNCHANGED <<consent, rec, cancelled, linked, stored, req, quiet>>

\* The source or the project is deleted, and with it the recording: of a draft
\* too, if it was uploaded for that project.
Tombstone ==
  /\ rec.lifecycle \in {"draft", "attached"}
  /\ Unlocked("project") /\ Unlocked("recording")
  /\ rec' = Deleted
  /\ source' = FALSE
  /\ asked' = TRUE
  /\ UNCHANGED <<consent, cancelled, linked, stored, req, faults>>

-----------------------------------------------------------------------------
(* Failures.                                                               *)

\* Where an exception leaves a request: an upload whose writer has stopped is
\* finished all the same, and a finish that failed does not spoil the upload.
Raised(q) ==
  CASE req[q].pc \in {"verify", "verifying", "finalize"} -> Goto(q, "finish")
    [] req[q].pc = "finish" /\ req[q].ok -> Goto(q, "loaded")
    [] OTHER -> Ends(q)

\* The database refuses what is no longer permitted.
Refused(q) ==
  /\ req[q].pc \in {"begin", "verify", "finalize", "load", "recheck", "loaded", "failed", "respond"}
  /\ Unlocked("recording") /\ ~Visible
  /\ Raised(q)
  /\ UNCHANGED <<outside, rec, cancelled, stored, quiet>>

\* A lock or statement timeout, or a call of the bucket or the provider that
\* fails: the transaction, and with it a guard, is rolled back.
Fails(q) ==
  /\ req[q].pc \notin {"idle", "put"}
  /\ Fault
  /\ Raised(q)
  /\ UNCHANGED <<outside, rec, cancelled, stored, asked>>

\* The process dies where a failure would have had a sequel.  Elsewhere its
\* death is a failure, or an upload that is not answered; its connection
\* closes, which ends a guard.
Die(q) ==
  /\ req[q].pc \in {"verify", "finalize", "finish"}
  /\ Fault
  /\ Ends(q)
  /\ UNCHANGED <<outside, rec, cancelled, stored, asked>>

Step(q) ==
  \/ Reserve(q) \/ Begin(q) \/ PutAnswered(q) \/ PutRefused(q) \/ PutUnanswered(q)
  \/ Verify(q) \/ Finalize(q) \/ Finish(q)
  \/ Open(q) \/ Describe(q) \/ Enter(q) \/ Load(q) \/ Recheck(q)
  \/ Transcribed(q) \/ ProviderFails(q) \/ RecordFailure(q) \/ Sent(q)
  \/ Delete(q) \/ DeleteOnTheWay(q) \/ Cancel(q) \/ Erase(q) \/ Report(q)
  \/ Refused(q) \/ Fails(q) \/ Die(q)

Next ==
  \/ \E q \in Requests : Step(q)
  \/ Land \/ Grant \/ Revoke \/ Attach \/ Withdraw \/ Tombstone

Spec == Init /\ [][Next]_vars

-----------------------------------------------------------------------------
TypeOK ==
  /\ {consent, cancelled, linked, source, asked} \subseteq BOOLEAN
  /\ rec \in Recording
  /\ object \in Object
  /\ late \in 0..MaxFaults
  /\ req \in [Requests -> Request]
  /\ faults \in 0..MaxFaults

\* "complete" is never a false claim of erasure: nothing is in the bucket, and
\* no upload, given up or not, can still put something there.  A deleted
\* recording has no transcript either (cleanup_complete, finish_upload).
ErasureIsReal ==
  /\ rec.cleanup = "complete" =>
       object = "none" /\ late = 0 /\ \A q \in Requests : req[q].pc # "put"
  /\ rec.lifecycle = "deleted" => ~rec.result

\* While bytes are read, sent to the provider or published, the owner's
\* consent holds, the recording is neither cancelled nor deleted, and the
\* testimony it belongs to is not withdrawn (provider_guard).
ReadingIsPermitted == Guarded => Visible

\* A recording acknowledged as saved is in the bucket, every byte of it,
\* whatever other uploads under its key did or still do (finalize).
ReadyIsStored == rec.ready => object = "whole"

\* The audio of an accepted turn is lost only if its owner asks for that:
\* discarding or cancelling a draft never takes it, however late it comes.
AcceptedVoiceIsKept == linked /\ rec.lifecycle = "deleted" => asked

\* A recording shown as saved is kept: its bytes are in the bucket, and an
\* accepted one stays until its owner asks for its deletion.
VoiceIsKept == ReadyIsStored /\ AcceptedVoiceIsKept
=============================================================================
