---------------------- MODULE OriginalRecordingsProofs ----------------------
(***************************************************************************)
(* For any number of requests, and whatever the bounds: the safety         *)
(* properties of OriginalRecordings are invariants of its specification.   *)
(***************************************************************************)
EXTENDS OriginalRecordings, FiniteSetTheorems, TLAPS

\* The requests whose upload is counted as unfinished.
Writing == {"put", "verify", "verifying", "finalize", "finish"}
Writers == {q \in Requests : req[q].pc \in Writing}

\* Every writer, and every upload still under way, is in the count.
WritersCounted ==
  /\ Cardinality(Writers) + late <= rec.unfinished
  /\ late <= faults

\* Once complete, nothing can put the object back.
CleanupIsFinal ==
  rec.cleanup = "complete" =>
    rec.lifecycle = "deleted" /\ rec.unfinished = 0 /\ object = "none"

\* What came back since a DELETE is betrayed by the count, or by the revision.
ReceiptsHold ==
  \A q \in Requests :
    /\ req[q].seen <= rec.writes
    /\ req[q].pc = "report" /\ req[q].seen = rec.writes /\ object # "none" =>
         rec.unfinished > 0

\* Only a deleted recording is erased, and none is ever revived.
DeletionIsFinal ==
  /\ rec.lifecycle = "deleted" => ~rec.ready /\ ~rec.result
  /\ \A q \in Requests :
       req[q].pc \in {"delete", "discard", "erase", "report"} => rec.lifecycle = "deleted"

\* The bytes a request has verified stay where they are.
VerifiedIsStored ==
  \A q \in Requests : req[q].pc = "finalize" => rec.lifecycle = "deleted" \/ object = "whole"

\* A recording is linked by its acceptance only.
LinkedWasAccepted ==
  /\ rec.lifecycle \in {"none", "draft"} => ~linked
  /\ rec.lifecycle = "attached" => linked

IInv ==
  /\ TypeOK
  /\ WritersCounted
  /\ CleanupIsFinal
  /\ ReceiptsHold
  /\ DeletionIsFinal
  /\ VerifiedIsStored
  /\ LinkedWasAccepted
  /\ ReadingIsPermitted
  /\ ReadyIsStored
  /\ AcceptedVoiceIsKept

-----------------------------------------------------------------------------
(* How a step of one request changes the table of requests.                *)

OnlyMoves(q) ==
  /\ req' \in [Requests -> Request]
  /\ \A p \in Requests \ {q} : req'[p] = req[p]

LEMMA GotoMoves ==
  ASSUME NEW q \in Requests, NEW pc \in Place, req \in [Requests -> Request], Goto(q, pc)
  PROVE  /\ OnlyMoves(q)
         /\ req'[q].pc = pc
         /\ req'[q].seen = req[q].seen
  BY DEF OnlyMoves, Goto, Request, Place, Guarding

LEMMA EndsMoves ==
  ASSUME NEW q \in Requests, req \in [Requests -> Request], Ends(q)
  PROVE  /\ OnlyMoves(q)
         /\ req'[q].pc = "idle"
         /\ req'[q].seen = 0
  BY DEF OnlyMoves, Ends, Idle, Request, Place, Guarding

\* A writer more, a writer less, or the same writers.
LEMMA WritersMove ==
  ASSUME NEW q \in Requests, req \in [Requests -> Request], OnlyMoves(q)
  PROVE  /\ Cardinality(Writers) \in Nat
         /\ Cardinality(Writers)' \in Nat
         /\ req'[q].pc \in Writing /\ req[q].pc \notin Writing =>
              Cardinality(Writers)' = Cardinality(Writers) + 1
         /\ req'[q].pc \notin Writing /\ req[q].pc \in Writing =>
              Cardinality(Writers)' = Cardinality(Writers) - 1
         /\ (req'[q].pc \in Writing <=> req[q].pc \in Writing) =>
              Cardinality(Writers)' = Cardinality(Writers)
<1>1. IsFiniteSet(Writers) /\ Cardinality(Writers) \in Nat
  <2>1. Writers \subseteq Requests
    BY DEF Writers
  <2>2. QED
    BY <2>1, RequestsAssumption, FS_Subset, FS_CardinalityType
<1>2. CASE req'[q].pc \in Writing /\ req[q].pc \notin Writing
  <2>1. Writers' = Writers \cup {q} /\ q \notin Writers
    BY <1>2 DEF Writers, OnlyMoves
  <2>2. Cardinality(Writers') = Cardinality(Writers) + 1
    BY <1>1, <2>1, FS_AddElement
  <2>3. QED
    BY <1>1, <1>2, <2>2
<1>3. CASE req'[q].pc \notin Writing /\ req[q].pc \in Writing
  <2>1. Writers' = Writers \ {q} /\ q \in Writers
    BY <1>3 DEF Writers, OnlyMoves
  <2>2. Cardinality(Writers') = Cardinality(Writers) - 1
    BY <1>1, <2>1, FS_RemoveElement
  <2>3. Cardinality(Writers') \in Nat
    BY <1>1, <2>1, FS_RemoveElement, FS_CardinalityType
  <2>4. QED
    BY <1>1, <1>3, <2>2, <2>3
<1>4. CASE req'[q].pc \in Writing <=> req[q].pc \in Writing
  <2>1. Writers' = Writers
    BY <1>4 DEF Writers, OnlyMoves
  <2>2. QED
    BY <1>1, <1>4, <2>1
<1>5. QED
  BY <1>2, <1>3, <1>4

\* A request that moves, and changes nothing else, keeps the invariant where
\* the place it moves to asks for nothing that is not there.
LEMMA Moving ==
  ASSUME IInv, NEW q \in Requests, OnlyMoves(q),
         UNCHANGED <<consent, rec, cancelled, linked, source, object, late, asked>>,
         faults' \in faults..MaxFaults,
         req'[q].pc \in Writing => req[q].pc \in Writing,
         req'[q].pc \in Guarding => Visible,
         req'[q].pc \in {"delete", "discard", "erase", "report"} => rec.lifecycle = "deleted",
         req'[q].pc = "finalize" => rec.lifecycle = "deleted" \/ object = "whole",
         req'[q].pc # "report",
         req'[q].seen <= rec.writes
  PROVE  IInv'
<1>1. TypeOK'
  BY BoundsAssumption DEF IInv, TypeOK, OnlyMoves
<1>2. WritersCounted'
  <2>1. Cardinality(Writers)' <= Cardinality(Writers)
    BY WritersMove DEF IInv, TypeOK
  <2>2. Cardinality(Writers) \in Nat /\ Cardinality(Writers)' \in Nat
    BY WritersMove DEF IInv, TypeOK
  <2>3. QED
    BY <2>1, <2>2, BoundsAssumption DEF IInv, TypeOK, WritersCounted, Recording
<1>3. CleanupIsFinal' /\ LinkedWasAccepted' /\ ReadyIsStored' /\ AcceptedVoiceIsKept'
  BY DEF IInv, CleanupIsFinal, LinkedWasAccepted, ReadyIsStored, AcceptedVoiceIsKept
<1>4. ReceiptsHold'
  BY DEF IInv, ReceiptsHold, OnlyMoves
<1>5. DeletionIsFinal' /\ VerifiedIsStored'
  BY DEF IInv, DeletionIsFinal, VerifiedIsStored, OnlyMoves
<1>6. ReadingIsPermitted'
  BY DEF IInv, ReadingIsPermitted, Guarded, Visible, OnlyMoves
<1>7. QED
  BY <1>1, <1>2, <1>3, <1>4, <1>5, <1>6 DEF IInv

-----------------------------------------------------------------------------
(* The steps of one request that change nothing but its place.             *)

LEMMA NoGuard ==
  ASSUME Unlocked("recording")
  PROVE  ~Guarded
  BY DEF Unlocked, Locks

LEMMA QuietSteps ==
  ASSUME IInv, NEW q \in Requests,
         \/ PutRefused(q) \/ Verify(q) \/ Open(q) \/ Describe(q) \/ Enter(q) \/ Load(q)
         \/ Recheck(q) \/ ProviderFails(q) \/ Sent(q) \/ Refused(q) \/ Fails(q) \/ Die(q)
  PROVE  IInv'
<1> USE DEF quiet, outside, stored
<1>1. req \in [Requests -> Request] /\ faults \in 0..MaxFaults /\ req[q].seen <= rec.writes
  BY DEF IInv, TypeOK, ReceiptsHold
<1>2. rec.writes \in Nat /\ faults \in faults..MaxFaults /\ 0 <= rec.writes
  BY <1>1, BoundsAssumption DEF IInv, TypeOK, Recording
<1>3. Fault => faults' \in faults..MaxFaults
  BY <1>1, BoundsAssumption DEF Fault
<1>4. CASE PutRefused(q)
  BY <1>1, <1>2, <1>4, GotoMoves, Moving DEF PutRefused, Writing, Guarding, Place
<1>5. CASE Verify(q)
  <2>1. CASE Proven
    BY <1>1, <1>2, <1>5, <2>1, GotoMoves, Moving DEF Verify, Proven, Writing, Guarding, Place
  <2>2. CASE ~Proven
    BY <1>1, <1>2, <1>5, <2>2, GotoMoves, Moving DEF Verify, Writing, Guarding, Place
  <2>3. QED
    BY <2>1, <2>2
<1>6. CASE Open(q)
  <2>1. OnlyMoves(q) /\ req'[q].pc = "load" /\ req'[q].seen = 0
    BY <1>1, <1>6 DEF Open, OnlyMoves, Request, Idle, Place, Guarding
  <2>2. QED
    BY <1>2, <1>6, <2>1, Moving DEF Open, Writing, Guarding
<1>7. CASE Describe(q)
  BY <1>1, <1>2, <1>7, GotoMoves, Moving DEF Describe, Writing, Guarding, Place
<1>8. CASE Enter(q)
  <2>1. CASE req[q].pc = "verify"
    BY <1>1, <1>2, <1>8, <2>1, GotoMoves, Moving DEF Enter, Writing, Guarding, Place
  <2>2. CASE req[q].pc = "load"
    BY <1>1, <1>2, <1>8, <2>2, GotoMoves, Moving DEF Enter, Writing, Guarding, Place
  <2>3. CASE req[q].pc = "loaded"
    BY <1>1, <1>2, <1>8, <2>3, GotoMoves, Moving DEF Enter, Writing, Guarding, Place
  <2>4. CASE req[q].pc = "respond"
    BY <1>1, <1>2, <1>8, <2>4, GotoMoves, Moving DEF Enter, Writing, Guarding, Place
  <2>5. QED
    BY <1>8, <2>1, <2>2, <2>3, <2>4 DEF Enter
<1>9. CASE Load(q)
  <2>1. CASE Proven
    BY <1>1, <1>2, <1>9, <2>1, GotoMoves, Moving DEF Load, Writing, Guarding, Place
  <2>2. CASE ~Proven
    BY <1>1, <1>2, <1>9, <2>2, EndsMoves, Moving DEF Load, Writing, Guarding
  <2>3. QED
    BY <2>1, <2>2
<1>10. CASE Recheck(q)
  <2>1. CASE req[q].goal = "content"
    BY <1>1, <1>2, <1>10, <2>1, GotoMoves, Moving DEF Recheck, Writing, Guarding, Place
  <2>2. CASE req[q].goal # "content"
    BY <1>1, <1>2, <1>10, <2>2, GotoMoves, Moving DEF Recheck, Writing, Guarding, Place
  <2>3. QED
    BY <2>1, <2>2
<1>11. CASE ProviderFails(q)
  BY <1>1, <1>2, <1>11, GotoMoves, Moving DEF ProviderFails, Writing, Guarding, Place
<1>12. CASE Sent(q)
  BY <1>1, <1>2, <1>12, EndsMoves, Moving DEF Sent, Writing, Guarding
<1>13. ASSUME Raised(q), req[q].pc # "put",
              UNCHANGED <<consent, rec, cancelled, linked, source, object, late, asked>>,
              faults' \in faults..MaxFaults
       PROVE  IInv'
  <2>1. CASE req[q].pc \in {"verify", "verifying", "finalize"}
    BY <1>1, <1>13, <2>1, GotoMoves, Moving DEF Raised, Writing, Guarding, Place
  <2>2. CASE req[q].pc = "finish" /\ req[q].ok
    BY <1>1, <1>13, <2>2, GotoMoves, Moving DEF Raised, Writing, Guarding, Place
  <2>3. CASE ~(req[q].pc \in {"verify", "verifying", "finalize"}) /\ ~(req[q].pc = "finish" /\ req[q].ok)
    BY <1>1, <1>2, <1>13, <2>3, EndsMoves, Moving DEF Raised, Writing, Guarding
  <2>4. QED
    BY <2>1, <2>2, <2>3
<1>14. CASE Refused(q)
  BY <1>2, <1>13, <1>14 DEF Refused
<1>15. CASE Fails(q)
  BY <1>3, <1>13, <1>15 DEF Fails
<1>16. CASE Die(q)
  BY <1>1, <1>2, <1>3, <1>16, EndsMoves, Moving DEF Die, Writing, Guarding
<1>17. QED
  BY <1>4, <1>5, <1>6, <1>7, <1>8, <1>9, <1>10, <1>11, <1>12, <1>14, <1>15, <1>16

-----------------------------------------------------------------------------
(* The rows the operations write.                                          *)

LEMMA DeletedRow ==
  ASSUME rec \in Recording
  PROVE  /\ Deleted \in Recording
         /\ Deleted.lifecycle = "deleted" /\ ~Deleted.ready /\ ~Deleted.result
         /\ Deleted.writes = rec.writes /\ Deleted.unfinished = rec.unfinished
         /\ Deleted.cleanup = "complete" => rec.cleanup = "complete"
  BY DEF Deleted, Recording

LEMMA BegunRow ==
  ASSUME rec \in Recording
  PROVE  /\ Begun \in Recording
         /\ Begun.writes = rec.writes + 1 /\ Begun.unfinished = rec.unfinished + 1
         /\ Begun.lifecycle = rec.lifecycle /\ Begun.cleanup = rec.cleanup
         /\ Begun.ready = rec.ready /\ Begun.result = rec.result
<1>1. PICK w \in Nat : w = rec.writes + 1
  BY DEF Recording
<1>2. PICK u \in Nat : u = rec.unfinished + 1
  BY DEF Recording
<1>3. Begun = [rec EXCEPT !.writes = w, !.unfinished = u]
  BY <1>1, <1>2 DEF Begun
<1>4. /\ Begun \in Recording
      /\ Begun.writes = w /\ Begun.unfinished = u
      /\ Begun.lifecycle = rec.lifecycle /\ Begun.cleanup = rec.cleanup
      /\ Begun.ready = rec.ready /\ Begun.result = rec.result
  BY <1>3 DEF Recording
<1>5. QED
  BY <1>1, <1>2, <1>4

LEMMA FinishedRow ==
  ASSUME rec \in Recording, rec.unfinished > 0
  PROVE  /\ Finished \in Recording
         /\ Finished.writes = rec.writes + 1 /\ Finished.unfinished = rec.unfinished - 1
         /\ Finished.lifecycle = rec.lifecycle
         /\ rec.lifecycle = "deleted" => Finished.cleanup = "pending"
         /\ rec.lifecycle # "deleted" => Finished.cleanup = rec.cleanup
         /\ Finished.ready = rec.ready /\ Finished.result = rec.result
<1> DEFINE last == IF rec.lifecycle = "deleted" THEN "pending" ELSE rec.cleanup
<1>1. rec.writes + 1 \in Nat /\ rec.unfinished - 1 \in Nat
  BY DEF Recording
<1>2. last \in {"not_requested", "pending", "complete"}
  BY DEF Recording
<1>3. PICK w \in Nat : w = rec.writes + 1
  BY <1>1
<1>4. PICK u \in Nat : u = rec.unfinished - 1
  BY <1>1
<1>5. PICK c \in {"not_requested", "pending", "complete"} : c = last
  BY <1>2
<1>6. Finished = [rec EXCEPT !.writes = w, !.unfinished = u, !.cleanup = c]
  BY <1>3, <1>4, <1>5 DEF Finished
<1> HIDE DEF last
<1>7. /\ Finished \in Recording
      /\ Finished.writes = w /\ Finished.unfinished = u /\ Finished.cleanup = c
      /\ Finished.lifecycle = rec.lifecycle
      /\ Finished.ready = rec.ready /\ Finished.result = rec.result
  BY <1>6 DEF Recording
<1>8. QED
  BY <1>3, <1>4, <1>5, <1>7 DEF last

\* What a step leaves true of the count of writers, from where it moves to.
LEMMA CountKept ==
  ASSUME IInv, NEW q \in Requests, OnlyMoves(q), faults' = faults, late' = late,
         rec' \in Recording,
         \/ /\ req'[q].pc \in Writing => req[q].pc \in Writing
            /\ rec'.unfinished = rec.unfinished
         \/ rec'.unfinished = rec.unfinished + 1
         \/ /\ req'[q].pc \notin Writing /\ req[q].pc \in Writing
            /\ rec'.unfinished = rec.unfinished - 1
  PROVE  WritersCounted'
<1>1. /\ Cardinality(Writers) \in Nat /\ Cardinality(Writers)' \in Nat
      /\ req'[q].pc \in Writing /\ req[q].pc \notin Writing =>
           Cardinality(Writers)' = Cardinality(Writers) + 1
      /\ req'[q].pc \notin Writing /\ req[q].pc \in Writing =>
           Cardinality(Writers)' = Cardinality(Writers) - 1
      /\ (req'[q].pc \in Writing <=> req[q].pc \in Writing) =>
           Cardinality(Writers)' = Cardinality(Writers)
  BY WritersMove DEF IInv, TypeOK
<1>2. /\ Cardinality(Writers) + late <= rec.unfinished /\ late <= faults
      /\ late \in Nat /\ rec.unfinished \in Nat /\ rec'.unfinished \in Nat
  BY BoundsAssumption DEF IInv, TypeOK, WritersCounted, Recording
<1>3. Cardinality(Writers)' + late' <= rec'.unfinished
  BY <1>1, <1>2
<1>4. QED
  BY <1>2, <1>3 DEF WritersCounted

\* A writer is at work, or an upload is under way: the count is not zero.
LEMMA WriterCounted ==
  ASSUME IInv, NEW q \in Requests, req[q].pc \in Writing
  PROVE  rec.unfinished > 0
<1>1. IsFiniteSet(Writers) /\ Writers # {}
  <2>1. Writers \subseteq Requests /\ q \in Writers
    BY DEF Writers
  <2>2. QED
    BY <2>1, RequestsAssumption, FS_Subset
<1>2. Cardinality(Writers) \in Nat /\ Cardinality(Writers) # 0
  BY <1>1, FS_CardinalityType, FS_EmptySet
<1>3. late \in Nat /\ rec.unfinished \in Nat /\ Cardinality(Writers) + late <= rec.unfinished
  BY BoundsAssumption DEF IInv, TypeOK, WritersCounted, Recording
<1>4. QED
  BY <1>2, <1>3

-----------------------------------------------------------------------------
(* The steps that write the row of the recording.                          *)

\* A step of one request that may write the row while nobody guards it.
LEMMA RowWritten ==
  ASSUME IInv, NEW q \in Requests, OnlyMoves(q), rec' \in Recording, WritersCounted',
         UNCHANGED <<consent, linked, source, late, faults>>,
         object' \in Object, cancelled' \in BOOLEAN, asked' \in BOOLEAN,
         ~Guarded, req'[q].pc \notin Guarding,
         CleanupIsFinal', ReceiptsHold', DeletionIsFinal', VerifiedIsStored',
         LinkedWasAccepted', ReadyIsStored', AcceptedVoiceIsKept'
  PROVE  IInv'
<1>1. TypeOK'
  BY DEF IInv, TypeOK, OnlyMoves
<1>2. ReadingIsPermitted'
  BY DEF ReadingIsPermitted, Guarded, OnlyMoves
<1>3. QED
  BY <1>1, <1>2 DEF IInv

LEMMA ReserveStep ==
  ASSUME IInv, NEW q \in Requests, Reserve(q)
  PROVE  IInv'
<1>1. /\ rec \in Recording /\ req \in [Requests -> Request]
      /\ object \in Object /\ {cancelled, asked} \subseteq BOOLEAN
  BY DEF IInv, TypeOK
<1>2. ~Guarded
  BY NoGuard DEF Reserve, IInv, ReadingIsPermitted, Visible, Exists
<1>3. /\ rec' \in Recording
      /\ rec'.unfinished = rec.unfinished /\ rec'.writes = rec.writes
      /\ rec'.cleanup = rec.cleanup /\ rec'.ready = rec.ready
      /\ rec'.lifecycle = IF Exists THEN rec.lifecycle ELSE "draft"
  BY <1>1 DEF Reserve, Exists, Recording
<1>4. /\ OnlyMoves(q) /\ req'[q].pc \in {"load", "begin"} /\ req'[q].seen = req[q].seen
      /\ req[q].pc = "idle"
  <2>1. CASE rec.ready
    BY <1>1, <2>1, GotoMoves DEF Reserve, Place, Guarding
  <2>2. CASE ~rec.ready
    BY <1>1, <2>2, GotoMoves DEF Reserve, Place, Guarding
  <2>3. QED
    BY <2>1, <2>2
<1>5. UNCHANGED <<consent, linked, source, cancelled, object, late, faults, asked>>
  BY DEF Reserve, outside, stored, quiet
<1>6. WritersCounted'
  BY <1>3, <1>4, <1>5, CountKept DEF Writing
<1>7. CleanupIsFinal' /\ DeletionIsFinal' /\ LinkedWasAccepted' /\ ReadyIsStored' /\ AcceptedVoiceIsKept'
  BY <1>3, <1>4, <1>5
     DEF IInv, Reserve, Exists, OnlyMoves, CleanupIsFinal, DeletionIsFinal, LinkedWasAccepted,
         ReadyIsStored, AcceptedVoiceIsKept
<1>8. ReceiptsHold' /\ VerifiedIsStored'
  BY <1>3, <1>4, <1>5
     DEF IInv, Reserve, Exists, OnlyMoves, ReceiptsHold, VerifiedIsStored, DeletionIsFinal
<1>9. QED
  BY <1>1, <1>2, <1>3, <1>4, <1>5, <1>6, <1>7, <1>8, RowWritten DEF Guarding

LEMMA BeginStep ==
  ASSUME IInv, NEW q \in Requests, Begin(q)
  PROVE  IInv'
<1>1. /\ rec \in Recording /\ req \in [Requests -> Request] /\ req[q].seen <= rec.writes
      /\ object \in Object /\ {cancelled, asked} \subseteq BOOLEAN
  BY DEF IInv, TypeOK, ReceiptsHold
<1>2. ~Guarded
  BY NoGuard DEF Begin
<1>3. /\ rec' \in Recording
      /\ rec'.unfinished = rec.unfinished + 1 /\ rec'.writes = rec.writes + 1
      /\ rec'.cleanup = rec.cleanup /\ rec'.ready = rec.ready /\ rec'.result = rec.result
      /\ rec'.lifecycle = rec.lifecycle /\ rec.lifecycle \in {"draft", "attached"}
  BY <1>1, BegunRow DEF Begin, Visible
<1>4. /\ OnlyMoves(q) /\ req'[q].pc = "put" /\ req'[q].seen = req[q].seen
  BY <1>1, GotoMoves DEF Begin, Place, Guarding
<1>5. UNCHANGED <<consent, linked, source, cancelled, object, late, faults, asked>>
  BY DEF Begin, outside, stored, quiet
<1>6. WritersCounted'
  BY <1>3, <1>4, <1>5, CountKept
<1>7. CleanupIsFinal' /\ DeletionIsFinal' /\ LinkedWasAccepted' /\ ReadyIsStored' /\ AcceptedVoiceIsKept'
  BY <1>3, <1>4, <1>5
     DEF IInv, OnlyMoves, CleanupIsFinal, DeletionIsFinal, LinkedWasAccepted,
         ReadyIsStored, AcceptedVoiceIsKept
<1>8. VerifiedIsStored'
  BY <1>3, <1>4, <1>5 DEF IInv, OnlyMoves, VerifiedIsStored
<1>9. ReceiptsHold'
  <2>1. ASSUME NEW p \in Requests
        PROVE  req'[p].seen <= rec'.writes /\ req'[p].seen # rec'.writes
    <3>1. req'[p].seen = req[p].seen /\ req[p].seen <= rec.writes
      BY <1>4 DEF IInv, ReceiptsHold, OnlyMoves
    <3>2. req[p].seen \in Nat /\ rec.writes \in Nat
      BY <1>1 DEF Request, Recording
    <3>3. QED
      BY <1>3, <3>1, <3>2
  <2>2. QED
    BY <2>1 DEF ReceiptsHold
<1>10. QED
  BY <1>1, <1>2, <1>3, <1>4, <1>5, <1>6, <1>7, <1>8, <1>9, RowWritten DEF Guarding

LEMMA FinalizeStep ==
  ASSUME IInv, NEW q \in Requests, Finalize(q)
  PROVE  IInv'
<1>1. /\ rec \in Recording /\ req \in [Requests -> Request]
      /\ object \in Object /\ {cancelled, asked} \subseteq BOOLEAN
  BY DEF IInv, TypeOK
<1>2. ~Guarded
  BY NoGuard DEF Finalize
<1>3. /\ rec' \in Recording
      /\ rec'.unfinished = rec.unfinished /\ rec'.writes = rec.writes
      /\ rec'.cleanup = rec.cleanup /\ rec'.result = rec.result
      /\ rec'.lifecycle = rec.lifecycle /\ rec.lifecycle \in {"draft", "attached"}
  BY <1>1 DEF Finalize, Visible, Recording
<1>4. /\ OnlyMoves(q) /\ req'[q].pc = "finish" /\ req'[q].seen = req[q].seen
      /\ req[q].pc = "finalize"
  BY <1>1 DEF Finalize, OnlyMoves, Request, Place, Guarding
<1>5. UNCHANGED <<consent, linked, source, cancelled, object, late, faults, asked>>
  BY DEF Finalize, outside, stored, quiet
<1>6. WritersCounted'
  BY <1>3, <1>4, <1>5, CountKept DEF Writing
<1>7. CleanupIsFinal' /\ DeletionIsFinal' /\ LinkedWasAccepted' /\ AcceptedVoiceIsKept'
  BY <1>3, <1>4, <1>5
     DEF IInv, OnlyMoves, CleanupIsFinal, DeletionIsFinal, LinkedWasAccepted, AcceptedVoiceIsKept
<1>8. VerifiedIsStored' /\ ReceiptsHold' /\ ReadyIsStored'
  BY <1>3, <1>4, <1>5 DEF IInv, OnlyMoves, VerifiedIsStored, ReceiptsHold, ReadyIsStored
<1>9. QED
  BY <1>1, <1>2, <1>3, <1>4, <1>5, <1>6, <1>7, <1>8, RowWritten DEF Guarding

LEMMA FinishStep ==
  ASSUME IInv, NEW q \in Requests, Finish(q)
  PROVE  IInv'
<1>1. /\ rec \in Recording /\ req \in [Requests -> Request]
      /\ object \in Object /\ {cancelled, asked} \subseteq BOOLEAN
  BY DEF IInv, TypeOK
<1>2. ~Guarded
  BY NoGuard DEF Finish
<1>3. rec.unfinished > 0
  BY WriterCounted DEF Finish, Writing
<1>4. /\ rec' \in Recording
      /\ rec'.unfinished = rec.unfinished - 1 /\ rec'.writes = rec.writes + 1
      /\ rec'.ready = rec.ready /\ rec'.result = rec.result
      /\ rec'.lifecycle = rec.lifecycle
      /\ rec.lifecycle = "deleted" => rec'.cleanup = "pending"
      /\ rec.lifecycle # "deleted" => rec'.cleanup = rec.cleanup
  BY <1>1, <1>3, FinishedRow DEF Finish
<1>5. /\ OnlyMoves(q) /\ req'[q].pc \in {"delete", "loaded", "idle"} /\ req[q].pc = "finish"
      /\ req'[q].pc = "delete" => rec.lifecycle = "deleted"
      /\ req'[q].seen \in {0, req[q].seen}
  <2>1. CASE rec.lifecycle = "deleted"
    BY <1>1, <2>1, GotoMoves DEF Finish, Place, Guarding
  <2>2. CASE rec.lifecycle # "deleted" /\ req[q].ok
    BY <1>1, <2>2, GotoMoves DEF Finish, Place, Guarding
  <2>3. CASE rec.lifecycle # "deleted" /\ ~req[q].ok
    BY <1>1, <2>3, EndsMoves DEF Finish
  <2>4. QED
    BY <2>1, <2>2, <2>3
<1>6. UNCHANGED <<consent, linked, source, cancelled, object, late, faults, asked>>
  BY DEF Finish, outside, stored, quiet
<1>7. WritersCounted'
  BY <1>4, <1>5, <1>6, CountKept DEF Writing
<1>8. CleanupIsFinal' /\ LinkedWasAccepted' /\ ReadyIsStored' /\ AcceptedVoiceIsKept'
  BY <1>4, <1>5, <1>6
     DEF IInv, OnlyMoves, CleanupIsFinal, LinkedWasAccepted, ReadyIsStored, AcceptedVoiceIsKept
<1>9. VerifiedIsStored' /\ DeletionIsFinal'
  BY <1>4, <1>5, <1>6 DEF IInv, OnlyMoves, VerifiedIsStored, DeletionIsFinal
<1>10. ReceiptsHold'
  <2>1. ASSUME NEW p \in Requests
        PROVE  req'[p].seen <= rec'.writes /\ req'[p].seen # rec'.writes
    <3>1. req'[p].seen \in {0, req[p].seen} /\ req[p].seen <= rec.writes
      BY <1>5 DEF IInv, ReceiptsHold, OnlyMoves
    <3>2. req[p].seen \in Nat /\ rec.writes \in Nat
      BY <1>1 DEF Request, Recording
    <3>3. QED
      BY <1>4, <3>1, <3>2
  <2>2. QED
    BY <2>1 DEF ReceiptsHold
<1>11. QED
  BY <1>1, <1>2, <1>4, <1>5, <1>6, <1>7, <1>8, <1>9, <1>10, RowWritten DEF Guarding

LEMMA RecordFailureStep ==
  ASSUME IInv, NEW q \in Requests, RecordFailure(q)
  PROVE  IInv'
<1>1. /\ rec \in Recording /\ req \in [Requests -> Request]
      /\ object \in Object /\ {cancelled, asked} \subseteq BOOLEAN
  BY DEF IInv, TypeOK
<1>2. ~Guarded
  BY NoGuard DEF RecordFailure
<1>3. /\ rec' \in Recording
      /\ rec'.unfinished = rec.unfinished /\ rec'.writes = rec.writes
      /\ rec'.cleanup = rec.cleanup /\ rec'.ready = rec.ready /\ rec'.result = rec.result
      /\ rec'.lifecycle = rec.lifecycle
  BY <1>1 DEF RecordFailure, Recording
<1>4. /\ OnlyMoves(q) /\ req'[q].pc = "idle" /\ req'[q].seen = 0
  BY <1>1, EndsMoves DEF RecordFailure
<1>5. UNCHANGED <<consent, linked, source, cancelled, object, late, faults, asked>>
  BY DEF RecordFailure, outside, stored, quiet
<1>6. WritersCounted'
  BY <1>3, <1>4, <1>5, CountKept DEF Writing
<1>7. CleanupIsFinal' /\ DeletionIsFinal' /\ LinkedWasAccepted' /\ AcceptedVoiceIsKept'
  BY <1>3, <1>4, <1>5
     DEF IInv, OnlyMoves, CleanupIsFinal, DeletionIsFinal, LinkedWasAccepted, AcceptedVoiceIsKept
<1>8. VerifiedIsStored' /\ ReadyIsStored'
  BY <1>3, <1>4, <1>5 DEF IInv, OnlyMoves, VerifiedIsStored, ReadyIsStored
<1>9. ReceiptsHold'
  <2>1. rec.writes \in Nat /\ 0 <= rec.writes
    BY <1>1 DEF Recording
  <2>2. QED
    BY <1>3, <1>4, <1>5, <2>1 DEF IInv, OnlyMoves, ReceiptsHold
<1>10. QED
  BY <1>1, <1>2, <1>3, <1>4, <1>5, <1>6, <1>7, <1>8, <1>9, RowWritten DEF Guarding

\* The deletion of the row, by whoever asks for it.
LEMMA DeleteRowStep ==
  ASSUME IInv, NEW q \in Requests, NEW draftOnly \in BOOLEAN, DeleteRow(q, draftOnly),
         req[q].pc \in {"idle", "delete", "discard"},
         asked' \in BOOLEAN, asked => asked',
         rec.lifecycle = "attached" /\ ~draftOnly => asked'
  PROVE  IInv'
<1>1. /\ rec \in Recording /\ req \in [Requests -> Request]
      /\ object \in Object /\ cancelled \in BOOLEAN /\ rec.writes \in Nat /\ 0 <= rec.writes
  BY DEF IInv, TypeOK, Recording
<1>2. ~Guarded
  BY NoGuard DEF DeleteRow
<1>3. UNCHANGED <<consent, linked, source, cancelled, object, late, faults>>
  BY DEF DeleteRow, outside, stored
<1>4. CASE Kept(draftOnly)
  <2>1. /\ OnlyMoves(q) /\ req'[q].pc = "idle" /\ req'[q].seen = 0 /\ rec' = rec
    BY <1>1, <1>4, EndsMoves DEF DeleteRow
  <2>2. WritersCounted'
    BY <1>1, <1>3, <2>1, CountKept DEF Writing
  <2>3. CleanupIsFinal' /\ DeletionIsFinal' /\ LinkedWasAccepted' /\ AcceptedVoiceIsKept'
    BY <1>3, <2>1
       DEF IInv, OnlyMoves, CleanupIsFinal, DeletionIsFinal, LinkedWasAccepted, AcceptedVoiceIsKept
  <2>4. VerifiedIsStored' /\ ReadyIsStored' /\ ReceiptsHold'
    BY <1>1, <1>3, <2>1 DEF IInv, OnlyMoves, VerifiedIsStored, ReadyIsStored, ReceiptsHold
  <2>5. QED
    BY <1>1, <1>2, <1>3, <2>1, <2>2, <2>3, <2>4, RowWritten DEF Guarding
<1>5. CASE ~Kept(draftOnly)
  <2>1. /\ rec' \in Recording
        /\ rec'.lifecycle = "deleted" /\ ~rec'.ready /\ ~rec'.result
        /\ rec'.writes = rec.writes /\ rec'.unfinished = rec.unfinished
        /\ rec'.cleanup = "complete" => rec.cleanup = "complete"
    BY <1>1, <1>5, DeletedRow DEF DeleteRow
  <2>2. OnlyMoves(q) /\ req'[q].pc = "erase" /\ req'[q].seen = rec.writes
    <3>1. PICK w \in Nat : w = rec.writes
      BY <1>1
    <3>2. req' = [req EXCEPT ![q].pc = "erase", ![q].seen = w]
      BY <1>5, <3>1 DEF DeleteRow
    <3>3. QED
      BY <1>1, <3>1, <3>2 DEF OnlyMoves, Request, Place, Guarding
  <2>3. WritersCounted'
    BY <1>3, <2>1, <2>2, CountKept DEF Writing
  <2>4. CleanupIsFinal' /\ DeletionIsFinal' /\ LinkedWasAccepted'
    BY <1>3, <2>1, <2>2 DEF IInv, OnlyMoves, CleanupIsFinal, DeletionIsFinal, LinkedWasAccepted
  <2>5. AcceptedVoiceIsKept'
    BY <1>1, <1>3, <1>5, <2>1
       DEF IInv, AcceptedVoiceIsKept, LinkedWasAccepted, Kept, DeleteRow, Recording
  <2>6. VerifiedIsStored' /\ ReadyIsStored'
    BY <2>1 DEF VerifiedIsStored, ReadyIsStored
  <2>7. ReceiptsHold'
    BY <1>1, <1>3, <2>1, <2>2 DEF IInv, OnlyMoves, ReceiptsHold
  <2>8. QED
    BY <1>1, <1>2, <1>3, <2>1, <2>2, <2>3, <2>4, <2>5, <2>6, <2>7, RowWritten DEF Guarding
<1>6. QED
  BY <1>4, <1>5

LEMMA DeleteSteps ==
  ASSUME IInv, NEW q \in Requests, Delete(q) \/ DeleteOnTheWay(q)
  PROVE  IInv'
<1>1. asked \in BOOLEAN
  BY DEF IInv, TypeOK
<1>2. CASE Delete(q)
  <2>1. PICK draftOnly \in BOOLEAN : DeleteRow(q, draftOnly) /\ asked' = (asked \/ ~draftOnly)
    BY <1>2 DEF Delete
  <2>2. QED
    BY <1>1, <1>2, <2>1, DeleteRowStep DEF Delete
<1>3. CASE DeleteOnTheWay(q)
  <2>1. rec.lifecycle = "deleted"
    BY <1>3 DEF DeleteOnTheWay, IInv, DeletionIsFinal
  <2>2. PICK draftOnly \in BOOLEAN : draftOnly = (req[q].pc = "discard")
    OBVIOUS
  <2>3. DeleteRow(q, draftOnly)
    BY <1>3, <2>2 DEF DeleteOnTheWay
  <2>4. QED
    BY <1>1, <1>3, <2>1, <2>3, DeleteRowStep DEF DeleteOnTheWay
<1>4. QED
  BY <1>2, <1>3

LEMMA CancelStep ==
  ASSUME IInv, NEW q \in Requests, Cancel(q)
  PROVE  IInv'
<1>1. /\ rec \in Recording /\ req \in [Requests -> Request] /\ req[q].seen <= rec.writes
      /\ object \in Object /\ {cancelled, asked} \subseteq BOOLEAN
  BY DEF IInv, TypeOK, ReceiptsHold
<1>2. UNCHANGED <<consent, linked, source, object, late, faults, asked>>
  BY DEF Cancel, outside, stored, quiet
<1>3. ~Guarded
  BY NoGuard DEF Cancel, IInv, ReadingIsPermitted, Visible, Exists
<1>4. CASE Spared
  <2>1. UNCHANGED vars
    BY <1>2, <1>4 DEF Cancel, vars
  <2>2. QED
    BY <2>1
       DEF IInv, vars, TypeOK, WritersCounted, Writers, CleanupIsFinal, ReceiptsHold, DeletionIsFinal,
           VerifiedIsStored, LinkedWasAccepted, ReadingIsPermitted, Guarded, Visible, ReadyIsStored,
           AcceptedVoiceIsKept
<1>5. CASE ~Spared
  <2>1. cancelled' = TRUE
    BY <1>5 DEF Cancel
  <2>2. /\ rec' \in Recording
        /\ rec'.writes = rec.writes /\ rec'.unfinished = rec.unfinished
        /\ rec'.cleanup = "complete" => rec.cleanup = "complete"
        /\ \/ rec' = rec /\ rec.lifecycle = "none"
           \/ rec'.lifecycle = "deleted" /\ ~rec'.ready /\ ~rec'.result
    BY <1>1, <1>5, DeletedRow DEF Cancel, Exists
  <2>3. /\ OnlyMoves(q) /\ req'[q].seen = req[q].seen /\ req'[q].pc \in {"discard", "idle"}
        /\ req'[q].pc = "discard" => rec'.lifecycle = "deleted"
    <3>1. CASE Exists
      BY <1>1, <1>5, <3>1, GotoMoves, DeletedRow DEF Cancel, Place, Guarding
    <3>2. CASE ~Exists
      BY <1>1, <1>5, <3>2, GotoMoves DEF Cancel, Place, Guarding
    <3>3. QED
      BY <3>1, <3>2
  <2>4. WritersCounted'
    BY <1>2, <2>2, <2>3, CountKept DEF Writing, Cancel
  <2>5. CleanupIsFinal' /\ LinkedWasAccepted'
    BY <1>2, <2>2, <2>3 DEF IInv, OnlyMoves, CleanupIsFinal, LinkedWasAccepted
  <2>6. DeletionIsFinal'
    BY <2>2, <2>3 DEF IInv, OnlyMoves, DeletionIsFinal
  <2>7. AcceptedVoiceIsKept'
    BY <1>1, <1>2, <1>5, <2>2
       DEF IInv, AcceptedVoiceIsKept, LinkedWasAccepted, Spared, Recording
  <2>8. VerifiedIsStored' /\ ReadyIsStored'
    BY <1>2, <2>2, <2>3 DEF IInv, OnlyMoves, VerifiedIsStored, ReadyIsStored
  <2>9. ReceiptsHold'
    BY <1>1, <1>2, <2>2, <2>3 DEF IInv, OnlyMoves, ReceiptsHold
  <2>10. QED
    BY <1>1, <1>2, <1>3, <2>1, <2>2, <2>3, <2>4, <2>5, <2>6, <2>7, <2>8, <2>9, RowWritten DEF Guarding
<1>6. QED
  BY <1>4, <1>5

LEMMA ReportStep ==
  ASSUME IInv, NEW q \in Requests, Report(q)
  PROVE  IInv'
<1>1. /\ rec \in Recording /\ req \in [Requests -> Request] /\ 0 <= rec.writes
      /\ object \in Object /\ {cancelled, asked} \subseteq BOOLEAN
  BY DEF IInv, TypeOK, Recording
<1>2. ~Guarded
  BY NoGuard DEF Report
<1>3. /\ OnlyMoves(q) /\ req'[q].pc = "idle" /\ req'[q].seen = 0
  BY <1>1, EndsMoves DEF Report
<1>4. UNCHANGED <<consent, linked, source, cancelled, object, late, faults, asked>>
  BY DEF Report, outside, stored, quiet
<1>5. /\ rec' \in Recording
      /\ rec'.unfinished = rec.unfinished /\ rec'.writes = rec.writes
      /\ rec'.ready = rec.ready /\ rec'.result = rec.result
      /\ rec'.lifecycle = rec.lifecycle
      /\ rec'.cleanup = "complete" /\ rec.cleanup # "complete" =>
           rec.lifecycle = "deleted" /\ Settled(req[q].seen)
  BY <1>1 DEF Report, Recording
<1>6. WritersCounted'
  BY <1>3, <1>4, <1>5, CountKept DEF Writing
<1>7. CleanupIsFinal'
  <2>1. CASE rec.cleanup = "complete"
    BY <1>4, <1>5, <2>1 DEF IInv, CleanupIsFinal
  <2>2. CASE rec.cleanup # "complete" /\ rec'.cleanup = "complete"
    <3>1. rec.lifecycle = "deleted" /\ rec.writes = req[q].seen /\ rec.unfinished = 0
      BY <1>5, <2>2 DEF Settled
    <3>2. object = "none"
      BY <3>1 DEF IInv, ReceiptsHold, Report
    <3>3. QED
      BY <1>4, <1>5, <3>1, <3>2 DEF CleanupIsFinal
  <2>3. QED
    BY <2>1, <2>2 DEF CleanupIsFinal
<1>8. DeletionIsFinal' /\ LinkedWasAccepted' /\ AcceptedVoiceIsKept'
  BY <1>3, <1>4, <1>5 DEF IInv, OnlyMoves, DeletionIsFinal, LinkedWasAccepted, AcceptedVoiceIsKept
<1>9. VerifiedIsStored' /\ ReadyIsStored' /\ ReceiptsHold'
  BY <1>1, <1>3, <1>4, <1>5 DEF IInv, OnlyMoves, VerifiedIsStored, ReadyIsStored, ReceiptsHold
<1>10. QED
  BY <1>1, <1>2, <1>3, <1>4, <1>5, <1>6, <1>7, <1>8, <1>9, RowWritten DEF Guarding

-----------------------------------------------------------------------------
(* The steps that change the object, and the transcription.                *)

LEMMA EraseStep ==
  ASSUME IInv, NEW q \in Requests, Erase(q)
  PROVE  IInv'
<1>1. /\ req \in [Requests -> Request] /\ rec.lifecycle = "deleted" /\ ~rec.ready
      /\ req[q].pc = "erase" /\ object' = "none"
  BY DEF IInv, TypeOK, DeletionIsFinal, Erase
<1>2. OnlyMoves(q) /\ req'[q].pc = "report" /\ req'[q].seen = req[q].seen
  BY <1>1, GotoMoves DEF Erase, Place, Guarding
<1>3. UNCHANGED <<consent, linked, source, rec, cancelled, late, faults, asked>>
  BY DEF Erase, outside, quiet
<1>4. TypeOK'
  BY <1>1, <1>2, <1>3 DEF IInv, TypeOK, OnlyMoves, Object
<1>5. WritersCounted'
  BY <1>1, <1>2, <1>3, <1>4, CountKept DEF Writing, TypeOK
<1>6. CleanupIsFinal' /\ LinkedWasAccepted' /\ AcceptedVoiceIsKept' /\ ReadyIsStored'
  BY <1>1, <1>3 DEF IInv, CleanupIsFinal, LinkedWasAccepted, AcceptedVoiceIsKept, ReadyIsStored
<1>7. DeletionIsFinal' /\ VerifiedIsStored' /\ ReceiptsHold'
  BY <1>1, <1>2, <1>3 DEF IInv, OnlyMoves, DeletionIsFinal, VerifiedIsStored, ReceiptsHold
<1>8. ReadingIsPermitted'
  BY <1>1, <1>2, <1>3
     DEF IInv, OnlyMoves, ReadingIsPermitted, Guarded, Guarding, Visible
<1>9. QED
  BY <1>4, <1>5, <1>6, <1>7, <1>8 DEF IInv

\* An upload may write while it is counted.
LEMMA ObjectWritten ==
  ASSUME IInv, rec.unfinished > 0, object' \in Written \cup {object},
         UNCHANGED <<consent, rec, cancelled, linked, source, asked>>,
         late' \in 0..MaxFaults, faults' \in 0..MaxFaults, req' \in [Requests -> Request],
         WritersCounted',
         \A p \in Requests : \/ req'[p] = req[p]
                             \/ req'[p].pc \in {"verify", "idle"} /\ req'[p].seen <= rec.writes
  PROVE  IInv'
<1>1. object' \in Object /\ (object = "whole" => object' = "whole")
  BY DEF IInv, TypeOK, Object, Written
<1>2. TypeOK'
  BY <1>1 DEF IInv, TypeOK
<1>3. CleanupIsFinal' /\ LinkedWasAccepted' /\ AcceptedVoiceIsKept' /\ ReadyIsStored'
  BY <1>1 DEF IInv, CleanupIsFinal, LinkedWasAccepted, AcceptedVoiceIsKept, ReadyIsStored
<1>4. DeletionIsFinal' /\ VerifiedIsStored'
  BY <1>1 DEF IInv, DeletionIsFinal, VerifiedIsStored
<1>5. ReceiptsHold'
  BY DEF IInv, ReceiptsHold
<1>6. ReadingIsPermitted'
  BY DEF IInv, ReadingIsPermitted, Guarded, Guarding, Visible
<1>7. QED
  BY <1>2, <1>3, <1>4, <1>5, <1>6 DEF IInv

LEMMA PutSteps ==
  ASSUME IInv, NEW q \in Requests, PutAnswered(q) \/ PutUnanswered(q)
  PROVE  IInv'
<1>1. /\ req \in [Requests -> Request] /\ rec \in Recording /\ req[q].seen <= rec.writes
      /\ late \in 0..MaxFaults /\ faults \in 0..MaxFaults /\ rec.writes \in Nat /\ 0 <= rec.writes
      /\ late <= faults /\ req[q].pc = "put"
  BY DEF IInv, TypeOK, ReceiptsHold, WritersCounted, PutAnswered, PutUnanswered, Recording
<1>2. rec.unfinished > 0
  BY <1>1, WriterCounted DEF Writing
<1>3. CASE PutAnswered(q)
  <2>1. OnlyMoves(q) /\ req'[q].pc = "verify" /\ req'[q].seen = req[q].seen
    BY <1>1, <1>3, GotoMoves DEF PutAnswered, Place, Guarding
  <2>2. UNCHANGED <<consent, linked, source, rec, cancelled, late, faults, asked>>
    BY <1>3 DEF PutAnswered, outside, quiet
  <2>3. WritersCounted'
    BY <1>1, <2>1, <2>2, CountKept DEF Writing
  <2>4. QED
    BY <1>1, <1>2, <1>3, <2>1, <2>2, <2>3, ObjectWritten DEF PutAnswered, OnlyMoves
<1>4. CASE PutUnanswered(q)
  <2>1. OnlyMoves(q) /\ req'[q].pc = "idle" /\ req'[q].seen = 0
    BY <1>1, <1>4, EndsMoves DEF PutUnanswered
  <2>2. UNCHANGED <<consent, linked, source, rec, cancelled, asked>>
    BY <1>4 DEF PutUnanswered, outside
  <2>3. /\ object' \in Written \cup {object} /\ late' \in {late, late + 1}
        /\ faults' = faults + 1 /\ faults < MaxFaults
    BY <1>4 DEF PutUnanswered, Abandoned, Fault
  <2>4. WritersCounted'
    <3>1. /\ Cardinality(Writers) \in Nat /\ Cardinality(Writers)' \in Nat
          /\ Cardinality(Writers)' = Cardinality(Writers) - 1
      BY <1>1, <2>1, WritersMove DEF Writing
    <3>2. Cardinality(Writers) + late <= rec.unfinished /\ rec.unfinished \in Nat
      BY <1>1 DEF IInv, WritersCounted, Recording
    <3>3. QED
      BY <1>1, <2>2, <2>3, <3>1, <3>2, BoundsAssumption DEF WritersCounted
  <2>5. late' \in 0..MaxFaults /\ faults' \in 0..MaxFaults
    BY <1>1, <2>3, BoundsAssumption
  <2>6. QED
    BY <1>1, <1>2, <2>1, <2>2, <2>3, <2>4, <2>5, ObjectWritten DEF OnlyMoves
<1>5. QED
  BY <1>3, <1>4

LEMMA LandStep ==
  ASSUME IInv, Land
  PROVE  IInv'
<1>1. /\ rec \in Recording /\ late \in 0..MaxFaults /\ faults \in 0..MaxFaults /\ late > 0
      /\ late <= faults /\ req \in [Requests -> Request]
      /\ Cardinality(Writers) + late <= rec.unfinished
  BY DEF IInv, TypeOK, WritersCounted, Land
<1>2. UNCHANGED <<consent, linked, source, rec, cancelled, req, faults, asked>> /\ late' = late - 1
  BY DEF Land, outside, quiet
<1>3. Cardinality(Writers) \in Nat /\ Cardinality(Writers)' = Cardinality(Writers)
  <2>1. Writers' = Writers /\ Writers \subseteq Requests
    BY <1>2 DEF Writers
  <2>2. QED
    BY <2>1, RequestsAssumption, FS_Subset, FS_CardinalityType
<1>4. rec.unfinished \in Nat /\ rec.unfinished > 0
  BY <1>1, <1>3, BoundsAssumption DEF Recording
<1>5. WritersCounted' /\ late' \in 0..MaxFaults
  BY <1>1, <1>2, <1>3, <1>4, BoundsAssumption DEF WritersCounted
<1>6. QED
  BY <1>1, <1>2, <1>4, <1>5, ObjectWritten DEF Land

LEMMA TranscribedStep ==
  ASSUME IInv, NEW q \in Requests, Transcribed(q)
  PROVE  IInv'
<1>1. /\ rec \in Recording /\ req \in [Requests -> Request]
      /\ req[q].pc = "transcribing"
  BY DEF IInv, TypeOK, Transcribed
<1>2. Visible
  BY <1>1 DEF IInv, ReadingIsPermitted, Guarded, Guarding
<1>3. /\ rec' \in Recording
      /\ rec'.unfinished = rec.unfinished /\ rec'.writes = rec.writes
      /\ rec'.cleanup = rec.cleanup /\ rec'.ready = rec.ready
      /\ rec'.lifecycle = rec.lifecycle /\ rec.lifecycle \in {"draft", "attached"}
  BY <1>1, <1>2 DEF Transcribed, Recording, Visible
<1>4. OnlyMoves(q) /\ req'[q].pc = "respond" /\ req'[q].seen = req[q].seen
  BY <1>1, GotoMoves DEF Transcribed, Place, Guarding
<1>5. UNCHANGED <<consent, linked, source, cancelled, object, late, faults, asked>>
  BY DEF Transcribed, outside, stored, quiet
<1>6. TypeOK'
  BY <1>3, <1>4, <1>5 DEF IInv, TypeOK, OnlyMoves
<1>7. WritersCounted'
  BY <1>1, <1>3, <1>4, <1>5, CountKept DEF Writing
<1>8. CleanupIsFinal' /\ LinkedWasAccepted' /\ AcceptedVoiceIsKept' /\ ReadyIsStored'
  BY <1>3, <1>5 DEF IInv, CleanupIsFinal, LinkedWasAccepted, AcceptedVoiceIsKept, ReadyIsStored
<1>9. DeletionIsFinal' /\ VerifiedIsStored' /\ ReceiptsHold'
  BY <1>3, <1>4, <1>5 DEF IInv, OnlyMoves, DeletionIsFinal, VerifiedIsStored, ReceiptsHold
<1>10. ReadingIsPermitted'
  BY <1>2, <1>3, <1>5 DEF ReadingIsPermitted, Visible
<1>11. QED
  BY <1>6, <1>7, <1>8, <1>9, <1>10 DEF IInv

-----------------------------------------------------------------------------
(* The rest of the application: no request moves, no object changes.       *)

\* Consent, attachment, withdrawal and deletion leave the count, the receipts
\* and the types alone.
LEMMA AppKeeps ==
  ASSUME IInv, UNCHANGED <<cancelled, object, late, req, faults>>,
         {consent', linked', source', asked'} \subseteq BOOLEAN,
         rec' \in Recording, rec'.writes = rec.writes, rec'.unfinished = rec.unfinished
  PROVE  TypeOK' /\ WritersCounted' /\ ReceiptsHold'
<1>1. TypeOK'
  BY DEF IInv, TypeOK
<1>2. WritersCounted'
  <2>1. Writers' = Writers
    BY DEF Writers
  <2>2. QED
    BY <2>1 DEF IInv, WritersCounted
<1>3. ReceiptsHold'
  BY DEF IInv, ReceiptsHold
<1>4. QED
  BY <1>1, <1>2, <1>3

LEMMA ConsentSteps ==
  ASSUME IInv, Grant \/ Revoke
  PROVE  IInv'
<1>1. UNCHANGED <<rec, cancelled, linked, source, object, late, req, faults, asked>>
  BY DEF Grant, Revoke, stored, quiet
<1>2. consent' \in BOOLEAN /\ ~Guarded
  BY DEF Grant, Revoke, Unlocked, Locks
<1>3. TypeOK' /\ WritersCounted' /\ ReceiptsHold'
  BY <1>1, <1>2, AppKeeps DEF IInv, TypeOK
<1>4. CleanupIsFinal' /\ DeletionIsFinal' /\ VerifiedIsStored' /\ LinkedWasAccepted'
  BY <1>1 DEF IInv, CleanupIsFinal, DeletionIsFinal, VerifiedIsStored, LinkedWasAccepted
<1>5. ReadyIsStored' /\ AcceptedVoiceIsKept'
  BY <1>1 DEF IInv, ReadyIsStored, AcceptedVoiceIsKept
<1>6. ReadingIsPermitted'
  BY <1>1, <1>2 DEF ReadingIsPermitted, Guarded
<1>7. QED
  BY <1>3, <1>4, <1>5, <1>6 DEF IInv

LEMMA AttachStep ==
  ASSUME IInv, Attach
  PROVE  IInv'
<1>1. /\ UNCHANGED <<consent, cancelled, object, late, req, faults, asked>>
      /\ linked' = TRUE /\ source' = TRUE
  BY DEF Attach, stored, quiet
<1>2. rec \in Recording /\ rec.lifecycle = "draft" /\ ~Guarded
  BY NoGuard DEF Attach, IInv, TypeOK
<1>3. /\ rec' \in Recording /\ rec'.lifecycle = "attached"
      /\ rec'.writes = rec.writes /\ rec'.unfinished = rec.unfinished
      /\ rec'.cleanup = rec.cleanup /\ rec'.ready = rec.ready /\ rec'.result = rec.result
  BY <1>2 DEF Attach, Recording
<1>4. TypeOK' /\ WritersCounted' /\ ReceiptsHold'
  BY <1>1, <1>3, AppKeeps DEF IInv, TypeOK
<1>5. CleanupIsFinal' /\ DeletionIsFinal' /\ VerifiedIsStored' /\ LinkedWasAccepted'
  BY <1>1, <1>2, <1>3
     DEF IInv, CleanupIsFinal, DeletionIsFinal, VerifiedIsStored, LinkedWasAccepted
<1>6. ReadyIsStored' /\ AcceptedVoiceIsKept'
  BY <1>1, <1>3 DEF IInv, ReadyIsStored, AcceptedVoiceIsKept
<1>7. ReadingIsPermitted'
  BY <1>1, <1>2 DEF ReadingIsPermitted, Guarded
<1>8. QED
  BY <1>4, <1>5, <1>6, <1>7 DEF IInv

\* A guard that does not lock the project is over a draft, which no source
\* can withdraw.
LEMMA WithdrawStep ==
  ASSUME IInv, Withdraw
  PROVE  IInv'
<1>1. UNCHANGED <<consent, rec, cancelled, linked, object, late, req, faults, asked>>
      /\ source' = FALSE
  BY DEF Withdraw, stored, quiet
<1>2. TypeOK' /\ WritersCounted' /\ ReceiptsHold'
  BY <1>1, AppKeeps DEF IInv, TypeOK
<1>3. CleanupIsFinal' /\ DeletionIsFinal' /\ VerifiedIsStored' /\ LinkedWasAccepted'
  BY <1>1 DEF IInv, CleanupIsFinal, DeletionIsFinal, VerifiedIsStored, LinkedWasAccepted
<1>4. ReadyIsStored' /\ AcceptedVoiceIsKept'
  BY <1>1 DEF IInv, ReadyIsStored, AcceptedVoiceIsKept
<1>5. ReadingIsPermitted'
  <2>1. ASSUME Guarded PROVE rec.lifecycle # "attached"
    BY <2>1 DEF Withdraw, Unlocked, Locks
  <2>2. QED
    BY <1>1, <2>1 DEF IInv, ReadingIsPermitted, Guarded, Visible
<1>6. QED
  BY <1>2, <1>3, <1>4, <1>5 DEF IInv

LEMMA TombstoneStep ==
  ASSUME IInv, Tombstone
  PROVE  IInv'
<1>1. /\ UNCHANGED <<consent, cancelled, linked, object, late, req, faults>>
      /\ rec' = Deleted /\ source' = FALSE /\ asked' = TRUE
  BY DEF Tombstone, stored
<1>2. rec \in Recording /\ rec.lifecycle # "deleted" /\ ~Guarded
  BY NoGuard DEF Tombstone, IInv, TypeOK
<1>3. /\ rec' \in Recording /\ rec'.lifecycle = "deleted"
      /\ rec'.writes = rec.writes /\ rec'.unfinished = rec.unfinished
      /\ ~rec'.ready /\ ~rec'.result
      /\ rec'.cleanup = "complete" => rec.cleanup = "complete"
  BY <1>1, <1>2, DeletedRow
<1>4. TypeOK' /\ WritersCounted' /\ ReceiptsHold'
  BY <1>1, <1>3, AppKeeps DEF IInv, TypeOK
<1>5. CleanupIsFinal' /\ DeletionIsFinal' /\ VerifiedIsStored' /\ LinkedWasAccepted'
  BY <1>1, <1>3
     DEF IInv, CleanupIsFinal, DeletionIsFinal, VerifiedIsStored, LinkedWasAccepted
<1>6. ReadyIsStored' /\ AcceptedVoiceIsKept'
  BY <1>1, <1>3 DEF ReadyIsStored, AcceptedVoiceIsKept
<1>7. ReadingIsPermitted'
  BY <1>1, <1>2 DEF ReadingIsPermitted, Guarded
<1>8. QED
  BY <1>4, <1>5, <1>6, <1>7 DEF IInv

-----------------------------------------------------------------------------
(* The invariant.                                                          *)

LEMMA Initially ==
  ASSUME Init
  PROVE  IInv
<1> USE DEF Init, NoRecording, Idle
<1>1. TypeOK
  <2>1. rec \in Recording
    BY DEF Recording
  <2>2. req \in [Requests -> Request]
    BY DEF Request, Place, Guarding
  <2>3. late \in 0..MaxFaults /\ faults \in 0..MaxFaults
    BY BoundsAssumption
  <2>4. QED
    BY <2>1, <2>2, <2>3 DEF TypeOK, Object
<1>2. WritersCounted
  <2>1. Writers = {}
    BY DEF Writers, Writing
  <2>2. Cardinality(Writers) = 0
    BY <2>1, FS_EmptySet
  <2>3. QED
    BY <2>2 DEF WritersCounted
<1>3. CleanupIsFinal /\ ReceiptsHold /\ DeletionIsFinal /\ VerifiedIsStored /\ LinkedWasAccepted
  BY DEF CleanupIsFinal, ReceiptsHold, DeletionIsFinal, VerifiedIsStored, LinkedWasAccepted
<1>4. ReadingIsPermitted /\ ReadyIsStored /\ AcceptedVoiceIsKept
  BY DEF ReadingIsPermitted, Guarded, Guarding, ReadyIsStored, AcceptedVoiceIsKept
<1>5. QED
  BY <1>1, <1>2, <1>3, <1>4 DEF IInv

LEMMA Stutters ==
  ASSUME IInv, UNCHANGED vars
  PROVE  IInv'
BY DEF IInv, vars, TypeOK, WritersCounted, Writers, CleanupIsFinal, ReceiptsHold, DeletionIsFinal,
       VerifiedIsStored, LinkedWasAccepted, ReadingIsPermitted, Guarded, Visible, ReadyIsStored,
       AcceptedVoiceIsKept

LEMMA StepKeeps ==
  ASSUME IInv, NEW q \in Requests, Step(q)
  PROVE  IInv'
<1>1. CASE Reserve(q)
  BY <1>1, ReserveStep
<1>2. CASE Begin(q)
  BY <1>2, BeginStep
<1>3. CASE PutAnswered(q) \/ PutUnanswered(q)
  BY <1>3, PutSteps
<1>4. CASE Finalize(q)
  BY <1>4, FinalizeStep
<1>5. CASE Finish(q)
  BY <1>5, FinishStep
<1>6. CASE Transcribed(q)
  BY <1>6, TranscribedStep
<1>7. CASE RecordFailure(q)
  BY <1>7, RecordFailureStep
<1>8. CASE Delete(q) \/ DeleteOnTheWay(q)
  BY <1>8, DeleteSteps
<1>9. CASE Cancel(q)
  BY <1>9, CancelStep
<1>10. CASE Erase(q)
  BY <1>10, EraseStep
<1>11. CASE Report(q)
  BY <1>11, ReportStep
<1>12. CASE \/ PutRefused(q) \/ Verify(q) \/ Open(q) \/ Describe(q) \/ Enter(q) \/ Load(q)
            \/ Recheck(q) \/ ProviderFails(q) \/ Sent(q) \/ Refused(q) \/ Fails(q) \/ Die(q)
  BY <1>12, QuietSteps
<1>13. QED
  BY <1>1, <1>2, <1>3, <1>4, <1>5, <1>6, <1>7, <1>8, <1>9, <1>10, <1>11, <1>12 DEF Step

\* The inductive invariant holds for ever.
THEOREM Invariance == Spec => []IInv
<1>1. Init => IInv
  BY Initially
<1>2. IInv /\ [Next]_vars => IInv'
  <2> SUFFICES ASSUME IInv, [Next]_vars PROVE IInv'
    OBVIOUS
  <2>1. CASE \E q \in Requests : Step(q)
    BY <2>1, StepKeeps
  <2>2. CASE Land
    BY <2>2, LandStep
  <2>3. CASE Grant \/ Revoke
    BY <2>3, ConsentSteps
  <2>4. CASE Attach
    BY <2>4, AttachStep
  <2>5. CASE Withdraw
    BY <2>5, WithdrawStep
  <2>6. CASE Tombstone
    BY <2>6, TombstoneStep
  <2>7. CASE UNCHANGED vars
    BY <2>7, Stutters
  <2>8. QED
    BY <2>1, <2>2, <2>3, <2>4, <2>5, <2>6, <2>7 DEF Next
<1>3. QED
  BY <1>1, <1>2, PTL DEF Spec

\* Every variable keeps the type its row, table or request has in the code.
THEOREM TypeCorrect == Spec => []TypeOK
<1>1. IInv => TypeOK
  BY DEF IInv
<1>2. QED
  BY <1>1, Invariance, PTL

\* A cleanup the application calls complete is an erasure: nothing is in the
\* bucket, and no upload can put it back (cleanup_complete, finish_upload).
THEOREM Erasure == Spec => []ErasureIsReal
<1>1. IInv => ErasureIsReal
  <2> SUFFICES ASSUME IInv PROVE ErasureIsReal
    OBVIOUS
  <2>1. rec.lifecycle = "deleted" => ~rec.result
    BY DEF IInv, DeletionIsFinal
  <2>2. ASSUME rec.cleanup = "complete"
        PROVE  object = "none" /\ late = 0 /\ \A q \in Requests : req[q].pc # "put"
    <3>1. object = "none" /\ rec.unfinished = 0
      BY <2>2 DEF IInv, CleanupIsFinal
    <3>2. \A q \in Requests : req[q].pc # "put"
      BY <3>1, WriterCounted DEF Writing
    <3>3. Cardinality(Writers) \in Nat
      <4>1. Writers \subseteq Requests
        BY DEF Writers
      <4>2. QED
        BY <4>1, RequestsAssumption, FS_Subset, FS_CardinalityType
    <3>4. late = 0
      BY <3>1, <3>3, BoundsAssumption DEF IInv, TypeOK, WritersCounted
    <3>5. QED
      BY <3>1, <3>2, <3>4
  <2>3. QED
    BY <2>1, <2>2 DEF ErasureIsReal
<1>2. QED
  BY <1>1, Invariance, PTL

\* While an original is read, transcribed or published, its owner permits it
\* (the guard of provider_guard, kept open over the call).
THEOREM Reading == Spec => []ReadingIsPermitted
<1>1. IInv => ReadingIsPermitted
  BY DEF IInv
<1>2. QED
  BY <1>1, Invariance, PTL

\* A recording acknowledged as saved is in the bucket, whole, whatever late or
\* concurrent uploads under its key do (finalize after the readback).
THEOREM ReadyStored == Spec => []ReadyIsStored
<1>1. IInv => ReadyIsStored
  BY DEF IInv
<1>2. QED
  BY <1>1, Invariance, PTL

\* A late discard or cancellation never takes the audio of an accepted turn.
THEOREM VoiceKept == Spec => []AcceptedVoiceIsKept
<1>1. IInv => AcceptedVoiceIsKept
  BY DEF IInv
<1>2. QED
  BY <1>1, Invariance, PTL

\* A saved recording is stored, and an accepted one is kept.
THEOREM VoiceStays == Spec => []VoiceIsKept
<1>1. ReadyIsStored /\ AcceptedVoiceIsKept => VoiceIsKept
  BY DEF VoiceIsKept
<1>2. QED
  BY <1>1, ReadyStored, VoiceKept, PTL
=============================================================================
