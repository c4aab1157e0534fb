--------------------------- MODULE ReplyTurnProofs ---------------------------
(***************************************************************************)
(* For any number of attempts, deltas, changes and faults: the safety      *)
(* properties of ReplyTurn hold of its specification.  The inductive       *)
(* invariant says, of each frame, under what authority its text may still  *)
(* be sent; of a request that is drafting, that the frames on their way    *)
(* and the page agree with its emitter; and of one that has its answer,    *)
(* that what is still queued shows exactly that.  A second invariant, on   *)
(* top of it, follows the reviewed acknowledgement from its review to the  *)
(* page and the saved reply.                                               *)
(***************************************************************************)
EXTENDS ReplyTurn, TLAPS, SequenceTheorems

Early == {"new", "look", "status", "clear", "accept", "review", "replay"}
Middle == {"prepare", "start", "await", "commit"}
Late == {"sent", "ending", "release", "over", "dead"}

\* What the database keeps.
DatabaseOK ==
  /\ reply # NoReply =>
       /\ reply.text \in Text
       /\ reply.authority <= authority
       /\ reply.authority = authority => source.status = "active"
       /\ source.status # "none"
  /\ source.status = "active" /\ "this" \notin pending => receipt # "none"
  /\ delivered => reply # NoReply /\ \E r \in Requests : browser[r].got = reply.text

\* An answer that may be sent as long as the authority is that of the fence.
AnswerOK(answer, fence) ==
  \/ answer = Rebuild
  \/ reply # NoReply /\ answer = reply.text /\ fence <= reply.authority

FrameOK(e) ==
  /\ e.fence = 0 <=> e.kind \in {"none", "revision", "error"}
  /\ e.kind = "delta" =>
       /\ e.text \in Text
       /\ \/ e.text.under = e.fence
          \/ reply # NoReply /\ e.text = reply.text /\ e.fence = reply.authority
  /\ e.kind = "result" => AnswerOK(e.text, e.fence)

FramesOK(r) == FrameOK(sending[r]) /\ \A i \in 1..Len(queue[r]) : FrameOK(queue[r][i])

\* Before it generates anything a request has sent nothing.
EarlyOK(r) ==
  /\ queue[r] = <<>> /\ sending[r] = NoEnvelope
  /\ browser[r] = [revision |-> 0, shown |-> {}, got |-> NoText]
  /\ generation[r] = NoGeneration
  /\ emitter[r].revision = 0
  /\ reply.text.by # r
  /\ pc[r] # "new" => emitter[r].fence # 0
  /\ pc[r] \in {"new", "look", "accept", "review"} => memo[r].answer = NoText
  /\ pc[r] \in {"status", "clear"} =>
       memo[r].answer = NoText \/ AnswerOK(memo[r].answer, emitter[r].fence)
  /\ pc[r] = "replay" => AnswerOK(memo[r].answer, emitter[r].fence)
  /\ pc[r] = "review" => source.status # "none" /\ ~memo[r].unreviewed

\* The text being written.
Draft(r) == [by |-> r, under |-> generation[r].under, take |-> emitter[r].revision]

On(r) == generation[r].state # "off"
Admitted(r) == generation[r].state \in {"writing", "done"}

IsCurrent(r, e) == e.kind = "delta" /\ e.revision = emitter[r].revision

\* A frame of a request that is drafting.
DraftFrameOK(r, e) ==
  /\ e.kind \in {"none", "revision", "opening", "delta"}
  /\ e.revision <= emitter[r].revision
  /\ e.kind = "delta" => e.text.by = r /\ e.text.take = e.revision
  /\ IsCurrent(r, e) =>
       On(r) /\ e.text = Draft(r) /\ e.fence = generation[r].under /\ (e.draft => generation[r].draft)

\* The page has the present revision, or is told of it before any text of it.
RevisionFirst(r) ==
  \/ browser[r].revision = emitter[r].revision
  \/ \E j \in 1..Len(queue[r]) :
       /\ queue[r][j] = Control("revision", emitter[r].revision)
       /\ \A i \in 1..j : ~IsCurrent(r, queue[r][i])

PageOK(r) ==
  /\ browser[r].got = NoText
  /\ browser[r].revision <= emitter[r].revision
  /\ \A t \in browser[r].shown :
       /\ t.take = browser[r].revision
       /\ browser[r].revision = emitter[r].revision => On(r) /\ t = Draft(r)

\* What was written is on the page or on its way, unless its fence is over.
DraftArrives(r) ==
  Admitted(r) /\ generation[r].wrote /\ Current(r, generation[r].under) =>
    \/ Draft(r) \in browser[r].shown
    \/ IsCurrent(r, sending[r])
    \/ \E i \in 1..Len(queue[r]) : IsCurrent(r, queue[r][i])

\* As long as its fence holds, a draft that was admitted may be shown.
DraftAllowed(r) ==
  Admitted(r) /\ generation[r].draft /\ Current(r, generation[r].under) =>
    DraftGuard(r, generation[r].under)

StreamOK(r) ==
  /\ DraftFrameOK(r, sending[r]) /\ sending[r].kind # "revision"
  /\ \A i \in 1..Len(queue[r]) : DraftFrameOK(r, queue[r][i])
  /\ IsCurrent(r, sending[r]) => browser[r].revision = emitter[r].revision
  /\ RevisionFirst(r)
  /\ PageOK(r)

MiddleOK(r) ==
  /\ reply.text.by # r
  /\ source.status # "none"
  /\ memo[r].answer = NoText
  /\ emitter[r].fence # 0
  /\ pc[r] \in {"prepare", "start"} => generation[r] = NoGeneration
  /\ pc[r] = "start" => emitter[r].draft = memo[r].unreviewed
  /\ pc[r] \in {"await", "commit"} => On(r) /\ generation[r].under = emitter[r].fence
  /\ pc[r] = "await" => emitter[r].draft = generation[r].draft
  /\ generation[r].state = "asked" => ~generation[r].wrote
  /\ pc[r] = "commit" => generation[r].state = "done"
  /\ StreamOK(r) /\ DraftArrives(r) /\ DraftAllowed(r)

NoResults(r) ==
  sending[r].kind # "result" /\ \A i \in 1..Len(queue[r]) : queue[r][i].kind # "result"

Shown(r) == IF reply.text.by = r THEN {reply.text} ELSE {}

\* The frames of an answer, under the emitter's fence.
AnswerFrame(r, kind, revision) ==
  [kind |-> kind, fence |-> emitter[r].fence, revision |-> revision, draft |-> FALSE,
   text |-> memo[r].answer]
TheResult(r) == AnswerFrame(r, "result", 0)
TheText(r) == AnswerFrame(r, "delta", memo[r].answer.take)
TheRevision(r) == Control("revision", memo[r].answer.take)

\* Text of the answer is still to come.
Showing(r) ==
  /\ reply # NoReply /\ memo[r].answer = reply.text /\ reply.text.by = r
  /\ emitter[r].revision = memo[r].answer.take
  /\ emitter[r].fence = reply.authority
  /\ \/ /\ queue[r] = <<TheRevision(r), TheText(r), TheResult(r)>> /\ sending[r] = NoEnvelope
        /\ browser[r].revision < memo[r].answer.take
     \/ /\ queue[r] = <<TheText(r), TheResult(r)>> /\ sending[r] = NoEnvelope
        /\ browser[r].revision = memo[r].answer.take
        /\ browser[r].shown \subseteq {memo[r].answer}
     \/ /\ queue[r] = <<TheResult(r)>> /\ sending[r] = TheText(r)
        /\ browser[r].revision = memo[r].answer.take
        /\ browser[r].shown \subseteq {memo[r].answer}

\* Only the result is.
Closing(r) ==
  /\ memo[r].answer = Rebuild \/ browser[r].shown = Shown(r)
  /\ \/ queue[r] = <<TheResult(r)>> /\ sending[r] = NoEnvelope
     \/ queue[r] = <<>> /\ sending[r] = TheResult(r)

Answering(r) ==
  /\ pc[r] = "sent"
  /\ browser[r].got = NoText
  /\ emitter[r].fence # 0
  /\ AnswerOK(memo[r].answer, emitter[r].fence)
  /\ Showing(r) \/ Closing(r)

Answered(r) ==
  /\ pc[r] # "sent"
  /\ queue[r] = <<>> /\ sending[r] = NoEnvelope
  /\ pc[r] = "ending" => memo[r].answer = browser[r].got
  /\ \/ browser[r].got = Rebuild
     \/ reply # NoReply /\ browser[r].got = reply.text /\ browser[r].shown = Shown(r)

Unanswered(r) == pc[r] # "ending" /\ browser[r].got = NoText /\ NoResults(r)

LateOK(r) ==
  /\ generation[r] = NoGeneration
  /\ Unanswered(r) \/ Answering(r) \/ Answered(r)

RequestOK(r) ==
  /\ emitter[r].fence <= authority
  /\ FramesOK(r)
  /\ pc[r] \in Early => EarlyOK(r)
  /\ pc[r] \in Middle => MiddleOK(r)
  /\ pc[r] \in Late => LateOK(r)

IInv == TurnTypeOK /\ DatabaseOK /\ \A r \in Requests : RequestOK(r)


-----------------------------------------------------------------------------
(* A step of one request, seen by the others.                              *)

\* Nothing of request q changes that its part of the invariant reads.
Same(q) ==
  /\ pc'[q] = pc[q] /\ memo'[q] = memo[q] /\ emitter'[q] = emitter[q]
  /\ generation'[q] = generation[q] /\ queue'[q] = queue[q] /\ sending'[q] = sending[q]
  /\ browser'[q] = browser[q]

\* The database grows; a reply is only ever saved by request r.
Grows(r) ==
  /\ authority <= authority'
  /\ reply' = reply \/ (reply = NoReply /\ reply'.text.by = r)
  /\ source.status # "none" => source'.status # "none"

\* What the draft guard of q reads is as it was, or its fence is over.
Undisturbed(q) ==
  \/ holder' = holder /\ authority' = authority /\ \A f \in Nat : DraftGuard(q, f) => DraftGuard(q, f)'
  \/ authority < authority'
  \/ holder' # q

LEMMA NoDisturbance ==
  ASSUME UNCHANGED <<authority, source, pending, receipt>>, NEW q, holder' = holder \/ holder' # q
  PROVE  Undisturbed(q)
BY DEF Undisturbed, DraftGuard, Current, Newest

\* No reply is saved twice, so an answer stays one.
LEMMA AnswersStay ==
  ASSUME NEW r, Grows(r), NEW a, NEW f, AnswerOK(a, f)
  PROVE  AnswerOK(a, f)'
BY DEF AnswerOK, Grows

LEMMA FramesStay ==
  ASSUME NEW r, Grows(r), NEW e, FrameOK(e)
  PROVE  FrameOK(e)'
<1>1. reply # NoReply => reply' = reply
  BY DEF Grows
<1>2. AnswerOK(e.text, e.fence) => AnswerOK(e.text, e.fence)'
  BY AnswersStay
<1> QED  BY <1>1, <1>2 DEF FrameOK

LEMMA GuardStays ==
  ASSUME TurnTypeOK, NEW q \in Requests, generation'[q] = generation[q], DraftAllowed(q),
         Admitted(q) => generation[q].under <= authority, authority <= authority', authority' \in Nat,
         Undisturbed(q)
  PROVE  DraftAllowed(q)'
<1>1. generation[q].under \in Nat /\ authority \in Nat
  BY DEF TurnTypeOK, Generation
<1>2. CASE holder' = holder /\ authority' = authority /\ \A f \in Nat : DraftGuard(q, f) => DraftGuard(q, f)'
  <2>1. DraftGuard(q, generation[q].under) => DraftGuard(q, generation[q].under)'
    BY <1>1, <1>2
  <2> QED  BY <1>2, <2>1 DEF DraftAllowed, Admitted, Current
<1>3. CASE authority < authority' \/ holder' # q
  BY <1>1, <1>3 DEF DraftAllowed, Admitted, Current
<1> QED  BY <1>2, <1>3 DEF Undisturbed

LEMMA DraftStays ==
  ASSUME TurnTypeOK, NEW q \in Requests, generation'[q] = generation[q],
         emitter'[q] = emitter[q], queue'[q] = queue[q], sending'[q] = sending[q],
         browser'[q] = browser[q], Admitted(q) => generation[q].under <= authority,
         authority <= authority', authority' \in Nat, Undisturbed(q), DraftArrives(q)
  PROVE  DraftArrives(q)'
<1>1. generation[q].under \in Nat /\ authority \in Nat
  BY DEF TurnTypeOK, Generation
<1>2. Current(q, generation[q].under)' /\ Admitted(q)' => Current(q, generation[q].under) /\ Admitted(q)
  BY <1>1 DEF Undisturbed, Current, Admitted
<1> QED  BY <1>2 DEF DraftArrives, Draft, IsCurrent

LEMMA StreamStays ==
  ASSUME NEW q \in Requests, Same(q), StreamOK(q)
  PROVE  StreamOK(q)'
<1>1. Draft(q)' = Draft(q) /\ On(q)' = On(q)
  BY DEF Same, Draft, On
<1>2. ASSUME NEW e PROVE /\ IsCurrent(q, e)' <=> IsCurrent(q, e)
                         /\ DraftFrameOK(q, e) => DraftFrameOK(q, e)'
  BY <1>1 DEF Same, IsCurrent, DraftFrameOK
<1>3. DraftFrameOK(q, sending[q])' /\ \A i \in 1..Len(queue'[q]) : DraftFrameOK(q, queue[q][i])'
  BY <1>2 DEF StreamOK, Same
<1>4. RevisionFirst(q)'
  BY <1>2 DEF StreamOK, Same, RevisionFirst
<1>5. PageOK(q)'
  BY <1>1 DEF StreamOK, Same, PageOK
<1> QED  BY <1>2, <1>3, <1>4, <1>5 DEF StreamOK, Same

LEMMA LateStays ==
  ASSUME TurnTypeOK, NEW r \in Requests, NEW q \in Requests, q # r \/ reply' = reply, Same(q), Grows(r), LateOK(q)
  PROVE  LateOK(q)'
<1>1. AnswerOK(memo[q].answer, emitter[q].fence) => AnswerOK(memo[q].answer, emitter[q].fence)'
  BY DEF AnswerOK, Grows, Same
<1>2. reply # NoReply => reply' = reply
  BY DEF Grows
<1>3. reply # NoReply => Shown(q)' = Shown(q)
  BY <1>2 DEF Shown
<1>4. reply = NoReply => Shown(q) = {} /\ Shown(q)' = {}
  BY DEF Shown, Grows, NoReply, NoText, NoRequest, Requests
<1>5. Shown(q)' = Shown(q)
  BY <1>3, <1>4
<1>6. /\ TheResult(q)' = TheResult(q) /\ TheText(q)' = TheText(q) /\ TheRevision(q)' = TheRevision(q)
  BY DEF Same, TheResult, TheText, TheRevision, AnswerFrame, Control
<1>7. Showing(q) => Showing(q)'
  BY <1>2, <1>6 DEF Showing, Same
<1>8. Closing(q) => Closing(q)'
  BY <1>5, <1>6 DEF Closing, Same
<1>9. Unanswered(q) => Unanswered(q)'
  BY DEF Unanswered, NoResults, Same
<1>10. Answering(q) => Answering(q)'
  BY <1>1, <1>7, <1>8 DEF Answering, Same
<1>11. Answered(q) => Answered(q)'
  BY <1>2, <1>5 DEF Answered, Same
<1> QED  BY <1>9, <1>10, <1>11 DEF LateOK, Same

LEMMA OtherStays ==
  ASSUME TurnTypeOK, authority' \in Nat, NEW r \in Requests, NEW q \in Requests, q # r \/ reply' = reply,
         Same(q), Grows(r), Undisturbed(q), RequestOK(q)
  PROVE  RequestOK(q)'
<1> USE DEF RequestOK
<1>1. (emitter[q].fence <= authority)'
  BY DEF Grows, Same, TurnTypeOK, Emitter
<1>2. FramesOK(q)'
  <2>1. FrameOK(sending[q])'
    BY FramesStay DEF FramesOK, Same
  <2>2. \A i \in 1..Len(queue[q]) : FrameOK(queue[q][i])'
    BY FramesStay DEF FramesOK, Same
  <2> QED  BY <2>1, <2>2 DEF FramesOK, Same
<1>3. reply.text.by # q => reply'.text.by # q
  BY DEF Grows
<1>4. ASSUME pc'[q] \in Early PROVE EarlyOK(q)'
  <2>1. EarlyOK(q)
    BY <1>4 DEF Same
  <2>2. AnswerOK(memo[q].answer, emitter[q].fence) => AnswerOK(memo[q].answer, emitter[q].fence)'
    BY DEF AnswerOK, Grows, Same
  <2> QED  BY <1>3, <2>1, <2>2 DEF EarlyOK, Same, Grows
<1>5. ASSUME pc'[q] \in Middle PROVE MiddleOK(q)'
  <2>1. MiddleOK(q)
    BY <1>5 DEF Same
  <2>2. Admitted(q) => generation[q].under <= authority
    BY <1>5, <2>1 DEF MiddleOK, Middle, Same, Admitted, NoGeneration
  <2>3. generation'[q] = generation[q] /\ authority <= authority'
    BY DEF Same, Grows
  <2>4. DraftAllowed(q)'
    BY <2>1, <2>2, <2>3, GuardStays DEF MiddleOK
  <2>5. DraftArrives(q)'
    BY <2>1, <2>2, <2>3, DraftStays DEF MiddleOK, Same
  <2>6. StreamOK(q)'
    BY <2>1, StreamStays DEF MiddleOK
  <2>7. On(q)' = On(q)
    BY DEF On, Same
  <2> QED  BY <1>3, <2>1, <2>4, <2>5, <2>6, <2>7 DEF MiddleOK, Same, Grows
<1>6. ASSUME pc'[q] \in Late PROVE LateOK(q)'
  BY <1>6, LateStays DEF Same
<1> QED  BY <1>1, <1>2, <1>4, <1>5, <1>6


-----------------------------------------------------------------------------
(* How the parts make the whole.                                           *)

LEMMA Assemble ==
  ASSUME IInv, NEW r \in Requests, TurnTypeOK', DatabaseOK', Grows(r), RequestOK(r)',
         \A q \in Requests \ {r} : Same(q) /\ Undisturbed(q)
  PROVE  IInv'
<1> SUFFICES ASSUME NEW q \in Requests, q # r PROVE RequestOK(q)'
  BY DEF IInv
<1>1. TurnTypeOK /\ RequestOK(q) /\ Same(q) /\ Undisturbed(q) /\ authority' \in Nat
  BY DEF IInv, TurnTypeOK
<1> QED  BY <1>1, OtherStays

\* A step of the owner or of time.
LEMMA OutsideStep ==
  ASSUME IInv, TurnTypeOK', DatabaseOK', reply' = reply, authority <= authority',
         source.status # "none" => source'.status # "none",
         \A q \in Requests : Same(q) /\ Undisturbed(q)
  PROVE  IInv'
<1> SUFFICES ASSUME NEW q \in Requests PROVE RequestOK(q)'
  BY DEF IInv
<1>1. TurnTypeOK /\ RequestOK(q) /\ Same(q) /\ Undisturbed(q) /\ authority' \in Nat
  BY DEF IInv, TurnTypeOK
<1>2. Grows(q)
  BY DEF Grows
<1> QED  BY <1>1, <1>2, OtherStays

LEMMA RequestFacts ==
  ASSUME NEW q \in Requests
  PROVE  q \in Nat /\ q # NoRequest
BY AttemptsAssumption DEF Requests, NoRequest

LEMMA TextFacts ==
  /\ NoText \in Answer /\ NoText \notin Text
  /\ Rebuild \in Answer /\ Rebuild \notin Text /\ Rebuild # NoText
  /\ Text \subseteq Answer
BY RequestFacts DEF NoRequest, NoText, Rebuild, Text, Answer

\* What is not about authority or testimony leaves the database as it is.
LEMMA DatabaseStays ==
  ASSUME DatabaseOK, UNCHANGED <<authority, source, pending, receipt, reply, delivered>>,
         \A q \in Requests : browser[q].got # NoText => browser'[q].got = browser[q].got
  PROVE  DatabaseOK'
<1>1. delivered => \E q \in Requests : browser'[q].got = reply.text
  <2> SUFFICES ASSUME delivered PROVE \E q \in Requests : browser'[q].got = reply.text
    OBVIOUS
  <2>1. PICK q \in Requests : browser[q].got = reply.text
    BY DEF DatabaseOK
  <2>2. reply.text # NoText
    BY <2>1, TextFacts DEF DatabaseOK
  <2> QED  BY <2>1, <2>2
<1> QED  BY <1>1 DEF DatabaseOK

-----------------------------------------------------------------------------
(* Time and the owner.                                                     *)

LEMMA LapseStep ==
  ASSUME IInv, Lapse
  PROVE  IInv'
<1> USE DEF Lapse
<1>1. TurnTypeOK'
  BY BoundsAssumption DEF IInv, TurnTypeOK, tasks, stream
<1>2. \A q \in Requests : Same(q)
  BY DEF Same, tasks, stream
<1>3. \A q \in Requests : Undisturbed(q)
  BY RequestFacts, NoDisturbance
<1>4. DatabaseOK'
  BY DatabaseStays DEF IInv, stream
<1> QED  BY <1>1, <1>2, <1>3, <1>4, OutsideStep DEF IInv, TurnTypeOK

LEMMA ChangeStep ==
  ASSUME IInv, Changes, TurnTypeOK',
         source.status # "none" => source'.status # "none",
         source'.status = "active" /\ "this" \notin pending' => receipt' # "none"
  PROVE  IInv'
<1> USE DEF Changes
<1>1. authority \in Nat /\ authority' = authority + 1
  BY DEF IInv, TurnTypeOK
<1>2. \A q \in Requests : Same(q)
  BY DEF Same, tasks, stream
<1>3. \A q \in Requests : Undisturbed(q)
  BY <1>1 DEF Undisturbed
<1>4. reply.authority \in Nat
  BY DEF IInv, TurnTypeOK, Reply
<1>5. reply' = reply /\ delivered' = delivered /\ browser' = browser
  BY DEF stream
<1>6. DatabaseOK'
  BY <1>1, <1>4, <1>5 DEF IInv, DatabaseOK
<1> QED  BY <1>1, <1>2, <1>3, <1>5, <1>6, OutsideStep

LEMMA OwnerStep ==
  ASSUME IInv, Edit \/ Withdraw \/ EditOther \/ Prefer
  PROVE  IInv'
<1>1. source \in Source /\ pending \subseteq {"this", "other"} /\ authority \in Nat \ {0} /\ changes \in 0..MaxChanges
  BY DEF IInv, TurnTypeOK
<1>2. ASSUME Changes, source' \in Source, pending' \subseteq {"this", "other"},
             receipt' \in {"none", "clear", "restricted"}
      PROVE  TurnTypeOK'
  BY <1>1, <1>2, BoundsAssumption DEF IInv, TurnTypeOK, Changes, tasks, stream
<1>3. DatabaseOK
  BY DEF IInv
<1>4. CASE Edit
  <2> DEFINE next == source.version + 1
             yes == TRUE
  <2>1. source' = [source EXCEPT !.version = next, !.latest = yes] /\ source.status = "active"
    BY <1>4 DEF Edit
  <2>2. next \in Nat /\ yes \in BOOLEAN
    BY <1>1 DEF Source
  <2> HIDE DEF next, yes
  <2>3. source' \in Source /\ source'.status = "active" /\ source.status = "active"
    BY <1>1, <2>1, <2>2 DEF Source
  <2> QED  BY <1>1, <1>2, <1>4, <2>3, ChangeStep DEF Edit
<1>5. CASE Withdraw
  <2>1. source' \in Source /\ source'.status = "withdrawn"
    BY <1>1, <1>5 DEF Withdraw, Source
  <2> QED  BY <1>1, <1>2, <1>5, <2>1, ChangeStep DEF Withdraw
<1>6. CASE EditOther
  <2>1. source' \in Source /\ source'.status = source.status
    BY <1>1, <1>6 DEF EditOther, Source
  <2>2. receipt' = receipt /\ receipt \in {"none", "clear", "restricted"}
    BY <1>6 DEF EditOther, IInv, TurnTypeOK
  <2>3. source'.status = "active" /\ "this" \notin pending' => receipt' # "none"
    BY <1>3, <1>6, <2>1, <2>2 DEF EditOther, DatabaseOK
  <2> QED  BY <1>1, <1>2, <1>6, <2>1, <2>2, <2>3, ChangeStep DEF EditOther
<1>7. CASE Prefer
  <2>1. receipt \in {"none", "clear", "restricted"}
    BY DEF IInv, TurnTypeOK
  <2>2. source' = source /\ pending' = pending /\ receipt' = receipt
    BY <1>7 DEF Prefer
  <2> QED  BY <1>1, <1>2, <1>3, <1>7, <2>1, <2>2, ChangeStep DEF Prefer, DatabaseOK
<1> QED  BY <1>4, <1>5, <1>6, <1>7


-----------------------------------------------------------------------------
(* Frames and queues.                                                      *)

LEMMA AppendFacts ==
  ASSUME NEW S, NEW s \in Seq(S), NEW e \in S
  PROVE  /\ Append(s, e) \in Seq(S)
         /\ Len(Append(s, e)) = Len(s) + 1
         /\ Len(s) \in Nat
         /\ \A i \in 1..Len(s) : Append(s, e)[i] = s[i]
         /\ Append(s, e)[Len(s) + 1] = e
         /\ s = <<>> => Append(s, e) = <<e>>
<1>1. s = <<>> => Append(s, e) = <<e>>
  OBVIOUS
<1> QED  BY <1>1

LEMMA AppendElements ==
  ASSUME NEW S, NEW s \in Seq(S), NEW e \in S, NEW i \in 1..Len(Append(s, e))
  PROVE  Append(s, e)[i] = e \/ (i \in 1..Len(s) /\ Append(s, e)[i] = s[i])
BY AppendFacts

LEMMA TailFacts ==
  ASSUME NEW S, NEW s \in Seq(S), s # <<>>
  PROVE  /\ Tail(s) \in Seq(S) /\ Head(s) \in S
         /\ 1 \in 1..Len(s) /\ Head(s) = s[1]
         /\ Len(Tail(s)) = Len(s) - 1 /\ Len(s) \in Nat
         /\ \A i \in 1..Len(Tail(s)) : i + 1 \in 1..Len(s) /\ Tail(s)[i] = s[i + 1]
         /\ \A i \in 1..Len(s) : i # 1 => i - 1 \in 1..Len(Tail(s)) /\ Tail(s)[i - 1] = s[i]
<1>1. Len(s) \in Nat \ {0} /\ Tail(s) \in Seq(S) /\ Len(Tail(s)) = Len(s) - 1 /\ Head(s) = s[1]
            /\ Head(s) \in S
  BY EmptySeq, HeadTailProperties
<1>2. \A i \in 1..Len(Tail(s)) : i + 1 \in 1..Len(s) /\ Tail(s)[i] = s[i + 1]
  BY <1>1
<1>3. ASSUME NEW i \in 1..Len(s), i # 1 PROVE i - 1 \in 1..Len(Tail(s)) /\ Tail(s)[i - 1] = s[i]
  <2>1. i - 1 \in 1..Len(Tail(s)) /\ (i - 1) + 1 = i
    BY <1>1, <1>3
  <2> QED  BY <1>2, <2>1
<1> QED  BY <1>1, <1>2, <1>3

LEMMA ControlFacts ==
  ASSUME NEW kind \in {"none", "revision", "error"}, NEW n \in Nat
  PROVE  Control(kind, n) \in Envelope /\ FrameOK(Control(kind, n)) /\ FrameOK(Control(kind, n))'
<1> DEFINE f == FALSE
           e == [kind |-> kind, fence |-> 0, revision |-> n, draft |-> f, text |-> NoText]
<1>1. e \in Envelope /\ e.kind = kind /\ e.fence = 0
  <2>1. f \in BOOLEAN
    OBVIOUS
  <2> HIDE DEF f
  <2> QED  BY <2>1, TextFacts DEF Envelope
<1>2. Control(kind, n) = e
  BY DEF Control
<1> HIDE DEF e
<1> QED  BY <1>1, <1>2 DEF FrameOK

LEMMA NoEnvelopeFacts ==
  /\ NoEnvelope \in Envelope /\ FrameOK(NoEnvelope) /\ FrameOK(NoEnvelope)'
  /\ NoEnvelope.kind = "none" /\ NoEnvelope.revision = 0
<1>1. NoEnvelope \in Envelope /\ FrameOK(NoEnvelope) /\ FrameOK(NoEnvelope)'
  BY ControlFacts DEF NoEnvelope
<1> QED  BY <1>1 DEF NoEnvelope, Control

LEMMA SameFrames ==
  ASSUME NEW r, FramesOK(r), reply' = reply, sending'[r] = sending[r], queue'[r] = queue[r]
  PROVE  FramesOK(r)'
BY DEF FramesOK, FrameOK, AnswerOK

LEMMA AppendedFrames ==
  ASSUME TurnTypeOK, NEW r \in Requests, FramesOK(r), reply' = reply, sending'[r] = sending[r],
         NEW e \in Envelope, FrameOK(e)', queue'[r] = Append(queue[r], e)
  PROVE  FramesOK(r)'
<1>1. queue[r] \in Seq(Envelope)
  BY DEF TurnTypeOK
<1>2. ASSUME NEW f, FrameOK(f) PROVE FrameOK(f)'
  BY <1>2 DEF FrameOK, AnswerOK
<1>3. FrameOK(sending[r])'
  BY <1>2 DEF FramesOK
<1>4. ASSUME NEW i \in 1..Len(queue'[r]) PROVE FrameOK(queue[r][i])'
  <2>1. queue'[r][i] = e \/ (i \in 1..Len(queue[r]) /\ queue'[r][i] = queue[r][i])
    BY <1>1, <1>4, AppendElements
  <2>2. CASE queue'[r][i] = e
    BY <2>2
  <2>3. CASE i \in 1..Len(queue[r]) /\ queue'[r][i] = queue[r][i]
    <3>1. PICK f : f = queue[r][i]
      OBVIOUS
    <3>2. FrameOK(f)
      BY <2>3, <3>1 DEF FramesOK
    <3>3. queue'[r][i] = f /\ FrameOK(f)'
      BY <1>2, <2>3, <3>1, <3>2
    <3> QED  BY <3>3
  <2> QED  BY <2>1, <2>2, <2>3
<1> QED  BY <1>3, <1>4 DEF FramesOK

\* A step of one request that leaves authority, testimony and reply alone.
LEMMA RequestStep ==
  ASSUME IInv, NEW r \in Requests, TurnTypeOK',
         UNCHANGED <<authority, source, pending, receipt, reply, delivered>>,
         holder' = holder \/ holder' \in {NoRequest, r},
         \A q \in Requests \ {r} : Same(q),
         browser[r].got # NoText => browser'[r].got = browser[r].got,
         RequestOK(r)'
  PROVE  IInv'
<1>1. \A q \in Requests \ {r} : Undisturbed(q)
  BY NoDisturbance, RequestFacts
<1>2. \A q \in Requests : browser[q].got # NoText => browser'[q].got = browser[q].got
  BY DEF Same
<1>3. DatabaseOK'
  BY <1>2, DatabaseStays DEF IInv
<1>4. Grows(r)
  BY DEF Grows, IInv, TurnTypeOK
<1> QED  BY <1>1, <1>3, <1>4, Assemble

-----------------------------------------------------------------------------
(* The producer fails.                                                     *)

LEMMA FailsStep ==
  ASSUME IInv, NEW r \in Requests, pc[r] \in Early \cup Middle, Fails(r), faults' \in 0..MaxFaults
  PROVE  IInv'
<1>1. TurnTypeOK /\ RequestOK(r)
  BY DEF IInv
<1>2. Control("error", 0) \in Envelope /\ FrameOK(Control("error", 0))'
  BY ControlFacts
<1>3. queue'[r] = Append(queue[r], Control("error", 0)) /\ queue[r] \in Seq(Envelope)
  BY <1>1 DEF Fails, TurnTypeOK
<1>4. NoGeneration \in Generation /\ NoReview \in Review
  <2> DEFINE f == FALSE
  <2>1. NoGeneration = [state |-> "off", under |-> 0, draft |-> f, writes |-> 0, wrote |-> f] /\ f \in BOOLEAN
    BY DEF NoGeneration
  <2> HIDE DEF f
  <2> QED  BY <2>1 DEF NoReview, Review, Generation
<1>5. TurnTypeOK'
  <2>1. Append(queue[r], Control("error", 0)) \in Seq(Envelope)
    BY <1>2, <1>3, AppendFacts
  <2>2. queue' \in [Requests -> Seq(Envelope)]
    BY <1>1, <2>1 DEF TurnTypeOK, Fails
  <2>3. generation' \in [Requests -> Generation] /\ reviewing' \in [Requests -> Review]
    BY <1>1, <1>4 DEF TurnTypeOK, Fails
  <2>4. pc' \in [Requests -> Stages]
    BY <1>1 DEF TurnTypeOK, Fails, Goto, Stages
  <2>5. holder' \in Requests \cup {NoRequest}
    BY <1>1 DEF TurnTypeOK, Fails, Released
  <2> QED  BY <1>1, <2>2, <2>3, <2>4, <2>5 DEF TurnTypeOK, Fails
<1>6. \A q \in Requests \ {r} : Same(q)
  BY <1>1 DEF Same, TurnTypeOK, Fails, Goto
<1>7. browser[r].got = NoText /\ sending[r].kind # "result"
      /\ \A i \in 1..Len(queue[r]) : queue[r][i].kind # "result"
  <2>1. CASE pc[r] \in Early
    BY <1>1, <2>1, NoEnvelopeFacts DEF RequestOK, EarlyOK
  <2>2. CASE pc[r] \in Middle
    BY <1>1, <2>2 DEF RequestOK, MiddleOK, StreamOK, DraftFrameOK, PageOK
  <2> QED  BY <2>1, <2>2
<1>8. FramesOK(r)'
  BY <1>1, <1>2, <1>3, AppendedFrames DEF Fails, RequestOK
<1>9. NoResults(r)'
  <2>1. ASSUME NEW i \in 1..Len(queue'[r]) PROVE queue'[r][i].kind # "result"
    <3>1. queue'[r][i] = Control("error", 0) \/ (i \in 1..Len(queue[r]) /\ queue'[r][i] = queue[r][i])
      BY <1>2, <1>3, <2>1, AppendElements
    <3> QED  BY <1>7, <3>1 DEF Control
  <2> QED  BY <1>7, <2>1 DEF NoResults, Fails
<1>10. pc'[r] = "sent" /\ generation'[r] = NoGeneration
  BY <1>1 DEF Fails, Goto, TurnTypeOK
<1>11. LateOK(r)'
  BY <1>7, <1>9, <1>10 DEF LateOK, Unanswered, Fails
<1>12. RequestOK(r)'
  BY <1>1, <1>8, <1>10, <1>11 DEF RequestOK, Early, Middle, Fails
<1> QED  BY <1>5, <1>6, <1>7, <1>12, RequestStep DEF Fails, Released


-----------------------------------------------------------------------------
(* The producer before it generates.                                       *)

LEMMA OpenStep ==
  ASSUME IInv, NEW r \in Requests, Open(r)
  PROVE  IInv'
<1>1. TurnTypeOK /\ RequestOK(r) /\ pc[r] \in Early
  BY DEF IInv, Open, Early
<1>2. emitter'[r].fence = authority /\ emitter'[r].revision = emitter[r].revision
      /\ emitter' \in [Requests -> Emitter] /\ authority \in Nat \ {0}
  BY <1>1 DEF Open, TurnTypeOK, Emitter
<1>3. pc' \in [Requests -> Stages] /\ pc'[r] = "look"
  BY <1>1 DEF Open, Goto, TurnTypeOK, Stages
<1>4. TurnTypeOK'
  BY <1>1, <1>2, <1>3 DEF TurnTypeOK, Open, tasks, stream, bounds
<1>5. \A q \in Requests \ {r} : Same(q)
  BY <1>1 DEF Same, TurnTypeOK, Open, Goto, tasks, stream
<1>6. EarlyOK(r)'
  BY <1>1, <1>2, <1>3 DEF RequestOK, EarlyOK, Open, tasks, stream
<1>7. FramesOK(r)'
  BY <1>1, SameFrames DEF RequestOK, Open, stream
<1>8. RequestOK(r)'
  BY <1>2, <1>3, <1>6, <1>7 DEF RequestOK, Early, Middle, Late, Open
<1> QED  BY <1>4, <1>5, <1>8, RequestStep DEF Open, stream

LEMMA SavedReplyFacts ==
  ASSUME IInv
  PROVE  /\ SavedReply \in Answer
         /\ SavedReply = NoText \/ (\A fence \in Nat : fence <= authority => AnswerOK(SavedReply, fence))
<1>1. reply \in Reply
  BY DEF IInv, TurnTypeOK
<1>2. reply.text \in Answer
  BY <1>1 DEF Reply
<1>3. reply # NoReply /\ reply.authority = authority =>
        \A fence \in Nat : fence <= authority => AnswerOK(reply.text, fence)
  BY DEF AnswerOK
<1>4. \A fence \in Nat : AnswerOK(Rebuild, fence)
  BY DEF AnswerOK
<1>5. SavedReply \in {NoText, Rebuild} \/ (SavedReply = reply.text /\ reply # NoReply /\ reply.authority = authority)
  BY DEF SavedReply
<1> QED  BY <1>2, <1>3, <1>4, <1>5, TextFacts

LEMMA LookStep ==
  ASSUME IInv, NEW r \in Requests, Look(r)
  PROVE  IInv'
<1>1. TurnTypeOK /\ RequestOK(r) /\ pc[r] \in Early
  BY DEF IInv, Look, Early
<1>2. memo'[r].answer = SavedReply /\ memo' \in [Requests -> Memo]
  <2> DEFINE found == source.status # "none"
  <2>1. memo' = [memo EXCEPT ![r].found = found, ![r].answer = SavedReply] /\ found \in BOOLEAN
    BY DEF Look
  <2> HIDE DEF found
  <2> QED  BY <1>1, <2>1, SavedReplyFacts DEF TurnTypeOK, Memo
<1>3. pc' \in [Requests -> Stages] /\ pc'[r] = "status"
  BY <1>1 DEF Look, Goto, TurnTypeOK, Stages
<1>4. TurnTypeOK'
  BY <1>1, <1>2, <1>3 DEF TurnTypeOK, Look, database, tasks, stream, bounds
<1>5. \A q \in Requests \ {r} : Same(q)
  BY <1>1 DEF Same, TurnTypeOK, Look, Goto, tasks, stream
<1>6. SavedReply = NoText \/ AnswerOK(SavedReply, emitter[r].fence)
  BY <1>1, SavedReplyFacts DEF RequestOK, TurnTypeOK, Emitter
<1>7. memo'[r].answer = NoText \/ AnswerOK(memo[r].answer, emitter[r].fence)'
  BY <1>2, <1>6 DEF AnswerOK, Look, database
<1>8. EarlyOK(r)'
  BY <1>1, <1>3, <1>7 DEF RequestOK, EarlyOK, Look, database, tasks, stream
<1>9. FramesOK(r)'
  BY <1>1, SameFrames DEF RequestOK, Look, stream, database
<1>10. RequestOK(r)'
  BY <1>1, <1>3, <1>8, <1>9 DEF RequestOK, Early, Middle, Late, Look, database
<1> QED  BY <1>4, <1>5, <1>10, RequestStep DEF Look, stream, database

LEMMA ReviewTypes ==
  NoReview \in Review /\ NewReview \in Review
BY DEF NoReview, NewReview, Review

LEMMA StatusStep ==
  ASSUME IInv, NEW r \in Requests, Status(r)
  PROVE  IInv'
<1>1. TurnTypeOK /\ RequestOK(r) /\ pc[r] \in Early
  BY DEF IInv, Status, Early
<1>2. pc'[r] = "clear" \/ pc'[r] = AfterStatus(r)
  BY <1>1 DEF Status, Goto, TurnTypeOK
<1>3. pc' \in [Requests -> Stages]
  BY <1>1 DEF Status, Goto, TurnTypeOK, Stages, AfterStatus
<1>4. reviewing' \in [Requests -> Review]
  BY <1>1, ReviewTypes DEF Status, TurnTypeOK
<1>5. TurnTypeOK'
  BY <1>1, <1>3, <1>4 DEF TurnTypeOK, Status, database, stream, bounds
<1>6. \A q \in Requests \ {r} : Same(q)
  BY <1>1 DEF Same, TurnTypeOK, Status, Goto, stream
<1>7. AnswerOK(memo[r].answer, emitter[r].fence) => AnswerOK(memo[r].answer, emitter[r].fence)'
  BY DEF Status, AnswerOK, database
<1>8. EarlyOK(r)'
  BY <1>1, <1>2, <1>7 DEF RequestOK, EarlyOK, Status, AfterStatus, database, stream
<1>9. FramesOK(r)'
  BY <1>1, SameFrames DEF RequestOK, Status, stream, database
<1>10. RequestOK(r)'
  BY <1>1, <1>2, <1>8, <1>9 DEF RequestOK, Early, Middle, Late, Status, AfterStatus, database
<1> QED  BY <1>5, <1>6, <1>10, RequestStep DEF Status, stream, database

LEMMA ClearedStep ==
  ASSUME IInv, NEW r \in Requests, Cleared(r)
  PROVE  IInv'
<1>1. TurnTypeOK /\ RequestOK(r) /\ pc[r] \in Early
  BY DEF IInv, Cleared, Early
<1>2. CASE Fails(r) /\ UNCHANGED faults
  BY <1>1, <1>2, FailsStep DEF TurnTypeOK
<1>3. CASE /\ Goto(r, AfterStatus(r)) /\ reviewing' = [reviewing EXCEPT ![r] = NoReview]
           /\ UNCHANGED <<database, memo, emitter, generation, stream, bounds>>
  <2>1. pc'[r] = AfterStatus(r)
    BY <1>1, <1>3 DEF Goto, TurnTypeOK
  <2>2. pc' \in [Requests -> Stages]
    BY <1>1, <1>3 DEF Goto, TurnTypeOK, Stages, AfterStatus
  <2>3. reviewing' \in [Requests -> Review]
    BY <1>1, <1>3, ReviewTypes DEF TurnTypeOK
  <2>4. TurnTypeOK'
    BY <1>1, <1>3, <2>2, <2>3 DEF TurnTypeOK, database, stream, bounds
  <2>5. \A q \in Requests \ {r} : Same(q)
    BY <1>1, <1>3 DEF Same, TurnTypeOK, Goto, stream
  <2>6. AnswerOK(memo[r].answer, emitter[r].fence) => AnswerOK(memo[r].answer, emitter[r].fence)'
    BY <1>3 DEF AnswerOK, database
  <2>7. EarlyOK(r)'
    BY <1>1, <1>3, <2>1, <2>6 DEF RequestOK, EarlyOK, Cleared, AfterStatus, database, stream
  <2>8. FramesOK(r)'
    BY <1>1, <1>3, SameFrames DEF RequestOK, stream, database
  <2>9. RequestOK(r)'
    BY <1>1, <1>3, <2>1, <2>7, <2>8 DEF RequestOK, Early, Middle, Late, AfterStatus, database
  <2> QED  BY <1>3, <2>4, <2>5, <2>9, RequestStep DEF stream, database
<1> QED  BY <1>2, <1>3 DEF Cleared

\* A request that has sent nothing may begin its reply.
LEMMA MiddleBegins ==
  ASSUME TurnTypeOK, NEW r \in Requests, EarlyOK(r), pc[r] \in {"accept", "review"}, pc'[r] = "prepare",
         emitter'[r] = emitter[r], generation'[r] = generation[r], queue'[r] = queue[r],
         sending'[r] = sending[r], browser'[r] = browser[r], reply' = reply,
         source'.status # "none", memo'[r].answer = NoText
  PROVE  MiddleOK(r)'
<1> DEFINE f == FALSE
           n == "off"
<1>1. generation[r] = NoGeneration /\ queue[r] = <<>> /\ sending[r] = NoEnvelope
      /\ browser[r].revision = 0 /\ browser[r].shown = {} /\ browser[r].got = NoText
      /\ emitter[r].revision = 0 /\ emitter[r].fence # 0 /\ reply.text.by # r
  BY DEF EarlyOK
<1>2. generation[r].state = "off" /\ ~generation[r].wrote
  BY <1>1 DEF NoGeneration
<1>3. Len(queue[r]) = 0
  BY <1>1
<1>4. StreamOK(r)'
  BY <1>1, <1>3, NoEnvelopeFacts DEF StreamOK, DraftFrameOK, IsCurrent, RevisionFirst, PageOK
<1>5. DraftArrives(r)' /\ DraftAllowed(r)'
  BY <1>2 DEF DraftArrives, DraftAllowed, Admitted
<1> QED  BY <1>1, <1>2, <1>4, <1>5 DEF MiddleOK

LEMMA ReviewedStep ==
  ASSUME IInv, NEW r \in Requests, Reviewed(r)
  PROVE  IInv'
<1>1. TurnTypeOK /\ RequestOK(r) /\ pc[r] \in Early
  BY DEF IInv, Reviewed, Early
<1>2. CASE Fails(r) /\ UNCHANGED faults
  BY <1>1, <1>2, FailsStep DEF TurnTypeOK
<1>3. CASE /\ Goto(r, "prepare") /\ reviewing' = [reviewing EXCEPT ![r] = NoReview]
           /\ UNCHANGED <<database, memo, emitter, generation, stream, bounds>>
  <2>1. pc'[r] = "prepare"
    BY <1>1, <1>3 DEF Goto, TurnTypeOK
  <2>2. pc' \in [Requests -> Stages]
    BY <1>1, <1>3 DEF Goto, TurnTypeOK, Stages
  <2>3. reviewing' \in [Requests -> Review]
    BY <1>1, <1>3, ReviewTypes DEF TurnTypeOK
  <2>4. TurnTypeOK'
    BY <1>1, <1>3, <2>2, <2>3 DEF TurnTypeOK, database, stream, bounds
  <2>5. \A q \in Requests \ {r} : Same(q)
    BY <1>1, <1>3 DEF Same, TurnTypeOK, Goto, stream
  <2>6. EarlyOK(r) /\ pc[r] = "review"
    BY <1>1 DEF RequestOK, Reviewed
  <2>7. memo[r].answer = NoText /\ source.status # "none"
    BY <2>6 DEF EarlyOK
  <2>8. MiddleOK(r)'
    BY <1>1, <1>3, <2>1, <2>6, <2>7, MiddleBegins DEF stream, database
  <2>9. FramesOK(r)'
    BY <1>1, <1>3, SameFrames DEF RequestOK, stream, database
  <2>10. RequestOK(r)'
    BY <1>1, <1>3, <2>1, <2>8, <2>9 DEF RequestOK, Early, Middle, Late, database
  <2> QED  BY <1>3, <2>4, <2>5, <2>10, RequestStep DEF stream, database
<1> QED  BY <1>2, <1>3 DEF Reviewed

LEMMA AcceptStep ==
  ASSUME IInv, NEW r \in Requests, Accept(r)
  PROVE  IInv'
<1>1. TurnTypeOK /\ DatabaseOK /\ RequestOK(r) /\ EarlyOK(r) /\ pc[r] = "accept"
  BY DEF IInv, Accept, Early, RequestOK
<1> DEFINE revisable == Parallel /\ ~memo[r].found
           version == IF source.status = "none" THEN 1 ELSE source.version
<1>2. /\ memo' = [memo EXCEPT ![r].version = version, ![r].revisable = revisable,
                              ![r].unreviewed = revisable]
      /\ pc' = [pc EXCEPT ![r] = IF revisable THEN "prepare" ELSE "review"]
      /\ reviewing' = IF revisable THEN reviewing ELSE [reviewing EXCEPT ![r] = NewReview]
      /\ UNCHANGED <<holder, receipt, reply, delivered, emitter, generation, stream, bounds>>
  BY DEF Accept, Goto
<1>3. memo[r].found \in BOOLEAN /\ source.version \in Nat
  BY <1>1 DEF TurnTypeOK, Memo, Source
<1>4. revisable \in BOOLEAN /\ version \in Nat
  BY <1>3, ParallelAssumption
<1>5. \/ UNCHANGED <<source, pending, authority>> /\ source.status # "none"
      \/ /\ source.status = "none" /\ source' = [status |-> "active", version |-> 1, latest |-> TRUE]
         /\ pending' = pending \cup {"this"} /\ authority' = authority + 1
  BY DEF Accept
<1>6. source' \in Source /\ source'.status # "none" /\ pending' \subseteq {"this", "other"}
      /\ authority' \in Nat \ {0} /\ authority <= authority' /\ authority \in Nat
  <2>1. [status |-> "active", version |-> 1, latest |-> TRUE] \in Source
    BY DEF Source
  <2>2. CASE UNCHANGED <<source, pending, authority>> /\ source.status # "none"
    BY <1>1, <2>2 DEF TurnTypeOK
  <2>3. CASE /\ source.status = "none" /\ source' = [status |-> "active", version |-> 1, latest |-> TRUE]
             /\ pending' = pending \cup {"this"} /\ authority' = authority + 1
    <3>1. source' \in Source /\ source'.status # "none"
      BY <2>1, <2>3
    <3> QED  BY <1>1, <2>3, <3>1 DEF TurnTypeOK
  <2> QED  BY <1>5, <2>2, <2>3
<1> HIDE DEF revisable, version
<1>7. memo' \in [Requests -> Memo] /\ memo'[r].answer = memo[r].answer
      /\ memo'[r].unreviewed = revisable
  <2>1. memo[r] \in Memo
    BY <1>1 DEF TurnTypeOK
  <2>2. memo'[r] = [memo[r] EXCEPT !.version = version, !.revisable = revisable, !.unreviewed = revisable]
    BY <1>1, <1>2 DEF TurnTypeOK
  <2>3. memo'[r] \in Memo /\ memo'[r].answer = memo[r].answer /\ memo'[r].unreviewed = revisable
    BY <1>4, <2>1, <2>2 DEF Memo
  <2> QED  BY <1>1, <1>2, <2>2, <2>3 DEF TurnTypeOK
<1>8. pc' \in [Requests -> Stages] /\ reviewing' \in [Requests -> Review]
      /\ pc'[r] = IF revisable THEN "prepare" ELSE "review"
  BY <1>1, <1>2, ReviewTypes DEF TurnTypeOK, Stages
<1>9. TurnTypeOK'
  BY <1>1, <1>2, <1>6, <1>7, <1>8 DEF TurnTypeOK, stream, bounds
<1>10. DatabaseOK'
  <2>1. reply' = reply /\ delivered' = delivered /\ browser' = browser /\ receipt' = receipt
    BY <1>2 DEF stream
  <2>2. reply.authority \in Nat
    BY <1>1 DEF TurnTypeOK, Reply
  <2> QED  BY <1>1, <1>5, <1>6, <2>1, <2>2 DEF DatabaseOK
<1>11. Grows(r)
  BY <1>2, <1>6 DEF Grows
<1>12. \A q \in Requests \ {r} : Same(q) /\ Undisturbed(q)
  <2>1. ASSUME NEW q \in Requests \ {r} PROVE Same(q)
    BY <1>1, <1>2 DEF Same, TurnTypeOK, stream
  <2>2. ASSUME NEW q \in Requests \ {r} PROVE Undisturbed(q)
    BY <1>2, <1>5, <1>6, NoDisturbance DEF Undisturbed
  <2> QED  BY <2>1, <2>2
<1>13. memo[r].answer = NoText
  BY <1>1 DEF EarlyOK
<1>14. ASSUME revisable PROVE pc'[r] = "prepare" /\ MiddleOK(r)'
  <2>1. pc'[r] = "prepare"
    BY <1>8, <1>14
  <2>2. MiddleOK(r)'
    BY <1>1, <1>2, <1>6, <1>7, <1>13, <2>1, MiddleBegins DEF stream
  <2> QED  BY <2>1, <2>2
<1>15. ASSUME ~revisable PROVE pc'[r] = "review" /\ EarlyOK(r)'
  <2>1. pc'[r] = "review"
    BY <1>8, <1>15
  <2>2. EarlyOK(r)'
    BY <1>1, <1>2, <1>6, <1>7, <1>13, <1>15, <2>1 DEF EarlyOK, stream
  <2> QED  BY <2>1, <2>2
<1>16. FramesOK(r)'
  BY <1>1, <1>2, SameFrames DEF RequestOK, stream
<1>17. emitter'[r].fence <= authority'
  <2>1. emitter[r].fence \in Nat /\ emitter[r].fence <= authority
    BY <1>1 DEF TurnTypeOK, Emitter, RequestOK
  <2> QED  BY <1>2, <1>6, <2>1
<1>18. RequestOK(r)'
  <2>1. (pc'[r] = "prepare" /\ MiddleOK(r)') \/ (pc'[r] = "review" /\ EarlyOK(r)')
    BY <1>14, <1>15
  <2> QED  BY <1>16, <1>17, <2>1 DEF RequestOK, Early, Middle, Late
<1> QED  BY <1>9, <1>10, <1>11, <1>12, <1>18, Assemble

LEMMA ReplayStep ==
  ASSUME IInv, NEW r \in Requests, Replay(r)
  PROVE  IInv'
<1>1. TurnTypeOK /\ RequestOK(r) /\ EarlyOK(r) /\ pc[r] = "replay"
  BY DEF IInv, Replay, Early, RequestOK
<1>2. queue[r] = <<>> /\ sending[r] = NoEnvelope /\ browser[r].got = NoText /\ browser[r].shown = {}
      /\ generation[r] = NoGeneration /\ reply.text.by # r /\ emitter[r].fence # 0
      /\ AnswerOK(memo[r].answer, emitter[r].fence)
  BY <1>1 DEF EarlyOK
<1>3. UNCHANGED <<database, memo, emitter, generation, reviewing, sending, browser, bounds>>
  BY DEF Replay, tasks
<1> DEFINE e == ResultFrame(r, memo[r].answer)
<1>4. e = TheResult(r) /\ e \in Envelope /\ e.kind = "result" /\ e.text = memo[r].answer
      /\ e.fence = emitter[r].fence
  <2> DEFINE f == FALSE
  <2>1. f \in BOOLEAN /\ e = [kind |-> "result", fence |-> emitter[r].fence, revision |-> 0,
                              draft |-> f, text |-> memo[r].answer]
    BY DEF ResultFrame
  <2>2. e = TheResult(r)
    BY DEF ResultFrame, TheResult, AnswerFrame
  <2>3. emitter[r].fence \in Nat /\ memo[r].answer \in Answer
    BY <1>1 DEF TurnTypeOK, Emitter, Memo
  <2> HIDE DEF e, f
  <2> QED  BY <2>1, <2>2, <2>3 DEF Envelope
<1>5. queue'[r] = Append(queue[r], e) /\ pc'[r] = "sent"
      /\ queue' = [queue EXCEPT ![r] = Append(queue[r], e)] /\ pc' = [pc EXCEPT ![r] = "sent"]
  BY <1>1 DEF Replay, TurnTypeOK, Goto
<1>6. PICK f \in Envelope : f = e /\ FrameOK(f)'
  <2>1. PICK f : f = e
    OBVIOUS
  <2>2. f.kind = "result" /\ f.fence # 0 /\ AnswerOK(f.text, f.fence) /\ reply' = reply
    BY <1>2, <1>3, <1>4, <2>1 DEF database
  <2>3. FrameOK(f)'
    BY <2>2 DEF FrameOK, AnswerOK
  <2> QED  BY <1>4, <2>1, <2>3
<1>7. \A q \in Requests \ {r} : Same(q)
  BY <1>1, <1>3, <1>5 DEF Same, TurnTypeOK
<1>8. TurnTypeOK'
  <2>1. queue' \in [Requests -> Seq(Envelope)]
    <3>1. Append(queue[r], e) \in Seq(Envelope)
      BY <1>1, <1>4, AppendFacts DEF TurnTypeOK
    <3> HIDE DEF e
    <3> QED  BY <1>1, <1>5, <3>1 DEF TurnTypeOK
  <2>2. pc' \in [Requests -> Stages]
    BY <1>1, <1>5 DEF TurnTypeOK, Stages
  <2> QED  BY <1>1, <1>3, <2>1, <2>2 DEF TurnTypeOK, database, bounds
<1> HIDE DEF e
<1>9. FramesOK(r)'
  BY <1>1, <1>3, <1>4, <1>5, <1>6, AppendedFrames DEF RequestOK, database
<1>10. LateOK(r)'
  <2>1. queue'[r] = <<e>> /\ sending'[r] = NoEnvelope
    BY <1>2, <1>3, <1>4, <1>5, AppendFacts, <1>1 DEF TurnTypeOK
  <2>2. TheResult(r)' = e
    BY <1>3, <1>4 DEF TheResult, AnswerFrame
  <2>3. Closing(r)'
    BY <1>2, <1>3, <2>1, <2>2 DEF Closing, Shown, database
  <2>4. AnswerOK(memo[r].answer, emitter[r].fence)'
    BY <1>2, <1>3 DEF AnswerOK, database
  <2> QED  BY <1>2, <1>3, <1>5, <2>3, <2>4 DEF LateOK, Answering
<1>11. RequestOK(r)'
  BY <1>1, <1>3, <1>5, <1>9, <1>10 DEF RequestOK, Early, Middle, database
<1> QED  BY <1>3, <1>7, <1>8, <1>11, RequestStep DEF database


-----------------------------------------------------------------------------
(* The producer while the reply is generated and reviewed.                 *)

\* Whatever was streamed before belongs to an earlier revision.
LEMMA RevisionBegins ==
  ASSUME TurnTypeOK, NEW r \in Requests, StreamOK(r), NEW n \in Nat, n = emitter[r].revision + 1,
         emitter'[r].revision = n, queue'[r] = Append(queue[r], Control("revision", n)),
         sending'[r] = sending[r], browser'[r] = browser[r]
  PROVE  StreamOK(r)'
<1> DEFINE e == Control("revision", n)
<1>1. queue[r] \in Seq(Envelope) /\ e \in Envelope /\ sending[r] \in Envelope
      /\ emitter[r].revision \in Nat
  BY ControlFacts DEF TurnTypeOK, Emitter
<1>2. e.kind = "revision" /\ e.revision = n
  BY DEF Control
<1> HIDE DEF e
<1>3. ASSUME NEW f \in Envelope, DraftFrameOK(r, f) PROVE DraftFrameOK(r, f)' /\ ~IsCurrent(r, f)'
  <2>1. f.revision \in Nat
    BY DEF Envelope
  <2> QED  BY <1>1, <1>3, <2>1 DEF DraftFrameOK, IsCurrent
<1>4. DraftFrameOK(r, e)' /\ ~IsCurrent(r, e)'
  BY <1>2 DEF DraftFrameOK, IsCurrent, e
<1>5. /\ Len(queue'[r]) = Len(queue[r]) + 1 /\ Len(queue[r]) \in Nat
      /\ queue'[r][Len(queue[r]) + 1] = e
      /\ \A i \in 1..Len(queue[r]) : queue'[r][i] = queue[r][i] /\ queue[r][i] \in Envelope
  <2>1. queue'[r] = Append(queue[r], e)
    BY DEF e
  <2> QED  BY <1>1, <2>1, AppendFacts
<1>6. ASSUME NEW i \in 1..Len(queue'[r]) PROVE DraftFrameOK(r, queue[r][i])' /\ ~IsCurrent(r, queue[r][i])'
  <2>1. PICK f : f = queue'[r][i]
    OBVIOUS
  <2>2. f = e \/ (f \in Envelope /\ DraftFrameOK(r, f))
    BY <1>5, <1>6, <2>1 DEF StreamOK
  <2>3. DraftFrameOK(r, f)' /\ ~IsCurrent(r, f)'
    BY <1>3, <1>4, <2>2
  <2> QED  BY <2>1, <2>3
<1>7. DraftFrameOK(r, sending[r])' /\ ~IsCurrent(r, sending[r])'
  <2>1. PICK f : f = sending[r]
    OBVIOUS
  <2>2. DraftFrameOK(r, f)' /\ ~IsCurrent(r, f)'
    BY <1>1, <1>3, <2>1 DEF StreamOK
  <2> QED  BY <2>1, <2>2
<1>8. RevisionFirst(r)'
  <2>1. Len(queue'[r]) \in 1..Len(queue'[r]) /\ queue'[r][Len(queue'[r])] = Control("revision", emitter'[r].revision)
    BY <1>5 DEF e
  <2> QED  BY <1>6, <2>1 DEF RevisionFirst
<1>9. PageOK(r)'
  <2>1. browser[r].revision \in Nat
    BY DEF TurnTypeOK, Browser
  <2> QED  BY <1>1, <2>1 DEF StreamOK, PageOK
<1> QED  BY <1>6, <1>7, <1>8, <1>9 DEF StreamOK

\* The revision stays, and the text of a generation that is on.
LEMMA RevisionStays ==
  ASSUME NEW r \in Requests, StreamOK(r), emitter'[r].revision = emitter[r].revision,
         queue'[r] = queue[r], sending'[r] = sending[r], browser'[r] = browser[r],
         On(r) => On(r)' /\ generation'[r].under = generation[r].under
                         /\ generation'[r].draft = generation[r].draft
  PROVE  StreamOK(r)' /\ (On(r) => Draft(r)' = Draft(r))
<1>1. On(r) => On(r)' /\ Draft(r)' = Draft(r)
  BY DEF Draft
<1>2. ASSUME NEW f PROVE (DraftFrameOK(r, f) => DraftFrameOK(r, f)') /\ IsCurrent(r, f)' = IsCurrent(r, f)
  BY <1>1 DEF DraftFrameOK, IsCurrent
<1>3. DraftFrameOK(r, sending[r])' /\ IsCurrent(r, sending[r])' = IsCurrent(r, sending[r])
  <2>1. PICK f : f = sending[r]
    OBVIOUS
  <2>2. DraftFrameOK(r, f)' /\ IsCurrent(r, f)' = IsCurrent(r, f)
    BY <1>2, <2>1 DEF StreamOK
  <2> QED  BY <2>1, <2>2
<1>4. ASSUME NEW i \in 1..Len(queue[r])
      PROVE  DraftFrameOK(r, queue[r][i])' /\ IsCurrent(r, queue[r][i])' = IsCurrent(r, queue[r][i])
  <2>1. PICK f : f = queue[r][i]
    OBVIOUS
  <2>2. DraftFrameOK(r, f)' /\ IsCurrent(r, f)' = IsCurrent(r, f)
    BY <1>2, <2>1 DEF StreamOK
  <2> QED  BY <2>1, <2>2
<1>5. RevisionFirst(r)'
  <2>1. ASSUME NEW j \in 1..Len(queue[r]), NEW i \in 1..j PROVE i \in 1..Len(queue[r])
    OBVIOUS
  <2> QED  BY <1>4, <2>1 DEF StreamOK, RevisionFirst
<1>6. PageOK(r)'
  BY <1>1 DEF StreamOK, PageOK
<1> QED  BY <1>1, <1>3, <1>4, <1>5, <1>6 DEF StreamOK

LEMMA OffFacts ==
  /\ NoGeneration \in Generation
  /\ NoGeneration.state = "off" /\ NoGeneration.wrote = FALSE
<1> DEFINE f == FALSE
<1>1. NoGeneration = [state |-> "off", under |-> 0, draft |-> f, writes |-> 0, wrote |-> f] /\ f \in BOOLEAN
  BY DEF NoGeneration
<1>2. NoGeneration.state = "off" /\ NoGeneration.wrote = FALSE
  BY DEF NoGeneration
<1> HIDE DEF f
<1> QED  BY <1>1, <1>2 DEF Generation

\* The head of the loop.
LEMMA PrepareOK ==
  ASSUME NEW r \in Requests, StreamOK(r)', pc'[r] \in {"prepare", "start"},
         generation'[r] = NoGeneration, reply'.text.by # r, source'.status # "none",
         memo'[r].answer = NoText, emitter'[r].fence # 0,
         pc'[r] = "start" => emitter'[r].draft = memo'[r].unreviewed
  PROVE  MiddleOK(r)'
<1>1. ~Admitted(r)' /\ generation'[r].state # "asked"
  BY OffFacts DEF Admitted
<1> QED  BY <1>1 DEF MiddleOK, DraftArrives, DraftAllowed

LEMMA PrepareStep ==
  ASSUME IInv, NEW r \in Requests, Prepare(r)
  PROVE  IInv'
<1>1. TurnTypeOK /\ RequestOK(r) /\ MiddleOK(r) /\ pc[r] = "prepare" /\ StreamOK(r)
  BY DEF IInv, Prepare, Middle, RequestOK, MiddleOK
<1>2. ASSUME Fails(r) /\ UNCHANGED faults PROVE IInv'
  BY <1>1, <1>2, FailsStep DEF TurnTypeOK, Middle
<1> DEFINE new == memo[r].revisable /\ emitter[r].revision = 0
           next == emitter[r].revision + (IF new THEN 1 ELSE 0)
<1> SUFFICES ASSUME /\ emitter' = [emitter EXCEPT ![r] =
                         [fence |-> authority, revision |-> next, draft |-> memo[r].unreviewed]]
                    /\ queue' = IF new THEN [queue EXCEPT ![r] = Append(@, Control("revision", next))]
                                ELSE queue
                    /\ Goto(r, "start")
                    /\ UNCHANGED <<database, memo, tasks, sending, browser, bounds>>
             PROVE  IInv'
  BY <1>2 DEF Prepare
<1>3. emitter[r].revision \in Nat /\ memo[r].unreviewed \in BOOLEAN /\ authority \in Nat \ {0}
      /\ queue[r] \in Seq(Envelope)
  BY <1>1 DEF TurnTypeOK, Emitter, Memo
<1>4. next \in Nat /\ (IF new THEN next = emitter[r].revision + 1 ELSE next = emitter[r].revision)
  BY <1>3
<1>5. /\ emitter'[r] = [fence |-> authority, revision |-> next, draft |-> memo[r].unreviewed]
      /\ pc' = [pc EXCEPT ![r] = "start"] /\ pc'[r] = "start"
      /\ queue'[r] = IF new THEN Append(queue[r], Control("revision", next)) ELSE queue[r]
  BY <1>1 DEF Goto, TurnTypeOK
<1> HIDE DEF new, next
<1>6. TurnTypeOK'
  <2>1. emitter'[r] \in Emitter
    BY <1>3, <1>4, <1>5 DEF Emitter
  <2>2. emitter' \in [Requests -> Emitter]
    BY <1>1, <2>1 DEF TurnTypeOK
  <2>3. Append(queue[r], Control("revision", next)) \in Seq(Envelope)
    BY <1>3, <1>4, ControlFacts, AppendFacts
  <2>4. queue' \in [Requests -> Seq(Envelope)]
    BY <1>1, <2>3 DEF TurnTypeOK
  <2>5. pc' \in [Requests -> Stages]
    BY <1>1, <1>5 DEF TurnTypeOK, Stages
  <2> QED  BY <1>1, <2>2, <2>4, <2>5 DEF TurnTypeOK, database, tasks, bounds
<1>7. \A q \in Requests \ {r} : Same(q)
  BY <1>1, <1>5 DEF Same, TurnTypeOK, tasks
<1>8. StreamOK(r)'
  <2>1. CASE new
    BY <1>1, <1>4, <1>5, <2>1, RevisionBegins
  <2>2. CASE ~new
    <3>1. ~On(r)
      BY <1>1, OffFacts DEF MiddleOK, On
    <3> QED  BY <1>1, <1>4, <1>5, <2>2, <3>1, RevisionStays
  <2> QED  BY <2>1, <2>2
<1>9. MiddleOK(r)'
  BY <1>1, <1>3, <1>5, <1>8, PrepareOK DEF MiddleOK, database, tasks
<1>10. FramesOK(r)'
  <2>1. reply' = reply /\ FramesOK(r) /\ sending'[r] = sending[r]
    BY <1>1 DEF RequestOK, database
  <2>2. CASE new
    BY <1>1, <1>4, <1>5, <2>1, <2>2, AppendedFrames, ControlFacts
  <2>3. CASE ~new
    BY <1>5, <2>1, <2>3, SameFrames
  <2> QED  BY <2>2, <2>3
<1>11. RequestOK(r)'
  BY <1>3, <1>5, <1>9, <1>10 DEF RequestOK, Early, Late, database
<1> QED  BY <1>6, <1>7, <1>11, RequestStep DEF database

\* An opening joins the frames of a request that has not generated anything.
LEMMA OpeningJoins ==
  ASSUME TurnTypeOK, NEW r \in Requests, StreamOK(r), ~On(r),
         emitter'[r].revision = emitter[r].revision,
         NEW e \in Envelope, e.kind = "opening", e.revision <= emitter[r].revision,
         queue'[r] = Append(queue[r], e), sending'[r] = sending[r], browser'[r] = browser[r]
  PROVE  StreamOK(r)'
<1>1. queue[r] \in Seq(Envelope)
  BY DEF TurnTypeOK
<1>2. ASSUME NEW f, DraftFrameOK(r, f) PROVE DraftFrameOK(r, f)' /\ ~IsCurrent(r, f)'
  BY <1>2 DEF DraftFrameOK, IsCurrent
<1>3. DraftFrameOK(r, e)
  BY DEF DraftFrameOK, IsCurrent
<1>4. /\ Len(queue'[r]) = Len(queue[r]) + 1 /\ Len(queue[r]) \in Nat
      /\ \A i \in 1..Len(queue[r]) : queue'[r][i] = queue[r][i]
  BY <1>1, AppendFacts
<1>5. ASSUME NEW i \in 1..Len(queue'[r]) PROVE DraftFrameOK(r, queue[r][i])' /\ ~IsCurrent(r, queue[r][i])'
  <2>1. PICK f : f = queue'[r][i]
    OBVIOUS
  <2>2. f = e \/ (i \in 1..Len(queue[r]) /\ f = queue[r][i])
    BY <1>1, <1>5, <2>1, AppendElements
  <2>3. DraftFrameOK(r, f)' /\ ~IsCurrent(r, f)'
    BY <1>2, <1>3, <2>2 DEF StreamOK
  <2> QED  BY <2>1, <2>3
<1>6. DraftFrameOK(r, sending[r])' /\ ~IsCurrent(r, sending[r])'
  <2>1. PICK f : f = sending[r]
    OBVIOUS
  <2>2. DraftFrameOK(r, f)' /\ ~IsCurrent(r, f)'
    BY <1>2, <2>1 DEF StreamOK
  <2> QED  BY <2>1, <2>2
<1>7. RevisionFirst(r)'
  <2>1. CASE browser[r].revision = emitter[r].revision
    BY <2>1 DEF RevisionFirst
  <2>2. ASSUME NEW j \in 1..Len(queue[r]), queue[r][j] = Control("revision", emitter[r].revision)
        PROVE  RevisionFirst(r)'
    <3>1. j \in 1..Len(queue'[r]) /\ queue'[r][j] = Control("revision", emitter'[r].revision)
      BY <1>4, <2>2
    <3>2. ASSUME NEW i \in 1..j PROVE i \in 1..Len(queue'[r])
      BY <3>1
    <3> QED  BY <1>5, <3>1, <3>2 DEF RevisionFirst
  <2> QED  BY <2>1, <2>2 DEF StreamOK, RevisionFirst
<1>8. PageOK(r)'
  BY DEF StreamOK, PageOK
<1> QED  BY <1>5, <1>6, <1>7, <1>8 DEF StreamOK

LEMMA OpeningFrameFacts ==
  ASSUME TurnTypeOK, NEW r \in Requests, emitter[r].fence # 0
  PROVE  /\ Frame(r, "opening", NoText) \in Envelope
         /\ Frame(r, "opening", NoText).kind = "opening"
         /\ Frame(r, "opening", NoText).fence = emitter[r].fence
         /\ Frame(r, "opening", NoText).revision = emitter[r].revision
         /\ Frame(r, "opening", NoText).draft = emitter[r].draft
<1> DEFINE e == Frame(r, "opening", NoText)
<1>1. emitter[r] \in Emitter
  BY DEF TurnTypeOK
<1>2. e = [kind |-> "opening", fence |-> emitter[r].fence, revision |-> emitter[r].revision,
           draft |-> emitter[r].draft, text |-> NoText]
  BY DEF Frame
<1>3. emitter[r].fence \in Nat /\ emitter[r].revision \in Nat /\ emitter[r].draft \in BOOLEAN
  BY <1>1 DEF Emitter
<1>4. /\ e \in Envelope /\ e.kind = "opening" /\ e.fence = emitter[r].fence
      /\ e.revision = emitter[r].revision /\ e.draft = emitter[r].draft
  BY <1>2, <1>3, TextFacts DEF Envelope
<1> QED  BY <1>4 DEF e

LEMMA StartStep ==
  ASSUME IInv, NEW r \in Requests, Start(r)
  PROVE  IInv'
<1>1. TurnTypeOK /\ RequestOK(r) /\ MiddleOK(r) /\ pc[r] = "start" /\ StreamOK(r)
  BY DEF IInv, Start, Middle, RequestOK, MiddleOK
<1>2. ASSUME Fails(r) /\ UNCHANGED faults PROVE IInv'
  BY <1>1, <1>2, FailsStep DEF TurnTypeOK, Middle
<1> DEFINE no == FALSE
           begun == [state |-> "asked", under |-> emitter[r].fence, draft |-> memo[r].unreviewed,
                     writes |-> 0, wrote |-> no]
<1> SUFFICES ASSUME /\ generation' = [generation EXCEPT ![r] = begun]
                    /\ reviewing' = IF memo[r].unreviewed THEN [reviewing EXCEPT ![r] = NewReview]
                                    ELSE reviewing
                    /\ Goto(r, "await")
                    /\ UNCHANGED <<database, memo, emitter, sending, browser, bounds>>
                    /\ queue' = queue \/ queue' = [queue EXCEPT ![r] = Append(@, Frame(r, "opening", NoText))]
             PROVE  IInv'
  BY <1>2 DEF Start, Say
<1>15. PICK e : e = Frame(r, "opening", NoText)
  OBVIOUS
<1>12. queue'[r] = queue[r] \/ queue'[r] = Append(queue[r], e)
  BY <1>1, <1>15 DEF TurnTypeOK
<1>13. e \in Envelope /\ e.kind = "opening" /\ e.revision = emitter[r].revision /\ FrameOK(e)'
  <2>1. /\ e \in Envelope /\ e.kind = "opening" /\ e.revision = emitter[r].revision
        /\ e.fence # 0
    BY <1>1, <1>15, OpeningFrameFacts DEF MiddleOK
  <2> QED  BY <2>1 DEF FrameOK
<1>14. queue' = queue \/ queue' = [queue EXCEPT ![r] = Append(queue[r], e)]
  BY <1>15
<1>3. emitter[r].fence \in Nat /\ memo[r].unreviewed \in BOOLEAN
  BY <1>1 DEF TurnTypeOK, Emitter, Memo
<1>4. begun \in Generation /\ begun.state = "asked" /\ begun.under = emitter[r].fence
      /\ begun.draft = memo[r].unreviewed /\ ~begun.wrote
  <2>1. no \in BOOLEAN /\ ~no
    OBVIOUS
  <2> HIDE DEF no
  <2> QED  BY <1>3, <2>1 DEF Generation
<1> HIDE DEF begun
<1>5. /\ generation'[r] = begun /\ pc' = [pc EXCEPT ![r] = "await"] /\ pc'[r] = "await"
  BY <1>1 DEF Goto, TurnTypeOK
<1>6. TurnTypeOK'
  <2>1. generation' \in [Requests -> Generation]
    BY <1>1, <1>4 DEF TurnTypeOK
  <2>2. reviewing' \in [Requests -> Review]
    BY <1>1, ReviewTypes DEF TurnTypeOK
  <2>3. pc' \in [Requests -> Stages]
    BY <1>1, <1>5 DEF TurnTypeOK, Stages
  <2>4. queue' \in [Requests -> Seq(Envelope)]
    <3>1. Append(queue[r], e) \in Seq(Envelope)
      BY <1>1, <1>13, AppendFacts DEF TurnTypeOK
    <3> QED  BY <1>1, <1>14, <3>1 DEF TurnTypeOK
  <2> QED  BY <1>1, <2>1, <2>2, <2>3, <2>4 DEF TurnTypeOK, database, bounds
<1>7. \A q \in Requests \ {r} : Same(q)
  BY <1>1, <1>5, <1>14 DEF Same, TurnTypeOK
<1>8. StreamOK(r)'
  <2>1. ~On(r)
    BY <1>1, OffFacts DEF MiddleOK, On
  <2>2. emitter[r].revision \in Nat
    BY <1>1 DEF TurnTypeOK, Emitter
  <2>3. CASE queue'[r] = queue[r]
    BY <1>1, <2>1, <2>3, RevisionStays
  <2>4. CASE queue'[r] = Append(queue[r], e)
    BY <1>1, <1>13, <2>1, <2>2, <2>4, OpeningJoins
  <2> QED  BY <1>12, <2>3, <2>4
<1>9. MiddleOK(r)'
  <2>1. ~Admitted(r)' /\ On(r)'
    BY <1>4, <1>5 DEF Admitted, On
  <2> QED  BY <1>1, <1>4, <1>5, <1>8, <2>1 DEF MiddleOK, DraftArrives, DraftAllowed, database
<1>10. FramesOK(r)'
  <2>1. CASE queue'[r] = queue[r]
    BY <1>1, <2>1, SameFrames DEF RequestOK, database
  <2>2. CASE queue'[r] = Append(queue[r], e)
    BY <1>1, <1>13, <2>2, AppendedFrames DEF RequestOK, database
  <2> QED  BY <1>12, <2>1, <2>2
<1>11. RequestOK(r)'
  BY <1>1, <1>5, <1>9, <1>10 DEF RequestOK, Early, Late, database
<1> QED  BY <1>6, <1>7, <1>11, RequestStep DEF database

LEMMA RetractStep ==
  ASSUME IInv, NEW r \in Requests, Retract(r)
  PROVE  IInv'
<1>1. TurnTypeOK /\ RequestOK(r) /\ MiddleOK(r) /\ pc[r] = "await" /\ StreamOK(r)
  BY DEF IInv, Retract, Middle, RequestOK, MiddleOK
<1> DEFINE n == emitter[r].revision + 1
           no == FALSE
<1>2. /\ emitter' = [emitter EXCEPT ![r].revision = n, ![r].draft = no]
      /\ queue' = [queue EXCEPT ![r] = Append(queue[r], Control("revision", n))]
      /\ memo' = [memo EXCEPT ![r].unreviewed = no]
      /\ no \in BOOLEAN
      /\ emitter[r].revision \in Nat /\ n \in Nat /\ queue[r] \in Seq(Envelope)
      /\ n = emitter[r].revision + 1
  BY <1>1 DEF Retract, BeginRevision, TurnTypeOK, Emitter
<1>3. /\ generation' = [generation EXCEPT ![r] = NoGeneration]
      /\ reviewing' = [reviewing EXCEPT ![r] = NoReview]
      /\ pc' = [pc EXCEPT ![r] = "prepare"]
      /\ UNCHANGED <<database, sending, browser, bounds>>
  BY DEF Retract, Goto
<1> HIDE DEF n, no
<1>4. /\ emitter' \in [Requests -> Emitter] /\ emitter'[r].revision = n
      /\ emitter'[r].fence = emitter[r].fence
      /\ memo' \in [Requests -> Memo] /\ memo'[r].answer = memo[r].answer
  <2>1. emitter[r] \in Emitter /\ memo[r] \in Memo
    BY <1>1 DEF TurnTypeOK
  <2>2. emitter'[r] = [emitter[r] EXCEPT !.revision = n, !.draft = no] /\ memo'[r] = [memo[r] EXCEPT !.unreviewed = no]
    BY <1>1, <1>2 DEF TurnTypeOK
  <2> DEFINE changed == [emitter[r] EXCEPT !.revision = n, !.draft = no]
  <2>5. n \in Nat /\ no \in BOOLEAN
    BY <1>2
  <2>6. changed \in Emitter /\ changed.revision = n /\ changed.fence = emitter[r].fence
    BY <2>1, <2>5 DEF Emitter
  <2>3. emitter'[r] \in Emitter /\ emitter'[r].revision = n /\ emitter'[r].fence = emitter[r].fence
    BY <2>2, <2>6
  <2>4. memo'[r] \in Memo /\ memo'[r].answer = memo[r].answer
    BY <1>2, <2>1, <2>2 DEF Memo
  <2> QED  BY <1>1, <1>2, <2>2, <2>3, <2>4 DEF TurnTypeOK
<1>5. pc'[r] = "prepare" /\ generation'[r] = NoGeneration
      /\ queue'[r] = Append(queue[r], Control("revision", n))
  BY <1>1, <1>2, <1>3 DEF TurnTypeOK
<1>6. TurnTypeOK'
  <2>1. Append(queue[r], Control("revision", n)) \in Seq(Envelope)
    BY <1>2, ControlFacts, AppendFacts
  <2>2. queue' \in [Requests -> Seq(Envelope)]
    BY <1>1, <1>2, <2>1 DEF TurnTypeOK
  <2>3. generation' \in [Requests -> Generation] /\ reviewing' \in [Requests -> Review]
    BY <1>1, <1>3, OffFacts, ReviewTypes DEF TurnTypeOK
  <2>4. pc' \in [Requests -> Stages]
    BY <1>1, <1>3 DEF TurnTypeOK, Stages
  <2> QED  BY <1>1, <1>3, <1>4, <2>2, <2>3, <2>4 DEF TurnTypeOK, database, bounds
<1>7. \A q \in Requests \ {r} : Same(q)
  BY <1>1, <1>2, <1>3 DEF Same, TurnTypeOK
<1>8. StreamOK(r)'
  BY <1>1, <1>2, <1>3, <1>4, <1>5, RevisionBegins
<1>9. MiddleOK(r)'
  BY <1>1, <1>3, <1>4, <1>5, <1>8, PrepareOK DEF MiddleOK, database
<1>10. FramesOK(r)'
  BY <1>1, <1>2, <1>3, <1>5, AppendedFrames, ControlFacts DEF RequestOK, database
<1>11. RequestOK(r)'
  BY <1>1, <1>3, <1>4, <1>5, <1>9, <1>10 DEF RequestOK, Early, Late, database
<1> QED  BY <1>3, <1>6, <1>7, <1>11, RequestStep DEF database

\* A draft whose generation goes on as it was.
LEMMA MiddleKept ==
  ASSUME NEW r \in Requests, MiddleOK(r), On(r), On(r)',
         emitter'[r].fence = emitter[r].fence, emitter'[r].revision = emitter[r].revision,
         UNCHANGED <<holder, authority, source, pending, receipt, reply>>, memo'[r].answer = memo[r].answer,
         queue'[r] = queue[r], sending'[r] = sending[r], browser'[r] = browser[r],
         generation'[r].under = generation[r].under, generation'[r].draft = generation[r].draft,
         generation'[r].wrote = generation[r].wrote,
         generation'[r].state = "asked" => generation[r].state = "asked",
         Admitted(r)' => Admitted(r) \/ (~generation[r].wrote /\ Guard(r, generation[r].under, generation[r].draft)),
         pc'[r] \in {"await", "commit"}, pc[r] \in {"await", "commit"},
         pc'[r] = "await" => emitter'[r].draft = generation[r].draft,
         pc'[r] = "commit" => generation'[r].state = "done"
  PROVE  MiddleOK(r)'
<1>1. StreamOK(r)' /\ Draft(r)' = Draft(r)
  BY RevisionStays DEF MiddleOK
<1>2. DraftAllowed(r)'
  BY DEF MiddleOK, DraftAllowed, Guard, DraftGuard, Current, Newest
<1>3. DraftArrives(r)'
  <2>1. SUFFICES ASSUME Admitted(r)', generation[r].wrote, Current(r, generation[r].under)
                 PROVE  \/ Draft(r) \in browser[r].shown
                        \/ IsCurrent(r, sending[r])
                        \/ \E i \in 1..Len(queue[r]) : IsCurrent(r, queue[r][i])
    BY <1>1 DEF DraftArrives, IsCurrent, Current
  <2> QED  BY <2>1 DEF MiddleOK, DraftArrives
<1> QED  BY <1>1, <1>2, <1>3 DEF MiddleOK

LEMMA CompleteStep ==
  ASSUME IInv, NEW r \in Requests, Complete(r)
  PROVE  IInv'
<1>1. TurnTypeOK /\ RequestOK(r) /\ MiddleOK(r) /\ pc[r] = "await" /\ generation[r].state = "done"
  BY DEF IInv, Complete, Middle, RequestOK
<1> DEFINE no == FALSE
<1>2. /\ emitter' = [emitter EXCEPT ![r].draft = no] /\ memo' = [memo EXCEPT ![r].unreviewed = no]
      /\ no \in BOOLEAN
      /\ reviewing' = [reviewing EXCEPT ![r] = NoReview] /\ pc' = [pc EXCEPT ![r] = "commit"]
      /\ UNCHANGED <<database, generation, stream, bounds>>
  BY DEF Complete, Goto
<1> HIDE DEF no
<1>3. /\ emitter' \in [Requests -> Emitter] /\ emitter'[r].revision = emitter[r].revision
      /\ emitter'[r].fence = emitter[r].fence
      /\ memo' \in [Requests -> Memo] /\ memo'[r].answer = memo[r].answer
      /\ pc'[r] = "commit"
  <2>1. emitter[r] \in Emitter /\ memo[r] \in Memo
    BY <1>1 DEF TurnTypeOK
  <2>2. emitter'[r] = [emitter[r] EXCEPT !.draft = no] /\ memo'[r] = [memo[r] EXCEPT !.unreviewed = no]
    BY <1>1, <1>2 DEF TurnTypeOK
  <2>3. emitter'[r] \in Emitter /\ emitter'[r].revision = emitter[r].revision /\ emitter'[r].fence = emitter[r].fence
    BY <1>2, <2>1, <2>2 DEF Emitter
  <2>4. memo'[r] \in Memo /\ memo'[r].answer = memo[r].answer
    BY <1>2, <2>1, <2>2 DEF Memo
  <2> QED  BY <1>1, <1>2, <2>2, <2>3, <2>4 DEF TurnTypeOK
<1>4. TurnTypeOK'
  <2>1. pc' \in [Requests -> Stages] /\ reviewing' \in [Requests -> Review]
    BY <1>1, <1>2, ReviewTypes DEF TurnTypeOK, Stages
  <2> QED  BY <1>1, <1>2, <1>3, <2>1 DEF TurnTypeOK, database, stream, bounds
<1>5. \A q \in Requests \ {r} : Same(q)
  BY <1>1, <1>2 DEF Same, TurnTypeOK, stream
<1>6. MiddleOK(r)'
  BY <1>1, <1>2, <1>3, MiddleKept DEF On, Admitted, database, stream
<1>7. FramesOK(r)'
  BY <1>1, <1>2, SameFrames DEF RequestOK, database, stream
<1>8. RequestOK(r)'
  BY <1>1, <1>2, <1>3, <1>6, <1>7 DEF RequestOK, Early, Late, database
<1> QED  BY <1>2, <1>4, <1>5, <1>8, RequestStep DEF database, stream

LEMMA GiveUpStep ==
  ASSUME IInv, NEW r \in Requests, GiveUp(r) \/ CommitFails(r)
  PROVE  IInv'
BY FailsStep DEF GiveUp, CommitFails, IInv, TurnTypeOK, Middle


-----------------------------------------------------------------------------
(* The reply is saved.                                                     *)

LEMMA SaveFacts ==
  ASSUME IInv, NEW r \in Requests, pc[r] = "commit", Savable(r),
         NEW same \in BOOLEAN, NEW next \in {authority, authority + 1}, Save(r, same, next),
         holder' \in {holder, NoRequest}, browser' = browser
  PROVE  /\ authority' = next /\ next \in Nat \ {0} /\ authority <= authority'
         /\ Final(r, same) \in Text
         /\ reply' = [text |-> Final(r, same), authority |-> next]
         /\ reply' \in Reply /\ reply' # NoReply
         /\ holder = r /\ generation[r].under = authority
         /\ DatabaseOK' /\ Grows(r)
         /\ \A q \in Requests \ {r} : Undisturbed(q)
<1>1. TurnTypeOK /\ DatabaseOK /\ RequestOK(r) /\ MiddleOK(r)
  BY DEF IInv, RequestOK, Middle
<1>2. holder = r /\ emitter[r].fence = authority /\ pending = {} /\ source.status = "active"
      /\ reply = NoReply
  BY DEF Savable, FinalGuard, Current
<1>3. generation[r].under = authority
  BY <1>1, <1>2 DEF MiddleOK
<1>4. authority \in Nat \ {0} /\ emitter[r].revision \in Nat /\ r \in Nat /\ r # NoRequest
  BY <1>1, RequestFacts DEF TurnTypeOK, Emitter
<1>5. /\ authority' = next /\ reply' = [text |-> Final(r, same), authority |-> next]
      /\ UNCHANGED <<source, pending, receipt, delivered>>
  BY DEF Save
<1>6. next \in Nat \ {0} /\ authority <= authority'
  BY <1>4, <1>5
<1>7. Final(r, same) \in Text /\ Final(r, same).by = r
  BY <1>3, <1>4 DEF Final, Text
<1> DEFINE answer == Final(r, same)
<1> HIDE DEF answer
<1>8. answer \in Text /\ answer.by = r /\ reply' = [text |-> answer, authority |-> next]
  BY <1>5, <1>7 DEF answer
<1>9. reply' \in Reply /\ reply'.text.by = r /\ reply'.text \in Text /\ reply'.authority = next
  BY <1>6, <1>8, TextFacts DEF Reply
<1>10. reply' # NoReply
  BY <1>4, <1>9 DEF NoReply, NoText
<1>11. ~delivered
  BY <1>1, <1>2 DEF DatabaseOK
<1>12. DatabaseOK'
  BY <1>1, <1>2, <1>5, <1>6, <1>9, <1>10, <1>11 DEF DatabaseOK
<1>13. Grows(r)
  BY <1>2, <1>5, <1>6, <1>9 DEF Grows
<1>14. \A q \in Requests \ {r} : Undisturbed(q)
  BY <1>2, RequestFacts DEF Undisturbed
<1> QED  BY <1>2, <1>3, <1>5, <1>6, <1>7, <1>9, <1>10, <1>12, <1>13, <1>14

LEMMA Concatenations ==
  ASSUME NEW S, NEW a \in S, NEW b \in S, NEW c \in S
  PROVE  <<a, b>> \o <<c>> = <<a, b, c>> /\ <<a>> \o <<c>> = <<a, c>> /\ <<>> \o <<c>> = <<c>>
<1>1. <<a, b>> \in Seq(S) /\ <<a>> \in Seq(S) /\ <<>> \in Seq(S)
  OBVIOUS
<1>2. Append(<<a, b>>, c) = <<a, b, c>>
  <2> DEFINE s == Append(<<a, b>>, c)
             t == <<a, b, c>>
  <2>1. s \in Seq(S) /\ Len(s) = 3 /\ s[1] = a /\ s[2] = b /\ s[3] = c
    BY <1>1, AppendProperties
  <2>2. t \in Seq(S) /\ Len(t) = 3 /\ t[1] = a /\ t[2] = b /\ t[3] = c
    OBVIOUS
  <2> HIDE DEF s, t
  <2>3. \A i \in 1..Len(s) : s[i] = t[i]
    BY <2>1, <2>2
  <2>4. s = t
    BY <2>1, <2>2, <2>3, SeqEqual
  <2> QED  BY <2>4 DEF s, t
<1>3. Append(<<a>>, c) = <<a, c>>
  <2> DEFINE s == Append(<<a>>, c)
             t == <<a, c>>
  <2>1. s \in Seq(S) /\ Len(s) = 2 /\ s[1] = a /\ s[2] = c
    BY <1>1, AppendProperties
  <2>2. t \in Seq(S) /\ Len(t) = 2 /\ t[1] = a /\ t[2] = c
    OBVIOUS
  <2> HIDE DEF s, t
  <2>3. \A i \in 1..Len(s) : s[i] = t[i]
    BY <2>1, <2>2
  <2>4. s = t
    BY <2>1, <2>2, <2>3, SeqEqual
  <2> QED  BY <2>4 DEF s, t
<1>4. Append(<<>>, c) = <<c>>
  OBVIOUS
<1> QED  BY <1>1, <1>2, <1>3, <1>4, AppendIsConcat

LEMMA CommitStep ==
  ASSUME IInv, NEW r \in Requests, Commit(r)
  PROVE  IInv'
<1>1. PICK same \in BOOLEAN, next \in {authority, authority + 1} :
        /\ Save(r, same, next)
        /\ memo' = [memo EXCEPT ![r].answer = Final(r, same)]
        /\ emitter' = [emitter EXCEPT ![r].fence = next, ![r].revision = Final(r, same).take]
        /\ queue' = [queue EXCEPT ![r] = FinalFrames(r, Final(r, same), next)]
  BY DEF Commit
<1>2. /\ generation' = [generation EXCEPT ![r] = NoGeneration] /\ pc' = [pc EXCEPT ![r] = "sent"]
      /\ UNCHANGED <<holder, reviewing, sending, browser, bounds>>
      /\ pc[r] = "commit" /\ Savable(r) /\ queue[r] = <<>> /\ sending[r] = NoEnvelope
  BY DEF Commit, Goto, Flushed
<1>3. PICK answer : answer = Final(r, same)
  OBVIOUS
<1>4. /\ authority' = next /\ next \in Nat \ {0} /\ authority <= authority'
      /\ answer \in Text /\ reply' = [text |-> answer, authority |-> next]
      /\ reply' \in Reply /\ reply' # NoReply
      /\ holder = r /\ generation[r].under = authority
      /\ DatabaseOK' /\ Grows(r)
      /\ \A q \in Requests \ {r} : Undisturbed(q)
  BY <1>1, <1>2, <1>3, SaveFacts
<1>5. TurnTypeOK /\ RequestOK(r) /\ MiddleOK(r) /\ StreamOK(r)
  BY <1>2 DEF IInv, RequestOK, Middle, MiddleOK
<1>6. answer.by = r /\ answer.under = generation[r].under
      /\ answer.take = (IF same THEN emitter[r].revision ELSE emitter[r].revision + 1)
      /\ same \in (IF memo[r].revisable THEN {generation[r].wrote, FALSE} ELSE {TRUE})
      /\ (same => answer = Draft(r))
  BY <1>1, <1>3 DEF Final, Save, Draft
<1>7. emitter[r].revision \in Nat /\ browser[r].revision \in Nat /\ answer.take \in Nat
      /\ answer \in Answer /\ memo[r].revisable \in BOOLEAN /\ generation[r].wrote \in BOOLEAN
  BY <1>4, <1>5, TextFacts DEF TurnTypeOK, Emitter, Browser, Text, Memo, Generation
<1> DEFINE no == FALSE
           frame(kind, revision) == [kind |-> kind, fence |-> next, revision |-> revision,
                                     draft |-> no, text |-> answer]
           control == Control("revision", answer.take)
           delta == frame("delta", answer.take)
           result == frame("result", 0)
<1>8. ASSUME NEW kind \in {"delta", "result"}, NEW revision \in Nat
      PROVE  /\ frame(kind, revision) \in Envelope /\ frame(kind, revision).kind = kind
             /\ frame(kind, revision).fence = next /\ frame(kind, revision).text = answer
  <2>1. no \in BOOLEAN
    OBVIOUS
  <2> HIDE DEF no
  <2> QED  BY <1>4, <1>7, <2>1 DEF Envelope
<1>9. control \in Envelope /\ delta \in Envelope /\ result \in Envelope
  BY <1>7, <1>8, ControlFacts
<1>10. FrameOK(control)' /\ FrameOK(delta)' /\ FrameOK(result)'
  <2>1. FrameOK(control)'
    BY <1>7, ControlFacts
  <2>2. delta.kind = "delta" /\ delta.fence = next /\ delta.text = answer
        /\ result.kind = "result" /\ result.fence = next /\ result.text = answer
    BY <1>7, <1>8
  <2> HIDE DEF delta, result
  <2>3. FrameOK(delta)' /\ FrameOK(result)'
    BY <1>4, <2>2 DEF FrameOK, AnswerOK
  <2> QED  BY <2>1, <2>3
<1>11. FinalFrames(r, answer, next) =
         IF answer.take # emitter[r].revision THEN <<control, delta, result>>
         ELSE IF memo[r].revisable THEN <<result>>
         ELSE <<delta, result>>
  <2>1. FinalFrames(r, answer, next) =
          (IF answer.take # emitter[r].revision THEN <<control, delta>>
           ELSE IF memo[r].revisable THEN <<>> ELSE <<delta>>) \o <<result>>
    BY DEF FinalFrames
  <2> HIDE DEF control, delta, result
  <2> QED  BY <1>9, <2>1, Concatenations
<1>12. memo'[r] = [memo[r] EXCEPT !.answer = answer] /\ memo'[r].answer = answer
       /\ memo' \in [Requests -> Memo]
  <2>1. memo'[r] = [memo[r] EXCEPT !.answer = answer] /\ memo[r] \in Memo
    BY <1>1, <1>3, <1>5 DEF TurnTypeOK
  <2>2. memo'[r] \in Memo /\ memo'[r].answer = answer
    BY <1>7, <2>1 DEF Memo
  <2> QED  BY <1>1, <1>3, <1>5, <2>1, <2>2 DEF TurnTypeOK
<1>13. emitter'[r].fence = next /\ emitter'[r].revision = answer.take
       /\ emitter' \in [Requests -> Emitter]
  <2> DEFINE take == answer.take
  <2>1. take \in Nat /\ next \in Nat
    BY <1>4, <1>7
  <2>2. emitter'[r] = [emitter[r] EXCEPT !.fence = next, !.revision = take] /\ emitter[r] \in Emitter
        /\ emitter' = [emitter EXCEPT ![r] = emitter'[r]]
    BY <1>1, <1>3, <1>5 DEF TurnTypeOK
  <2> HIDE DEF take
  <2> DEFINE changed == [emitter[r] EXCEPT !.fence = next, !.revision = take]
  <2>3. changed \in Emitter /\ changed.fence = next /\ changed.revision = take
    BY <2>1, <2>2 DEF Emitter
  <2>4. emitter' \in [Requests -> Emitter]
    <3> HIDE DEF changed
    <3>1. emitter'[r] = changed
      BY <2>2 DEF changed
    <3> QED  BY <1>5, <2>2, <2>3, <3>1 DEF TurnTypeOK
  <2> QED  BY <2>2, <2>3, <2>4 DEF take
<1>14. /\ generation'[r] = NoGeneration /\ pc'[r] = "sent"
       /\ queue'[r] = FinalFrames(r, answer, next)
       /\ sending'[r] = NoEnvelope /\ browser'[r] = browser[r]
  BY <1>1, <1>2, <1>3, <1>5 DEF TurnTypeOK
<1>15. TheResult(r)' = result /\ TheText(r)' = delta /\ TheRevision(r)' = control
  BY <1>12, <1>13 DEF TheResult, TheText, TheRevision, AnswerFrame
<1> HIDE DEF control, delta, result
<1>16. \/ queue'[r] = <<control, delta, result>> /\ answer.take = emitter[r].revision + 1
       \/ queue'[r] = <<result>> /\ same /\ memo[r].revisable
       \/ queue'[r] = <<delta, result>> /\ same
  BY <1>6, <1>7, <1>11, <1>14
<1>17. FramesOK(r)'
  <2>1. FrameOK(NoEnvelope)'
    BY NoEnvelopeFacts
  <2>2. queue'[r] \in {<<control, delta, result>>, <<result>>, <<delta, result>>}
    BY <1>16
  <2>3. ASSUME NEW i \in 1..Len(queue'[r]) PROVE FrameOK(queue[r][i])'
    <3>1. queue'[r][i] \in {control, delta, result}
      BY <2>2, <2>3
    <3> QED  BY <1>10, <3>1 DEF control, delta, result
  <2>4. FrameOK(sending[r])'
    BY <1>14, <2>1
  <2> QED  BY <2>3, <2>4 DEF FramesOK
<1>18. browser[r].got = NoText /\ browser[r].revision <= emitter[r].revision
       /\ \A t \in browser[r].shown :
            t.take = browser[r].revision /\ (browser[r].revision = emitter[r].revision => t = Draft(r))
  BY <1>5 DEF StreamOK, PageOK
<1>19. browser[r].revision = emitter[r].revision
  <2>1. Len(queue[r]) = 0
    BY <1>2
  <2> QED  BY <1>5, <2>1 DEF StreamOK, RevisionFirst
<1>20. same => browser[r].shown \subseteq {answer}
  BY <1>6, <1>18, <1>19
<1>21. same /\ memo[r].revisable => browser[r].shown = {answer}
  <2> SUFFICES ASSUME same, memo[r].revisable PROVE answer \in browser[r].shown
    BY <1>20
  <2>1. generation[r].wrote
    BY <1>6
  <2>2. Admitted(r) /\ Current(r, generation[r].under)
    BY <1>2, <1>4, <1>5 DEF MiddleOK, Admitted, Current
  <2>3. ~IsCurrent(r, sending[r]) /\ Len(queue[r]) = 0
    BY <1>2, NoEnvelopeFacts DEF IsCurrent
  <2> QED  BY <1>5, <1>6, <2>1, <2>2, <2>3 DEF MiddleOK, DraftArrives
<1>22. Showing(r)' \/ Closing(r)'
  <2>1. reply'.text = answer /\ reply'.authority = next
    BY <1>4
  <2>2. CASE queue'[r] = <<result>> /\ same /\ memo[r].revisable
    BY <1>6, <1>12, <1>14, <1>15, <1>21, <2>1, <2>2 DEF Closing, Shown
  <2>3. CASE queue'[r] = <<control, delta, result>> /\ answer.take = emitter[r].revision + 1
    BY <1>4, <1>6, <1>7, <1>12, <1>13, <1>14, <1>15, <1>19, <2>1, <2>3 DEF Showing
  <2>4. CASE queue'[r] = <<delta, result>> /\ same
    BY <1>4, <1>6, <1>7, <1>12, <1>13, <1>14, <1>15, <1>19, <1>20, <2>1, <2>4 DEF Showing
  <2> QED  BY <1>16, <2>2, <2>3, <2>4
<1>23. LateOK(r)'
  <2>1. AnswerOK(memo[r].answer, emitter[r].fence)'
    BY <1>4, <1>12, <1>13 DEF AnswerOK
  <2> QED  BY <1>4, <1>13, <1>14, <1>18, <1>22, <2>1 DEF LateOK, Answering
<1>24. RequestOK(r)'
  BY <1>4, <1>13, <1>14, <1>17, <1>23 DEF RequestOK, Early, Middle
<1>25. TurnTypeOK'
  <2>1. queue'[r] \in Seq(Envelope)
    <3>1. <<control, delta, result>> \in Seq(Envelope)
      BY <1>9
    <3>2. <<delta, result>> \in Seq(Envelope)
      BY <1>9
    <3>3. <<result>> \in Seq(Envelope)
      BY <1>9
    <3> QED  BY <1>16, <3>1, <3>2, <3>3
  <2>2. queue' \in [Requests -> Seq(Envelope)]
    BY <1>1, <1>3, <1>5, <2>1 DEF TurnTypeOK
  <2>3. generation' \in [Requests -> Generation] /\ pc' \in [Requests -> Stages]
    BY <1>2, <1>5, OffFacts DEF TurnTypeOK, Stages
  <2>4. UNCHANGED <<source, pending, receipt, delivered>>
    BY <1>1 DEF Save
  <2> QED  BY <1>2, <1>4, <1>5, <1>12, <1>13, <2>2, <2>3, <2>4 DEF TurnTypeOK, bounds
<1>26. \A q \in Requests \ {r} : Same(q)
  BY <1>1, <1>2, <1>5 DEF Same, TurnTypeOK
<1> QED  BY <1>4, <1>24, <1>25, <1>26, Assemble

LEMMA CommitLostStep ==
  ASSUME IInv, NEW r \in Requests, CommitLost(r)
  PROVE  IInv'
<1>1. PICK same \in BOOLEAN, next \in {authority, authority + 1} : Save(r, same, next)
  BY DEF CommitLost
<1>2. /\ generation' = [generation EXCEPT ![r] = NoGeneration] /\ pc' = [pc EXCEPT ![r] = "sent"]
      /\ queue' = [queue EXCEPT ![r] = Append(queue[r], Control("error", 0))]
      /\ UNCHANGED <<memo, emitter, reviewing, sending, browser, changes>>
      /\ holder' = NoRequest /\ faults < MaxFaults /\ faults' = faults + 1
      /\ pc[r] = "commit" /\ Savable(r) /\ queue[r] = <<>> /\ sending[r] = NoEnvelope
  BY DEF CommitLost, Goto, Flushed
<1>3. /\ authority' = next /\ next \in Nat \ {0} /\ authority <= authority'
      /\ reply' \in Reply /\ DatabaseOK' /\ Grows(r)
      /\ \A q \in Requests \ {r} : Undisturbed(q)
  BY <1>1, <1>2, SaveFacts
<1>4. TurnTypeOK /\ RequestOK(r) /\ MiddleOK(r) /\ StreamOK(r)
  BY <1>2 DEF IInv, RequestOK, Middle, MiddleOK
<1> DEFINE e == Control("error", 0)
<1>5. e \in Envelope /\ FrameOK(e)' /\ e.kind = "error"
  BY ControlFacts DEF Control
<1>6. /\ generation'[r] = NoGeneration /\ pc'[r] = "sent" /\ queue'[r] = <<e>>
      /\ sending'[r] = NoEnvelope /\ browser'[r] = browser[r] /\ emitter'[r] = emitter[r]
  <2>1. queue'[r] = Append(<<>>, e)
    BY <1>2, <1>4 DEF TurnTypeOK
  <2>2. queue'[r] = <<e>>
    <3> HIDE DEF e
    <3> QED  BY <2>1
  <2> QED  BY <1>2, <1>4, <2>2 DEF TurnTypeOK
<1> HIDE DEF e
<1>7. FramesOK(r)'
  <2>1. FrameOK(sending[r])'
    BY <1>6, NoEnvelopeFacts
  <2>2. ASSUME NEW i \in 1..Len(queue'[r]) PROVE FrameOK(queue[r][i])'
    <3>1. queue'[r][i] = e
      BY <1>6, <2>2
    <3> QED  BY <1>5, <3>1 DEF e
  <2> QED  BY <2>1, <2>2 DEF FramesOK
<1>8. LateOK(r)'
  <2>1. NoResults(r)'
    BY <1>5, <1>6, NoEnvelopeFacts DEF NoResults
  <2> QED  BY <1>4, <1>6, <2>1 DEF LateOK, Unanswered, StreamOK, PageOK
<1>9. RequestOK(r)'
  <2>1. emitter[r].fence <= authority'
    BY <1>3, <1>4 DEF RequestOK, TurnTypeOK, Emitter
  <2> QED  BY <1>6, <1>7, <1>8, <2>1 DEF RequestOK, Early, Middle
<1>10. TurnTypeOK'
  <2>1. queue'[r] \in Seq(Envelope)
    BY <1>5, <1>6
  <2>2. queue' \in [Requests -> Seq(Envelope)]
    BY <1>2, <1>4, <2>1 DEF TurnTypeOK
  <2>3. generation' \in [Requests -> Generation] /\ pc' \in [Requests -> Stages]
    BY <1>2, <1>4, OffFacts DEF TurnTypeOK, Stages
  <2>4. UNCHANGED <<source, pending, receipt, delivered>>
    BY <1>1 DEF Save
  <2>5. faults' \in 0..MaxFaults
    BY <1>2, <1>4, BoundsAssumption DEF TurnTypeOK
  <2> QED  BY <1>2, <1>3, <1>4, <2>2, <2>3, <2>4, <2>5 DEF TurnTypeOK
<1>11. \A q \in Requests \ {r} : Same(q)
  BY <1>2, <1>4 DEF Same, TurnTypeOK
<1> QED  BY <1>3, <1>9, <1>10, <1>11, Assemble


-----------------------------------------------------------------------------
(* The policy review.                                                      *)

LEMMA OldestFacts ==
  ASSUME TurnTypeOK, pending # {}
  PROVE  Oldest \in {"this", "other"} /\ Oldest \in pending
<1>1. Newest \in {"this", "other"} /\ pending \subseteq {"this", "other"}
  BY DEF Newest, TurnTypeOK
<1>2. \E item \in pending : item # Newest \/ pending = {item}
  BY <1>1
<1>3. Oldest \in pending
  <2> DEFINE P(item) == item # Newest \/ pending = {item}
  <2>1. \E item \in pending : P(item)
    BY <1>2
  <2> HIDE DEF P
  <2>2. (CHOOSE item \in pending : P(item)) \in pending
    BY <2>1
  <2> QED  BY <2>2 DEF Oldest, P
<1> QED  BY <1>1, <1>3

\* A completed review leaves a draft its guard, or ends its fence.
LEMMA ReviewStep ==
  ASSUME IInv, NEW r \in Requests, reviewing[r] \in Review,
         UNCHANGED database \/ \E decision \in {"clear", "restricted"} : CompleteReview(r, decision),
         UNCHANGED <<pc, memo, emitter, generation, stream, changes>>, faults' \in 0..MaxFaults,
         reviewing' \in [Requests -> Review]
  PROVE  IInv'
<1>1. TurnTypeOK /\ DatabaseOK
  BY DEF IInv
<1>2. \A q \in Requests : Same(q)
  BY DEF Same, stream
<1>3. CASE UNCHANGED database
  <2>1. TurnTypeOK'
    BY <1>1, <1>3 DEF TurnTypeOK, database, stream
  <2>2. \A q \in Requests : Undisturbed(q)
    BY <1>3, NoDisturbance DEF database
  <2>3. DatabaseOK'
    BY <1>1, <1>3, DatabaseStays DEF database, stream
  <2> QED  BY <1>1, <1>2, <1>3, <2>1, <2>2, <2>3, OutsideStep DEF database, TurnTypeOK
<1>4. ASSUME NEW decision \in {"clear", "restricted"}, CompleteReview(r, decision)
      PROVE  IInv'
  <2>1. /\ pending' = pending \ {reviewing[r].of}
        /\ receipt' = IF reviewing[r].of = "this" THEN decision ELSE receipt
        /\ authority' = authority + (IF decision = "restricted" THEN 1 ELSE 0)
        /\ UNCHANGED <<holder, source, reply, delivered>>
        /\ authority \in Nat \ {0} /\ reviewing[r].of \in {"this", "other"}
        /\ pending \subseteq {"this", "other"}
    BY <1>1, <1>4 DEF CompleteReview, TurnTypeOK, Review
  <2>2. authority' \in Nat \ {0} /\ authority <= authority'
        /\ (IF decision = "restricted" THEN authority < authority' ELSE authority' = authority)
    BY <2>1
  <2>3. TurnTypeOK'
    BY <1>1, <2>1, <2>2 DEF TurnTypeOK, stream
  <2>4. ASSUME NEW q \in Requests PROVE Undisturbed(q)
    <3>1. CASE decision = "restricted"
      BY <2>2, <3>1 DEF Undisturbed
    <3>2. CASE decision = "clear"
      <4> SUFFICES ASSUME NEW f \in Nat, DraftGuard(q, f) PROVE DraftGuard(q, f)'
        BY <2>1, <2>2, <3>2 DEF Undisturbed
      <4>1. authority' = authority /\ holder' = holder /\ source' = source
        BY <2>1, <2>2, <3>2
      <4>2. Current(q, f)' /\ (source'.latest => source'.status = "active")
        BY <4>1 DEF DraftGuard, Current
      <4>3. \/ pending' = {Newest}
            \/ pending' = {} /\ (source.latest => receipt' = "clear")
        BY <2>1, <3>2 DEF DraftGuard, Newest
      <4> QED  BY <4>1, <4>2, <4>3 DEF DraftGuard, Newest
    <3> QED  BY <3>1, <3>2
  <2>5. DatabaseOK'
    <3>1. reply.authority \in Nat /\ browser' = browser
      BY <1>1 DEF TurnTypeOK, Reply, stream
    <3>2. source'.status = "active" /\ "this" \notin pending' => receipt' # "none"
      BY <1>1, <2>1 DEF DatabaseOK
    <3>3. /\ reply'.authority <= authority'
          /\ reply'.authority = authority' => reply.authority = authority \/ reply = NoReply
      BY <1>1, <2>1, <2>2, <3>1 DEF DatabaseOK, NoReply
    <3> QED  BY <1>1, <2>1, <3>1, <3>2, <3>3 DEF DatabaseOK
  <2> QED  BY <1>2, <2>1, <2>2, <2>3, <2>4, <2>5, OutsideStep
<1> QED  BY <1>3, <1>4

LEMMA ReviewTaskStep ==
  ASSUME IInv, NEW r \in Requests, ReviewReads(r) \/ ReviewEnds(r) \/ ReviewFails(r)
  PROVE  IInv'
<1>1. TurnTypeOK /\ reviewing[r] \in Review /\ faults \in 0..MaxFaults
  BY DEF IInv, TurnTypeOK
<1>2. CASE ReviewReads(r)
  <2> DEFINE next == IF holder # r THEN [NoReview EXCEPT !.state = "failed"]
                     ELSE IF pending = {} THEN [NoReview EXCEPT !.state = "nothing"]
                     ELSE [state |-> "asked", fence |-> authority, of |-> Oldest,
                           version |-> source.version]
  <2>1. [NoReview EXCEPT !.state = "failed"] \in Review /\ [NoReview EXCEPT !.state = "nothing"] \in Review
    BY DEF NoReview, Review
  <2>2. authority \in Nat /\ source.version \in Nat
    BY <1>1 DEF TurnTypeOK, Source
  <2>3. pending # {} => [state |-> "asked", fence |-> authority, of |-> Oldest,
                         version |-> source.version] \in Review
    BY <1>1, <2>2, OldestFacts DEF Review
  <2>4. next \in Review /\ reviewing' = [reviewing EXCEPT ![r] = next]
    BY <1>2, <2>1, <2>3 DEF ReviewReads
  <2> HIDE DEF next
  <2>5. reviewing' \in [Requests -> Review]
    BY <1>1, <2>4 DEF TurnTypeOK
  <2> QED  BY <1>1, <1>2, <2>5, ReviewStep DEF ReviewReads, bounds
<1>3. ASSUME NEW state \in {"clear", "restricted", "failed"},
             reviewing' = [reviewing EXCEPT ![r].state = state]
      PROVE  reviewing' \in [Requests -> Review]
  BY <1>1, <1>3 DEF TurnTypeOK, Review
<1>4. CASE ReviewEnds(r)
  <2>1. reviewing' \in [Requests -> Review]
    BY <1>3, <1>4 DEF ReviewEnds
  <2>2. UNCHANGED database \/ \E decision \in {"clear", "restricted"} : CompleteReview(r, decision)
    BY <1>4 DEF ReviewEnds
  <2> QED  BY <1>1, <1>4, <2>1, <2>2, ReviewStep DEF ReviewEnds, bounds
<1>5. CASE ReviewFails(r)
  <2>1. reviewing' \in [Requests -> Review]
    BY <1>3, <1>5 DEF ReviewFails
  <2>2. faults' \in 0..MaxFaults
    BY <1>1, <1>5, BoundsAssumption DEF ReviewFails
  <2> QED  BY <1>1, <1>5, <2>1, <2>2, ReviewStep DEF ReviewFails
<1> QED  BY <1>2, <1>4, <1>5

-----------------------------------------------------------------------------
(* The generation.                                                         *)

LEMMA GenerationFacts ==
  ASSUME IInv, NEW r \in Requests, generation[r].state \in {"asked", "writing"}
  PROVE  /\ TurnTypeOK /\ RequestOK(r) /\ pc[r] = "await" /\ MiddleOK(r) /\ StreamOK(r) /\ On(r)
         /\ generation[r] \in Generation
<1>1. TurnTypeOK /\ RequestOK(r) /\ generation[r] \in Generation
  BY DEF IInv, TurnTypeOK
<1>2. pc[r] \in Early \cup Middle \cup Late
  BY <1>1 DEF TurnTypeOK, Stages, Early, Middle, Late
<1>3. pc[r] \in Middle
  BY <1>1, <1>2, OffFacts DEF RequestOK, EarlyOK, LateOK
<1> QED  BY <1>1, <1>3, OffFacts DEF RequestOK, MiddleOK, Middle, On

LEMMA StateStep ==
  ASSUME IInv, NEW r \in Requests, Admit(r) \/ Finish(r) \/ ModelFails(r)
  PROVE  IInv'
<1>1. /\ TurnTypeOK /\ RequestOK(r) /\ pc[r] = "await" /\ MiddleOK(r) /\ StreamOK(r) /\ On(r)
      /\ generation[r] \in Generation
  BY GenerationFacts DEF Admit, Finish, ModelFails
<1>2. PICK state \in {"writing", "done", "failed"} :
        /\ generation' = [generation EXCEPT ![r].state = state]
        /\ state # "failed" => \/ generation[r].state = "writing"
                               \/ generation[r].state = "asked" /\ Guard(r, generation[r].under, generation[r].draft)
  BY DEF Admit, Finish, ModelFails
<1>3. /\ generation'[r] = [generation[r] EXCEPT !.state = state]
      /\ generation' \in [Requests -> Generation]
      /\ generation'[r].state = state
      /\ generation'[r].under = generation[r].under /\ generation'[r].draft = generation[r].draft
      /\ generation'[r].wrote = generation[r].wrote
  <2>1. generation'[r] = [generation[r] EXCEPT !.state = state]
    BY <1>1, <1>2 DEF TurnTypeOK
  <2>2. generation'[r] \in Generation
    BY <1>1, <2>1 DEF Generation
  <2> QED  BY <1>1, <1>2, <2>1, <2>2 DEF TurnTypeOK, Generation
<1>4. UNCHANGED <<database, pc, memo, emitter, reviewing, stream, changes>> /\ faults' \in 0..MaxFaults
  BY <1>1, BoundsAssumption DEF Admit, Finish, ModelFails, bounds, TurnTypeOK
<1>5. TurnTypeOK'
  BY <1>1, <1>3, <1>4 DEF TurnTypeOK, database, stream
<1>6. \A q \in Requests \ {r} : Same(q)
  BY <1>1, <1>2, <1>4 DEF Same, TurnTypeOK, stream
<1>7. MiddleOK(r)'
  <2>1. On(r)'
    BY <1>3 DEF On
  <2>2. Admitted(r)' => Admitted(r) \/ (~generation[r].wrote /\ Guard(r, generation[r].under, generation[r].draft))
    BY <1>1, <1>2, <1>3 DEF Admitted, MiddleOK
  <2>3. emitter[r].draft = generation[r].draft
    BY <1>1 DEF MiddleOK
  <2> QED  BY <1>1, <1>3, <1>4, <2>1, <2>2, <2>3, MiddleKept DEF database, stream
<1>8. FramesOK(r)'
  BY <1>1, <1>4, SameFrames DEF RequestOK, database, stream
<1>9. RequestOK(r)'
  BY <1>1, <1>4, <1>7, <1>8 DEF RequestOK, Early, Late, database
<1> QED  BY <1>4, <1>5, <1>6, <1>9, RequestStep DEF database, stream

LEMMA WriteStep ==
  ASSUME IInv, NEW r \in Requests, Write(r)
  PROVE  IInv'
<1>1. /\ TurnTypeOK /\ RequestOK(r) /\ pc[r] = "await" /\ MiddleOK(r) /\ StreamOK(r) /\ On(r)
      /\ generation[r] \in Generation /\ generation[r].state = "writing"
  BY GenerationFacts DEF Write, Writing
<1> DEFINE e == Frame(r, "delta", Draft(r))
           n == generation[r].writes + 1
           yes == TRUE
<1>2. /\ queue' = [queue EXCEPT ![r] = Append(queue[r], e)]
      /\ generation' = [generation EXCEPT ![r].writes = n, ![r].wrote = yes]
      /\ UNCHANGED <<database, pc, memo, emitter, reviewing, sending, browser, bounds>>
      /\ n \in Nat /\ yes \in BOOLEAN /\ (yes = TRUE)
  BY <1>1 DEF Write, Draft, Generation
<1>3. /\ emitter[r].fence \in Nat /\ emitter[r].fence # 0 /\ emitter[r].revision \in Nat
      /\ emitter[r].draft \in BOOLEAN /\ generation[r].under = emitter[r].fence
      /\ emitter[r].draft = generation[r].draft
  BY <1>1 DEF TurnTypeOK, Emitter, MiddleOK
<1>4. Draft(r) \in Text /\ Draft(r).under = emitter[r].fence /\ Draft(r).by = r
      /\ Draft(r).take = emitter[r].revision
  BY <1>3 DEF Draft, Text
<1>5. PICK f : f = e
  OBVIOUS
<1>6. /\ f \in Envelope /\ f.kind = "delta" /\ f.fence = emitter[r].fence
      /\ f.revision = emitter[r].revision /\ f.draft = emitter[r].draft /\ f.text = Draft(r)
  <2> DEFINE text == Draft(r)
  <2>1. text \in Answer
    BY <1>4, TextFacts
  <2>2. f = [kind |-> "delta", fence |-> emitter[r].fence, revision |-> emitter[r].revision,
             draft |-> emitter[r].draft, text |-> text]
    BY <1>5 DEF Frame
  <2> HIDE DEF text
  <2>3. f \in Envelope
    BY <1>3, <2>1, <2>2 DEF Envelope
  <2>4. /\ f.kind = "delta" /\ f.fence = emitter[r].fence
        /\ f.revision = emitter[r].revision /\ f.text = text
    BY <2>2
  <2>5. f.draft = emitter[r].draft
    BY <2>2
  <2> QED  BY <2>3, <2>4, <2>5 DEF text
<1> HIDE DEF e, n, yes
<1>7. /\ generation' \in [Requests -> Generation]
      /\ generation'[r].state = "writing" /\ generation'[r].under = generation[r].under
      /\ generation'[r].draft = generation[r].draft
  <2>1. generation'[r] = [generation[r] EXCEPT !.writes = n, !.wrote = yes]
        /\ generation' = [generation EXCEPT ![r] = generation'[r]]
    BY <1>1, <1>2 DEF TurnTypeOK
  <2> DEFINE g == [generation[r] EXCEPT !.writes = n, !.wrote = yes]
  <2>2. n \in Nat /\ yes \in BOOLEAN
    BY <1>2
  <2>3. g \in Generation /\ g.state = generation[r].state /\ g.under = generation[r].under
        /\ g.draft = generation[r].draft
    BY <1>1, <2>2 DEF Generation
  <2>4. generation'[r] = g
    BY <2>1
  <2> HIDE DEF g
  <2> QED  BY <1>1, <2>1, <2>3, <2>4 DEF TurnTypeOK
<1>8. queue'[r] = Append(queue[r], f) /\ queue[r] \in Seq(Envelope)
  BY <1>1, <1>2, <1>5 DEF TurnTypeOK
<1>9. TurnTypeOK'
  <2>1. queue' \in [Requests -> Seq(Envelope)]
    <3>1. Append(queue[r], f) \in Seq(Envelope)
      BY <1>6, <1>8, AppendFacts
    <3>2. queue' = [queue EXCEPT ![r] = Append(queue[r], f)]
      BY <1>2, <1>5
    <3> QED  BY <1>1, <3>1, <3>2 DEF TurnTypeOK
  <2> QED  BY <1>1, <1>2, <1>7, <2>1 DEF TurnTypeOK, database, bounds
<1>10. \A q \in Requests \ {r} : Same(q)
  BY <1>1, <1>2 DEF Same, TurnTypeOK
<1>11. /\ On(r)' /\ Draft(r)' = Draft(r)
       /\ emitter' = emitter /\ sending' = sending /\ browser' = browser
  BY <1>2, <1>7 DEF On, Draft
<1>12. /\ Len(queue[r]) \in Nat /\ Len(queue'[r]) = Len(queue[r]) + 1
       /\ \A i \in 1..Len(queue[r]) : queue'[r][i] = queue[r][i]
       /\ queue'[r][Len(queue[r]) + 1] = f
  BY <1>6, <1>8, AppendFacts
<1>13. ASSUME NEW g PROVE /\ DraftFrameOK(r, g) => DraftFrameOK(r, g)'
                          /\ IsCurrent(r, g)' = IsCurrent(r, g)
  BY <1>1, <1>7, <1>11 DEF DraftFrameOK, IsCurrent
<1>14. DraftFrameOK(r, f)' /\ IsCurrent(r, f)'
  <2>1. f.text = Draft(r)' /\ f.fence = generation'[r].under /\ f.draft = generation'[r].draft
        /\ f.revision = emitter'[r].revision /\ f.text.by = r /\ f.text.take = f.revision
    BY <1>3, <1>4, <1>6, <1>7, <1>11
  <2> QED  BY <1>3, <1>6, <1>11, <2>1 DEF DraftFrameOK, IsCurrent
<1>15. StreamOK(r)'
  <2>1. DraftFrameOK(r, sending[r])' /\ IsCurrent(r, sending[r])' = IsCurrent(r, sending[r])
    <3>1. PICK g : g = sending[r]
      OBVIOUS
    <3>2. DraftFrameOK(r, g)' /\ IsCurrent(r, g)' = IsCurrent(r, g)
      BY <1>1, <1>13, <3>1 DEF StreamOK
    <3> QED  BY <1>11, <3>1, <3>2
  <2>2. ASSUME NEW i \in 1..Len(queue'[r]) PROVE DraftFrameOK(r, queue[r][i])'
    <3>1. PICK g : g = queue'[r][i]
      OBVIOUS
    <3>2. g = f \/ DraftFrameOK(r, g)
      BY <1>1, <1>12, <2>2, <3>1 DEF StreamOK
    <3>3. DraftFrameOK(r, g)'
      BY <1>13, <1>14, <3>2
    <3> QED  BY <3>1, <3>3
  <2>3. ASSUME NEW i \in 1..Len(queue[r]) PROVE IsCurrent(r, queue[r][i])' = IsCurrent(r, queue[r][i])
    BY <1>11, <1>12, <2>3 DEF IsCurrent
  <2>4. RevisionFirst(r)'
    <3>1. CASE browser[r].revision = emitter[r].revision
      BY <1>11, <3>1 DEF RevisionFirst
    <3>2. CASE \E j \in 1..Len(queue[r]) :
                 /\ queue[r][j] = Control("revision", emitter[r].revision)
                 /\ \A i \in 1..j : ~IsCurrent(r, queue[r][i])
      <4>1. PICK j \in 1..Len(queue[r]) : /\ queue[r][j] = Control("revision", emitter[r].revision)
                                          /\ \A i \in 1..j : ~IsCurrent(r, queue[r][i])
        BY <3>2
      <4>2. j \in 1..Len(queue'[r]) /\ queue'[r][j] = Control("revision", emitter'[r].revision)
        BY <1>11, <1>12, <4>1
      <4>3. \A i \in 1..j : ~IsCurrent(r, queue[r][i])'
        BY <2>3, <4>1
      <4> QED  BY <4>2, <4>3 DEF RevisionFirst
    <3> QED  BY <1>1, <3>1, <3>2 DEF StreamOK, RevisionFirst
  <2>5. PageOK(r)'
    BY <1>1, <1>11 DEF StreamOK, PageOK
  <2> QED  BY <1>1, <1>11, <2>1, <2>2, <2>4, <2>5 DEF StreamOK
<1>16. DraftArrives(r)'
  <2>1. IsCurrent(r, queue[r][Len(queue[r])])'
    BY <1>12, <1>14
  <2>2. Len(queue'[r]) \in 1..Len(queue'[r])
    BY <1>12
  <2> QED  BY <2>1, <2>2 DEF DraftArrives
<1>17. DraftAllowed(r)'
  BY <1>1, <1>2, <1>7 DEF MiddleOK, DraftAllowed, Admitted, DraftGuard, Current, Newest, database
<1>18. MiddleOK(r)'
  BY <1>1, <1>2, <1>3, <1>7, <1>11, <1>15, <1>16, <1>17 DEF MiddleOK, database
<1>19. FramesOK(r)'
  <2>1. FrameOK(f)'
    BY <1>3, <1>4, <1>6 DEF FrameOK
  <2> QED  BY <1>1, <1>2, <1>6, <1>8, <2>1, AppendedFrames DEF RequestOK, database
<1>20. RequestOK(r)'
  BY <1>1, <1>2, <1>18, <1>19 DEF RequestOK, Early, Late, database
<1> QED  BY <1>2, <1>9, <1>10, <1>20, RequestStep DEF database

LEMMA RestartStep ==
  ASSUME IInv, NEW r \in Requests, Restart(r)
  PROVE  IInv'
<1>1. /\ TurnTypeOK /\ RequestOK(r) /\ pc[r] = "await" /\ MiddleOK(r) /\ StreamOK(r) /\ On(r)
      /\ generation[r] \in Generation /\ generation[r].state = "writing"
  BY GenerationFacts DEF Restart, Writing
<1> DEFINE n == emitter[r].revision + 1
           draft == generation[r].draft
           m == generation[r].writes + 1
           no == FALSE
<1>2. /\ emitter' = [emitter EXCEPT ![r].revision = n, ![r].draft = draft]
      /\ queue' = [queue EXCEPT ![r] = Append(queue[r], Control("revision", n))]
      /\ generation' = [generation EXCEPT ![r].writes = m, ![r].wrote = no]
      /\ UNCHANGED <<database, pc, memo, reviewing, sending, browser, bounds>>
  BY DEF Restart, BeginRevision
<1>3. /\ emitter[r] \in Emitter /\ n \in Nat /\ n = emitter[r].revision + 1 /\ m \in Nat
      /\ queue[r] \in Seq(Envelope)
  BY <1>1 DEF TurnTypeOK, Emitter, Generation
<1>4. no \in BOOLEAN /\ ~no /\ draft \in BOOLEAN /\ draft = generation[r].draft
  BY <1>1 DEF Generation
<1> HIDE DEF n, draft, m, no
<1>5. /\ emitter' \in [Requests -> Emitter] /\ emitter'[r].revision = n
      /\ emitter'[r].fence = emitter[r].fence /\ emitter'[r].draft = generation[r].draft
  <2> DEFINE c == [emitter[r] EXCEPT !.revision = n, !.draft = draft]
  <2>1. emitter'[r] = c /\ emitter' = [emitter EXCEPT ![r] = emitter'[r]]
    BY <1>1, <1>2 DEF TurnTypeOK
  <2>2. n \in Nat
    BY <1>3
  <2>3. draft \in BOOLEAN
    BY <1>4
  <2>4. emitter[r] \in Emitter
    BY <1>3
  <2>5. c \in Emitter /\ c.revision = n /\ c.fence = emitter[r].fence
    BY <2>2, <2>3, <2>4 DEF Emitter
  <2>6. c.draft = draft
    BY <2>4 DEF Emitter
  <2> HIDE DEF c
  <2> QED  BY <1>1, <1>4, <2>1, <2>5, <2>6 DEF TurnTypeOK
<1>6. /\ generation' \in [Requests -> Generation]
      /\ generation'[r].state = "writing" /\ generation'[r].under = generation[r].under
      /\ generation'[r].draft = generation[r].draft /\ ~generation'[r].wrote
  <2> DEFINE g == [generation[r] EXCEPT !.writes = m, !.wrote = no]
  <2>1. generation'[r] = g /\ generation' = [generation EXCEPT ![r] = generation'[r]]
    BY <1>1, <1>2 DEF TurnTypeOK
  <2>2. m \in Nat
    BY <1>3
  <2>3. no \in BOOLEAN
    BY <1>4
  <2>4. generation[r] \in Generation
    BY <1>1
  <2>5. g \in Generation /\ g.state = generation[r].state /\ g.under = generation[r].under
        /\ g.draft = generation[r].draft
    BY <2>2, <2>3, <2>4 DEF Generation
  <2>6. g.wrote = no
    BY <2>4 DEF Generation
  <2> HIDE DEF g
  <2> QED  BY <1>1, <1>4, <2>1, <2>5, <2>6 DEF TurnTypeOK
<1>7. queue'[r] = Append(queue[r], Control("revision", n))
  BY <1>1, <1>2 DEF TurnTypeOK
<1>8. TurnTypeOK'
  <2>1. Append(queue[r], Control("revision", n)) \in Seq(Envelope)
    BY <1>3, ControlFacts, AppendFacts
  <2>2. queue' \in [Requests -> Seq(Envelope)]
    BY <1>1, <1>2, <2>1 DEF TurnTypeOK
  <2> QED  BY <1>1, <1>2, <1>5, <1>6, <2>2 DEF TurnTypeOK, database, bounds
<1>9. \A q \in Requests \ {r} : Same(q)
  BY <1>1, <1>2 DEF Same, TurnTypeOK
<1>10. StreamOK(r)'
  BY <1>1, <1>2, <1>3, <1>5, <1>7, RevisionBegins
<1>11. DraftArrives(r)'
  BY <1>6 DEF DraftArrives
<1>12. DraftAllowed(r)'
  BY <1>1, <1>2, <1>6 DEF MiddleOK, DraftAllowed, Admitted, DraftGuard, Current, Newest, database
<1>13. MiddleOK(r)'
  <2>1. On(r)'
    BY <1>6 DEF On
  <2> QED  BY <1>1, <1>2, <1>5, <1>6, <1>10, <1>11, <1>12, <2>1 DEF MiddleOK, database
<1>14. FramesOK(r)'
  BY <1>1, <1>2, <1>3, <1>7, AppendedFrames, ControlFacts DEF RequestOK, database
<1>15. RequestOK(r)'
  BY <1>1, <1>2, <1>5, <1>13, <1>14 DEF RequestOK, Early, Late, database
<1> QED  BY <1>2, <1>8, <1>9, <1>15, RequestStep DEF database


-----------------------------------------------------------------------------
(* The response.                                                           *)

LEMMA ReceivedFacts ==
  ASSUME NEW b \in Browser, NEW e \in Envelope, FrameOK(e)
  PROVE  /\ Received(b, e) \in Browser
         /\ e.kind = "revision" /\ e.revision > b.revision =>
              /\ Received(b, e).revision = e.revision /\ Received(b, e).shown = {}
              /\ Received(b, e).got = b.got
         /\ e.kind \in {"none", "opening"} \/ (e.kind = "revision" /\ ~(e.revision > b.revision)) => Received(b, e) = b
         /\ e.kind = "delta" =>
              /\ Received(b, e).revision = b.revision /\ Received(b, e).got = b.got
              /\ Received(b, e).shown = IF e.revision = b.revision THEN b.shown \cup {e.text} ELSE b.shown
         /\ e.kind = "result" =>
              /\ Received(b, e).revision = b.revision /\ Received(b, e).got = e.text
              /\ Received(b, e).shown = b.shown
         /\ e.kind = "error" =>
              /\ Received(b, e).revision = b.revision /\ Received(b, e).got = b.got
              /\ Received(b, e).shown = b.shown \/ (b.got = NoText /\ Received(b, e).shown = {})
<1>1. e.kind \in {"none", "revision", "opening", "delta", "result", "error"} /\ e.revision \in Nat /\ e.text \in Answer
  BY DEF Envelope
<1>2. CASE e.kind = "revision"
  <2>1. CASE e.revision > b.revision
    <3> DEFINE n == e.revision
    <3>1. n \in Nat /\ Received(b, e) = [b EXCEPT !.revision = n, !.shown = {}]
      BY <1>1, <1>2, <2>1 DEF Received
    <3> HIDE DEF n
    <3>2. Received(b, e) \in Browser /\ Received(b, e).revision = n /\ Received(b, e).shown = {}
          /\ Received(b, e).got = b.got
      BY <3>1 DEF Browser
    <3> QED  BY <1>2, <2>1, <3>2 DEF n
  <2>2. CASE ~(e.revision > b.revision)
    BY <1>2, <2>2 DEF Received
  <2> QED  BY <2>1, <2>2
<1>3. CASE e.kind = "delta"
  <2>1. e.text \in Text
    BY <1>3 DEF FrameOK
  <2>2. CASE e.revision = b.revision
    <3> DEFINE s == b.shown \cup {e.text}
    <3>1. s \in SUBSET Text /\ Received(b, e) = [b EXCEPT !.shown = s]
      BY <1>3, <2>1, <2>2 DEF Received, Browser
    <3> HIDE DEF s
    <3>2. Received(b, e) \in Browser /\ Received(b, e).shown = s /\ Received(b, e).revision = b.revision
          /\ Received(b, e).got = b.got
      BY <3>1 DEF Browser
    <3> QED  BY <1>3, <2>2, <3>2 DEF s
  <2>3. CASE e.revision # b.revision
    BY <1>3, <2>3 DEF Received
  <2> QED  BY <2>2, <2>3
<1>4. CASE e.kind = "result"
  <2> DEFINE t == e.text
  <2>1. t \in Answer /\ Received(b, e) = [b EXCEPT !.got = t]
    BY <1>1, <1>4 DEF Received
  <2> HIDE DEF t
  <2>2. Received(b, e) \in Browser /\ Received(b, e).shown = b.shown /\ Received(b, e).revision = b.revision
        /\ Received(b, e).got = t
    BY <2>1 DEF Browser
  <2> QED  BY <1>4, <2>2 DEF t
<1>5. CASE e.kind = "error"
  <2>1. Received(b, e) = Failed(b)
    BY <1>5 DEF Received
  <2>2. [b EXCEPT !.shown = {}] \in Browser /\ [b EXCEPT !.shown = {}].shown = {}
        /\ [b EXCEPT !.shown = {}].revision = b.revision /\ [b EXCEPT !.shown = {}].got = b.got
    BY DEF Browser
  <2> QED  BY <1>5, <2>1, <2>2 DEF Failed
<1>6. CASE e.kind \in {"none", "opening"}
  BY <1>6 DEF Received
<1> QED  BY <1>1, <1>2, <1>3, <1>4, <1>5, <1>6

LEMMA FailedFacts ==
  ASSUME NEW b \in Browser
  PROVE  /\ Failed(b) \in Browser /\ Failed(b).got = b.got
         /\ b.got # NoText => Failed(b) = b
         /\ Failed(b).shown \subseteq b.shown
<1>1. [b EXCEPT !.shown = {}] \in Browser /\ [b EXCEPT !.shown = {}].shown = {}
      /\ [b EXCEPT !.shown = {}].got = b.got
  BY DEF Browser
<1> QED  BY <1>1 DEF Failed

\* The step that takes the envelope e.
Taken(r, e) ==
  /\ TurnTypeOK /\ RequestOK(r) /\ FrameOK(e)
  /\ queue[r][1] = e /\ sending[r] = NoEnvelope
  /\ Len(queue[r]) \in Nat \ {0} /\ Len(queue'[r]) = Len(queue[r]) - 1
  /\ queue'[r] = Tail(queue[r])
  /\ \A i \in 1..Len(queue'[r]) : i + 1 \in 1..Len(queue[r]) /\ queue'[r][i] = queue[r][i + 1]
  /\ \A i \in 1..Len(queue[r]) : i # 1 => i - 1 \in 1..Len(queue'[r]) /\ queue'[r][i - 1] = queue[r][i]
  /\ UNCHANGED <<database, memo, emitter, tasks, bounds>>
  /\ sending'[r] = (IF Stale(r, e) \/ e.fence = 0 THEN NoEnvelope ELSE e)
  /\ browser'[r] = (IF Stale(r, e) \/ e.fence # 0 THEN browser[r] ELSE Received(browser[r], e))
  /\ pc'[r] = (IF e.kind = "error" THEN "release" ELSE pc[r])
  /\ TurnTypeOK' /\ FramesOK(r)'
  /\ \A q \in Requests \ {r} : Same(q)

LEMMA TakeFacts ==
  ASSUME IInv, NEW r \in Requests, Take(r)
  PROVE  \E e \in Envelope : Taken(r, e)
<1>1. TurnTypeOK /\ RequestOK(r) /\ FramesOK(r) /\ queue[r] \in Seq(Envelope) /\ queue[r] # <<>>
      /\ sending[r] = NoEnvelope /\ browser[r] \in Browser
  BY DEF IInv, RequestOK, TurnTypeOK, Take
<1>2. PICK e : e = Head(queue[r])
  OBVIOUS
<1>3. /\ e \in Envelope /\ queue[r][1] = e /\ 1 \in 1..Len(queue[r]) /\ Tail(queue[r]) \in Seq(Envelope)
      /\ Len(queue[r]) \in Nat /\ Len(Tail(queue[r])) = Len(queue[r]) - 1
      /\ \A i \in 1..Len(Tail(queue[r])) : i + 1 \in 1..Len(queue[r]) /\ Tail(queue[r])[i] = queue[r][i + 1]
      /\ \A i \in 1..Len(queue[r]) : i # 1 => i - 1 \in 1..Len(Tail(queue[r])) /\ Tail(queue[r])[i - 1] = queue[r][i]
  BY <1>1, <1>2, TailFacts
<1>4. /\ queue' = [queue EXCEPT ![r] = Tail(queue[r])]
      /\ sending' = (IF Stale(r, e) \/ e.fence = 0 THEN sending ELSE [sending EXCEPT ![r] = e])
      /\ browser' = (IF Stale(r, e) \/ e.fence # 0 THEN browser
                     ELSE [browser EXCEPT ![r] = Received(browser[r], e)])
      /\ pc' = (IF e.kind = "error" THEN [pc EXCEPT ![r] = "release"] ELSE pc)
      /\ UNCHANGED <<database, memo, emitter, tasks, bounds>>
  BY <1>2 DEF Take
<1>5. FrameOK(e)
  BY <1>1, <1>3 DEF FramesOK
<1>6. Received(browser[r], e) \in Browser
  BY <1>1, <1>3, <1>5, ReceivedFacts
<1>7. /\ queue'[r] = Tail(queue[r])
      /\ sending'[r] = (IF Stale(r, e) \/ e.fence = 0 THEN NoEnvelope ELSE e)
      /\ browser'[r] = (IF Stale(r, e) \/ e.fence # 0 THEN browser[r] ELSE Received(browser[r], e))
      /\ pc'[r] = (IF e.kind = "error" THEN "release" ELSE pc[r])
  BY <1>1, <1>4 DEF TurnTypeOK
<1>8. TurnTypeOK'
  <2>1. queue' \in [Requests -> Seq(Envelope)]
    BY <1>1, <1>3, <1>4 DEF TurnTypeOK
  <2>2. sending' \in [Requests -> Envelope]
    BY <1>1, <1>3, <1>4 DEF TurnTypeOK
  <2>3. browser' \in [Requests -> Browser]
    BY <1>1, <1>4, <1>6 DEF TurnTypeOK
  <2>4. pc' \in [Requests -> Stages]
    BY <1>1, <1>4 DEF TurnTypeOK, Stages
  <2> QED  BY <1>1, <1>4, <2>1, <2>2, <2>3, <2>4 DEF TurnTypeOK, database, tasks, bounds
<1>9. ASSUME NEW f, FrameOK(f) PROVE FrameOK(f)'
  BY <1>4, <1>9 DEF FrameOK, AnswerOK, database
<1>10. FramesOK(r)'
  <2>1. FrameOK(sending[r])'
    <3>1. PICK f : f = sending'[r]
      OBVIOUS
    <3>2. FrameOK(f)'
      BY <1>5, <1>7, <1>9, <3>1, NoEnvelopeFacts
    <3> QED  BY <3>1, <3>2
  <2>2. ASSUME NEW i \in 1..Len(queue'[r]) PROVE FrameOK(queue[r][i])'
    <3>1. PICK f : f = queue'[r][i]
      OBVIOUS
    <3>2. FrameOK(f)
      BY <1>1, <1>3, <1>7, <2>2, <3>1 DEF FramesOK
    <3> QED  BY <1>9, <3>1, <3>2
  <2> QED  BY <2>1, <2>2 DEF FramesOK
<1>11. \A q \in Requests \ {r} : Same(q)
  BY <1>1, <1>4 DEF Same, TurnTypeOK, tasks
<1>12. Len(queue[r]) \in Nat \ {0} /\ Len(queue'[r]) = Len(queue[r]) - 1
  BY <1>3, <1>7
<1>13. UNCHANGED <<database, memo, emitter, tasks, bounds>>
  BY <1>4
<1>14. /\ \A i \in 1..Len(queue'[r]) : i + 1 \in 1..Len(queue[r]) /\ queue'[r][i] = queue[r][i + 1]
       /\ \A i \in 1..Len(queue[r]) : i # 1 => i - 1 \in 1..Len(queue'[r]) /\ queue'[r][i - 1] = queue[r][i]
       /\ queue[r][1] = e /\ e \in Envelope
  BY <1>3, <1>7
<1>15. Taken(r, e)
  BY <1>1, <1>5, <1>7, <1>8, <1>10, <1>11, <1>12, <1>13, <1>14 DEF Taken
<1> QED  BY <1>3, <1>15

LEMMA TakeStep ==
  ASSUME IInv, NEW r \in Requests, Take(r)
  PROVE  IInv'
<1>1. PICK e \in Envelope :
    /\ TurnTypeOK /\ RequestOK(r) /\ FrameOK(e)
    /\ queue[r][1] = e /\ sending[r] = NoEnvelope
    /\ Len(queue[r]) \in Nat \ {0} /\ Len(queue'[r]) = Len(queue[r]) - 1
    /\ queue'[r] = Tail(queue[r])
    /\ \A i \in 1..Len(queue'[r]) : i + 1 \in 1..Len(queue[r]) /\ queue'[r][i] = queue[r][i + 1]
    /\ \A i \in 1..Len(queue[r]) : i # 1 => i - 1 \in 1..Len(queue'[r]) /\ queue'[r][i - 1] = queue[r][i]
    /\ UNCHANGED <<database, memo, emitter, tasks, bounds>>
    /\ sending'[r] = (IF Stale(r, e) \/ e.fence = 0 THEN NoEnvelope ELSE e)
    /\ browser'[r] = (IF Stale(r, e) \/ e.fence # 0 THEN browser[r] ELSE Received(browser[r], e))
    /\ pc'[r] = (IF e.kind = "error" THEN "release" ELSE pc[r])
    /\ TurnTypeOK' /\ FramesOK(r)'
    /\ \A q \in Requests \ {r} : Same(q)
  BY TakeFacts DEF Taken
<1>2. browser[r] \in Browser /\ browser[r].revision \in Nat /\ emitter[r].revision \in Nat
      /\ e.revision \in Nat /\ pc[r] \in Stages
      /\ e.kind \in {"none", "revision", "opening", "delta", "result", "error"} /\ e.fence \in Nat
  BY <1>1 DEF TurnTypeOK, Browser, Emitter, Envelope
<1>3. e.fence = 0 <=> e.kind \in {"none", "revision", "error"}
  BY <1>1 DEF FrameOK
<1>11. /\ e.kind = "revision" /\ e.revision > browser[r].revision =>
            /\ Received(browser[r], e).revision = e.revision /\ Received(browser[r], e).shown = {}
            /\ Received(browser[r], e).got = browser[r].got
       /\ e.kind \in {"none", "opening"} \/ (e.kind = "revision" /\ ~(e.revision > browser[r].revision)) =>
            Received(browser[r], e) = browser[r]
       /\ e.kind = "error" =>
            /\ Received(browser[r], e).revision = browser[r].revision
            /\ Received(browser[r], e).got = browser[r].got
            /\ Received(browser[r], e).shown \subseteq browser[r].shown
  <2>1. e.kind = "error" => Received(browser[r], e) = Failed(browser[r])
    BY DEF Received
  <2>2. Failed(browser[r]).shown \subseteq browser[r].shown
    BY <1>2, FailedFacts
  <2>3. browser[r] \in Browser /\ e \in Envelope /\ FrameOK(e)
    BY <1>1, <1>2
  <2>4. /\ e.kind = "revision" /\ e.revision > browser[r].revision =>
            /\ Received(browser[r], e).revision = e.revision /\ Received(browser[r], e).shown = {}
            /\ Received(browser[r], e).got = browser[r].got
        /\ e.kind \in {"none", "opening"} \/ (e.kind = "revision" /\ ~(e.revision > browser[r].revision)) =>
            Received(browser[r], e) = browser[r]
        /\ e.kind = "error" =>
            /\ Received(browser[r], e).revision = browser[r].revision
            /\ Received(browser[r], e).got = browser[r].got
    BY <2>3, ReceivedFacts
  <2> QED  BY <2>1, <2>2, <2>4
<1>4. browser'[r].got = browser[r].got
  BY <1>1, <1>2, <1>3, <1>11
<1>5. \/ browser'[r] = browser[r]
      \/ /\ e.kind = "revision" /\ e.revision > browser[r].revision /\ ~Stale(r, e)
         /\ browser'[r].revision = e.revision /\ browser'[r].shown = {}
      \/ /\ e.kind = "error" /\ browser'[r].revision = browser[r].revision
         /\ browser'[r].shown \subseteq browser[r].shown
  BY <1>1, <1>2, <1>3, <1>11
<1>6. generation' = generation /\ emitter' = emitter /\ memo' = memo /\ reply' = reply
      /\ holder' = holder /\ authority' = authority /\ source' = source /\ pending' = pending
      /\ receipt' = receipt /\ delivered' = delivered
  BY <1>1 DEF database, tasks
<1>7. pc[r] \notin Early
  BY <1>1 DEF RequestOK, EarlyOK
<1>8. ASSUME pc[r] \in Middle PROVE pc'[r] = pc[r] /\ MiddleOK(r)'
  <2>1. MiddleOK(r) /\ StreamOK(r)
    BY <1>1, <1>8 DEF RequestOK, MiddleOK
  <2>2. DraftFrameOK(r, e) /\ (e.kind \in {"none", "revision", "opening", "delta"}) /\ e.revision <= emitter[r].revision
    BY <1>1, <2>1 DEF StreamOK, DraftFrameOK
  <2>3. ASSUME NEW f PROVE DraftFrameOK(r, f)' = DraftFrameOK(r, f) /\ IsCurrent(r, f)' = IsCurrent(r, f)
    BY <1>6 DEF DraftFrameOK, IsCurrent, On, Draft
  <2>4. IsCurrent(r, e) => sending'[r] = e /\ browser'[r] = browser[r]
    BY <1>1, <1>3 DEF IsCurrent, Stale
  <2>5. IsCurrent(r, e) => browser[r].revision = emitter[r].revision
    <3>1. ASSUME NEW j \in 1..Len(queue[r]) PROVE 1 \in 1..j
      OBVIOUS
    <3> QED  BY <1>1, <2>1, <3>1 DEF StreamOK, RevisionFirst
  <2>6. DraftFrameOK(r, sending[r])' /\ sending'[r].kind # "revision"
        /\ (IsCurrent(r, sending[r])' => sending'[r] = e /\ IsCurrent(r, e))
    <3>1. PICK f : f = sending'[r]
      OBVIOUS
    <3>2. f = e \/ f = NoEnvelope
      BY <1>1, <3>1
    <3>3. DraftFrameOK(r, NoEnvelope) /\ ~IsCurrent(r, NoEnvelope)
      BY <1>2, NoEnvelopeFacts DEF DraftFrameOK, IsCurrent
    <3>4. DraftFrameOK(r, f)' /\ (IsCurrent(r, f)' => f = e /\ IsCurrent(r, e))
      BY <2>2, <2>3, <3>2, <3>3
    <3>5. sending'[r].kind # "revision"
      BY <1>1, <1>3, NoEnvelopeFacts
    <3> QED  BY <3>1, <3>4, <3>5
  <2>7. ASSUME NEW i \in 1..Len(queue'[r])
        PROVE  /\ i + 1 \in 1..Len(queue[r]) /\ queue'[r][i] = queue[r][i + 1]
               /\ DraftFrameOK(r, queue[r][i])' /\ IsCurrent(r, queue[r][i])' = IsCurrent(r, queue[r][i + 1])
    <3>1. PICK f : f = queue'[r][i]
      OBVIOUS
    <3>2. i + 1 \in 1..Len(queue[r]) /\ f = queue[r][i + 1]
      BY <1>1, <2>7, <3>1
    <3>3. DraftFrameOK(r, f)
      BY <2>1, <3>2 DEF StreamOK
    <3>4. DraftFrameOK(r, f)' /\ IsCurrent(r, f)' = IsCurrent(r, f)
      BY <2>3, <3>3
    <3> QED  BY <3>1, <3>2, <3>4
  <2>8. browser[r].revision = emitter[r].revision => browser'[r] = browser[r]
    BY <1>2, <1>5, <2>2
  <2>9. RevisionFirst(r)'
    <3>1. CASE browser[r].revision = emitter[r].revision
      BY <1>6, <2>8, <3>1 DEF RevisionFirst
    <3>2. ASSUME browser[r].revision # emitter[r].revision PROVE RevisionFirst(r)'
      <4>1. PICK j \in 1..Len(queue[r]) :
              /\ queue[r][j] = Control("revision", emitter[r].revision)
              /\ \A i \in 1..j : ~IsCurrent(r, queue[r][i])
        BY <2>1, <3>2 DEF StreamOK, RevisionFirst
      <4>2. CASE j = 1
        <5>1. e.kind = "revision" /\ e.revision = emitter[r].revision
          BY <1>1, <4>1, <4>2 DEF Control
        <5>2. ~Stale(r, e) /\ e.fence = 0 /\ e.revision > browser[r].revision
          BY <1>2, <1>3, <2>1, <3>2, <5>1 DEF Stale, StreamOK, PageOK
        <5>3. browser'[r].revision = emitter[r].revision
          BY <1>1, <1>11, <5>1, <5>2
        <5> QED  BY <1>6, <5>3 DEF RevisionFirst
      <4>3. CASE j # 1
        <5>1. j - 1 \in 1..Len(queue'[r]) /\ queue'[r][j - 1] = Control("revision", emitter'[r].revision)
          BY <1>1, <1>6, <4>1, <4>3
        <5>2. ASSUME NEW i \in 1..(j - 1) PROVE ~IsCurrent(r, queue[r][i])'
          <6>1. i \in 1..Len(queue'[r]) /\ i + 1 \in 1..j
            BY <5>1, <5>2
          <6> QED  BY <2>7, <4>1, <6>1
        <5> QED  BY <5>1, <5>2 DEF RevisionFirst
      <4> QED  BY <4>2, <4>3
    <3> QED  BY <3>1, <3>2
  <2>10. PageOK(r)'
    <3>1. browser[r].got = NoText /\ browser[r].revision <= emitter[r].revision
          /\ \A t \in browser[r].shown :
               /\ t.take = browser[r].revision
               /\ browser[r].revision = emitter[r].revision => On(r) /\ t = Draft(r)
      BY <2>1 DEF StreamOK, PageOK
    <3>2. On(r)' = On(r) /\ Draft(r)' = Draft(r)
      BY <1>6 DEF On, Draft
    <3>3. browser'[r] = browser[r] \/ (browser'[r].revision = e.revision /\ browser'[r].shown = {})
      BY <1>5, <2>2
    <3>4. CASE browser'[r] = browser[r]
      BY <1>6, <3>1, <3>2, <3>4 DEF PageOK
    <3>5. CASE browser'[r].revision = e.revision /\ browser'[r].shown = {}
      BY <1>4, <1>6, <2>2, <3>1, <3>5 DEF PageOK
    <3> QED  BY <3>3, <3>4, <3>5
  <2>11. StreamOK(r)'
    <3>1. IsCurrent(r, sending[r])' => browser'[r].revision = emitter'[r].revision
      BY <1>6, <2>4, <2>5, <2>6
    <3> QED  BY <2>6, <2>7, <2>9, <2>10, <3>1 DEF StreamOK
  <2>12. DraftArrives(r)'
    <3> SUFFICES ASSUME Admitted(r), generation[r].wrote, Current(r, generation[r].under)
                 PROVE  \/ Draft(r) \in browser'[r].shown
                        \/ IsCurrent(r, sending[r])'
                        \/ \E i \in 1..Len(queue'[r]) : IsCurrent(r, queue[r][i])'
      BY <1>6 DEF DraftArrives, Admitted, Current, Draft
    <3>1. \/ Draft(r) \in browser[r].shown
          \/ \E i \in 1..Len(queue[r]) : IsCurrent(r, queue[r][i])
      BY <1>1, <2>1, NoEnvelopeFacts DEF MiddleOK, DraftArrives, IsCurrent
    <3>2. CASE Draft(r) \in browser[r].shown
      <4>1. browser[r].revision = emitter[r].revision
        BY <2>1, <3>2 DEF StreamOK, PageOK, Draft
      <4> QED  BY <2>8, <3>2, <4>1
    <3>3. ASSUME NEW i \in 1..Len(queue[r]), IsCurrent(r, queue[r][i])
          PROVE  \/ IsCurrent(r, sending[r])'
                 \/ \E j \in 1..Len(queue'[r]) : IsCurrent(r, queue[r][j])'
      <4>1. CASE i = 1
        <5>1. IsCurrent(r, e) /\ sending'[r] = e
          BY <1>1, <2>4, <3>3, <4>1
        <5> QED  BY <1>6, <5>1 DEF IsCurrent
      <4>2. CASE i # 1
        <5>1. i - 1 \in 1..Len(queue'[r]) /\ (i - 1) + 1 = i
          BY <1>1, <3>3, <4>2
        <5>2. IsCurrent(r, queue[r][i - 1])'
          BY <2>7, <3>3, <5>1
        <5> QED  BY <5>1, <5>2
      <4> QED  BY <4>1, <4>2
    <3> QED  BY <3>1, <3>2, <3>3
  <2>13. DraftAllowed(r)'
    BY <1>6, <2>1 DEF MiddleOK, DraftAllowed, Admitted, DraftGuard, Current, Newest
  <2>14. pc'[r] = pc[r]
    BY <1>1, <2>2
  <2> QED  BY <1>6, <2>1, <2>11, <2>12, <2>13, <2>14 DEF MiddleOK, On
<1>9. ASSUME pc[r] \in Late PROVE pc'[r] \in Late /\ LateOK(r)'
  <2>1. LateOK(r)
    BY <1>1, <1>9 DEF RequestOK
  <2>2. pc'[r] \in Late
    BY <1>1, <1>9 DEF Late
  <2>3. ASSUME Unanswered(r) PROVE Unanswered(r)'
    <3>1. e.kind # "result" /\ \A i \in 1..Len(queue[r]) : queue[r][i].kind # "result"
      BY <1>1, <2>3 DEF Unanswered, NoResults
    <3>2. sending'[r].kind # "result"
      BY <1>1, <3>1, NoEnvelopeFacts
    <3>3. NoResults(r)'
      BY <1>1, <3>1, <3>2 DEF NoResults
    <3> QED  BY <1>1, <1>4, <2>3, <3>3 DEF Unanswered
  <2>4. ~Answered(r)
    BY <1>1 DEF Answered
  <2>5. TheResult(r)' = TheResult(r) /\ TheText(r)' = TheText(r) /\ TheRevision(r)' = TheRevision(r)
    BY <1>6 DEF TheResult, TheText, TheRevision, AnswerFrame
  <2>6. ASSUME Answering(r) PROVE Answering(r)'
    <3>1. pc[r] = "sent" /\ browser[r].got = NoText /\ emitter[r].fence # 0
          /\ AnswerOK(memo[r].answer, emitter[r].fence)
      BY <2>6 DEF Answering
    <3>2. TheResult(r).kind = "result" /\ TheResult(r).fence = emitter[r].fence /\ TheResult(r).revision = 0
          /\ TheText(r).kind = "delta" /\ TheText(r).fence = emitter[r].fence
          /\ TheText(r).revision = memo[r].answer.take
          /\ TheRevision(r).kind = "revision" /\ TheRevision(r).fence = 0
          /\ TheRevision(r).revision = memo[r].answer.take
      BY DEF TheResult, TheText, TheRevision, AnswerFrame, Control
    <3>3. TheText(r) # NoEnvelope /\ TheResult(r) # NoEnvelope
      BY <3>2, NoEnvelopeFacts
    <3>4. AnswerOK(memo[r].answer, emitter[r].fence)'
      BY <1>6, <3>1 DEF AnswerOK
    <3>5. PICK a, b, c : a = TheRevision(r) /\ b = TheText(r) /\ c = TheResult(r)
      OBVIOUS
    <3>6. CASE Closing(r)
      <4>1. queue[r] = <<c>> /\ (memo[r].answer = Rebuild \/ browser[r].shown = Shown(r))
        BY <1>1, <3>3, <3>5, <3>6 DEF Closing
      <4>2. e = c /\ queue'[r] = <<>>
        BY <1>1, <4>1
      <4>3. sending'[r] = c /\ browser'[r] = browser[r] /\ pc'[r] = pc[r]
        BY <1>1, <3>1, <3>2, <3>5, <4>2 DEF Stale
      <4>4. Closing(r)'
        BY <1>6, <2>5, <3>5, <4>1, <4>2, <4>3 DEF Closing, Shown
      <4> QED  BY <1>6, <3>1, <3>4, <4>3, <4>4 DEF Answering
    <3>7. CASE Showing(r)
      <4>1. /\ reply # NoReply /\ memo[r].answer = reply.text /\ reply.text.by = r
            /\ emitter[r].revision = memo[r].answer.take /\ emitter[r].fence = reply.authority
        BY <3>7 DEF Showing
      <4>2. CASE queue[r] = <<a, b, c>> /\ browser[r].revision < memo[r].answer.take
        <5>1. e = a /\ queue'[r] = <<b, c>>
          BY <1>1, <4>2
        <5>2. e.kind = "revision" /\ e.fence = 0 /\ e.revision = emitter[r].revision
          BY <3>2, <3>5, <4>1, <5>1
        <5>3. ~Stale(r, e) /\ e.revision > browser[r].revision
          BY <1>2, <4>1, <4>2, <5>2 DEF Stale
        <5>4. browser'[r].revision = memo[r].answer.take /\ browser'[r].shown = {}
              /\ sending'[r] = NoEnvelope /\ pc'[r] = pc[r]
          BY <1>1, <1>11, <4>1, <5>2, <5>3
        <5>5. Showing(r)'
          BY <1>6, <2>5, <3>5, <4>1, <5>1, <5>4 DEF Showing
        <5> QED  BY <1>4, <1>6, <3>1, <3>4, <5>4, <5>5 DEF Answering
      <4>3. CASE queue[r] = <<b, c>> /\ browser[r].revision = memo[r].answer.take
                 /\ browser[r].shown \subseteq {memo[r].answer}
        <5>1. e = b /\ queue'[r] = <<c>>
          BY <1>1, <4>3
        <5>2. ~Stale(r, e) /\ e.fence # 0 /\ e.kind = "delta"
          BY <3>1, <3>2, <3>5, <4>1, <5>1 DEF Stale
        <5>3. sending'[r] = b /\ browser'[r] = browser[r] /\ pc'[r] = pc[r]
          BY <1>1, <5>1, <5>2
        <5>4. Showing(r)'
          BY <1>6, <2>5, <3>5, <4>1, <4>3, <5>1, <5>3 DEF Showing
        <5> QED  BY <1>6, <3>1, <3>4, <5>3, <5>4 DEF Answering
      <4> QED  BY <1>1, <3>3, <3>5, <3>7, <4>2, <4>3 DEF Showing
    <3> QED  BY <2>6, <3>6, <3>7 DEF Answering
  <2> QED  BY <1>6, <2>1, <2>2, <2>3, <2>4, <2>6 DEF LateOK
<1>10. RequestOK(r)'
  <2>1. pc[r] \in Middle \/ pc[r] \in Late
    BY <1>2, <1>7 DEF Stages, Early, Middle, Late
  <2>2. CASE pc[r] \in Middle
    BY <1>1, <1>6, <1>8, <2>2 DEF RequestOK, Early, Middle, Late
  <2>3. CASE pc[r] \in Late
    BY <1>1, <1>6, <1>9, <2>3 DEF RequestOK, Early, Middle, Late
  <2> QED  BY <2>1, <2>2, <2>3
<1> QED  BY <1>1, <1>4, <1>6, <1>10, RequestStep


LEMMA SendStep ==
  ASSUME IInv, NEW r \in Requests, Send(r)
  PROVE  IInv'
<1>1. TurnTypeOK /\ RequestOK(r) /\ FramesOK(r) /\ browser[r] \in Browser /\ pc[r] \in Stages
      /\ sending[r] \in Envelope /\ FrameOK(sending[r])
  BY DEF IInv, RequestOK, TurnTypeOK, FramesOK
<1>2. PICK e : e = sending[r]
  OBVIOUS
<1>3. /\ browser' = [browser EXCEPT ![r] = Received(browser[r], e)]
      /\ sending' = [sending EXCEPT ![r] = NoEnvelope]
      /\ pc' = (IF e.kind = "result" THEN [pc EXCEPT ![r] = "ending"] ELSE pc)
      /\ UNCHANGED <<database, memo, emitter, tasks, queue, bounds>>
      /\ e # NoEnvelope
  BY <1>2 DEF Send
<1> DEFINE b == Received(browser[r], e)
<1>4. /\ b \in Browser
      /\ e.kind \in {"none", "opening"} \/ (e.kind = "revision" /\ ~(e.revision > browser[r].revision)) => b = browser[r]
      /\ e.kind = "delta" =>
           /\ b.revision = browser[r].revision /\ b.got = browser[r].got
           /\ b.shown = IF e.revision = browser[r].revision THEN browser[r].shown \cup {e.text}
                        ELSE browser[r].shown
      /\ e.kind = "result" =>
           b.revision = browser[r].revision /\ b.got = e.text /\ b.shown = browser[r].shown
      /\ e.kind \in {"revision", "error"} => b.got = browser[r].got
  BY <1>1, <1>2, ReceivedFacts
<1>5. /\ browser'[r] = b /\ sending'[r] = NoEnvelope
      /\ pc'[r] = (IF e.kind = "result" THEN "ending" ELSE pc[r])
      /\ queue'[r] = queue[r]
  BY <1>1, <1>3 DEF TurnTypeOK
<1>6. TurnTypeOK'
  <2>1. browser' \in [Requests -> Browser] /\ sending' \in [Requests -> Envelope]
    BY <1>1, <1>3, <1>4, NoEnvelopeFacts DEF TurnTypeOK
  <2>2. pc' \in [Requests -> Stages]
    BY <1>1, <1>3 DEF TurnTypeOK, Stages
  <2> QED  BY <1>1, <1>3, <2>1, <2>2 DEF TurnTypeOK, database, tasks, bounds
<1>7. \A q \in Requests \ {r} : Same(q)
  BY <1>1, <1>3 DEF Same, TurnTypeOK, tasks
<1>8. FramesOK(r)'
  <2>1. FrameOK(sending[r])'
    BY <1>5, NoEnvelopeFacts
  <2>2. \A i \in 1..Len(queue[r]) : FrameOK(queue[r][i])'
    BY <1>1, <1>3 DEF FramesOK, FrameOK, AnswerOK, database
  <2> QED  BY <1>5, <2>1, <2>2 DEF FramesOK
<1>9. generation' = generation /\ emitter' = emitter /\ memo' = memo /\ reply' = reply
      /\ holder' = holder /\ authority' = authority /\ source' = source /\ pending' = pending
      /\ receipt' = receipt /\ delivered' = delivered
  BY <1>3 DEF database, tasks
<1> HIDE DEF b
<1>10. pc[r] \notin Early
  BY <1>1, <1>2, <1>3 DEF RequestOK, EarlyOK
<1>11. ASSUME pc[r] \in Middle PROVE pc'[r] = pc[r] /\ MiddleOK(r)' /\ browser[r].got = NoText
  <2>1. MiddleOK(r) /\ StreamOK(r) /\ PageOK(r)
    BY <1>1, <1>11 DEF RequestOK, MiddleOK, StreamOK
  <2>2. DraftFrameOK(r, e) /\ e.kind \in {"none", "opening", "delta"} /\ e.revision <= emitter[r].revision
    BY <1>2, <2>1 DEF StreamOK, DraftFrameOK
  <2>3. ASSUME NEW f PROVE DraftFrameOK(r, f)' = DraftFrameOK(r, f) /\ IsCurrent(r, f)' = IsCurrent(r, f)
    BY <1>9 DEF DraftFrameOK, IsCurrent, On, Draft
  <2>4. IsCurrent(r, e) => browser[r].revision = emitter[r].revision /\ e.text = Draft(r) /\ On(r)
    BY <1>2, <2>1, <2>2 DEF StreamOK, DraftFrameOK
  <2>5. b.revision = browser[r].revision /\ b.got = browser[r].got
        /\ (b.shown = browser[r].shown \/ (e.kind = "delta" /\ e.revision = browser[r].revision
                                           /\ b.shown = browser[r].shown \cup {e.text}))
    BY <1>4, <2>2
  <2>6. DraftFrameOK(r, sending[r])' /\ sending'[r].kind # "revision" /\ ~IsCurrent(r, sending[r])'
    <3>1. emitter[r].revision \in Nat
      BY <1>1 DEF TurnTypeOK, Emitter
    <3>2. DraftFrameOK(r, NoEnvelope) /\ ~IsCurrent(r, NoEnvelope)
      BY <3>1, NoEnvelopeFacts DEF DraftFrameOK, IsCurrent
    <3>3. PICK f : f = NoEnvelope
      OBVIOUS
    <3>4. DraftFrameOK(r, f)' /\ ~IsCurrent(r, f)'
      BY <2>3, <3>2, <3>3
    <3> QED  BY <1>5, <3>3, <3>4, NoEnvelopeFacts
  <2>7. ASSUME NEW i \in 1..Len(queue[r])
        PROVE  DraftFrameOK(r, queue[r][i])' /\ IsCurrent(r, queue[r][i])' = IsCurrent(r, queue[r][i])
    <3>1. PICK f : f = queue[r][i]
      OBVIOUS
    <3>2. DraftFrameOK(r, f)' /\ IsCurrent(r, f)' = IsCurrent(r, f)
      BY <2>1, <2>3, <2>7, <3>1 DEF StreamOK
    <3> QED  BY <1>5, <3>1, <3>2
  <2>8. RevisionFirst(r)'
    <3>1. ASSUME NEW j \in 1..Len(queue[r]), NEW i \in 1..j PROVE i \in 1..Len(queue[r])
      OBVIOUS
    <3> QED  BY <1>5, <1>9, <2>1, <2>5, <2>7, <3>1 DEF StreamOK, RevisionFirst
  <2>9. PageOK(r)'
    <3>1. On(r)' = On(r) /\ Draft(r)' = Draft(r)
      BY <1>9 DEF On, Draft
    <3>2. CASE b.shown = browser[r].shown
      BY <1>5, <1>9, <2>1, <2>5, <3>1, <3>2 DEF PageOK
    <3>3. CASE e.kind = "delta" /\ e.revision = browser[r].revision /\ b.shown = browser[r].shown \cup {e.text}
      <4>1. e.text.take = browser[r].revision
        BY <2>2, <3>3 DEF DraftFrameOK
      <4>2. browser[r].revision = emitter[r].revision => On(r) /\ e.text = Draft(r)
        BY <2>4, <3>3 DEF IsCurrent
      <4> QED  BY <1>5, <1>9, <2>1, <2>5, <3>1, <3>3, <4>1, <4>2 DEF PageOK
    <3> QED  BY <2>5, <3>2, <3>3
  <2>10. StreamOK(r)'
    BY <1>5, <2>6, <2>7, <2>8, <2>9 DEF StreamOK
  <2>11. DraftArrives(r)'
    <3> SUFFICES ASSUME Admitted(r), generation[r].wrote, Current(r, generation[r].under)
                 PROVE  \/ Draft(r) \in browser'[r].shown
                        \/ \E i \in 1..Len(queue'[r]) : IsCurrent(r, queue[r][i])'
      BY <1>9 DEF DraftArrives, Admitted, Current, Draft
    <3>1. \/ Draft(r) \in browser[r].shown
          \/ IsCurrent(r, e)
          \/ \E i \in 1..Len(queue[r]) : IsCurrent(r, queue[r][i])
      BY <1>2, <2>1 DEF MiddleOK, DraftArrives
    <3>2. IsCurrent(r, e) => Draft(r) \in b.shown
      BY <1>4, <2>4 DEF IsCurrent
    <3> QED  BY <1>5, <2>5, <2>7, <3>1, <3>2
  <2>12. DraftAllowed(r)'
    BY <1>9, <2>1 DEF MiddleOK, DraftAllowed, Admitted, DraftGuard, Current, Newest
  <2>13. pc'[r] = pc[r]
    BY <1>5, <2>2
  <2> QED  BY <1>9, <2>1, <2>10, <2>11, <2>12, <2>13 DEF MiddleOK, On, PageOK
<1>12. ASSUME pc[r] \in Late PROVE pc'[r] \in Late /\ LateOK(r)' /\ browser[r].got = NoText
  <2>1. LateOK(r) /\ ~Answered(r)
    BY <1>1, <1>2, <1>3, <1>12 DEF RequestOK, Answered
  <2>2. pc'[r] \in Late
    BY <1>5, <1>12 DEF Late
  <2>3. ASSUME Unanswered(r) PROVE Unanswered(r)' /\ browser[r].got = NoText
    <3>1. e.kind # "result" /\ browser[r].got = NoText
      BY <1>2, <2>3 DEF Unanswered, NoResults
    <3>2. b.got = NoText
      <4>1. e.kind \in {"none", "revision", "opening", "delta", "error"}
        BY <1>1, <1>2, <3>1 DEF Envelope
      <4> QED  BY <1>4, <3>1, <4>1
    <3>3. NoResults(r)'
      BY <1>5, <2>3, NoEnvelopeFacts DEF Unanswered, NoResults
    <3> QED  BY <1>5, <2>3, <3>1, <3>2, <3>3 DEF Unanswered
  <2>4. ASSUME Answering(r) PROVE Answering(r)' \/ Answered(r)'
    <3>1. pc[r] = "sent" /\ browser[r].got = NoText /\ emitter[r].fence # 0
          /\ AnswerOK(memo[r].answer, emitter[r].fence)
      BY <2>4 DEF Answering
    <3>2. TheResult(r).kind = "result" /\ TheResult(r).text = memo[r].answer
          /\ TheText(r).kind = "delta" /\ TheText(r).text = memo[r].answer
          /\ TheText(r).revision = memo[r].answer.take
      BY DEF TheResult, TheText, AnswerFrame
    <3>3. TheResult(r)' = TheResult(r)
      BY <1>9 DEF TheResult, AnswerFrame
    <3>4. AnswerOK(memo[r].answer, emitter[r].fence)'
      BY <1>9, <3>1 DEF AnswerOK
    <3>5. Shown(r)' = Shown(r)
      BY <1>9 DEF Shown
    <3>6. CASE Closing(r)
      <4>1. queue[r] = <<>> /\ e = TheResult(r)
            /\ (memo[r].answer = Rebuild \/ browser[r].shown = Shown(r))
        BY <1>2, <1>3, <3>6 DEF Closing
      <4>2. b.got = memo[r].answer /\ b.shown = browser[r].shown /\ pc'[r] = "ending"
        BY <1>4, <1>5, <3>2, <4>1
      <4>3. memo[r].answer = Rebuild \/ (reply # NoReply /\ memo[r].answer = reply.text)
        BY <3>1 DEF AnswerOK
      <4>4. browser'[r].got = memo'[r].answer /\ browser'[r].shown = browser[r].shown
        BY <1>5, <1>9, <4>2
      <4> QED  BY <1>5, <1>9, <3>5, <4>1, <4>2, <4>3, <4>4 DEF Answered
    <3>7. CASE Showing(r)
      <4>1. /\ reply # NoReply /\ memo[r].answer = reply.text /\ reply.text.by = r
            /\ queue[r] = <<TheResult(r)>> /\ e = TheText(r)
            /\ browser[r].revision = memo[r].answer.take
            /\ browser[r].shown \subseteq {memo[r].answer}
        BY <1>2, <1>3, <3>7 DEF Showing
      <4>2. b.shown = {memo[r].answer} /\ b.got = NoText /\ pc'[r] = "sent"
        BY <1>4, <1>5, <3>1, <3>2, <4>1
      <4>3. Closing(r)'
        BY <1>5, <1>9, <3>3, <3>5, <4>1, <4>2 DEF Closing, Shown
      <4> QED  BY <1>5, <1>9, <3>1, <3>4, <4>2, <4>3 DEF Answering
    <3> QED  BY <2>4, <3>6, <3>7 DEF Answering
  <2>5. browser[r].got = NoText
    BY <2>1, <2>3 DEF LateOK, Answering
  <2> QED  BY <1>9, <2>1, <2>2, <2>3, <2>4, <2>5 DEF LateOK
<1>13. RequestOK(r)' /\ browser[r].got = NoText
  <2>1. pc[r] \in Middle \/ pc[r] \in Late
    BY <1>1, <1>10 DEF Stages, Early, Middle, Late
  <2>2. CASE pc[r] \in Middle
    BY <1>1, <1>8, <1>9, <1>11, <2>2 DEF RequestOK, Early, Middle, Late
  <2>3. CASE pc[r] \in Late
    BY <1>1, <1>8, <1>9, <1>12, <2>3 DEF RequestOK, Early, Middle, Late
  <2> QED  BY <2>1, <2>2, <2>3
<1> QED  BY <1>6, <1>7, <1>9, <1>13, RequestStep

LEMMA DropStep ==
  ASSUME IInv, NEW r \in Requests, Drop(r)
  PROVE  IInv'
<1>1. TurnTypeOK /\ RequestOK(r) /\ FramesOK(r) /\ pc[r] \in Stages
  BY DEF IInv, RequestOK, TurnTypeOK
<1>2. /\ sending' = [sending EXCEPT ![r] = NoEnvelope] /\ sending[r] # NoEnvelope
      /\ ~Allowed(r, sending[r]) /\ sending[r].draft
      /\ UNCHANGED <<database, pc, memo, emitter, tasks, queue, browser, bounds>>
  BY DEF Drop
<1>3. generation' = generation /\ emitter' = emitter /\ memo' = memo /\ reply' = reply
      /\ holder' = holder /\ authority' = authority /\ source' = source /\ pending' = pending
      /\ receipt' = receipt /\ delivered' = delivered /\ queue' = queue /\ browser' = browser
      /\ pc' = pc /\ sending'[r] = NoEnvelope
  BY <1>1, <1>2 DEF database, tasks, TurnTypeOK
<1>4. TurnTypeOK'
  <2>1. sending' \in [Requests -> Envelope]
    BY <1>1, <1>2, NoEnvelopeFacts DEF TurnTypeOK
  <2> QED  BY <1>1, <1>2, <2>1 DEF TurnTypeOK, database, tasks, bounds
<1>5. \A q \in Requests \ {r} : Same(q)
  BY <1>1, <1>2 DEF Same, TurnTypeOK, tasks
<1>6. FramesOK(r)'
  <2>1. FrameOK(sending[r])'
    BY <1>3, NoEnvelopeFacts
  <2>2. \A i \in 1..Len(queue[r]) : FrameOK(queue[r][i])'
    BY <1>1, <1>3 DEF FramesOK, FrameOK, AnswerOK
  <2> QED  BY <1>3, <2>1, <2>2 DEF FramesOK
<1>7. pc[r] \notin Early
  BY <1>1, <1>2 DEF RequestOK, EarlyOK
<1>8. ASSUME pc[r] \in Middle PROVE MiddleOK(r)'
  <2>1. MiddleOK(r) /\ StreamOK(r)
    BY <1>1, <1>8 DEF RequestOK, MiddleOK
  <2>2. ASSUME NEW f PROVE DraftFrameOK(r, f)' = DraftFrameOK(r, f) /\ IsCurrent(r, f)' = IsCurrent(r, f)
    BY <1>3 DEF DraftFrameOK, IsCurrent, On, Draft
  <2>3. DraftFrameOK(r, sending[r])' /\ sending'[r].kind # "revision" /\ ~IsCurrent(r, sending[r])'
    <3>1. emitter[r].revision \in Nat
      BY <1>1 DEF TurnTypeOK, Emitter
    <3>2. DraftFrameOK(r, NoEnvelope) /\ ~IsCurrent(r, NoEnvelope)
      BY <3>1, NoEnvelopeFacts DEF DraftFrameOK, IsCurrent
    <3>3. PICK f : f = NoEnvelope
      OBVIOUS
    <3>4. DraftFrameOK(r, f)' /\ ~IsCurrent(r, f)'
      BY <2>2, <3>2, <3>3
    <3> QED  BY <1>3, <3>3, <3>4, NoEnvelopeFacts
  <2>4. ASSUME NEW i \in 1..Len(queue[r])
        PROVE  DraftFrameOK(r, queue[r][i])' /\ IsCurrent(r, queue[r][i])' = IsCurrent(r, queue[r][i])
    <3>1. PICK f : f = queue[r][i]
      OBVIOUS
    <3>2. DraftFrameOK(r, f)' /\ IsCurrent(r, f)' = IsCurrent(r, f)
      BY <2>1, <2>2, <2>4, <3>1 DEF StreamOK
    <3> QED  BY <1>3, <3>1, <3>2
  <2>5. RevisionFirst(r)'
    <3>1. ASSUME NEW j \in 1..Len(queue[r]), NEW i \in 1..j PROVE i \in 1..Len(queue[r])
      OBVIOUS
    <3> QED  BY <1>3, <2>1, <2>4, <3>1 DEF StreamOK, RevisionFirst
  <2>6. PageOK(r)'
    BY <1>3, <2>1 DEF StreamOK, PageOK, On, Draft
  <2>7. StreamOK(r)'
    BY <1>3, <2>3, <2>4, <2>5, <2>6 DEF StreamOK
  <2>8. DraftArrives(r)'
    <3> SUFFICES ASSUME Admitted(r), generation[r].wrote, Current(r, generation[r].under)
                 PROVE  \/ Draft(r) \in browser[r].shown
                        \/ \E i \in 1..Len(queue[r]) : IsCurrent(r, queue[r][i])'
      BY <1>3 DEF DraftArrives, Admitted, Current, Draft
    <3>1. \/ Draft(r) \in browser[r].shown
          \/ IsCurrent(r, sending[r])
          \/ \E i \in 1..Len(queue[r]) : IsCurrent(r, queue[r][i])
      BY <2>1 DEF MiddleOK, DraftArrives
    <3>2. ASSUME IsCurrent(r, sending[r]) PROVE FALSE
      <4>1. sending[r].fence = generation[r].under /\ generation[r].draft
        BY <1>2, <2>1, <3>2 DEF StreamOK, DraftFrameOK
      <4>2. DraftGuard(r, generation[r].under)
        BY <2>1, <4>1 DEF MiddleOK, DraftAllowed
      <4>3. Allowed(r, sending[r])
        BY <1>2, <4>1, <4>2 DEF Allowed, Guard
      <4> QED  BY <1>2, <4>3
    <3> QED  BY <2>4, <3>1, <3>2
  <2>9. DraftAllowed(r)'
    BY <1>3, <2>1 DEF MiddleOK, DraftAllowed, Admitted, DraftGuard, Current, Newest
  <2> QED  BY <1>3, <2>1, <2>7, <2>8, <2>9 DEF MiddleOK, On
<1>9. ASSUME pc[r] \in Late PROVE LateOK(r)'
  <2>1. LateOK(r) /\ ~Answered(r)
    BY <1>1, <1>2, <1>9 DEF RequestOK, Answered
  <2>2. ~Answering(r)
    <3>1. ~TheText(r).draft /\ ~TheResult(r).draft
      BY DEF TheText, TheResult, AnswerFrame
    <3> QED  BY <1>2, <3>1 DEF Answering, Showing, Closing
  <2>3. Unanswered(r)
    BY <2>1, <2>2 DEF LateOK
  <2> QED  BY <1>3, <2>1, <2>3, NoEnvelopeFacts DEF LateOK, Unanswered, NoResults
<1>10. RequestOK(r)'
  <2>1. pc[r] \in Middle \/ pc[r] \in Late
    BY <1>1, <1>7 DEF Stages, Early, Middle, Late
  <2> QED  BY <1>1, <1>3, <1>6, <1>7, <1>8, <1>9, <2>1 DEF RequestOK
<1> QED  BY <1>3, <1>4, <1>5, <1>10, RequestStep


LEMMA EmptyFacts ==
  NoMemo \in Memo /\ NoEmitter \in Emitter /\ NoEmitter.fence = 0
<1> DEFINE no == FALSE
<1>1. no \in BOOLEAN /\ NoEmitter = [fence |-> 0, revision |-> 0, draft |-> no]
      /\ NoMemo = [found |-> no, answer |-> NoText, version |-> 0, revisable |-> no,
                   unreviewed |-> no]
  BY DEF NoEmitter, NoMemo
<1> HIDE DEF no
<1>2. NoMemo \in Memo
  BY <1>1, TextFacts DEF Memo
<1>3. NoEmitter \in Emitter /\ NoEmitter.fence = 0
  BY <1>1 DEF Emitter
<1> QED  BY <1>2, <1>3

\* The request stops: what it had queued is gone.
LEMMA StopStep ==
  ASSUME IInv, NEW r \in Requests,
         NEW stage \in {"release", "dead"}, pc' = [pc EXCEPT ![r] = stage],
         generation' = [generation EXCEPT ![r] = NoGeneration],
         reviewing' = [reviewing EXCEPT ![r] = NoReview],
         queue' = [queue EXCEPT ![r] = <<>>], sending' = [sending EXCEPT ![r] = NoEnvelope],
         browser' = [browser EXCEPT ![r] = Failed(browser[r])],
         \/ UNCHANGED <<memo, emitter>>
         \/ memo' = [memo EXCEPT ![r] = NoMemo] /\ emitter' = [emitter EXCEPT ![r] = NoEmitter],
         UNCHANGED <<database, changes>>, faults' \in 0..MaxFaults
  PROVE  IInv'
<1>1. TurnTypeOK /\ RequestOK(r) /\ pc[r] \in Stages /\ browser[r] \in Browser
  BY DEF IInv, TurnTypeOK
<1>2. /\ pc'[r] = stage /\ generation'[r] = NoGeneration /\ queue'[r] = <<>>
      /\ sending'[r] = NoEnvelope /\ browser'[r] = Failed(browser[r])
  BY <1>1 DEF TurnTypeOK
<1>3. /\ browser'[r] \in Browser /\ browser'[r].got = browser[r].got
      /\ (browser[r].got # NoText => browser'[r] = browser[r])
  BY <1>1, <1>2, FailedFacts
<1>4. NoMemo \in Memo /\ NoEmitter \in Emitter /\ NoEmitter.fence = 0
  BY EmptyFacts
<1>5. TurnTypeOK'
  <2>1. memo' \in [Requests -> Memo] /\ emitter' \in [Requests -> Emitter]
    BY <1>1, <1>4 DEF TurnTypeOK
  <2>2. generation' \in [Requests -> Generation] /\ reviewing' \in [Requests -> Review]
    BY <1>1, OffFacts, ReviewTypes DEF TurnTypeOK
  <2>3. <<>> \in Seq(Envelope)
    OBVIOUS
  <2>4. queue' \in [Requests -> Seq(Envelope)] /\ sending' \in [Requests -> Envelope]
    BY <1>1, <2>3, NoEnvelopeFacts DEF TurnTypeOK
  <2>5. browser' \in [Requests -> Browser] /\ pc' \in [Requests -> Stages]
    BY <1>1, <1>2, <1>3 DEF TurnTypeOK, Stages
  <2> QED  BY <1>1, <2>1, <2>2, <2>4, <2>5 DEF TurnTypeOK, database
<1>6. \A q \in Requests \ {r} : Same(q)
  BY <1>1 DEF Same, TurnTypeOK
<1>7. FramesOK(r)'
  <2>1. FrameOK(sending[r])'
    BY <1>2, NoEnvelopeFacts
  <2>2. Len(queue'[r]) = 0
    BY <1>2
  <2> QED  BY <2>1, <2>2 DEF FramesOK
<1>8. \/ browser[r].got = NoText
      \/ browser[r].got = Rebuild
      \/ reply # NoReply /\ browser[r].got = reply.text /\ browser[r].shown = Shown(r)
  <2>1. CASE pc[r] \in Early
    BY <1>1, <2>1 DEF RequestOK, EarlyOK
  <2>2. CASE pc[r] \in Middle
    BY <1>1, <2>2 DEF RequestOK, MiddleOK, StreamOK, PageOK
  <2>3. CASE pc[r] \in Late
    BY <1>1, <2>3 DEF RequestOK, LateOK, Unanswered, Answering, Answered
  <2> QED  BY <1>1, <2>1, <2>2, <2>3 DEF Stages, Early, Middle, Late
<1>9. LateOK(r)'
  <2>1. CASE browser[r].got = NoText
    <3>1. NoResults(r)'
      BY <1>2, NoEnvelopeFacts DEF NoResults
    <3> QED  BY <1>2, <1>3, <2>1, <3>1 DEF LateOK, Unanswered
  <2>2. CASE browser[r].got # NoText
    <3>1. reply' = reply /\ Shown(r)' = Shown(r)
      BY DEF Shown, database
    <3>2. browser'[r] = browser[r]
      BY <1>3, <2>2
    <3> QED  BY <1>2, <1>8, <2>2, <3>1, <3>2 DEF LateOK, Answered
  <2> QED  BY <2>1, <2>2
<1>10. emitter'[r].fence <= authority
  <2>1. authority \in Nat /\ emitter[r].fence <= authority
    BY <1>1 DEF TurnTypeOK, RequestOK
  <2> QED  BY <1>1, <1>4, <2>1 DEF TurnTypeOK
<1>11. RequestOK(r)'
  BY <1>2, <1>7, <1>9, <1>10 DEF RequestOK, Early, Middle, database
<1> QED  BY <1>3, <1>5, <1>6, <1>11, RequestStep DEF database

LEMMA StopSteps ==
  ASSUME IInv, NEW r \in Requests, Break(r) \/ Disconnect(r) \/ Crash(r)
  PROVE  IInv'
<1>1. faults' \in 0..MaxFaults
  BY BoundsAssumption DEF IInv, TurnTypeOK, Break, Disconnect, Crash
<1>2. CASE Break(r) \/ Disconnect(r)
  <2>1. Aborted(r)
    BY <1>2 DEF Break, Disconnect
  <2> QED  BY <1>1, <2>1, StopStep DEF Aborted, Goto
<1>3. CASE Crash(r)
  BY <1>1, <1>3, StopStep DEF Crash, Goto
<1> QED  BY <1>2, <1>3

LEMMA RecordDeliveryStep ==
  ASSUME IInv, NEW r \in Requests, RecordDelivery(r)
  PROVE  IInv'
<1>1. TurnTypeOK /\ DatabaseOK /\ RequestOK(r) /\ pc[r] = "ending"
  BY DEF IInv, RecordDelivery
<1>2. /\ pc' = [pc EXCEPT ![r] = "release"] /\ pc'[r] = "release"
      /\ UNCHANGED <<holder, authority, source, pending, receipt, reply, memo, emitter, tasks,
                     stream, bounds>>
      /\ delivered' \in BOOLEAN /\ (delivered' => delivered \/ memo[r].answer # Rebuild)
  BY <1>1 DEF RecordDelivery, Goto, TurnTypeOK
<1>3. Answered(r) /\ generation[r] = NoGeneration
  BY <1>1 DEF RequestOK, Late, LateOK, Unanswered, Answering
<1>4. DatabaseOK'
  <2>1. reply' = reply /\ browser' = browser
    BY <1>2 DEF stream
  <2>2. delivered' => reply # NoReply /\ \E q \in Requests : browser[q].got = reply.text
    BY <1>1, <1>2, <1>3 DEF DatabaseOK, Answered
  <2> QED  BY <1>1, <1>2, <2>1, <2>2 DEF DatabaseOK
<1>5. TurnTypeOK'
  <2>1. pc' \in [Requests -> Stages]
    BY <1>1, <1>2 DEF TurnTypeOK, Stages
  <2> QED  BY <1>1, <1>2, <2>1 DEF TurnTypeOK, tasks, stream, bounds
<1>6. \A q \in Requests \ {r} : Same(q) /\ Undisturbed(q)
  <2>1. ASSUME NEW q \in Requests \ {r} PROVE Same(q)
    BY <1>1, <1>2 DEF Same, TurnTypeOK, tasks, stream
  <2>2. ASSUME NEW q \in Requests \ {r} PROVE Undisturbed(q)
    BY <1>2, NoDisturbance
  <2> QED  BY <2>1, <2>2
<1>7. RequestOK(r)'
  <2>1. FramesOK(r)'
    BY <1>1, <1>2, SameFrames DEF RequestOK, stream
  <2>2. Shown(r)' = Shown(r)
    BY <1>2 DEF Shown
  <2>3. LateOK(r)'
    BY <1>2, <1>3, <2>2 DEF LateOK, Answered, tasks, stream
  <2> QED  BY <1>1, <1>2, <2>1, <2>3 DEF RequestOK, Early, Middle
<1>8. Grows(r)
  BY <1>1, <1>2 DEF Grows, TurnTypeOK
<1> QED  BY <1>4, <1>5, <1>6, <1>7, <1>8, Assemble

LEMMA ReleaseStep ==
  ASSUME IInv, NEW r \in Requests, Release(r)
  PROVE  IInv'
<1>1. TurnTypeOK /\ RequestOK(r) /\ pc[r] = "release"
  BY DEF IInv, Release
<1>2. /\ pc' = [pc EXCEPT ![r] = "over"] /\ pc'[r] = "over"
      /\ memo' = [memo EXCEPT ![r] = NoMemo] /\ emitter' = [emitter EXCEPT ![r] = NoEmitter]
      /\ emitter'[r] = NoEmitter
      /\ UNCHANGED <<authority, source, pending, receipt, reply, delivered, tasks, stream, bounds>>
      /\ holder' \in {holder, NoRequest}
  BY <1>1 DEF Release, Goto, Released, TurnTypeOK
<1>3. NoMemo \in Memo /\ NoEmitter \in Emitter /\ NoEmitter.fence = 0
  BY EmptyFacts
<1>4. TurnTypeOK'
  <2>1. pc' \in [Requests -> Stages]
    BY <1>1, <1>2 DEF TurnTypeOK, Stages
  <2>2. memo' \in [Requests -> Memo] /\ emitter' \in [Requests -> Emitter]
    BY <1>1, <1>2, <1>3 DEF TurnTypeOK
  <2> QED  BY <1>1, <1>2, <2>1, <2>2 DEF TurnTypeOK, tasks, stream, bounds
<1>5. \A q \in Requests \ {r} : Same(q)
  BY <1>1, <1>2 DEF Same, TurnTypeOK, tasks, stream
<1>6. LateOK(r)'
  <2>1. LateOK(r) /\ ~Answering(r)
    BY <1>1 DEF RequestOK, Late, Answering
  <2>2. Shown(r)' = Shown(r)
    BY <1>2 DEF Shown
  <2> QED  BY <1>1, <1>2, <2>1, <2>2 DEF LateOK, Unanswered, Answered, NoResults, tasks, stream
<1>7. FramesOK(r)'
  BY <1>1, <1>2, SameFrames DEF RequestOK, stream
<1>8. RequestOK(r)'
  <2>1. authority \in Nat
    BY <1>1 DEF TurnTypeOK
  <2> QED  BY <1>2, <1>3, <1>6, <1>7, <2>1 DEF RequestOK, Early, Middle
<1> QED  BY <1>2, <1>4, <1>5, <1>8, RequestStep DEF stream

-----------------------------------------------------------------------------
(* The invariant.                                                          *)

LEMMA InitIInv ==
  ASSUME Init
  PROVE  IInv
<1>1. NoGeneration \in Generation /\ NoReview \in Review /\ NoMemo \in Memo /\ NoEmitter \in Emitter
      /\ NoEnvelope \in Envelope /\ NoEmitter.fence = 0
  BY OffFacts, ReviewTypes, EmptyFacts, NoEnvelopeFacts
<1> DEFINE page == [revision |-> 0, shown |-> {}, got |-> NoText]
           no == FALSE
<1>2. page \in Browser
  BY TextFacts DEF Browser
<1>3. source \in Source
  <2>1. source = [status |-> "none", version |-> 0, latest |-> no] /\ no \in BOOLEAN
    BY DEF Init
  <2> HIDE DEF no
  <2> QED  BY <2>1 DEF Source
<1>4. reply \in Reply
  BY TextFacts DEF Init, NoReply, Reply
<1>5. TurnTypeOK
  <2>1. \A r \in Requests : <<>> \in Seq(Envelope)
    OBVIOUS
  <2>2. pc \in [Requests -> Stages] /\ memo \in [Requests -> Memo] /\ emitter \in [Requests -> Emitter]
        /\ generation \in [Requests -> Generation] /\ reviewing \in [Requests -> Review]
        /\ sending \in [Requests -> Envelope]
    BY <1>1 DEF Init, Stages
  <2>3. queue \in [Requests -> Seq(Envelope)]
    BY <2>1 DEF Init
  <2>4. browser \in [Requests -> Browser]
    BY <1>2 DEF Init
  <2>5. changes \in 0..MaxChanges /\ faults \in 0..MaxFaults /\ authority \in Nat \ {0}
    BY BoundsAssumption DEF Init
  <2>6. holder \in Requests \cup {NoRequest} /\ pending \subseteq {"this", "other"}
        /\ receipt \in {"none", "clear", "restricted"}
    BY DEF Init
  <2>7. delivered \in BOOLEAN
    BY DEF Init
  <2> QED  BY <1>3, <1>4, <2>2, <2>3, <2>4, <2>5, <2>6, <2>7 DEF TurnTypeOK
<1>6. DatabaseOK
  BY DEF Init, DatabaseOK
<1>7. ASSUME NEW r \in Requests PROVE RequestOK(r)
  <2>1. /\ pc[r] = "new" /\ memo[r] = NoMemo /\ emitter[r] = NoEmitter /\ generation[r] = NoGeneration
        /\ queue[r] = <<>> /\ sending[r] = NoEnvelope /\ browser[r] = page
        /\ reply = NoReply /\ authority = 1
    BY DEF Init
  <2>2. NoMemo.answer = NoText /\ NoEmitter.revision = 0 /\ reply.text.by # r
    BY <2>1, RequestFacts DEF NoMemo, NoEmitter, NoReply, NoText
  <2>3. EarlyOK(r)
    BY <2>1, <2>2 DEF EarlyOK
  <2>4. FramesOK(r)
    <3>1. Len(queue[r]) = 0
      BY <2>1
    <3> QED  BY <2>1, <3>1, NoEnvelopeFacts DEF FramesOK
  <2> QED  BY <1>1, <2>1, <2>3, <2>4 DEF RequestOK, Middle, Late
<1> QED  BY <1>5, <1>6, <1>7 DEF IInv

LEMMA NextIInv ==
  ASSUME IInv, [Next]_vars
  PROVE  IInv'
<1>1. CASE UNCHANGED vars
  <2>1. UNCHANGED <<holder, authority, source, pending, receipt, reply, delivered, pc, memo, emitter,
                    generation, reviewing, queue, sending, browser, changes, faults>>
    BY <1>1 DEF vars, database, tasks, stream, bounds
  <2>2. TurnTypeOK'
    BY <2>1 DEF IInv, TurnTypeOK
  <2>3. DatabaseOK'
    BY <2>1, DatabaseStays DEF IInv
  <2>4. \A q \in Requests : Same(q)
    BY <2>1 DEF Same
  <2>5. \A q \in Requests : Undisturbed(q)
    BY <2>1, NoDisturbance
  <2>6. authority <= authority'
    BY <2>1 DEF IInv, TurnTypeOK
  <2> QED  BY <2>1, <2>2, <2>3, <2>4, <2>5, <2>6, OutsideStep
<1>2. ASSUME NEW r \in Requests, Producer(r) \/ CommitLost(r)
      PROVE  IInv'
  BY <1>2, LookStep, StatusStep, ClearedStep, AcceptStep, ReviewedStep, PrepareStep, StartStep,
     RetractStep, CompleteStep, GiveUpStep, CommitStep, ReplayStep, CommitLostStep DEF Producer
<1>3. ASSUME NEW r \in Requests, Background(r) \/ ReviewFails(r) \/ ModelFails(r)
      PROVE  IInv'
  BY <1>3, ReviewTaskStep, StateStep, WriteStep, RestartStep DEF Background
<1>4. ASSUME NEW r \in Requests, Response(r) \/ Disconnect(r) \/ Crash(r)
      PROVE  IInv'
  BY <1>4, TakeStep, SendStep, DropStep, StopSteps, RecordDeliveryStep, ReleaseStep DEF Response
<1>5. ASSUME NEW r \in Requests, Open(r)
      PROVE  IInv'
  BY <1>5, OpenStep
<1> QED  BY <1>1, <1>2, <1>3, <1>4, <1>5, LapseStep, OwnerStep DEF Next


\* The invariant holds of every state that a run of the turn's attempts can
\* reach, whatever their interleaving with the owner's changes and the faults.
THEOREM Invariance == Spec => []IInv
<1>1. Init => IInv
  BY InitIInv
<1>2. IInv /\ [Next]_vars => IInv'
  BY NextIInv
<1> QED  BY <1>1, <1>2, PTL DEF Spec

-----------------------------------------------------------------------------
(* The reviewed acknowledgement.                                           *)

\* The frames on their way.
Frames(r) == {sending[r]} \cup {queue[r][i] : i \in 1..Len(queue[r])}
Silent(r) == \A e \in Frames(r) : e.kind # "opening"

\* As long as this version of the source is the last, its review was clear.
Backed(version) ==
  version <= source.version /\ (version # 0 /\ version = source.version => receipt = "clear")

ReceiptOK ==
  /\ "this" \in pending => receipt = "none" /\ source.status = "active"
  /\ source.status = "none" => receipt = "none" /\ source.version = 0
  /\ acknowledged => receipt = "clear"

\* A review that may still be saved is of a source that is still pending.
AskedOK(r) ==
  reviewing[r].state # "off" =>
    /\ pc[r] # "new"
    /\ reviewing[r].state = "asked" =>
         /\ reviewing[r].fence <= authority
         /\ Current(r, reviewing[r].fence) =>
              /\ reviewing[r].of \in pending
              /\ reviewing[r].of = "this" => reviewing[r].version = source.version

ReadOK(r) == Backed(ack[r].read) /\ Backed(ack[r].said)

\* An opening on its way.
OpeningOK(r, e) ==
  /\ pc[r] \in {"await", "commit", "sent"}
  /\ e.fence = emitter[r].fence /\ e.revision = emitter[r].revision /\ ~e.draft

Saying(r) ==
  /\ ~memo[r].revisable
  /\ pc[r] \in {"await", "commit"} \cup Late
  /\ \A e \in Frames(r) : e.kind = "opening" => OpeningOK(r, e)
  /\ pc[r] \in {"await", "commit"} => ack[r].shown \/ ~Silent(r)
  /\ pc[r] \in {"await", "commit"} \/ ~Silent(r) => (emitter[r].fence = authority => topics)
  /\ Admitted(r) => ack[r].shown
  /\ pc[r] \in {"await", "commit", "sent"} => ack[r].said = memo[r].version
  /\ reply.text.by = r => ack[r].shown
  /\ reply.text.by # r => browser[r].got = NoText /\ NoResults(r)

\* After an error nothing more is sent.
ErrorLast(r) ==
  pc[r] \in Late => \A i \in 1..Len(queue[r]) : queue[r][i].kind = "error" => i = Len(queue[r])

SaidOK(r) ==
  /\ memo[r].unreviewed => memo[r].revisable
  /\ ErrorLast(r)
  /\ IF ack[r].said = 0 THEN ~ack[r].shown /\ Silent(r) ELSE Saying(r)

OInv == OpeningTypeOK /\ ReceiptOK /\ \A r \in Requests : ReadOK(r) /\ AskedOK(r) /\ SaidOK(r)

-----------------------------------------------------------------------------
(* What a step does to the rest.                                           *)

Step(r) ==
  \/ Open(r) \/ Producer(r) \/ Background(r) \/ Response(r)
  \/ CommitLost(r) \/ ReviewFails(r) \/ ModelFails(r) \/ Disconnect(r) \/ Crash(r)

\* Nothing of request q changes but what is read of the database.
Untouched(q) == Same(q) /\ ack'[q] = ack[q] /\ reviewing'[q] = reviewing[q]

LEMMA OthersUntouched ==
  ASSUME TurnTypeOK, OpeningTypeOK, NEW r \in Requests, Step(r)
  PROVE  \A q \in Requests \ {r} : Untouched(q)
<1> USE DEF TurnTypeOK, OpeningTypeOK, Untouched, Same, Goto, tasks, stream, openings
<1>1. ASSUME Fails(r) PROVE \A q \in Requests \ {r} : Untouched(q)
  BY <1>1 DEF Fails
<1>2. CASE Open(r) \/ Look(r) \/ Status(r) \/ Cleared(r) \/ Accept(r) \/ Reviewed(r) \/ Prepare(r)
  BY <1>1, <1>2 DEF Open, Look, Status, Cleared, Accept, Reviewed, Prepare, ReadsKept
<1>3. CASE Start(r) \/ Retract(r) \/ Complete(r) \/ GiveUp(r)
  BY <1>1, <1>3 DEF Start, Say, Retract, BeginRevision, Complete, GiveUp
<1>4. CASE Commit(r) \/ CommitLost(r) \/ CommitFails(r) \/ Replay(r)
  BY <1>1, <1>4 DEF Commit, CommitLost, CommitFails, Replay, Save
<1>5. CASE Background(r) \/ ReviewFails(r) \/ ModelFails(r)
  BY <1>5 DEF Background, ReviewReads, ReviewEnds, ReviewFails, Acknowledge, ModelFails, Admit, Write, Restart,
     BeginRevision, Finish
<1>6. CASE Response(r)
  BY <1>6 DEF Response, Take, Send, Drop, Break, Aborted, RecordDelivery, Release
<1>7. CASE Disconnect(r) \/ Crash(r)
  BY <1>7 DEF Disconnect, Aborted, Crash
<1> QED  BY <1>2, <1>3, <1>4, <1>5, <1>6, <1>7 DEF Step, Producer

LEMMA AllUntouched ==
  ASSUME Lapse \/ Edit \/ Withdraw \/ EditOther \/ Prefer
  PROVE  \A q \in Requests : Untouched(q)
BY DEF Lapse, Edit, Withdraw, EditOther, Prefer, Changes, Untouched, Same, tasks, stream, openings

\* What the database does.
Moves ==
  /\ authority <= authority' /\ (topics' = topics \/ authority < authority')
  /\ source.version <= source'.version
  /\ source'.version = source.version /\ receipt = "clear" => receipt' = "clear"

LEMMA NothingMoves ==
  ASSUME TurnTypeOK, ReceiptOK, UNCHANGED <<authority, source, pending, receipt, topics, acknowledged>>
  PROVE  Moves /\ ReceiptOK'
BY DEF TurnTypeOK, Source, Moves, ReceiptOK

LEMMA ReviewMoves ==
  ASSUME TurnTypeOK, OpeningTypeOK, ReceiptOK, NEW r \in Requests, AskedOK(r), reviewing[r].state = "asked",
         NEW decision \in {"clear", "restricted"}, NEW written \in BOOLEAN,
         CompleteReview(r, decision), Acknowledge(r, decision, written)
  PROVE  Moves /\ ReceiptOK' /\ reviewing[r].of \in pending
         /\ (written /\ reviewing[r].of = "this" =>
               reviewing[r].version = source'.version /\ receipt' = "clear")
<1>1. reviewing[r].of \in pending /\ (reviewing[r].of = "this" => reviewing[r].version = source.version)
  BY DEF AskedOK, CompleteReview
<1>2. source \in Source /\ authority \in Nat /\ source' = source
  BY DEF TurnTypeOK, CompleteReview
<1>3. authority' = authority + (IF decision = "restricted" THEN 1 ELSE 0)
  BY DEF CompleteReview
<1>4. Moves
  <2>1. authority <= authority' /\ (topics' = topics \/ authority < authority')
    <3>1. CASE decision = "clear"
      <4>1. authority' = authority
        BY <1>2, <1>3, <3>1
      <4>2. topics' = (topics /\ decision = "clear") /\ topics \in BOOLEAN
        BY DEF Acknowledge, OpeningTypeOK
      <4> QED  BY <1>2, <3>1, <4>1, <4>2
    <3>2. CASE decision = "restricted"
      BY <1>2, <1>3, <3>2
    <3> QED  BY <3>1, <3>2
  <2>2. source'.version = source.version /\ source.version \in Nat
    BY <1>2 DEF Source
  <2>3. receipt = "clear" => receipt' = "clear"
    BY <1>1 DEF ReceiptOK, CompleteReview
  <2> QED  BY <2>1, <2>2, <2>3 DEF Moves
<1> QED  BY <1>1, <1>2, <1>4 DEF ReceiptOK, CompleteReview, Acknowledge

LEMMA DatabaseMoves ==
  ASSUME IInv, OInv, Next
  PROVE  Moves /\ ReceiptOK'
<1>1. TurnTypeOK /\ ReceiptOK /\ source \in Source /\ source.version \in Nat /\ authority \in Nat
  BY DEF IInv, OInv, TurnTypeOK, Source
<1> USE DEF database, openings
<1>2. ASSUME NEW r \in Requests, Fails(r) PROVE Moves /\ ReceiptOK'
  BY <1>1, <1>2, NothingMoves DEF Fails
<1>3. ASSUME NEW r \in Requests, Accept(r) PROVE Moves /\ ReceiptOK'
  BY <1>1, <1>3 DEF Accept, Moves, ReceiptOK
<1>4. ASSUME NEW r \in Requests,
             Open(r) \/ Look(r) \/ Status(r) \/ Cleared(r) \/ Reviewed(r) \/ Prepare(r) \/ Start(r)
      PROVE  Moves /\ ReceiptOK'
  BY <1>1, <1>2, <1>4, NothingMoves DEF Open, Look, Status, Cleared, Reviewed, Prepare, Start, Say, ReadsKept
<1>5. ASSUME NEW r \in Requests,
             Retract(r) \/ Complete(r) \/ GiveUp(r) \/ CommitFails(r) \/ Replay(r)
      PROVE  Moves /\ ReceiptOK'
  BY <1>1, <1>2, <1>5, NothingMoves DEF Retract, Complete, GiveUp, CommitFails, Replay
<1>6. ASSUME NEW r \in Requests, NEW same, NEW next \in {authority, authority + 1}, Save(r, same, next)
      PROVE  Moves /\ ReceiptOK'
  BY <1>1, <1>6 DEF Save, Moves, ReceiptOK
<1>7. ASSUME NEW r \in Requests, Commit(r) \/ CommitLost(r) PROVE Moves /\ ReceiptOK'
  BY <1>6, <1>7 DEF Commit, CommitLost
<1>8. ASSUME NEW r \in Requests, ReviewEnds(r) \/ ReviewFails(r) PROVE Moves /\ ReceiptOK'
  BY <1>1, <1>8, NothingMoves, ReviewMoves DEF ReviewEnds, ReviewFails, OInv
<1>9. ASSUME NEW r \in Requests,
             ReviewReads(r) \/ Admit(r) \/ Write(r) \/ Restart(r) \/ Finish(r) \/ ModelFails(r)
      PROVE  Moves /\ ReceiptOK'
  BY <1>1, <1>9, NothingMoves DEF ReviewReads, Admit, Write, Restart, Finish, ModelFails
<1>10. ASSUME NEW r \in Requests, Response(r) \/ Disconnect(r) \/ Crash(r) PROVE Moves /\ ReceiptOK'
  BY <1>1, <1>10, NothingMoves DEF Response, Take, Send, Drop, Break, Aborted, RecordDelivery, Release,
     Disconnect, Crash
<1>11. ASSUME Lapse PROVE Moves /\ ReceiptOK'
  BY <1>1, <1>11, NothingMoves DEF Lapse
<1>12. ASSUME Edit \/ Withdraw PROVE Moves /\ ReceiptOK'
  <2>1. source.status = "active" /\ receipt' = "none" /\ acknowledged' = FALSE /\ authority' = authority + 1
    BY <1>12 DEF Edit, Withdraw, Changes
  <2>2. source'.version = source.version + 1 /\ source'.status \in {"active", "withdrawn"}
        /\ ("this" \in pending' => source'.status = "active")
    <3> DEFINE next == source.version + 1
               yes == TRUE
    <3>1. next \in Nat /\ yes \in BOOLEAN
      BY <1>1
    <3>2. \/ Edit /\ source' = [source EXCEPT !.version = next, !.latest = yes]
          \/ Withdraw /\ source' = [status |-> "withdrawn", version |-> next, latest |-> yes]
      BY <1>12 DEF Edit, Withdraw
    <3>3. Withdraw => "this" \notin pending'
      BY DEF Withdraw
    <3> HIDE DEF next, yes
    <3>4. CASE Edit /\ source' = [source EXCEPT !.version = next, !.latest = yes]
      <4>1. source'.version = next /\ source'.status = "active"
        BY <1>1, <2>1, <3>1, <3>4 DEF Source
      <4> QED  BY <4>1 DEF next
    <3>5. CASE Withdraw /\ source' = [status |-> "withdrawn", version |-> next, latest |-> yes]
      <4>1. source'.version = next /\ source'.status = "withdrawn"
        BY <3>5
      <4> QED  BY <3>3, <3>5, <4>1 DEF next
    <3> QED  BY <3>2, <3>4, <3>5
  <2> QED  BY <1>1, <2>1, <2>2 DEF Moves, ReceiptOK
<1>13. ASSUME EditOther \/ Prefer PROVE Moves /\ ReceiptOK'
  <2>1. source'.version = source.version /\ source'.status = source.status
    BY <1>1, <1>13 DEF EditOther, Prefer, Source
  <2> QED  BY <1>1, <1>13, <2>1 DEF EditOther, Prefer, Changes, Moves, ReceiptOK
<1> QED  BY <1>3, <1>4, <1>5, <1>7, <1>8, <1>9, <1>10, <1>11, <1>12, <1>13 DEF Next, Producer, Background
-----------------------------------------------------------------------------
(* What was read of the acknowledgement, and the reviews.                  *)

LEMMA BackedStays ==
  ASSUME source.version \in Nat, source'.version \in Nat, Moves, NEW v \in Nat, Backed(v)
  PROVE  Backed(v)'
BY DEF Moves, Backed

LEMMA KeptFacts ==
  ASSUME TurnTypeOK, ReceiptOK
  PROVE  Kept \in Nat /\ Backed(Kept)
BY DEF TurnTypeOK, Source, ReceiptOK, Kept, Backed

\* What a step of the request makes of its acknowledgement.
AckMoves(r) ==
  \/ ack'[r] = ack[r]
  \/ /\ ack'[r] = [ack[r] EXCEPT !.read = Kept] /\ pc[r] \in {"status", "clear"}
     /\ UNCHANGED <<source, receipt>>
  \/ \E said \in Openings(r) :
       ack'[r] = [NoAck EXCEPT !.said = said] /\ pc[r] = "start" /\ UNCHANGED <<source, receipt>>
  \/ \E version \in Nat :
       /\ ack'[r] = [ack[r] EXCEPT !.read = version] /\ pc[r] = "review"
       /\ version = 0 \/ (version = source'.version /\ receipt' = "clear")
  \/ /\ ack'[r] = [ack[r] EXCEPT !.shown = TRUE] /\ sending[r].kind = "opening" /\ Send(r)
     /\ UNCHANGED <<source, receipt>>

LEMMA AckStep ==
  ASSUME IInv, OInv, NEW r \in Requests, Step(r)
  PROVE  /\ AckMoves(r)
         /\ \E a : ack' = [ack EXCEPT ![r] = a]
         /\ acknowledged' \in BOOLEAN /\ topics' \in BOOLEAN
<1>1. TurnTypeOK /\ OpeningTypeOK /\ ReceiptOK /\ AskedOK(r) /\ ack \in [Requests -> Ack]
      /\ acknowledged \in BOOLEAN /\ topics \in BOOLEAN
  BY DEF IInv, OInv, OpeningTypeOK
<1> DEFINE G == /\ AckMoves(r)
                /\ \E a : ack' = [ack EXCEPT ![r] = a]
                /\ acknowledged' \in BOOLEAN /\ topics' \in BOOLEAN
<1>2. ASSUME ack' = ack, acknowledged' \in BOOLEAN, topics' \in BOOLEAN PROVE G
  <2>1. ack' = [ack EXCEPT ![r] = ack[r]]
    BY <1>1, <1>2
  <2> QED  BY <1>2, <2>1 DEF AckMoves
<1>3. ASSUME UNCHANGED openings PROVE G
  BY <1>1, <1>2, <1>3 DEF openings
<1>4. ASSUME NEW a, ack' = [ack EXCEPT ![r] = a] PROVE ack'[r] = a
  BY <1>1, <1>4
<1> SUFFICES G
  OBVIOUS
<1> HIDE DEF G
<1>5. CASE Fails(r)
  BY <1>3, <1>5 DEF Fails
<1>6. CASE Open(r) \/ Look(r) \/ Accept(r) \/ Reviewed(r) \/ Prepare(r)
  BY <1>3, <1>5, <1>6 DEF Open, Look, Accept, Reviewed, Prepare
<1>7. ASSUME pc[r] \in {"status", "clear"}, ReadsKept(r), UNCHANGED <<source, receipt>> PROVE G
  <2>1. PICK a : a = [ack[r] EXCEPT !.read = Kept]
    OBVIOUS
  <2>2. ack' = [ack EXCEPT ![r] = a] /\ acknowledged' = acknowledged /\ topics' = topics
    BY <1>7, <2>1 DEF ReadsKept
  <2>3. ack'[r] = [ack[r] EXCEPT !.read = Kept]
    BY <1>4, <2>1, <2>2
  <2> QED  BY <1>1, <1>7, <2>2, <2>3 DEF G, AckMoves
<1>8. CASE Status(r) \/ Cleared(r)
  BY <1>3, <1>5, <1>7, <1>8 DEF Status, Cleared, database
<1>9. CASE Start(r)
  <2>1. CASE Fails(r)
    BY <1>5, <2>1
  <2>2. ASSUME NEW said \in Openings(r), Say(r, said), UNCHANGED database PROVE G
    <3>1. PICK a : a = [NoAck EXCEPT !.said = said]
      OBVIOUS
    <3>2. ack' = [ack EXCEPT ![r] = a] /\ acknowledged' = acknowledged /\ topics' = topics
      BY <2>2, <3>1 DEF Say
    <3>3. ack'[r] = [NoAck EXCEPT !.said = said]
      BY <1>4, <3>1, <3>2
    <3> QED  BY <1>1, <1>9, <2>2, <3>2, <3>3 DEF G, AckMoves, Start, database
  <2> QED  BY <1>9, <2>1, <2>2 DEF Start
<1>10. CASE Retract(r) \/ Complete(r) \/ GiveUp(r) \/ CommitFails(r) \/ Replay(r)
  BY <1>3, <1>5, <1>10 DEF Retract, Complete, GiveUp, CommitFails, Replay
<1>11. CASE Commit(r) \/ CommitLost(r)
  <2>1. PICK same, next : Save(r, same, next)
    BY <1>11 DEF Commit, CommitLost
  <2>2. ack' = ack /\ acknowledged' = acknowledged /\ topics' \in BOOLEAN
    BY <1>1, <2>1 DEF Save
  <2> QED  BY <1>1, <1>2, <2>2
<1>12. ASSUME NEW decision \in {"clear", "restricted"}, NEW written \in BOOLEAN, reviewing[r].state = "asked",
              CompleteReview(r, decision), Acknowledge(r, decision, written)
       PROVE  /\ acknowledged' \in BOOLEAN /\ topics' \in BOOLEAN
              /\ written => /\ pc[r] = "review"
                            /\ reviewing[r].of = "this" =>
                                 reviewing[r].version = source'.version /\ receipt' = "clear"
  BY <1>1, <1>12, ReviewMoves DEF Acknowledge
<1>13. CASE ReviewEnds(r)
  <2>1. CASE UNCHANGED openings
    BY <1>3, <2>1
  <2>2. ASSUME NEW decision \in {"clear", "restricted"}, NEW written \in BOOLEAN, reviewing[r].state = "asked",
               CompleteReview(r, decision), Acknowledge(r, decision, written),
               ack' = IF ~written THEN ack
                      ELSE [ack EXCEPT ![r].read =
                              IF reviewing[r].of = "this" THEN reviewing[r].version ELSE 0]
        PROVE  G
    <3>1. acknowledged' \in BOOLEAN /\ topics' \in BOOLEAN
      BY <1>12, <2>2
    <3>2. CASE ~written
      BY <1>2, <2>2, <3>1, <3>2
    <3>3. CASE written
      <4>1. PICK version : version = IF reviewing[r].of = "this" THEN reviewing[r].version ELSE 0
        OBVIOUS
      <4>2. version \in Nat
        BY <1>1, <4>1 DEF TurnTypeOK, Review
      <4>3. pc[r] = "review" /\ (version = 0 \/ (version = source'.version /\ receipt' = "clear"))
        BY <1>12, <2>2, <3>3, <4>1
      <4>4. PICK a : a = [ack[r] EXCEPT !.read = version]
        OBVIOUS
      <4>5. ack' = [ack EXCEPT ![r] = a]
        BY <2>2, <3>3, <4>1, <4>4
      <4>6. ack'[r] = [ack[r] EXCEPT !.read = version]
        BY <1>4, <4>4, <4>5
      <4> QED  BY <3>1, <4>2, <4>3, <4>5, <4>6 DEF G, AckMoves
    <3> QED  BY <3>2, <3>3
  <2> QED  BY <1>13, <2>1, <2>2 DEF ReviewEnds
<1>14. CASE ReviewFails(r)
  <2>1. ack' = ack
    BY <1>14 DEF ReviewFails
  <2>2. acknowledged' \in BOOLEAN /\ topics' \in BOOLEAN
    BY <1>1, <1>12, <1>14 DEF ReviewFails
  <2> QED  BY <1>2, <2>1, <2>2
<1>15. CASE ReviewReads(r) \/ Admit(r) \/ Write(r) \/ Restart(r) \/ Finish(r) \/ ModelFails(r)
  BY <1>3, <1>15 DEF ReviewReads, Admit, Write, Restart, Finish, ModelFails
<1>16. CASE Send(r)
  <2>1. CASE sending[r].kind # "opening"
    BY <1>1, <1>2, <1>16, <2>1 DEF Send
  <2>2. CASE sending[r].kind = "opening"
    <3>1. PICK a : a = [ack[r] EXCEPT !.shown = TRUE]
      OBVIOUS
    <3>2. ack' = [ack EXCEPT ![r] = a] /\ acknowledged' = acknowledged /\ topics' = topics
      BY <1>16, <2>2, <3>1 DEF Send
    <3>3. ack'[r] = [ack[r] EXCEPT !.shown = TRUE]
      BY <1>4, <3>1, <3>2
    <3>4. UNCHANGED <<source, receipt>>
      BY <1>16 DEF Send, database
    <3> QED  BY <1>1, <1>16, <2>2, <3>2, <3>3, <3>4 DEF G, AckMoves
  <2> QED  BY <2>1, <2>2
<1>17. CASE Take(r) \/ Drop(r) \/ Break(r) \/ RecordDelivery(r) \/ Release(r) \/ Disconnect(r) \/ Crash(r)
  BY <1>3, <1>17 DEF Take, Drop, Break, Aborted, RecordDelivery, Release, Disconnect, Crash
<1> QED  BY <1>6, <1>8, <1>9, <1>10, <1>11, <1>13, <1>14, <1>15, <1>16, <1>17
            DEF Step, Producer, Background, Response

LEMMA AckTypes ==
  ASSUME IInv, OInv, NEW r \in Requests, Step(r)
  PROVE  ack'[r] \in Ack /\ ack'[r].said \in Nat /\ ack[r] \in Ack /\ OpeningTypeOK'
<1>1. TurnTypeOK /\ ReceiptOK /\ ack \in [Requests -> Ack] /\ ack[r] \in Ack
  BY DEF IInv, OInv, OpeningTypeOK
<1>2. AckMoves(r) /\ (\E a : ack' = [ack EXCEPT ![r] = a]) /\ acknowledged' \in BOOLEAN /\ topics' \in BOOLEAN
  BY AckStep
<1>3. Kept \in Nat
  BY <1>1, KeptFacts
<1> DEFINE no == FALSE
           yes == TRUE
<1>4. /\ [ack[r] EXCEPT !.shown = yes] \in Ack /\ [NoAck EXCEPT !.said = 0] \in Ack
      /\ \A v \in Nat : [ack[r] EXCEPT !.read = v] \in Ack /\ [NoAck EXCEPT !.said = v] \in Ack
  <2>1. no \in BOOLEAN /\ yes \in BOOLEAN /\ NoAck = [read |-> 0, said |-> 0, shown |-> no]
    BY DEF NoAck
  <2> HIDE DEF no, yes
  <2> QED  BY <1>1, <2>1 DEF Ack
<1>5. \A said \in Openings(r) : said \in Nat
  BY <1>1 DEF Openings, Ack
<1>6. ack'[r] \in Ack
  <2>1. CASE ack'[r] = ack[r]
    BY <1>1, <2>1
  <2>2. CASE ack'[r] = [ack[r] EXCEPT !.read = Kept]
    BY <1>3, <1>4, <2>2
  <2>3. ASSUME NEW said \in Openings(r), ack'[r] = [NoAck EXCEPT !.said = said] PROVE ack'[r] \in Ack
    BY <1>4, <1>5, <2>3
  <2>4. ASSUME NEW version \in Nat, ack'[r] = [ack[r] EXCEPT !.read = version] PROVE ack'[r] \in Ack
    BY <1>4, <2>4
  <2>5. CASE ack'[r] = [ack[r] EXCEPT !.shown = TRUE]
    BY <1>4, <2>5
  <2> QED  BY <1>2, <2>1, <2>2, <2>3, <2>4, <2>5 DEF AckMoves
<1>7. ack' \in [Requests -> Ack]
  BY <1>1, <1>2, <1>6
<1> QED  BY <1>1, <1>2, <1>6, <1>7 DEF OpeningTypeOK, Ack

LEMMA ReadStep ==
  ASSUME IInv, OInv, NEW r \in Requests, Step(r), Moves, source'.version \in Nat
  PROVE  ReadOK(r)'
<1>1. TurnTypeOK /\ ReceiptOK /\ ReadOK(r) /\ source.version \in Nat
  BY DEF IInv, OInv, TurnTypeOK, Source
<1>2. AckMoves(r)
  BY AckStep
<1>3. ack[r] \in Ack /\ ack[r].read \in Nat /\ ack[r].said \in Nat
  BY DEF OInv, OpeningTypeOK, Ack
<1>5. ASSUME NEW v \in Nat, Backed(v) PROVE Backed(v)'
  BY <1>1, <1>5, BackedStays
<1>6. PICK read, said, kept : read = ack[r].read /\ said = ack[r].said /\ kept = Kept
  OBVIOUS
<1>7. Backed(read)' /\ Backed(said)' /\ Backed(kept)' /\ Backed(0)' /\ kept \in Nat
  <2>1. kept \in Nat /\ Backed(kept) /\ Backed(0)
    BY <1>1, <1>6, KeptFacts DEF Backed
  <2> QED  BY <1>1, <1>3, <1>5, <1>6, <2>1 DEF ReadOK
<1>8. \/ ack'[r].read \in {read, kept, 0} \/ (ack'[r].read = source'.version /\ receipt' = "clear")
  BY <1>2, <1>3, <1>6 DEF AckMoves, Ack, NoAck
<1>9. ack'[r].said \in {said, read, 0}
  BY <1>2, <1>3, <1>6 DEF AckMoves, Ack, NoAck, Openings
<1> QED  BY <1>7, <1>8, <1>9 DEF ReadOK, Backed

\* Nobody takes away what a review of q is of, without ending its fence.
Keeps(q) ==
  /\ holder' = q => holder = q \/ pc[q] = "new"
  /\ \/ authority < authority'
     \/ authority' = authority /\ source' = source /\ (pending' = pending \/ holder' # q)

LEMMA AskedStays ==
  ASSUME TurnTypeOK, authority' \in Nat, NEW q \in Requests, AskedOK(q), Keeps(q),
         reviewing'[q] = reviewing[q], pc'[q] # "new" \/ pc[q] = "new"
  PROVE  AskedOK(q)'
<1>1. authority \in Nat /\ reviewing[q].fence \in Nat
  BY DEF TurnTypeOK, Review
<1> QED  BY <1>1 DEF AskedOK, Keeps, Current

LEMMA NothingLost ==
  ASSUME UNCHANGED <<authority, source, pending>>, holder' \in {holder, NoRequest}
  PROVE  \A q \in Requests : Keeps(q)
BY RequestFacts DEF Keeps

LEMMA StepKeeps ==
  ASSUME TurnTypeOK, NEW r \in Requests, Step(r), NEW q \in Requests,
         q # r \/ reviewing[r].state # "asked" \/ reviewing'[r] = reviewing[r]
  PROVE  Keeps(q)
<1>1. authority \in Nat /\ r # NoRequest /\ q # NoRequest
  BY RequestFacts DEF TurnTypeOK
<1> USE DEF database
<1>2. CASE Fails(r)
  BY <1>2, NothingLost DEF Fails, Released
<1>3. CASE Open(r)
  BY <1>3 DEF Open, Keeps
<1>4. CASE Accept(r)
  BY <1>1, <1>4 DEF Accept, Keeps
<1>5. CASE Look(r) \/ Status(r) \/ Cleared(r) \/ Reviewed(r) \/ Prepare(r) \/ Start(r)
  BY <1>2, <1>5, NothingLost DEF Look, Status, Cleared, Reviewed, Prepare, Start
<1>6. CASE Retract(r) \/ Complete(r) \/ GiveUp(r) \/ CommitFails(r) \/ Replay(r)
  BY <1>2, <1>6, NothingLost DEF Retract, Complete, GiveUp, CommitFails, Replay
<1>7. CASE Commit(r) \/ CommitLost(r)
  <2>1. PICK same \in BOOLEAN, next \in {authority, authority + 1} : Save(r, same, next)
    BY <1>7 DEF Commit, CommitLost
  <2>2. holder' \in {holder, NoRequest}
    BY <1>7 DEF Commit, CommitLost
  <2> QED  BY <1>1, <2>1, <2>2 DEF Save, Keeps
<1>8. CASE ReviewEnds(r) \/ ReviewFails(r)
  <2>1. CASE UNCHANGED database
    BY <2>1, NothingLost
  <2>2. ASSUME NEW decision \in {"clear", "restricted"}, CompleteReview(r, decision), q # r
        PROVE  Keeps(q)
    BY <1>1, <2>2 DEF CompleteReview, Current, Keeps
  <2>3. q # r
    <3>1. reviewing[r].state = "asked" /\ reviewing'[r].state \in {"clear", "restricted", "failed"}
      BY <1>8 DEF ReviewEnds, ReviewFails, TurnTypeOK, Review
    <3> QED  BY <3>1
  <2> QED  BY <1>8, <2>1, <2>2, <2>3 DEF ReviewEnds, ReviewFails
<1>9. CASE ReviewReads(r) \/ Admit(r) \/ Write(r) \/ Restart(r) \/ Finish(r) \/ ModelFails(r)
  BY <1>9, NothingLost DEF ReviewReads, Admit, Write, Restart, Finish, ModelFails
<1>10. CASE Response(r) \/ Disconnect(r) \/ Crash(r)
  BY <1>10, NothingLost DEF Response, Take, Send, Drop, Break, Aborted, RecordDelivery, Release, Released,
     Disconnect, Crash
<1> QED  BY <1>3, <1>4, <1>5, <1>6, <1>7, <1>8, <1>9, <1>10 DEF Step, Producer, Background

\* The request's own review.
LEMMA ReviewingMoves ==
  ASSUME TurnTypeOK, NEW r \in Requests, Step(r)
  PROVE  /\ pc'[r] # "new" \/ pc[r] = "new"
         /\ \/ reviewing'[r] = reviewing[r]
            \/ reviewing'[r].state = "off"
            \/ reviewing'[r].state = "begun" /\ pc'[r] # "new"
            \/ ReviewReads(r)
            \/ /\ reviewing[r].state = "asked" /\ pc'[r] = pc[r]
               /\ reviewing'[r].state \in {"clear", "restricted", "failed"}
<1> DEFINE G == /\ pc'[r] # "new" \/ pc[r] = "new"
                /\ \/ reviewing'[r] = reviewing[r]
                   \/ reviewing'[r].state = "off"
                   \/ reviewing'[r].state = "begun" /\ pc'[r] # "new"
                   \/ ReviewReads(r)
                   \/ /\ reviewing[r].state = "asked" /\ pc'[r] = pc[r]
                      /\ reviewing'[r].state \in {"clear", "restricted", "failed"}
<1> SUFFICES G
  OBVIOUS
<1>1. /\ pc \in [Requests -> Stages] /\ reviewing \in [Requests -> Review]
      /\ NoReview.state = "off" /\ NewReview.state = "begun"
  BY DEF TurnTypeOK, NewReview, NoReview
<1> USE DEF Goto, tasks
<1>2. CASE Fails(r)
  BY <1>1, <1>2 DEF Fails
<1>3. CASE Open(r) \/ Look(r) \/ Status(r) \/ Cleared(r) \/ Accept(r) \/ Reviewed(r) \/ Prepare(r)
  BY <1>1, <1>2, <1>3 DEF Open, Look, Status, Cleared, Accept, Reviewed, Prepare, AfterStatus
<1>4. CASE Start(r) \/ Retract(r) \/ Complete(r) \/ GiveUp(r)
  BY <1>1, <1>2, <1>4 DEF Start, Retract, Complete, GiveUp
<1>5. CASE Commit(r) \/ CommitLost(r) \/ CommitFails(r) \/ Replay(r)
  BY <1>1, <1>2, <1>5 DEF Commit, CommitLost, CommitFails, Replay
<1>6. CASE ReviewEnds(r) \/ ReviewFails(r)
  BY <1>1, <1>6 DEF ReviewEnds, ReviewFails, Review
<1>7. CASE ReviewReads(r)
  BY <1>7 DEF ReviewReads
<1>8. CASE Admit(r) \/ Write(r) \/ Restart(r) \/ Finish(r) \/ ModelFails(r)
  BY <1>8 DEF Admit, Write, Restart, Finish, ModelFails
<1>9. CASE Response(r) \/ Disconnect(r) \/ Crash(r)
  BY <1>1, <1>9 DEF Response, Take, Send, Drop, Break, Aborted, RecordDelivery, Release, Disconnect, Crash
<1> QED  BY <1>3, <1>4, <1>5, <1>6, <1>7, <1>8, <1>9 DEF Step, Producer, Background

LEMMA AskedStep ==
  ASSUME IInv, OInv, NEW r \in Requests, Step(r), authority' \in Nat
  PROVE  AskedOK(r)'
<1>1. TurnTypeOK /\ AskedOK(r) /\ reviewing[r] \in Review /\ authority \in Nat
  BY DEF IInv, OInv, TurnTypeOK
<1>2. /\ pc'[r] # "new" \/ pc[r] = "new"
      /\ \/ reviewing'[r] = reviewing[r]
         \/ reviewing'[r].state = "off"
         \/ reviewing'[r].state = "begun" /\ pc'[r] # "new"
         \/ ReviewReads(r)
         \/ /\ reviewing[r].state = "asked" /\ pc'[r] = pc[r]
            /\ reviewing'[r].state \in {"clear", "restricted", "failed"}
  BY <1>1, ReviewingMoves
<1>3. CASE reviewing'[r] = reviewing[r]
  BY <1>1, <1>2, <1>3, StepKeeps, AskedStays
<1>4. CASE reviewing'[r].state = "off" \/ (reviewing'[r].state = "begun" /\ pc'[r] # "new")
  BY <1>4 DEF AskedOK
<1>5. CASE ReviewReads(r)
  <2>1. UNCHANGED database /\ pc' = pc /\ pc[r] # "new"
    BY <1>1, <1>5 DEF ReviewReads, AskedOK
  <2>2. reviewing'[r] = IF holder # r THEN [NoReview EXCEPT !.state = "failed"]
                        ELSE IF pending = {} THEN [NoReview EXCEPT !.state = "nothing"]
                        ELSE [state |-> "asked", fence |-> authority, of |-> Oldest,
                              version |-> source.version]
    BY <1>1, <1>5 DEF ReviewReads, TurnTypeOK
  <2>3. CASE holder = r /\ pending # {}
    <3>1. reviewing'[r].state = "asked" /\ reviewing'[r].fence = authority /\ reviewing'[r].of = Oldest
          /\ reviewing'[r].version = source.version
      BY <2>2, <2>3
    <3>2. Oldest \in pending
      BY <1>1, <2>3, OldestFacts
    <3> QED  BY <1>1, <2>1, <3>1, <3>2 DEF AskedOK, database
  <2>4. CASE ~(holder = r /\ pending # {})
    <3>1. reviewing'[r].state \in {"failed", "nothing"}
      BY <2>2, <2>4 DEF NoReview
    <3> QED  BY <2>1, <3>1 DEF AskedOK
  <2> QED  BY <2>3, <2>4
<1>6. CASE reviewing[r].state = "asked" /\ pc'[r] = pc[r]
           /\ reviewing'[r].state \in {"clear", "restricted", "failed"}
  BY <1>1, <1>6 DEF AskedOK
<1> QED  BY <1>2, <1>3, <1>4, <1>5, <1>6
-----------------------------------------------------------------------------
(* The opening on its way.                                                 *)

LEMMA FramesAppended ==
  ASSUME NEW r, queue[r] \in Seq(Envelope), NEW e \in Envelope, queue'[r] = Append(queue[r], e),
         sending'[r] = sending[r]
  PROVE  /\ \A f \in Frames(r)' : f \in Frames(r) \/ f = e
         /\ \A f \in Frames(r) : f \in Frames(r)'
         /\ e \in Frames(r)'
<1>1. /\ Len(queue'[r]) = Len(queue[r]) + 1 /\ Len(queue[r]) \in Nat
      /\ \A i \in 1..Len(queue[r]) : queue'[r][i] = queue[r][i]
      /\ queue'[r][Len(queue[r]) + 1] = e
  BY AppendFacts
<1>2. \A i \in 1..Len(queue'[r]) : i \in 1..Len(queue[r]) \/ i = Len(queue[r]) + 1
  BY <1>1
<1>3. \A i \in 1..Len(queue[r]) : i \in 1..Len(queue'[r])
  BY <1>1
<1>4. Len(queue[r]) + 1 \in 1..Len(queue'[r])
  BY <1>1
<1> QED  BY <1>1, <1>2, <1>3, <1>4 DEF Frames

LEMMA FramesEmptied ==
  ASSUME NEW r, queue'[r] = <<>>, sending'[r] = NoEnvelope
  PROVE  Silent(r)' /\ NoResults(r)' /\ ErrorLast(r)'
<1>1. Len(queue'[r]) = 0
  OBVIOUS
<1>2. NoEnvelope.kind = "none"
  BY NoEnvelopeFacts
<1>3. \A i \in 1..Len(queue'[r]) : FALSE
  BY <1>1
<1> QED  BY <1>2, <1>3 DEF Frames, Silent, NoResults, ErrorLast

\* The part of a request that does nothing.
LEMMA SayingKept ==
  ASSUME NEW r, Saying(r), Moves, emitter[r].fence <= authority, emitter[r].fence \in Nat, authority \in Nat,
         authority' \in Nat,
         queue'[r] = queue[r], sending'[r] = sending[r], browser'[r] = browser[r],
         reply.text.by = r <=> reply'.text.by = r,
         ack'[r].said = ack[r].said, ack'[r].shown = ack[r].shown,
         emitter'[r].fence = emitter[r].fence, emitter'[r].revision = emitter[r].revision,
         memo'[r].revisable = memo[r].revisable, memo'[r].version = memo[r].version,
         pc'[r] = pc[r] \/ (pc[r] = "await" /\ pc'[r] = "commit"),
         Admitted(r)' => Admitted(r) \/ ack[r].shown
  PROVE  Saying(r)'
<1>1. Frames(r)' = Frames(r)
  BY DEF Frames
<1>2. \A e \in Frames(r) : e.kind = "opening" =>
         /\ pc'[r] \in {"await", "commit", "sent"}
         /\ e.fence = emitter'[r].fence /\ e.revision = emitter'[r].revision /\ ~e.draft
  BY DEF Saying, OpeningOK
<1>3. \A e \in Frames(r)' : e.kind = "opening" => OpeningOK(r, e)'
  BY <1>1, <1>2 DEF OpeningOK
<1>4. Silent(r)' = Silent(r)
  BY <1>1 DEF Silent
<1>5. NoResults(r)' = NoResults(r)
  BY DEF NoResults
<1>6. pc'[r] \in {"await", "commit"} => pc[r] \in {"await", "commit"}
  OBVIOUS
<1>7. (emitter[r].fence = authority)' => emitter[r].fence = authority /\ topics' = topics
  BY DEF Moves
<1>8. (pc[r] \in {"await", "commit"} \/ ~Silent(r) => (emitter[r].fence = authority => topics))'
  BY <1>4, <1>6, <1>7 DEF Saying
<1> QED  BY <1>3, <1>4, <1>5, <1>6, <1>8 DEF Saying

LEMMA SaidKept ==
  ASSUME IInv, OInv, NEW q \in Requests, Untouched(q), Moves, authority' \in Nat,
         reply' = reply \/ (reply = NoReply /\ reply'.text.by # q)
  PROVE  SaidOK(q)'
<1>1. TurnTypeOK /\ SaidOK(q) /\ emitter[q].fence <= authority
  BY DEF IInv, OInv, RequestOK
<1>2. authority \in Nat /\ emitter[q].fence \in Nat
  BY <1>1 DEF TurnTypeOK, Emitter
<1>3. reply.text.by = q <=> reply'.text.by = q
  BY RequestFacts DEF NoReply, NoText
<1>4. Frames(q)' = Frames(q) /\ ErrorLast(q)' = ErrorLast(q) /\ Admitted(q)' = Admitted(q)
  BY DEF Untouched, Same, Frames, ErrorLast, Admitted
<1>5. Silent(q)' = Silent(q)
  BY <1>4 DEF Silent
<1>6. Saying(q) => Saying(q)'
  BY <1>1, <1>2, <1>3, <1>4, SayingKept DEF Untouched, Same
<1> QED  BY <1>1, <1>4, <1>5, <1>6 DEF SaidOK, Untouched, Same

\* A request that has no opening to say.
LEMMA SilentKept ==
  ASSUME NEW r \in Requests, SaidOK(r), ack[r].said = 0, ack'[r].said = 0, ack'[r].shown = ack[r].shown,
         queue'[r] = queue[r], sending'[r] = sending[r],
         memo'[r].unreviewed => memo'[r].revisable, pc'[r] \notin Late \/ pc[r] \in Late
  PROVE  SaidOK(r)'
<1>1. Silent(r)'
  BY DEF SaidOK, Silent, Frames
<1>2. ErrorLast(r)'
  BY DEF SaidOK, ErrorLast
<1> QED  BY <1>1, <1>2 DEF SaidOK

LEMMA SilentAppends ==
  ASSUME TurnTypeOK, NEW r \in Requests, SaidOK(r), ack[r].said = 0, ack'[r].said = 0,
         ack'[r].shown = ack[r].shown, NEW e \in Envelope, e.kind # "opening",
         queue'[r] = Append(queue[r], e), sending'[r] = sending[r],
         memo'[r].unreviewed => memo'[r].revisable, pc'[r] \notin Late \/ queue[r] = <<>>
  PROVE  SaidOK(r)'
<1>1. queue[r] \in Seq(Envelope)
  BY DEF TurnTypeOK
<1>2. Silent(r)'
  BY <1>1, FramesAppended DEF SaidOK, Silent
<1>3. ErrorLast(r)'
  <2>1. CASE queue[r] = <<>>
    <3>1. Len(queue'[r]) = 1
      BY <1>1, <2>1
    <3> QED  BY <3>1 DEF ErrorLast
  <2> QED  BY <2>1 DEF ErrorLast
<1> QED  BY <1>2, <1>3 DEF SaidOK

\* Only from await on is anything said.
LEMMA EarlyIsSilent ==
  ASSUME NEW r \in Requests, SaidOK(r), pc[r] \in Early \cup {"prepare", "start"}
  PROVE  ack[r].said = 0 /\ ~ack[r].shown
BY DEF SaidOK, Saying, Early, Late

LEMMA DraftIsSilent ==
  ASSUME NEW r \in Requests, SaidOK(r), memo[r].revisable
  PROVE  ack[r].said = 0 /\ ~ack[r].shown
BY DEF SaidOK, Saying

\* Only the beginning of a generation and a send change what was said and shown.
LEMMA SaidSame ==
  ASSUME IInv, OInv, NEW r \in Requests, Step(r), ~Send(r), ~Start(r) \/ Fails(r)
  PROVE  ack'[r].said = ack[r].said /\ ack'[r].shown = ack[r].shown
<1>1. ack \in [Requests -> Ack] /\ ack[r] \in Ack
  BY DEF OInv, OpeningTypeOK
<1> USE DEF openings
<1>2. ASSUME NEW v, ack' = [ack EXCEPT ![r].read = v]
      PROVE  ack'[r].said = ack[r].said /\ ack'[r].shown = ack[r].shown
  BY <1>1, <1>2 DEF Ack
<1>3. CASE Fails(r)
  BY <1>3 DEF Fails
<1>4. CASE Open(r) \/ Look(r) \/ Status(r) \/ Cleared(r) \/ Accept(r) \/ Reviewed(r) \/ Prepare(r)
  BY <1>2, <1>3, <1>4 DEF Open, Look, Status, Cleared, Accept, Reviewed, Prepare, ReadsKept
<1>5. CASE Retract(r) \/ Complete(r) \/ GiveUp(r) \/ CommitFails(r) \/ Replay(r)
  BY <1>3, <1>5 DEF Retract, Complete, GiveUp, CommitFails, Replay
<1>6. CASE Commit(r) \/ CommitLost(r)
  BY <1>6 DEF Commit, CommitLost, Save
<1>7. CASE ReviewEnds(r) \/ ReviewFails(r)
  BY <1>2, <1>7 DEF ReviewEnds, ReviewFails
<1>8. CASE ReviewReads(r) \/ Admit(r) \/ Write(r) \/ Restart(r) \/ Finish(r) \/ ModelFails(r)
  BY <1>8 DEF ReviewReads, Admit, Write, Restart, Finish, ModelFails
<1>9. CASE Take(r) \/ Drop(r) \/ Break(r) \/ RecordDelivery(r) \/ Release(r) \/ Disconnect(r) \/ Crash(r)
  BY <1>9 DEF Take, Drop, Break, Aborted, RecordDelivery, Release, Disconnect, Crash
<1> QED  BY <1>3, <1>4, <1>5, <1>6, <1>7, <1>8, <1>9 DEF Step, Producer, Background, Response

\* Before the context is read nothing is said.
LEMMA EarlySaid ==
  ASSUME IInv, OInv, NEW r \in Requests, Step(r),
         \/ Open(r) \/ Look(r) \/ Status(r) \/ Cleared(r) \/ Accept(r) \/ Reviewed(r)
         \/ Replay(r),
         ~Fails(r)
  PROVE  SaidOK(r)'
<1>1. TurnTypeOK /\ SaidOK(r) /\ memo \in [Requests -> Memo] /\ pc \in [Requests -> Stages]
      /\ queue \in [Requests -> Seq(Envelope)] /\ RequestOK(r)
  BY DEF IInv, OInv, TurnTypeOK
<1>2. pc[r] \in Early
  BY DEF Open, Look, Status, Cleared, Accept, Reviewed, Replay, Early
<1>3. ack[r].said = 0 /\ ~ack[r].shown
  BY <1>1, <1>2, EarlyIsSilent
<1>4. ~Send(r) /\ ~Start(r) /\ sending[r] = NoEnvelope /\ queue[r] = <<>> /\ pc[r] \notin Late
  BY <1>1, <1>2 DEF RequestOK, EarlyOK, Early, Late, Send, Start
<1>5. ack'[r].said = ack[r].said /\ ack'[r].shown = ack[r].shown
  BY <1>4, SaidSame
<1> USE DEF Goto, stream
<1>6. CASE Open(r) \/ Look(r) \/ Status(r) \/ Cleared(r) \/ Reviewed(r)
  <2>1. queue' = queue /\ sending' = sending /\ pc'[r] \notin Late
    BY <1>1, <1>6 DEF Open, Look, Status, Cleared, Reviewed, AfterStatus, Late
  <2>2. memo'[r].unreviewed => memo'[r].revisable
    <3>1. CASE memo' = memo
      BY <1>1, <3>1 DEF SaidOK
    <3>2. ASSUME NEW found, NEW answer, memo' = [memo EXCEPT ![r].found = found, ![r].answer = answer]
          PROVE  memo'[r].unreviewed => memo'[r].revisable
      BY <1>1, <3>2 DEF SaidOK, Memo
    <3> QED  BY <1>6, <3>1, <3>2 DEF Open, Look, Status, Cleared, Reviewed
  <2> QED  BY <1>1, <1>3, <1>5, <2>1, <2>2, SilentKept
<1>7. CASE Accept(r)
  <2>1. queue' = queue /\ sending' = sending /\ pc'[r] \notin Late
    BY <1>1, <1>7 DEF Accept, Late
  <2>2. memo'[r].unreviewed => memo'[r].revisable
    <3>1. PICK revisable, version : memo' = [memo EXCEPT ![r].version = version, ![r].revisable = revisable,
                                                         ![r].unreviewed = revisable]
      BY <1>7 DEF Accept
    <3> QED  BY <1>1, <3>1 DEF Memo
  <2> QED  BY <1>1, <1>3, <1>5, <2>1, <2>2, SilentKept
<1>8. CASE Replay(r)
  <2>1. PICK e : e = ResultFrame(r, memo[r].answer)
    OBVIOUS
  <2>2. e \in Envelope /\ e.kind = "result"
    <3> DEFINE no == FALSE
    <3>1. no \in BOOLEAN /\ emitter[r].fence \in Nat /\ memo[r].answer \in Answer
      BY <1>1 DEF TurnTypeOK, Emitter, Memo
    <3>2. e = [kind |-> "result", fence |-> emitter[r].fence, revision |-> 0, draft |-> no,
               text |-> memo[r].answer]
      BY <2>1 DEF ResultFrame
    <3> HIDE DEF no
    <3> QED  BY <3>1, <3>2 DEF Envelope
  <2>3. queue'[r] = Append(queue[r], e) /\ sending' = sending /\ memo' = memo
    BY <1>1, <1>8, <2>1 DEF Replay
  <2> QED  BY <1>1, <1>3, <1>4, <1>5, <2>2, <2>3, SilentAppends DEF SaidOK
<1> QED  BY <1>6, <1>7, <1>8

\* The producer raises: the error comes last.
LEMMA FailsSaid ==
  ASSUME IInv, OInv, NEW r \in Requests, Step(r), Fails(r), pc[r] \in Early \cup Middle
  PROVE  SaidOK(r)'
<1>1. TurnTypeOK /\ SaidOK(r) /\ RequestOK(r) /\ queue[r] \in Seq(Envelope)
  BY DEF IInv, OInv, TurnTypeOK
<1>2. ~Send(r) \/ ack' = ack
  BY DEF Fails, openings
<1>3. ack'[r] = ack[r] /\ topics' = topics /\ authority' = authority /\ reply' = reply
      /\ memo' = memo /\ emitter' = emitter /\ sending' = sending /\ browser' = browser
  BY DEF Fails, openings
<1>4. PICK e : e = Control("error", 0)
  OBVIOUS
<1>5. e \in Envelope /\ e.kind = "error"
  BY <1>4, ControlFacts DEF Control
<1>6. /\ queue'[r] = Append(queue[r], e) /\ pc'[r] = "sent" /\ generation'[r] = NoGeneration
  BY <1>1, <1>4 DEF Fails, Goto, TurnTypeOK
<1>7. \A i \in 1..Len(queue[r]) : queue[r][i].kind # "error" /\ queue[r][i].kind # "result"
  <2>1. CASE pc[r] \in Early
    <3>1. Len(queue[r]) = 0
      BY <1>1, <2>1 DEF RequestOK, EarlyOK
    <3> QED  BY <3>1
  <2>2. CASE pc[r] \in Middle
    BY <1>1, <2>2 DEF RequestOK, MiddleOK, StreamOK, DraftFrameOK
  <2> QED  BY <2>1, <2>2
<1>8. /\ Len(queue'[r]) = Len(queue[r]) + 1 /\ Len(queue[r]) \in Nat
      /\ \A i \in 1..Len(queue[r]) : queue'[r][i] = queue[r][i]
      /\ queue'[r][Len(queue[r]) + 1] = e
  BY <1>1, <1>5, <1>6, AppendFacts
<1>9. \A i \in 1..Len(queue'[r]) : i \in 1..Len(queue[r]) \/ i = Len(queue'[r])
  BY <1>8
<1>10. ErrorLast(r)'
  BY <1>7, <1>8, <1>9 DEF ErrorLast
<1>11. \A f \in Frames(r)' : f \in Frames(r) \/ f = e
  BY <1>1, <1>3, <1>5, <1>6, FramesAppended
<1>12. CASE ack[r].said = 0
  BY <1>1, <1>3, <1>5, <1>10, <1>11, <1>12 DEF SaidOK, Silent
<1>13. CASE ack[r].said # 0
  <2>1. Saying(r) /\ pc[r] \in {"await", "commit"}
    BY <1>1, <1>13 DEF SaidOK, Saying, Early, Middle, Late
  <2>2. MiddleOK(r)
    BY <1>1, <2>1 DEF RequestOK, Middle
  <2>3. \A f \in Frames(r)' : f.kind = "opening" => OpeningOK(r, f)'
    <3>1. ASSUME NEW f \in Frames(r), f.kind = "opening" PROVE OpeningOK(r, f)'
      BY <1>3, <1>6, <2>1, <3>1 DEF Saying, OpeningOK
    <3> QED  BY <1>5, <1>11, <3>1
  <2>4. NoResults(r)' /\ browser[r].got = NoText
    BY <1>3, <1>5, <1>7, <1>8, <1>9, <2>2 DEF NoResults, MiddleOK, StreamOK, DraftFrameOK, PageOK
  <2>5. ~Admitted(r)'
    BY <1>6, OffFacts DEF Admitted
  <2>6. (emitter[r].fence = authority => topics)'
    BY <1>3, <2>1 DEF Saying
  <2>7. Saying(r)'
    BY <1>3, <1>6, <2>1, <2>2, <2>3, <2>4, <2>5, <2>6 DEF Saying, MiddleOK, Late
  <2> QED  BY <1>1, <1>3, <1>10, <1>13, <2>7 DEF SaidOK
<1> QED  BY <1>12, <1>13

\* A draft opens with nothing, nor does a request before it asks for its reply.
LEMMA DraftSaid ==
  ASSUME IInv, OInv, NEW r \in Requests, Step(r),
         Prepare(r) \/ Retract(r) \/ Restart(r) \/ Write(r), ~Fails(r)
  PROVE  SaidOK(r)'
<1>1. TurnTypeOK /\ SaidOK(r) /\ RequestOK(r) /\ memo \in [Requests -> Memo]
      /\ queue \in [Requests -> Seq(Envelope)] /\ emitter[r] \in Emitter /\ generation[r] \in Generation
      /\ pc \in [Requests -> Stages]
  BY DEF IInv, OInv, TurnTypeOK
<1>2. ~Send(r) \/ ack' = ack
  BY DEF Prepare, Retract, Restart, Write, openings
<1>3. ack'[r] = ack[r]
  BY DEF Prepare, Retract, Restart, Write, openings
<1>4. ack[r].said = 0 /\ ~ack[r].shown
  <2>1. CASE Prepare(r)
    BY <1>1, <2>1, EarlyIsSilent DEF Prepare
  <2>2. CASE Retract(r) \/ Restart(r)
    BY <1>1, <2>2, DraftIsSilent DEF Retract, Restart, SaidOK
  <2>3. CASE Write(r)
    BY <1>1, <2>3 DEF Write, SaidOK
  <2> QED  BY <2>1, <2>2, <2>3
<1>5. pc'[r] \notin Late
  <2>1. CASE Prepare(r) \/ Retract(r)
    BY <1>1, <2>1 DEF Prepare, Retract, Goto, Late
  <2>2. CASE Restart(r) \/ Write(r)
    <3>1. generation[r].state = "writing" /\ pc' = pc
      BY <2>2 DEF Restart, Write, Writing
    <3> QED  BY <1>1, <3>1, OffFacts DEF RequestOK, LateOK
  <2> QED  BY <2>1, <2>2
<1>6. sending'[r] = sending[r]
  BY DEF Prepare, Retract, Restart, Write
<1>7. memo'[r].unreviewed => memo'[r].revisable
  BY <1>1 DEF Prepare, Retract, Restart, Write, SaidOK, Memo
<1>8. ASSUME NEW e \in Envelope, e.kind # "opening", queue'[r] = Append(queue[r], e) PROVE SaidOK(r)'
  BY <1>1, <1>3, <1>4, <1>5, <1>6, <1>7, <1>8, SilentAppends
<1>9. ASSUME NEW n \in Nat, queue'[r] = Append(queue[r], Control("revision", n)) PROVE SaidOK(r)'
  <2>1. PICK e : e = Control("revision", n)
    OBVIOUS
  <2>2. e \in Envelope /\ e.kind = "revision"
    BY <2>1, ControlFacts DEF Control
  <2> QED  BY <1>8, <1>9, <2>1, <2>2
<1>10. CASE Prepare(r)
  <2>1. queue' = queue \/ \E n \in {emitter[r].revision, emitter[r].revision + 1} :
           queue' = [queue EXCEPT ![r] = Append(@, Control("revision", n))]
    BY <1>1, <1>10 DEF Prepare, Emitter
  <2>2. CASE queue' = queue
    BY <1>1, <1>3, <1>4, <1>5, <1>6, <1>7, <2>2, SilentKept
  <2>3. ASSUME NEW n \in {emitter[r].revision, emitter[r].revision + 1},
               queue' = [queue EXCEPT ![r] = Append(@, Control("revision", n))]
        PROVE  SaidOK(r)'
    BY <1>1, <1>9, <2>3 DEF Emitter
  <2> QED  BY <2>1, <2>2, <2>3
<1>11. CASE Retract(r) \/ Restart(r)
  <2>1. queue'[r] = Append(queue[r], Control("revision", emitter[r].revision + 1))
    BY <1>1, <1>11 DEF Retract, Restart, BeginRevision
  <2> QED  BY <1>1, <1>9, <2>1 DEF Emitter
<1>12. CASE Write(r)
  <2>1. PICK text : text = [by |-> r, under |-> generation[r].under, take |-> emitter[r].revision]
    OBVIOUS
  <2>2. text \in Answer
    BY <1>1, <2>1 DEF Answer, Generation, Emitter
  <2>3. PICK e : e = Frame(r, "delta", text)
    OBVIOUS
  <2>4. e \in Envelope /\ e.kind = "delta"
    BY <1>1, <2>2, <2>3 DEF Frame, Envelope, Emitter
  <2>5. queue'[r] = Append(queue[r], e)
    BY <1>1, <1>12, <2>1, <2>3 DEF Write
  <2> QED  BY <1>8, <2>4, <2>5
<1> QED  BY <1>10, <1>11, <1>12

\* The generation begins: from here on the opening is on its way.
LEMMA StartSaid ==
  ASSUME IInv, OInv, NEW r \in Requests, Start(r), ~Fails(r)
  PROVE  SaidOK(r)'
<1>1. TurnTypeOK /\ SaidOK(r) /\ RequestOK(r) /\ MiddleOK(r) /\ StreamOK(r) /\ pc[r] = "start"
      /\ queue \in [Requests -> Seq(Envelope)] /\ generation \in [Requests -> Generation]
      /\ pc \in [Requests -> Stages] /\ ack \in [Requests -> Ack] /\ ack[r] \in Ack
      /\ memo[r].unreviewed \in BOOLEAN
  BY DEF IInv, OInv, TurnTypeOK, OpeningTypeOK, RequestOK, MiddleOK, Start, Middle, Memo
<1>2. ack[r].said = 0 /\ ~ack[r].shown
  BY <1>1, EarlyIsSilent
<1>3. PICK said \in Openings(r) : Say(r, said)
  BY DEF Start
<1>4. /\ Current(r, emitter[r].fence) /\ UNCHANGED <<database, memo, emitter, sending, browser, topics>>
      /\ generation'[r].state = "asked" /\ generation'[r].under = emitter[r].fence
      /\ pc'[r] = "await"
  <2> DEFINE no == FALSE
  <2>1. generation' = [generation EXCEPT ![r] =
           [state |-> "asked", under |-> emitter[r].fence, draft |-> memo[r].unreviewed,
            writes |-> 0, wrote |-> no]]
    BY DEF Start
  <2> HIDE DEF no
  <2>2. generation'[r] = [state |-> "asked", under |-> emitter[r].fence, draft |-> memo[r].unreviewed,
                          writes |-> 0, wrote |-> no]
    BY <1>1, <2>1
  <2>3. generation'[r].state = "asked" /\ generation'[r].under = emitter[r].fence
    BY <2>2
  <2> QED  BY <1>1, <1>3, <2>3 DEF Start, Say, Goto
<1>5. said \in Nat /\ ack'[r].said = said /\ ~ack'[r].shown
  <2>1. said \in Nat
    BY <1>1 DEF Openings, Ack
  <2>2. PICK a : a = [NoAck EXCEPT !.said = said]
    OBVIOUS
  <2>3. a.said = said /\ ~a.shown
    BY <2>2 DEF NoAck
  <2> QED  BY <1>1, <1>3, <2>1, <2>2, <2>3 DEF Say
<1>6. memo'[r].unreviewed => memo'[r].revisable
  BY <1>1, <1>4 DEF SaidOK
<1>7. CASE said = 0
  <2>1. queue' = queue /\ pc'[r] \notin Late
    BY <1>3, <1>4, <1>7 DEF Say, Late
  <2>2. ack'[r].shown = ack[r].shown
    <3>1. PICK a : a = [NoAck EXCEPT !.said = said]
      OBVIOUS
    <3>2. a.shown = FALSE /\ ack'[r] = a
      BY <1>1, <1>3, <3>1 DEF NoAck, Say
    <3>3. ack[r].shown = FALSE
      BY <1>1, <1>2 DEF Ack
    <3> QED  BY <3>2, <3>3
  <2> QED  BY <1>1, <1>2, <1>4, <1>5, <1>6, <1>7, <2>1, <2>2, SilentKept
<1>8. CASE said # 0
  <2>1. said = memo[r].version /\ ~memo[r].revisable /\ topics /\ ~memo[r].unreviewed
    BY <1>1, <1>8 DEF Openings, SaidOK
  <2>2. PICK e : e = Frame(r, "opening", NoText)
    OBVIOUS
  <2>3. e \in Envelope /\ e.kind = "opening" /\ e.fence = emitter[r].fence
        /\ e.revision = emitter[r].revision /\ e.draft = emitter[r].draft
    BY <1>1, <2>2, OpeningFrameFacts DEF MiddleOK
  <2>4. queue'[r] = Append(queue[r], e)
    BY <1>1, <1>3, <1>8, <2>2 DEF Say
  <2>5. \A f \in Frames(r)' : f \in Frames(r) \/ f = e
    BY <1>1, <1>4, <2>3, <2>4, FramesAppended
  <2>6. ~Silent(r)'
    BY <1>1, <1>4, <2>3, <2>4, FramesAppended DEF Silent
  <2>7. \A f \in Frames(r)' : f.kind = "opening" => OpeningOK(r, f)'
    <3>1. OpeningOK(r, e)'
      BY <1>1, <1>4, <2>1, <2>3 DEF OpeningOK, MiddleOK
    <3>2. Silent(r)
      BY <1>1, <1>2 DEF SaidOK
    <3> QED  BY <2>5, <3>1, <3>2 DEF Silent
  <2>8. reply'.text.by # r
    BY <1>1, <1>4 DEF MiddleOK, database
  <2>9. browser'[r].got = NoText
    BY <1>1, <1>4 DEF StreamOK, PageOK
  <2>10. NoResults(r)'
    <3>1. /\ \A i \in 1..Len(queue'[r]) : i \in 1..Len(queue[r]) \/ queue'[r][i] = e
          /\ \A i \in 1..Len(queue[r]) : queue'[r][i] = queue[r][i]
      BY <1>1, <2>3, <2>4, AppendElements, AppendFacts
    <3> QED  BY <1>1, <1>4, <2>3, <3>1 DEF NoResults, StreamOK, DraftFrameOK
  <2>11. ~Admitted(r)'
    BY <1>4 DEF Admitted
  <2>12. Saying(r)'
    BY <1>4, <1>5, <2>1, <2>6, <2>7, <2>8, <2>9, <2>10, <2>11 DEF Saying
  <2>13. ErrorLast(r)'
    BY <1>4 DEF ErrorLast, Late
  <2> QED  BY <1>5, <1>6, <1>8, <2>12, <2>13 DEF SaidOK
<1> QED  BY <1>7, <1>8

\* The tasks change nothing of what is on its way.
LEMMA TasksSaid ==
  ASSUME IInv, OInv, IInv', NEW r \in Requests, Step(r), Moves,
         \/ Complete(r) \/ Admit(r) \/ Finish(r) \/ ModelFails(r)
         \/ ReviewReads(r) \/ ReviewEnds(r) \/ ReviewFails(r)
  PROVE  SaidOK(r)'
<1>1. TurnTypeOK /\ SaidOK(r) /\ RequestOK(r) /\ emitter[r].fence <= authority /\ RequestOK(r)
      /\ authority \in Nat /\ emitter[r].fence \in Nat /\ authority' \in Nat /\ emitter[r] \in Emitter
      /\ memo[r] \in Memo
  BY DEF IInv, OInv, TurnTypeOK, RequestOK, Emitter
<1>2. queue' = queue /\ sending' = sending /\ browser' = browser /\ reply' = reply
  BY DEF Complete, Admit, Finish, ModelFails, ReviewReads, ReviewEnds, ReviewFails, CompleteReview, stream, database
<1>3. ack'[r].said = ack[r].said /\ ack'[r].shown = ack[r].shown
  <2>1. CASE ReviewEnds(r) \/ ReviewFails(r)
    <3>1. ack' = ack \/ \E v : ack' = [ack EXCEPT ![r].read = v]
      BY <2>1 DEF ReviewEnds, ReviewFails, openings
    <3>2. ack \in [Requests -> Ack] /\ ack[r] \in Ack
      BY DEF OInv, OpeningTypeOK
    <3> QED  BY <3>1, <3>2 DEF Ack
  <2>2. CASE ~(ReviewEnds(r) \/ ReviewFails(r))
    BY <2>2 DEF Complete, Admit, Finish, ModelFails, ReviewReads, openings
  <2> QED  BY <2>1, <2>2
<1>4. pc'[r] = pc[r] \/ (pc[r] = "await" /\ pc'[r] = "commit")
  BY <1>1 DEF Complete, Admit, Finish, ModelFails, ReviewReads, ReviewEnds, ReviewFails, Goto, TurnTypeOK
<1>5. /\ emitter'[r].fence = emitter[r].fence /\ emitter'[r].revision = emitter[r].revision
      /\ memo'[r].revisable = memo[r].revisable /\ memo'[r].version = memo[r].version
      /\ memo'[r].unreviewed => memo[r].unreviewed
  <2>1. CASE Complete(r)
    <3> DEFINE no == FALSE
    <3>1. memo' = [memo EXCEPT ![r].unreviewed = no] /\ emitter' = [emitter EXCEPT ![r].draft = no]
      BY <2>1 DEF Complete
    <3>2. ~no
      OBVIOUS
    <3> HIDE DEF no
    <3> QED  BY <1>1, <3>1, <3>2 DEF TurnTypeOK, Memo, Emitter
  <2>2. CASE ~Complete(r)
    BY <2>2 DEF Admit, Finish, ModelFails, ReviewReads, ReviewEnds, ReviewFails
  <2> QED  BY <2>1, <2>2
<1>6. pc'[r] \in Late => pc[r] \in Late
  BY <1>4 DEF Late
<1>7. CASE ack[r].said = 0
  BY <1>1, <1>2, <1>3, <1>5, <1>6, <1>7, SilentKept DEF SaidOK
<1>8. CASE ack[r].said # 0
  <2>1. Saying(r)
    BY <1>1, <1>8 DEF SaidOK
  <2>2. Admitted(r)' => Admitted(r) \/ ack[r].shown
    <3>1. CASE Admit(r)
      <4>1. generation[r].state = "asked" /\ queue[r] = <<>> /\ sending[r] = NoEnvelope
        BY <1>8, <3>1 DEF Admit, Flushed
      <4>2. pc[r] \notin Late
        BY <1>1, <4>1, OffFacts DEF RequestOK, LateOK
      <4>3. Silent(r)
        <5>1. Len(queue[r]) = 0
          BY <4>1
        <5> QED  BY <4>1, <5>1, NoEnvelopeFacts DEF Silent, Frames
      <4> QED  BY <2>1, <4>2, <4>3 DEF Saying
    <3>2. CASE ~Admit(r)
      <4>1. generation'[r] = generation[r] \/ (generation[r].state = "writing")
        BY <3>2 DEF Complete, Finish, ModelFails, ReviewReads, ReviewEnds, ReviewFails
      <4> QED  BY <4>1 DEF Admitted
    <3> QED  BY <3>1, <3>2
  <2>3. Saying(r)'
    BY <1>1, <1>2, <1>3, <1>4, <1>5, <2>1, <2>2, SayingKept
  <2>4. ErrorLast(r)'
    BY <1>1, <1>2, <1>6 DEF SaidOK, ErrorLast
  <2> QED  BY <1>1, <1>3, <1>5, <1>8, <2>3, <2>4 DEF SaidOK
<1> QED  BY <1>7, <1>8

\* When the reply is saved, the page has had its opening.
LEMMA CommitSaid ==
  ASSUME IInv, OInv, IInv', NEW r \in Requests, Step(r), Commit(r) \/ CommitLost(r)
  PROVE  SaidOK(r)'
<1>1. TurnTypeOK /\ SaidOK(r) /\ RequestOK(r) /\ MiddleOK(r) /\ pc[r] = "commit" /\ pc \in [Requests -> Stages]
      /\ queue \in [Requests -> Seq(Envelope)] /\ generation \in [Requests -> Generation]
      /\ memo \in [Requests -> Memo] /\ emitter \in [Requests -> Emitter] /\ memo[r].revisable \in BOOLEAN
  BY DEF IInv, OInv, TurnTypeOK, RequestOK, MiddleOK, Middle, Commit, CommitLost, Memo
<1>2. queue[r] = <<>> /\ sending[r] = NoEnvelope /\ sending' = sending /\ browser' = browser
      /\ pc'[r] = "sent" /\ generation'[r] = NoGeneration
  BY <1>1 DEF Commit, CommitLost, Flushed, Goto
<1>3. PICK same \in BOOLEAN, next \in {authority, authority + 1} :
        /\ Save(r, same, next)
        /\ \/ CommitLost(r) /\ memo' = memo /\ queue' = [queue EXCEPT ![r] = Append(@, Control("error", 0))]
           \/ /\ memo' = [memo EXCEPT ![r].answer = Final(r, same)]
              /\ queue' = [queue EXCEPT ![r] = FinalFrames(r, Final(r, same), next)]
  BY DEF Commit, CommitLost
<1>4. ack' = ack /\ reply'.text.by = r
  BY <1>3 DEF Save, Final
<1>5. Silent(r)
  <2>1. Len(queue[r]) = 0
    BY <1>2
  <2> QED  BY <1>2, <2>1, NoEnvelopeFacts DEF Silent, Frames
<1>6. memo'[r].revisable = memo[r].revisable /\ memo'[r].unreviewed = memo[r].unreviewed
      /\ memo'[r].version = memo[r].version
  <2>1. ASSUME NEW a, memo' = [memo EXCEPT ![r].answer = a]
        PROVE  memo'[r].revisable = memo[r].revisable /\ memo'[r].unreviewed = memo[r].unreviewed
               /\ memo'[r].version = memo[r].version
    BY <1>1, <2>1 DEF Memo
  <2> QED  BY <1>3, <2>1
\* Of the frames that follow none is an opening, and an error is the last.
<1>7. \A i \in 1..Len(queue'[r]) :
         queue'[r][i].kind # "opening" /\ (queue'[r][i].kind = "error" => i = Len(queue'[r]))
  <2>1. CASE queue' = [queue EXCEPT ![r] = Append(@, Control("error", 0))]
    <3>1. PICK e : e = Control("error", 0)
      OBVIOUS
    <3>2. e.kind = "error" /\ e \in Envelope
      BY <3>1, ControlFacts DEF Control
    <3>3. queue'[r] = <<e>>
      BY <1>1, <1>2, <2>1, <3>1, <3>2, AppendFacts
    <3>4. Len(queue'[r]) = 1 /\ queue'[r][1] = e
      BY <3>3
    <3> QED  BY <3>2, <3>4
  <2>2. CASE queue' = [queue EXCEPT ![r] = FinalFrames(r, Final(r, same), next)]
    <3>1. PICK answer : answer = Final(r, same)
      OBVIOUS
    <3> DEFINE no == FALSE
               frame(kind, revision) == [kind |-> kind, fence |-> next, revision |-> revision,
                                         draft |-> no, text |-> answer]
               control == Control("revision", answer.take)
               delta == frame("delta", answer.take)
               result == frame("result", 0)
               S == {control, delta, result}
    <3>2. control.kind = "revision" /\ delta.kind = "delta" /\ result.kind = "result"
      BY DEF Control
    <3>3. FinalFrames(r, answer, next) =
           (IF answer.take # emitter[r].revision THEN <<control, delta>>
            ELSE IF memo[r].revisable THEN <<>> ELSE <<delta>>) \o <<result>>
      BY DEF FinalFrames
    <3>4. control \in S /\ delta \in S /\ result \in S
      OBVIOUS
    <3> HIDE DEF control, delta, result
    <3>5. FinalFrames(r, answer, next) \in {<<control, delta, result>>, <<result>>, <<delta, result>>}
      BY <3>3, <3>4, Concatenations
    <3>6. queue'[r] = FinalFrames(r, answer, next)
      BY <1>1, <2>2, <3>1
    <3>7. \A i \in 1..Len(queue'[r]) : queue'[r][i] \in S
      <4>1. CASE queue'[r] = <<control, delta, result>>
        <5>1. Len(queue'[r]) = 3 /\ queue'[r][1] = control /\ queue'[r][2] = delta /\ queue'[r][3] = result
          BY <4>1
        <5> QED  BY <5>1
      <4>2. CASE queue'[r] = <<result>>
        <5>1. Len(queue'[r]) = 1 /\ queue'[r][1] = result
          BY <4>2
        <5> QED  BY <5>1
      <4>3. CASE queue'[r] = <<delta, result>>
        <5>1. Len(queue'[r]) = 2 /\ queue'[r][1] = delta /\ queue'[r][2] = result
          BY <4>3
        <5> QED  BY <5>1
      <4> QED  BY <3>5, <3>6, <4>1, <4>2, <4>3
    <3> QED  BY <3>2, <3>7
  <2> QED  BY <1>3, <2>1, <2>2
<1>8. ErrorLast(r)'
  BY <1>7 DEF ErrorLast
<1>9. Silent(r)'
  BY <1>2, <1>7, NoEnvelopeFacts DEF Silent, Frames
<1>10. CASE ack[r].said = 0
  BY <1>1, <1>4, <1>6, <1>8, <1>9, <1>10 DEF SaidOK
<1>11. CASE ack[r].said # 0
  <2>1. Saying(r)
    BY <1>1, <1>11 DEF SaidOK
  <2>2. ack[r].shown
    BY <1>1, <1>5, <2>1 DEF Saying
  <2>3. \A f \in Frames(r)' : f.kind # "opening"
    BY <1>9 DEF Silent
  <2>4. Saying(r)'
    BY <1>1, <1>2, <1>4, <1>6, <1>9, <2>1, <2>2, <2>3 DEF Saying, Late
  <2> QED  BY <1>1, <1>4, <1>6, <1>8, <1>11, <2>4 DEF SaidOK
<1> QED  BY <1>10, <1>11

LEMMA TakeSaid ==
  ASSUME IInv, OInv, NEW r \in Requests, Take(r)
  PROVE  SaidOK(r)'
<1>1. PICK e \in Envelope : Taken(r, e)
  BY TakeFacts
<1>2. TurnTypeOK /\ RequestOK(r) /\ SaidOK(r) /\ FrameOK(e) /\ browser[r] \in Browser
      /\ queue[r][1] = e /\ sending[r] = NoEnvelope /\ Len(queue[r]) \in Nat \ {0} /\ 1 \in 1..Len(queue[r])
  BY <1>1 DEF Taken, OInv, TurnTypeOK
<1>3. /\ UNCHANGED <<authority, reply, memo, emitter, generation, ack, topics>>
      /\ sending'[r] = (IF Stale(r, e) \/ e.fence = 0 THEN NoEnvelope ELSE e)
      /\ pc'[r] = (IF e.kind = "error" THEN "release" ELSE pc[r])
      /\ Len(queue'[r]) = Len(queue[r]) - 1
      /\ \A i \in 1..Len(queue'[r]) : i + 1 \in 1..Len(queue[r]) /\ queue'[r][i] = queue[r][i + 1]
      /\ \A i \in 1..Len(queue[r]) : i # 1 => i - 1 \in 1..Len(queue'[r]) /\ queue'[r][i - 1] = queue[r][i]
  BY <1>1 DEF Take, Taken, database, tasks, openings
<1>4. \A f \in Frames(r)' : f \in Frames(r)
  <2>1. sending'[r] \in Frames(r)
    <3>1. sending'[r] \in {sending[r], queue[r][1]}
      BY <1>2, <1>3
    <3> QED  BY <1>2, <3>1 DEF Frames
  <2>2. \A i \in 1..Len(queue'[r]) : queue'[r][i] \in Frames(r)
    BY <1>3 DEF Frames
  <2> QED  BY <2>1, <2>2 DEF Frames
<1>5. e.kind = "error" => pc[r] \in Late
  <2> SUFFICES ASSUME e.kind = "error" PROVE pc[r] \in Late
    OBVIOUS
  <2>1. pc[r] \notin Early
    BY <1>2 DEF RequestOK, EarlyOK
  <2>2. pc[r] \notin Middle
    BY <1>2 DEF RequestOK, MiddleOK, StreamOK, DraftFrameOK
  <2> QED  BY <1>2, <2>1, <2>2 DEF TurnTypeOK, Stages, Early, Middle, Late
<1>6. pc'[r] \in Late => pc[r] \in Late
  BY <1>3, <1>5
<1>7. ErrorLast(r)'
  <2> SUFFICES ASSUME pc'[r] \in Late, NEW i \in 1..Len(queue'[r]), queue'[r][i].kind = "error"
               PROVE  i = Len(queue'[r])
    BY DEF ErrorLast
  <2>1. i + 1 \in 1..Len(queue[r]) /\ queue[r][i + 1].kind = "error"
    BY <1>3
  <2>2. i + 1 = Len(queue[r])
    BY <1>2, <1>6, <2>1 DEF SaidOK, ErrorLast
  <2> QED  BY <1>2, <1>3, <2>2
<1>8. CASE ack[r].said = 0
  BY <1>2, <1>3, <1>4, <1>7, <1>8 DEF SaidOK, Silent
<1>9. browser'[r].got = browser[r].got
  <2>1. PICK b \in Browser : b = browser[r]
    BY <1>2
  <2>2. e.fence = 0 => Received(b, e).got = b.got
    <3>1. e.fence = 0 => e.kind \in {"none", "revision", "error"}
      BY <1>2 DEF FrameOK
    <3>2. /\ e.kind = "revision" /\ e.revision > b.revision => Received(b, e).got = b.got
          /\ e.kind \in {"none", "opening"} \/ (e.kind = "revision" /\ ~(e.revision > b.revision)) =>
               Received(b, e) = b
          /\ e.kind = "error" => Received(b, e).got = b.got
      BY <1>2, ReceivedFacts
    <3> QED  BY <3>1, <3>2
  <2>3. browser'[r] = b \/ (e.fence = 0 /\ browser'[r] = Received(b, e))
    BY <1>1, <2>1 DEF Taken
  <2> QED  BY <2>1, <2>2, <2>3
<1>10. CASE ack[r].said # 0
  <2>1. Saying(r)
    BY <1>2, <1>10 DEF SaidOK
  <2>2. CASE e.kind = "error"
    <3>1. Len(queue[r]) = 1
      BY <1>2, <1>5, <2>2 DEF SaidOK, ErrorLast
    <3>2. \A i \in 1..Len(queue'[r]) : FALSE
      BY <1>3, <3>1
    <3>3. sending'[r] = NoEnvelope
      BY <1>2, <1>3, <2>2 DEF FrameOK
    <3>4. Silent(r)' /\ NoResults(r)' /\ \A f \in Frames(r)' : f.kind # "opening"
      BY <3>2, <3>3, NoEnvelopeFacts DEF Silent, NoResults, Frames
    <3>5. browser'[r].got = browser[r].got
      BY <1>9
    <3>6. Saying(r)'
      BY <1>3, <2>1, <2>2, <3>4, <3>5 DEF Saying, Late, Admitted
    <3> QED  BY <1>2, <1>3, <1>7, <1>10, <3>6 DEF SaidOK
  <2>3. CASE e.kind # "error"
    <3>1. pc'[r] = pc[r]
      BY <1>3, <2>3
    <3>2. \A f \in Frames(r)' : f.kind = "opening" => OpeningOK(r, f)'
      BY <1>3, <1>4, <2>1, <3>1 DEF Saying, OpeningOK
    <3>3. pc'[r] \in {"await", "commit"} => ack'[r].shown \/ ~Silent(r)'
      <4> SUFFICES ASSUME pc[r] \in {"await", "commit"}, ~Silent(r) PROVE ~Silent(r)'
        BY <1>3, <2>1, <3>1 DEF Saying
      <4>1. PICK i \in 1..Len(queue[r]) : queue[r][i].kind = "opening"
        BY <1>2, NoEnvelopeFacts DEF Silent, Frames
      <4>2. CASE i = 1
        <5>1. e.kind = "opening" /\ OpeningOK(r, e)
          BY <1>2, <2>1, <4>1, <4>2 DEF Saying, Frames
        <5>2. e.fence # 0 /\ ~Stale(r, e)
          BY <1>2, <5>1 DEF FrameOK, OpeningOK, Stale
        <5> QED  BY <1>3, <5>1, <5>2 DEF Silent, Frames
      <4>3. CASE i # 1
        BY <1>3, <4>1, <4>3 DEF Silent, Frames
      <4> QED  BY <4>2, <4>3
    <3>4. ~Silent(r)' => ~Silent(r)
      BY <1>4 DEF Silent
    <3>5. NoResults(r) => NoResults(r)'
      <4> SUFFICES ASSUME NoResults(r) PROVE NoResults(r)'
        OBVIOUS
      <4>1. e.kind # "result" /\ NoEnvelope.kind # "result"
        BY <1>2, NoEnvelopeFacts DEF NoResults
      <4>2. sending'[r] \in {NoEnvelope, e}
        BY <1>3
      <4>3. \A i \in 1..Len(queue'[r]) : queue'[r][i].kind # "result"
        BY <1>3 DEF NoResults
      <4> QED  BY <4>1, <4>2, <4>3 DEF NoResults
    <3>6. browser'[r].got = browser[r].got
      BY <1>9
    <3>7. Admitted(r)' = Admitted(r)
      BY <1>3 DEF Admitted
    <3>8. /\ memo' = memo /\ emitter' = emitter /\ topics' = topics /\ authority' = authority
          /\ reply' = reply /\ ack' = ack
      BY <1>3
    <3>9. (pc[r] \in {"await", "commit"} \/ ~Silent(r) => (emitter[r].fence = authority => topics))'
      BY <2>1, <3>1, <3>4, <3>8 DEF Saying
    <3>10. (reply.text.by # r => browser[r].got = NoText /\ NoResults(r))'
      BY <2>1, <3>5, <3>6, <3>8 DEF Saying
    <3>11. Saying(r)'
      BY <2>1, <3>1, <3>2, <3>3, <3>7, <3>8, <3>9, <3>10 DEF Saying
    <3> QED  BY <1>2, <1>3, <1>7, <1>10, <3>11 DEF SaidOK
  <2> QED  BY <2>2, <2>3
<1> QED  BY <1>8, <1>10

LEMMA SendSaid ==
  ASSUME IInv, OInv, IInv', NEW r \in Requests, Send(r)
  PROVE  SaidOK(r)'
<1>1. TurnTypeOK /\ RequestOK(r) /\ RequestOK(r)' /\ SaidOK(r) /\ FrameOK(sending[r])
      /\ browser \in [Requests -> Browser] /\ sending \in [Requests -> Envelope] /\ pc \in [Requests -> Stages]
      /\ ack \in [Requests -> Ack] /\ ack[r] \in Ack
  BY DEF IInv, OInv, TurnTypeOK, OpeningTypeOK, RequestOK, FramesOK
<1>2. /\ UNCHANGED <<authority, reply, memo, emitter, generation, queue, topics>>
      /\ sending'[r] = NoEnvelope /\ browser'[r] = Received(browser[r], sending[r])
      /\ pc'[r] = IF sending[r].kind = "result" THEN "ending" ELSE pc[r]
  BY <1>1 DEF Send, database, tasks
<1>3. /\ ack'[r].said = ack[r].said
      /\ sending[r].kind # "opening" => ack'[r].shown = ack[r].shown
      /\ sending[r].kind = "opening" => ack'[r].shown
  BY <1>1 DEF Send, Ack
<1>4. \A f \in Frames(r)' : f \in Frames(r) \/ f = NoEnvelope
  BY <1>2 DEF Frames
<1>5. Silent(r) => Silent(r)'
  BY <1>4, NoEnvelopeFacts DEF Silent
<1>6. sending[r].kind = "result" => pc[r] \in Late
  <2> SUFFICES ASSUME sending[r].kind = "result" PROVE pc[r] \in Late
    OBVIOUS
  <2>1. pc[r] \notin Early
    BY <1>1, NoEnvelopeFacts DEF RequestOK, EarlyOK
  <2>2. pc[r] \notin Middle
    BY <1>1 DEF RequestOK, MiddleOK, StreamOK, DraftFrameOK
  <2> QED  BY <1>1, <2>1, <2>2 DEF Stages, Early, Middle, Late
<1>7. ErrorLast(r)'
  BY <1>1, <1>2, <1>6 DEF SaidOK, ErrorLast
<1>8. CASE ack[r].said = 0
  <2>1. ~ack[r].shown /\ Silent(r) /\ sending[r].kind # "opening"
    BY <1>1, <1>8 DEF SaidOK, Silent, Frames
  <2> QED  BY <1>1, <1>2, <1>3, <1>5, <1>7, <1>8, <2>1 DEF SaidOK
<1>9. CASE ack[r].said # 0
  <2>1. Saying(r)
    BY <1>1, <1>9 DEF SaidOK
  <2>2. ack[r].shown => ack'[r].shown
    BY <1>3
  <2>3. NoResults(r) => NoResults(r)'
    BY <1>2, NoEnvelopeFacts DEF NoResults
  <2>4. CASE sending[r].kind = "result"
    <3>1. reply.text.by = r
      BY <2>1, <2>4 DEF Saying, NoResults
    <3>2. queue'[r] = <<>>
      <4>1. LateOK(r)'
        BY <1>1, <1>2, <2>4 DEF RequestOK, Late
      <4> QED  BY <1>2, <2>4, <4>1 DEF LateOK, Unanswered, Answering, Answered
    <3>3. Silent(r)' /\ \A f \in Frames(r)' : f.kind # "opening"
      <4>1. Len(queue'[r]) = 0
        BY <3>2
      <4> QED  BY <1>2, <4>1, NoEnvelopeFacts DEF Silent, Frames
    <3>4. Saying(r)'
      BY <1>2, <2>1, <2>2, <2>4, <3>1, <3>3 DEF Saying, Late, Admitted
    <3> QED  BY <1>1, <1>2, <1>3, <1>7, <1>9, <3>4 DEF SaidOK
  <2>5. CASE sending[r].kind # "result"
    <3>1. pc'[r] = pc[r]
      BY <1>2, <2>5
    <3>2. \A f \in Frames(r)' : f.kind = "opening" => OpeningOK(r, f)'
      BY <1>2, <1>4, <2>1, <3>1, NoEnvelopeFacts DEF Saying, OpeningOK
    <3>3. ack'[r].shown \/ (Silent(r)' => Silent(r))
      <4>1. CASE sending[r].kind = "opening"
        BY <1>3, <4>1
      <4>2. CASE sending[r].kind # "opening"
        BY <1>2, <4>2 DEF Silent, Frames
      <4> QED  BY <4>1, <4>2
    <3>4. browser'[r].got = browser[r].got
      <4>1. sending[r].kind \in {"none", "revision", "opening", "delta", "error"}
        BY <1>1, <2>5 DEF Envelope
      <4>2. PICK e : e = sending[r]
        OBVIOUS
      <4>3. Received(browser[r], e).got = browser[r].got
        BY <1>1, <4>1, <4>2, ReceivedFacts
      <4> QED  BY <1>2, <4>2, <4>3
    <3>5. Saying(r)'
      BY <1>2, <1>3, <1>5, <2>1, <2>2, <2>3, <3>1, <3>2, <3>3, <3>4 DEF Saying, Admitted
    <3> QED  BY <1>1, <1>2, <1>3, <1>7, <1>9, <3>5 DEF SaidOK
  <2> QED  BY <2>4, <2>5
<1> QED  BY <1>8, <1>9

\* Only drafts are dropped, and an opening is none.
LEMMA DropSaid ==
  ASSUME IInv, OInv, NEW r \in Requests, Drop(r)
  PROVE  SaidOK(r)'
<1>1. TurnTypeOK /\ SaidOK(r) /\ sending \in [Requests -> Envelope]
  BY DEF IInv, OInv, TurnTypeOK
<1>2. /\ UNCHANGED <<authority, reply, pc, memo, emitter, generation, queue, browser, ack, topics>>
      /\ sending'[r] = NoEnvelope /\ sending[r].draft
  BY <1>1 DEF Drop, database, tasks, openings
<1>3. sending[r].kind # "opening"
  BY <1>1, <1>2 DEF SaidOK, Saying, OpeningOK, Silent, Frames
<1>4. \A f \in Frames(r)' : f \in Frames(r) \/ f = NoEnvelope
  BY <1>2 DEF Frames
<1>5. Silent(r) <=> Silent(r)'
  BY <1>2, <1>3, NoEnvelopeFacts DEF Silent, Frames
<1>6. ErrorLast(r)'
  BY <1>1, <1>2 DEF SaidOK, ErrorLast
<1>7. ASSUME Saying(r) PROVE Saying(r)'
  <2>1. \A f \in Frames(r)' : f.kind = "opening" => OpeningOK(r, f)'
    BY <1>2, <1>4, <1>7, NoEnvelopeFacts DEF Saying, OpeningOK
  <2>2. NoResults(r) => NoResults(r)'
    BY <1>2, NoEnvelopeFacts DEF NoResults
  <2> QED  BY <1>2, <1>5, <1>7, <2>1, <2>2 DEF Saying, Admitted
<1> QED  BY <1>1, <1>2, <1>5, <1>6, <1>7 DEF SaidOK

\* A request that stops sends nothing more.
LEMMA StopSaid ==
  ASSUME IInv, OInv, NEW r \in Requests, Break(r) \/ Disconnect(r) \/ Crash(r)
  PROVE  SaidOK(r)'
<1>1. TurnTypeOK /\ SaidOK(r) /\ browser[r] \in Browser
  BY DEF IInv, OInv, TurnTypeOK
<1>2. /\ UNCHANGED <<reply, ack, topics, authority>>
      /\ pc'[r] \in {"release", "dead"} /\ queue'[r] = <<>> /\ sending'[r] = NoEnvelope
      /\ generation'[r] = NoGeneration /\ browser'[r] = Failed(browser[r])
      /\ memo'[r] \in {memo[r], NoMemo}
  BY <1>1 DEF Break, Disconnect, Crash, Aborted, Goto, database, openings, TurnTypeOK
<1>3. Silent(r)' /\ NoResults(r)' /\ ErrorLast(r)'
  BY <1>2, FramesEmptied
<1>4. memo'[r].unreviewed => memo'[r].revisable
  BY <1>1, <1>2 DEF SaidOK, NoMemo
<1>5. ASSUME Saying(r) PROVE Saying(r)'
  <2>1. ~memo'[r].revisable
    BY <1>2, <1>5 DEF Saying, NoMemo
  <2>2. browser'[r].got = browser[r].got
    BY <1>1, <1>2, FailedFacts
  <2>3. ~Admitted(r)'
    BY <1>2, OffFacts DEF Admitted
  <2>4. \A f \in Frames(r)' : f.kind # "opening"
    BY <1>3 DEF Silent
  <2> QED  BY <1>2, <1>3, <1>5, <2>1, <2>2, <2>3, <2>4 DEF Saying, Late
<1> QED  BY <1>1, <1>2, <1>3, <1>4, <1>5 DEF SaidOK

LEMMA EndSaid ==
  ASSUME IInv, OInv, NEW r \in Requests, RecordDelivery(r) \/ Release(r)
  PROVE  SaidOK(r)'
<1>1. TurnTypeOK /\ SaidOK(r) /\ RequestOK(r)
  BY DEF IInv, OInv
<1>2. /\ UNCHANGED <<reply, ack, topics, authority, generation, queue, sending, browser>>
      /\ pc[r] \in {"ending", "release"} /\ pc'[r] \in {"release", "over"}
      /\ memo'[r] \in {memo[r], NoMemo}
  BY <1>1 DEF RecordDelivery, Release, Goto, tasks, stream, openings, TurnTypeOK
<1>3. Frames(r)' = Frames(r) /\ NoResults(r)' = NoResults(r)
  BY <1>2 DEF Frames, NoResults
<1>4. ErrorLast(r)'
  BY <1>1, <1>2 DEF SaidOK, ErrorLast, Late
<1>5. memo'[r].unreviewed => memo'[r].revisable
  BY <1>1, <1>2 DEF SaidOK, NoMemo
<1>6. ASSUME Saying(r) PROVE Saying(r)'
  <2>1. \A f \in Frames(r) : f.kind # "opening"
    BY <1>2, <1>6 DEF Saying, OpeningOK
  <2>2. ~memo'[r].revisable
    BY <1>2, <1>6 DEF Saying, NoMemo
  <2>3. Silent(r)' /\ \A f \in Frames(r)' : f.kind # "opening"
    BY <1>3, <2>1 DEF Silent
  <2> QED  BY <1>2, <1>3, <1>6, <2>2, <2>3 DEF Saying, Late, Admitted
<1>7. Silent(r) => Silent(r)'
  BY <1>3 DEF Silent
<1> QED  BY <1>1, <1>2, <1>4, <1>5, <1>6, <1>7 DEF SaidOK

LEMMA SaidStep ==
  ASSUME IInv, OInv, IInv', NEW r \in Requests, Step(r), Moves
  PROVE  SaidOK(r)'
<1>1. CASE Fails(r)
  <2>1. CASE pc[r] \in Early \cup Middle
    BY <1>1, <2>1, FailsSaid
  <2>2. CASE pc[r] \notin Early \cup Middle
    <3>1. ~(Open(r) \/ Producer(r) \/ CommitLost(r))
      BY <2>2 DEF Open, Producer, CommitLost, Look, Status, Cleared, Accept, Reviewed, Prepare, Start, Retract,
         Complete, GiveUp, Commit, CommitFails, Replay, Early, Middle
    <3>2. Background(r) \/ Response(r) \/ ReviewFails(r) \/ ModelFails(r) \/ Disconnect(r) \/ Crash(r)
      BY <3>1 DEF Step
    <3>3. CASE Background(r) \/ ReviewFails(r) \/ ModelFails(r)
      <4>1. CASE Write(r) \/ Restart(r)
        <5>1. pc' = pc /\ pc'[r] = "sent"
          BY <1>1, <4>1 DEF Write, Restart, Fails, Goto, IInv, TurnTypeOK
        <5>2. generation[r].state = "writing"
          BY <4>1 DEF Write, Restart, Writing
        <5>3. LateOK(r)
          BY <5>1 DEF IInv, RequestOK, Late
        <5> QED  BY <5>2, <5>3, OffFacts DEF LateOK
      <4>2. CASE ~(Write(r) \/ Restart(r))
        BY <3>3, <4>2, TasksSaid DEF Background
      <4> QED  BY <4>1, <4>2
    <3>4. CASE Response(r) \/ Disconnect(r) \/ Crash(r)
      BY <3>4, TakeSaid, SendSaid, DropSaid, StopSaid, EndSaid DEF Response
    <3> QED  BY <3>2, <3>3, <3>4
  <2> QED  BY <2>1, <2>2
<1>2. CASE ~Fails(r)
  <2>1. ~GiveUp(r) /\ ~CommitFails(r)
    BY <1>2 DEF GiveUp, CommitFails
  <2>2. CASE Open(r) \/ Producer(r)
    BY <1>2, <2>1, <2>2, EarlySaid, DraftSaid, StartSaid, TasksSaid, CommitSaid DEF Producer
  <2>3. CASE Background(r) \/ ReviewFails(r) \/ ModelFails(r)
    BY <1>2, <2>3, DraftSaid, TasksSaid DEF Background
  <2>4. CASE CommitLost(r)
    BY <2>4, CommitSaid
  <2>5. CASE Response(r) \/ Disconnect(r) \/ Crash(r)
    BY <2>5, TakeSaid, SendSaid, DropSaid, StopSaid, EndSaid DEF Response
  <2> QED  BY <2>2, <2>3, <2>4, <2>5 DEF Step
<1> QED  BY <1>1, <1>2

LEMMA StepSaves ==
  ASSUME NEW r \in Requests, Step(r)
  PROVE  reply' = reply \/ (reply = NoReply /\ reply'.text.by = r)
<1>1. CASE Commit(r) \/ CommitLost(r)
  <2>1. PICK same, next : Save(r, same, next)
    BY <1>1 DEF Commit, CommitLost
  <2>2. reply = NoReply
    BY <1>1 DEF Commit, CommitLost, Savable
  <2>3. reply'.text = Final(r, same) /\ Final(r, same).by = r
    BY <2>1 DEF Save, Final
  <2> QED  BY <2>2, <2>3
<1>2. CASE (Producer(r) /\ ~Commit(r)) \/ Open(r)
  BY <1>2 DEF Producer, Open, Look, Status, Cleared, Accept, Reviewed, Prepare, Start,
     Retract, Complete, GiveUp, CommitFails, Replay, Fails, database
<1>3. CASE Background(r) \/ ReviewFails(r) \/ ModelFails(r)
  BY <1>3 DEF Background, ReviewFails, ModelFails, ReviewReads, ReviewEnds, CompleteReview, Admit, Write,
     Restart, Finish, database
<1>4. CASE Response(r) \/ Disconnect(r) \/ Crash(r)
  BY <1>4 DEF Response, Take, Send, Drop, Break, Aborted, RecordDelivery, Release, Disconnect, Crash, database
<1> QED  BY <1>1, <1>2, <1>3, <1>4 DEF Step

LEMMA InitOInv ==
  ASSUME Init
  PROVE  OInv
<1>1. OpeningTypeOK
  <2> DEFINE no == FALSE
  <2>1. NoAck = [read |-> 0, said |-> 0, shown |-> no] /\ no \in BOOLEAN
    BY DEF NoAck
  <2> HIDE DEF no
  <2>2. NoAck \in Ack
    BY <2>1 DEF Ack
  <2> QED  BY <2>2 DEF Init, OpeningTypeOK
<1>2. ReceiptOK
  BY DEF Init, ReceiptOK
<1>3. ASSUME NEW r \in Requests PROVE ReadOK(r) /\ AskedOK(r) /\ SaidOK(r)
  <2>1. /\ pc[r] = "new" /\ memo[r] = NoMemo /\ reviewing[r] = NoReview /\ ack[r] = NoAck
        /\ queue[r] = <<>> /\ sending[r] = NoEnvelope /\ source.version = 0
    BY DEF Init
  <2>2. ack[r].read = 0 /\ ack[r].said = 0 /\ ~ack[r].shown /\ ~memo[r].unreviewed
        /\ reviewing[r].state = "off"
    BY <2>1 DEF NoAck, NoMemo, NoReview
  <2>3. Silent(r)
    <3>1. Len(queue[r]) = 0
      BY <2>1
    <3> QED  BY <2>1, <3>1, NoEnvelopeFacts DEF Silent, Frames
  <2> QED  BY <2>1, <2>2, <2>3 DEF ReadOK, Backed, AskedOK, SaidOK, ErrorLast, Late
<1> QED  BY <1>1, <1>2, <1>3 DEF OInv

LEMMA OthersOInv ==
  ASSUME IInv, OInv, TurnTypeOK', Moves, NEW q \in Requests, Untouched(q), Keeps(q),
         reply' = reply \/ (reply = NoReply /\ reply'.text.by # q)
  PROVE  ReadOK(q)' /\ AskedOK(q)' /\ SaidOK(q)'
<1>1. TurnTypeOK /\ ReadOK(q) /\ AskedOK(q) /\ authority' \in Nat /\ source.version \in Nat
      /\ source'.version \in Nat /\ ack[q] \in Ack /\ ack'[q] = ack[q] /\ pc'[q] = pc[q]
      /\ reviewing'[q] = reviewing[q]
  BY DEF IInv, OInv, TurnTypeOK, Source, OpeningTypeOK, Untouched, Same
<1>2. ReadOK(q)'
  <2>1. PICK read, said : read = ack[q].read /\ said = ack[q].said
    OBVIOUS
  <2>2. Backed(read)' /\ Backed(said)'
    <3>1. Backed(read) /\ Backed(said)
      BY <1>1, <2>1 DEF ReadOK
    <3>2. read \in Nat /\ said \in Nat
      BY <1>1, <2>1 DEF Ack
    <3> QED  BY <1>1, <3>1, <3>2, BackedStays
  <2> QED  BY <1>1, <2>1, <2>2 DEF ReadOK
<1>3. AskedOK(q)'
  BY <1>1, AskedStays
<1>4. SaidOK(q)'
  BY <1>1, SaidKept
<1> QED  BY <1>2, <1>3, <1>4

LEMMA NextOInv ==
  ASSUME IInv, OInv, [Next]_vars
  PROVE  OInv'
<1>1. IInv' /\ TurnTypeOK /\ TurnTypeOK'
  BY NextIInv DEF IInv
<1>2. authority' \in Nat /\ source'.version \in Nat
  BY <1>1 DEF TurnTypeOK, Source
<1>3. CASE UNCHANGED vars
  <2>1. UNCHANGED <<authority, source, pending, receipt, holder, reply>> /\ UNCHANGED openings
        /\ \A q \in Requests : Untouched(q)
    BY <1>3 DEF vars, database, tasks, stream, openings, Untouched, Same
  <2>2. Moves /\ ReceiptOK' /\ OpeningTypeOK'
    BY <1>1, <2>1, NothingMoves DEF OInv, OpeningTypeOK, openings
  <2>3. \A q \in Requests : Keeps(q)
    BY <2>1 DEF Keeps
  <2>4. \A q \in Requests : ReadOK(q)' /\ AskedOK(q)' /\ SaidOK(q)'
    BY <1>1, <2>1, <2>2, <2>3, OthersOInv
  <2> QED  BY <2>2, <2>4 DEF OInv
<1>4. ASSUME NEW r \in Requests, Step(r), Next PROVE OInv'
  <2>1. Moves /\ ReceiptOK'
    BY <1>4, DatabaseMoves
  <2>2. OpeningTypeOK'
    BY <1>4, AckTypes
  <2>3. ReadOK(r)' /\ AskedOK(r)' /\ SaidOK(r)'
    BY <1>1, <1>2, <1>4, <2>1, ReadStep, AskedStep, SaidStep
  <2>4. ASSUME NEW q \in Requests, q # r PROVE ReadOK(q)' /\ AskedOK(q)' /\ SaidOK(q)'
    <3>1. Untouched(q)
      BY <1>1, <1>4, <2>4, OthersUntouched DEF OInv
    <3>2. Keeps(q)
      BY <1>1, <1>4, <2>4, StepKeeps
    <3>3. reply' = reply \/ (reply = NoReply /\ reply'.text.by # q)
      BY <1>4, <2>4, StepSaves
    <3> QED  BY <1>1, <2>1, <3>1, <3>2, <3>3, OthersOInv
  <2> QED  BY <2>1, <2>2, <2>3, <2>4 DEF OInv
<1>5. ASSUME Lapse \/ Edit \/ Withdraw \/ EditOther \/ Prefer PROVE OInv'
  <2>1. Moves /\ ReceiptOK'
    BY <1>5, DatabaseMoves DEF Next
  <2>2. OpeningTypeOK'
    BY <1>5 DEF OInv, OpeningTypeOK, Lapse, Edit, Withdraw, EditOther, Prefer, Changes, openings
  <2>3. ASSUME NEW q \in Requests PROVE ReadOK(q)' /\ AskedOK(q)' /\ SaidOK(q)'
    <3>1. Untouched(q)
      BY <1>5, AllUntouched
    <3>2. Keeps(q)
      <4>1. CASE Lapse
        BY <4>1, RequestFacts DEF Lapse, Keeps
      <4>2. CASE Edit \/ Withdraw \/ EditOther \/ Prefer
        <5>1. holder' = holder /\ authority' = authority + 1 /\ authority \in Nat
          BY <1>1, <4>2 DEF Edit, Withdraw, EditOther, Prefer, Changes, TurnTypeOK
        <5> QED  BY <5>1 DEF Keeps
      <4> QED  BY <1>5, <4>1, <4>2
    <3>3. reply' = reply
      BY <1>5 DEF Lapse, Edit, Withdraw, EditOther, Prefer, Changes
    <3> QED  BY <1>1, <2>1, <3>1, <3>2, <3>3, OthersOInv
  <2> QED  BY <2>1, <2>2, <2>3 DEF OInv
<1> QED  BY <1>3, <1>4, <1>5 DEF Next, Step

\* The second invariant says of each request what of an acknowledgement it has
\* read, said and shown, and which opening may still be on its way; it stands on
\* the first.
LEMMA OpeningInvariance == Spec => []OInv
<1>1. Init => OInv
  BY InitOInv
<1>2. IInv /\ OInv /\ [Next]_vars => OInv'
  BY NextOInv
<1> QED  BY <1>1, <1>2, Invariance, PTL DEF Spec

-----------------------------------------------------------------------------
(* The properties.                                                         *)

\* Every variable keeps its type: no envelope, fence, answer or acknowledgement
\* outside of what run_lifetime_turn and the transport pass on.
THEOREM TypesHold == Spec => []TypeOK
<1>1. IInv /\ OInv => TypeOK
  BY DEF IInv, OInv, TypeOK
<1> QED  BY <1>1, Invariance, OpeningInvariance, PTL

\* A page that has its result shows exactly the text the database keeps, after
\* whatever retractions, restarts and drops, behind the acknowledgement it opens
\* with if there is one, and a delivery receipt is only of a reply that was
\* received.
THEOREM DeliveredHolds == Spec => []DeliveredIsSaved
<1>1. ASSUME IInv, OInv PROVE DeliveredIsSaved
  <2>1. ASSUME NEW r \in Requests, browser[r].got \in Text
        PROVE  /\ browser[r].got = reply.text /\ browser[r].shown = Shown(r)
               /\ reply.text.by = r /\ ack[r].said # 0 => ack[r].shown
               /\ ack[r].shown => reply.text.by = r /\ ack[r].said # 0
    <3>1. RequestOK(r) /\ pc[r] \in Stages /\ browser[r].got \notin {NoText, Rebuild} /\ SaidOK(r)
      BY <1>1, <2>1, TextFacts DEF IInv, OInv, TurnTypeOK
    <3>2. pc[r] \notin Early
      BY <3>1 DEF RequestOK, EarlyOK
    <3>3. pc[r] \notin Middle
      BY <3>1 DEF RequestOK, MiddleOK, StreamOK, PageOK
    <3>4. LateOK(r)
      BY <3>1, <3>2, <3>3 DEF RequestOK, Stages, Early, Middle, Late
    <3> QED  BY <3>1, <3>4 DEF LateOK, Unanswered, Answering, Answered, SaidOK, Saying
  <2>2. ASSUME NEW r \in Requests, browser[r].got \in Text
        PROVE  ack[r].shown = (reply.text.by = r /\ ack[r].said # 0)
    <3>1. ack[r].shown \in BOOLEAN
      BY <1>1 DEF OInv, OpeningTypeOK, Ack
    <3> QED  BY <2>1, <2>2, <3>1
  <2> QED  BY <1>1, <2>1, <2>2 DEF IInv, DatabaseOK, DeliveredIsSaved, DeliveredText, Shown
<1> QED  BY <1>1, Invariance, OpeningInvariance, PTL

\* What a step can show: nothing, or a frame that its guard allows.
LEMMA ShowsNothing ==
  ASSUME UNCHANGED browser
  PROVE  TextIsCurrentWhenSent
BY DEF TextIsCurrentWhenSent

LEMMA ShowsLess ==
  ASSUME TurnTypeOK, NEW r \in Requests, NEW b, browser' = [browser EXCEPT ![r] = b],
         b.shown \subseteq browser[r].shown, b.got = browser[r].got
  PROVE  TextIsCurrentWhenSent
BY DEF TextIsCurrentWhenSent, TurnTypeOK

LEMMA TakeShows ==
  ASSUME IInv, NEW r \in Requests, Take(r)
  PROVE  TextIsCurrentWhenSent
<1>1. PICK e \in Envelope : Taken(r, e)
  BY TakeFacts
<1>2. browser[r] \in Browser /\ FrameOK(e) /\ TurnTypeOK
      /\ browser'[r] = (IF Stale(r, e) \/ e.fence # 0 THEN browser[r] ELSE Received(browser[r], e))
      /\ \A q \in Requests \ {r} : browser'[q] = browser[q]
  BY <1>1 DEF Taken, TurnTypeOK, Same
<1>3. /\ e.kind = "revision" /\ e.revision > browser[r].revision =>
           Received(browser[r], e).shown = {} /\ Received(browser[r], e).got = browser[r].got
      /\ e.kind \in {"none", "opening"} \/ (e.kind = "revision" /\ ~(e.revision > browser[r].revision)) =>
           Received(browser[r], e) = browser[r]
      /\ e.kind = "error" =>
           /\ Received(browser[r], e).got = browser[r].got
           /\ Received(browser[r], e).shown = browser[r].shown \/ Received(browser[r], e).shown = {}
  BY <1>2, ReceivedFacts
<1>4. browser'[r].shown \subseteq browser[r].shown /\ browser'[r].got = browser[r].got
  BY <1>2, <1>3 DEF FrameOK
<1> QED  BY <1>2, <1>4 DEF TextIsCurrentWhenSent

LEMMA SendShows ==
  ASSUME IInv, NEW r \in Requests, Send(r)
  PROVE  TextIsCurrentWhenSent
<1>1. TurnTypeOK /\ DatabaseOK /\ browser[r] \in Browser /\ sending[r] \in Envelope /\ FrameOK(sending[r])
      /\ authority \in Nat /\ reply \in Reply
  BY DEF IInv, RequestOK, TurnTypeOK, FramesOK
<1>2. PICK e : e = sending[r]
  OBVIOUS
<1>3. e \in Envelope /\ FrameOK(e) /\ e.fence = authority
  BY <1>1, <1>2 DEF Send, Allowed, Guard, DraftGuard, FinalGuard, Current
<1>4. browser'[r] = Received(browser[r], e) /\ \A q \in Requests \ {r} : browser'[q] = browser[q]
  BY <1>1, <1>2 DEF Send, TurnTypeOK
<1>5. e.kind \in {"none", "revision", "opening", "delta", "result", "error"}
  BY <1>3 DEF Envelope
<1>6. /\ e.kind = "delta" => /\ browser'[r].got = browser[r].got
                             /\ browser'[r].shown \subseteq browser[r].shown \cup {e.text}
      /\ e.kind = "result" => browser'[r].got = e.text /\ browser'[r].shown = browser[r].shown
      /\ e.kind \in {"none", "revision", "opening", "error"} =>
           browser'[r].got = browser[r].got /\ browser'[r].shown \subseteq browser[r].shown
  <2>1. /\ e.kind = "delta" =>
             /\ Received(browser[r], e).got = browser[r].got
             /\ Received(browser[r], e).shown = IF e.revision = browser[r].revision
                                                THEN browser[r].shown \cup {e.text} ELSE browser[r].shown
        /\ e.kind = "result" =>
             Received(browser[r], e).got = e.text /\ Received(browser[r], e).shown = browser[r].shown
    BY <1>1, <1>3, ReceivedFacts
  <2>2. /\ e.kind = "revision" /\ e.revision > browser[r].revision =>
             Received(browser[r], e).shown = {} /\ Received(browser[r], e).got = browser[r].got
        /\ e.kind \in {"none", "opening"} \/ (e.kind = "revision" /\ ~(e.revision > browser[r].revision)) =>
             Received(browser[r], e) = browser[r]
        /\ e.kind = "error" =>
             /\ Received(browser[r], e).got = browser[r].got
             /\ Received(browser[r], e).shown = browser[r].shown \/ Received(browser[r], e).shown = {}
    BY <1>1, <1>3, ReceivedFacts
  <2> QED  BY <1>4, <2>1, <2>2
<1>7. e.kind = "delta" => e.text.under = authority \/ reply = [text |-> e.text, authority |-> authority]
  BY <1>1, <1>3 DEF FrameOK, Reply
<1>8. e.kind = "result" /\ e.text # Rebuild => reply.authority = authority /\ source.status = "active"
  <2> SUFFICES ASSUME e.kind = "result", e.text # Rebuild
               PROVE  reply.authority = authority /\ source.status = "active"
    OBVIOUS
  <2>1. reply # NoReply /\ authority <= reply.authority
    BY <1>3 DEF FrameOK, AnswerOK
  <2>2. reply.authority \in Nat /\ reply.authority <= authority
    BY <1>1, <2>1 DEF DatabaseOK, Reply
  <2>3. reply.authority = authority
    BY <1>1, <2>1, <2>2
  <2> QED  BY <1>1, <2>1, <2>3 DEF DatabaseOK
<1> QED  BY <1>4, <1>5, <1>6, <1>7, <1>8 DEF TextIsCurrentWhenSent

LEMMA AnyStepShows ==
  ASSUME IInv, Next
  PROVE  TextIsCurrentWhenSent
<1> USE ShowsNothing
<1>1. ASSUME NEW r \in Requests, Producer(r) \/ Open(r) \/ CommitLost(r) PROVE TextIsCurrentWhenSent
  BY <1>1 DEF Producer, Open, CommitLost, Look, Status, Cleared, Accept, Reviewed, Prepare, Start, Say,
     Retract, Complete, GiveUp, Commit, CommitFails, Replay, Fails, stream
<1>2. ASSUME NEW r \in Requests, Background(r) \/ ReviewFails(r) \/ ModelFails(r)
      PROVE  TextIsCurrentWhenSent
  BY <1>2 DEF Background, ReviewFails, ModelFails, ReviewReads, ReviewEnds, Admit, Write, Restart, Finish,
     stream
<1>3. ASSUME NEW r \in Requests, Drop(r) \/ RecordDelivery(r) \/ Release(r)
      PROVE  TextIsCurrentWhenSent
  BY <1>3 DEF Drop, RecordDelivery, Release, stream
<1>4. ASSUME NEW r \in Requests, Break(r) \/ Disconnect(r) \/ Crash(r)
      PROVE  TextIsCurrentWhenSent
  <2>1. TurnTypeOK /\ browser[r] \in Browser
    BY DEF IInv, TurnTypeOK
  <2>2. browser' = [browser EXCEPT ![r] = Failed(browser[r])]
    BY <1>4 DEF Break, Disconnect, Crash, Aborted
  <2> QED  BY <2>1, <2>2, FailedFacts, ShowsLess
<1>5. ASSUME Lapse \/ Edit \/ Withdraw \/ EditOther \/ Prefer
      PROVE  TextIsCurrentWhenSent
  BY <1>5 DEF Lapse, Edit, Withdraw, EditOther, Prefer, Changes, stream
<1> QED  BY <1>1, <1>2, <1>3, <1>4, <1>5, TakeShows, SendShows DEF Next, Response

LEMMA SavesOnce ==
  ASSUME IInv, NEW r \in Requests, pc[r] = "commit", Savable(r),
         NEW same \in BOOLEAN, NEW next \in {authority, authority + 1}, Save(r, same, next)
  PROVE  ReplyIsSavedOnce
<1>1. MiddleOK(r) /\ DatabaseOK
  BY DEF IInv, RequestOK, Middle
<1>2. generation[r].under = emitter[r].fence
  BY <1>1 DEF MiddleOK
<1>3. reply' = [text |-> Final(r, same), authority |-> next]
  BY DEF Save
<1>4. reply'.text.under = authority
  BY <1>2, <1>3 DEF Final, Savable, FinalGuard, Current
<1> QED  BY <1>1, <1>4 DEF ReplyIsSavedOnce, Savable, FinalGuard, DatabaseOK

LEMMA AnyStepSaves ==
  ASSUME IInv, Next
  PROVE  ReplyIsSavedOnce
<1>1. ASSUME UNCHANGED reply PROVE ReplyIsSavedOnce
  BY <1>1 DEF ReplyIsSavedOnce
<1> USE <1>1
<1>2. ASSUME NEW r \in Requests, Commit(r) \/ CommitLost(r) PROVE ReplyIsSavedOnce
  BY <1>2, SavesOnce DEF Commit, CommitLost
<1>3. ASSUME NEW r \in Requests, Producer(r) \/ Open(r) PROVE ReplyIsSavedOnce
  BY <1>2, <1>3 DEF Producer, Open, Look, Status, Cleared, Accept, Reviewed, Prepare, Start,
     Retract, Complete, GiveUp, CommitFails, Replay, Fails, database
<1>4. ASSUME NEW r \in Requests, Background(r) \/ ReviewFails(r) \/ ModelFails(r)
      PROVE  ReplyIsSavedOnce
  BY <1>4 DEF Background, ReviewFails, ModelFails, ReviewReads, ReviewEnds, CompleteReview, Admit, Write,
     Restart, Finish, database
<1>5. ASSUME NEW r \in Requests, Response(r) \/ Disconnect(r) \/ Crash(r)
      PROVE  ReplyIsSavedOnce
  BY <1>5 DEF Response, Take, Send, Drop, Break, Aborted, RecordDelivery, Release, Disconnect, Crash, database
<1>6. ASSUME Lapse \/ Edit \/ Withdraw \/ EditOther \/ Prefer
      PROVE  ReplyIsSavedOnce
  BY <1>6 DEF Lapse, Edit, Withdraw, EditOther, Prefer, Changes
<1> QED  BY <1>2, <1>3, <1>4, <1>5, <1>6 DEF Next

LEMMA OpeningSends ==
  ASSUME IInv, OInv, Next
  PROVE  OpeningIsReviewedWhenSent
<1> SUFFICES ASSUME NEW r \in Requests, ack'[r].shown, ~ack[r].shown
             PROVE  /\ ack[r].said = memo[r].version
                    /\ pending = {} /\ topics
                    /\ source.version = ack[r].said => receipt = "clear"
  BY DEF OpeningIsReviewedWhenSent
<1>1. TurnTypeOK /\ SaidOK(r) /\ ReadOK(r) /\ RequestOK(r) /\ ack[r] \in Ack /\ FrameOK(sending[r])
  BY DEF IInv, OInv, OpeningTypeOK, RequestOK, FramesOK
<1>2. Step(r)
  <2>1. ASSUME NEW q \in Requests, Step(q), q # r PROVE FALSE
    <3>1. Untouched(r)
      BY <1>1, <2>1, OthersUntouched DEF OInv
    <3> QED  BY <3>1 DEF Untouched
  <2>2. ~(Lapse \/ Edit \/ Withdraw \/ EditOther \/ Prefer)
    BY AllUntouched DEF Untouched
  <2> QED  BY <2>1, <2>2 DEF Next, Step
<1>3. Send(r) /\ sending[r].kind = "opening"
  BY <1>1, <1>2, AckStep DEF AckMoves, Ack, NoAck
<1>4. ack[r].said # 0 /\ Saying(r) /\ OpeningOK(r, sending[r])
  BY <1>1, <1>3 DEF SaidOK, Saying, Silent, Frames
<1>5. ack[r].said = memo[r].version /\ ~sending[r].draft /\ sending[r].fence = emitter[r].fence
  BY <1>4 DEF Saying, OpeningOK
<1>6. pending = {} /\ emitter[r].fence = authority
  BY <1>3, <1>5 DEF Send, Allowed, Guard, FinalGuard, Current
<1>7. topics
  BY <1>3, <1>4, <1>6 DEF Saying, Silent, Frames
<1>8. source.version = ack[r].said => receipt = "clear"
  BY <1>1, <1>4 DEF ReadOK, Backed
<1> QED  BY <1>5, <1>6, <1>7, <1>8

LEMMA OpeningSaves ==
  ASSUME IInv, OInv, Next
  PROVE  OpeningIsReviewedWhenSaved
<1> SUFFICES ASSUME NEW r \in Requests, reply' # reply, reply'.text.by = r, ack[r].said # 0
             PROVE  ack[r].said = source.version /\ receipt = "clear" /\ topics
  BY DEF OpeningIsReviewedWhenSaved
<1>1. TurnTypeOK /\ SaidOK(r) /\ ReadOK(r) /\ ack[r] \in Ack /\ source.version \in Nat
  BY DEF IInv, OInv, OpeningTypeOK, TurnTypeOK, Source
<1>2. PICK q \in Requests : Step(q)
  BY DEF Next, Step, Lapse, Edit, Withdraw, EditOther, Prefer, Changes
<1>3. q = r
  BY <1>2, StepSaves
<1>4. Commit(r) \/ CommitLost(r)
  <2>1. CASE Producer(r) \/ Open(r)
    BY <2>1 DEF Producer, Open, Look, Status, Cleared, Accept, Reviewed, Prepare, Start,
       Retract, Complete, GiveUp, CommitFails, Replay, Fails, database
  <2>2. CASE Background(r) \/ ReviewFails(r) \/ ModelFails(r)
    BY <2>2 DEF Background, ReviewFails, ModelFails, ReviewReads, ReviewEnds, CompleteReview, Admit, Write,
       Restart, Finish, database
  <2>3. CASE Response(r) \/ Disconnect(r) \/ Crash(r)
    BY <2>3 DEF Response, Take, Send, Drop, Break, Aborted, RecordDelivery, Release, Disconnect, Crash, database
  <2> QED  BY <1>2, <1>3, <2>1, <2>2, <2>3 DEF Step
<1>5. pc[r] = "commit" /\ emitter[r].fence = authority /\ source.version = 1
  BY <1>4 DEF Commit, CommitLost, Savable, FinalGuard, Current
<1>6. Saying(r)
  BY <1>1 DEF SaidOK
<1>7. topics
  BY <1>5, <1>6 DEF Saying
<1>8. ack[r].said \in Nat /\ ack[r].said <= 1
  BY <1>1, <1>5 DEF Ack, ReadOK, Backed
<1>9. ack[r].said = source.version
  BY <1>5, <1>8
<1> QED  BY <1>1, <1>7, <1>9 DEF ReadOK, Backed

\* No step shows a text under an authority that is over, however long ago it was
\* generated and queued, and the reply is saved once, under the authority it was
\* generated under; the one exception, a reviewed acknowledgement, is of the
\* version it answers, of open topics only, and cleared by its review.
THEOREM ReplyFollows == Spec => ReplyFollowsAuthority
<1>1. ASSUME IInv, OInv, [Next]_vars
      PROVE  [TextIsCurrentWhenSent /\ ReplyIsSavedOnce
              /\ OpeningIsReviewedWhenSent /\ OpeningIsReviewedWhenSaved]_vars
  BY <1>1, AnyStepShows, AnyStepSaves, OpeningSends, OpeningSaves
<1> QED  BY <1>1, Invariance, OpeningInvariance, PTL DEF Spec, ReplyFollowsAuthority
=============================================================================
