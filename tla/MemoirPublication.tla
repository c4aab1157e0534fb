-------------------------- MODULE MemoirPublication --------------------------
(***************************************************************************)
(* What the formal memoir promises its owner, without leases, workers or   *)
(* chapters: a request is answered by at most one edition, editions are    *)
(* numbered without gaps or repeats, an edition rests on the authority of  *)
(* its request, and a change of authority takes the edition back before    *)
(* anyone can read it again.                                               *)
(***************************************************************************)
EXTENDS Integers

CONSTANTS Runs, NoRun

VARIABLES
  basis,     \* the current authority
  asked,     \* requests, each with the authority and the revision it was made at
  revision,  \* the number of editions ever published
  current    \* the request whose edition can be read, or NoRun

pubVars == <<basis, asked, revision, current>>

Unasked == [asked |-> FALSE, done |-> FALSE]

Init ==
  /\ basis \in [policy : Nat, content : Nat]
  /\ asked = [r \in Runs |-> Unasked]
  /\ revision = 0
  /\ current = NoRun

\* Only one request is open at a time.
Ask(r) ==
  /\ ~asked[r].asked
  /\ \A q \in Runs : asked[q].asked => asked[q].done
  /\ asked' = [asked EXCEPT ![r].asked = TRUE]
  /\ UNCHANGED <<basis, revision, current>>

\* The open request is answered, once.
Publish(r) ==
  /\ asked[r].asked
  /\ ~asked[r].done
  /\ asked' = [asked EXCEPT ![r].done = TRUE]
  /\ revision' = revision + 1
  /\ current' = r
  /\ UNCHANGED basis

\* A change of authority closes every request and withdraws the edition.
Retract ==
  /\ basis' \in [policy : Nat, content : Nat]
  /\ basis' # basis
  /\ asked' = [r \in Runs |-> [asked[r] EXCEPT !.done = asked[r].asked]]
  /\ current' = NoRun
  /\ UNCHANGED revision

Next ==
  \/ \E r \in Runs : Ask(r) \/ Publish(r)
  \/ Retract

Spec == Init /\ [][Next]_pubVars
=============================================================================
