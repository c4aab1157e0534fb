------------------------- MODULE GuestTransferProofs -------------------------
(***************************************************************************)
(* For any owners, turns, requests, changes and faults: the safety         *)
(* properties of GuestTransfer hold of its specification.  The inductive   *)
(* invariant says what a request that got to some point of its work can    *)
(* rely on, what the phone may rely on when it leaves the guest's session, *)
(* and that the guest has evidence exactly when there are turns to show    *)
(* for it, until both are handed over.                                     *)
(***************************************************************************)
EXTENDS GuestTransfer, TLAPS

ServerTypes ==
  /\ rows \in [Users -> Conversation]
  /\ evidence \in [Users -> Nat]
  /\ detail \in Nat
  /\ answering \in Turns \cup {NoTurn}
  /\ working \in BOOLEAN
  /\ activity \in [Owners -> {"quiet", "replying", "working"}]
  /\ capability \in Capability
  /\ capability.state = "claimed" <=> capability.target # Nobody
  /\ imports \in Imports

CallTypes == calls \in [Calls -> Call]

PhoneTypes ==
  /\ wire \subseteq Turns
  /\ outbox \subseteq Turns
  /\ device \in Device
  /\ parting \in Parting
  /\ linked \in BOOLEAN

BoundTypes == changes \in 0..MaxChanges /\ faults \in 0..MaxFaults

Waits == device.call # NoCall => calls[device.call].op = device.op

\* What a request has done so far still stands.
CallOK(call) ==
  /\ call.op = "attach" => call.as \in Owners
  /\ call.op = "prepare" /\ call.pc = "ok" => capability.state # "none"
  /\ call.op = "attach" /\ call.pc \in {"attached", "filed", "imported", "ok"} =>
       capability.state = "claimed" /\ capability.target = call.as
  /\ call.op = "attach" /\ call.pc \in {"filed", "imported", "ok"} => imports.files
  /\ call.op = "attach" /\ call.pc \in {"imported", "ok"} => imports.results
  /\ call.op = "attach" /\ call.pc = "ok" => imports.project = call.as

CallsOK == \A c \in Calls : CallOK(calls[c])

\* Until the hand-over the guest has evidence exactly when there are turns.
EvidenceOK ==
  /\ capability.state # "claimed" => (evidence[Guest] = 0 <=> rows[Guest] = NoRows)
  /\ capability.state = "open" => (capability.evidence = 0 => capability.rows = NoRows)

Recorded == device.recovery \in {"prepared", "lapsed"}

\* The guest's outbox is not written to: another identity, or an operation that
\* began by looking at it.
Shut == device.identity # Guest \/ device.op = "sign" \/ (device.op = "prepare" /\ device.call # NoCall)

\* What the phone knows before the guest's session is replaced, and after.
DeviceOK ==
  /\ device.op = "attach" => device.identity # Guest
  /\ device.vault => device.identity = Guest
  /\ device.op = "sign" => Recorded
  /\ device.flow /\ device.identity = Guest => Recorded
  /\ Recorded => capability.state # "none"
  /\ Shut /\ ~linked /\ parting = "checked" => outbox = {}
  /\ device.identity # Guest /\ ~linked /\ parting # "none" => Recorded \/ HandedOver
  /\ device.identity # Guest /\ ~linked /\ parting # "none" => device.recovery # "saved"

IInv == /\ ServerTypes /\ CallTypes /\ PhoneTypes /\ BoundTypes
        /\ Waits /\ OneOwner /\ EvidenceOK /\ CallsOK /\ DeviceOK

\* What is written of a hand-over is never taken back.
Progress ==
  /\ capability.state # "none" => capability'.state # "none"
  /\ capability.state = "claimed" =>
       capability'.state = "claimed" /\ capability'.target = capability.target
  /\ imports.files => imports'.files
  /\ imports.results => imports'.results
  /\ capability.state = "claimed" /\ imports.project = capability.target =>
       imports'.project = imports.project

-----------------------------------------------------------------------------
(* Records and functions of the model.                                     *)

LEMMA Names == /\ Guest \notin Owners /\ Nobody \notin Owners /\ Nobody # Guest
               /\ Owners \subseteq Users /\ Guest \in Users /\ Nobody \notin Users
BY UsersAssumption DEF Users

LEMMA NoRowsType == NoRows \in Conversation
BY DEF NoRows, Conversation, Status, Reached

LEMMA TypesTogether ==
  IInv => TypeOK
BY DEF IInv, ServerTypes, CallTypes, PhoneTypes, BoundTypes, Waits, TypeOK

LEMMA FreeCallType == FreeCall \in Call /\ FreeCall.op = "none" /\ FreeCall.pc = "free"
BY Names DEF FreeCall, Call, Users

LEMMA InitIInv == Init => IInv
<1> SUFFICES ASSUME Init PROVE IInv
  OBVIOUS
<1>1. ServerTypes
  <2>1. NoCapability \in Capability /\ NoCapability.state = "none" /\ NoCapability.target = Nobody
    BY NoRowsType DEF NoCapability, Capability
  <2>2. imports \in Imports
    BY Names DEF Init, Imports
  <2> QED BY <2>1, <2>2, NoRowsType DEF Init, ServerTypes
<1>2. CallTypes
  BY FreeCallType DEF Init, CallTypes
<1> DEFINE f == FALSE
          t == TRUE
<1>a. f \in BOOLEAN /\ ~f /\ t \in BOOLEAN /\ t
  OBVIOUS
<1>b. device = [identity |-> Guest, recovery |-> "none", flow |-> f, vault |-> t,
                op |-> "idle", call |-> NoCall]
  BY DEF Init
<1> HIDE DEF f, t
<1>c. /\ device \in Device /\ device.identity = Guest /\ device.recovery = "none"
      /\ ~device.flow /\ device.op = "idle" /\ device.call = NoCall
  BY <1>a, <1>b, Names DEF Device
<1>3. PhoneTypes
  BY <1>c, Names DEF Init, PhoneTypes, Parting
<1>4. BoundTypes
  BY BoundsAssumption DEF Init, BoundTypes
<1>5. Waits
  BY <1>c DEF Waits
<1>6. OneOwner
  BY Names DEF Init, OneOwner
<1>7. EvidenceOK
  BY Names DEF Init, EvidenceOK, NoCapability
<1>8. CallsOK
  BY FreeCallType DEF Init, CallsOK, CallOK
<1>9. DeviceOK
  BY <1>c, Names DEF DeviceOK, Recorded, Shut
<1> QED BY <1>1, <1>2, <1>3, <1>4, <1>5, <1>6, <1>7, <1>8, <1>9 DEF IInv

-----------------------------------------------------------------------------
(* Progress keeps what requests and the phone rely on.                     *)

LEMMA ProgressCall ==
  ASSUME Progress, NEW call, CallOK(call)
  PROVE  CallOK(call)'
BY DEF Progress, CallOK

LEMMA ProgressKeeps ==
  ASSUME IInv, Progress, UNCHANGED <<calls, outbox, device, parting, linked>>
  PROVE  Waits' /\ CallsOK' /\ DeviceOK' /\ CallTypes'
<1>1. Waits' /\ CallTypes'
  BY DEF IInv, Waits, CallTypes
<1>2. CallsOK'
  BY DEF IInv, CallsOK, Progress, CallOK
<1>3. HandedOver => HandedOver'
  BY DEF Progress, HandedOver
<1>4. DeviceOK'
  BY <1>3 DEF IInv, DeviceOK, Recorded, Shut, Progress
<1> QED BY <1>1, <1>2, <1>4

-----------------------------------------------------------------------------
(* What the steps do to the server's state.                                *)

ServerOK == ServerTypes' /\ OneOwner' /\ EvidenceOK' /\ Progress

LEMMA StillServer ==
  ASSUME IInv, UNCHANGED server
  PROVE  ServerOK
BY DEF ServerOK, IInv, ServerTypes, OneOwner, EvidenceOK, Progress, server, conversation

LEMMA AnyRows ==
  ASSUME NEW r \in Conversation, NEW t \in Turns, NEW s \in Status
  PROVE  [r EXCEPT ![t] = s] \in Conversation
BY DEF Conversation

\* A row that exists, and a conversation that has it.
LEMMA SomeRow ==
  ASSUME NEW r \in Conversation, NEW t \in Turns, r[t] # "none"
  PROVE  r # NoRows
BY DEF NoRows

LEMMA NoRow ==
  ASSUME NEW t \in Turns
  PROVE  NoRows[t] = "none"
BY DEF NoRows

LEMMA AcceptServer ==
  ASSUME IInv, NEW t \in Turns, Accept(t)
  PROVE  ServerOK
<1> DEFINE g == [rows[Guest] EXCEPT ![t] = "open"]
<1>1. rows \in [Users -> Conversation] /\ evidence \in [Users -> Nat] /\ rows[Guest] \in Conversation
  BY Names DEF IInv, ServerTypes
<1>2. "open" \in Status
  BY DEF Status, Reached
<1>3. g \in Conversation /\ g # NoRows
  <2>1. g \in Conversation
    BY <1>1, <1>2, AnyRows
  <2>2. g[t] = "open"
    BY <1>1 DEF Conversation
  <2> QED BY <2>1, <2>2, NoRow
<1>4. PICK n \in {0, 1} : n = Advance(t)
  BY DEF Advance
<1>5. rows' = [rows EXCEPT ![Guest] = g] /\ evidence' = [evidence EXCEPT ![Guest] = @ + n]
  BY <1>4 DEF Accept
<1>6. /\ rows' \in [Users -> Conversation] /\ evidence' \in [Users -> Nat]
      /\ rows'[Guest] = g /\ evidence'[Guest] = evidence[Guest] + n
      /\ \A o \in Owners : rows'[o] = rows[o] /\ evidence'[o] = evidence[o]
  BY <1>1, <1>3, <1>5, Names
<1>7. UNCHANGED <<detail, answering, working, activity, capability, imports>>
  BY DEF Accept
<1>8. ServerTypes' /\ OneOwner' /\ Progress
  BY <1>6, <1>7 DEF IInv, ServerTypes, OneOwner, Progress
<1>9. capability.state # "claimed" => evidence'[Guest] # 0
  <2>1. CASE evidence[Guest] = 0 /\ capability.state # "claimed"
    <3>1. \A u \in Users : rows[u] = NoRows
      BY <2>1, Names DEF IInv, OneOwner, EvidenceOK, Users
    <3>2. n = 1
      BY <3>1, <1>4, NoRow DEF Advance
    <3> QED BY <1>6, <2>1, <3>2
  <2>2. CASE evidence[Guest] # 0
    BY <1>1, <1>6, <2>2, Names
  <2> QED BY <2>1, <2>2
<1>10. EvidenceOK'
  BY <1>3, <1>6, <1>7, <1>9 DEF IInv, EvidenceOK
<1> QED BY <1>8, <1>10 DEF ServerOK

LEMMA AnswerServer ==
  ASSUME IInv, Answer
  PROVE  ServerOK
<1> DEFINE g == [rows[Guest] EXCEPT ![answering] = "answered"]
<1>1. /\ rows \in [Users -> Conversation] /\ rows[Guest] \in Conversation
      /\ answering \in Turns /\ rows[Guest][answering] # "none"
  BY Names DEF IInv, ServerTypes, Answer
<1>2. "answered" \in Status
  BY DEF Status, Reached
<1>3. g \in Conversation /\ g # NoRows /\ rows[Guest] # NoRows
  <2>1. g \in Conversation
    BY <1>1, <1>2, AnyRows
  <2>2. g[answering] = "answered"
    BY <1>1 DEF Conversation
  <2> QED BY <1>1, <2>1, <2>2, NoRow
<1>4. rows' = [rows EXCEPT ![Guest] = g]
  BY DEF Answer
<1>5. /\ rows' \in [Users -> Conversation] /\ rows'[Guest] = g
      /\ \A o \in Owners : rows'[o] = rows[o]
  BY <1>1, <1>3, <1>4, Names
<1>6. /\ UNCHANGED <<evidence, detail, activity, capability, imports>>
      /\ answering' = NoTurn /\ working' \in BOOLEAN
  BY DEF Answer, IInv, ServerTypes
<1>7. ServerTypes' /\ OneOwner' /\ Progress
  BY <1>5, <1>6 DEF IInv, ServerTypes, OneOwner, Progress
<1>8. EvidenceOK'
  BY <1>3, <1>5, <1>6 DEF IInv, EvidenceOK
<1> QED BY <1>7, <1>8 DEF ServerOK

\* Sequences that advance for someone who has evidence.
LEMMA AdvanceServer ==
  ASSUME IInv, NEW u \in Users, evidence[u] # 0, evidence' = [evidence EXCEPT ![u] = @ + 1],
         UNCHANGED <<rows, detail, answering, working, activity, capability, imports>>
  PROVE  ServerOK
<1>1. evidence \in [Users -> Nat]
  BY DEF IInv, ServerTypes
<1>2. /\ evidence' \in [Users -> Nat] /\ evidence'[u] # 0
      /\ \A v \in Users : v # u => evidence'[v] = evidence[v]
  BY <1>1
<1>3. \A v \in Users : evidence'[v] = 0 <=> evidence[v] = 0
  BY <1>2
<1>4. ServerTypes' /\ OneOwner' /\ Progress /\ EvidenceOK'
  BY <1>2, <1>3, Names DEF IInv, ServerTypes, OneOwner, Progress, EvidenceOK
<1> QED BY <1>4 DEF ServerOK

\* Replies, deliveries and what no sequence counts.
LEMMA WorkServer ==
  ASSUME IInv, UNCHANGED <<rows, evidence, capability, imports>>,
         detail' \in Nat, answering' \in Turns \cup {NoTurn}, working' \in BOOLEAN,
         activity' \in [Owners -> {"quiet", "replying", "working"}]
  PROVE  ServerOK
BY DEF ServerOK, IInv, ServerTypes, OneOwner, EvidenceOK, Progress

LEMMA BehindServer ==
  ASSUME IInv, Behind, ~Expire
  PROVE  ServerOK
<1>1. /\ detail \in Nat /\ answering \in Turns \cup {NoTurn} /\ working \in BOOLEAN
      /\ activity \in [Owners -> {"quiet", "replying", "working"}]
  BY DEF IInv, ServerTypes
<1>2. CASE Extract
  BY <1>2, Names, AdvanceServer DEF Extract
<1>3. CASE Retouch
  BY <1>1, <1>3, WorkServer DEF Retouch
<1>4. CASE Deliver
  BY <1>1, <1>4, WorkServer DEF Deliver
<1>5. ASSUME NEW o \in Owners, NEW what \in {"replying", "working"}, Engage(o, what)
      PROVE  ServerOK
  BY <1>1, <1>5, WorkServer DEF Engage, conversation
<1>6. ASSUME NEW o \in Owners, Disengage(o) PROVE ServerOK
  BY <1>1, <1>6, WorkServer DEF Disengage, conversation
<1>7. ASSUME NEW o \in Owners, Continue(o) PROVE ServerOK
  BY <1>7, Names, AdvanceServer DEF Continue
<1> QED BY <1>2, <1>3, <1>4, <1>5, <1>6, <1>7 DEF Behind

LEMMA ExpireServer ==
  ASSUME IInv, Expire
  PROVE  ServerOK
<1> DEFINE f == FALSE
<1>1. capability \in Capability /\ f \in BOOLEAN
  BY DEF IInv, ServerTypes
<1>2. capability' = [capability EXCEPT !.live = f]
  BY DEF Expire
<1> HIDE DEF f
<1>3. /\ capability' \in Capability /\ capability'.state = capability.state
      /\ capability'.target = capability.target /\ capability'.rows = capability.rows
      /\ capability'.evidence = capability.evidence
  BY <1>1, <1>2 DEF Capability
<1>4. UNCHANGED <<rows, evidence, detail, answering, working, activity, imports>>
  BY DEF Expire, conversation
<1>5. ServerTypes' /\ OneOwner' /\ EvidenceOK' /\ Progress
  BY <1>3, <1>4 DEF IInv, ServerTypes, OneOwner, EvidenceOK, Progress
<1> QED BY <1>5 DEF ServerOK

LEMMA PrepareServer ==
  ASSUME IInv, NEW c \in Calls, Prepare(c)
  PROVE  ServerOK
<1>1. CASE Preparable
  <2> DEFINE t == TRUE
  <2>1. /\ rows[Guest] \in Conversation /\ evidence[Guest] \in Nat /\ detail \in Nat
        /\ t \in BOOLEAN /\ Nobody \in Owners \cup {Nobody}
    BY Names DEF IInv, ServerTypes
  <2>2. capability' = [state |-> "open", live |-> t, target |-> Nobody,
                       rows |-> rows[Guest], evidence |-> evidence[Guest], detail |-> detail]
    BY <1>1 DEF Prepare
  <2> HIDE DEF t
  <2>3. /\ capability' \in Capability /\ capability'.state = "open" /\ capability'.target = Nobody
        /\ capability'.rows = rows[Guest] /\ capability'.evidence = evidence[Guest]
    BY <2>1, <2>2 DEF Capability
  <2>4. UNCHANGED <<rows, evidence, detail, answering, working, activity, imports>>
    BY DEF Prepare, conversation
  <2>5. capability.state # "claimed"
    BY <1>1 DEF Preparable
  <2>6. ServerTypes' /\ OneOwner' /\ EvidenceOK' /\ Progress
    BY <2>3, <2>4, <2>5 DEF IInv, ServerTypes, OneOwner, EvidenceOK, Progress
  <2> QED BY <2>6 DEF ServerOK
<1>2. CASE ~Preparable
  <2>1. UNCHANGED server
    BY <1>2 DEF Prepare, server
  <2> QED BY <2>1, StillServer
<1> QED BY <1>1, <1>2

\* An owner who claims: what they get, and what nobody else gets.
LEMMA ClaimEffect ==
  ASSUME IInv, NEW o \in Owners, Claimable(o), Claim(o)
  PROVE  /\ capability.state = "open" /\ capability.target = Nobody
         /\ \A p \in Owners : rows[p] = NoRows /\ evidence[p] = 0
         /\ capability' \in Capability /\ capability'.state = "claimed" /\ capability'.target = o
         /\ rows' \in [Users -> Conversation] /\ evidence' \in [Users -> Nat]
         /\ rows'[o] = rows[Guest] /\ rows'[Guest] = NoRows
         /\ evidence'[o] = evidence[Guest] /\ evidence'[Guest] = evidence[Guest]
         /\ \A p \in Owners \ {o} : rows'[p] = rows[p] /\ evidence'[p] = evidence[p]
         /\ UNCHANGED <<answering, working>> /\ detail' = 0
<1>1. /\ capability.state = "open" /\ capability.rows = rows[Guest]
      /\ capability.evidence # 0 => evidence[Guest] = capability.evidence
  BY DEF Claimable, Unclaimed, RowsUnchanged, EvidenceUnchanged
<1>2. /\ rows \in [Users -> Conversation] /\ evidence \in [Users -> Nat]
      /\ capability \in Capability /\ o \in Owners \cup {Nobody}
      /\ capability.rows \in Conversation /\ capability.evidence \in Nat
      /\ capability.target = Nobody
  BY <1>1 DEF IInv, ServerTypes, Capability
<1>3. \A p \in Owners : rows[p] = NoRows /\ evidence[p] = 0
  BY <1>1 DEF IInv, OneOwner
<1>4. /\ capability' \in Capability /\ capability'.state = "claimed" /\ capability'.target = o
  <2>1. capability' = [capability EXCEPT !.state = "claimed", !.target = o]
    BY DEF Claim, Claimed
  <2> QED BY <1>2, <2>1 DEF Capability
<1>5. capability.evidence = evidence[Guest]
  BY <1>1, <1>2 DEF IInv, EvidenceOK
<1>6. evidence' = [evidence EXCEPT ![o] = evidence[Guest]]
  <2>1. CASE capability.evidence # 0
    BY <1>5, <2>1 DEF Claim
  <2>2. CASE capability.evidence = 0
    BY <1>3, <1>5, <2>2 DEF Claim
  <2> QED BY <2>1, <2>2
<1>7. rows' = [rows EXCEPT ![o] = rows[Guest], ![Guest] = NoRows]
  BY <1>1 DEF Claim
<1>8. o # Guest /\ o \in Users /\ Guest \in Users /\ NoRows \in Conversation /\ Owners \subseteq Users
  BY Names, NoRowsType
<1>9. /\ evidence' \in [Users -> Nat] /\ evidence'[o] = evidence[Guest]
      /\ evidence'[Guest] = evidence[Guest] /\ \A p \in Owners \ {o} : evidence'[p] = evidence[p]
  BY <1>2, <1>6, <1>8, Names
<1>10. /\ rows' \in [Users -> Conversation] /\ rows'[o] = rows[Guest] /\ rows'[Guest] = NoRows
       /\ \A p \in Owners \ {o} : rows'[p] = rows[p]
  BY <1>2, <1>7, <1>8, Names
<1> QED BY <1>1, <1>2, <1>3, <1>4, <1>9, <1>10 DEF Claim

LEMMA AttachServer ==
  ASSUME IInv, NEW c \in Calls, Attach(c)
  PROVE  ServerOK
<1> DEFINE o == calls[c].as
<1>1. o \in Owners /\ UNCHANGED <<activity, imports>>
  BY DEF IInv, CallsOK, CallOK, Attach, At
<1>2. CASE Claimable(o) /\ Claim(o)
  <2> HIDE DEF o
  <2>1. /\ capability.state = "open" /\ capability.target = Nobody
        /\ \A p \in Owners : rows[p] = NoRows /\ evidence[p] = 0
        /\ capability' \in Capability /\ capability'.state = "claimed" /\ capability'.target = o
        /\ rows' \in [Users -> Conversation] /\ evidence' \in [Users -> Nat]
        /\ \A p \in Owners \ {o} : rows'[p] = rows[p] /\ evidence'[p] = evidence[p]
        /\ UNCHANGED <<answering, working>> /\ detail' = 0
    BY <1>1, <1>2, ClaimEffect
  <2>2. ServerTypes'
    BY <1>1, <2>1, Names DEF IInv, ServerTypes
  <2>3. OneOwner'
    <3>1. \A p \in Owners : imports.project # p
      BY <2>1 DEF IInv, OneOwner
    <3> QED BY <1>1, <2>1, <3>1 DEF OneOwner
  <2>4. EvidenceOK' /\ Progress
    BY <1>1, <2>1 DEF EvidenceOK, Progress
  <2> QED BY <2>2, <2>3, <2>4 DEF ServerOK
<1>3. CASE ~(Claimable(o) /\ Claim(o))
  <2>1. UNCHANGED server
    BY <1>1, <1>3 DEF Attach, Repeat, server, conversation
  <2> QED BY <2>1, StillServer
<1> QED BY <1>2, <1>3

\* The imports that follow an attachment.
LEMMA ImportServer ==
  ASSUME IInv, capability.state = "claimed", imports' \in Imports,
         imports.files => imports'.files, imports.results => imports'.results,
         imports'.project \in {imports.project, capability.target},
         UNCHANGED <<rows, evidence, detail, answering, working, activity, capability>>
  PROVE  ServerOK
BY DEF ServerOK, IInv, ServerTypes, OneOwner, EvidenceOK, Progress

LEMMA FilesServer ==
  ASSUME IInv, NEW c \in Calls, ImportFiles(c)
  PROVE  ServerOK /\ imports'.files /\ imports'.results = imports.results
         /\ imports'.project = imports.project
<1> DEFINE t == TRUE
<1>1. /\ imports \in Imports /\ t \in BOOLEAN /\ capability.state = "claimed"
      /\ UNCHANGED <<rows, evidence, detail, answering, working, activity, capability>>
  BY DEF IInv, ServerTypes, CallsOK, CallOK, ImportFiles, At, conversation
<1>2. imports' = [imports EXCEPT !.files = t]
  BY DEF ImportFiles
<1>3. t
  OBVIOUS
<1> HIDE DEF t
<1>4. /\ imports' \in Imports /\ imports'.files = t /\ imports'.results = imports.results
      /\ imports'.project = imports.project
  BY <1>1, <1>2 DEF Imports
<1> QED BY <1>1, <1>3, <1>4, ImportServer

LEMMA ResultsServer ==
  ASSUME IInv, NEW c \in Calls, ImportResults(c)
  PROVE  ServerOK /\ imports'.files = imports.files /\ imports'.project = imports.project
         /\ (imports.results \/ ~working => imports'.results)
<1> DEFINE t == TRUE
<1>1. /\ imports \in Imports /\ t \in BOOLEAN /\ capability.state = "claimed"
      /\ UNCHANGED <<rows, evidence, detail, answering, working, activity, capability>>
  BY DEF IInv, ServerTypes, CallsOK, CallOK, ImportResults, At, conversation
<1>2. IF imports.results \/ ~working THEN imports' = [imports EXCEPT !.results = t]
      ELSE imports' = imports
  BY DEF ImportResults
<1>3. t
  OBVIOUS
<1> HIDE DEF t
<1>4. CASE imports.results \/ ~working
  <2>1. /\ imports' \in Imports /\ imports'.results = t /\ imports'.files = imports.files
        /\ imports'.project = imports.project
    BY <1>1, <1>2, <1>4 DEF Imports
  <2> QED BY <1>1, <1>3, <2>1, ImportServer
<1>5. CASE ~(imports.results \/ ~working)
  <2>1. imports' = imports
    BY <1>2, <1>5
  <2> QED BY <1>1, <1>5, <2>1, ImportServer
<1> QED BY <1>4, <1>5

LEMMA RebindServer ==
  ASSUME IInv, NEW c \in Calls, Rebind(c)
  PROVE  /\ ServerOK /\ imports'.files = imports.files /\ imports'.results = imports.results
         /\ imports.project \in {Guest, calls[c].as} => imports'.project = calls[c].as
<1> DEFINE o == calls[c].as
<1>1. /\ imports \in Imports /\ capability.state = "claimed" /\ capability.target = o
      /\ o \in Owners /\ o \in Users
      /\ UNCHANGED <<rows, evidence, detail, answering, working, activity, capability>>
  BY Names DEF IInv, ServerTypes, CallsOK, CallOK, Rebind, At, conversation
<1>2. IF imports.project \in {Guest, o} THEN imports' = [imports EXCEPT !.project = o]
      ELSE imports' = imports
  BY DEF Rebind
<1> HIDE DEF o
<1>3. CASE imports.project \in {Guest, o}
  <2>1. /\ imports' \in Imports /\ imports'.files = imports.files
        /\ imports'.results = imports.results /\ imports'.project = o
    BY <1>1, <1>2, <1>3 DEF Imports
  <2> QED BY <1>1, <2>1, ImportServer DEF o
<1>4. CASE imports.project \notin {Guest, o}
  BY <1>1, <1>2, <1>4, ImportServer DEF o
<1> QED BY <1>3, <1>4

-----------------------------------------------------------------------------
(* What the steps of the API do to requests, and what that means to the    *)
(* phone.                                                                  *)

LEMMA ProgressDevice ==
  ASSUME IInv, Progress, UNCHANGED <<outbox, device, parting, linked>>
  PROVE  DeviceOK'
<1>1. HandedOver => HandedOver'
  BY DEF Progress, HandedOver
<1> QED BY <1>1 DEF IInv, DeviceOK, Recorded, Shut, Progress

LEMMA OneCall ==
  ASSUME IInv, Progress, NEW c \in Calls, NEW k \in Call, CallOK(k)',
         calls' = [calls EXCEPT ![c] = k]
  PROVE  CallTypes' /\ CallsOK'
<1>1. calls \in [Calls -> Call] /\ \A d \in Calls : CallOK(calls[d])
  BY DEF IInv, CallTypes, CallsOK
<1>2. /\ calls' \in [Calls -> Call] /\ calls'[c] = k
      /\ \A d \in Calls : d # c => calls'[d] = calls[d]
  BY <1>1
<1>3. ASSUME NEW d \in Calls PROVE CallOK(calls[d])'
  <2>1. CASE d = c
    <3>1. calls'[d] = k
      BY <1>2, <2>1
    <3> QED BY <3>1 DEF CallOK
  <2>2. CASE d # c
    <3>1. calls'[d] = calls[d]
      BY <1>2, <2>2
    <3> QED BY <1>1, <3>1 DEF CallOK, Progress
  <2> QED BY <2>1, <2>2
<1> QED BY <1>2, <1>3 DEF CallTypes, CallsOK

\* A request that changes while the phone keeps still.
ProcessOK == ServerOK /\ CallTypes' /\ CallsOK' /\ Waits' /\ DeviceOK'

LEMMA StepOK ==
  ASSUME IInv, ServerOK, NEW c \in Calls, NEW k \in Call, CallOK(k)',
         calls' = [calls EXCEPT ![c] = k], device.call = c => k.op = calls[c].op,
         UNCHANGED phone
  PROVE  ProcessOK
<1>1. Progress /\ UNCHANGED <<outbox, device, parting, linked>>
  BY DEF ServerOK, phone
<1>2. CallTypes' /\ CallsOK'
  BY <1>1, OneCall
<1>3. DeviceOK'
  BY <1>1, ProgressDevice
<1>4. Waits'
  <2>1. calls \in [Calls -> Call] /\ (device.call # NoCall => calls[device.call].op = device.op)
    BY DEF IInv, CallTypes, Waits
  <2>2. device.call \in Calls \cup {NoCall}
    BY DEF IInv, PhoneTypes, Device
  <2>3. CASE device.call = c
    BY <1>1, <2>1, <2>3 DEF Waits
  <2>4. CASE device.call # c
    BY <1>1, <2>1, <2>2, <2>4 DEF Waits
  <2> QED BY <2>3, <2>4
<1> QED BY <1>2, <1>3, <1>4 DEF ProcessOK

LEMMA NextCall ==
  ASSUME IInv, NEW c \in Calls,
         NEW pc \in {"free", "sent", "attached", "filed", "imported", "ok", "refused"}
  PROVE  \E k \in Call : /\ k = [calls[c] EXCEPT !.pc = pc]
                         /\ k.op = calls[c].op /\ k.as = calls[c].as /\ k.pc = pc
<1> DEFINE k == [calls[c] EXCEPT !.pc = pc]
<1>1. calls[c] \in Call
  BY DEF IInv, CallTypes
<1>2. k \in Call /\ k.op = calls[c].op /\ k.as = calls[c].as /\ k.pc = pc
  BY <1>1 DEF Call
<1> QED BY <1>2

LEMMA EndOK ==
  ASSUME IInv, ServerOK, NEW c \in Calls, NEW pc \in {"ok", "refused"}, End(c, pc),
         \A k \in Call : k.op = calls[c].op /\ k.as = calls[c].as /\ k.pc = pc => CallOK(k)',
         UNCHANGED phone
  PROVE  ProcessOK
<1>1. CASE device.call = c
  <2>1. PICK k \in Call : /\ k = [calls[c] EXCEPT !.pc = pc]
                          /\ k.op = calls[c].op /\ k.as = calls[c].as /\ k.pc = pc
    BY NextCall
  <2>2. calls' = [calls EXCEPT ![c] = k]
    BY <1>1, <2>1 DEF End
  <2> QED BY <2>1, <2>2, StepOK
<1>2. CASE device.call # c
  <2>1. calls' = [calls EXCEPT ![c] = FreeCall]
    BY <1>2 DEF End
  <2>2. CallOK(FreeCall)'
    BY FreeCallType DEF CallOK
  <2>3. PICK k \in Call : k = FreeCall
    BY FreeCallType
  <2>4. CallOK(k)'
    BY <2>2, <2>3
  <2> QED BY <1>2, <2>1, <2>3, <2>4, StepOK
<1> QED BY <1>1, <1>2

LEMMA RefusedOK ==
  ASSUME IInv, ServerOK, NEW c \in Calls, End(c, "refused"), UNCHANGED phone
  PROVE  ProcessOK
<1>1. calls[c].op = "attach" => calls[c].as \in Owners
  BY DEF IInv, CallsOK, CallOK
<1>2. \A k \in Call : k.op = calls[c].op /\ k.as = calls[c].as /\ k.pc = "refused" => CallOK(k)'
  BY <1>1 DEF CallOK
<1> QED BY <1>2, EndOK

LEMMA PrepareOK ==
  ASSUME IInv, NEW c \in Calls, Prepare(c)
  PROVE  ProcessOK
<1>1. ServerOK /\ UNCHANGED phone /\ calls[c].op = "prepare"
  BY PrepareServer DEF Prepare, At
<1>2. CASE Preparable
  <2>1. capability'.state = "open" /\ End(c, "ok")
    BY <1>2 DEF Prepare
  <2>2. \A k \in Call : k.op = calls[c].op /\ k.as = calls[c].as /\ k.pc = "ok" => CallOK(k)'
    BY <1>1, <2>1 DEF CallOK
  <2> QED BY <1>1, <2>1, <2>2, EndOK
<1>3. CASE ~Preparable
  BY <1>1, <1>3, RefusedOK DEF Prepare
<1> QED BY <1>2, <1>3

\* A request that has got one step further.
LEMMA FurtherOK ==
  ASSUME IInv, ServerOK, NEW c \in Calls, NEW pc \in {"attached", "filed", "imported"},
         Step(c, pc), calls[c].op = "attach", calls[c].as \in Owners,
         capability'.state = "claimed", capability'.target = calls[c].as,
         pc \in {"filed", "imported"} => imports'.files,
         pc = "imported" => imports'.results, UNCHANGED phone
  PROVE  ProcessOK
<1>1. PICK k \in Call : /\ k = [calls[c] EXCEPT !.pc = pc]
                        /\ k.op = calls[c].op /\ k.as = calls[c].as /\ k.pc = pc
  BY NextCall
<1>2. calls' = [calls EXCEPT ![c] = k]
  BY <1>1 DEF Step
<1>3. CallOK(k)'
  BY <1>1 DEF CallOK
<1> QED BY <1>1, <1>2, <1>3, StepOK

LEMMA AttachOK ==
  ASSUME IInv, NEW c \in Calls, Attach(c)
  PROVE  ProcessOK
<1>1. ServerOK /\ UNCHANGED phone /\ calls[c].op = "attach" /\ calls[c].as \in Owners
  BY AttachServer DEF IInv, CallsOK, CallOK, Attach, At
<1>2. CASE Claimable(calls[c].as) /\ Claim(calls[c].as) /\ Step(c, "attached")
  <2>1. capability'.state = "claimed" /\ capability'.target = calls[c].as
    BY <1>1, <1>2, ClaimEffect
  <2> QED BY <1>1, <1>2, <2>1, FurtherOK
<1>3. CASE IsRepeat(calls[c].as) /\ Repeat(calls[c].as) /\ Step(c, "attached")
  <2>1. capability'.state = "claimed" /\ capability'.target = calls[c].as
    BY <1>3 DEF IsRepeat, Repeat
  <2> QED BY <1>1, <1>3, <2>1, FurtherOK
<1>4. CASE End(c, "refused")
  BY <1>1, <1>4, RefusedOK
<1> QED BY <1>2, <1>3, <1>4 DEF Attach

LEMMA FilesOK ==
  ASSUME IInv, NEW c \in Calls, ImportFiles(c)
  PROVE  ProcessOK
<1>1. ServerOK /\ imports'.files
  BY FilesServer
<1>2. /\ UNCHANGED phone /\ calls[c].op = "attach" /\ calls[c].as \in Owners
      /\ capability'.state = "claimed" /\ capability'.target = calls[c].as /\ Step(c, "filed")
  BY DEF IInv, CallsOK, CallOK, ImportFiles, At
<1> QED BY <1>1, <1>2, FurtherOK

LEMMA ResultsOK ==
  ASSUME IInv, NEW c \in Calls, ImportResults(c)
  PROVE  ProcessOK
<1>1. ServerOK /\ imports'.files = imports.files
  BY ResultsServer
<1>2. /\ UNCHANGED phone /\ calls[c].op = "attach" /\ calls[c].as \in Owners
      /\ capability'.state = "claimed" /\ capability'.target = calls[c].as /\ imports.files
  BY DEF IInv, CallsOK, CallOK, ImportResults, At
<1>3. CASE imports.results \/ ~working
  <2>1. imports'.results /\ Step(c, "imported")
    BY <1>3, ResultsServer DEF ImportResults
  <2> QED BY <1>1, <1>2, <2>1, FurtherOK
<1>4. CASE ~(imports.results \/ ~working)
  BY <1>1, <1>2, <1>4, RefusedOK DEF ImportResults
<1> QED BY <1>3, <1>4

LEMMA RebindOK ==
  ASSUME IInv, NEW c \in Calls, Rebind(c)
  PROVE  ProcessOK
<1>1. ServerOK /\ imports'.files = imports.files /\ imports'.results = imports.results
  BY RebindServer
<1>2. /\ UNCHANGED phone /\ calls[c].op = "attach" /\ calls[c].as \in Owners
      /\ capability'.state = "claimed" /\ capability'.target = calls[c].as
      /\ imports.files /\ imports.results
  BY DEF IInv, CallsOK, CallOK, Rebind, At
<1>3. CASE imports.project \in {Guest, calls[c].as}
  <2>1. imports'.project = calls[c].as /\ End(c, "ok")
    BY <1>3, RebindServer DEF Rebind
  <2>2. \A k \in Call : k.op = calls[c].op /\ k.as = calls[c].as /\ k.pc = "ok" => CallOK(k)'
    BY <1>1, <1>2, <2>1 DEF CallOK
  <2> QED BY <1>1, <1>2, <2>1, <2>2, EndOK
<1>4. CASE imports.project \notin {Guest, calls[c].as}
  BY <1>1, <1>2, <1>4, RefusedOK DEF Rebind
<1> QED BY <1>3, <1>4

LEMMA BreakOK ==
  ASSUME IInv, NEW c \in Calls, Break(c)
  PROVE  ProcessOK
<1>1. UNCHANGED server /\ UNCHANGED phone /\ End(c, "refused")
  BY DEF Break
<1>2. ServerOK
  BY <1>1, StillServer
<1> QED BY <1>1, <1>2, RefusedOK

-----------------------------------------------------------------------------
(* The steps of the app that leave the requests alone.                     *)

StepKeeps == ProcessOK /\ PhoneTypes'

LEMMA NotWaiting ==
  ASSUME IInv, device.op \in {"idle", "sign"}
  PROVE  device.call = NoCall
BY DEF IInv, PhoneTypes, Device, Waits, CallTypes, Call

LEMMA PhoneOK ==
  ASSUME IInv, UNCHANGED <<server, calls>>, PhoneTypes', DeviceOK',
         device'.call = NoCall \/ (device'.call = device.call /\ device'.op = device.op)
  PROVE  StepKeeps
<1>1. ServerOK
  BY StillServer
<1>2. CallTypes' /\ CallsOK'
  <2>1. UNCHANGED <<capability, imports, calls>>
    BY DEF server
  <2> QED BY <2>1 DEF IInv, CallTypes, CallsOK, CallOK
<1>3. Waits'
  BY DEF IInv, Waits
<1> QED BY <1>1, <1>2, <1>3 DEF ProcessOK, StepKeeps

\* The database and the file store do not change under the phone.
LEMMA StillHanded ==
  ASSUME UNCHANGED server
  PROVE  HandedOver' <=> HandedOver
BY DEF server, HandedOver

LEMMA OutboxOK ==
  ASSUME IInv, NEW t \in Turns, Send(t) \/ Resend(t) \/ Settle(t) \/ Drop(t)
  PROVE  StepKeeps
<1>1. UNCHANGED <<server, calls, device, parting, linked>>
  BY DEF Send, Resend, Settle, Drop
<1>2. PhoneTypes'
  BY <1>1 DEF IInv, PhoneTypes, Send, Resend, Settle, Drop
<1>3. outbox' = outbox \/ (device.identity = Guest /\ (outbox' = {} \/ Idle))
  BY DEF Send, Resend, Settle, Drop
<1>4. DeviceOK'
  <2>1. UNCHANGED capability
    BY <1>1 DEF server
  <2> QED BY <1>1, <1>3, <2>1, StillHanded, Names DEF IInv, DeviceOK, Recorded, Shut, Idle
<1> QED BY <1>1, <1>2, <1>4, PhoneOK

LEMMA SetFields ==
  ASSUME IInv, NEW op \in {"idle", "prepare", "sign", "attach"}, NEW c \in Calls \cup {NoCall}
  PROVE  /\ Set(op, c) \in Device
         /\ Set(op, c).identity = device.identity /\ Set(op, c).recovery = device.recovery
         /\ Set(op, c).flow = device.flow /\ Set(op, c).vault = device.vault
         /\ Set(op, c).op = op /\ Set(op, c).call = c
BY DEF IInv, PhoneTypes, Device, Set

LEMMA RecoveryField ==
  ASSUME NEW d \in Device, NEW r \in {"none", "saved", "prepared", "lapsed"}
  PROVE  LET e == [d EXCEPT !.recovery = r] IN
         /\ e \in Device /\ e.recovery = r /\ e.identity = d.identity
         /\ e.flow = d.flow /\ e.vault = d.vault /\ e.op = d.op /\ e.call = d.call
BY DEF Device

LEMMA FlowField ==
  ASSUME NEW d \in Device, NEW f \in BOOLEAN
  PROVE  LET e == [d EXCEPT !.flow = f] IN
         /\ e \in Device /\ e.flow = f /\ e.identity = d.identity
         /\ e.recovery = d.recovery /\ e.vault = d.vault /\ e.op = d.op /\ e.call = d.call
BY DEF Device

LEMMA VaultField ==
  ASSUME NEW d \in Device, NEW v \in BOOLEAN
  PROVE  LET e == [d EXCEPT !.vault = v] IN
         /\ e \in Device /\ e.vault = v /\ e.identity = d.identity
         /\ e.recovery = d.recovery /\ e.flow = d.flow /\ e.op = d.op /\ e.call = d.call
BY DEF Device

\* Another identity keeps the record, and neither the flow nor the vault.
LEMMA BecomeFields ==
  ASSUME IInv, NEW u \in Users \cup {Nobody}
  PROVE  /\ Become(u) \in Device /\ Become(u).identity = u
         /\ Become(u).recovery = device.recovery /\ ~Become(u).flow /\ ~Become(u).vault
         /\ Become(u).op = device.op /\ Become(u).call = device.call
<1> DEFINE f == FALSE
<1>1. device \in Device /\ f \in BOOLEAN /\ ~f
  BY DEF IInv, PhoneTypes
<1>2. Become(u) = [device EXCEPT !.identity = u, !.flow = f, !.vault = f]
  BY DEF Become
<1> HIDE DEF f
<1>3. /\ Become(u) \in Device /\ Become(u).identity = u
      /\ Become(u).recovery = device.recovery /\ Become(u).flow = f /\ Become(u).vault = f
      /\ Become(u).op = device.op /\ Become(u).call = device.call
  BY <1>1, <1>2 DEF Device
<1> QED BY <1>1, <1>3

\* A step of the app that changes its record and what it knows of the guest.
LEMMA RecordOK ==
  ASSUME IInv, UNCHANGED <<server, calls, wire, outbox>>, linked' \in BOOLEAN, device' \in Device,
         parting' \in Parting,
         device'.call = NoCall \/ (device'.call = device.call /\ device'.op = device.op),
         DeviceOK'
  PROVE  StepKeeps
<1>1. PhoneTypes'
  BY DEF IInv, PhoneTypes
<1> QED BY <1>1, PhoneOK

LEMMA SignInOK ==
  ASSUME IInv, SignIn
  PROVE  StepKeeps
<1>1. /\ UNCHANGED <<server, calls, wire, outbox, parting, linked>> /\ UNCHANGED capability
      /\ linked \in BOOLEAN /\ parting \in Parting /\ device.identity = Guest
  BY DEF SignIn, server, IInv, PhoneTypes
<1> DEFINE d == Set("prepare", NoCall)
<1>2. /\ d \in Device /\ d.identity = device.identity /\ d.recovery = device.recovery
      /\ d.flow = device.flow /\ d.vault = device.vault /\ d.op = "prepare" /\ d.call = NoCall
  BY SetFields
<1>3. PICK r \in {"none", "saved", "prepared", "lapsed"} :
        r = (IF d.recovery = "none" THEN "saved" ELSE d.recovery)
  BY <1>2 DEF Device
<1>4. device' = [d EXCEPT !.recovery = r]
  BY <1>3 DEF SignIn
<1> HIDE DEF d
<1>5. /\ device' \in Device /\ device'.identity = Guest /\ device'.recovery = r
      /\ device'.flow = device.flow /\ device'.vault = device.vault
      /\ device'.op = "prepare" /\ device'.call = NoCall
  BY <1>1, <1>2, <1>4, RecoveryField
<1>6. DeviceOK'
  BY <1>1, <1>2, <1>3, <1>5, Names DEF IInv, DeviceOK, Recorded, Shut
<1> QED BY <1>1, <1>5, <1>6, RecordOK

LEMMA IdleOK ==
  ASSUME IInv, UNCHANGED <<server, calls, wire, outbox, parting, linked>>,
         device' = Set("idle", NoCall)
  PROVE  StepKeeps
<1>1. UNCHANGED capability /\ linked' \in BOOLEAN /\ parting' \in Parting
  BY DEF server, IInv, PhoneTypes
<1>2. /\ device' \in Device /\ device'.identity = device.identity
      /\ device'.recovery = device.recovery /\ device'.flow = device.flow
      /\ device'.vault = device.vault /\ device'.op = "idle" /\ device'.call = NoCall
  BY SetFields
<1>3. DeviceOK'
  BY <1>1, <1>2, StillHanded DEF IInv, DeviceOK, Recorded, Shut
<1> QED BY <1>1, <1>2, <1>3, RecordOK

\* The sign-in, or anything the app was about to do, ends without a new identity.
LEMMA StayOK ==
  ASSUME IInv, UNCHANGED <<server, calls, wire, outbox, parting, linked>>,
         NEW flow \in BOOLEAN, NEW vault \in BOOLEAN,
         device' = [Set("idle", NoCall) EXCEPT !.flow = flow, !.vault = vault],
         flow => device.flow \/ device.op = "sign", vault => device.vault
  PROVE  StepKeeps
<1>1. UNCHANGED capability /\ linked' \in BOOLEAN /\ parting' \in Parting
  BY DEF server, IInv, PhoneTypes
<1> DEFINE d == Set("idle", NoCall)
<1>2. /\ d \in Device /\ d.identity = device.identity /\ d.recovery = device.recovery
      /\ d.op = "idle" /\ d.call = NoCall
  BY SetFields
<1>3. device' = [d EXCEPT !.flow = flow, !.vault = vault]
  OBVIOUS
<1> HIDE DEF d
<1>4. /\ device' \in Device /\ device'.identity = device.identity
      /\ device'.recovery = device.recovery /\ device'.flow = flow
      /\ device'.vault = vault /\ device'.op = "idle" /\ device'.call = NoCall
  BY <1>2, <1>3 DEF Device
<1>5. DeviceOK'
  BY <1>1, <1>4, StillHanded DEF IInv, DeviceOK, Recorded, Shut
<1> QED BY <1>1, <1>4, <1>5, RecordOK

LEMMA EndsOK ==
  ASSUME IInv, Stay \/ Abandon \/ Restart
  PROVE  StepKeeps
<1>1. /\ UNCHANGED <<server, calls, wire, outbox, parting, linked>>
      /\ device.flow \in BOOLEAN /\ device.vault \in BOOLEAN
      /\ Set("idle", NoCall) \in Device
      /\ Set("idle", NoCall).flow = device.flow /\ Set("idle", NoCall).vault = device.vault
  BY SetFields DEF Stay, Abandon, Restart, IInv, PhoneTypes, Device
<1> DEFINE d == Set("idle", NoCall)
<1>2. /\ \A f \in BOOLEAN : [d EXCEPT !.flow = f] = [d EXCEPT !.flow = f, !.vault = device.vault]
      /\ \A v \in BOOLEAN : [d EXCEPT !.vault = v] = [d EXCEPT !.flow = device.flow, !.vault = v]
  <2>1. d \in Device /\ d.flow = device.flow /\ d.vault = device.vault
    BY <1>1
  <2> HIDE DEF d
  <2> QED BY <2>1 DEF Device
<1>3. CASE Stay
  <2>1. PICK f \in {device.flow, FALSE} : device' = [d EXCEPT !.flow = f]
    BY <1>3 DEF Stay
  <2>2. f \in BOOLEAN /\ device' = [d EXCEPT !.flow = f, !.vault = device.vault]
        /\ (f => device.flow)
    BY <1>1, <1>2, <2>1
  <2> QED BY <1>1, <2>2, StayOK
<1>4. CASE Abandon
  <2>1. device.op = "sign" /\ device' = [d EXCEPT !.flow = TRUE, !.vault = FALSE]
    BY <1>4 DEF Abandon
  <2> QED BY <1>1, <2>1, StayOK
<1>5. CASE Restart
  <2>1. device' = [d EXCEPT !.flow = device.flow, !.vault = FALSE]
    BY <1>2, <1>5 DEF Restart
  <2> QED BY <1>1, <2>1, StayOK
<1> QED BY <1>3, <1>4, <1>5

LEMMA AdoptOK ==
  ASSUME IInv, NEW o \in Owners, Adopt(o)
  PROVE  StepKeeps
<1>1. /\ UNCHANGED <<server, calls, wire, outbox, parting, linked>> /\ UNCHANGED capability
      /\ linked \in BOOLEAN /\ parting \in Parting
      /\ device.op = "sign" /\ o \in Users \cup {Nobody} /\ o # Guest
  BY Names DEF Adopt, server, IInv, PhoneTypes
<1>2. device.call = NoCall
  BY <1>1, NotWaiting
<1> DEFINE d == Become(o)
<1>3. /\ d \in Device /\ d.identity = o /\ d.recovery = device.recovery
      /\ ~d.flow /\ ~d.vault /\ d.call = NoCall
  BY <1>1, <1>2, BecomeFields
<1>4. device' = [d EXCEPT !.op = "idle"]
  BY DEF Adopt
<1> HIDE DEF d
<1>5. /\ device' \in Device /\ device'.identity = o /\ device'.recovery = device.recovery
      /\ ~device'.flow /\ ~device'.vault /\ device'.op = "idle" /\ device'.call = NoCall
  BY <1>3, <1>4 DEF Device
<1>6. DeviceOK'
  BY <1>1, <1>5 DEF IInv, DeviceOK, Recorded, Shut
<1> QED BY <1>1, <1>5, <1>6, RecordOK

LEMMA ReturnOK ==
  ASSUME IInv, NEW o \in Owners, Return(o)
  PROVE  StepKeeps
<1>1. /\ UNCHANGED <<server, calls, wire, outbox, linked>> /\ UNCHANGED capability
      /\ linked \in BOOLEAN /\ parting' = "unchecked" /\ parting' \in Parting
      /\ device.identity = Guest /\ device.op = "idle" /\ device.flow
      /\ o \in Users \cup {Nobody} /\ o # Guest
  BY Names DEF Return, Idle, Parting, server, IInv, PhoneTypes
<1>2. /\ device' \in Device /\ device'.identity = o /\ device'.recovery = device.recovery
      /\ ~device'.flow /\ ~device'.vault /\ device'.op = "idle" /\ device'.call = device.call
  BY <1>1, BecomeFields DEF Return
<1>3. DeviceOK'
  BY <1>1, <1>2 DEF IInv, DeviceOK, Recorded, Shut
<1> QED BY <1>1, <1>2, <1>3, RecordOK

LEMMA ForgetOK ==
  ASSUME IInv, Forget
  PROVE  StepKeeps
<1> DEFINE f == FALSE
<1>1. /\ UNCHANGED <<server, calls, wire, outbox, parting, linked>> /\ UNCHANGED capability
      /\ linked \in BOOLEAN /\ parting \in Parting /\ device \in Device
      /\ device' = [device EXCEPT !.flow = f] /\ f \in BOOLEAN /\ ~f
  BY DEF Forget, server, IInv, PhoneTypes
<1> HIDE DEF f
<1>2. /\ device' \in Device /\ device'.identity = device.identity
      /\ device'.recovery = device.recovery /\ ~device'.flow
      /\ device'.vault = device.vault /\ device'.op = device.op /\ device'.call = device.call
  BY <1>1, FlowField
<1>3. DeviceOK'
  BY <1>1, <1>2, StillHanded DEF IInv, DeviceOK, Recorded, Shut
<1> QED BY <1>1, <1>2, <1>3, RecordOK

LEMMA OpenOK ==
  ASSUME IInv, Open
  PROVE  StepKeeps
<1> DEFINE t == TRUE
<1>1. /\ UNCHANGED <<server, calls, wire, outbox, parting, linked>> /\ UNCHANGED capability
      /\ linked \in BOOLEAN /\ parting \in Parting /\ device \in Device
      /\ device' = [device EXCEPT !.vault = t] /\ t \in BOOLEAN /\ device.identity = Guest
  BY DEF Open, server, IInv, PhoneTypes
<1> HIDE DEF t
<1>2. /\ device' \in Device /\ device'.identity = device.identity
      /\ device'.recovery = device.recovery /\ device'.flow = device.flow
      /\ device'.op = device.op /\ device'.call = device.call
  BY <1>1, VaultField
<1>3. DeviceOK'
  BY <1>1, <1>2, StillHanded DEF IInv, DeviceOK, Recorded, Shut
<1> QED BY <1>1, <1>2, <1>3, RecordOK

LEMMA LoseOK ==
  ASSUME IInv, Lose
  PROVE  StepKeeps
<1>1. /\ UNCHANGED <<server, calls, wire, outbox, linked>> /\ UNCHANGED capability
      /\ linked \in BOOLEAN /\ parting' \in Parting /\ Nobody # Guest
      /\ parting' = IF device.identity = Guest THEN "none" ELSE parting
  BY Names DEF Lose, Parting, server, IInv, PhoneTypes
<1>2. /\ device' \in Device /\ device'.identity = Nobody /\ device'.recovery = device.recovery
      /\ ~device'.flow /\ ~device'.vault /\ device'.op = device.op /\ device'.call = device.call
  BY BecomeFields DEF Lose
<1>3. DeviceOK'
  BY <1>1, <1>2, StillHanded DEF IInv, DeviceOK, Recorded, Shut
<1> QED BY <1>1, <1>2, <1>3, RecordOK

LEMMA LinkOK ==
  ASSUME IInv, Link
  PROVE  StepKeeps
<1>1. /\ UNCHANGED <<server, calls, wire, outbox, device, parting>> /\ UNCHANGED capability
      /\ linked' = TRUE /\ device.identity = Guest /\ device \in Device /\ parting \in Parting
  BY DEF Link, server, IInv, PhoneTypes
<1>2. DeviceOK'
  BY <1>1, Names DEF IInv, DeviceOK, Recorded, Shut
<1> QED BY <1>1, <1>2, RecordOK

LEMMA SwitchOK ==
  ASSUME IInv, NEW u \in Users, Switch(u)
  PROVE  StepKeeps
<1>1. /\ UNCHANGED <<server, calls, wire, outbox, parting, linked>> /\ UNCHANGED capability
      /\ linked \in BOOLEAN /\ parting \in Parting /\ device.op = "idle"
      /\ Guest \in {u, device.identity} => linked
  BY DEF Switch, Idle, server, IInv, PhoneTypes
<1>2. /\ device' \in Device /\ device'.identity = u /\ device'.recovery = device.recovery
      /\ ~device'.flow /\ ~device'.vault /\ device'.op = device.op /\ device'.call = device.call
  BY BecomeFields DEF Switch
<1>3. DeviceOK'
  BY <1>1, <1>2, StillHanded DEF IInv, DeviceOK, Recorded, Shut
<1> QED BY <1>1, <1>2, <1>3, RecordOK

LEMMA LapseOK ==
  ASSUME IInv, Lapse
  PROVE  StepKeeps
<1>1. /\ UNCHANGED <<server, calls, wire, outbox, parting, linked>> /\ UNCHANGED capability
      /\ linked \in BOOLEAN /\ parting \in Parting
      /\ device \in Device /\ device.recovery = "prepared"
  BY DEF Lapse, server, IInv, PhoneTypes
<1>2. /\ device' \in Device /\ device'.identity = device.identity /\ device'.recovery = "lapsed"
      /\ device'.flow = device.flow /\ device'.vault = device.vault
      /\ device'.op = device.op /\ device'.call = device.call
  BY <1>1, RecoveryField DEF Lapse
<1>3. DeviceOK'
  BY <1>1, <1>2 DEF IInv, DeviceOK, Recorded, Shut
<1> QED BY <1>1, <1>2, <1>3, RecordOK

LEMMA SignOutOK ==
  ASSUME IInv, SignOut
  PROVE  StepKeeps
<1>1. /\ UNCHANGED <<server, calls, wire, outbox, linked>> /\ UNCHANGED capability
      /\ linked \in BOOLEAN /\ parting' = "none" /\ parting' \in Parting /\ device.op = "idle"
  BY DEF SignOut, Idle, Parting, server, IInv, PhoneTypes
<1> DEFINE d == Become(Nobody)
<1>2. /\ d \in Device /\ d.identity = Nobody /\ ~d.flow /\ ~d.vault
      /\ d.op = device.op /\ d.call = device.call
  BY BecomeFields
<1>3. device' = [d EXCEPT !.recovery = "none"]
  BY DEF SignOut
<1> HIDE DEF d
<1>4. /\ device' \in Device /\ device'.identity = Nobody /\ device'.recovery = "none"
      /\ ~device'.flow /\ ~device'.vault /\ device'.op = device.op /\ device'.call = device.call
  BY <1>2, <1>3, RecoveryField
<1>5. DeviceOK'
  BY <1>1, <1>4, Names DEF IInv, DeviceOK, Recorded, Shut
<1> QED BY <1>1, <1>4, <1>5, RecordOK

-----------------------------------------------------------------------------
(* The steps of the app that send a request or take its answer.            *)

LEMMA ExchangeOK ==
  ASSUME IInv, NEW c \in Calls, NEW k \in Call, CallOK(k)', calls' = [calls EXCEPT ![c] = k],
         device' \in Device, parting' \in Parting, DeviceOK',
         UNCHANGED <<server, wire, outbox, linked>>,
         device'.call = NoCall \/ (device'.call = c /\ device'.op = k.op)
  PROVE  StepKeeps
<1>1. ServerOK
  BY StillServer
<1>2. CallTypes' /\ CallsOK'
  BY <1>1, OneCall DEF ServerOK
<1>3. Waits'
  <2>1. calls'[c] = k
    BY DEF IInv, CallTypes
  <2> QED BY <2>1 DEF Waits
<1>4. PhoneTypes'
  BY DEF IInv, PhoneTypes
<1> QED BY <1>1, <1>2, <1>3, <1>4 DEF ProcessOK, StepKeeps

LEMMA ReleaseOK ==
  ASSUME IInv, NEW c \in Calls, calls' = [calls EXCEPT ![c] = FreeCall],
         device' \in Device, parting' \in Parting, DeviceOK',
         UNCHANGED <<server, wire, outbox, linked>>, device'.call = NoCall
  PROVE  StepKeeps
<1>1. PICK k \in Call : k = FreeCall
  BY FreeCallType
<1>2. CallOK(k)'
  BY <1>1, FreeCallType DEF CallOK
<1> QED BY <1>1, <1>2, ExchangeOK

LEMMA RequestPreparationOK ==
  ASSUME IInv, NEW c \in Calls, RequestPreparation(c)
  PROVE  StepKeeps
<1>1. /\ UNCHANGED <<server, wire, outbox, linked>> /\ UNCHANGED capability
      /\ parting' \in Parting
      /\ parting' = "checked" => outbox = {}
      /\ device.identity # Guest => parting' = "none"
  BY DEF RequestPreparation, LocalWork, Parting, server, IInv, DeviceOK
<1>2. PICK k \in Call : k = [op |-> "prepare", as |-> Guest, pc |-> "sent"]
  BY Names DEF Call
<1>3. calls' = [calls EXCEPT ![c] = k]
  BY <1>2 DEF RequestPreparation, Request
<1>4. CallOK(k)'
  BY <1>2 DEF CallOK
<1>5. /\ device' \in Device /\ device'.identity = device.identity
      /\ device'.recovery = device.recovery /\ device'.flow = device.flow
      /\ device'.vault = device.vault /\ device'.op = "prepare" /\ device'.call = c
  BY SetFields DEF RequestPreparation
<1>6. DeviceOK'
  BY <1>1, <1>5, StillHanded DEF IInv, DeviceOK, Recorded, Shut
<1> QED BY <1>1, <1>2, <1>3, <1>4, <1>5, <1>6, ExchangeOK

LEMMA ConfirmOK ==
  ASSUME IInv, NEW c \in Calls, Confirm(c)
  PROVE  StepKeeps
<1>1. /\ UNCHANGED <<server, wire, outbox, linked>> /\ UNCHANGED capability
      /\ parting' = parting /\ parting \in Parting /\ device.op = "idle"
      /\ device.identity \in Owners /\ device.identity # Guest
  BY Names DEF Confirm, Idle, server, IInv, PhoneTypes
<1>2. PICK k \in Call : k = [op |-> "attach", as |-> device.identity, pc |-> "sent"]
  BY <1>1, Names DEF Call
<1>3. calls' = [calls EXCEPT ![c] = k]
  BY <1>2 DEF Confirm, Request
<1>4. CallOK(k)'
  BY <1>1, <1>2 DEF CallOK
<1>5. /\ device' \in Device /\ device'.identity = device.identity
      /\ device'.recovery = device.recovery /\ device'.flow = device.flow
      /\ device'.vault = device.vault /\ device'.op = "attach" /\ device'.call = c
  BY SetFields DEF Confirm
<1>6. DeviceOK'
  BY <1>1, <1>5, StillHanded DEF IInv, DeviceOK, Recorded, Shut
<1> QED BY <1>1, <1>2, <1>3, <1>4, <1>5, <1>6, ExchangeOK

\* The request that the phone waits for.
LEMMA Awaited ==
  ASSUME IInv, NEW c \in Calls, device.call = c
  PROVE  calls[c].op = device.op /\ CallOK(calls[c]) /\ c # NoCall
BY CallsAssumption DEF IInv, Waits, CallsOK

LEMMA PreparedOK ==
  ASSUME IInv, NEW c \in Calls, Prepared(c)
  PROVE  StepKeeps
<1>1. /\ UNCHANGED <<server, wire, outbox, linked>> /\ UNCHANGED capability
      /\ calls' = [calls EXCEPT ![c] = FreeCall]
      /\ parting' = parting /\ parting \in Parting
      /\ device.op = "prepare" /\ device.call = c /\ calls[c].pc = "ok"
  BY DEF Prepared, server, IInv, PhoneTypes
<1>2. calls[c].op = "prepare" /\ CallOK(calls[c]) /\ device.call # NoCall
  BY <1>1, Awaited
<1>3. capability.state # "none" /\ Shut
  BY <1>1, <1>2 DEF CallOK, Shut
<1> DEFINE d == Set("sign", NoCall)
<1>4. /\ d \in Device /\ d.identity = device.identity /\ d.flow = device.flow
      /\ d.vault = device.vault /\ d.op = "sign" /\ d.call = NoCall
  BY SetFields
<1>5. device' = [d EXCEPT !.recovery = "prepared"]
  BY DEF Prepared
<1> HIDE DEF d
<1>6. /\ device' \in Device /\ device'.identity = device.identity
      /\ device'.recovery = "prepared" /\ device'.flow = device.flow
      /\ device'.vault = device.vault /\ device'.op = "sign" /\ device'.call = NoCall
  BY <1>4, <1>5, RecoveryField
<1>7. DeviceOK'
  BY <1>1, <1>3, <1>6 DEF IInv, DeviceOK, Recorded, Shut
<1> QED BY <1>1, <1>6, <1>7, ReleaseOK

LEMMA FinishOK ==
  ASSUME IInv, NEW c \in Calls, Finish(c)
  PROVE  StepKeeps
<1>1. /\ UNCHANGED <<server, wire, outbox, linked>> /\ UNCHANGED capability
      /\ calls' = [calls EXCEPT ![c] = FreeCall]
      /\ parting' = parting /\ parting \in Parting
      /\ device.op = "attach" /\ device.call = c /\ calls[c].pc = "ok"
  BY DEF Finish, server, IInv, PhoneTypes
<1>2. HandedOver
  <2>1. calls[c].op = "attach" /\ CallOK(calls[c])
    BY <1>1, Awaited
  <2> QED BY <1>1, <2>1 DEF CallOK, HandedOver
<1> DEFINE d == Set("idle", NoCall)
<1>3. /\ d \in Device /\ d.identity = device.identity /\ d.flow = device.flow
      /\ d.vault = device.vault /\ d.op = "idle" /\ d.call = NoCall
  BY SetFields
<1>4. device' = [d EXCEPT !.recovery = "none"]
  BY DEF Finish
<1> HIDE DEF d
<1>5. /\ device' \in Device /\ device'.identity = device.identity /\ device'.recovery = "none"
      /\ device'.flow = device.flow /\ device'.vault = device.vault
      /\ device'.op = "idle" /\ device'.call = NoCall
  BY <1>3, <1>4, RecoveryField
<1>6. DeviceOK'
  BY <1>1, <1>2, <1>5, StillHanded DEF IInv, DeviceOK, Recorded, Shut
<1> QED BY <1>1, <1>5, <1>6, ReleaseOK

LEMMA FailOK ==
  ASSUME IInv, NEW c \in Calls, Fail(c)
  PROVE  StepKeeps
<1>1. /\ UNCHANGED <<server, wire, outbox, linked>> /\ UNCHANGED capability
      /\ calls' = [calls EXCEPT ![c] = FreeCall] /\ parting' = parting /\ parting \in Parting
  BY DEF Fail, server, IInv, PhoneTypes
<1>2. /\ device' \in Device /\ device'.identity = device.identity
      /\ device'.recovery = device.recovery /\ device'.flow = device.flow
      /\ device'.vault = device.vault /\ device'.op = "idle" /\ device'.call = NoCall
  BY SetFields DEF Fail, AfterFailure
<1>3. DeviceOK'
  BY <1>1, <1>2, StillHanded DEF IInv, DeviceOK, Recorded, Shut
<1> QED BY <1>1, <1>2, <1>3, ReleaseOK

LEMMA GiveUpOK ==
  ASSUME IInv, GiveUp
  PROVE  StepKeeps
<1>1. /\ UNCHANGED <<server, wire, outbox, linked>> /\ UNCHANGED capability
      /\ calls' = [c \in Calls |-> IF c = device.call /\ calls[c].pc \in {"ok", "refused"}
                                   THEN FreeCall ELSE calls[c]]
      /\ parting' = parting /\ parting \in Parting
  BY DEF GiveUp, server, IInv, PhoneTypes
<1>2. /\ device' \in Device /\ device'.identity = device.identity
      /\ device'.recovery = device.recovery /\ device'.flow = device.flow
      /\ device'.vault => device.vault
      /\ device'.op = "idle" /\ device'.call = NoCall
  <2> DEFINE d == Set("idle", NoCall)
  <2>1. /\ d \in Device /\ d.identity = device.identity /\ d.recovery = device.recovery
        /\ d.flow = device.flow /\ d.vault = device.vault /\ d.op = "idle" /\ d.call = NoCall
    BY SetFields
  <2>2. PICK v \in {device.vault, FALSE} : device' = [d EXCEPT !.vault = v]
    BY DEF GiveUp, AfterFailure
  <2>3. v \in BOOLEAN
    BY <2>1, <2>2 DEF IInv, PhoneTypes, Device
  <2> HIDE DEF d
  <2> QED BY <2>1, <2>2, <2>3, VaultField
<1>3. DeviceOK'
  BY <1>1, <1>2, StillHanded DEF IInv, DeviceOK, Recorded, Shut
<1>4. ServerOK
  BY <1>1, StillServer
<1>5. CallTypes'
  BY <1>1, FreeCallType DEF IInv, CallTypes
<1>6. CallsOK'
  <2>1. UNCHANGED imports
    BY <1>1 DEF server
  <2>2. ASSUME NEW c \in Calls PROVE CallOK(calls[c])'
    <3>1. CallOK(calls[c])
      BY DEF IInv, CallsOK
    <3>2. calls'[c] = FreeCall \/ calls'[c] = calls[c]
      BY <1>1
    <3> QED BY <1>1, <2>1, <3>1, <3>2, FreeCallType DEF CallOK
  <2> QED BY <2>2 DEF CallsOK
<1>7. Waits' /\ PhoneTypes'
  BY <1>1, <1>2 DEF Waits, IInv, PhoneTypes
<1> QED BY <1>3, <1>4, <1>5, <1>6, <1>7 DEF ProcessOK, StepKeeps

-----------------------------------------------------------------------------
(* Every step keeps the invariant.                                         *)

\* What goes on at the server while requests and phone keep still.
LEMMA ServerStep ==
  ASSUME IInv, ServerOK, UNCHANGED <<calls, outbox, device, parting, linked>>, wire' \subseteq wire
  PROVE  StepKeeps
<1>1. Waits' /\ CallsOK' /\ DeviceOK' /\ CallTypes'
  BY ProgressKeeps DEF ServerOK
<1>2. PhoneTypes'
  BY DEF IInv, PhoneTypes
<1> QED BY <1>1, <1>2 DEF ProcessOK, StepKeeps

LEMMA TalkOK ==
  ASSUME IInv, Talk
  PROVE  StepKeeps
<1>1. ASSUME NEW t \in Turns, Send(t) \/ Resend(t) \/ Settle(t) \/ Drop(t)
      PROVE  StepKeeps
  BY <1>1, OutboxOK
<1>2. ASSUME NEW t \in Turns, Accept(t) PROVE StepKeeps
  <2>1. UNCHANGED <<calls, outbox, device, parting, linked>> /\ wire' \subseteq wire
    BY <1>2 DEF Accept, phone
  <2> QED BY <1>2, <2>1, AcceptServer, ServerStep
<1>3. ASSUME NEW t \in Turns, Reply(t) PROVE StepKeeps
  <2>1. /\ UNCHANGED <<calls, outbox, device, parting, linked>> /\ wire' \subseteq wire
        /\ UNCHANGED <<rows, evidence, detail, working, activity, capability, imports>>
        /\ answering' = t
    BY <1>3 DEF Reply
  <2>2. ServerOK
    BY <2>1, WorkServer DEF IInv, ServerTypes
  <2> QED BY <2>1, <2>2, ServerStep
<1>4. CASE Answer
  <2>1. UNCHANGED <<calls, outbox, device, parting, linked>> /\ wire' \subseteq wire
    BY <1>4 DEF Answer, phone
  <2> QED BY <1>4, <2>1, AnswerServer, ServerStep
<1>5. CASE NoAnswer
  <2>1. /\ UNCHANGED <<calls, outbox, device, parting, linked>> /\ wire' \subseteq wire
        /\ UNCHANGED <<rows, evidence, detail, working, activity, capability, imports>>
        /\ answering' = NoTurn
    BY <1>5 DEF NoAnswer, phone
  <2>2. ServerOK
    BY <2>1, WorkServer DEF IInv, ServerTypes
  <2> QED BY <2>1, <2>2, ServerStep
<1> QED BY <1>1, <1>2, <1>3, <1>4, <1>5 DEF Talk

LEMMA BehindOK ==
  ASSUME IInv, Behind
  PROVE  StepKeeps
<1>1. ServerOK
  BY BehindServer, ExpireServer
<1>2. UNCHANGED <<calls, outbox, device, parting, linked>> /\ wire' \subseteq wire
  BY DEF Behind, Extract, Retouch, Deliver, Expire, Engage, Disengage, Continue, phone
<1> QED BY <1>1, <1>2, ServerStep

LEMMA AppOK ==
  ASSUME IInv, App
  PROVE  StepKeeps
<1>1. CASE FinishLocalWork
  BY <1>1, IdleOK DEF FinishLocalWork
<1>2. CASE Stay \/ Abandon \/ Restart
  BY <1>2, EndsOK
<1> QED BY <1>1, <1>2, SignInOK, ForgetOK, LinkOK, OpenOK, LoseOK, GiveUpOK, LapseOK, SignOutOK,
           SwitchOK, AdoptOK, ReturnOK, RequestPreparationOK, ConfirmOK DEF App

LEMMA RequestOK ==
  ASSUME IInv, NEW c \in Calls, Process(c) \/ Break(c) \/ Receive(c)
  PROVE  StepKeeps
<1>1. CASE Process(c) \/ Break(c)
  <2>1. ProcessOK
    BY <1>1, PrepareOK, AttachOK, FilesOK, ResultsOK, RebindOK, BreakOK DEF Process
  <2>2. UNCHANGED phone
    BY <1>1 DEF Process, Break, Prepare, Attach, ImportFiles, ImportResults, Rebind
  <2>3. PhoneTypes'
    BY <2>2 DEF IInv, PhoneTypes, phone
  <2> QED BY <2>1, <2>3 DEF StepKeeps
<1>2. CASE Receive(c)
  BY <1>2, PreparedOK, FinishOK, FailOK DEF Receive
<1> QED BY <1>1, <1>2

\* Changes and faults are counted up to their bounds.
LEMMA BoundsKept ==
  ASSUME IInv, Next
  PROVE  BoundTypes'
<1>1. /\ changes \in 0..MaxChanges /\ faults \in 0..MaxFaults
      /\ MaxChanges \in Nat /\ MaxFaults \in Nat
  BY BoundsAssumption DEF IInv, BoundTypes
<1>2. \/ UNCHANGED <<changes, faults>>
      \/ Change /\ UNCHANGED faults
      \/ Fault /\ UNCHANGED changes
  <2>1. CASE Talk
    BY <2>1 DEF Talk, Send, Resend, Settle, Accept, Reply, Drop, Answer, NoAnswer, bounds
  <2>2. CASE Behind
    BY <2>2 DEF Behind, Extract, Retouch, Deliver, Expire, Engage, Disengage, Continue, bounds
  <2>3. CASE App
    BY <2>3 DEF App, SignIn, FinishLocalWork, Stay, Abandon, Forget, Restart, Open, Lose,
                Return, Link, GiveUp, Lapse, SignOut, Switch, Adopt,
                RequestPreparation, Confirm, bounds
  <2>4. ASSUME NEW c \in Calls, Process(c)
        PROVE  UNCHANGED <<changes, faults>>
    BY <2>4 DEF Process, Prepare, Attach, ImportFiles, ImportResults, Rebind, bounds
  <2>5. ASSUME NEW c \in Calls, Break(c)
        PROVE  Fault /\ UNCHANGED changes
    BY <2>5 DEF Break
  <2>6. ASSUME NEW c \in Calls, Receive(c)
        PROVE  UNCHANGED <<changes, faults>> \/ (Fault /\ UNCHANGED changes)
    BY <2>6 DEF Receive, Prepared, Finish, Fail, bounds
  <2> QED BY <2>1, <2>2, <2>3, <2>4, <2>5, <2>6 DEF Next
<1> QED BY <1>1, <1>2 DEF BoundTypes, Change, Fault

LEMMA NextIInv == IInv /\ [Next]_vars => IInv'
<1> SUFFICES ASSUME IInv, [Next]_vars PROVE IInv'
  OBVIOUS
<1>1. CASE Next
  <2>1. StepKeeps
    BY <1>1, TalkOK, BehindOK, AppOK, RequestOK DEF Next
  <2>2. BoundTypes'
    BY <1>1, BoundsKept
  <2> QED BY <2>1, <2>2 DEF StepKeeps, ProcessOK, ServerOK, IInv
<1>2. CASE UNCHANGED vars
  <2>1. UNCHANGED <<server, calls, wire, outbox, device, parting, linked, changes, faults>>
    BY <1>2 DEF vars, phone, bounds
  <2>2. BoundTypes'
    BY <2>1 DEF IInv, BoundTypes
  <2>3. ServerOK
    BY <2>1, StillServer
  <2>4. StepKeeps
    BY <2>1, <2>3, ServerStep
  <2> QED BY <2>2, <2>4 DEF StepKeeps, ProcessOK, ServerOK, IInv
<1> QED BY <1>1, <1>2

\* The inductive invariant holds of every behaviour of the specification.
THEOREM Invariance == Spec => []IInv
BY InitIInv, NextIInv, PTL DEF Spec

-----------------------------------------------------------------------------
(* The hand-over.                                                          *)

LEMMA ReachedValues ==
  /\ Status = {"none", "open", "answered"}
  /\ Reached["none"] = 0 /\ Reached["open"] = 1 /\ Reached["answered"] = 2
BY DEF Status, Reached

LEMMA StandingValues ==
  ASSUME NEW r \in [Users -> Conversation], NEW t \in Turns
  PROVE  Standing(t, r) \subseteq {0, 1, 2} /\ Reached[r[Guest][t]] \in Standing(t, r)
<1>1. \A u \in Users : r[u][t] \in Status
  BY DEF Conversation
<1> QED BY <1>1, ReachedValues, Names DEF Standing

LEMMA BestIs ==
  ASSUME NEW r \in [Users -> Conversation], NEW t \in Turns
  PROVE  /\ Best(t, r) \in Standing(t, r) /\ Best(t, r) \in {0, 1, 2}
         /\ \A m \in Standing(t, r) : m <= Best(t, r)
<1> DEFINE S == Standing(t, r)
<1>1. S \subseteq {0, 1, 2} /\ S # {}
  BY StandingValues
<1>2. \E n \in S : \A m \in S : m <= n
  <2> HIDE DEF S
  <2>1. CASE 2 \in S
    BY <1>1, <2>1
  <2>2. CASE 2 \notin S /\ 1 \in S
    BY <1>1, <2>2
  <2>3. CASE 2 \notin S /\ 1 \notin S
    <3>1. S = {0}
      BY <1>1, <2>3
    <3> QED BY <3>1
  <2> QED BY <2>1, <2>2, <2>3
<1>3. Best(t, r) \in S /\ \A m \in S : m <= Best(t, r)
  BY <1>2 DEF Best
<1> QED BY <1>1, <1>3

LEMMA BestGrows ==
  ASSUME NEW r \in [Users -> Conversation], NEW s \in [Users -> Conversation], NEW t \in Turns,
         \A u \in Users : \E v \in Users : Reached[r[u][t]] <= Reached[s[v][t]]
  PROVE  Best(t, r) <= Best(t, s)
<1>1. PICK u \in Users : Best(t, r) = Reached[r[u][t]]
  BY BestIs DEF Standing
<1>2. PICK v \in Users : Reached[r[u][t]] <= Reached[s[v][t]]
  OBVIOUS
<1>3. Reached[s[v][t]] \in Standing(t, s)
  BY DEF Standing
<1>4. Reached[s[v][t]] <= Best(t, s) /\ Best(t, s) \in {0, 1, 2} /\ Best(t, r) \in {0, 1, 2}
      /\ Standing(t, s) \subseteq {0, 1, 2}
  BY <1>3, BestIs, StandingValues
<1>5. \A x, y, z \in {0, 1, 2} : x <= y /\ y <= z => x <= z
  OBVIOUS
<1>6. Reached[s[v][t]] \in {0, 1, 2}
  BY <1>3, <1>4
<1> QED BY <1>1, <1>2, <1>4, <1>5, <1>6

FaithfulStep ==
  /\ \A t \in Turns : Best(t, rows) <= Best(t, rows')
  /\ \A o \in Owners :
       /\ Claims(o) => /\ rows'[o] = rows[Guest]
                       /\ evidence'[o] = evidence[Guest]
       /\ ~Claims(o) => rows'[o] = rows[o]
       /\ evidence[o] <= evidence'[o]

LEMMA SameRows ==
  ASSUME IInv, UNCHANGED rows, \A o \in Owners : evidence[o] <= evidence'[o],
         capability'.state = "claimed" => capability.state = "claimed"
  PROVE  FaithfulStep
<1>1. \A t \in Turns : Best(t, rows) <= Best(t, rows')
  BY BestIs DEF IInv, ServerTypes
<1> QED BY <1>1 DEF FaithfulStep, Claims

\* One row of the guest's that gets further.
LEMMA GuestRow ==
  ASSUME IInv, NEW t \in Turns, NEW s \in {"open", "answered"}, rows[Guest][t] # "answered" \/ s = "answered",
         rows' = [rows EXCEPT ![Guest] = [rows[Guest] EXCEPT ![t] = s]], UNCHANGED capability,
         \A o \in Owners : evidence[o] <= evidence'[o]
  PROVE  FaithfulStep
<1>1. rows \in [Users -> Conversation] /\ rows[Guest] \in Conversation
  BY Names DEF IInv, ServerTypes
<1> DEFINE g == [rows[Guest] EXCEPT ![t] = s]
<1>2. g \in Conversation /\ g[t] = s /\ \A d \in Turns : d # t => g[d] = rows[Guest][d]
  <2>1. s \in Status
    BY ReachedValues
  <2> QED BY <1>1, <2>1 DEF Conversation
<1>3. rows' = [rows EXCEPT ![Guest] = g]
  OBVIOUS
<1> HIDE DEF g
<1>4. /\ rows' \in [Users -> Conversation] /\ rows'[Guest] = g
      /\ \A u \in Users : u # Guest => rows'[u] = rows[u]
  BY <1>1, <1>2, <1>3, Names
<1>5. ASSUME NEW d \in Turns PROVE Best(d, rows) <= Best(d, rows')
  <2>1. \A u \in Users : Reached[rows[u][d]] <= Reached[rows'[u][d]]
    <3>1. ASSUME NEW u \in Users PROVE Reached[rows[u][d]] <= Reached[rows'[u][d]]
      <4>1. rows[u][d] \in Status
        BY <1>1 DEF Conversation
      <4>2. CASE u = Guest /\ d = t
        BY <1>2, <1>4, <4>1, <4>2, ReachedValues
      <4>3. CASE u # Guest \/ d # t
        BY <1>2, <1>4, <4>1, <4>3, ReachedValues
      <4> QED BY <4>2, <4>3
    <3> QED BY <3>1
  <2> QED BY <1>1, <1>4, <2>1, BestGrows
<1> QED BY <1>4, <1>5, Names DEF FaithfulStep, Claims

LEMMA ClaimFaithful ==
  ASSUME IInv, NEW o \in Owners, Claimable(o), Claim(o)
  PROVE  FaithfulStep
<1>1. /\ capability.state = "open" /\ capability.target = Nobody
      /\ \A p \in Owners : rows[p] = NoRows /\ evidence[p] = 0
      /\ capability'.state = "claimed" /\ capability'.target = o
      /\ rows' \in [Users -> Conversation] /\ evidence' \in [Users -> Nat]
      /\ rows'[o] = rows[Guest] /\ evidence'[o] = evidence[Guest]
      /\ \A p \in Owners \ {o} : rows'[p] = rows[p] /\ evidence'[p] = evidence[p]
  BY ClaimEffect
<1>2. rows \in [Users -> Conversation]
  BY DEF IInv, ServerTypes
<1>3. ASSUME NEW t \in Turns PROVE Best(t, rows) <= Best(t, rows')
  <2>1. ASSUME NEW u \in Users PROVE Reached[rows[u][t]] <= Reached[rows'[o][t]]
    <3>1. rows[u][t] \in Status /\ rows[Guest][t] \in Status
      BY <1>2, Names DEF Conversation
    <3>2. CASE u = Guest
      BY <1>1, <3>1, <3>2, ReachedValues
    <3>3. CASE u \in Owners
      BY <1>1, <3>1, <3>3, ReachedValues, NoRow
    <3> QED BY <3>2, <3>3 DEF Users
  <2>2. o \in Users
    BY Names
  <2> QED BY <1>1, <1>2, <2>1, <2>2, BestGrows
<1>4. ASSUME NEW p \in Owners PROVE evidence[p] <= evidence'[p]
  <2>1. evidence[p] = 0 /\ evidence'[p] \in Nat
    BY <1>1, Names
  <2> QED BY <2>1
<1> QED BY <1>1, <1>3, <1>4 DEF FaithfulStep, Claims

LEMMA EvidenceNat ==
  ASSUME IInv
  PROVE  \A u \in Users : evidence[u] \in Nat
BY DEF IInv, ServerTypes

\* Steps that leave evidence, rows and the hand-over alone.
LEMMA StillFaithful ==
  ASSUME IInv, UNCHANGED <<rows, evidence>>, capability'.state = "claimed" => capability.state = "claimed"
  PROVE  FaithfulStep
BY SameRows, EvidenceNat, Names

LEMMA TalkFaithful ==
  ASSUME IInv, Talk
  PROVE  FaithfulStep
<1>1. ASSUME NEW t \in Turns, Accept(t) PROVE FaithfulStep
  <2>1. PICK n \in {0, 1} : n = Advance(t)
    BY DEF Advance
  <2>2. evidence' = [evidence EXCEPT ![Guest] = @ + n]
    BY <1>1, <2>1 DEF Accept
  <2>3. \A o \in Owners : evidence'[o] = evidence[o] /\ evidence[o] \in Nat
    BY <2>2, Names DEF IInv, ServerTypes
  <2>4. /\ rows' = [rows EXCEPT ![Guest] = [rows[Guest] EXCEPT ![t] = "open"]]
        /\ rows[Guest][t] # "answered"
        /\ UNCHANGED capability
    BY <1>1 DEF Accept
  <2>5. \A o \in Owners : evidence[o] <= evidence'[o]
    BY <2>3
  <2> QED BY <2>4, <2>5, GuestRow
<1>2. CASE Answer
  <2>1. /\ answering \in Turns
        /\ rows' = [rows EXCEPT ![Guest] = [rows[Guest] EXCEPT ![answering] = "answered"]]
        /\ UNCHANGED <<capability, evidence>>
    BY <1>2 DEF Answer, IInv, ServerTypes
  <2>2. \A o \in Owners : evidence[o] <= evidence'[o]
    BY <2>1, EvidenceNat, Names
  <2> QED BY <2>1, <2>2, GuestRow
<1>3. ASSUME NEW t \in Turns, Send(t) \/ Resend(t) \/ Settle(t) \/ Drop(t) \/ Reply(t)
      PROVE  FaithfulStep
  BY <1>3, StillFaithful DEF Send, Resend, Settle, Drop, Reply, server, conversation
<1>4. CASE NoAnswer
  BY <1>4, StillFaithful DEF NoAnswer
<1> QED BY <1>1, <1>2, <1>3, <1>4 DEF Talk

LEMMA BehindFaithful ==
  ASSUME IInv, Behind
  PROVE  FaithfulStep
<1>1. ASSUME NEW u \in Users, evidence' = [evidence EXCEPT ![u] = @ + 1], UNCHANGED <<rows, capability>>
      PROVE  FaithfulStep
  <2>1. evidence \in [Users -> Nat]
    BY DEF IInv, ServerTypes
  <2>2. \A v \in Users : evidence[v] <= evidence'[v]
    BY <1>1, <2>1
  <2> QED BY <1>1, <2>2, SameRows, Names
<1>2. CASE Extract \/ \E o \in Owners : Continue(o)
  BY <1>1, <1>2, Names DEF Extract, Continue
<1>3. CASE Expire
  <2>1. capability'.state = capability.state
    BY <1>3 DEF Expire, IInv, ServerTypes, Capability
  <2> QED BY <1>3, <2>1, StillFaithful DEF Expire, conversation
<1>4. CASE Retouch \/ Deliver
  BY <1>4, StillFaithful DEF Retouch, Deliver
<1>5. ASSUME NEW o \in Owners, Engage(o, "replying") \/ Engage(o, "working") \/ Disengage(o)
      PROVE  FaithfulStep
  BY <1>5, StillFaithful DEF Engage, Disengage, conversation
<1> QED BY <1>2, <1>3, <1>4, <1>5 DEF Behind

LEMMA RequestFaithful ==
  ASSUME IInv, NEW c \in Calls, Process(c) \/ Break(c) \/ Receive(c)
  PROVE  FaithfulStep
<1>1. CASE Prepare(c)
  <2>1. /\ UNCHANGED <<rows, evidence>>
        /\ capability'.state = "open" \/ capability' = capability
    BY <1>1 DEF Prepare, conversation
  <2> QED BY <2>1, StillFaithful
<1>2. CASE Attach(c)
  <2>1. calls[c].as \in Owners
    BY <1>2 DEF Attach, At, IInv, CallsOK, CallOK
  <2>2. CASE Claimable(calls[c].as) /\ Claim(calls[c].as)
    BY <2>1, <2>2, ClaimFaithful
  <2>3. CASE UNCHANGED <<conversation, capability>>
    BY <2>3, StillFaithful DEF conversation
  <2> QED BY <1>2, <2>2, <2>3 DEF Attach, Repeat
<1>3. CASE ImportFiles(c) \/ ImportResults(c) \/ Rebind(c)
  BY <1>3, StillFaithful DEF ImportFiles, ImportResults, Rebind, conversation
<1>4. CASE Break(c) \/ Receive(c)
  BY <1>4, StillFaithful DEF Break, Receive, Prepared, Finish, Fail, server, conversation
<1> QED BY <1>1, <1>2, <1>3, <1>4 DEF Process

LEMMA NextFaithful ==
  ASSUME IInv, [Next]_vars
  PROVE  FaithfulStep
<1>1. CASE UNCHANGED vars
  BY <1>1, StillFaithful DEF vars, server, conversation
<1>2. CASE App
  BY <1>2, StillFaithful DEF App, SignIn, FinishLocalWork, Stay, Abandon, Forget, Restart, Open, Lose,
                Return, Link, GiveUp, Lapse, SignOut,
                             Switch, Adopt, RequestPreparation, Confirm, server, conversation
<1> QED BY <1>1, <1>2, TalkFaithful, BehindFaithful, RequestFaithful DEF Next

-----------------------------------------------------------------------------
(* The theorems.                                                           *)

\* Every variable keeps its type; a capability has an owner exactly when it is
\* claimed, and the device waits only for a request of its own operation.
THEOREM TypesHold == Spec => []TypeOK
BY Invariance, TypesTogether, PTL

\* Whoever redeems a transfer, and whenever: one owner gets what the guest had.
THEOREM OneOwnerHolds == Spec => []OneOwner
<1>1. IInv => OneOwner
  BY DEF IInv
<1> QED BY <1>1, Invariance, PTL

LEMMA KeptByPhone == IInv => GuestWorkIsKept
BY Names DEF IInv, DeviceOK, Recorded, Shut, PhoneTypes, Device, GuestWorkIsKept

\* While another account is signed in, and the guest was not signed out of or its
\* session lost, its work is handed over or its capability still on record and
\* known to the server; what the phone saw and checked left nothing pending.
THEOREM WorkKept == Spec => []GuestWorkIsKept
BY KeptByPhone, Invariance, PTL

\* The hand-over is of what the guest has at that moment, and nothing is lost
\* before, in or after it.
THEOREM HandOver == Spec => HandOverIsFaithful
<1>1. IInv /\ [Next]_vars => [FaithfulStep]_vars
  BY NextFaithful
<1>2. HandOverIsFaithful <=> [][FaithfulStep]_vars
  BY DEF HandOverIsFaithful, FaithfulStep
<1> QED BY <1>1, <1>2, Invariance, PTL DEF Spec
=============================================================================
