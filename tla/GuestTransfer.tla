---------------------------- MODULE GuestTransfer ----------------------------
(***************************************************************************)
(* A guest who has been talking on a phone signs in to a permanent account *)
(* and takes the conversation along.  Three programs share the work: the   *)
(* mobile client (auth/client.ts, with the adapter and the guards of       *)
(* context.tsx), the API (supabase_routes.py, workspace_merge.py and       *)
(* import_guest_results of task_queue.py), and the database functions      *)
(* prepare_guest_conversation_transfer and attach_guest_conversation.      *)
(*                                                                         *)
(* Each database function is one transaction and one step; a request of    *)
(* the client is several steps of the API, goes on when the client gave it *)
(* up, and fails anywhere.  The session and the recovery record are in the *)
(* phone's secure storage and survive the app; what it was doing does not. *)
(* One guest, one phone, one capability: the client keeps the same token   *)
(* until the transfer is finished or the user signs out.                   *)
(***************************************************************************)
EXTENDS Naturals, FiniteSets

CONSTANTS
  Owners,       \* permanent accounts the user may sign in to
  Guest,        \* the anonymous account
  Nobody,       \* the null user
  Turns,        \* client_turn_ids of the guest's conversation
  NoTurn,
  Calls,        \* bound: transfer requests in the network at once
  NoCall,
  MaxChanges,   \* bound: background work of the guest, activity of the owners
  MaxFaults     \* bound: requests given up, app restarts and failing API calls

ASSUME UsersAssumption == Guest \notin Owners /\ Nobody \notin Owners \cup {Guest}
ASSUME TurnsAssumption == NoTurn \notin Turns
ASSUME CallsAssumption == NoCall \notin Calls
ASSUME BoundsAssumption == MaxChanges \in Nat /\ MaxFaults \in Nat

VARIABLES
  rows,        \* user_interview_turn: each user's row of each turn
  evidence,    \* the user's project: 0 for none, else how far its sequences are
  detail,      \* version of the guest's photos, links, plans and recordings
  answering,   \* the guest's turn that holds the live agent turn lease
  working,     \* the guest has queued or running deliveries
  activity,    \* what each owner has under way
  capability,  \* the row of guest_conversation_transfer
  imports,     \* what the API moved: files, results, the local project's owner
  calls,       \* transfer requests at the API
  wire,        \* turn requests of the guest still in the network
  outbox,      \* turns pending on the phone
  device,      \* the app: identity, record, unfinished browser sign-in, operation
  parting,     \* history: what was done for the guest's work before the guest left
  linked,      \* the guest account was made permanent in place
  changes,
  faults

conversation == <<rows, evidence, detail, answering, working>>
server == <<conversation, activity, capability, imports>>
phone == <<wire, outbox, device, parting, linked>>
bounds == <<changes, faults>>
vars == <<server, calls, phone, bounds>>

-----------------------------------------------------------------------------
Users == Owners \cup {Guest}

\* Whether a turn has a row, and whether it was answered.
Reached == [none |-> 0, open |-> 1, answered |-> 2]
Status == DOMAIN Reached
Conversation == [Turns -> Status]
NoRows == [t \in Turns |-> "none"]

\* Prepared holds the snapshot the row keeps; live: expires_at is in the future.
Capability == [state : {"none", "open", "claimed"}, live : BOOLEAN, target : Owners \cup {Nobody},
               rows : Conversation, evidence : Nat, detail : Nat]

NoCapability == [state |-> "none", live |-> FALSE, target |-> Nobody,
                 rows |-> NoRows, evidence |-> 0, detail |-> 0]

Imports == [files : BOOLEAN, results : BOOLEAN, project : Users]

Call == [op : {"none", "prepare", "attach"}, as : Users \cup {Nobody},
         pc : {"free", "sent", "attached", "filed", "imported", "ok", "refused"}]

FreeCall == [op |-> "none", as |-> Nobody, pc |-> "free"]

\* recovery: saved before the first request, prepared with an expiry, and
\* lapsed once the local expiry has passed.  vault: the guest's local database is
\* open, so that the outbox can be read.  flow: the browser sign-in the guest
\* began is on record, and the guest is still there to be replaced by it.
Device == [identity : Users \cup {Nobody}, recovery : {"none", "saved", "prepared", "lapsed"},
           flow : BOOLEAN, vault : BOOLEAN,
           op : {"idle", "prepare", "sign", "attach"}, call : Calls \cup {NoCall}]

\* unchecked: the transfer was prepared, but what was pending on the phone was
\* not looked at or not looked at again; none: it may not have been prepared, or
\* its record was given up by signing out.
Parting == {"none", "unchecked", "checked"}

Init ==
  /\ rows = [u \in Users |-> NoRows]
  /\ evidence = [u \in Users |-> 0]
  /\ detail = 0
  /\ answering = NoTurn
  /\ working = FALSE
  /\ activity = [o \in Owners |-> "quiet"]
  /\ capability = NoCapability
  /\ imports = [files |-> FALSE, results |-> FALSE, project |-> Guest]
  /\ calls = [c \in Calls |-> FreeCall]
  /\ wire = {}
  /\ outbox = {}
  /\ device = [identity |-> Guest, recovery |-> "none", flow |-> FALSE, vault |-> TRUE,
               op |-> "idle", call |-> NoCall]
  /\ parting = "none"
  /\ linked = FALSE
  /\ changes = 0
  /\ faults = 0

Idle == device.op = "idle"

Fault == faults < MaxFaults /\ faults' = faults + 1

Change == changes < MaxChanges /\ changes' = changes + 1

-----------------------------------------------------------------------------
(* The guest's conversation, and what goes on behind it.                   *)

\* send: not while an identity operation runs, one pending turn at a time.
Send(t) ==
  /\ device.identity = Guest /\ device.vault /\ Idle
  /\ outbox = {}
  /\ t \notin wire
  /\ \A u \in Users : rows[u][t] = "none"
  /\ outbox' = {t}
  /\ wire' = wire \cup {t}
  /\ UNCHANGED <<server, calls, device, parting, linked, bounds>>

\* The outbox sends a pending turn again; an earlier request may still be about.
Resend(t) ==
  /\ device.identity = Guest /\ device.vault
  /\ t \in outbox
  /\ t \notin wire
  /\ wire' = wire \cup {t}
  /\ UNCHANGED <<server, calls, outbox, device, parting, linked, bounds>>

\* The answer was read, or the narrator discards the turn; the server's rows
\* and the requests under way stay.
Settle(t) ==
  /\ device.identity = Guest /\ device.vault
  /\ t \in outbox
  /\ outbox' = {}
  /\ UNCHANGED <<server, calls, wire, device, parting, linked, bounds>>

\* A new turn brings a new source; one whose source was accepted before finds it.
Advance(t) == IF \A u \in Users : rows[u][t] = "none" THEN 1 ELSE 0

\* accept_interview_turn under the guest's session: the sources stay with the
\* guest when the rows are transferred, so a request that comes after that
\* makes a row anew.
Accept(t) ==
  /\ t \in wire
  /\ rows[Guest][t] = "none"
  /\ rows' = [rows EXCEPT ![Guest][t] = "open"]
  /\ evidence' = [evidence EXCEPT ![Guest] = @ + Advance(t)]
  /\ UNCHANGED <<detail, answering, working, activity, capability, imports, calls, phone, bounds>>

\* The request takes the guest's agent turn lease.
Reply(t) ==
  /\ t \in wire
  /\ rows[Guest][t] = "open"
  /\ answering = NoTurn
  /\ answering' = t
  /\ wire' = wire \ {t}
  /\ UNCHANGED <<rows, evidence, detail, working, activity, capability, imports, calls,
                 outbox, device, parting, linked, bounds>>

\* The request is lost, or refused because a reply is under way or was given.
Drop(t) ==
  /\ t \in wire
  /\ wire' = wire \ {t}
  /\ UNCHANGED <<server, calls, outbox, device, parting, linked, bounds>>

\* The reply is committed, which may queue deliveries.  The commit needs the
\* turn's row, which a transfer may have taken away.
Answer ==
  /\ answering # NoTurn
  /\ rows[Guest][answering] # "none"
  /\ rows' = [rows EXCEPT ![Guest][answering] = "answered"]
  /\ answering' = NoTurn
  /\ working' \in {working, TRUE}
  /\ UNCHANGED <<evidence, detail, activity, capability, imports, calls, phone, bounds>>

\* The reply fails, or its lease runs out.
NoAnswer ==
  /\ answering # NoTurn
  /\ answering' = NoTurn
  /\ UNCHANGED <<rows, evidence, detail, working, activity, capability, imports, calls, phone, bounds>>

\* Extraction and policy review of the guest's sources, which no request of the
\* guest waits for, advance the project's sequences.
Extract ==
  /\ evidence[Guest] # 0
  /\ Change
  /\ evidence' = [evidence EXCEPT ![Guest] = @ + 1]
  /\ UNCHANGED <<rows, detail, answering, working, activity, capability, imports, calls, phone, faults>>

\* A purge, a photo or guidance changes a row of the guest that no sequence counts.
Retouch ==
  /\ evidence[Guest] # 0
  /\ Change
  /\ detail' = detail + 1
  /\ UNCHANGED <<rows, evidence, answering, working, activity, capability, imports, calls, phone, faults>>

\* The guest's deliveries end.
Deliver ==
  /\ working
  /\ working' = FALSE
  /\ UNCHANGED <<rows, evidence, detail, answering, activity, capability, imports, calls, phone, bounds>>

\* An owner starts a reply or deliveries, and they end.
Engage(o, what) ==
  /\ activity[o] = "quiet"
  /\ Change
  /\ activity' = [activity EXCEPT ![o] = what]
  /\ UNCHANGED <<conversation, capability, imports, calls, phone, faults>>

Disengage(o) ==
  /\ activity[o] # "quiet"
  /\ activity' = [activity EXCEPT ![o] = "quiet"]
  /\ UNCHANGED <<conversation, capability, imports, calls, phone, bounds>>

\* An owner goes on with the transferred project: sources, corrections, extraction.
Continue(o) ==
  /\ evidence[o] # 0
  /\ Change
  /\ evidence' = [evidence EXCEPT ![o] = @ + 1]
  /\ UNCHANGED <<rows, detail, answering, working, activity, capability, imports, calls, phone, faults>>

-----------------------------------------------------------------------------
(* The requests at the API and the database functions they call.  The look *)
(* at the task queue (_wait_for_deliveries) comes just before the function *)
(* and is taken with it.                                                   *)

At(c, op, pc) == calls[c].op = op /\ calls[c].pc = pc

Step(c, pc) == calls' = [calls EXCEPT ![c].pc = pc]

\* A request ends; nobody remembers one whose client gave it up.
End(c, result) ==
  calls' = [calls EXCEPT ![c] = IF device.call = c THEN [@ EXCEPT !.pc = result] ELSE FreeCall]

\* A guest session, no deliveries of the guest under way, no reply, no claim.
Preparable == ~linked /\ ~working /\ answering = NoTurn /\ capability.state # "claimed"

\* prepare_guest_conversation_transfer creates or refreshes the capability and
\* the snapshot of everything an attachment will hand over.
Prepare(c) ==
  /\ At(c, "prepare", "sent")
  /\ IF Preparable
     THEN /\ capability' = [state |-> "open", live |-> TRUE, target |-> Nobody,
                            rows |-> rows[Guest], evidence |-> evidence[Guest], detail |-> detail]
          /\ End(c, "ok")
     ELSE /\ capability' = capability
          /\ End(c, "refused")
  /\ UNCHANGED <<conversation, activity, imports, phone, bounds>>

\* The hour is over.
Expire ==
  /\ capability.state = "open" /\ capability.live
  /\ capability' = [capability EXCEPT !.live = FALSE]
  /\ UNCHANGED <<conversation, activity, imports, calls, phone, bounds>>

\* Mutants: the evidence, or the conversation's rows, are not compared again.
EvidenceUnchanged_Unchecked(o) == evidence[o] = 0
RowsUnchanged_Unchecked == TRUE

\* guest evidence changed; project transfer conflict
EvidenceUnchanged(o) ==
  capability.evidence # 0 => evidence[Guest] = capability.evidence /\ evidence[o] = 0

\* guest photo context changed; guest recording state changed
RowsUnchanged == rows[Guest] = capability.rows /\ detail = capability.detail

\* Mutant: whoever holds the token may claim it, first or not.
Unclaimed_Any == capability.state # "none"

Unclaimed == capability.state = "open" /\ capability.live

\* The owner has neither deliveries nor a reply under way.
Claimable(o) ==
  /\ Unclaimed
  /\ activity[o] = "quiet"
  /\ EvidenceUnchanged(o)
  /\ RowsUnchanged

\* Mutant: the transfer row is not marked.
Claimed_Unmarked(o) == [capability EXCEPT !.target = o]

Claimed(o) == [capability EXCEPT !.state = "claimed", !.target = o]

\* The first attachment, one transaction: the project and its evidence are
\* copied from the snapshot, the snapshot's rows inserted for the owner and
\* the guest's own rows deleted, the recordings rebound, the capability marked.
Claim(o) ==
  /\ capability' = Claimed(o)
  /\ evidence' = [evidence EXCEPT ![o] = IF capability.evidence # 0 THEN capability.evidence ELSE @]
  /\ rows' = [rows EXCEPT ![o] = capability.rows, ![Guest] = NoRows]
  /\ detail' = 0
  /\ UNCHANGED <<answering, working>>

\* Mutant: a repeated attachment copies the snapshot again.
Repeat_Copies(o) ==
  /\ evidence' = [evidence EXCEPT ![o] = capability.evidence]
  /\ UNCHANGED <<rows, detail, answering, working, capability>>

\* A repetition by the owner who has it only reads what was saved.
Repeat(o) == UNCHANGED <<conversation, capability>>

IsRepeat(o) ==
  /\ activity[o] # "working"
  /\ capability.state = "claimed" /\ capability.target = o

Attach(c) ==
  /\ At(c, "attach", "sent")
  /\ LET o == calls[c].as IN
     \/ Claimable(o) /\ Claim(o) /\ Step(c, "attached")
     \/ IsRepeat(o) /\ Repeat(o) /\ Step(c, "attached")
     \/ ~Claimable(o) /\ ~IsRepeat(o) /\ UNCHANGED <<conversation, capability>> /\ End(c, "refused")
  /\ UNCHANGED <<activity, imports, phone, bounds>>

\* import_guest_files: deterministic names, overwritten by every repetition.
ImportFiles(c) ==
  /\ At(c, "attach", "attached")
  /\ imports' = [imports EXCEPT !.files = TRUE]
  /\ Step(c, "filed")
  /\ UNCHANGED <<conversation, activity, capability, phone, bounds>>

\* Mutant: the import waits for the guest's deliveries.
ImportResults_Waits(c) ==
  /\ At(c, "attach", "filed")
  /\ imports.results \/ ~working
  /\ imports' = [imports EXCEPT !.results = TRUE]
  /\ Step(c, "imported")
  /\ UNCHANGED <<conversation, activity, capability, phone, bounds>>

\* import_guest_results: once per transfer, and not while the guest's
\* deliveries are still being generated.
ImportResults(c) ==
  /\ At(c, "attach", "filed")
  /\ IF imports.results \/ ~working
     THEN /\ imports' = [imports EXCEPT !.results = TRUE]
          /\ Step(c, "imported")
     ELSE /\ imports' = imports
          /\ End(c, "refused")
  /\ UNCHANGED <<conversation, activity, capability, phone, bounds>>

\* transfer_guest_project: the guest's project becomes the owner's; anybody
\* else's is a conflict.
Rebind(c) ==
  /\ At(c, "attach", "imported")
  /\ IF imports.project \in {Guest, calls[c].as}
     THEN /\ imports' = [imports EXCEPT !.project = calls[c].as]
          /\ End(c, "ok")
     ELSE /\ imports' = imports
          /\ End(c, "refused")
  /\ UNCHANGED <<conversation, activity, capability, phone, bounds>>

\* The database, the file store or the API process fails under the request.
Break(c) ==
  /\ calls[c].pc \notin {"free", "ok", "refused"}
  /\ Fault
  /\ End(c, "refused")
  /\ UNCHANGED <<server, phone, changes>>

-----------------------------------------------------------------------------
(* The app.                                                                *)

Set(op, call) == [device EXCEPT !.op = op, !.call = call]

Request(c, op, as) == calls' = [calls EXCEPT ![c] = [op |-> op, as |-> as, pc |-> "sent"]]

\* Signing in as a guest: the capability is saved before anything is sent, and
\* a record that has lapsed stops the sign-in.
SignIn ==
  /\ device.identity = Guest /\ ~linked /\ Idle
  /\ device.recovery # "lapsed"
  /\ device' = [Set("prepare", NoCall) EXCEPT !.recovery = IF @ = "none" THEN "saved" ELSE @]
  /\ UNCHANGED <<server, calls, wire, outbox, parting, linked, bounds>>

\* Mutant: pending turns do not keep the guest from leaving.
LocalWork_Ignored == FALSE

\* What the adapter sees pending: nothing, while the vault is not open.
LocalWork == device.vault /\ outbox # {}

RequestPreparation(c) ==
  /\ device.op = "prepare" /\ device.call = NoCall
  /\ ~LocalWork
  /\ calls[c] = FreeCall
  /\ device' = Set("prepare", c)
  /\ parting' = IF device.vault THEN "checked"
                ELSE IF device.identity = Guest THEN "unchecked" ELSE "none"
  /\ Request(c, "prepare", Guest)
  /\ UNCHANGED <<server, wire, outbox, linked, bounds>>

FinishLocalWork ==
  /\ device.op = "prepare" /\ device.call = NoCall
  /\ LocalWork
  /\ device' = Set("idle", NoCall)
  /\ UNCHANGED <<server, calls, wire, outbox, parting, linked, bounds>>

Prepared(c) ==
  /\ device.op = "prepare" /\ device.call = c
  /\ calls[c].pc = "ok"
  /\ calls' = [calls EXCEPT ![c] = FreeCall]
  /\ device' = [Set("sign", NoCall) EXCEPT !.recovery = "prepared"]
  /\ UNCHANGED <<server, wire, outbox, parting, linked, bounds>>

\* Another identity: the guest's vault is closed, not cleared.
Become(u) == [device EXCEPT !.identity = u, !.flow = FALSE, !.vault = FALSE]

\* Only then is the guest's session replaced, by a password or in the browser; or
\* the sign-in fails or is cancelled, which also ends a flow in the browser.
Adopt(o) ==
  /\ device.op = "sign"
  /\ device' = [Become(o) EXCEPT !.op = "idle"]
  /\ UNCHANGED <<server, calls, wire, outbox, parting, linked, bounds>>

Stay ==
  /\ device.op = "sign"
  /\ \E flow \in {device.flow, FALSE} : device' = [Set("idle", NoCall) EXCEPT !.flow = flow]
  /\ UNCHANGED <<server, calls, wire, outbox, parting, linked, bounds>>

\* The app dies while the user is in the browser: the flow stays on record.
Abandon ==
  /\ device.op = "sign"
  /\ Fault
  /\ device' = [Set("idle", NoCall) EXCEPT !.flow = TRUE, !.vault = FALSE]
  /\ UNCHANGED <<server, calls, wire, outbox, parting, linked, changes>>

\* handleCallback: the link that ends the browser sign-in reaches the app that was
\* started again.  Nothing is prepared, and the vault is not looked at.
Return(o) ==
  /\ device.identity = Guest /\ Idle
  /\ device.flow
  /\ device' = Become(o)
  /\ parting' = "unchecked"
  /\ UNCHANGED <<server, calls, wire, outbox, linked, bounds>>

\* The flow expires, is declined, or its code cannot be exchanged.
Forget ==
  /\ device.flow
  /\ device' = [device EXCEPT !.flow = FALSE]
  /\ UNCHANGED <<server, calls, wire, outbox, parting, linked, bounds>>

\* signUp makes the guest account permanent in place.
Link ==
  /\ device.identity = Guest /\ ~linked /\ Idle
  /\ linked' = TRUE
  /\ UNCHANGED <<server, calls, wire, outbox, device, parting, bounds>>

\* From one permanent account to another, and from no session at all, nothing
\* is prepared.
Switch(u) ==
  /\ Idle
  /\ device.identity # u
  /\ Guest \in {u, device.identity} => linked
  /\ device' = Become(u)
  /\ UNCHANGED <<server, calls, wire, outbox, parting, linked, bounds>>

\* The app starts again; it opens the vault beside everything else.
Restart ==
  /\ device.identity = Guest /\ device.vault
  /\ device.call = NoCall
  /\ Fault
  /\ device' = [Set("idle", NoCall) EXCEPT !.vault = FALSE]
  /\ UNCHANGED <<server, calls, wire, outbox, parting, linked, changes>>

Open ==
  /\ device.identity = Guest /\ ~device.vault
  /\ device' = [device EXCEPT !.vault = TRUE]
  /\ UNCHANGED <<server, calls, wire, outbox, parting, linked, bounds>>

\* The session is refused or gone when it is read; the record stays.
Lose ==
  /\ device.identity # Nobody
  /\ Fault
  /\ device' = Become(Nobody)
  /\ parting' = IF device.identity = Guest THEN "none" ELSE parting
  /\ UNCHANGED <<server, calls, wire, outbox, linked, changes>>

\* confirmTransfer
Confirm(c) ==
  /\ Idle
  /\ device.identity \in Owners
  /\ device.recovery = "prepared"
  /\ calls[c] = FreeCall
  /\ device' = Set("attach", c)
  /\ Request(c, "attach", device.identity)
  /\ UNCHANGED <<server, wire, outbox, parting, linked, bounds>>

\* The attachment succeeded, and so did reading the conversations and projects.
Finish(c) ==
  /\ device.op = "attach" /\ device.call = c
  /\ calls[c].pc = "ok"
  /\ calls' = [calls EXCEPT ![c] = FreeCall]
  /\ device' = [Set("idle", NoCall) EXCEPT !.recovery = "none"]
  /\ UNCHANGED <<server, wire, outbox, parting, linked, bounds>>

\* Mutant: the record is erased however the operation ended.
AfterFailure_Erases == [Set("idle", NoCall) EXCEPT !.recovery = "none"]

\* The record stays as it is, for a retry with the same capability.
AfterFailure == Set("idle", NoCall)

\* The answer is an error, or one of the reads that follow it fails.
Fail(c) ==
  /\ device.call = c
  /\ \/ calls[c].pc = "refused" /\ faults' = faults
     \/ calls[c].pc = "ok" /\ device.op = "attach" /\ Fault
  /\ calls' = [calls EXCEPT ![c] = FreeCall]
  /\ device' = AfterFailure
  /\ UNCHANGED <<server, wire, outbox, parting, linked, changes>>

\* The connection is lost or the app dies; the request may go on without it.
GiveUp ==
  /\ device.call # NoCall
  /\ Fault
  /\ calls' = [c \in Calls |-> IF c = device.call /\ calls[c].pc \in {"ok", "refused"}
                               THEN FreeCall ELSE calls[c]]
  /\ \E vault \in {device.vault, FALSE} : device' = [AfterFailure EXCEPT !.vault = vault]
  /\ UNCHANGED <<server, wire, outbox, parting, linked, changes>>

\* The local retention cap passes.
Lapse ==
  /\ device.recovery = "prepared"
  /\ device' = [device EXCEPT !.recovery = "lapsed"]
  /\ UNCHANGED <<server, calls, wire, outbox, parting, linked, bounds>>

\* Signing out, offered when nothing is seen pending, erases session, flow and
\* record, finished or not.
SignOut ==
  /\ Idle
  /\ device.identity # Nobody
  /\ ~LocalWork
  /\ device' = [Become(Nobody) EXCEPT !.recovery = "none"]
  /\ parting' = "none"
  /\ UNCHANGED <<server, calls, wire, outbox, linked, bounds>>

-----------------------------------------------------------------------------
Talk == \/ \E t \in Turns : \/ Send(t) \/ Resend(t) \/ Settle(t)
                            \/ Accept(t) \/ Reply(t) \/ Drop(t)
        \/ Answer \/ NoAnswer

Behind == \/ Extract \/ Retouch \/ Deliver \/ Expire
          \/ \E o \in Owners : \/ Engage(o, "replying") \/ Engage(o, "working")
                               \/ Disengage(o) \/ Continue(o)

Process(c) == \/ Prepare(c) \/ Attach(c) \/ ImportFiles(c) \/ ImportResults(c) \/ Rebind(c)

Receive(c) == Prepared(c) \/ Finish(c) \/ Fail(c)

App == \/ SignIn \/ FinishLocalWork \/ Stay \/ Abandon \/ Forget \/ Link \/ Restart \/ Open \/ Lose
       \/ GiveUp \/ Lapse \/ SignOut
       \/ \E u \in Users : Switch(u)
       \/ \E o \in Owners : Adopt(o) \/ Return(o)
       \/ \E c \in Calls : RequestPreparation(c) \/ Confirm(c)

Next == \/ Talk \/ Behind \/ App
        \/ \E c \in Calls : Process(c) \/ Break(c) \/ Receive(c)

Spec == Init /\ [][Next]_vars

\* The API works on every request it has, and the app goes on with what it began.
Fairness ==
  /\ \A c \in Calls : WF_vars(Process(c)) /\ WF_vars(Receive(c)) /\ WF_vars(RequestPreparation(c))
  /\ WF_vars(FinishLocalWork)

FairSpec == Spec /\ Fairness

-----------------------------------------------------------------------------
(* Properties.                                                             *)

\* Every variable has its type; a capability has an owner exactly when it is
\* claimed, and the device waits only for a request of its own operation.
TypeOK ==
  /\ rows \in [Users -> Conversation]
  /\ evidence \in [Users -> Nat]
  /\ detail \in Nat
  /\ answering \in Turns \cup {NoTurn}
  /\ working \in BOOLEAN
  /\ activity \in [Owners -> {"quiet", "replying", "working"}]
  /\ capability \in Capability
  /\ capability.state = "claimed" <=> capability.target # Nobody
  /\ imports \in Imports
  /\ calls \in [Calls -> Call]
  /\ wire \subseteq Turns
  /\ outbox \subseteq Turns
  /\ device \in Device
  /\ device.call # NoCall => calls[device.call].op = device.op
  /\ parting \in Parting
  /\ linked \in BOOLEAN
  /\ changes \in 0..MaxChanges
  /\ faults \in 0..MaxFaults

\* However often, by whomever and however late a transfer is redeemed, only the
\* owner who claimed it gets rows, evidence, files, deliveries or the local project.
OneOwner ==
  /\ \A o \in Owners :
       rows[o] # NoRows \/ evidence[o] # 0 \/ imports.project = o
         => capability.state = "claimed" /\ capability.target = o
  /\ imports.files \/ imports.results => capability.state = "claimed"

HandedOver ==
  /\ capability.state = "claimed"
  /\ imports.files /\ imports.results
  /\ imports.project = capability.target

\* While an account that is not the guest's is signed in, and the guest was not
\* simply signed out of, the transfer is complete in the database, the file store,
\* the task queue and the local store, or the phone keeps the record of a capability
\* the server knows; and no turn was left pending that the phone could have seen.
GuestWorkIsKept ==
  device.identity \in Owners /\ ~linked =>
    /\ parting # "none" => /\ device.recovery \in {"prepared", "lapsed"} \/ HandedOver
                           /\ device.recovery # "none" => capability.state # "none"
    /\ parting = "checked" => outbox = {}

Standing(t, r) == {Reached[r[u][t]] : u \in Users}

\* The highest standing of a turn over all users.
Best(t, r) == CHOOSE n \in Standing(t, r) : \A m \in Standing(t, r) : m <= n

Claims(o) == capability.state # "claimed" /\ capability'.state = "claimed" /\ capability'.target = o

\* The step that redeems a transfer hands over exactly what the guest has at that
\* moment, not what was there when it was prepared; no step, a repetition least of
\* all, loses a turn or an answer or takes back what an owner has made of it.
HandOverIsFaithful ==
  [][/\ \A t \in Turns : Best(t, rows) <= Best(t, rows')
     /\ \A o \in Owners :
          /\ Claims(o) => /\ rows'[o] = rows[Guest]
                          /\ evidence'[o] = evidence[Guest]
          /\ ~Claims(o) => rows'[o] = rows[o]
          /\ evidence[o] <= evidence'[o]]_vars

\* Whatever fails, the app does not wait for a preparation or an attachment for
\* ever: the identity lock that keeps the user from writing is released.
WaitingEnds == device.op \in {"prepare", "attach"} ~> device.op \notin {"prepare", "attach"}
=============================================================================
