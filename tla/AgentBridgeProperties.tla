----------------------- MODULE AgentBridgeProperties -----------------------
(***************************************************************************)
(* What the agent bridge promises: the type invariant, safety invariants,  *)
(* action properties and liveness properties of AgentBridge, and the       *)
(* fairness the liveness properties need.                                  *)
(***************************************************************************)
EXTENDS AgentBridge

-----------------------------------------------------------------------------
Documents == Nat
IdOrNil == Ids \cup {Nil}
Request == [id : Ids, call : Calls, doc : Documents, base : IdOrNil]
ErrorCode ==
  StopReasons \cup
  {Unreadable, "session_stopped", "request_expired", "invalid_request_deadline",
   "request_outcome_unknown", "request_receipt_unavailable", "unknown_command",
   "ineligible_tab", "tab_changed", "tab_closed", "tab_grant_limit", "tab_selection_failed",
   "tab_permission_expired", "unknown_tab_capability", "not_attached",
   "activate_attached_tab", "stale_document", "permission_denied", "prompt_unavailable",
   "invalid_permissions", "invalid_wait", "invalid_scroll", "invalid_question",
   "invalid_url", "invalid_batch", "unknown_reference", "wait_cancelled",
   "renderer_unavailable", "renderer_error", "invalid_preflight", "invalid_observation"}
Answer == [id : Ids, error : ErrorCode \cup {NoError}, doc : Documents, base : IdOrNil,
           partial : BOOLEAN, settled : BOOLEAN, persisted : BOOLEAN]
WaitName == [id : Ids, doc : Documents]
Script == [id : Ids, doc : Documents, tab : Tabs, command : Command,
           preflight : BOOLEAN, mute : BOOLEAN]
Reason == StopReasons \cup {NoError, Unreadable}

Bridge ==
  [on : SUBSET Flag, tab : Tabs \cup {Nil}, id : IdOrNil, req : Request \cup {Nil},
   command : Command \cup {NoError}, document : Documents, fresh : Documents,
   deferred : ErrorCode \cup {NoError}, stopped : Reason,
   baseline : [by : Ids, content : Nat] \cup {Nil}, prompt : WaitName \cup {Nil},
   granted : SUBSET Tabs, authorized : SUBSET Tabs,
   task : [Tabs -> [origin : Origins, rules : Rules] \cup {Nil}],
   post : {<<>>}, sent : {{}}, closed : {{}}]

IoTask(t) ==
  CASE t.op \in {"read", "readstop"}   -> TRUE
    [] t.op = "cancel"                 -> t.id \in Ids
    [] t.op = "stop"                   -> t.reason \in StopReasons
    [] t.op \in {"respond", "rewrite"} -> t.answer \in Answer

(* Every variable of the bridge, the mailbox and the window has its type.  *)
TypeOK ==
  /\ b \in Bridge
  /\ \A k \in DOMAIN io : IoTask(io[k])
  /\ \A k \in DOMAIN replies : replies[k].op \in {"read", "readstop", "cancel", "respond"}
  /\ \A s \in scripts : s \in Script
  /\ \A r \in results : r.id \in Ids /\ r.doc \in Documents
  /\ \A d \in dialogs : d \in WaitName
  /\ uiCancel \in WaitName \cup {Nil}
  /\ request \in Request \cup {Nil} /\ answer \in Answer \cup {Nil}
  /\ claims \subseteq Ids /\ archive \in [Ids -> Answer \cup {Nil}]
  /\ stopFile \in Reason /\ clientStop \in BOOLEAN
  /\ \A c \in cancelFiles \cup waitCancels : c \in WaitName
  /\ active \in Tabs \cup {Nil} /\ page \in [Tabs -> Origin \cup {"closed"}]
  /\ world \in [Tabs -> Documents] /\ content \in [Tabs -> Nat] /\ axEvent \in BOOLEAN
  /\ effects \in [Ids -> Nat] /\ approved \subseteq Ids /\ declined \subseteq Ids
  /\ published \in [Ids -> Request \cup {Nil}]

-----------------------------------------------------------------------------
(***************************************************************************)
(* Control: who may be working on what at one time.                        *)
(***************************************************************************)

(* The bridge reads a request, works on one or writes its response, and    *)
(* never two of these; what only a current request can have (a script or a *)
(* navigation under way, a wait, a permission preflight) never outlives    *)
(* it, and an interruption waits only while a script or a navigation is    *)
(* under way (Poll, Error, Finish).                                        *)
OneRequestAtATime(x) ==
  /\ Has(x, "reading") => ~Has(x, "busy") /\ ~Has(x, "writing_response")
  /\ Has(x, "busy") => ~Has(x, "writing_response")
  /\ x.on \cap {"renderer_pending", "navigating", "waiting", "preflight"} # {}
       => Has(x, "busy")
  /\ ~(Has(x, "renderer_pending") /\ Has(x, "navigating"))
  /\ Has(x, "busy") /\ x.deferred # NoError
       => Has(x, "renderer_pending") \/ Has(x, "navigating")

(* An open prompt belongs to the request and the document in hand, and     *)
(* nothing else of that request is under way while the user decides, so an *)
(* answer always finds what it was asked about (Ask, Answered, Error).     *)
PromptExclusive(x) ==
  x.prompt # Nil =>
    /\ Has(x, "busy") /\ ~Has(x, "renderer_pending") /\ ~Has(x, "navigating")
    /\ x.deferred = NoError
    /\ x.prompt = [id |-> x.id, doc |-> x.document]

(* After a stop the bridge is detached from its tab, holds no consent and  *)
(* no task rule, and a request still in hand is on its way out with an     *)
(* error (StopSession and every caller of it).                             *)
StopSticky(x) ==
  x.stopped # NoError =>
    /\ ~Has(x, "attached") /\ x.authorized = {}
    /\ \A t \in Tabs : x.task[t] = Nil
    /\ Has(x, "busy") => x.deferred # NoError

ControlOK == OneRequestAtATime(b) /\ PromptExclusive(b) /\ StopSticky(b)

-----------------------------------------------------------------------------
(***************************************************************************)
(* Execution: what scripts may do, and what the response says of them.     *)
(***************************************************************************)
ReadsOnly(s) == s.preflight \/ s.command \in ReadOnly

(* execution_settled in an answer is true only if no script of that        *)
(* request that could still change the page is left: a lost callback is    *)
(* not taken for a script that never ran (Observed, Finish, and            *)
(* DidFinishNavigation, which gives up waiting for read-only probes only). *)
SettledMeansQuiescent ==
  \A i \in Ids :
    archive[i] # Nil /\ archive[i].settled
      => \A s \in scripts : s.id = i => ReadsOnly(s)

(* Two requests never have acting scripts outstanding at the same time,    *)
(* not even when the renderer lost the callback of the first (quarantine   *)
(* in Observed, the guard of Poll).                                        *)
OneMutationInFlight ==
  \A s, q \in scripts : Acts(s) /\ Acts(q) => s.id = q.id

(* A settled answer that reports an error and no possible partial effect   *)
(* is true to it: the request changed nothing in the page (Error's         *)
(* deferred_error_, Observed).                                             *)
HonestFailure ==
  \A i \in Ids :
    archive[i] # Nil /\ archive[i].settled /\ archive[i].error # NoError
      /\ ~archive[i].partial => effects[i] = 0

(* The bridge implements the promise of AgentPromise: each request is      *)
(* admitted once, acts once and is answered once, truthfully and for good, *)
(* whatever crashes, restarts, second copies in the mailbox, lost          *)
(* callbacks and failed writes happen around it (ClaimAgentRequest,        *)
(* StoreAgentResponse, Observed, Error).                                   *)
Told(a) ==
  CASE a = Nil                         -> "nothing"
    [] a # Nil /\ ~a.settled           -> "unknown"
    [] a # Nil /\ a.settled /\ a.error # NoError /\ ~a.partial -> "failed"
    [] OTHER                           -> "over"

Promise ==
  INSTANCE AgentPromise WITH admitted <- claims,
                             acted <- {i \in Ids : effects[i] > 0},
                             told <- [i \in Ids |-> Told(archive[i])]
PromiseKept == Promise!Spec

(* A request takes effect in a page at most once, whatever crashes,        *)
(* restarts, second copies in the mailbox and failed writes happen around  *)
(* it (ClaimAgentRequest, and Received for a claim that is not fresh).     *)
AtMostOnceEffect == \A i \in Ids : effects[i] <= 1

(* An answer that says receipt_persisted is the archived one, so a client  *)
(* that asks again gets the same answer (WriteDurableResponse).            *)
ReceiptIsArchived ==
  answer # Nil /\ answer.persisted => archive[answer.id] = answer

NewScripts ==
  {s \in scripts' : ~s.mute /\ s \notin scripts}

Allowed(t, acts) ==
  /\ b.task[t] # Nil /\ b.task[t].origin = page[t]
  /\ \A a \in acts : b.task[t].rules[IF a = "check" THEN "click" ELSE a] = "allow"

(* A script that changes the page is handed to the renderer only if the    *)
(* user accepted this very request, or a task rule for the origin the tab  *)
(* shows at that moment allows each of its actions, and only to the tab in *)
(* front (Preflight, Observed, Answered).                                  *)
AuthorizedDispatch ==
  [][\A s \in NewScripts :
       Acts(s) => /\ s.id \in approved' \/ Allowed(s.tab, published[s.id].call.acts)
                  /\ active' = s.tab /\ page[s.tab] \in Origins
                  /\ s.doc = b'.document]_vars

(* The bridge is attached only to an open tab the user approved, and       *)
(* consent it may come back to with select-tab is for a page the tab still *)
(* shows: closing the tab or leaving the page took it away                 *)
(* (GrantedAgentTab, attach, select-tab, WebContentsDestroyed).            *)
ConsentHeld ==
  /\ Has(b, "attached") => b.tab \in b.granted /\ page[b.tab] # "closed"
  /\ \A t \in b.authorized : t \in b.granted /\ page[t] \in Origins

(* Task rules held for an open tab are rules for the origin it shows: a    *)
(* navigation to another origin has revoked them (GrantedAgentTab,         *)
(* DidFinishNavigation).                                                   *)
RulesCoverPage ==
  \A t \in Tabs : b.task[t] # Nil /\ page[t] # "closed" => b.task[t].origin = page[t]

(* The snapshot that references and deltas are resolved against is one of  *)
(* the document the bridge observes now (ResetDocument).                   *)
BaselineIsCurrent ==
  b.baseline # Nil =>
    /\ archive[b.baseline.by] # Nil => archive[b.baseline.by].doc = b.document
    /\ \A k \in DOMAIN io :
         io[k].op = "respond" /\ io[k].answer.id = b.baseline.by
           => io[k].answer.doc = b.document

-----------------------------------------------------------------------------
(***************************************************************************)
(* Interruption: stops, cancellations, late replies.                       *)
(***************************************************************************)

(* Once stopped, this process hands no script to the renderer, shows no    *)
(* prompt and never takes the stop back; only the end of the process does, *)
(* and the next one finds native-session-stop.json (StopSession, Received, *)
(* Execute).                                                               *)
StopIsPermanent ==
  [][b.stopped # NoError /\ count'.crashes = count.crashes =>
       /\ b'.stopped = b.stopped /\ NewScripts = {}
       /\ b'.prompt # Nil => b'.prompt = b.prompt]_vars

(* A request read from the mailbox when a stop is on disk starts nothing,  *)
(* in the process that was stopped and in every later one (ReadRequest,    *)
(* which reads the stop after the request, and Received).                  *)
StopRefusesRequests ==
  [][Has(b, "reading") /\ ~Has(b', "reading") /\ stopFile # NoError
     /\ count'.crashes = count.crashes
       => NewScripts = {} /\ b'.prompt = Nil /\ ~Has(b', "attached")]_vars

(* agent_request_ledger.h of a stop: "Neither reconnect, detach, nor a new *)
(* model request may clear it."  Once the client was told that the user    *)
(* stopped the session, no request runs a script or opens a prompt, in     *)
(* this process or in a later one.                                         *)
StopSurvives ==
  [][(\E i \in Ids : archive[i] # Nil /\ archive[i].error \in {"user_cancelled", "user_takeover"})
       => NewScripts = {} /\ (b'.prompt # Nil => b'.prompt = b.prompt)]_vars

(* The session is stopped as cancelled by the user only if the user        *)
(* declined a prompt: the denial a prompt still sends after the bridge has *)
(* closed it counts for nothing (Answered, ClosePrompt).                   *)
CancelIsUsers ==
  /\ b.stopped = "user_cancelled" => declined # {}
  /\ \A i \in Ids : archive[i] # Nil /\ archive[i].error = "user_cancelled"
                      => declined # {}

(* A wait ends as cancelled only if that wait, by its id and its document, *)
(* was cancelled by the client or from the tab's menu (CancelWait,         *)
(* PendingWaitCancellation).                                               *)
CancelIsForThisWait ==
  \A i \in Ids :
    archive[i] # Nil /\ archive[i].error = "wait_cancelled"
      => [id |-> i, doc |-> published[i].doc] \in waitCancels

(* Comment of Error: the mailbox stays occupied until the completion       *)
(* signal, "preserving the first interruption as the outcome".             *)
InterruptionPreserved ==
  [][Has(b, "busy") /\ b.deferred # NoError /\ ~Has(b', "busy")
     /\ count'.crashes = count.crashes
       => io'[Len(io')].answer.error = b.deferred]_vars

-----------------------------------------------------------------------------
(***************************************************************************)
(* Liveness.                                                               *)
(***************************************************************************)
CurrentScript == \E s \in scripts : s.id = b.id /\ ~s.mute /\ (RunScript(s) \/ LoseCallback(s))
CurrentResult == \E r \in results : r.id = b.id /\ DeliverResult(r)
NextReply == ReceiveRequest \/ ReceiveStop \/ ReceiveCancel \/ ResponseWritten

(***************************************************************************)
(* The renderer answers the script of the current request or its pipe      *)
(* reports a failure, an accessibility event arrives, and the 50 ms wakeup *)
(* fires.  Nothing is assumed of the user, of the client, of the mailbox   *)
(* or of the clock.                                                        *)
(***************************************************************************)
WaitSpec ==
  /\ Spec
  /\ WF_vars(CurrentScript) /\ WF_vars(CurrentResult)
  /\ WF_vars(AccessibilityEvent) /\ WF_vars(WakeupFires)

(***************************************************************************)
(* The renderer as above; the poll timer fires, the I/O sequence runs its  *)
(* tasks and their replies return, a page stops loading, and the clock     *)
(* reaches the deadline of a request and fires its timer.                  *)
(***************************************************************************)
FairSpec ==
  /\ Spec
  /\ WF_vars(CurrentScript) /\ WF_vars(CurrentResult)
  /\ WF_vars(Poll) /\ WF_vars(IoSequence) /\ WF_vars(NextReply)
  /\ WF_vars(StopLoading) /\ WF_vars(Expires) /\ WF_vars(DeadlineFires)

(* A wait whose page shows something else than the acknowledged snapshot   *)
(* ends, without the help of the wait limit or of the deadline: no change  *)
(* falls between a probe and the event that should repeat it (WakeWait,    *)
(* Execute, Observed).                                                     *)
WaitWakes ==
  (/\ Has(b, "waiting") /\ b.deferred = NoError /\ b.baseline # Nil
   /\ content[b.tab] # b.baseline.content) ~> ~Has(b, "waiting")

(* A claimed request is answered for good, or the bridge has fenced itself *)
(* off because it cannot know what became of a script (Poll, Error's       *)
(* deferred interruptions, the deadline).                                  *)
ClaimedIsAnswered ==
  \A i \in Ids : (i \in claims) ~> (archive[i] # Nil \/ Has(b, "quarantined"))

(* A stop asked for by the client reaches the bridge, whatever it is doing *)
(* (Poll reads the control file next to the request in hand).              *)
StopArrives == clientStop ~> (b.stopped # NoError \/ Has(b, "quarantined"))
=============================================================================
