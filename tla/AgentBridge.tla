---------------------------- MODULE AgentBridge ----------------------------
(***************************************************************************)
(* The native agent bridge of one browser window                           *)
(* (browser/ui/agent_bridge.cc): it takes one request at a time from the   *)
(* mailbox directory, asks the user where consent is needed, runs one      *)
(* fixed script in the observed tab, and archives one response per id.     *)
(*                                                                         *)
(* The members of AgentBridgeImpl are the fields of the record b.  Its     *)
(* handlers call each other (Received -> Execute -> Error -> StopSession   *)
(* ...) before they return, so each function of the class is an operator   *)
(* from the members before the call to the members after it, and an action *)
(* is one handler the UI thread runs.  Tasks posted to the I/O sequence,   *)
(* scripts handed to the renderer and prompts told to close collect in     *)
(* b.post, b.sent and b.closed, and leave when the handler returns.        *)
(***************************************************************************)
EXTENDS AgentLedger, Naturals, Sequences, FiniteSets

CONSTANTS
  Tabs,           \* tabs of the window
  Origins,        \* origins of pages the bridge may work on
  Calls,          \* what a request may say, apart from its id and its capability
  MaxGrants,      \* tabs that can hold consent (32 in the code)
  PromptShown,    \* outcomes of showing a prompt: {TRUE}, or {TRUE, FALSE}
  IoOutcomes,     \* outcomes of a write of the ledger: some of "done", "refused", "torn"
  MaxNavigations, MaxClosed, MaxContent, MaxRepublished, MaxStops, MaxCrashes
                  \* bounds of the environment's steps

VARIABLES
  b,              \* members of AgentBridgeImpl
  io,             \* tasks of the I/O sequence, in order
  replies,        \* replies of those tasks, on their way to the UI thread
  scripts,        \* scripts handed to the renderer and not run yet
  results,        \* results of scripts, on their way to the UI thread
  dialogs,        \* prompts told to close whose last reply is still to come
  uiCancel        \* closure returned by PendingWaitCancellation, or Nil

VARIABLES
  request,        \* request.json
  answer,         \* response.json
  claims,         \* ids with a native-request-<id>.claim
  archive,        \* native-request-<id>.result
  stopFile,       \* native-session-stop.json
  clientStop,     \* client-stop.json exists
  cancelFiles     \* cancel-wait-<id>.json

VARIABLES
  active,         \* the window's active tab
  page,           \* origin a tab shows; "other" when ineligible; "closed"
  world,          \* document whose targets the tab's isolated world holds
  content,        \* version of what a tab's page shows
  axEvent         \* an accessibility event is on its way to the bridge

VARIABLES
  effects,        \* acting scripts that took effect, per request id
  approved,       \* ids of acting requests the user accepted in a prompt
  declined,       \* ids the user declined
  waitCancels,    \* [id, doc] of waits somebody asked to cancel
  published,      \* what each id's request said, or Nil
  count           \* bounded environment steps taken so far

bridgeVars == <<b, io, replies, scripts, results, dialogs, uiCancel>>
diskVars == <<request, answer, claims, archive, stopFile, clientStop, cancelFiles>>
tabVars == <<active, page, world, content, axEvent>>
historyVars == <<effects, approved, declined, waitCancels, published, count>>
vars == <<bridgeVars, diskVars, tabVars, historyVars>>

-----------------------------------------------------------------------------
(***************************************************************************)
(* Data.                                                                   *)
(***************************************************************************)
Flag == {"busy", "reading", "reading_cancel", "reading_stop", "writing_response",
         "renderer_pending", "navigating", "quarantined", "request_claimed",
         "preflight", "waiting", "wait_limit_armed", "wait_limit_reached",
         "wait_dirty", "wait_wakeup", "deadline", "expired", "attached"}

Origin == Origins \cup {"other"}
Command == {"tabs", "status", "select-tab", "cancel", "detach", "attach", "wait-change",
            "observe", "read", "scroll", "ask", "navigate", "batch", "fill", "click",
            "unknown"}
Action == {"fill", "click", "check", "navigate"}
Rules == [{"fill", "click", "navigate"} -> {"ask", "allow", "deny"}]

(* valid stands for the checks of the command's own parameters; acts are   *)
(* the actions of a fill, click or batch; rules, tab and origin are what   *)
(* an attach, a select-tab and a navigate ask for.                         *)
Call == [command : Command, valid : BOOLEAN, expiry : {"future", "past", "invalid"},
         acts : SUBSET Action, rules : Rules \cup {Nil}, tab : Tabs \cup {Nil},
         origin : Origin]

ASSUME CallsAssumption == Calls \subseteq Call
ASSUME OutcomesAssumption == IoOutcomes \subseteq {"done", "refused", "torn"}
ASSUME PromptAssumption == PromptShown \subseteq BOOLEAN

Acting == {"fill", "click", "batch"}

(* A fill or a click is one action, and a batch without one is not valid. *)
ASSUME ActionsAssumption == \A c \in Calls : c.valid /\ c.command \in Acting => c.acts # {}

(* The mark of a closed tab is no origin. *)
ASSUME PagesAssumption == "closed" \notin Origins

ReadOnly == {"observe", "read", "wait-change"}
NoResult == [kind |-> "none", truncated |-> FALSE, content |-> 0]

InitBridge(fresh) ==
  [on |-> {}, tab |-> Nil, id |-> Nil, req |-> Nil, command |-> NoError,
   document |-> 0, fresh |-> fresh, deferred |-> NoError, stopped |-> NoError,
   baseline |-> Nil, prompt |-> Nil, granted |-> {}, authorized |-> {},
   task |-> [t \in Tabs |-> Nil], post |-> <<>>, sent |-> {}, closed |-> {}]

Has(x, flag) == flag \in x.on
Raise(x, flags) == [x EXCEPT !.on = @ \cup flags]
Drop(x, flags) == [x EXCEPT !.on = @ \ flags]
Post(x, t) == [x EXCEPT !.post = Append(@, t)]

Eligible(t) == t # Nil /\ page[t] \in Origins

(* AgentTaskPermissions: rules of one tab, valid on one origin. *)
CoversAnyOrigin(x, t, origin) == x.task[t] # Nil

Covers(x, t, origin) == x.task[t] # Nil /\ x.task[t].origin = origin

ActionRule(x, action) ==
  LET rule == IF action = "check" THEN "click" ELSE action
  IN  IF Covers(x, x.tab, page[x.tab]) THEN x.task[x.tab].rules[rule] ELSE "ask"

RequestRule(x) ==
  LET rules == {ActionRule(x, a) : a \in x.req.call.acts}
  IN  IF "deny" \in rules THEN "deny"
      ELSE IF "ask" \in rules THEN "ask" ELSE "allow"

-----------------------------------------------------------------------------
(***************************************************************************)
(* Members of AgentBridgeImpl called by more than one handler.             *)
(***************************************************************************)
ClosePrompt(x) ==
  IF x.prompt = Nil THEN x
  ELSE [x EXCEPT !.prompt = Nil, !.closed = @ \cup {x.prompt}]

ResetDocumentKeepsBaseline(x) == [x EXCEPT !.document = x.fresh + 1, !.fresh = @ + 1]

ResetDocument(x) ==
  [x EXCEPT !.document = x.fresh + 1, !.fresh = @ + 1, !.baseline = Nil]

StopSession(x, reason) ==
  IF x.stopped # NoError THEN x
  ELSE [x EXCEPT
          !.stopped = reason, !.on = @ \ {"attached"}, !.baseline = Nil,
          !.authorized = {}, !.task = [t \in Tabs |-> Nil],
          !.post = IF reason # Unreadable /\ x.id # Nil
                   THEN Append(@, [op |-> "stop", reason |-> reason]) ELSE @]

(* partial: the answer says that something may have changed (completed or  *)
(* partial_effect_possible).  base stands for the revision of a snapshot.  *)
Response(x, error, doc, partial) ==
  [id |-> x.id, error |-> error, doc |-> doc, base |-> IF doc = 0 THEN Nil ELSE x.id,
   partial |-> partial, settled |-> ~Has(x, "quarantined"),
   persisted |-> Has(x, "request_claimed")]

Finish(x, error, doc, partial) ==
  LET y == ClosePrompt(x)
  IN  [y EXCEPT
         !.on = (@ \ {"busy", "preflight", "waiting", "wait_limit_armed",
                      "wait_wakeup", "navigating", "deadline"})
                \cup {"writing_response"},
         !.post = Append(@, [op |-> "respond",
                             answer |-> Response(x, error, doc, partial)])]

Succeed(x) == Finish(x, NoError, 0, FALSE)

Error(x, e) ==
  LET s == IF e \in {"user_cancelled", "user_takeover", "client_cancelled"}
           THEN StopSession(x, e) ELSE x
      y == ClosePrompt(s)
  IN  IF ~Has(s, "busy") THEN s
      ELSE IF Has(s, "renderer_pending") \/ Has(s, "navigating")
      THEN [y EXCEPT !.deferred = IF @ = NoError THEN e ELSE @,
                     !.on = @ \ {"deadline"}]
      ELSE Finish(s, e, 0, s.deferred # NoError)

Execute(x) ==
  LET y == Drop(x, {"wait_wakeup"})
      script == [id |-> x.id, doc |-> x.document, tab |-> x.tab,
                 command |-> x.command, preflight |-> Has(x, "preflight"), mute |-> FALSE]
      waiting == Has(x, "waiting")
  IN  IF ~Has(x, "busy") \/ x.deferred # NoError THEN x
      ELSE IF Has(x, "renderer_pending")
      THEN IF waiting THEN Raise(x, {"wait_dirty"}) ELSE x
      ELSE IF Has(x, "expired") THEN Error(y, "request_expired")
      ELSE IF ~Eligible(x.tab) THEN Error(y, "ineligible_tab")
      ELSE IF waiting /\ active # x.tab THEN Error(y, "tab_changed")
      ELSE [Raise(IF waiting THEN Drop(y, {"wait_dirty"}) ELSE y, {"renderer_pending"})
              EXCEPT !.sent = @ \cup {script}]

WakeWaitMissesProbe(x) ==
  IF ~Has(x, "busy") \/ ~Has(x, "waiting") \/ x.deferred # NoError
     \/ Has(x, "renderer_pending") THEN x
  ELSE Raise(x, {"wait_wakeup"})

WakeWait(x) ==
  IF ~Has(x, "busy") \/ ~Has(x, "waiting") \/ x.deferred # NoError THEN x
  ELSE IF Has(x, "renderer_pending") THEN Raise(x, {"wait_dirty"})
  ELSE Raise(x, {"wait_wakeup"})

(* The handlers' early returns, in order: the first check that fails is the error. *)
Checked(x, checks, y) ==
  LET failed == {i \in DOMAIN checks : checks[i][1]}
  IN  IF failed = {} THEN y
      ELSE Error(x, checks[CHOOSE i \in failed : \A j \in failed : i <= j][2])

(* Consent for the tab just approved, and its task rules where it asked for some. *)
GrantWithoutRules(x) ==
  [x EXCEPT
     !.granted = @ \cup {x.tab}, !.authorized = @ \cup {x.tab},
     !.task[x.tab] = [origin |-> page[x.tab], rules |-> x.req.call.rules]]

Grant(x) ==
  [x EXCEPT
     !.granted = @ \cup {x.tab}, !.authorized = @ \cup {x.tab},
     !.task[x.tab] = IF x.req.call.rules = Nil THEN @
                     ELSE [origin |-> page[x.tab], rules |-> x.req.call.rules]]

Approved(x) ==
  CASE x.command = "ask"      -> Succeed(x)
    [] x.command = "attach"   ->
         Execute([Grant(Raise(x, {"attached"})) EXCEPT !.command = "observe"])
    [] x.command = "navigate" -> Raise(x, {"navigating"})
    [] OTHER                  -> Execute(x)

(* The answer is for the request and the document the prompt was opened for. *)
ForAnyRequest(x, id, doc) == TRUE

ForThisRequest(x, id, doc) == Has(x, "busy") /\ id = x.id /\ doc = x.document

(* Runs at most once per prompt, and without one where a rule allows the action. *)
Answered(x, id, doc, accepted) ==
  LET y == [x EXCEPT !.prompt = Nil]
      denied == IF y.command = "attach" THEN Drop(y, {"attached"}) ELSE y
  IN  IF ~ForThisRequest(x, id, doc) THEN x
      ELSE IF ~Has(y, "expired") /\ ~accepted THEN Error(denied, "user_cancelled")
      ELSE Checked(y, << <<Has(y, "expired"), "request_expired">>,
                         <<~Eligible(y.tab) \/ active # y.tab, "tab_changed">> >>,
                   Approved(y))

(* A prompt that has no window to attach to answers "denied" before it returns. *)
Ask(x, shown) ==
  IF shown THEN [x EXCEPT !.prompt = [id |-> x.id, doc |-> x.document]]
  ELSE Error(Answered(x, x.id, x.document, FALSE), "prompt_unavailable")

PreflightSkipped(x) ==
  Checked(x, << <<RequestRule(x) = "deny", "permission_denied">> >>, Execute(x))

Preflight(x) ==
  Checked(x, << <<RequestRule(x) = "deny", "permission_denied">> >>,
          Execute(Raise(x, {"preflight"})))

-----------------------------------------------------------------------------
(***************************************************************************)
(* Received: one request, command by command.                              *)
(***************************************************************************)
Acknowledged(x) == x.baseline # Nil /\ x.req.base = x.baseline.by

SelectTab(x, selected) ==
  LET t == x.req.call.tab
      y == IF t \in x.authorized /\ ~Eligible(t)
           THEN [x EXCEPT !.authorized = @ \ {t}] ELSE x
  IN  Checked(y, << <<t \notin x.granted \/ page[t] = "closed", "unknown_tab_capability">>,
                    <<t \notin x.authorized, "tab_permission_expired">>,
                    <<~Eligible(t), "ineligible_tab">>,
                    <<~selected, "tab_selection_failed">> >>,
              Execute([ResetDocument(Raise(x, {"attached"}))
                         EXCEPT !.tab = t, !.command = "observe"]))

Detach(x) ==
  LET s == IF x.command = "cancel" THEN StopSession(x, "agent_cancelled") ELSE x
  IN  Succeed([Drop(s, {"attached"}) EXCEPT
                 !.tab = Nil, !.baseline = Nil, !.granted = {}, !.authorized = {},
                 !.task = [t \in Tabs |-> Nil]])

Attach(x, shown) ==
  LET kept == {t \in x.granted : page[t] # "closed"}
      y == IF x.req.call.valid /\ Eligible(active) THEN [x EXCEPT !.granted = kept] ELSE x
  IN  Checked(y, << <<~x.req.call.valid, "invalid_permissions">>,
                    <<~Eligible(active), "ineligible_tab">>,
                    <<active \notin kept /\ Cardinality(kept) >= MaxGrants, "tab_grant_limit">> >>,
              Ask(ResetDocument(Drop([y EXCEPT !.tab = active,
                                               !.authorized = @ \ {active},
                                               !.task[active] = Nil], {"attached"})),
                  shown))

Attached(x) == Eligible(x.tab) /\ Has(x, "attached")

WaitChange(x) ==
  Checked(x, << <<~Attached(x), "not_attached">>,
                <<~x.req.call.valid, "invalid_wait">>,
                <<active # x.tab, "activate_attached_tab">>,
                <<x.req.doc # x.document \/ ~Acknowledged(x), "stale_document">> >>,
          Execute(Raise(Drop(x, {"wait_limit_reached", "wait_dirty"}),
                        {"waiting", "wait_limit_armed"})))

Observe(x) == Checked(x, << <<~Attached(x), "not_attached">> >>, Execute(x))

Read(x) ==
  Checked(x, << <<~Attached(x), "not_attached">>,
                <<x.req.doc # x.document, "stale_document">> >>, Execute(x))

(* The other commands need the attached tab in front. *)
InFront(x, checks, y) ==
  Checked(x, << <<~Attached(x), "not_attached">>,
                <<active # x.tab, "activate_attached_tab">> >>, Checked(x, checks, y))

Scroll(x) ==
  InFront(x, << <<x.req.doc # x.document, "stale_document">>,
                <<~x.req.call.valid, "invalid_scroll">> >>, Execute(x))

AskUser(x, shown) ==
  InFront(x, << <<~x.req.call.valid, "invalid_question">> >>, Ask(x, shown))

Navigate(x, shown) ==
  InFront(x, << <<~x.req.call.valid, "invalid_url">>,
                <<Attached(x) /\ ActionRule(x, "navigate") = "deny", "permission_denied">> >>,
          IF ActionRule(x, "navigate") = "allow" /\ x.req.call.origin = page[x.tab]
          THEN Answered(x, x.id, x.document, TRUE)
          ELSE Ask(x, shown))

Batch(x) ==
  InFront(x, << <<~Acknowledged(x), "stale_document">>,
                <<~x.req.call.valid, "invalid_batch">> >>, Preflight(x))

FillOrClick(x) ==
  InFront(x, << <<x.baseline = Nil \/ x.req.doc # x.document, "stale_document">>,
                <<~x.req.call.valid, "unknown_reference">> >>, Preflight(x))

Dispatch(x, shown, selected) ==
  IF x.stopped # NoError /\ x.command \notin {"status", "detach", "cancel"}
  THEN Finish(x, "session_stopped", 0, FALSE)
  ELSE CASE x.command \in {"tabs", "status"}   -> Succeed(x)
         [] x.command = "select-tab"           -> SelectTab(x, selected)
         [] x.command \in {"cancel", "detach"} -> Detach(x)
         [] x.command = "attach"               -> Attach(x, shown)
         [] x.command = "wait-change"          -> WaitChange(x)
         [] x.command = "observe"              -> Observe(x)
         [] x.command = "read"                 -> Read(x)
         [] x.command = "scroll"               -> Scroll(x)
         [] x.command = "ask"                  -> AskUser(x, shown)
         [] x.command = "navigate"             -> Navigate(x, shown)
         [] x.command = "batch"                -> Batch(x)
         [] x.command \in {"fill", "click"}    -> FillOrClick(x)
         [] OTHER                              -> Error(x, "unknown_command")

BeginUntimed(x) ==
  [Drop(Raise(x, {"busy", "request_claimed"}), {"expired"})
     EXCEPT !.deferred = NoError, !.command = x.req.call.command]

Begin(x) ==
  [Drop(Raise(x, {"busy", "request_claimed", "deadline"}), {"expired"})
     EXCEPT !.deferred = NoError, !.command = x.req.call.command]

(* A request whose claim is this call's: nobody has executed it before. *)
Admit(x, shown, selected) ==
  LET y == Begin(x)
  IN  Checked(y, << <<y.req.call.expiry = "invalid", "invalid_request_deadline">>,
                    <<y.req.call.expiry = "past", "request_expired">> >>,
              Dispatch(y, shown, selected))

(* A request somebody claimed before: answer from the archive, or not at all. *)
Refuse(x, cached) ==
  LET y == Drop(x, {"request_claimed"})
  IN  IF cached = Nil
      THEN Error(Raise(y, {"busy", "quarantined"}), "request_outcome_unknown")
      ELSE Post(IF cached.settled THEN y ELSE Raise(y, {"quarantined"}),
                [op |-> "rewrite", answer |-> cached])

Received(x, r, shown, selected) ==
  LET s == IF r.stop = NoError THEN Drop(x, {"reading"})
           ELSE StopSession(Drop(x, {"reading"}), r.stop)
      y == [s EXCEPT !.req = r.data, !.id = r.data.id]
  IN  IF r.data = Nil THEN s
      ELSE IF r.fresh THEN Admit(y, shown, selected) ELSE Refuse(y, r.cached)

(* Observed: a snapshot ends the request, except a wait that saw no change. *)
Snapshot(x, result) ==
  LET changed == x.baseline = Nil \/ x.baseline.content # result.content
      taken == [by |-> x.id, content |-> result.content]
  IN  IF Has(x, "waiting") /\ ~result.truncated /\ ~changed /\ ~Has(x, "wait_limit_reached")
      THEN IF Has(x, "wait_dirty") THEN WakeWait(x) ELSE x
      ELSE Finish([x EXCEPT !.baseline = IF result.truncated THEN Nil ELSE taken],
                  NoError, x.document, FALSE)

(* The page still offers the target: permission is read again, then asked for. *)
Preflighted(x, shown) ==
  LET y == Drop(x, {"preflight"})
  IN  Checked(x, << <<Has(x, "expired"), "request_expired">>,
                    <<~Eligible(x.tab) \/ active # x.tab, "tab_changed">> >>,
        Checked(y, << <<RequestRule(y) = "deny", "permission_denied">> >>,
                IF RequestRule(y) = "allow"
                THEN Answered(y, y.id, y.document, TRUE) ELSE Ask(y, shown)))

(* A missing result is no proof that the script did not or will not run. *)
SettleAnyway(x, result) == Drop(x, {"renderer_pending"})

Settle(x, result) ==
  LET seen == Drop(x, {"renderer_pending"})
  IN  IF result.kind = "none" THEN Raise(seen, {"quarantined"}) ELSE seen

InterruptedCleanly(x) == Finish(x, x.deferred, 0, FALSE)

Interrupted(x) == Finish(x, x.deferred, 0, TRUE)

Observed(x, id, doc, result, shown) ==
  LET y == Settle(x, result)
  IN  IF ~Has(x, "busy") \/ id # x.id \/ ~Has(x, "renderer_pending") THEN x
      ELSE IF y.deferred # NoError THEN Interrupted(y)
      ELSE Checked(y, << <<doc # y.document, "stale_document">>,
                         <<result.kind = "none", "renderer_unavailable">> >>,
             CASE result.kind \in {"error", "partial"} ->
                    Finish(y, "renderer_error", 0, result.kind = "partial")
               [] result.kind \notin {"error", "partial"} /\ Has(y, "preflight") ->
                    Checked(y, << <<result.kind # "preflight", "invalid_preflight">> >>,
                            Preflighted(y, shown))
               [] result.kind = "text" /\ ~Has(y, "preflight")  -> Succeed(y)
               [] result.kind = "nodes" /\ ~Has(y, "preflight") -> Snapshot(y, result)
               [] OTHER -> Error(y, "invalid_observation"))

(* A probe that only reads: its callback need not be waited for. *)
ProbeOrMutation(x) == TRUE

Probe(x) ==
  Has(x, "waiting") \/ x.command \in {"observe", "read"} \/ Has(x, "preflight")

(* DidFinishNavigation of the observed tab, to a page of the given origin. *)
Navigated(x, origin) ==
  LET covered == Covers(x, x.tab, origin)
      left == IF covered THEN x ELSE [x EXCEPT !.task[x.tab] = Nil]
      y == ResetDocument(IF ~Has(x, "navigating") /\ ~covered
                         THEN Drop(left, {"attached"}) ELSE left)
  IN  IF ~Has(y, "busy") \/ Has(y, "navigating") THEN y
      ELSE Error(IF Probe(y) THEN Drop(y, {"renderer_pending"}) ELSE y,
                 IF y.deferred # NoError THEN y.deferred ELSE "stale_document")

GrantOutlivesPage(x, t, origin) ==
  IF t \in x.granted /\ ~Covers(x, t, origin) THEN [x EXCEPT !.task[t] = Nil] ELSE x

(* GrantedAgentTab: consent ends when its tab leaves the origin it covers. *)
GrantNavigated(x, t, origin) ==
  IF t \in x.granted /\ ~Covers(x, t, origin)
  THEN [x EXCEPT !.authorized = @ \ {t}, !.task[t] = Nil] ELSE x

TabClosed(x, t) ==
  LET y == [x EXCEPT !.authorized = @ \ {t}]
      z == Drop(y, {"navigating", "attached"})
  IN  IF t # x.tab THEN y
      ELSE [Error(z, "tab_closed") EXCEPT !.tab = Nil, !.baseline = Nil]

StoppedLoadingStays(x) ==
  IF ~Has(x, "busy") \/ ~Has(x, "navigating") THEN x
  ELSE IF x.deferred # NoError THEN Error(x, x.deferred)
  ELSE Execute([x EXCEPT !.command = "observe"])

StoppedLoading(x) ==
  LET y == Drop(x, {"navigating"})
  IN  IF ~Has(x, "busy") \/ ~Has(x, "navigating") THEN x
      ELSE IF y.deferred # NoError THEN Error(y, y.deferred)
      ELSE Execute([y EXCEPT !.command = "observe"])

UserTookOverIdly(x) ==
  [StopSession(x, "user_takeover") EXCEPT !.task[x.tab] = Nil, !.baseline = Nil]

UserTookOver(x) ==
  Error([StopSession(x, "user_takeover") EXCEPT !.task[x.tab] = Nil, !.baseline = Nil],
        "user_takeover")

StopReceived(x, reason) ==
  LET y == Drop(x, {"reading_stop"})
      s == StopSession(y, reason)
  IN  IF reason = NoError THEN y ELSE Error(s, s.stopped)

(* A wait cancelled for this request and this document, and for no other. *)
AnyWait(x, id, doc) == Has(x, "busy") /\ Has(x, "waiting")

ThisWait(x, id, doc) ==
  Has(x, "busy") /\ Has(x, "waiting") /\ x.id = id /\ x.document = doc

CancelWait(x, id, data) ==
  IF x.id = id /\ ~Has(x, "quarantined") /\ data # Nil /\ ThisWait(x, data.id, data.doc)
  THEN Error(x, "wait_cancelled") ELSE x

-----------------------------------------------------------------------------
(***************************************************************************)
(* The UI thread: each action runs one handler to its end.                 *)
(***************************************************************************)
Return(x) ==
  /\ b' = [x EXCEPT !.post = <<>>, !.sent = {}, !.closed = {}]
  /\ io' = io \o x.post
  /\ scripts' = scripts \cup x.sent
  /\ dialogs' = dialogs \cup x.closed

MayReadQuarantined(x) == x.on \cap {"reading", "busy", "writing_response"} = {}

MayRead(x) ==
  x.on \cap {"reading", "busy", "writing_response", "quarantined"} = {}

Poll ==
  LET cancel == Has(b, "busy") /\ Has(b, "waiting") /\ ~Has(b, "reading_cancel")
      stop == Has(b, "busy") /\ b.stopped = NoError /\ ~Has(b, "reading_stop")
      read == MayRead(b)
      x == IF cancel THEN Post(Raise(b, {"reading_cancel"}), [op |-> "cancel", id |-> b.id])
           ELSE b
      y == IF stop THEN Post(Raise(x, {"reading_stop"}), [op |-> "readstop"]) ELSE x
  IN  /\ cancel \/ stop \/ read
      /\ Return(IF read THEN Post(Raise(y, {"reading"}), [op |-> "read"]) ELSE y)
      /\ UNCHANGED <<replies, results, uiCancel, diskVars, tabVars, historyVars>>

Reply(op) == replies # <<>> /\ Head(replies).op = op /\ replies' = Tail(replies)

(* The select callback runs, and may bring the tab to the front. *)
SelectionRuns(x, r) ==
  /\ r.data # Nil /\ r.fresh /\ r.stop = NoError /\ x.stopped = NoError
  /\ r.data.call.command = "select-tab" /\ r.data.call.expiry = "future"
  /\ r.data.call.tab \in x.authorized /\ Eligible(r.data.call.tab)

ReceiveRequest ==
  /\ Reply("read")
  /\ LET r == Head(replies)
     IN  \E shown \in PromptShown, selected \in BOOLEAN :
           /\ Return(Received(b, r, shown, selected))
           /\ active' = IF selected /\ SelectionRuns(b, r) THEN r.data.call.tab ELSE active
  /\ UNCHANGED <<results, uiCancel, diskVars, page, world, content, axEvent, historyVars>>

ReceiveStop ==
  /\ Reply("readstop")
  /\ Return(StopReceived(b, Head(replies).stop))
  /\ UNCHANGED <<results, uiCancel, diskVars, tabVars, historyVars>>

ReceiveCancel ==
  /\ Reply("cancel")
  /\ Return(CancelWait(Drop(b, {"reading_cancel"}), Head(replies).id, Head(replies).data))
  /\ UNCHANGED <<results, uiCancel, diskVars, tabVars, historyVars>>

WrittenStillWriting(x, stored) == IF stored THEN x ELSE Raise(x, {"quarantined"})

Written(x, stored) ==
  LET y == Drop(x, {"writing_response"})
  IN  IF stored THEN y ELSE Raise(y, {"quarantined"})

(* ResponseWritten, up to the Poll it ends with, which the timer also runs. *)
ResponseWritten ==
  /\ Reply("respond")
  /\ Return(Written(b, Head(replies).stored))
  /\ UNCHANGED <<results, uiCancel, diskVars, tabVars, historyVars>>

DeliverResult(r) ==
  /\ results' = results \ {r}
  /\ \E shown \in PromptShown : Return(Observed(b, r.id, r.doc, r.result, shown))
  /\ UNCHANGED <<replies, uiCancel, diskVars, tabVars, historyVars>>

AnswerPrompt(accepted) ==
  /\ b.prompt # Nil
  /\ Return(Answered(b, b.prompt.id, b.prompt.doc, accepted))
  /\ approved' = IF accepted /\ b.command \in Acting THEN approved \cup {b.prompt.id}
                 ELSE approved
  /\ declined' = IF accepted THEN declined ELSE declined \cup {b.prompt.id}
  /\ UNCHANGED <<replies, results, uiCancel, diskVars, tabVars, effects, waitCancels,
                 published, count>>

(* A prompt the bridge closed still runs its reply, as a denial, when it is gone. *)
LateReply(d) ==
  LET x == Answered(b, d.id, d.doc, FALSE)
  IN  /\ b' = [x EXCEPT !.post = <<>>, !.sent = {}, !.closed = {}]
      /\ io' = io \o x.post
      /\ dialogs' = (dialogs \ {d}) \cup x.closed
      /\ UNCHANGED <<scripts, replies, results, uiCancel, diskVars, tabVars, historyVars>>

(* The clock passes expires_ticks_ of the current request. *)
Expires ==
  /\ Has(b, "busy") /\ Has(b, "request_claimed") /\ ~Has(b, "expired")
  /\ b' = Raise(b, {"expired"})
  /\ UNCHANGED <<io, replies, scripts, results, dialogs, uiCancel, diskVars, tabVars,
                 historyVars>>

Fires(timer, x) ==
  /\ Has(b, timer)
  /\ Return(x)
  /\ UNCHANGED <<replies, results, uiCancel, diskVars, tabVars, historyVars>>

DeadlineFires ==
  Has(b, "expired") /\ Fires("deadline", Error(Drop(b, {"deadline"}), "request_expired"))

WaitLimitFires ==
  Fires("wait_limit_armed",
        WakeWait(Raise(Drop(b, {"wait_limit_armed"}), {"wait_limit_reached"})))

WakeupFires == Fires("wait_wakeup", Execute(Drop(b, {"wait_wakeup"})))

(* The tab's context menu takes a cancellation and may run it later. *)
OfferWaitCancel ==
  /\ uiCancel = Nil /\ Has(b, "busy") /\ Has(b, "waiting") /\ ~Has(b, "quarantined")
  /\ active = b.tab
  /\ uiCancel' = [id |-> b.id, doc |-> b.document]
  /\ UNCHANGED <<b, io, replies, scripts, results, dialogs, diskVars, tabVars, historyVars>>

RunWaitCancel ==
  /\ uiCancel # Nil
  /\ Return(IF ThisWait(b, uiCancel.id, uiCancel.doc) /\ active = b.tab
            THEN Error(b, "wait_cancelled") ELSE b)
  /\ uiCancel' = Nil
  /\ waitCancels' = waitCancels \cup {uiCancel}
  /\ UNCHANGED <<replies, results, diskVars, tabVars, effects, approved, declined,
                 published, count>>

-----------------------------------------------------------------------------
(***************************************************************************)
(* The I/O sequence: one task at a time, in the order they were posted.    *)
(***************************************************************************)
Task(op) == io # <<>> /\ Head(io).op = op /\ io' = Tail(io)

Stop(outcome) == StopRead(stopFile, clientStop, outcome)

ReadRequest(outcome, stopOutcome) ==
  /\ Task("read")
  /\ LET id == request.id
         found == request # Nil
     IN  /\ claims' = IF found THEN ClaimsAfter(claims, id, outcome) ELSE claims
         /\ replies' = Append(replies,
              [op |-> "read", data |-> request, stop |-> Stop(stopOutcome),
               fresh |-> found /\ ClaimIsFresh(claims, id, outcome),
               cached |-> IF found THEN ClaimedResponse(claims, archive, id) ELSE Nil])
  /\ request' = Nil
  /\ stopFile' = StopFileAfterRead(stopFile, clientStop, stopOutcome)
  /\ UNCHANGED <<b, scripts, results, dialogs, uiCancel, answer, archive, clientStop,
                 cancelFiles, tabVars, historyVars>>

ReadStop(outcome) ==
  /\ Task("readstop")
  /\ replies' = Append(replies, [op |-> "readstop", stop |-> Stop(outcome)])
  /\ stopFile' = StopFileAfterRead(stopFile, clientStop, outcome)
  /\ UNCHANGED <<b, scripts, results, dialogs, uiCancel, request, answer, claims, archive,
                 clientStop, cancelFiles, tabVars, historyVars>>

ReadWaitCancellation ==
  /\ Task("cancel")
  /\ LET id == Head(io).id
         found == {c \in cancelFiles : c.id = id}
     IN  /\ cancelFiles' = cancelFiles \ found
         /\ replies' = Append(replies,
              [op |-> "cancel", id |-> id,
               data |-> IF found = {} THEN Nil ELSE CHOOSE c \in found : TRUE])
  /\ UNCHANGED <<b, scripts, results, dialogs, uiCancel, request, answer, claims, archive,
                 stopFile, clientStop, tabVars, historyVars>>

StoreStop(outcome) ==
  /\ Task("stop")
  /\ stopFile' = StoredStop(stopFile, Head(io).reason, outcome)
  /\ UNCHANGED <<b, replies, scripts, results, dialogs, uiCancel, request, answer, claims,
                 archive, clientStop, cancelFiles, tabVars, historyVars>>

UnstoredUnsaid(response) == response

Unstored(response) ==
  [response EXCEPT !.persisted = FALSE,
                   !.error = IF @ = NoError THEN "request_receipt_unavailable" ELSE @]

Stored(response, outcome) ==
  response.persisted /\ outcome = "done" /\ CanStoreResponse(claims, archive, response.id)

WriteDurableResponse(outcome) ==
  /\ Task("respond")
  /\ LET response == Head(io).answer
         stored == Stored(response, outcome)
     IN  /\ archive' = IF stored THEN [archive EXCEPT ![response.id] = response] ELSE archive
         /\ answer' = IF stored THEN response ELSE Unstored(response)
         /\ replies' = Append(replies, [op |-> "respond", stored |-> stored])
  /\ UNCHANGED <<b, scripts, results, dialogs, uiCancel, request, claims, stopFile,
                 clientStop, cancelFiles, tabVars, historyVars>>

WriteResponse ==
  /\ Task("rewrite")
  /\ answer' = Head(io).answer
  /\ UNCHANGED <<b, replies, scripts, results, dialogs, uiCancel, request, claims, archive,
                 stopFile, clientStop, cancelFiles, tabVars, historyVars>>

-----------------------------------------------------------------------------
(***************************************************************************)
(* The renderer: the fixed script of agent_bridge_script.h.                *)
(***************************************************************************)
Acts(s) == s.command \in Acting /\ ~s.preflight

(* The isolated world still holds the targets of the document the script names. *)
Known(s) == world[s.tab] = s.doc

Late(s) == s.id = b.id /\ Has(b, "expired")

(* What a script can report in the page its tab shows when it runs. *)
Outcomes(s) ==
  IF s.command \in {"observe", "wait-change", "scroll"}
  THEN IF Late(s) THEN {"error"} ELSE {"nodes"}
  ELSE {"error"} \cup {k \in {"text", "preflight", "nodes", "partial"} :
                         /\ Known(s) /\ ~Late(s)
                         /\ (k = "text") = (s.command = "read")
                         /\ (k = "preflight") = s.preflight
                         /\ k = "partial" => s.command # "click"}

RunScript(s) ==
  /\ page[s.tab] \in Origins
  /\ \E kind \in Outcomes(s), truncated \in BOOLEAN :
       /\ truncated => kind = "nodes"
       /\ results' = IF s.mute THEN results
                     ELSE results \cup {[id |-> s.id, doc |-> s.doc,
                                         result |-> [kind |-> kind, truncated |-> truncated,
                                                     content |-> content[s.tab]]]}
       /\ effects' = IF Acts(s) /\ kind \in {"nodes", "partial"}
                     THEN [effects EXCEPT ![s.id] = @ + 1] ELSE effects
       /\ world' = CASE kind = "nodes"         -> [world EXCEPT ![s.tab] = s.doc]
                     [] Known(s) \/ Late(s)    -> world
                     [] OTHER                  -> [world EXCEPT ![s.tab] = 0]
  /\ scripts' = scripts \ {s}
  /\ UNCHANGED <<b, io, replies, dialogs, uiCancel, diskVars, active, page, content, axEvent,
                 approved, declined, waitCancels, published, count>>

(* The renderer pipe breaks: the callback gets no value, the script may still run. *)
LoseCallback(s) ==
  /\ ~s.mute
  /\ scripts' = (scripts \ {s}) \cup {[s EXCEPT !.mute = TRUE]}
  /\ results' = results \cup {[id |-> s.id, doc |-> s.doc, result |-> NoResult]}
  /\ UNCHANGED <<b, io, replies, dialogs, uiCancel, diskVars, tabVars, historyVars>>

-----------------------------------------------------------------------------
(***************************************************************************)
(* The window's tabs and the user.                                         *)
(***************************************************************************)
Step(kind, max) == count[kind] < max /\ count' = [count EXCEPT ![kind] = @ + 1]

(* A tab commits a navigation; sameDocument keeps the page's isolated world. *)
NavigateTab(t, origin, sameDocument) ==
  /\ page[t] # "closed" /\ Step("navigations", MaxNavigations)
  /\ sameDocument => origin = page[t]
  /\ page' = [page EXCEPT ![t] = origin]
  /\ world' = IF sameDocument THEN world ELSE [world EXCEPT ![t] = 0]
  /\ LET x == GrantNavigated(b, t, origin)
     IN  Return(IF t = x.tab THEN Navigated(x, origin) ELSE x)
  /\ UNCHANGED <<replies, results, uiCancel, diskVars, active, content, axEvent,
                 effects, approved, declined, waitCancels, published>>

(* The navigation the bridge started ends, committed or not. *)
StopLoading ==
  /\ Has(b, "navigating")
  /\ Return(StoppedLoading(b))
  /\ UNCHANGED <<replies, results, uiCancel, diskVars, tabVars, historyVars>>

UserInteracts ==
  /\ b.tab # Nil
  /\ Return(UserTookOver(b))
  /\ UNCHANGED <<replies, results, uiCancel, diskVars, tabVars, historyVars>>

CloseTab(t) ==
  /\ page[t] # "closed" /\ Step("closed", MaxClosed)
  /\ page' = [page EXCEPT ![t] = "closed"]
  /\ \E next \in {u \in Tabs : page'[u] # "closed"} \cup {Nil} :
       active' = IF active = t THEN next ELSE active
  /\ Return(TabClosed(b, t))
  /\ UNCHANGED <<replies, results, uiCancel, diskVars, world, content, axEvent,
                 effects, approved, declined, waitCancels, published>>

(* OnVisibilityChanged reaches the bridge when its tab goes behind another. *)
ActivateTab(t) ==
  /\ page[t] # "closed" /\ active # t
  /\ active' = t
  /\ Return(IF active = b.tab /\ Has(b, "waiting") THEN Error(b, "tab_changed") ELSE b)
  /\ UNCHANGED <<replies, results, uiCancel, diskVars, page, world, content, axEvent,
                 historyVars>>

(* Accessibility events come only while a wait has the tree switched on. *)
ChangePage(t) ==
  /\ page[t] \in Origins /\ Step("changes", MaxContent)
  /\ content' = [content EXCEPT ![t] = @ + 1]
  /\ axEvent' = (axEvent \/ (t = b.tab /\ Has(b, "waiting")))
  /\ UNCHANGED <<bridgeVars, diskVars, active, page, world, effects, approved, declined,
                 waitCancels, published>>

AccessibilityEvent ==
  /\ axEvent /\ axEvent' = FALSE
  /\ Return(WakeWait(b))
  /\ UNCHANGED <<replies, results, uiCancel, diskVars, active, page, world, content,
                 historyVars>>

-----------------------------------------------------------------------------
(***************************************************************************)
(* The client's side of the mailbox, and the end of the browser process.   *)
(***************************************************************************)
Capabilities ==
  {[doc |-> 0, base |-> Nil]} \cup
  {[doc |-> archive[i].doc, base |-> archive[i].base] : i \in {j \in Ids : archive[j] # Nil}}

(* Commands whose handler looks at the document or the baseline they name. *)
NamesDocument(command) ==
  command \in {"wait-change", "read", "scroll", "batch", "fill", "click"}

Publish(i, call, known) ==
  /\ request = Nil /\ published[i] = Nil
  /\ NamesDocument(call.command) \/ known = [doc |-> 0, base |-> Nil]
  /\ request' = [id |-> i, call |-> call, doc |-> known.doc, base |-> known.base]
  /\ published' = [published EXCEPT ![i] = request']
  /\ UNCHANGED <<bridgeVars, answer, claims, archive, stopFile, clientStop, cancelFiles,
                 tabVars, effects, approved, declined, waitCancels, count>>

(* A second copy of a request that was published before. *)
Republish(i) ==
  /\ request = Nil /\ published[i] # Nil /\ Step("republished", MaxRepublished)
  /\ request' = published[i]
  /\ UNCHANGED <<bridgeVars, answer, claims, archive, stopFile, clientStop, cancelFiles,
                 tabVars, effects, approved, declined, waitCancels, published>>

ClientStops ==
  /\ Step("stops", MaxStops)
  /\ clientStop' = TRUE
  /\ UNCHANGED <<bridgeVars, request, answer, claims, archive, stopFile, cancelFiles, tabVars,
                 effects, approved, declined, waitCancels, published>>

(* cancel-wait: only for the pending wait, by its exact id and document. *)
ClientCancelsWait(i) ==
  /\ published[i] # Nil /\ published[i].call.command = "wait-change"
  /\ LET c == [id |-> i, doc |-> published[i].doc]
     IN  /\ c \notin waitCancels
         /\ cancelFiles' = cancelFiles \cup {c}
         /\ waitCancels' = waitCancels \cup {c}
  /\ UNCHANGED <<bridgeVars, request, answer, claims, archive, stopFile, clientStop, tabVars,
                 effects, approved, declined, published, count>>

(***************************************************************************)
(* The browser process dies, between two tasks or inside one: after a      *)
(* claim was created and before its request was deleted, after a result    *)
(* was archived and before response.json was replaced, or while a stop     *)
(* file is written.  The next process starts a bridge with no state but    *)
(* the files.                                                              *)
(***************************************************************************)
Crash ==
  /\ Step("crashes", MaxCrashes)
  /\ \/ UNCHANGED <<claims, archive, stopFile>>
     \/ /\ io # <<>> /\ Head(io).op = "read" /\ request # Nil
        /\ claims' = claims \cup {request.id}
        /\ UNCHANGED <<archive, stopFile>>
     \/ /\ io # <<>> /\ Head(io).op = "respond" /\ Stored(Head(io).answer, "done")
        /\ archive' = [archive EXCEPT ![Head(io).answer.id] = Head(io).answer]
        /\ UNCHANGED <<claims, stopFile>>
     \/ /\ io # <<>> /\ Head(io).op = "stop"
        /\ stopFile' = StoredStop(stopFile, Head(io).reason, "torn")
        /\ UNCHANGED <<claims, archive>>
  /\ b' = InitBridge(b.fresh)
  /\ io' = <<>> /\ replies' = <<>>
  /\ scripts' = {} /\ results' = {} /\ dialogs' = {}
  /\ uiCancel' = Nil /\ axEvent' = FALSE
  /\ world' = [t \in Tabs |-> 0]
  /\ UNCHANGED <<request, answer, clientStop, cancelFiles, active, page, content,
                 effects, approved, declined, waitCancels, published>>

-----------------------------------------------------------------------------
Init ==
  /\ b = InitBridge(0)
  /\ io = <<>> /\ replies = <<>>
  /\ scripts = {} /\ results = {} /\ dialogs = {} /\ uiCancel = Nil
  /\ request = Nil /\ answer = Nil
  /\ claims = {} /\ archive = [i \in Ids |-> Nil]
  /\ stopFile = NoError /\ clientStop = FALSE /\ cancelFiles = {}
  /\ active \in Tabs
  /\ page \in [Tabs -> Origins]
  /\ world = [t \in Tabs |-> 0] /\ content = [t \in Tabs |-> 0] /\ axEvent = FALSE
  /\ effects = [i \in Ids |-> 0] /\ approved = {} /\ declined = {} /\ waitCancels = {}
  /\ published = [i \in Ids |-> Nil]
  /\ count = [navigations |-> 0, closed |-> 0, changes |-> 0, republished |-> 0,
              stops |-> 0, crashes |-> 0]

UIThread ==
  \/ Poll \/ ReceiveRequest \/ ReceiveStop \/ ReceiveCancel \/ ResponseWritten
  \/ \E r \in results : DeliverResult(r)
  \/ \E accepted \in BOOLEAN : AnswerPrompt(accepted)
  \/ \E d \in dialogs : LateReply(d)
  \/ Expires \/ DeadlineFires \/ WaitLimitFires \/ WakeupFires
  \/ OfferWaitCancel \/ RunWaitCancel

IoSequence ==
  \/ \E outcome, stopOutcome \in IoOutcomes : ReadRequest(outcome, stopOutcome)
  \/ \E outcome \in IoOutcomes :
       ReadStop(outcome) \/ StoreStop(outcome) \/ WriteDurableResponse(outcome)
  \/ ReadWaitCancellation \/ WriteResponse

Renderer == \E s \in scripts : RunScript(s) \/ LoseCallback(s)

Window ==
  \/ \E t \in Tabs, o \in Origins \cup {"other"}, same \in BOOLEAN : NavigateTab(t, o, same)
  \/ \E t \in Tabs : CloseTab(t) \/ ActivateTab(t) \/ ChangePage(t)
  \/ StopLoading \/ UserInteracts \/ AccessibilityEvent

Mailbox ==
  \/ \E i \in Ids, call \in Calls, known \in Capabilities : Publish(i, call, known)
  \/ \E i \in Ids : Republish(i) \/ ClientCancelsWait(i)
  \/ ClientStops

Next == UIThread \/ IoSequence \/ Renderer \/ Window \/ Mailbox \/ Crash

Spec == Init /\ [][Next]_vars
=============================================================================
