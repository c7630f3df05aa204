----------------------- MODULE AgentBridgeUserProofs -----------------------
(***************************************************************************)
(* What the agent bridge owes its user, for every value of the constants,  *)
(* in two parts.                                                           *)
(*                                                                         *)
(* What interrupts a request: a stop is permanent (StopIsPermanent), only  *)
(* a user cancels for the user (CancelIsUsers), a cancelled wait is the    *)
(* one that was meant (CancelIsForThisWait), and what a navigation leaves  *)
(* behind is no baseline (BaselineIsCurrent).  Each follows from the       *)
(* outcomes of the functions (Outcome) and an invariant about what is on   *)
(* its way.                                                                *)
(*                                                                         *)
(* What consent is worth: consent and task rules are those of pages that   *)
(* are still shown (ConsentHeld, RulesCoverPage), and a script that        *)
(* changes a page is sent only where the user or a rule allows it, to the  *)
(* tab in front (AuthorizedDispatch); at the end, what a stop on disk      *)
(* refuses (StopRefusesRequests). Most functions of the bridge can only    *)
(* give consent up, which Narrows says of the members before and after.    *)
(* The two that grant it (the accepted prompt of an attach, and select-    *)
(* tab) are shown to keep Sober, and only the user's answer and the        *)
(* renderer's answer to a preflight send a script that acts (Prudent is    *)
(* Sober without one).                                                     *)
(***************************************************************************)
EXTENDS AgentBridgeLedgerProofs

-----------------------------------------------------------------------------
(***************************************************************************)
(* The steps of the bridge, by what they make of the members.              *)
(***************************************************************************)

(* The members as a handler takes up the request in hand. *)
TakenUp(x) ==
  /\ x.id = b.id /\ x.req = b.req /\ x.deferred = b.deferred /\ x.stopped = b.stopped
  /\ x.prompt = b.prompt /\ x.document = b.document /\ x.baseline = b.baseline
  /\ \A f \in {"busy", "waiting", "request_claimed", "reading", "writing_response"} :
        Has(x, f) <=> Has(b, f)
  /\ Has(b, "quarantined") => Has(x, "quarantined")

(* A handler goes on with the request in hand. *)
GoesOn(E) == \E x, y : TakenUp(x) /\ Outcome(x, y, E) /\ Handles(y)

(* The members stay as they are, but for flags that say nothing of the request, *)
(* no script is sent, and nothing is queued but reads.                          *)
Idles ==
  /\ SameFields(b, b') /\ NewScripts = {}
  /\ \A f \in {"busy", "waiting", "request_claimed"} : Has(b', f) <=> Has(b, f)

Quietly ==
  /\ Idles
  /\ Has(b, "quarantined") => Has(b', "quarantined")
  /\ Has(b', "writing_response") => Has(b, "writing_response")
  /\ Has(b, "writing_response") /\ ~Has(b', "writing_response") =>
       Has(b', "quarantined") \/ \E t \in Queued(replies) : t.op = "respond" /\ t.stored
  /\ \A t \in Queued(io') : t \in Queued(io) \/ t.op \in {"read", "readstop", "cancel"}
  /\ Queued(replies') \subseteq Queued(replies)
  /\ UNCHANGED diskVars /\ UNCHANGED <<approved, declined, waitCancels, published>>

(* The members after a handler. *)
LEMMA HandledMembers ==
  ASSUME NEW E, NEW x, NEW y, Outcome(x, y, E), Handles(y)
  PROVE  /\ b'.id = y.id /\ b'.req = y.req /\ b'.command = y.command
         /\ b'.document = y.document /\ b'.deferred = y.deferred /\ b'.prompt = y.prompt
         /\ b'.stopped = y.stopped /\ b'.baseline = y.baseline /\ b'.tab = y.tab
         /\ \A f : Has(b', f) <=> Has(y, f)
  <1>1. Shape(y)
    BY DEF Outcome, Going, Sends, Answers, Silent
  <1> QED
    BY <1>1, Returned DEF Handles, Has

(* What is in the queue after stops and one more task were posted. *)
LEMMA PostQueued ==
  ASSUME NEW E, NEW q \in Seq(AnyTask), NEW p \in Seq(HandlerTask), StopsOnly(p, E), NEW e
  PROVE  /\ \A t \in Queued(q \o p) : t \in Queued(q) \/ (t.op = "stop" /\ t.reason \in E)
         /\ \A t \in Queued(q \o Append(p, e)) :
              t \in Queued(q) \/ (t.op = "stop" /\ t.reason \in E) \/ t = e
  <1>1. p \in Seq(AnyTask) /\ \A t \in Queued(p) : t.op = "stop" /\ t.reason \in E
    BY HandlerTasksQuiet DEF StopsOnly, Queued
  <1>2. /\ Queued(q \o p) = Queued(q) \cup Queued(p)
        /\ Sole(q, "read") /\ Never(p, "read") => Sole(q \o p, "read")
    BY <1>1, ConcatQueue
  <1> DEFINE S == AnyTask \cup {e}
             a == Append(p, e)
  <1>3. p \in Seq(S) /\ q \in Seq(S) /\ e \in S
    <2>1. AnyTask \subseteq S
      OBVIOUS
    <2> HIDE DEF S
    <2> QED
      BY <1>1, <2>1, SeqMonotonic DEF S
  <1> HIDE DEF S
  <1>4. /\ Queued(a) = Queued(p) \cup {e} /\ a \in Seq(S)
        /\ Never(p, "read") => Sole(a, "read")
    BY <1>3, AppendQueue, AppendProperties
  <1> HIDE DEF a
  <1>5. /\ Queued(q \o a) = Queued(q) \cup Queued(a)
        /\ Sole(q, "read") /\ Never(a, "read") => Sole(q \o a, "read")
    BY <1>3, <1>4, ConcatQueue
  <1> QED
    BY <1>1, <1>2, <1>4, <1>5 DEF a

(* The tasks a handler posts. *)
LEMMA HandledPosts ==
  ASSUME IInv, NEW E, NEW x, NEW y, Outcome(x, y, E), Handles(y)
  PROVE  \A t \in Queued(io') :
           \/ t \in Queued(io)
           \/ t.op = "stop" /\ t.reason \in E
           \/ t.op = "respond" /\ Answers(x, y, E) /\ IsAnswer(x, y, t.answer, E)
  <1>1. io \in Seq(AnyTask) /\ io' = io \o y.post
    BY QueueTypes DEF Handles
  <1>2. CASE Going(x, y, E) \/ Sends(x, y, E)
    <2>1. y.post \in Seq(HandlerTask) /\ StopsOnly(y.post, E)
      BY <1>2 DEF Going, Sends, Silent
    <2> QED
      BY <1>1, <2>1, PostQueued
  <1>3. CASE Answers(x, y, E)
    <2>1. PICK p, a :
             /\ p \in Seq(HandlerTask) /\ y.post = Append(p, [op |-> "respond", answer |-> a])
             /\ StopsOnly(p, E) /\ IsAnswer(x, y, a, E)
      BY <1>3 DEF Answers
    <2> DEFINE e == [op |-> "respond", answer |-> a]
    <2>2. e.op = "respond" /\ e.answer = a /\ y.post = Append(p, e)
      BY <2>1
    <2> HIDE DEF e
    <2>3. io' = io \o Append(p, e)
      BY <1>1, <2>2
    <2>4. \A t \in Queued(io') :
            t \in Queued(io) \/ (t.op = "stop" /\ t.reason \in E) \/ t = e
      BY <1>1, <2>1, <2>3, PostQueued
    <2> QED
      BY <1>3, <2>1, <2>2, <2>4
  <1> QED
    BY <1>2, <1>3 DEF Outcome

-----------------------------------------------------------------------------
(***************************************************************************)
(* Every step of the UI thread and of the window is one of three: a        *)
(* handler that goes on with the request in hand, the arrival of a         *)
(* request, or one that leaves the request alone.                          *)
(***************************************************************************)

(* A handler runs whose cause allows the errors and stops in E and no others. *)
Handled(E) ==
  \/ ReceiveStop /\ (Head(replies).stop = NoError \/ Head(replies).stop \in E)
  \/ /\ ReceiveCancel
     /\ \/ "wait_cancelled" \in E \/ Head(replies).data = Nil
        \/ ~ThisWait(b, Head(replies).data.id, Head(replies).data.doc)
  \/ \E r \in results : DeliverResult(r)
  \/ \E accepted \in BOOLEAN : AnswerPrompt(accepted) /\ (accepted \/ "user_cancelled" \in E)
  \/ DeadlineFires \/ WaitLimitFires \/ WakeupFires
  \/ RunWaitCancel /\ ("wait_cancelled" \in E \/ ~ThisWait(b, uiCancel.id, uiCancel.doc))
  \/ \E t \in Tabs, o \in Origins \cup {"other"}, same \in BOOLEAN : NavigateTab(t, o, same)
  \/ \E t \in Tabs : CloseTab(t) \/ ActivateTab(t)
  \/ StopLoading \/ UserInteracts \/ AccessibilityEvent

(* A prompt that cannot be shown answers for the user. *)
PromptsAre(E) == PromptShown \subseteq {TRUE} \/ "user_cancelled" \in E

LEMMA PlainGoesOn ==
  ASSUME NEW E, NEW y, Outcome(b, y, E), Plainly(y)
  PROVE  GoesOn(E)
  <1>1. Handles(y)
    BY ReturnHandles DEF Plainly
  <1>2. TakenUp(b)
    BY DEF TakenUp
  <1> QED
    BY <1>1, <1>2 DEF GoesOn

LEMMA DeliverResultGoesOn ==
  ASSUME LInv, IInv, NEW E, Acceptable(E), PromptsAre(E), NEW r \in results, DeliverResult(r)
  PROVE  GoesOn(E)
  <1>1. PICK shown \in PromptShown : Return(Observed(b, r.id, r.doc, r.result, shown))
    BY DEF DeliverResult
  <1>2. /\ results' \subseteq results /\ replies' = replies
        /\ UNCHANGED <<diskVars, effects>>
    BY DEF DeliverResult, historyVars
  <1> DEFINE w == Observed(b, r.id, r.doc, r.result, shown)
             doc == r.doc
             result == r.result
             y == Observed(b, b.id, doc, result, shown)
             z == Settle(b, result)
  <1>3. CASE ~Has(b, "busy") \/ r.id # b.id \/ ~Has(b, "renderer_pending")
    <2>1. w = b
      BY <1>3 DEF Observed
    <2>2. Outcome(b, b, E) /\ Handles(b)
      BY <1>1, <1>2, <2>1, MembersSilent, ReturnHandles
    <2> QED
      BY <2>2 DEF GoesOn, TakenUp
  <1>4. CASE Has(b, "busy") /\ r.id = b.id /\ Has(b, "renderer_pending")
    <2>1. /\ result.kind \in {"none", "error", "text", "preflight", "nodes", "partial"}
          /\ shown \in BOOLEAN /\ (shown \/ "user_cancelled" \in E)
      BY PromptAssumption DEF IInv, FlightType, ScriptResult, Result, PromptsAre
    <2>2. /\ Full(b) /\ Clean(b) /\ (b.deferred = NoError \/ b.deferred \in E)
          /\ Ordinary \subseteq E /\ NoError \notin E
      BY <1>4, MembersFull DEF Acceptable
    <2> HIDE DEF doc, result
    <2>3. Settled(b, z, result.kind) /\ Outcome(z, y, E)
      BY <1>4, <2>1, <2>2, ObservedOutcome, SMTT(30)
    <2> HIDE DEF y, z
    <2>4. TakenUp(z)
      BY <2>3 DEF Settled, TakenUp, Flag
    <2>5. Handles(y)
      BY <1>1, <1>2, <1>4, ReturnHandles DEF y, doc, result
    <2> QED
      BY <2>3, <2>4, <2>5 DEF GoesOn
  <1> QED
    BY <1>3, <1>4

LEMMA NavigateTabGoesOn ==
  ASSUME LInv, IInv, NEW E, Acceptable(E), NEW t, NEW origin, NEW same,
         NavigateTab(t, origin, same)
  PROVE  GoesOn(E)
  <1> DEFINE y == NavigatedTab(b, t, origin)
             z == Unprobed(b)
  <1>1. /\ Return(y) /\ UNCHANGED <<replies, results, diskVars, effects>>
    BY DEF NavigateTab, NavigatedTab
  <1>2. /\ Full(b) /\ Clean(b) /\ Silent(b, E)
        /\ Has(b, "busy") => b.deferred = NoError \/ b.deferred \in E
        /\ Ordinary \subseteq E /\ NoError \notin E
    BY MembersFull, MembersSilent DEF Acceptable
  <1>3. Outcome(b, y, E) \/ Outcome(z, y, E)
    BY <1>2, NavigatedTabOutcome
  <1>4. Handles(y)
    BY <1>1, ReturnHandles
  <1>5. TakenUp(b)
    BY DEF TakenUp
  <1>6. TakenUp(z)
    <2>1. SameFields(b, z) /\ \A f : f # "renderer_pending" => (Has(z, f) <=> Has(b, f))
      BY <1>2, UnprobedFields
    <2> HIDE DEF z
    <2> QED
      BY <2>1 DEF TakenUp, SameFields
  <1> HIDE DEF y, z
  <1> QED
    BY <1>3, <1>4, <1>5, <1>6 DEF GoesOn

LEMMA HandledGoesOn ==
  ASSUME LInv, IInv, NEW E, Acceptable(E), PromptsAre(E), Handled(E)
  PROVE  GoesOn(E)
  <1>1. ASSUME NEW y, Outcome(b, y, E) /\ Plainly(y)
        PROVE  GoesOn(E)
    BY <1>1, PlainGoesOn
  <1>2. CASE ReceiveStop /\ (Head(replies).stop = NoError \/ Head(replies).stop \in E)
    BY <1>1, <1>2, ReceiveStopPlain
  <1>3. CASE /\ ReceiveCancel
             /\ \/ "wait_cancelled" \in E \/ Head(replies).data = Nil
                \/ ~ThisWait(b, Head(replies).data.id, Head(replies).data.doc)
    BY <1>1, <1>3, ReceiveCancelPlain
  <1>4. CASE \E r \in results : DeliverResult(r)
    BY <1>4, DeliverResultGoesOn
  <1>5. CASE \E accepted \in BOOLEAN :
               AnswerPrompt(accepted) /\ (accepted \/ "user_cancelled" \in E)
    BY <1>1, <1>5, AnswerPromptPlain
  <1>6. CASE DeadlineFires \/ WaitLimitFires \/ WakeupFires
    BY <1>1, <1>6, TimersPlain
  <1>7. CASE RunWaitCancel /\ ("wait_cancelled" \in E \/ ~ThisWait(b, uiCancel.id, uiCancel.doc))
    BY <1>1, <1>7, RunWaitCancelPlain
  <1>8. CASE \E t \in Tabs, o \in Origins \cup {"other"}, same \in BOOLEAN : NavigateTab(t, o, same)
    BY <1>8, NavigateTabGoesOn
  <1>9. CASE \/ \E t \in Tabs : CloseTab(t) \/ ActivateTab(t)
             \/ StopLoading \/ UserInteracts \/ AccessibilityEvent
    BY <1>1, <1>9, WindowPlain
  <1> QED
    BY <1>2, <1>3, <1>4, <1>5, <1>6, <1>7, <1>8, <1>9 DEF Handled

(* The steps that leave the request in hand alone. *)
LEMMA PollQuietly ==
  ASSUME IInv, Poll
  PROVE  Quietly
  <1>1. /\ SameFields(b, b') /\ b.on \subseteq b'.on
        /\ b'.on \subseteq b.on \cup {"reading_cancel", "reading_stop", "reading"}
        /\ scripts' = scripts /\ replies' = replies
        /\ UNCHANGED <<diskVars, historyVars>>
    BY PollPosts
  <1>2. PICK p \in Seq(PollTask) : io' = io \o p
    BY PollPosts
  <1>3. p \in Seq(AnyTask) /\ \A t \in Queued(p) : t.op \in {"read", "readstop", "cancel"}
    <2>1. PollTask \subseteq AnyTask /\ \A t \in PollTask : t.op \in {"read", "readstop", "cancel"}
      BY DEF PollTask, AnyTask
    <2>2. \A k \in 1..Len(p) : p[k] \in PollTask
      BY <1>2, ElementOfSeq
    <2> QED
      BY <1>2, <2>1, <2>2, SeqMonotonic DEF Queued
  <1>4. /\ Queued(io') = Queued(io) \cup Queued(p)
        /\ Sole(io, "respond") /\ Never(p, "respond") => Sole(io', "respond")
    BY <1>2, <1>3, QueueTypes, ConcatQueue
  <1>5. Idles
    BY <1>1 DEF Idles, Has, NewScripts
  <1>6. /\ Has(b', "writing_response") <=> Has(b, "writing_response")
        /\ Has(b, "quarantined") => Has(b', "quarantined")
    BY <1>1 DEF Has
  <1> QED
    BY <1>1, <1>3, <1>4, <1>5, <1>6 DEF Quietly, historyVars

LEMMA ResponseWrittenQuietly ==
  ASSUME IInv, ResponseWritten
  PROVE  Quietly /\ ~Has(b', "writing_response")
  <1> DEFINE r == Head(replies)
             y == Written(b, r.stored)
  <1>1. /\ replies # <<>> /\ r.op = "respond" /\ replies' = Tail(replies) /\ Return(y)
        /\ UNCHANGED <<diskVars, historyVars>>
    BY DEF ResponseWritten, Reply
  <1>2. /\ b \in Members /\ b.post = <<>> /\ b.sent = {} /\ b.closed = {} /\ Full(b)
    BY MembersFull DEF Full, Base, Clean
  <1>3. /\ y.post = <<>> /\ y.sent = {} /\ SameFields(b, y)
        /\ y.on \in {b.on \ {"writing_response"}, (b.on \ {"writing_response"}) \cup {"quarantined"}}
        /\ r.stored \/ "quarantined" \in y.on
    BY <1>2 DEF Written, Drop, Raise, Members, SameFields
  <1>4. Full(y)
    BY <1>2, WrittenFull
  <1> HIDE DEF y, r
  <1>5. Shape(y) /\ b'.on = y.on
    BY <1>1, <1>4, ReturnedFull DEF Return, Full, Base, Members, Shape, Field
  <1>6. /\ \A f : f \notin {"writing_response", "quarantined"} => (Has(b', f) <=> Has(b, f))
        /\ ~Has(b', "writing_response") /\ (Has(b, "quarantined") => Has(b', "quarantined"))
        /\ r.stored \/ Has(b', "quarantined")
    BY <1>3, <1>5 DEF Has
  <1>7. io' = io
    <2>1. io' = io \o <<>> /\ io \in Seq(AnyTask)
      BY <1>1, <1>3, QueueTypes DEF Return
    <2> QED
      BY <2>1, ConcatEmptySeq
  <1>8. b' = y
    BY <1>1, <1>2, <1>3, <1>5 DEF Return, SameFields, Shape, Field
  <1>9. Idles
    BY <1>1, <1>3, <1>6, <1>8 DEF Idles, NewScripts, Return
  <1>10. r \in Queued(replies)
    BY <1>1, QueueTypes, TailQueue DEF r
  <1> QED
    BY <1>1, <1>6, <1>7, <1>9, <1>10, RepliesLeft DEF Quietly, historyVars

LEMMA ExpiresQuietly ==
  ASSUME IInv, Expires
  PROVE  Quietly
  <1>1. /\ b \in Members /\ b' = Raise(b, {"expired"})
        /\ UNCHANGED <<io, replies, scripts, diskVars, historyVars>>
    BY MembersFull DEF Expires, Full, Base
  <1>2. b'.on = b.on \cup {"expired"} /\ SameFields(b, b')
    BY <1>1, RaiseMembers DEF Flag
  <1>3. \A f : f # "expired" => (Has(b', f) <=> Has(b, f))
    BY <1>2 DEF Has
  <1> QED
    BY <1>1, <1>2, <1>3 DEF Quietly, Idles, NewScripts, historyVars

LEMMA LateReplyQuietly ==
  ASSUME LInv, IInv, NEW d \in dialogs, LateReply(d)
  PROVE  Quietly
  <1>1. Has(b, "busy") => d.id # b.id
    BY DEF LInv, WorkInv, CurrentOK, Unprompted
  <1>2. Answered(b, d.id, d.doc, FALSE) = b
    BY <1>1 DEF Answered, ForThisRequest
  <1>3. /\ b \in Members /\ Shape(b) /\ b.post = <<>> /\ b.sent = {} /\ b.closed = {}
    BY MembersFull, FullSilent DEF Full, Base, Clean
  <1>4. b' = [b EXCEPT !.post = <<>>, !.sent = {}, !.closed = {}]
    BY <1>2 DEF LateReply
  <1>5. b' = b
    BY <1>3, <1>4 DEF Members
  <1>6. io' = io
    BY <1>2, <1>3, QueueTypes, ConcatEmptySeq DEF LateReply
  <1>7. UNCHANGED <<scripts, replies, diskVars, historyVars>>
    BY DEF LateReply
  <1> QED
    BY <1>5, <1>6, <1>7 DEF Quietly, Idles, SameFields, NewScripts, historyVars

LEMMA RendererQuietly ==
  ASSUME IInv, NEW s \in scripts, RunScript(s) \/ LoseCallback(s)
  PROVE  Quietly
  <1>1. /\ UNCHANGED <<b, io, replies, diskVars, approved, declined, waitCancels, published>>
        /\ NewScripts = {}
    <2>1. CASE RunScript(s)
      BY <2>1 DEF RunScript, NewScripts
    <2>2. CASE LoseCallback(s)
      <3> DEFINE m == [s EXCEPT !.mute = TRUE]
      <3>1. m.mute
        BY DEF IInv, FlightType, Script
      <3>2. scripts' = (scripts \ {s}) \cup {m}
        BY <2>2 DEF LoseCallback
      <3> HIDE DEF m
      <3>3. NewScripts = {}
        BY <3>1, <3>2 DEF NewScripts
      <3> QED
        BY <2>2, <3>3 DEF LoseCallback, historyVars
    <2> QED
      BY <2>1, <2>2
  <1> QED
    BY <1>1 DEF Quietly, Idles, SameFields

LEMMA QuietSteps ==
  ASSUME LInv, IInv,
         \/ Poll \/ ResponseWritten \/ Expires \/ \E d \in dialogs : LateReply(d)
         \/ OfferWaitCancel \/ Renderer \/ \E t \in Tabs : ChangePage(t)
         \/ UNCHANGED vars
  PROVE  Quietly
  <1>1. CASE OfferWaitCancel \/ (\E t \in Tabs : ChangePage(t)) \/ UNCHANGED vars
    <2>1. /\ UNCHANGED <<b, io, replies, scripts, diskVars>>
          /\ UNCHANGED <<approved, declined, waitCancels, published>>
      BY <1>1 DEF OfferWaitCancel, ChangePage, bridgeVars, historyVars, vars
    <2> QED
      BY <2>1 DEF Quietly, Idles, SameFields, NewScripts
  <1> QED
    BY <1>1, PollQuietly, ResponseWrittenQuietly, ExpiresQuietly, LateReplyQuietly,
       RendererQuietly DEF Renderer

(* A request, or none, reaches the bridge. *)
Arrived(r, y, E) ==
  \/ /\ r.data = Nil /\ Rests(b, y, E) /\ ~Has(y, "writing_response")
     /\ y.post \in Seq(HandlerTask) /\ StopsOnly(y.post, E)
  \/ /\ r.data # Nil /\ r.fresh
     /\ \E z : /\ Begins(b, r.data, z, E) /\ Outcome(z, y, E)
               /\ b.stopped # NoError \/ r.stop # NoError => ~Has(y, "busy")
  \/ r.data # Nil /\ ~r.fresh /\ r.cached # Nil /\ Rests(b, y, E) /\ Rewrites(y, r.cached, E)
  \/ r.data # Nil /\ ~r.fresh /\ r.cached = Nil /\ Rests(b, y, E)
     /\ Disowns(y, r.data.id, E)

Arrives(E) ==
  /\ replies # <<>> /\ replies' = Tail(replies)
  /\ Head(replies) \in Queued(replies) /\ Head(replies) \in ReadReply
  /\ ~Has(b, "busy") /\ Has(b, "reading")
  /\ \E y : /\ Shape(y) /\ Handles(y) /\ Arrived(Head(replies), y, E)
            /\ Head(replies).stop # NoError => y.stopped # NoError

LEMMA ReceiveRequestArrives ==
  ASSUME IInv, ReceiveRequest, NEW E, Ordinary \subseteq E, NoError \notin E, PromptsAre(E),
         Head(replies).stop = NoError \/ Head(replies).stop \in E
  PROVE  Arrives(E)
  <1> DEFINE r == Head(replies)
  <1>1. PICK shown \in PromptShown, selected \in BOOLEAN : Return(Received(b, r, shown, selected))
    BY DEF ReceiveRequest
  <1>2. /\ replies # <<>> /\ replies' = Tail(replies) /\ r.op = "read"
        /\ UNCHANGED <<results, diskVars, effects>>
    BY DEF ReceiveRequest, Reply, historyVars
  <1>3. r \in ReadReply /\ Has(b, "reading")
    BY <1>2, HeadOfReplies DEF AnyReply, ReadReply
  <1>4. /\ Full(b) /\ Clean(b) /\ ~Has(b, "busy")
        /\ shown \in BOOLEAN /\ (shown \/ "user_cancelled" \in E) /\ active \in Tabs \cup {Nil}
    BY <1>3, MembersFull, PromptAssumption DEF IInv, TabType, PromptsAre
  <1>5. r \in Queued(replies)
    BY <1>2, QueueTypes, TailQueue
  <1>6. r.stop = NoError \/ r.stop \in E
    OBVIOUS
  <1> HIDE DEF r
  <1> DEFINE y == Received(b, r, shown, selected)
  <1>7. Full(y)
    BY <1>3, <1>4, ReceivedFull
  <1>8. Shape(y)
    BY <1>7 DEF Full, Base, Members, Shape, Field
  <1>9. /\ r.stop \in StopReasons \cup {Unreadable, NoError}
        /\ r.data # Nil => r.data.id \in Ids
    BY <1>3 DEF ReadReply, Reason, Request
  <1>10. /\ r.data = Nil => /\ Rests(b, y, E) /\ ~Has(y, "writing_response")
                            /\ StopsOnly(y.post, E) /\ y.post \in Seq(HandlerTask)
         /\ r.data # Nil /\ r.fresh =>
              \E z : /\ Begins(b, r.data, z, E) /\ Outcome(z, y, E)
                     /\ b.stopped # NoError \/ r.stop # NoError => ~Has(y, "busy")
         /\ r.data # Nil /\ ~r.fresh =>
              /\ Rests(b, y, E)
              /\ r.cached = Nil => Disowns(y, r.data.id, E)
              /\ r.cached # Nil => Rewrites(y, r.cached, E)
         /\ r.stop # NoError => y.stopped # NoError
    BY <1>3, <1>4, <1>6, <1>9, ReceivedOutcome
  <1> HIDE DEF y
  <1>11. Arrived(r, y, E)
    BY <1>3, <1>10 DEF Arrived, ReadReply
  <1>12. Handles(y)
    BY <1>1, <1>2, ReturnHandles DEF y
  <1> QED
    BY <1>2, <1>3, <1>4, <1>5, <1>8, <1>10, <1>11, <1>12 DEF Arrives, r

(* What the tasks of a handler that leaves no request in hand can be. *)
LEMMA RestsPosts ==
  ASSUME IInv, NEW E, NEW y, Handles(y), Arrived(Head(replies), y, E),
         Head(replies).data = Nil \/ ~Head(replies).fresh
  PROVE  /\ Rests(b, y, E)
         /\ \A t \in Queued(io') :
              \/ t \in Queued(io)
              \/ t.op = "stop" /\ t.reason \in E
              \/ t.op = "rewrite"
              \/ /\ t.op = "respond" /\ ~t.answer.persisted /\ t.answer.id = Head(replies).data.id
                 /\ Head(replies).data # Nil /\ ~Head(replies).fresh /\ Head(replies).cached = Nil
  <1> DEFINE r == Head(replies)
  <1>1. Arrived(r, y, E) /\ (r.data = Nil \/ ~r.fresh)
    OBVIOUS
  <1> HIDE DEF r
  <1>2. io' = io \o y.post /\ io \in Seq(AnyTask)
    BY QueueTypes DEF Handles
  <1>3. PICK p, e :
          /\ p \in Seq(HandlerTask) /\ StopsOnly(p, E)
          /\ \/ y.post = p
             \/ /\ y.post = Append(p, e)
                /\ \/ e.op = "rewrite"
                   \/ /\ e.op = "respond" /\ ~e.answer.persisted /\ e.answer.id = r.data.id
                      /\ r.data # Nil /\ ~r.fresh /\ r.cached = Nil
    <2>1. CASE r.data = Nil
      BY <1>1, <2>1 DEF Arrived
    <2>2. CASE \E a : Rewrites(y, a, E)
      <3>1. PICK a : Rewrites(y, a, E)
        BY <2>2
      <3>2. PICK p \in Seq(HandlerTask) :
               StopsOnly(p, E) /\ y.post = Append(p, [op |-> "rewrite", answer |-> a])
        BY <3>1 DEF Rewrites
      <3> QED
        BY <3>2
    <2>3. CASE r.data # Nil /\ ~r.fresh /\ r.cached = Nil /\ Disowns(y, r.data.id, E)
      <3>1. PICK p, a :
               /\ p \in Seq(HandlerTask)
               /\ StopsOnly(p, E) /\ y.post = Append(p, [op |-> "respond", answer |-> a])
               /\ ~a.persisted /\ a.id = r.data.id
        BY <2>3 DEF Disowns
      <3> DEFINE e == [op |-> "respond", answer |-> a]
      <3>2. e.op = "respond" /\ e.answer = a /\ y.post = Append(p, e)
        BY <3>1
      <3> HIDE DEF e
      <3> QED
        BY <2>3, <3>1, <3>2
    <2> QED
      BY <1>1, <2>1, <2>2, <2>3 DEF Arrived
  <1>4. \A t \in Queued(io') :
          \/ t \in Queued(io) \/ (t.op = "stop" /\ t.reason \in E)
          \/ t = e /\ y.post = Append(p, e)
    BY <1>2, <1>3, PostQueued
  <1>5. Rests(b, y, E)
    BY <1>1 DEF Arrived
  <1>6. CASE y.post = p
    <2>1. \A t \in Queued(io') : t \in Queued(io) \/ (t.op = "stop" /\ t.reason \in E)
      BY <1>2, <1>3, <1>6, PostQueued
    <2> QED
      BY <1>5, <2>1
  <1>7. CASE y.post # p
    BY <1>3, <1>4, <1>5, <1>7 DEF r
  <1> QED
    BY <1>6, <1>7

(* Any handler at all, with any error the client knows. *)
LEMMA AnyCause ==
  ASSUME IInv
  PROVE  Acceptable(ErrorCode) /\ PromptsAre(ErrorCode)
  <1>1. b.stopped \in Reason
    BY MembersFull DEF Full, Base, Members
  <1> QED
    BY <1>1, MembersFull, MembersSilent DEF Acceptable, Reason, PromptsAre

LEMMA AnyHandled ==
  ASSUME IInv, NEW E, "wait_cancelled" \in E, "user_cancelled" \in E,
         StopReasons \cup {Unreadable} \subseteq E,
         \/ ReceiveStop \/ ReceiveCancel \/ \E r \in results : DeliverResult(r)
         \/ \E accepted \in BOOLEAN : AnswerPrompt(accepted)
         \/ DeadlineFires \/ WaitLimitFires \/ WakeupFires \/ RunWaitCancel
         \/ \E t \in Tabs, o \in Origins \cup {"other"}, same \in BOOLEAN :
              NavigateTab(t, o, same)
         \/ \E t \in Tabs : CloseTab(t) \/ ActivateTab(t)
         \/ StopLoading \/ UserInteracts \/ AccessibilityEvent
  PROVE  Handled(E)
  <1>1. ReceiveStop => Head(replies).stop = NoError \/ Head(replies).stop \in E
    <2>1. ReceiveStop => Head(replies).stop \in Reason
      BY HeadOfReplies DEF ReceiveStop, Reply, AnyReply, ReadReply
    <2> QED
      BY <2>1 DEF Reason
  <1> QED
    BY <1>1 DEF Handled

-----------------------------------------------------------------------------
(***************************************************************************)
(* A stop is permanent.                                                    *)
(***************************************************************************)
CountOK ==
  count \in [{"navigations", "closed", "changes", "republished", "stops", "crashes"} -> Nat]

LEMMA StepCounts ==
  ASSUME CountOK, NEW kind \in DOMAIN count, NEW max, Step(kind, max)
  PROVE  CountOK' /\ count'[kind] = count[kind] + 1
  BY DEF CountOK, Step

LEMMA Counting == Spec => []CountOK
  <1>1. Init => CountOK
    BY DEF Init, CountOK
  <1>2. ASSUME CountOK, [Next]_vars
        PROVE  CountOK'
    <2> DEFINE kinds == {"navigations", "closed", "changes", "republished", "stops", "crashes"}
    <2>1. count' = count \/ \E kind \in kinds : \E max : Step(kind, max)
      BY <1>2 DEF Next, UIThread, IoSequence, Renderer, Window, Mailbox, vars, historyVars,
         Poll, ReceiveRequest, ReceiveStop, ReceiveCancel, ResponseWritten, DeliverResult,
         AnswerPrompt, LateReply, Expires, DeadlineFires, WaitLimitFires, WakeupFires, Fires,
         OfferWaitCancel, RunWaitCancel, ReadRequest, ReadStop, StoreStop,
         WriteDurableResponse, ReadWaitCancellation, WriteResponse, RunScript, LoseCallback,
         NavigateTab, CloseTab, ActivateTab, ChangePage, StopLoading, UserInteracts,
         AccessibilityEvent, Publish, Republish, ClientCancelsWait, ClientStops, Crash
    <2>2. kinds = DOMAIN count
      BY <1>2 DEF CountOK
    <2> HIDE DEF kinds
    <2>3. (\E kind \in kinds : \E max : Step(kind, max)) => CountOK'
      BY <1>2, <2>2, StepCounts
    <2> QED
      BY <1>2, <2>1, <2>3, SMTT(30) DEF CountOK
  <1> QED
    BY <1>1, <1>2, PTL DEF Spec

(* What StopIsPermanent says of a step that is not the end of the process. *)
StaysStopped ==
  /\ b'.stopped = b.stopped /\ NewScripts = {}
  /\ b'.prompt # Nil => b'.prompt = b.prompt

LEMMA ShapedMembers ==
  ASSUME NEW y, Shape(y), Handles(y)
  PROVE  /\ b'.id = y.id /\ b'.req = y.req /\ b'.document = y.document
         /\ b'.deferred = y.deferred /\ b'.prompt = y.prompt
         /\ b'.stopped = y.stopped /\ b'.baseline = y.baseline
         /\ \A f : Has(b', f) <=> Has(y, f)
  BY Returned DEF Handles, Has

LEMMA StoppedGoesOn ==
  ASSUME IInv, b.stopped # NoError, GoesOn(ErrorCode)
  PROVE  StaysStopped
  <1> DEFINE E == ErrorCode
  <1>1. PICK x, y : TakenUp(x) /\ Outcome(x, y, E) /\ Handles(y)
    BY DEF GoesOn
  <1> HIDE DEF E
  <1>2. Has(x, "busy") => x.deferred # NoError
    <2>1. Has(b, "busy") => b.deferred # NoError
      BY MembersFull DEF Full
    <2> QED
      BY <1>1, <2>1 DEF TakenUp
  <1>3. x.stopped = b.stopped /\ x.prompt = b.prompt
    BY <1>1 DEF TakenUp
  <1>4. b'.stopped = y.stopped /\ b'.prompt = y.prompt
    BY <1>1, HandledMembers
  <1>5. ~Sends(x, y, E)
    BY <1>2 DEF Sends
  <1>6. scripts' = scripts
    BY <1>1, <1>5, HandledScripts
  <1>7. y.prompt \in {Nil, x.prompt}
    BY <1>1, <1>2, <1>5 DEF Outcome, Going, Answers, PromptKept
  <1>8. y.stopped = x.stopped
    BY <1>1, <1>3 DEF Outcome, StopKept
  <1> QED
    BY <1>3, <1>4, <1>6, <1>7, <1>8 DEF StaysStopped, NewScripts

LEMMA StoppedArrives ==
  ASSUME IInv, b.stopped # NoError, Arrives(ErrorCode)
  PROVE  StaysStopped
  <1> DEFINE E == ErrorCode
             r == Head(replies)
  <1>1. PICK y : Shape(y) /\ Handles(y) /\ Arrived(r, y, E)
    BY DEF Arrives
  <1> HIDE DEF E, r
  <1>2. b'.stopped = y.stopped /\ b'.prompt = y.prompt /\ scripts' = scripts \cup y.sent
    BY <1>1, ShapedMembers DEF Handles
  <1>3. y.stopped = b.stopped /\ y.sent = {} /\ y.prompt = Nil
    <2>1. CASE Rests(b, y, E)
      BY <2>1 DEF Rests, StopKept
    <2>2. CASE \E z : /\ Begins(b, r.data, z, E) /\ Outcome(z, y, E)
                      /\ b.stopped # NoError \/ r.stop # NoError => ~Has(y, "busy")
      <3>1. PICK z : Begins(b, r.data, z, E) /\ Outcome(z, y, E) /\ ~Has(y, "busy")
        BY <2>2
      <3>2. Has(z, "busy")
        BY <3>1 DEF Begins, Begun, Ready
      <3>3. Answers(z, y, E)
        BY <3>1, <3>2 DEF Outcome, Going, Sends
      <3>4. z.stopped = b.stopped /\ y.stopped = z.stopped
        BY <3>1 DEF Begins, Outcome, StopKept
      <3> QED
        BY <3>3, <3>4 DEF Answers
    <2> QED
      BY <1>1, <2>1, <2>2 DEF Arrived
  <1> QED
    BY <1>2, <1>3 DEF StaysStopped, NewScripts

LEMMA ElsewhereIdles ==
  ASSUME IoSequence \/ Mailbox
  PROVE  UNCHANGED <<b, scripts, dialogs, uiCancel, results, page, active>>
  BY DEF IoSequence, Mailbox, ReadRequest, ReadStop, StoreStop, WriteDurableResponse,
     ReadWaitCancellation, WriteResponse, Publish, Republish, ClientCancelsWait, ClientStops,
     bridgeVars, tabVars

LEMMA StoppedStays ==
  ASSUME LInv, IInv, CountOK, b.stopped # NoError, [Next]_vars, count'.crashes = count.crashes
  PROVE  StaysStopped
  <1> DEFINE E == ErrorCode
  <1>1. ~Crash
    BY StepCounts DEF Crash, CountOK
  <1>2. /\ Acceptable(E) /\ PromptsAre(E) /\ "user_cancelled" \in E /\ "wait_cancelled" \in E
        /\ StopReasons \cup {Unreadable} \subseteq E
    BY AnyCause, MembersSilent
  <1>3. CASE \/ Poll \/ ResponseWritten \/ Expires \/ \E d \in dialogs : LateReply(d)
             \/ OfferWaitCancel \/ Renderer \/ \E t \in Tabs : ChangePage(t)
             \/ UNCHANGED vars
    <2>1. Quietly
      BY <1>3, QuietSteps
    <2> QED
      BY <2>1 DEF Quietly, Idles, StaysStopped, SameFields
  <1>4. CASE IoSequence \/ Mailbox
    BY <1>4, ElsewhereIdles DEF StaysStopped, NewScripts
  <1>5. CASE ReceiveRequest
    <2>1. Head(replies).stop = NoError \/ Head(replies).stop \in E
      <3>1. Head(replies).stop \in Reason
        BY <1>5, HeadOfReplies DEF ReceiveRequest, Reply, AnyReply, ReadReply
      <3> QED
        BY <1>2, <3>1 DEF Reason
    <2>2. Arrives(E)
      <3> HIDE DEF E
      <3> QED
        BY <1>2, <1>5, <2>1, ReceiveRequestArrives DEF Acceptable
    <2> QED
      BY <2>2, StoppedArrives
  <1>6. CASE \/ ReceiveStop \/ ReceiveCancel \/ \E r \in results : DeliverResult(r)
             \/ \E accepted \in BOOLEAN : AnswerPrompt(accepted)
             \/ DeadlineFires \/ WaitLimitFires \/ WakeupFires \/ RunWaitCancel
             \/ \E t \in Tabs, o \in Origins \cup {"other"}, same \in BOOLEAN :
                  NavigateTab(t, o, same)
             \/ \E t \in Tabs : CloseTab(t) \/ ActivateTab(t)
             \/ StopLoading \/ UserInteracts \/ AccessibilityEvent
    <2> HIDE DEF E
    <2>1. Handled(E)
      BY <1>2, <1>6, AnyHandled
    <2>2. GoesOn(E)
      BY <1>2, <2>1, HandledGoesOn
    <2> QED
      BY <2>2, StoppedGoesOn DEF E
  <1> QED
    BY <1>1, <1>3, <1>4, <1>5, <1>6 DEF Next, UIThread, Window

(* Once stopped, a process hands no script to the renderer, shows no new   *)
(* prompt and never takes the stop back, whatever the mailbox, the user,   *)
(* the page and the renderer do (StopIsPermanent; StopSession, Execute,    *)
(* Ask).                                                                   *)
THEOREM StopPermanent == Spec => StopIsPermanent
  <1>1. ASSUME IInv, LInv, CountOK, [Next]_vars, b.stopped # NoError,
               count'.crashes = count.crashes
        PROVE  /\ b'.stopped = b.stopped /\ NewScripts = {}
               /\ b'.prompt # Nil => b'.prompt = b.prompt
    BY <1>1, StoppedStays DEF StaysStopped
  <1> QED
    BY <1>1, LedgerInductive, Counting, PTL DEF Spec, StopIsPermanent

-----------------------------------------------------------------------------
(***************************************************************************)
(* The tasks of the I/O sequence and the client, by what they move.        *)
(***************************************************************************)
LEMMA TaskTaken ==
  ASSUME IInv, NEW op, Task(op)
  PROVE  /\ Head(io) \in Queued(io) /\ Head(io).op = op /\ Head(io) \in AnyTask
         /\ Queued(io') \subseteq Queued(io)
  <1>1. io \in Seq(AnyTask) /\ io # <<>> /\ io' = Tail(io) /\ Head(io).op = op
    BY QueueTypes DEF Task
  <1>2. /\ Head(io) \in Queued(io) /\ Queued(Tail(io)) \subseteq Queued(io)
        /\ Never(io, op) => Never(Tail(io), op)
    BY <1>1, TailQueue
  <1> QED
    BY <1>1, <1>2, QueueTypes

LEMMA ReplyQueued ==
  ASSUME IInv, NEW e, replies' = Append(replies, e)
  PROVE  Queued(replies') = Queued(replies) \cup {e}
  <1> DEFINE S == AnyReply \cup {e}
  <1>1. replies \in Seq(S) /\ e \in S
    <2>1. AnyReply \subseteq S /\ replies \in Seq(AnyReply)
      BY QueueTypes
    <2> HIDE DEF S
    <2> QED
      BY <2>1, SeqMonotonic DEF S
  <1> HIDE DEF S
  <1>2. /\ Queued(Append(replies, e)) = Queued(replies) \cup {e}
        /\ Never(replies, "none") => Sole(Append(replies, e), "none")
    BY <1>1, AppendQueue
  <1> QED
    BY <1>2

(* A stop that is read or stored is the one on file, the client's, or one  *)
(* that cannot be read.                                                    *)
LEMMA StopsRead ==
  ASSUME IInv, NEW outcome \in IoOutcomes
  PROVE  /\ Stop(outcome) \in {stopFile, NoError, "client_cancelled", Unreadable}
         /\ StopFileAfterRead(stopFile, clientStop, outcome)
              \in {stopFile, NoError, "client_cancelled", Unreadable}
         /\ \A reason : StoredStop(stopFile, reason, outcome)
                          \in {stopFile, NoError, reason, Unreadable}
  <1>1. outcome \in {"done", "refused", "torn"}
    BY OutcomesAssumption
  <1> QED
    BY <1>1 DEF Stop, StopRead, StopFileAfterRead, StoredStop

LEMMA HandlersLeaveDisk ==
  ASSUME \/ ReceiveRequest \/ ReceiveStop \/ ReceiveCancel \/ \E r \in results : DeliverResult(r)
         \/ \E accepted \in BOOLEAN : AnswerPrompt(accepted)
         \/ DeadlineFires \/ WaitLimitFires \/ WakeupFires \/ RunWaitCancel
         \/ \E t \in Tabs, o \in Origins \cup {"other"}, same \in BOOLEAN :
              NavigateTab(t, o, same)
         \/ \E t \in Tabs : CloseTab(t) \/ ActivateTab(t)
         \/ StopLoading \/ UserInteracts \/ AccessibilityEvent
  PROVE  UNCHANGED diskVars /\ published' = published /\ waitCancels \subseteq waitCancels'
  BY DEF ReceiveRequest, ReceiveStop, ReceiveCancel, DeliverResult, AnswerPrompt, DeadlineFires,
     WaitLimitFires, WakeupFires, Fires, RunWaitCancel, NavigateTab, CloseTab, ActivateTab,
     StopLoading, UserInteracts, AccessibilityEvent, historyVars

-----------------------------------------------------------------------------
(***************************************************************************)
(* Only a user cancels for the user.                                       *)
(***************************************************************************)

(* Nobody has declined a prompt, and nothing says that somebody did: not a *)
(* member, a task, a reply or a file.                                      *)
Innocent ==
  /\ b.stopped # "user_cancelled" /\ stopFile # "user_cancelled"
  /\ Has(b, "busy") => b.deferred # "user_cancelled"
  /\ \A t \in Queued(io) :
       /\ t.op = "stop" => t.reason # "user_cancelled"
       /\ t.op = "respond" /\ t.answer.persisted => t.answer.error # "user_cancelled"
  /\ \A t \in Queued(replies) : t.op \in {"read", "readstop"} => t.stop # "user_cancelled"
  /\ \A i \in Ids : archive[i] # Nil => archive[i].error # "user_cancelled"

CancelInv == declined # {} \/ Innocent

(* Every error and stop but the user's. *)
NotUsers == ErrorCode \ {"user_cancelled"}

LEMMA InnocentCause ==
  ASSUME IInv, Innocent
  PROVE  /\ Acceptable(NotUsers) /\ Ordinary \subseteq NotUsers /\ NoError \notin NotUsers
         /\ "wait_cancelled" \in NotUsers
         /\ \A s : s \in Reason /\ s # "user_cancelled" => s = NoError \/ s \in NotUsers
  <1>1. b.stopped \in Reason
    BY MembersFull DEF Full, Base, Members
  <1>2. \A s : s \in Reason /\ s # "user_cancelled" => s = NoError \/ s \in NotUsers
    BY MembersSilent DEF NotUsers, Reason
  <1>3. Ordinary \subseteq NotUsers /\ NoError \notin NotUsers /\ "wait_cancelled" \in NotUsers
    BY MembersSilent DEF NotUsers, Ordinary
  <1>4. Has(b, "busy") => b.deferred = NoError \/ b.deferred \in NotUsers
    BY MembersFull DEF Innocent, NotUsers
  <1> QED
    BY <1>1, <1>2, <1>3, <1>4 DEF Acceptable, Innocent

LEMMA InnocentGoesOn ==
  ASSUME IInv, Innocent, GoesOn(NotUsers), UNCHANGED diskVars
  PROVE  Innocent'
  <1> DEFINE E == NotUsers
  <1>1. PICK x, y : TakenUp(x) /\ Outcome(x, y, E) /\ Handles(y)
    BY DEF GoesOn
  <1>2. "user_cancelled" \notin E /\ "user_cancelled" # NoError
    BY MembersSilent DEF NotUsers
  <1> HIDE DEF E
  <1>3. /\ b'.stopped = y.stopped /\ b'.deferred = y.deferred
        /\ Has(b', "busy") <=> Has(y, "busy")
    BY <1>1, HandledMembers
  <1>4. x.stopped = b.stopped /\ x.deferred = b.deferred /\ (Has(x, "busy") <=> Has(b, "busy"))
    BY <1>1 DEF TakenUp
  <1>5. b'.stopped # "user_cancelled"
    BY <1>1, <1>2, <1>3, <1>4 DEF Outcome, StopKept, Innocent
  <1>6. Has(b', "busy") => b'.deferred # "user_cancelled"
    BY <1>1, <1>2, <1>3, <1>4 DEF Outcome, Going, Sends, Answers, Innocent
  <1>7. \A t \in Queued(io') :
          /\ t.op = "stop" => t.reason # "user_cancelled"
          /\ t.op = "respond" /\ t.answer.persisted => t.answer.error # "user_cancelled"
    <2> SUFFICES ASSUME NEW t \in Queued(io')
                 PROVE  /\ t.op = "stop" => t.reason # "user_cancelled"
                        /\ t.op = "respond" /\ t.answer.persisted
                             => t.answer.error # "user_cancelled"
      OBVIOUS
    <2>1. \/ t \in Queued(io)
          \/ t.op = "stop" /\ t.reason \in E
          \/ t.op = "respond" /\ Answers(x, y, E) /\ IsAnswer(x, y, t.answer, E)
      BY <1>1, HandledPosts
    <2>2. Answers(x, y, E) => Has(b, "busy")
      BY <1>4 DEF Answers
    <2> QED
      BY <1>2, <1>4, <2>1, <2>2 DEF Innocent, IsAnswer
  <1>8. Queued(replies') \subseteq Queued(replies)
    BY <1>1, RepliesLeft DEF Handles
  <1> QED
    BY <1>5, <1>6, <1>7, <1>8 DEF Innocent, diskVars

LEMMA InnocentArrives ==
  ASSUME IInv, Innocent, Arrives(NotUsers), UNCHANGED diskVars
  PROVE  Innocent'
  <1> DEFINE E == NotUsers
             r == Head(replies)
  <1>1. PICK y : Shape(y) /\ Handles(y) /\ Arrived(r, y, E)
    BY DEF Arrives
  <1>2. "user_cancelled" \notin E /\ "user_cancelled" # NoError
    BY MembersSilent DEF NotUsers
  <1> HIDE DEF E, r
  <1>3. /\ b'.stopped = y.stopped /\ b'.deferred = y.deferred
        /\ Has(b', "busy") <=> Has(y, "busy")
    BY <1>1, ShapedMembers
  <1>4. Queued(replies') \subseteq Queued(replies)
    BY <1>1, RepliesLeft DEF Handles
  <1>5. io' = io \o y.post /\ io \in Seq(AnyTask)
    BY <1>1, QueueTypes DEF Handles
  <1>6. CASE r.data # Nil /\ r.fresh
    <2>1. PICK z : Begins(b, r.data, z, E) /\ Outcome(z, y, E)
      BY <1>1, <1>6 DEF Arrived
    <2>2. z.stopped # "user_cancelled" /\ z.deferred = NoError
      BY <1>2, <2>1 DEF Begins, Begun, StopKept, Innocent
    <2>3. y.stopped # "user_cancelled" /\ (Has(y, "busy") => y.deferred # "user_cancelled")
      BY <1>2, <2>1, <2>2 DEF Outcome, StopKept, Going, Sends, Answers
    <2>4. \A t \in Queued(io') :
            \/ t \in Queued(io)
            \/ t.op = "stop" /\ t.reason \in E
            \/ t.op = "respond" /\ Answers(z, y, E) /\ IsAnswer(z, y, t.answer, E)
      BY <1>1, <2>1, HandledPosts
    <2>5. \A t \in Queued(io') :
            /\ t.op = "stop" => t.reason # "user_cancelled"
            /\ t.op = "respond" /\ t.answer.persisted => t.answer.error # "user_cancelled"
      BY <1>2, <2>2, <2>4 DEF Innocent, IsAnswer
    <2> QED
      BY <1>3, <1>4, <2>3, <2>5 DEF Innocent, diskVars
  <1>7. CASE r.data = Nil \/ ~r.fresh
    <2>1. y.stopped # "user_cancelled" /\ ~Has(y, "busy")
      <3>1. Rests(b, y, E)
        BY <1>1, <1>7 DEF Arrived
      <3> QED
        BY <1>2, <3>1 DEF Rests, StopKept, Innocent
    <2>2. \A t \in Queued(io') :
            \/ t \in Queued(io)
            \/ t.op = "stop" /\ t.reason \in E
            \/ t.op = "rewrite"
            \/ t.op = "respond" /\ ~t.answer.persisted
      BY <1>1, <1>7, RestsPosts DEF r
    <2>4. \A t \in Queued(io') :
            /\ t.op = "stop" => t.reason # "user_cancelled"
            /\ t.op = "respond" /\ t.answer.persisted => t.answer.error # "user_cancelled"
      BY <1>2, <2>2 DEF Innocent
    <2> QED
      BY <1>3, <1>4, <2>1, <2>4 DEF Innocent, diskVars
  <1> QED
    BY <1>6, <1>7

LEMMA InnocentIo ==
  ASSUME IInv, Innocent, IoSequence
  PROVE  Innocent'
  <1>1. b' = b
    BY ElsewhereIdles
  <1>2. ASSUME NEW outcome \in IoOutcomes
        PROVE  /\ Stop(outcome) # "user_cancelled"
               /\ StopFileAfterRead(stopFile, clientStop, outcome) # "user_cancelled"
               /\ \A reason : StoredStop(stopFile, reason, outcome) # "user_cancelled"
                              \/ reason = "user_cancelled"
    BY StopsRead, MembersSilent DEF Innocent, Unreadable
  <1>3. ASSUME NEW outcome \in IoOutcomes, NEW stopOutcome \in IoOutcomes,
               ReadRequest(outcome, stopOutcome)
        PROVE  Innocent'
    <2> DEFINE id == request.id
               e == [op |-> "read", data |-> request, stop |-> Stop(stopOutcome),
                     fresh |-> request # Nil /\ ClaimIsFresh(claims, id, outcome),
                     cached |-> IF request # Nil THEN ClaimedResponse(claims, archive, id) ELSE Nil]
    <2>1. replies' = Append(replies, e) /\ e.stop = Stop(stopOutcome)
      BY <1>3 DEF ReadRequest
    <2> HIDE DEF e
    <2>2. Queued(replies') = Queued(replies) \cup {e}
      BY <2>1, ReplyQueued
    <2>3. Queued(io') \subseteq Queued(io)
      BY <1>3, TaskTaken DEF ReadRequest
    <2>4. stopFile' # "user_cancelled" /\ archive' = archive
      BY <1>2, <1>3 DEF ReadRequest
    <2>5. e.stop # "user_cancelled"
      BY <1>2, <2>1
    <2> QED
      BY <1>1, <2>2, <2>3, <2>4, <2>5 DEF Innocent
  <1>4. ASSUME NEW outcome \in IoOutcomes, ReadStop(outcome)
        PROVE  Innocent'
    <2> DEFINE e == [op |-> "readstop", stop |-> Stop(outcome)]
    <2>1. replies' = Append(replies, e) /\ e.stop = Stop(outcome)
      BY <1>4 DEF ReadStop
    <2> HIDE DEF e
    <2>2. Queued(replies') = Queued(replies) \cup {e}
      BY <2>1, ReplyQueued
    <2>3. Queued(io') \subseteq Queued(io)
      BY <1>4, TaskTaken DEF ReadStop
    <2>4. stopFile' # "user_cancelled" /\ archive' = archive
      BY <1>2, <1>4 DEF ReadStop
    <2>5. e.stop # "user_cancelled"
      BY <1>2, <2>1
    <2> QED
      BY <1>1, <2>2, <2>3, <2>4, <2>5 DEF Innocent
  <1>5. ASSUME NEW outcome \in IoOutcomes, StoreStop(outcome)
        PROVE  Innocent'
    <2>1. /\ Head(io) \in Queued(io) /\ Head(io).op = "stop"
          /\ Queued(io') \subseteq Queued(io)
      BY <1>5, TaskTaken DEF StoreStop
    <2>2. Head(io).reason # "user_cancelled"
      BY <2>1 DEF Innocent
    <2>3. stopFile' # "user_cancelled" /\ replies' = replies /\ archive' = archive
      BY <1>2, <1>5, <2>2 DEF StoreStop
    <2> QED
      BY <1>1, <2>1, <2>3 DEF Innocent
  <1>6. ASSUME NEW outcome \in IoOutcomes, WriteDurableResponse(outcome)
        PROVE  Innocent'
    <2> DEFINE response == Head(io).answer
               stored == Stored(response, outcome)
               e == [op |-> "respond", stored |-> stored]
    <2>1. /\ Head(io) \in Queued(io) /\ Head(io).op = "respond"
          /\ Queued(io') \subseteq Queued(io)
      BY <1>6, TaskTaken DEF WriteDurableResponse
    <2>2. replies' = Append(replies, e) /\ e.op = "respond"
      BY <1>6 DEF WriteDurableResponse
    <2> HIDE DEF e
    <2>3. Queued(replies') = Queued(replies) \cup {e}
      BY <2>2, ReplyQueued
    <2>4. /\ archive' = IF stored THEN [archive EXCEPT ![response.id] = response] ELSE archive
          /\ stopFile' = stopFile
      BY <1>6 DEF WriteDurableResponse
    <2>5. stored => response.persisted /\ response.error # "user_cancelled"
      BY <2>1 DEF Stored, Innocent
    <2>6. archive \in [Ids -> Answer \cup {Nil}]
      BY DEF IInv, DiskType
    <2> HIDE DEF response, stored
    <2>7. \A i \in Ids : archive'[i] # Nil => archive'[i].error # "user_cancelled"
      BY <2>4, <2>5, <2>6 DEF Innocent
    <2> QED
      BY <1>1, <2>1, <2>2, <2>3, <2>4, <2>7 DEF Innocent
  <1>7. ASSUME ReadWaitCancellation
        PROVE  Innocent'
    <2> DEFINE id == Head(io).id
               found == {c \in cancelFiles : c.id = id}
               e == [op |-> "cancel", id |-> id,
                     data |-> IF found = {} THEN Nil ELSE CHOOSE c \in found : TRUE]
    <2>1. replies' = Append(replies, e) /\ e.op = "cancel"
      BY <1>7 DEF ReadWaitCancellation
    <2> HIDE DEF e
    <2>2. Queued(replies') = Queued(replies) \cup {e} /\ Queued(io') \subseteq Queued(io)
      BY <1>7, <2>1, ReplyQueued, TaskTaken DEF ReadWaitCancellation
    <2> QED
      BY <1>1, <1>7, <2>1, <2>2 DEF Innocent, ReadWaitCancellation
  <1>8. ASSUME WriteResponse
        PROVE  Innocent'
    <2>1. Queued(io') \subseteq Queued(io)
      BY <1>8, TaskTaken DEF WriteResponse
    <2> QED
      BY <1>1, <1>8, <2>1 DEF Innocent, WriteResponse
  <1> QED
    BY <1>3, <1>4, <1>5, <1>6, <1>7, <1>8 DEF IoSequence

LEMMA InnocentCrash ==
  ASSUME IInv, Innocent, Crash
  PROVE  Innocent'
  <1>1. b'.stopped = NoError /\ ~Has(b', "busy")
    BY DEF Crash, InitBridge, Has
  <1>2. Queued(io') = {} /\ Queued(replies') = {}
    BY DEF Crash, Queued
  <1>3. io # <<>> => Head(io) \in Queued(io)
    <2>1. io # <<>> => /\ Head(io) \in Queued(io)
                       /\ Never(io, "read") => Never(Tail(io), "read")
      BY QueueTypes, TailQueue
    <2> QED
      BY <2>1
  <1>4. stopFile' # "user_cancelled"
    BY <1>3, MembersSilent DEF Crash, Innocent, StoredStop, Unreadable
  <1>5. \A i \in Ids : archive'[i] # Nil => archive'[i].error # "user_cancelled"
    <2>1. archive \in [Ids -> Answer \cup {Nil}]
      BY DEF IInv, DiskType
    <2>2. \/ archive' = archive
          \/ /\ io # <<>> /\ Head(io).op = "respond" /\ Head(io).answer.persisted
             /\ archive' = [archive EXCEPT ![Head(io).answer.id] = Head(io).answer]
      BY DEF Crash, Stored
    <2> DEFINE a == Head(io).answer
    <2>3. \/ archive' = archive
          \/ a.error # "user_cancelled" /\ archive' = [archive EXCEPT ![a.id] = a]
      BY <1>3, <2>2, SMTT(30) DEF Innocent
    <2> HIDE DEF a
    <2> QED
      BY <2>1, <2>3 DEF Innocent
  <1> QED
    BY <1>1, <1>2, <1>4, <1>5, MembersSilent DEF Innocent

LEMMA DeclinesStay ==
  ASSUME [Next]_vars
  PROVE  declined \subseteq declined'
  BY DEF Next, UIThread, IoSequence, Renderer, Window, Mailbox, vars, historyVars,
     Poll, ReceiveRequest, ReceiveStop, ReceiveCancel, ResponseWritten, DeliverResult,
     AnswerPrompt, LateReply, Expires, DeadlineFires, WaitLimitFires, WakeupFires, Fires,
     OfferWaitCancel, RunWaitCancel, ReadRequest, ReadStop, StoreStop,
     WriteDurableResponse, ReadWaitCancellation, WriteResponse, RunScript, LoseCallback,
     NavigateTab, CloseTab, ActivateTab, ChangePage, StopLoading, UserInteracts,
     AccessibilityEvent, Publish, Republish, ClientCancelsWait, ClientStops, Crash

LEMMA CancelStep ==
  ASSUME PromptShown \subseteq {TRUE}, LInv, IInv, CancelInv, [Next]_vars
  PROVE  CancelInv'
  <1> SUFFICES ASSUME Innocent, declined' = {}
               PROVE  Innocent'
    BY DeclinesStay DEF CancelInv
  <1> DEFINE E == NotUsers
  <1>1. /\ Acceptable(E) /\ PromptsAre(E) /\ Ordinary \subseteq E /\ NoError \notin E
        /\ "wait_cancelled" \in E
        /\ \A s : s \in Reason /\ s # "user_cancelled" => s = NoError \/ s \in E
    BY InnocentCause DEF PromptsAre
  <1>2. CASE \/ Poll \/ ResponseWritten \/ Expires \/ \E d \in dialogs : LateReply(d)
             \/ OfferWaitCancel \/ Renderer \/ \E t \in Tabs : ChangePage(t)
             \/ UNCHANGED vars
    <2>1. Quietly
      BY <1>2, QuietSteps
    <2> QED
      BY <2>1 DEF Quietly, Idles, Innocent, SameFields, diskVars
  <1>3. CASE IoSequence
    BY <1>3, InnocentIo
  <1>4. CASE Mailbox
    <2>1. UNCHANGED <<b, io, replies, archive, stopFile>>
      BY <1>4 DEF Mailbox, Publish, Republish, ClientCancelsWait, ClientStops, bridgeVars
    <2> QED
      BY <2>1 DEF Innocent
  <1>5. CASE Crash
    BY <1>5, InnocentCrash
  <1>6. replies # <<>> => Head(replies) \in Queued(replies)
    <2>1. replies # <<>> => /\ Head(replies) \in Queued(replies)
                            /\ Never(replies, "read") => Never(Tail(replies), "read")
      BY QueueTypes, TailQueue
    <2> QED
      BY <2>1
  <1>7. ReceiveRequest \/ ReceiveStop => Head(replies).stop = NoError \/ Head(replies).stop \in E
    <2>1. ReceiveRequest \/ ReceiveStop =>
            /\ replies # <<>> /\ Head(replies).op \in {"read", "readstop"}
            /\ Head(replies).stop \in Reason
      BY HeadOfReplies DEF ReceiveRequest, ReceiveStop, Reply, AnyReply, ReadReply
    <2> QED
      BY <1>1, <1>6, <2>1 DEF Innocent
  <1>8. CASE ReceiveRequest
    <2>1. UNCHANGED diskVars
      BY <1>8, HandlersLeaveDisk
    <2> HIDE DEF E
    <2>2. Arrives(E)
      BY <1>1, <1>7, <1>8, ReceiveRequestArrives
    <2> QED
      BY <2>1, <2>2, InnocentArrives DEF E
  <1>9. CASE \/ ReceiveStop \/ ReceiveCancel \/ \E r \in results : DeliverResult(r)
             \/ \E accepted \in BOOLEAN : AnswerPrompt(accepted)
             \/ DeadlineFires \/ WaitLimitFires \/ WakeupFires \/ RunWaitCancel
             \/ \E t \in Tabs, o \in Origins \cup {"other"}, same \in BOOLEAN :
                  NavigateTab(t, o, same)
             \/ \E t \in Tabs : CloseTab(t) \/ ActivateTab(t)
             \/ StopLoading \/ UserInteracts \/ AccessibilityEvent
    <2>1. UNCHANGED diskVars
      BY <1>9, HandlersLeaveDisk
    <2>2. \A accepted \in BOOLEAN : AnswerPrompt(accepted) => accepted
      BY DEF AnswerPrompt
    <2> HIDE DEF E
    <2>3. Handled(E)
      BY <1>1, <1>7, <1>9, <2>2 DEF Handled
    <2>4. GoesOn(E)
      BY <1>1, <2>3, HandledGoesOn
    <2> QED
      BY <2>1, <2>4, InnocentGoesOn DEF E
  <1> QED
    BY <1>2, <1>3, <1>4, <1>5, <1>8, <1>9 DEF Next, UIThread, Window

(* Where every prompt finds a window to show itself in, the session is     *)
(* stopped as cancelled by the user, and a request answered so, only if    *)
(* the user declined a prompt: not by the denial a prompt still sends      *)
(* after the bridge closed it, and not by any file, reply or crash         *)
(* (CancelIsUsers; Answered, ClosePrompt).  A prompt without a window      *)
(* answers "denied" itself, so the hypothesis is needed.                   *)
THEOREM UsersCancel ==
  ASSUME PromptShown \subseteq {TRUE}
  PROVE  Spec => []CancelIsUsers
  <1>1. Init => CancelInv
    <2> SUFFICES ASSUME Init
                 PROVE  Innocent
      BY DEF CancelInv
    <2>1. NoError # "user_cancelled"
      BY InitIInv, MembersSilent
    <2>2. b.stopped = NoError /\ ~Has(b, "busy") /\ stopFile = NoError
      BY DEF Init, InitBridge, Has
    <2>3. Queued(io) = {} /\ Queued(replies) = {}
      BY DEF Init, Queued
    <2>4. \A i \in Ids : archive[i] = Nil
      BY DEF Init
    <2> QED
      BY <2>1, <2>2, <2>3, <2>4 DEF Innocent
  <1>2. LInv /\ IInv /\ CancelInv /\ [Next]_vars => CancelInv'
    BY CancelStep
  <1>3. CancelInv => CancelIsUsers
    BY DEF CancelInv, Innocent, CancelIsUsers
  <1> QED
    BY <1>1, <1>2, <1>3, LedgerInductive, PTL DEF Spec

-----------------------------------------------------------------------------
(***************************************************************************)
(* A wait that ends as cancelled is the wait that was cancelled.           *)
(***************************************************************************)

(* A request is what its client published, wherever it is on its way. *)
AsPublished(r) == r # Nil /\ published[r.id] = r

RequestsKept ==
  /\ \A i \in Ids : published[i] # Nil => published[i].id = i
  /\ request # Nil => AsPublished(request)
  /\ Has(b, "busy") => b.req.id = b.id /\ AsPublished(b.req)
  /\ \A t \in Queued(replies) : t.op = "read" /\ t.data # Nil => AsPublished(t.data)

(* Somebody asked to cancel the wait that request i is. *)
Cancelled(i) ==
  published[i] # Nil /\ [id |-> i, doc |-> published[i].doc] \in waitCancels

(* The wait in hand is for the document its request names, every           *)
(* cancellation on its way was asked for, and what says that a wait was    *)
(* cancelled says it of one that was.                                      *)
WaitsTrue ==
  /\ Has(b, "busy") /\ Has(b, "waiting") /\ b.deferred = NoError => b.document = b.req.doc
  /\ cancelFiles \subseteq waitCancels
  /\ \A t \in Queued(replies) : t.op = "cancel" => t.data = Nil \/ t.data \in waitCancels
  /\ Has(b, "busy") /\ b.deferred = "wait_cancelled" => Cancelled(b.id)
  /\ \A t \in Queued(io) :
       t.op = "respond" /\ t.answer.persisted /\ t.answer.error = "wait_cancelled"
         => Cancelled(t.answer.id)
  /\ \A i \in Ids : archive[i] # Nil /\ archive[i].error = "wait_cancelled" => Cancelled(i)

WaitInv == RequestsKept /\ WaitsTrue

(* Every error and stop but the cancellation of a wait. *)
NotWaits == ErrorCode \ {"wait_cancelled"}

LEMMA WaitCause ==
  ASSUME IInv, NEW E, E = ErrorCode \/ (E = NotWaits /\ ~(Has(b, "busy") /\ b.deferred = "wait_cancelled"))
  PROVE  /\ Acceptable(E) /\ PromptsAre(E) /\ Ordinary \subseteq E /\ NoError \notin E
         /\ "user_cancelled" \in E /\ StopReasons \cup {Unreadable} \subseteq E
  <1>1. b.stopped \in Reason
    BY MembersFull DEF Full, Base, Members
  <1>2. "user_cancelled" \in E
    BY MembersSilent DEF NotWaits
  <1>3. Ordinary \subseteq E /\ NoError \notin E
    BY MembersSilent DEF NotWaits, Ordinary
  <1>4. StopReasons \cup {Unreadable} \subseteq E
    BY MembersSilent DEF NotWaits, StopReasons, Unreadable
  <1>5. Has(b, "busy") => b.deferred = NoError \/ b.deferred \in E
    BY MembersFull DEF NotWaits
  <1> QED
    BY <1>1, <1>2, <1>3, <1>4, <1>5 DEF Acceptable, PromptsAre, Reason

(* Requests stay what they are while replies are only taken. *)
LEMMA RequestsStay ==
  ASSUME RequestsKept, published' = published, request' = request,
         Queued(replies') \subseteq Queued(replies),
         Has(b', "busy") => /\ b'.req.id = b'.id
                            /\ AsPublished(b'.req)
  PROVE  RequestsKept'
  BY DEF RequestsKept, AsPublished

LEMMA WaitGoesOn ==
  ASSUME IInv, WaitInv, UNCHANGED diskVars, published' = published,
         waitCancels \subseteq waitCancels',
         NEW E, NEW x, NEW y, TakenUp(x), Outcome(x, y, E), Handles(y),
         \/ "wait_cancelled" \notin E
         \/ Has(b, "busy") => Cancelled(b.id)'
         \/ Has(x, "renderer_pending") /\ x.deferred # NoError
  PROVE  WaitInv'
  <1>1. /\ b'.id = y.id /\ b'.req = y.req /\ b'.document = y.document /\ b'.deferred = y.deferred
        /\ \A f : Has(b', f) <=> Has(y, f)
    BY HandledMembers
  <1>2. /\ x.id = b.id /\ x.req = b.req /\ x.document = b.document /\ x.deferred = b.deferred
        /\ Has(x, "busy") <=> Has(b, "busy")
        /\ Has(x, "waiting") <=> Has(b, "waiting")
    BY DEF TakenUp
  <1>3. y.id = x.id /\ y.req = x.req /\ (Has(y, "busy") => Has(x, "busy"))
    BY DEF Outcome, SameRequest, Going, Sends, Answers
  <1>4. Queued(replies') \subseteq Queued(replies) /\ b'.id = b.id
    BY <1>1, <1>2, <1>3, RepliesLeft DEF Handles
  <1>5. request' = request /\ cancelFiles' = cancelFiles /\ archive' = archive
    BY DEF diskVars
  <1>6. RequestsKept'
    <2>1. Has(b', "busy") => b'.req.id = b'.id /\ AsPublished(b'.req)
      BY <1>1, <1>2, <1>3 DEF WaitInv, RequestsKept
    <2> QED
      BY <1>4, <1>5, <2>1, RequestsStay DEF WaitInv
  <1>7. /\ \A i : Cancelled(i) => Cancelled(i)'
        /\ Cancelled(b.id) => Cancelled(b.id)'
    BY <1>4 DEF Cancelled
  <1>8. Has(b', "busy") /\ Has(b', "waiting") /\ b'.deferred = NoError => b'.document = b'.req.doc
    <2> SUFFICES ASSUME Has(y, "busy"), Has(y, "waiting"), y.deferred = NoError
                 PROVE  y.document = y.req.doc
      BY <1>1
    <2>1. WaitKept(x, y)
      BY DEF Outcome, Going, Sends, Answers
    <2>2. CASE y.document = y.req.doc
      BY <2>2
    <2>3. CASE Has(x, "waiting") /\ x.deferred = NoError /\ y.document = x.document
      BY <1>2, <1>3, <2>3 DEF WaitInv, WaitsTrue
    <2> QED
      BY <2>1, <2>2, <2>3 DEF WaitKept
  <1>9. Has(b', "busy") /\ b'.deferred = "wait_cancelled" => Cancelled(b.id)'
    <2> SUFFICES ASSUME Has(b', "busy"), b'.deferred = "wait_cancelled"
                 PROVE  Cancelled(b.id)'
      OBVIOUS
    <2>1. Has(b, "busy") /\ Has(y, "busy") /\ y.deferred = "wait_cancelled"
      BY <1>1, <1>2, <1>3
    <2>2. "wait_cancelled" # NoError
      BY MembersSilent
    <2>3. y.deferred = x.deferred \/ (x.deferred = NoError /\ "wait_cancelled" \in E)
      BY <2>1, <2>2 DEF Outcome, Going, Sends, Answers
    <2>4. x.deferred = "wait_cancelled" => Cancelled(b.id)
      BY <1>2, <2>1 DEF WaitInv, WaitsTrue
    <2> QED
      BY <1>7, <2>1, <2>3, <2>4
  <1>10. ASSUME NEW t \in Queued(io'), t.op = "respond", t.answer.persisted,
                t.answer.error = "wait_cancelled"
         PROVE  Cancelled(t.answer.id)'
    <2>1. \/ t \in Queued(io)
          \/ Answers(x, y, E) /\ IsAnswer(x, y, t.answer, E)
      BY <1>10, HandledPosts
    <2>2. CASE t \in Queued(io)
      BY <1>7, <1>10, <2>2 DEF WaitInv, WaitsTrue
    <2>3. CASE Answers(x, y, E) /\ IsAnswer(x, y, t.answer, E)
      <3>1. /\ Has(b, "busy") /\ ~Has(x, "renderer_pending") /\ t.answer.id = b.id
            /\ x.deferred = "wait_cancelled" \/ "wait_cancelled" \in E
        BY <1>2, <1>10, <2>3, MembersSilent DEF Answers, IsAnswer
      <3>2. x.deferred = "wait_cancelled" => Cancelled(b.id)
        BY <1>2, <3>1 DEF WaitInv, WaitsTrue
      <3>3. Cancelled(b.id)'
        BY <1>7, <3>1, <3>2
      <3> QED
        BY <1>4, <3>1, <3>3 DEF Cancelled
    <2> QED
      BY <2>1, <2>2, <2>3
  <1>11. /\ cancelFiles' \subseteq waitCancels'
         /\ \A t \in Queued(replies') : t.op = "cancel" => t.data = Nil \/ t.data \in waitCancels'
         /\ \A i \in Ids : archive'[i] # Nil /\ archive'[i].error = "wait_cancelled"
                             => Cancelled(i)'
    BY <1>4, <1>5, <1>7 DEF WaitInv, WaitsTrue
  <1>12. WaitsTrue'
    <2>1. \A t \in Queued(io') :
            t.op = "respond" /\ t.answer.persisted /\ t.answer.error = "wait_cancelled"
              => Cancelled(t.answer.id)'
      BY <1>10
    <2> QED
      BY <1>8, <1>9, <1>11, <2>1 DEF WaitsTrue
  <1> QED
    BY <1>6, <1>12 DEF WaitInv

LEMMA WaitArrives ==
  ASSUME IInv, WaitInv, UNCHANGED diskVars, published' = published,
         waitCancels \subseteq waitCancels', Arrives(NotWaits)
  PROVE  WaitInv'
  <1> DEFINE E == NotWaits
             r == Head(replies)
  <1>1. PICK y : Shape(y) /\ Handles(y) /\ Arrived(r, y, E)
    BY DEF Arrives
  <1>2. "wait_cancelled" \notin E /\ "wait_cancelled" # NoError
    BY MembersSilent DEF NotWaits
  <1>3. r.data # Nil => AsPublished(r.data)
    BY DEF Arrives, ReadReply, WaitInv, RequestsKept
  <1> HIDE DEF E
  <1>4. /\ b'.id = y.id /\ b'.req = y.req /\ b'.document = y.document /\ b'.deferred = y.deferred
        /\ \A f : Has(b', f) <=> Has(y, f)
    BY <1>1, ShapedMembers
  <1>5. Queued(replies') \subseteq Queued(replies)
    BY <1>1, RepliesLeft DEF Handles
  <1>6. request' = request /\ cancelFiles' = cancelFiles /\ archive' = archive
    BY DEF diskVars
  <1>7. \A i : Cancelled(i) => Cancelled(i)'
    BY DEF Cancelled
  <1>8. /\ cancelFiles' \subseteq waitCancels'
        /\ \A t \in Queued(replies') : t.op = "cancel" => t.data = Nil \/ t.data \in waitCancels'
        /\ \A i \in Ids : archive'[i] # Nil /\ archive'[i].error = "wait_cancelled"
                            => Cancelled(i)'
    BY <1>5, <1>6, <1>7 DEF WaitInv, WaitsTrue
  <1>9. ASSUME Has(y, "busy") => /\ y.req.id = y.id /\ AsPublished(y.req)
                                 /\ y.deferred # "wait_cancelled"
                                 /\ Has(y, "waiting") /\ y.deferred = NoError
                                      => y.document = y.req.doc,
               \A t \in Queued(io') : \/ t \in Queued(io)
                                      \/ t.op # "respond" \/ ~t.answer.persisted
                                      \/ t.answer.error # "wait_cancelled"
        PROVE  WaitInv'
    <2>1. Has(b', "busy") => b'.req.id = b'.id /\ AsPublished(b'.req)
      BY <1>4, <1>9
    <2>2. RequestsKept'
      BY <1>5, <1>6, <2>1, RequestsStay DEF WaitInv
    <2>3. /\ Has(b', "busy") /\ Has(b', "waiting") /\ b'.deferred = NoError
               => b'.document = b'.req.doc
          /\ Has(b', "busy") => b'.deferred # "wait_cancelled"
      BY <1>4, <1>9
    <2>4. \A t \in Queued(io') :
            t.op = "respond" /\ t.answer.persisted /\ t.answer.error = "wait_cancelled"
              => Cancelled(t.answer.id)'
      BY <1>7, <1>9 DEF WaitInv, WaitsTrue
    <2>5. WaitsTrue'
      BY <1>8, <2>3, <2>4 DEF WaitsTrue
    <2> QED
      BY <2>2, <2>5 DEF WaitInv
  <1>10. CASE r.data # Nil /\ r.fresh
    <2>1. PICK z : Begins(b, r.data, z, E) /\ Outcome(z, y, E)
      BY <1>1, <1>10 DEF Arrived
    <2>2. /\ ~Has(z, "waiting") /\ z.deferred = NoError /\ z.id = r.data.id /\ z.req = r.data
      BY <2>1 DEF Begins, Begun
    <2>3. y.id = r.data.id /\ y.req = r.data
      BY <2>1, <2>2 DEF Outcome, SameRequest
    <2>4. r.data # Nil
      BY <1>10
    <2>5. Has(y, "busy") => /\ y.deferred # "wait_cancelled"
                            /\ Has(y, "waiting") /\ y.deferred = NoError => y.document = y.req.doc
      BY <1>2, <2>1, <2>2 DEF Outcome, Going, Sends, Answers, WaitKept
    <2>6. \A t \in Queued(io') :
            \/ t \in Queued(io)
            \/ t.op = "stop" /\ t.reason \in E
            \/ t.op = "respond" /\ Answers(z, y, E) /\ IsAnswer(z, y, t.answer, E)
      BY <1>1, <2>1, HandledPosts
    <2>7. \A t \in Queued(io') : \/ t \in Queued(io)
                                 \/ t.op # "respond" \/ ~t.answer.persisted
                                 \/ t.answer.error # "wait_cancelled"
      BY <1>2, <2>2, <2>6 DEF IsAnswer
    <2> HIDE DEF r
    <2> QED
      BY <1>3, <1>9, <2>3, <2>4, <2>5, <2>7 DEF AsPublished
  <1>11. CASE r.data = Nil \/ ~r.fresh
    <2>1. /\ Rests(b, y, E)
          /\ \A t \in Queued(io') :
               \/ t \in Queued(io)
               \/ t.op = "stop" /\ t.reason \in E
               \/ t.op = "rewrite"
               \/ t.op = "respond" /\ ~t.answer.persisted
      BY <1>1, <1>11, RestsPosts
    <2>2. ~Has(y, "busy")
      BY <2>1 DEF Rests
    <2> HIDE DEF r
    <2> QED
      BY <1>9, <2>1, <2>2
  <1> QED
    BY <1>10, <1>11

LEMMA RequestsIo ==
  ASSUME IInv, RequestsKept, IoSequence
  PROVE  RequestsKept'
  <1>1. b' = b /\ published' = published
    BY ElsewhereIdles DEF IoSequence, ReadRequest, ReadStop, StoreStop, WriteDurableResponse,
       ReadWaitCancellation, WriteResponse, historyVars
  <1>2. ASSUME NEW outcome \in IoOutcomes, NEW stopOutcome \in IoOutcomes,
               ReadRequest(outcome, stopOutcome)
        PROVE  RequestsKept'
    <2> DEFINE id == request.id
               e == [op |-> "read", data |-> request, stop |-> Stop(stopOutcome),
                     fresh |-> request # Nil /\ ClaimIsFresh(claims, id, outcome),
                     cached |-> IF request # Nil THEN ClaimedResponse(claims, archive, id) ELSE Nil]
    <2>1. replies' = Append(replies, e) /\ e.data = request /\ request' = Nil
      BY <1>2 DEF ReadRequest
    <2> HIDE DEF e
    <2>2. Queued(replies') = Queued(replies) \cup {e}
      BY <2>1, ReplyQueued
    <2> QED
      BY <1>1, <2>1, <2>2 DEF RequestsKept, AsPublished
  <1>3. ASSUME NEW e, replies' = Append(replies, e), e.op # "read", request' = request
        PROVE  RequestsKept'
    <2>1. Queued(replies') = Queued(replies) \cup {e}
      BY <1>3, ReplyQueued
    <2> QED
      BY <1>1, <1>3, <2>1 DEF RequestsKept, AsPublished
  <1>4. ASSUME NEW outcome \in IoOutcomes, ReadStop(outcome)
        PROVE  RequestsKept'
    BY <1>3, <1>4 DEF ReadStop
  <1>5. ASSUME NEW outcome \in IoOutcomes, StoreStop(outcome)
        PROVE  RequestsKept'
    BY <1>1, <1>5 DEF StoreStop, RequestsKept, AsPublished
  <1>6. ASSUME NEW outcome \in IoOutcomes, WriteDurableResponse(outcome)
        PROVE  RequestsKept'
    <2> DEFINE e == [op |-> "respond", stored |-> Stored(Head(io).answer, outcome)]
    <2>1. replies' = Append(replies, e) /\ e.op # "read" /\ request' = request
      BY <1>6 DEF WriteDurableResponse
    <2> HIDE DEF e
    <2> QED
      BY <1>3, <2>1
  <1>7. ASSUME ReadWaitCancellation
        PROVE  RequestsKept'
    <2> DEFINE id == Head(io).id
               found == {c \in cancelFiles : c.id = id}
               e == [op |-> "cancel", id |-> id,
                     data |-> IF found = {} THEN Nil ELSE CHOOSE c \in found : TRUE]
    <2>1. replies' = Append(replies, e) /\ e.op # "read" /\ request' = request
      BY <1>7 DEF ReadWaitCancellation
    <2> HIDE DEF e
    <2> QED
      BY <1>3, <2>1
  <1>8. ASSUME WriteResponse
        PROVE  RequestsKept'
    BY <1>1, <1>8 DEF WriteResponse, RequestsKept, AsPublished
  <1> QED
    BY <1>2, <1>4, <1>5, <1>6, <1>7, <1>8 DEF IoSequence

(* The archive changes only by the answer that is stored. *)
LEMMA StoredAnswer ==
  ASSUME IInv, Head(io) \in Queued(io),
         \/ archive' = archive
         \/ /\ Head(io).op = "respond" /\ Head(io).answer.persisted
            /\ archive' = [archive EXCEPT ![Head(io).answer.id] = Head(io).answer]
  PROVE  \A i \in Ids : archive'[i] # Nil =>
           \/ archive'[i] = archive[i]
           \/ \E t \in Queued(io) : /\ t.op = "respond" /\ t.answer.persisted
                                    /\ t.answer.id = i /\ archive'[i] = t.answer
  <1>1. archive \in [Ids -> Answer \cup {Nil}]
    BY DEF IInv, DiskType
  <1> DEFINE t == Head(io)
             a == t.answer
  <1>2. \/ archive' = archive
        \/ t.op = "respond" /\ a.persisted /\ archive' = [archive EXCEPT ![a.id] = a]
    OBVIOUS
  <1>3. t \in Queued(io) /\ t.answer = a
    OBVIOUS
  <1> HIDE DEF t, a
  <1> QED
    BY <1>1, <1>2, <1>3

LEMMA WaitIo ==
  ASSUME IInv, WaitInv, IoSequence
  PROVE  WaitInv'
  <1>1. b' = b /\ published' = published /\ waitCancels' = waitCancels
    BY ElsewhereIdles DEF IoSequence, ReadRequest, ReadStop, StoreStop, WriteDurableResponse,
       ReadWaitCancellation, WriteResponse, historyVars
  <1>2. RequestsKept'
    BY RequestsIo DEF WaitInv
  <1>3. \A i : Cancelled(i) => Cancelled(i)'
    BY <1>1 DEF Cancelled
  <1>4. ASSUME Queued(io') \subseteq Queued(io), cancelFiles' \subseteq cancelFiles,
               \A t \in Queued(replies') : t \in Queued(replies) \/ t.op # "cancel"
                                           \/ t.data = Nil \/ t.data \in waitCancels,
               \A i \in Ids : archive'[i] # Nil =>
                 \/ archive'[i] = archive[i]
                 \/ \E t \in Queued(io) : /\ t.op = "respond" /\ t.answer.persisted
                                          /\ t.answer.id = i /\ archive'[i] = t.answer
        PROVE  WaitInv'
    <2>1. /\ Has(b', "busy") /\ Has(b', "waiting") /\ b'.deferred = NoError
               => b'.document = b'.req.doc
          /\ Has(b', "busy") /\ b'.deferred = "wait_cancelled" => Cancelled(b.id)'
      BY <1>1, <1>3 DEF WaitInv, WaitsTrue, Cancelled
    <2>2. /\ cancelFiles' \subseteq waitCancels'
          /\ \A t \in Queued(replies') : t.op = "cancel" => t.data = Nil \/ t.data \in waitCancels'
      BY <1>1, <1>4 DEF WaitInv, WaitsTrue
    <2>3. \A t \in Queued(io') :
            t.op = "respond" /\ t.answer.persisted /\ t.answer.error = "wait_cancelled"
              => Cancelled(t.answer.id)'
      BY <1>3, <1>4 DEF WaitInv, WaitsTrue
    <2>4. \A i \in Ids : archive'[i] # Nil /\ archive'[i].error = "wait_cancelled"
                           => Cancelled(i)'
      BY <1>3, <1>4 DEF WaitInv, WaitsTrue
    <2>5. WaitsTrue'
      BY <2>1, <2>2, <2>3, <2>4 DEF WaitsTrue
    <2> QED
      BY <1>2, <2>5 DEF WaitInv
  <1>5. ASSUME NEW op, Task(op)
        PROVE  Queued(io') \subseteq Queued(io) /\ Head(io) \in Queued(io) /\ Head(io).op = op
    BY <1>5, TaskTaken
  <1>6. ASSUME NEW e, replies' = Append(replies, e)
        PROVE  Queued(replies') = Queued(replies) \cup {e}
    BY <1>6, ReplyQueued
  <1>7. ASSUME NEW outcome \in IoOutcomes, NEW stopOutcome \in IoOutcomes,
               ReadRequest(outcome, stopOutcome)
        PROVE  WaitInv'
    <2> DEFINE id == request.id
               e == [op |-> "read", data |-> request, stop |-> Stop(stopOutcome),
                     fresh |-> request # Nil /\ ClaimIsFresh(claims, id, outcome),
                     cached |-> IF request # Nil THEN ClaimedResponse(claims, archive, id) ELSE Nil]
    <2>1. replies' = Append(replies, e) /\ e.op = "read"
      BY <1>7 DEF ReadRequest
    <2> HIDE DEF e
    <2>2. /\ Task("read") /\ cancelFiles' = cancelFiles /\ archive' = archive
      BY <1>7 DEF ReadRequest
    <2> QED
      BY <1>4, <1>5, <1>6, <2>1, <2>2
  <1>8. ASSUME NEW outcome \in IoOutcomes, ReadStop(outcome)
        PROVE  WaitInv'
    <2> DEFINE e == [op |-> "readstop", stop |-> Stop(outcome)]
    <2>1. replies' = Append(replies, e) /\ e.op = "readstop"
      BY <1>8 DEF ReadStop
    <2> HIDE DEF e
    <2>2. /\ Task("readstop") /\ cancelFiles' = cancelFiles /\ archive' = archive
      BY <1>8 DEF ReadStop
    <2> QED
      BY <1>4, <1>5, <1>6, <2>1, <2>2
  <1>9. ASSUME NEW outcome \in IoOutcomes, StoreStop(outcome)
        PROVE  WaitInv'
    <2>1. /\ Task("stop")
          /\ cancelFiles' = cancelFiles /\ archive' = archive /\ replies' = replies
      BY <1>9 DEF StoreStop
    <2> QED
      BY <1>4, <1>5, <2>1
  <1>10. ASSUME NEW outcome \in IoOutcomes, WriteDurableResponse(outcome)
         PROVE  WaitInv'
    <2> DEFINE response == Head(io).answer
               e == [op |-> "respond", stored |-> Stored(response, outcome)]
    <2>1. replies' = Append(replies, e) /\ e.op = "respond"
      BY <1>10 DEF WriteDurableResponse
    <2> HIDE DEF e
    <2>2. Task("respond") /\ cancelFiles' = cancelFiles
      BY <1>10 DEF WriteDurableResponse
    <2>3. \/ archive' = archive
          \/ /\ response.persisted /\ archive' = [archive EXCEPT ![response.id] = response]
      BY <1>10 DEF WriteDurableResponse, Stored
    <2>4. Head(io) \in Queued(io) /\ Head(io).op = "respond"
      BY <1>5, <2>2
    <2>5. \A i \in Ids : archive'[i] # Nil =>
            \/ archive'[i] = archive[i]
            \/ \E t \in Queued(io) : /\ t.op = "respond" /\ t.answer.persisted
                                     /\ t.answer.id = i /\ archive'[i] = t.answer
      BY <2>3, <2>4, StoredAnswer
    <2> QED
      BY <1>4, <1>5, <1>6, <2>1, <2>2, <2>5
  <1>11. ASSUME ReadWaitCancellation
         PROVE  WaitInv'
    <2> DEFINE id == Head(io).id
               found == {c \in cancelFiles : c.id = id}
               c0 == CHOOSE c \in found : TRUE
               e == [op |-> "cancel", id |-> id, data |-> IF found = {} THEN Nil ELSE c0]
    <2>1. replies' = Append(replies, e) /\ e.data = IF found = {} THEN Nil ELSE c0
      BY <1>11 DEF ReadWaitCancellation
    <2> HIDE DEF e
    <2>2. Task("cancel") /\ cancelFiles' \subseteq cancelFiles /\ archive' = archive
      BY <1>11 DEF ReadWaitCancellation
    <2>3. e.data = Nil \/ e.data \in waitCancels
      <3>1. found # {} => c0 \in found
        OBVIOUS
      <3> QED
        BY <2>1, <3>1 DEF WaitInv, WaitsTrue
    <2> HIDE DEF id, found, c0
    <2> QED
      BY <1>4, <1>5, <1>6, <2>1, <2>2, <2>3
  <1>12. ASSUME WriteResponse
         PROVE  WaitInv'
    <2>1. /\ Task("rewrite")
          /\ cancelFiles' = cancelFiles /\ archive' = archive /\ replies' = replies
      BY <1>12 DEF WriteResponse
    <2> QED
      BY <1>4, <1>5, <2>1
  <1> QED
    BY <1>7, <1>8, <1>9, <1>10, <1>11, <1>12 DEF IoSequence

(* What a client publishes is not there yet, and stays. *)
LEMMA WaitMailbox ==
  ASSUME IInv, WaitInv, Mailbox
  PROVE  WaitInv'
  <1>1. UNCHANGED <<b, io, replies, archive>>
    BY DEF Mailbox, Publish, Republish, ClientCancelsWait, ClientStops, bridgeVars
  <1>2. published \in [Ids -> Request \cup {Nil}]
    BY DEF IInv, HistoryType
  <1>3. ASSUME \A i : i \in Ids /\ published[i] # Nil => published'[i] = published[i],
               waitCancels \subseteq waitCancels', cancelFiles' \subseteq waitCancels',
               \A i \in Ids : published'[i] # Nil => published'[i].id = i,
               request' # Nil => AsPublished(request)'
        PROVE  WaitInv'
    <2>1. \A r : r.id \in Ids /\ AsPublished(r) => AsPublished(r)'
      BY <1>3 DEF AsPublished
    <2>2. \A i \in Ids : Cancelled(i) => Cancelled(i)'
      BY <1>3 DEF Cancelled
    <2>3. Has(b, "busy") => b.id \in Ids
      BY MembersFull
    <2>4. \A t \in Queued(replies) : t.op = "read" /\ t.data # Nil => t.data.id \in Ids
      <3>1. \A t \in Queued(replies) : t \in AnyReply
        BY QueueTypes, ElementOfSeq DEF Queued
      <3> QED
        BY <3>1 DEF AnyReply, ReadReply, Request
    <2>5. \A t \in Queued(io) : t.op = "respond" => t.answer.id \in Ids
      <3>1. \A t \in Queued(io) : t \in AnyTask
        BY QueueTypes, ElementOfSeq DEF Queued
      <3> QED
        BY <3>1 DEF AnyTask, HandlerTask, Answer
    <2>6. RequestsKept'
      <3>1. Has(b', "busy") => b'.req.id = b'.id /\ AsPublished(b.req)'
        BY <1>1, <2>1, <2>3 DEF WaitInv, RequestsKept, AsPublished
      <3>2. \A t \in Queued(replies') : t.op = "read" /\ t.data # Nil => AsPublished(t.data)'
        BY <1>1, <2>1, <2>4 DEF WaitInv, RequestsKept
      <3> QED
        BY <1>3, <3>1, <3>2 DEF RequestsKept
    <2>7. WaitsTrue'
      <3>1. /\ Has(b', "busy") /\ Has(b', "waiting") /\ b'.deferred = NoError
                 => b'.document = b'.req.doc
            /\ \A t \in Queued(replies') : t.op = "cancel"
                 => t.data = Nil \/ t.data \in waitCancels'
        BY <1>1, <1>3 DEF WaitInv, WaitsTrue
      <3>2. Has(b', "busy") /\ b'.deferred = "wait_cancelled" => Cancelled(b.id)'
        BY <1>1, <2>2, <2>3 DEF WaitInv, WaitsTrue, Cancelled
      <3>3. \A t \in Queued(io') :
              t.op = "respond" /\ t.answer.persisted /\ t.answer.error = "wait_cancelled"
                => Cancelled(t.answer.id)'
        BY <1>1, <2>2, <2>5 DEF WaitInv, WaitsTrue
      <3>4. \A i \in Ids : archive'[i] # Nil /\ archive'[i].error = "wait_cancelled"
                             => Cancelled(i)'
        BY <1>1, <2>2 DEF WaitInv, WaitsTrue
      <3> QED
        BY <1>3, <3>1, <3>2, <3>3, <3>4 DEF WaitsTrue
    <2> QED
      BY <2>6, <2>7 DEF WaitInv
  <1>4. ASSUME NEW i \in Ids, NEW call \in Calls, NEW known \in Capabilities,
               Publish(i, call, known)
        PROVE  WaitInv'
    <2> DEFINE r == [id |-> i, call |-> call, doc |-> known.doc, base |-> known.base]
    <2>1. /\ published[i] = Nil /\ request' = r /\ r.id = i
          /\ published' = [published EXCEPT ![i] = r]
          /\ waitCancels' = waitCancels /\ cancelFiles' = cancelFiles
      BY <1>4 DEF Publish
    <2> HIDE DEF r
    <2>2. published'[i] = r /\ \A j \in Ids : j # i => published'[j] = published[j]
      BY <1>2, <2>1
    <2>3. request' # Nil => AsPublished(request)'
      BY <2>1, <2>2 DEF AsPublished
    <2> QED
      BY <1>3, <2>1, <2>2, <2>3 DEF WaitInv, WaitsTrue, RequestsKept
  <1>5. ASSUME NEW i \in Ids, Republish(i)
        PROVE  WaitInv'
    <2>1. /\ published[i] # Nil /\ request' = published[i] /\ published' = published
          /\ waitCancels' = waitCancels /\ cancelFiles' = cancelFiles
      BY <1>5 DEF Republish
    <2>2. request' # Nil => AsPublished(request)'
      BY <2>1 DEF AsPublished, WaitInv, RequestsKept
    <2> QED
      BY <1>3, <2>1, <2>2 DEF WaitInv, WaitsTrue, RequestsKept
  <1>6. ASSUME NEW i \in Ids, ClientCancelsWait(i)
        PROVE  WaitInv'
    <2>1. /\ request' = request /\ published' = published /\ waitCancels \subseteq waitCancels'
          /\ cancelFiles' \ cancelFiles \subseteq waitCancels'
      BY <1>6 DEF ClientCancelsWait
    <2> QED
      BY <1>3, <2>1 DEF WaitInv, WaitsTrue, RequestsKept, AsPublished
  <1>7. ASSUME ClientStops
        PROVE  WaitInv'
    <2>1. /\ request' = request /\ published' = published /\ waitCancels' = waitCancels
          /\ cancelFiles' = cancelFiles
      BY <1>7 DEF ClientStops
    <2> QED
      BY <1>3, <2>1 DEF WaitInv, WaitsTrue, RequestsKept, AsPublished
  <1> QED
    BY <1>4, <1>5, <1>6, <1>7 DEF Mailbox

LEMMA WaitCrash ==
  ASSUME IInv, WaitInv, Crash
  PROVE  WaitInv'
  <1>1. ~Has(b', "busy") /\ request' = request /\ published' = published
        /\ waitCancels' = waitCancels /\ cancelFiles' = cancelFiles
    BY DEF Crash, InitBridge, Has
  <1>2. Queued(io') = {} /\ Queued(replies') = {}
    BY DEF Crash, Queued
  <1>3. \A i : Cancelled(i) => Cancelled(i)'
    BY <1>1 DEF Cancelled
  <1>4. io # <<>> => Head(io) \in Queued(io)
    <2>1. io # <<>> => /\ Head(io) \in Queued(io)
                       /\ Never(io, "read") => Never(Tail(io), "read")
      BY QueueTypes, TailQueue
    <2> QED
      BY <2>1
  <1>5. \A i \in Ids : archive'[i] # Nil =>
          \/ archive'[i] = archive[i]
          \/ \E t \in Queued(io) : /\ t.op = "respond" /\ t.answer.persisted
                                   /\ t.answer.id = i /\ archive'[i] = t.answer
    <2>1. \/ archive' = archive
          \/ /\ io # <<>> /\ Head(io).op = "respond" /\ Head(io).answer.persisted
             /\ archive' = [archive EXCEPT ![Head(io).answer.id] = Head(io).answer]
      BY DEF Crash, Stored
    <2>2. CASE archive' = archive
      BY <2>2
    <2>3. CASE archive' # archive
      BY <1>4, <2>1, <2>3, StoredAnswer
    <2> QED
      BY <2>2, <2>3
  <1>6. \A i \in Ids : archive'[i] # Nil /\ archive'[i].error = "wait_cancelled" => Cancelled(i)'
    BY <1>3, <1>5 DEF WaitInv, WaitsTrue
  <1>7. RequestsKept'
    BY <1>1, <1>2, RequestsStay DEF WaitInv
  <1>8. WaitsTrue'
    BY <1>1, <1>2, <1>6 DEF WaitInv, WaitsTrue
  <1> QED
    BY <1>7, <1>8 DEF WaitInv

(* The wait in hand is asked to end. *)
LEMMA AskedToEnd ==
  ASSUME IInv, WaitInv, published' = published, b.deferred = NoError, NEW c,
         c \in waitCancels', c \in WaitName, ThisWait(b, c.id, c.doc)
  PROVE  published'[b.id] # Nil /\ [id |-> b.id, doc |-> published'[b.id].doc] \in waitCancels'
  <1>1. Has(b, "busy") /\ Has(b, "waiting") /\ b.id = c.id /\ b.document = c.doc
    BY DEF ThisWait
  <1>2. b.document = b.req.doc /\ b.req # Nil /\ published[b.id] = b.req
    BY <1>1 DEF WaitInv, WaitsTrue, RequestsKept, AsPublished
  <1>3. c = [id |-> b.id, doc |-> published[b.id].doc]
    BY <1>1, <1>2 DEF WaitName
  <1> QED
    BY <1>2, <1>3

(* A handler that ends the wait in hand, or finds that it ends already. *)
LEMMA WaitEnds ==
  ASSUME IInv, WaitInv, UNCHANGED diskVars, published' = published,
         waitCancels \subseteq waitCancels',
         NEW c, c \in waitCancels', c \in WaitName, ThisWait(b, c.id, c.doc),
         NEW y, Outcome(b, y, ErrorCode), Plainly(y)
  PROVE  WaitInv'
  <1> DEFINE E == ErrorCode
  <1>1. Outcome(b, y, E) /\ Handles(y) /\ TakenUp(b)
    BY ReturnHandles DEF Plainly, TakenUp
  <1>2. b'.id = b.id
    BY <1>1, HandledMembers DEF Outcome, SameRequest
  <1>3. CASE b.deferred = NoError
    <2>1. /\ published'[b.id] # Nil
          /\ [id |-> b.id, doc |-> published'[b.id].doc] \in waitCancels'
      BY <1>3, AskedToEnd
    <2>2. Cancelled(b.id)'
      BY <1>2, <2>1 DEF Cancelled
    <2> HIDE DEF E
    <2> QED
      BY <1>1, <2>2, WaitGoesOn
  <1>4. CASE b.deferred # NoError
    <2>1. Has(b, "busy") /\ Has(b, "waiting")
      BY DEF ThisWait
    <2>2. Has(b, "renderer_pending")
      BY <1>4, <2>1, MembersFull DEF Full, Base
    <2> HIDE DEF E
    <2> QED
      BY <1>1, <1>4, <2>2, WaitGoesOn
  <1> QED
    BY <1>3, <1>4

LEMMA WaitStep ==
  ASSUME LInv, IInv, WaitInv, [Next]_vars
  PROVE  WaitInv'
  <1>1. CASE \/ Poll \/ ResponseWritten \/ Expires \/ \E d \in dialogs : LateReply(d)
             \/ OfferWaitCancel \/ Renderer \/ \E t \in Tabs : ChangePage(t)
             \/ UNCHANGED vars
    <2>1. Quietly
      BY <1>1, QuietSteps
    <2>2. /\ SameFields(b, b') /\ UNCHANGED diskVars /\ UNCHANGED <<waitCancels, published>>
          /\ \A f \in {"busy", "waiting"} : Has(b', f) <=> Has(b, f)
          /\ \A t \in Queued(io') : t \in Queued(io) \/ t.op \in {"read", "readstop", "cancel"}
          /\ Queued(replies') \subseteq Queued(replies)
      BY <2>1 DEF Quietly, Idles
    <2>3. RequestsKept'
      BY <2>2, RequestsStay DEF WaitInv, RequestsKept, AsPublished, SameFields, diskVars
    <2>4. \A i : Cancelled(i) <=> Cancelled(i)'
      BY <2>2 DEF Cancelled
    <2>5. WaitsTrue'
      <3>1. /\ Has(b', "busy") /\ Has(b', "waiting") /\ b'.deferred = NoError
                 => b'.document = b'.req.doc
            /\ cancelFiles' \subseteq waitCancels'
            /\ \A t \in Queued(replies') : t.op = "cancel"
                 => t.data = Nil \/ t.data \in waitCancels'
        BY <2>2 DEF WaitInv, WaitsTrue, SameFields, diskVars
      <3>2. Has(b', "busy") /\ b'.deferred = "wait_cancelled" => Cancelled(b.id)'
        BY <2>2 DEF WaitInv, WaitsTrue, SameFields, Cancelled
      <3>3. \A t \in Queued(io') :
              t.op = "respond" /\ t.answer.persisted /\ t.answer.error = "wait_cancelled"
                => Cancelled(t.answer.id)'
        BY <2>2, <2>4 DEF WaitInv, WaitsTrue
      <3>4. \A i \in Ids : archive'[i] # Nil /\ archive'[i].error = "wait_cancelled"
                             => Cancelled(i)'
        BY <2>2, <2>4 DEF WaitInv, WaitsTrue, diskVars
      <3> QED
        BY <3>1, <3>2, <3>3, <3>4 DEF WaitsTrue
    <2> QED
      BY <2>3, <2>5 DEF WaitInv
  <1>2. CASE IoSequence
    BY <1>2, WaitIo
  <1>3. CASE Mailbox
    BY <1>3, WaitMailbox
  <1>4. CASE Crash
    BY <1>4, WaitCrash
  <1>5. CASE ReceiveRequest
    <2> DEFINE E == NotWaits
    <2>1. UNCHANGED diskVars /\ published' = published /\ waitCancels \subseteq waitCancels'
      BY <1>5, HandlersLeaveDisk
    <2>2. ~Has(b, "busy")
      BY <1>5, HeadOfReplies, MembersFull DEF ReceiveRequest, Reply
    <2>3. /\ PromptsAre(E) /\ Ordinary \subseteq E /\ NoError \notin E
          /\ StopReasons \cup {Unreadable} \subseteq E
      BY <2>2, WaitCause
    <2>4. Head(replies).stop = NoError \/ Head(replies).stop \in E
      <3>1. Head(replies).stop \in Reason
        BY <1>5, HeadOfReplies DEF ReceiveRequest, Reply, AnyReply, ReadReply
      <3> QED
        BY <2>3, <3>1 DEF Reason
    <2> HIDE DEF E
    <2>5. Arrives(E)
      BY <1>5, <2>3, <2>4, ReceiveRequestArrives
    <2> QED
      BY <2>1, <2>5, WaitArrives DEF E
  <1>6. CASE \/ ReceiveStop \/ ReceiveCancel \/ \E r \in results : DeliverResult(r)
             \/ \E accepted \in BOOLEAN : AnswerPrompt(accepted)
             \/ DeadlineFires \/ WaitLimitFires \/ WakeupFires \/ RunWaitCancel
             \/ \E t \in Tabs, o \in Origins \cup {"other"}, same \in BOOLEAN :
                  NavigateTab(t, o, same)
             \/ \E t \in Tabs : CloseTab(t) \/ ActivateTab(t)
             \/ StopLoading \/ UserInteracts \/ AccessibilityEvent
    <2>1. UNCHANGED diskVars /\ published' = published /\ waitCancels \subseteq waitCancels'
      BY <1>6, HandlersLeaveDisk
    <2>2. ASSUME NEW E, Acceptable(E), PromptsAre(E), Handled(E),
                 "wait_cancelled" \notin E \/ (Has(b, "busy") => b.deferred = "wait_cancelled")
          PROVE  WaitInv'
      <3>1. PICK x, y : TakenUp(x) /\ Outcome(x, y, E) /\ Handles(y)
        BY <2>2, HandledGoesOn DEF GoesOn
      <3>2. b'.id = b.id
        <4>1. y.id = x.id /\ x.id = b.id
          BY <3>1 DEF TakenUp, Outcome, SameRequest
        <4> QED
          BY <3>1, <4>1, HandledMembers
      <3>3. Has(b, "busy") /\ b.deferred = "wait_cancelled" => Cancelled(b.id)'
        BY <2>1, <3>2 DEF WaitInv, WaitsTrue, Cancelled
      <3>4. "wait_cancelled" \notin E \/ (Has(b, "busy") => Cancelled(b.id)')
        BY <2>2, <3>3
      <3> QED
        BY <2>1, <3>1, <3>4, WaitGoesOn
    <2>3. CASE Has(b, "busy") /\ b.deferred = "wait_cancelled"
      <3> DEFINE E == ErrorCode
      <3>1. /\ Acceptable(E) /\ PromptsAre(E) /\ "user_cancelled" \in E
            /\ "wait_cancelled" \in E /\ StopReasons \cup {Unreadable} \subseteq E
        BY WaitCause, MembersSilent
      <3> HIDE DEF E
      <3>2. Handled(E)
        BY <1>6, <3>1, AnyHandled
      <3> QED
        BY <2>2, <2>3, <3>1, <3>2
    <2>4. CASE ReceiveCancel /\ /\ Head(replies).data # Nil
                                /\ ThisWait(b, Head(replies).data.id, Head(replies).data.doc)
      <3> DEFINE c == Head(replies).data
      <3>1. c \in waitCancels /\ c \in WaitName
        <4>1. /\ replies # <<>> /\ Head(replies).op = "cancel" /\ Head(replies) \in AnyReply
          BY <2>4, HeadOfReplies DEF ReceiveCancel, Reply
        <4>2. Head(replies) \in Queued(replies)
          BY <4>1, QueueTypes, TailQueue
        <4> QED
          BY <2>4, <4>1, <4>2 DEF WaitInv, WaitsTrue, AnyReply, ReadReply
      <3>2. Acceptable(ErrorCode) /\ "wait_cancelled" \in ErrorCode
        BY WaitCause, MembersSilent
      <3>3. PICK y : Outcome(b, y, ErrorCode) /\ Plainly(y)
        BY <2>4, <3>2, ReceiveCancelPlain
      <3>4. ThisWait(b, c.id, c.doc) /\ c \in waitCancels'
        BY <2>1, <2>4, <3>1
      <3> HIDE DEF c
      <3> QED
        BY <2>1, <3>1, <3>3, <3>4, WaitEnds
    <2>5. CASE RunWaitCancel /\ ThisWait(b, uiCancel.id, uiCancel.doc)
      <3>1. uiCancel \in waitCancels' /\ uiCancel \in WaitName
        BY <2>5 DEF RunWaitCancel, IInv, FlightType
      <3>2. Acceptable(ErrorCode) /\ "wait_cancelled" \in ErrorCode
        BY WaitCause, MembersSilent
      <3>3. PICK y : Outcome(b, y, ErrorCode) /\ Plainly(y)
        BY <2>5, <3>2, RunWaitCancelPlain
      <3> QED
        BY <2>1, <2>5, <3>1, <3>3, WaitEnds
    <2>6. CASE /\ ~(Has(b, "busy") /\ b.deferred = "wait_cancelled")
               /\ ~(ReceiveCancel /\ /\ Head(replies).data # Nil
                                     /\ ThisWait(b, Head(replies).data.id, Head(replies).data.doc))
               /\ ~(RunWaitCancel /\ ThisWait(b, uiCancel.id, uiCancel.doc))
      <3> DEFINE E == NotWaits
      <3>1. /\ Acceptable(E) /\ PromptsAre(E) /\ "user_cancelled" \in E
            /\ StopReasons \cup {Unreadable} \subseteq E /\ "wait_cancelled" \notin E
        BY <2>6, WaitCause DEF NotWaits
      <3> HIDE DEF E
      <3>2. Handled(E)
        <4>1. ReceiveStop => Head(replies).stop = NoError \/ Head(replies).stop \in E
          <5>1. ReceiveStop => Head(replies).stop \in Reason
            BY HeadOfReplies DEF ReceiveStop, Reply, AnyReply, ReadReply
          <5> QED
            BY <3>1, <5>1 DEF Reason
        <4> QED
          BY <1>6, <2>6, <3>1, <4>1 DEF Handled
      <3> QED
        BY <2>2, <3>1, <3>2
    <2> QED
      BY <2>3, <2>4, <2>5, <2>6
  <1> QED
    BY <1>1, <1>2, <1>3, <1>4, <1>5, <1>6 DEF Next, UIThread, Window

(* A wait is archived as cancelled only if that wait, by its id and the    *)
(* document its request named, was cancelled by the client or from the     *)
(* tab's menu: not through a cancellation meant for an earlier document,   *)
(* a second copy of the request, or a process that died                    *)
(* (CancelIsForThisWait; CancelWait, PendingWaitCancellation).             *)
THEOREM CancelsThisWait == Spec => []CancelIsForThisWait
  <1>1. Init => WaitInv
    <2> SUFFICES ASSUME Init
                 PROVE  WaitInv
      OBVIOUS
    <2>1. ~Has(b, "busy")
      BY DEF Init, InitBridge, Has
    <2>2. Queued(io) = {} /\ Queued(replies) = {}
      BY DEF Init, Queued
    <2>3. /\ \A i \in Ids : archive[i] = Nil /\ published[i] = Nil
          /\ request = Nil /\ cancelFiles = {}
      BY DEF Init
    <2> QED
      BY <2>1, <2>2, <2>3 DEF WaitInv, RequestsKept, WaitsTrue
  <1>2. LInv /\ IInv /\ WaitInv /\ [Next]_vars => WaitInv'
    BY WaitStep
  <1>3. WaitInv => CancelIsForThisWait
    BY DEF WaitInv, WaitsTrue, Cancelled, CancelIsForThisWait
  <1> QED
    BY <1>1, <1>2, <1>3, LedgerInductive, PTL DEF Spec

-----------------------------------------------------------------------------
(***************************************************************************)
(* The baseline is a snapshot of the document the bridge observes.         *)
(***************************************************************************)

(* Request i, of whose snapshot the baseline is, has its answer archived   *)
(* or on its way there, names the document in hand in it, and is not read  *)
(* from the mailbox again to be answered.                                  *)
TakenFrom(i) ==
  /\ i \in claims
  /\ Has(b, "busy") => b.id # i
  /\ archive[i] # Nil => archive[i].doc = b.document
  /\ \A t \in Queued(io) : t.op = "respond" /\ t.answer.id = i => t.answer.doc = b.document
  /\ archive[i] = Nil /\ ~Has(b, "quarantined") =>
       /\ Has(b, "writing_response")
       /\ \A t \in Queued(io) : t.op = "respond" => t.answer.id = i
       /\ \A t \in Queued(replies) : t.op = "respond" => ~t.stored
  /\ \A t \in Queued(replies) :
       t.op = "read" /\ t.data # Nil /\ (t.fresh \/ t.cached = Nil) => t.data.id # i

BaseInv == b.baseline # Nil => TakenFrom(b.baseline.by)

(* Where the members of the baseline's request do not change. *)
LEMMA BaseKept ==
  ASSUME NEW i, TakenFrom(i), b'.document = b.document, claims \subseteq claims',
         Has(b', "busy") => b'.id # i,
         archive' = archive,
         \A t \in Queued(io') :
           t \in Queued(io) \/ t.op # "respond" \/ t.answer.id # i,
         Queued(replies') \subseteq Queued(replies),
         archive[i] = Nil /\ ~Has(b', "quarantined") =>
           /\ ~Has(b, "quarantined") /\ Has(b', "writing_response")
           /\ \A t \in Queued(io') : t.op = "respond" => t \in Queued(io)
  PROVE  TakenFrom(i)'
  BY DEF TakenFrom

(* The snapshot just taken is the new baseline. *)
LEMMA BaseTaken ==
  ASSUME NEW i, i \in claims', ~Has(b', "busy"), archive'[i] = Nil, Has(b', "writing_response"),
         \A t \in Queued(io') : t.op = "respond" => t.answer.id = i /\ t.answer.doc = b'.document,
         \A t \in Queued(replies') : t.op # "respond" /\ t.op # "read"
  PROVE  TakenFrom(i)'
  BY DEF TakenFrom

LEMMA BaseGoesOn ==
  ASSUME LInv, IInv, BaseInv, GoesOn(ErrorCode)
  PROVE  BaseInv'
  <1> DEFINE E == ErrorCode
  <1>1. PICK x, y : TakenUp(x) /\ Outcome(x, y, E) /\ Handles(y)
    BY DEF GoesOn
  <1> HIDE DEF E
  <1> SUFFICES ASSUME b'.baseline # Nil
               PROVE  TakenFrom(b.baseline.by)'
    BY DEF BaseInv
  <1>2. /\ b'.id = y.id /\ b'.document = y.document /\ b'.baseline = y.baseline
        /\ \A f : Has(b', f) <=> Has(y, f)
    BY <1>1, HandledMembers
  <1>3. /\ x.id = b.id /\ x.document = b.document /\ x.baseline = b.baseline
        /\ Has(x, "busy") <=> Has(b, "busy")
        /\ Has(x, "writing_response") <=> Has(b, "writing_response")
        /\ Has(b, "quarantined") => Has(x, "quarantined")
    BY <1>1 DEF TakenUp
  <1>4. /\ y.id = x.id /\ (Has(y, "quarantined") <=> Has(x, "quarantined"))
        /\ Has(y, "busy") => Has(x, "busy")
    BY <1>1 DEF Outcome, SameRequest, Going, Sends, Answers
  <1>5. Queued(replies') \subseteq Queued(replies) /\ claims' = claims /\ archive' = archive
    BY <1>1, RepliesLeft DEF Handles
  <1>6. \A t \in Queued(io') :
          \/ t \in Queued(io)
          \/ t.op = "stop" /\ t.reason \in E
          \/ t.op = "respond" /\ Answers(x, y, E) /\ IsAnswer(x, y, t.answer, E)
    BY <1>1, HandledPosts
  <1>7. Has(b, "busy") => ~Has(b, "writing_response") /\ ~Has(b, "reading")
    BY MembersFull
  <1>8. CASE BaselineKept(x, y)
    <2>0. PICK i : i = b.baseline.by
      OBVIOUS
    <2>1. b.baseline # Nil /\ b'.baseline = b.baseline /\ b'.document = b.document
      BY <1>2, <1>3, <1>8 DEF BaselineKept
    <2>2. TakenFrom(i)
      BY <2>0, <2>1 DEF BaseInv
    <2>3. Has(b, "busy") => b.id # i
      BY <2>2 DEF TakenFrom
    <2>4. Answers(x, y, E) => Has(b, "busy")
      BY <1>3 DEF Answers
    <2>5. \A t \in Queued(io') : t \in Queued(io) \/ t.op # "respond" \/ t.answer.id # i
      BY <1>3, <1>6, <2>3, <2>4 DEF IsAnswer
    <2>6. ASSUME archive[i] = Nil, ~Has(b', "quarantined")
          PROVE  /\ ~Has(b, "quarantined") /\ Has(b', "writing_response")
                 /\ \A t \in Queued(io') : t.op = "respond" => t \in Queued(io)
      <3>1. ~Has(b, "quarantined")
        BY <1>2, <1>3, <1>4, <2>6
      <3>2. Has(b, "writing_response")
        BY <2>2, <2>6, <3>1 DEF TakenFrom
      <3>3. ~Answers(x, y, E)
        BY <1>7, <2>4, <3>2
      <3>4. Has(y, "writing_response") <=> Has(x, "writing_response")
        BY <1>1, <3>3 DEF Outcome, Going, Sends
      <3> QED
        BY <1>2, <1>3, <1>6, <3>1, <3>2, <3>3, <3>4
    <2>7. TakenFrom(i)'
      BY <1>2, <1>3, <1>4, <1>5, <2>1, <2>2, <2>3, <2>5, <2>6, BaseKept
    <2> QED
      BY <2>0, <2>1, <2>7 DEF TakenFrom
  <1>9. CASE ~BaselineKept(x, y)
    <2>1. Answers(x, y, E)
      BY <1>1, <1>9 DEF Outcome, Going, Sends
    <2>2. /\ Has(b, "busy") /\ ~Has(y, "busy") /\ Has(y, "writing_response")
          /\ y.baseline.by = x.id
      BY <1>3, <1>9, <2>1 DEF Answers, IsAnswer
    <2>3. /\ b.id \in claims /\ archive[b.id] = Nil
          /\ Never(io, "respond") /\ Never(replies, "respond")
      BY <1>7, <2>2 DEF LInv, WorkInv, CurrentOK, Unanswered, QueueInv, RespondOnce
    <2>4. \A t \in Queued(replies) : t.op # "read"
      BY <1>7, <2>2 DEF IInv, ReadOnce, Quiet, IsRead, Queued
    <2>5. \A t \in Queued(io') : t.op = "respond" =>
            t.answer.id = b.id /\ t.answer.doc = b'.document
      BY <1>2, <1>3, <1>6, <1>9, <2>3 DEF IsAnswer, Never
    <2>6. \A t \in Queued(replies') : t.op # "respond" /\ t.op # "read"
      BY <1>5, <2>3, <2>4 DEF Never
    <2>0. PICK i : i = b.id
      OBVIOUS
    <2>7. /\ i \in claims' /\ ~Has(b', "busy") /\ archive'[i] = Nil
          /\ Has(b', "writing_response") /\ b'.baseline.by = i
      BY <1>2, <1>3, <1>5, <2>0, <2>2, <2>3
    <2>8. \A t \in Queued(io') : t.op = "respond" => t.answer.id = i /\ t.answer.doc = b'.document
      BY <2>0, <2>5
    <2>9. TakenFrom(i)'
      BY <2>6, <2>7, <2>8, BaseTaken
    <2> QED
      BY <2>7, <2>9 DEF TakenFrom
  <1> QED
    BY <1>8, <1>9

(* A request is being read: the snapshot of the baseline is on file, and   *)
(* its request comes back only to be told so.                              *)
LEMMA BaseReading ==
  ASSUME LInv, IInv, NEW i, TakenFrom(i), Has(b, "reading")
  PROVE  /\ archive[i] # Nil
         /\ ~Has(b, "quarantined") /\ ~Has(b, "writing_response")
  <1>1. ~Has(b, "writing_response")
    BY MembersFull
  <1>2. ~Has(b, "quarantined")
    BY DEF LInv, WorkInv, Fenced
  <1> QED
    BY <1>1, <1>2 DEF TakenFrom

LEMMA BaseArrives ==
  ASSUME LInv, IInv, BaseInv, Arrives(ErrorCode)
  PROVE  BaseInv'
  <1> DEFINE E == ErrorCode
             r == Head(replies)
  <1>1. PICK y : Shape(y) /\ Handles(y) /\ Arrived(r, y, E)
    BY DEF Arrives
  <1>2. /\ r \in Queued(replies) /\ r.op = "read" /\ Has(b, "reading") /\ ~Has(b, "busy")
        /\ replies # <<>> /\ replies' = Tail(replies)
    BY DEF Arrives, ReadReply
  <1> HIDE DEF E
  <1> SUFFICES ASSUME b'.baseline # Nil
               PROVE  TakenFrom(b.baseline.by)'
    BY DEF BaseInv
  <1>3. /\ b'.id = y.id /\ b'.document = y.document /\ b'.baseline = y.baseline
        /\ \A f : Has(b', f) <=> Has(y, f)
    BY <1>1, ShapedMembers
  <1>4. Queued(replies') \subseteq Queued(replies) /\ claims' = claims /\ archive' = archive
    BY <1>1, RepliesLeft DEF Handles
  <1>5. /\ ~Has(b, "writing_response") /\ ~Has(b, "quarantined")
        /\ Never(io, "respond") /\ Never(replies, "respond")
    BY <1>2, MembersFull DEF LInv, WorkInv, Fenced, QueueInv, RespondOnce
  <1>6. \A t \in Queued(replies') : t.op # "respond" /\ t.op # "read"
    <2>1. Quiet(Tail(replies))
      <3>1. Once(replies) /\ replies \in Seq(AnyReply) /\ replies # <<>>
        BY <1>2, QueueTypes DEF IInv, ReadOnce
      <3> QED
        BY <1>2, <3>1, TailReads
    <2> QED
      BY <1>2, <1>4, <1>5, <2>1 DEF Quiet, IsRead, Queued, Never
  <1>7. ASSUME b.baseline # Nil, b'.baseline = b.baseline, b'.document = b.document,
               Has(b', "busy") => r.data # Nil /\ r.fresh /\ b'.id = r.data.id,
               \A t \in Queued(io') :
                 \/ t \in Queued(io)
                 \/ t.op # "respond"
                 \/ t.answer.id = r.data.id /\ r.data # Nil /\ (r.fresh \/ r.cached = Nil)
        PROVE  TakenFrom(b.baseline.by)'
    <2>0. PICK i : i = b.baseline.by
      OBVIOUS
    <2>1. TakenFrom(i)
      BY <1>7, <2>0 DEF BaseInv
    <2> HIDE DEF r
    <2>2. archive[i] # Nil
      BY <1>2, <2>1, BaseReading
    <2>3. r.data # Nil /\ (r.fresh \/ r.cached = Nil) => r.data.id # i
      BY <1>2, <2>1 DEF TakenFrom
    <2>4. TakenFrom(i)'
      BY <1>4, <1>7, <2>1, <2>2, <2>3, BaseKept
    <2> QED
      BY <1>7, <2>0, <2>4 DEF TakenFrom
  <1>8. CASE r.data # Nil /\ r.fresh
    <2>1. PICK z : Begins(b, r.data, z, E) /\ Outcome(z, y, E)
      BY <1>1, <1>8 DEF Arrived
    <2>2. z.id = r.data.id /\ y.id = z.id /\ BaselineKept(b, z)
      BY <2>1 DEF Begins, Outcome, SameRequest
    <2>3. \A t \in Queued(io') :
            \/ t \in Queued(io)
            \/ t.op = "stop" /\ t.reason \in E
            \/ t.op = "respond" /\ Answers(z, y, E) /\ IsAnswer(z, y, t.answer, E)
      BY <1>1, <2>1, HandledPosts
    <2>4. CASE BaselineKept(z, y)
      <3>1. b.baseline # Nil /\ b'.baseline = b.baseline /\ b'.document = b.document
        BY <1>3, <2>2, <2>4 DEF BaselineKept
      <3>2. \A t \in Queued(io') : \/ t \in Queued(io)
                                   \/ t.op # "respond"
                                   \/ t.answer.id = r.data.id
        BY <2>2, <2>3 DEF IsAnswer
      <3> HIDE DEF r
      <3> QED
        BY <1>3, <1>7, <1>8, <2>1, <2>2, <3>1, <3>2
    <2>5. CASE ~BaselineKept(z, y)
      <3>1. Answers(z, y, E)
        BY <2>1, <2>5 DEF Outcome, Going, Sends
      <3>2. ~Has(y, "busy") /\ Has(y, "writing_response") /\ y.baseline.by = z.id
        BY <2>5, <3>1 DEF Answers, IsAnswer
      <3>0. PICK i : i = r.data.id
        OBVIOUS
      <3>3. i \in claims /\ archive[i] = Nil
        BY <1>2, <1>8, <3>0 DEF LInv, QueueInv, FreshOK, Fresh, Unanswered
      <3>4. \A t \in Queued(io') : t.op = "respond" =>
              t.answer.id = i /\ t.answer.doc = b'.document
        BY <1>3, <1>5, <2>2, <2>3, <2>5, <3>0 DEF IsAnswer, Never
      <3>5. /\ i \in claims' /\ ~Has(b', "busy") /\ archive'[i] = Nil
            /\ Has(b', "writing_response") /\ b'.baseline.by = i
        BY <1>3, <1>4, <2>2, <3>0, <3>2, <3>3
      <3>6. TakenFrom(i)'
        BY <1>6, <3>4, <3>5, BaseTaken
      <3> QED
        BY <3>5, <3>6 DEF TakenFrom
    <2> QED
      BY <2>4, <2>5
  <1>9. CASE r.data = Nil \/ ~r.fresh
    <2>1. /\ Rests(b, y, E)
          /\ \A t \in Queued(io') :
               \/ t \in Queued(io)
               \/ t.op = "stop" /\ t.reason \in E
               \/ t.op = "rewrite"
               \/ /\ t.op = "respond" /\ ~t.answer.persisted /\ t.answer.id = r.data.id
                  /\ r.data # Nil /\ ~r.fresh /\ r.cached = Nil
      BY <1>1, <1>9, RestsPosts
    <2> HIDE DEF r
    <2>2. /\ ~Has(b', "busy")
          /\ b.baseline # Nil /\ b'.baseline = b.baseline /\ b'.document = b.document
      BY <1>3, <2>1 DEF Rests, BaselineKept
    <2>3. \A t \in Queued(io') :
            \/ t \in Queued(io)
            \/ t.op # "respond"
            \/ t.answer.id = r.data.id /\ r.data # Nil /\ (r.fresh \/ r.cached = Nil)
      BY <2>1
    <2> QED
      BY <1>7, <2>2, <2>3
  <1> QED
    BY <1>8, <1>9

LEMMA BaseQuietly ==
  ASSUME IInv, BaseInv, Quietly
  PROVE  BaseInv'
  <1> SUFFICES ASSUME b'.baseline # Nil
               PROVE  TakenFrom(b.baseline.by)'
    BY DEF BaseInv
  <1>1. PICK i : i = b.baseline.by
    OBVIOUS
  <1>2. /\ b'.baseline = b.baseline /\ b'.document = b.document /\ b'.id = b.id
        /\ Has(b', "busy") <=> Has(b, "busy")
        /\ Has(b, "quarantined") => Has(b', "quarantined")
        /\ Has(b, "writing_response") /\ ~Has(b', "writing_response") =>
             Has(b', "quarantined") \/ \E t \in Queued(replies) : t.op = "respond" /\ t.stored
        /\ \A t \in Queued(io') : t \in Queued(io) \/ t.op \in {"read", "readstop", "cancel"}
        /\ Queued(replies') \subseteq Queued(replies) /\ claims' = claims /\ archive' = archive
    BY DEF Quietly, Idles, SameFields, diskVars
  <1>3. TakenFrom(i)
    BY <1>1, <1>2 DEF BaseInv
  <1>4. archive[i] = Nil /\ ~Has(b', "quarantined") =>
          /\ ~Has(b, "quarantined") /\ Has(b', "writing_response")
          /\ \A t \in Queued(io') : t.op = "respond" => t \in Queued(io)
    BY <1>2, <1>3 DEF TakenFrom
  <1>5. \A t \in Queued(io') : t \in Queued(io) \/ t.op # "respond" \/ t.answer.id # i
    BY <1>2
  <1>6. Has(b', "busy") => b'.id # i
    BY <1>2, <1>3 DEF TakenFrom
  <1>7. TakenFrom(i)'
    BY <1>2, <1>3, <1>4, <1>5, <1>6, BaseKept
  <1> QED
    BY <1>1, <1>2, <1>7 DEF TakenFrom

LEMMA BaseIo ==
  ASSUME Nil \notin Answer, LInv, IInv, BaseInv, IoSequence
  PROVE  BaseInv'
  <1>1. b' = b
    BY ElsewhereIdles
  <1> SUFFICES ASSUME b.baseline # Nil
               PROVE  TakenFrom(b.baseline.by)'
    BY <1>1 DEF BaseInv
  <1>2. PICK i : i = b.baseline.by
    OBVIOUS
  <1>3. TakenFrom(i)
    BY <1>2 DEF BaseInv
  <1> SUFFICES TakenFrom(i)'
    BY <1>1, <1>2 DEF TakenFrom
  <1>4. ASSUME NEW op, Task(op)
        PROVE  Queued(io') \subseteq Queued(io) /\ Head(io) \in Queued(io) /\ Head(io).op = op
    BY <1>4, TaskTaken
  <1>5. ASSUME NEW e, replies' = Append(replies, e)
        PROVE  Queued(replies') = Queued(replies) \cup {e}
    BY <1>5, ReplyQueued
  <1>6. ASSUME Queued(io') \subseteq Queued(io), claims \subseteq claims', archive' = archive,
               \A t \in Queued(replies') :
                 \/ t \in Queued(replies)
                 \/ t.op # "respond" /\ (t.op # "read" \/ t.data = Nil \/ t.data.id # i)
                 \/ t.op = "read" /\ ~t.fresh /\ t.cached # Nil
        PROVE  TakenFrom(i)'
    BY <1>1, <1>3, <1>6 DEF TakenFrom
  <1>7. ASSUME NEW outcome \in IoOutcomes, NEW stopOutcome \in IoOutcomes,
               ReadRequest(outcome, stopOutcome)
        PROVE  TakenFrom(i)'
    <2> DEFINE id == request.id
               e == [op |-> "read", data |-> request, stop |-> Stop(stopOutcome),
                     fresh |-> request # Nil /\ ClaimIsFresh(claims, id, outcome),
                     cached |-> IF request # Nil THEN ClaimedResponse(claims, archive, id) ELSE Nil]
    <2>1. /\ replies' = Append(replies, e) /\ e.op = "read" /\ e.data = request
          /\ e.fresh <=> (request # Nil /\ ClaimIsFresh(claims, id, outcome))
          /\ request # Nil => e.cached = ClaimedResponse(claims, archive, id)
      BY <1>7 DEF ReadRequest
    <2> HIDE DEF e
    <2>2. /\ Task("read") /\ archive' = archive /\ claims \subseteq claims'
      BY <1>7 DEF ReadRequest, ClaimsAfter
    <2>3. Has(b, "reading")
      <3>1. ~Quiet(io)
        <4>1. Head(io) \in Queued(io) /\ Head(io).op = "read"
          BY <1>4, <2>2
        <4> QED
          BY <4>1 DEF Queued, Quiet, IsRead
      <3> QED
        BY <3>1 DEF IInv, ReadOnce
    <2>4. archive[i] # Nil /\ i \in claims
      BY <1>3, <2>3, BaseReading DEF TakenFrom
    <2>5. e.data = Nil \/ e.data.id # i \/ (~e.fresh /\ e.cached # Nil)
      BY <2>1, <2>4 DEF ClaimIsFresh, ClaimedResponse
    <2> QED
      BY <1>4, <1>5, <1>6, <2>1, <2>2, <2>5
  <1>8. ASSUME NEW outcome \in IoOutcomes, ReadStop(outcome)
        PROVE  TakenFrom(i)'
    <2> DEFINE e == [op |-> "readstop", stop |-> Stop(outcome)]
    <2>1. replies' = Append(replies, e) /\ e.op = "readstop"
      BY <1>8 DEF ReadStop
    <2> HIDE DEF e
    <2>2. Task("readstop") /\ claims' = claims /\ archive' = archive
      BY <1>8 DEF ReadStop
    <2> QED
      BY <1>4, <1>5, <1>6, <2>1, <2>2
  <1>9. ASSUME NEW outcome \in IoOutcomes, StoreStop(outcome)
        PROVE  TakenFrom(i)'
    <2>1. Task("stop") /\ claims' = claims /\ archive' = archive /\ replies' = replies
      BY <1>9 DEF StoreStop
    <2> QED
      BY <1>4, <1>6, <2>1
  <1>10. ASSUME ReadWaitCancellation
         PROVE  TakenFrom(i)'
    <2> DEFINE id == Head(io).id
               found == {c \in cancelFiles : c.id = id}
               e == [op |-> "cancel", id |-> id,
                     data |-> IF found = {} THEN Nil ELSE CHOOSE c \in found : TRUE]
    <2>1. replies' = Append(replies, e) /\ e.op = "cancel"
      BY <1>10 DEF ReadWaitCancellation
    <2> HIDE DEF e, id, found
    <2>2. Task("cancel") /\ claims' = claims /\ archive' = archive
      BY <1>10 DEF ReadWaitCancellation
    <2> QED
      BY <1>4, <1>5, <1>6, <2>1, <2>2
  <1>11. ASSUME WriteResponse
         PROVE  TakenFrom(i)'
    <2>1. Task("rewrite") /\ claims' = claims /\ archive' = archive /\ replies' = replies
      BY <1>11 DEF WriteResponse
    <2> QED
      BY <1>4, <1>6, <2>1
  <1>12. ASSUME NEW outcome \in IoOutcomes, WriteDurableResponse(outcome)
         PROVE  TakenFrom(i)'
    <2> DEFINE t == Head(io)
               a == t.answer
               stored == Stored(a, outcome)
               e == [op |-> "respond", stored |-> stored]
    <2>1. /\ replies' = Append(replies, e) /\ e.op = "respond" /\ e.stored = stored
          /\ claims' = claims
          /\ archive' = IF stored THEN [archive EXCEPT ![a.id] = a] ELSE archive
      BY <1>12 DEF WriteDurableResponse
    <2> HIDE DEF e
    <2>2. /\ t \in Queued(io) /\ t.op = "respond" /\ Queued(io') \subseteq Queued(io)
      BY <1>4, <1>12 DEF WriteDurableResponse
    <2>3. Queued(replies') = Queued(replies) \cup {e}
      BY <1>5, <2>1
    <2>4. /\ stored => archive[a.id] = Nil
          /\ a \in Answer
      <3>1. t \in AnyTask
        BY <2>2, QueueTypes, ElementOfSeq DEF Queued
      <3> QED
        BY <2>2, <3>1 DEF Stored, CanStoreResponse, AnyTask, HandlerTask
    <2>5. archive \in [Ids -> Answer \cup {Nil}] /\ a.id \in Ids
      BY <2>4 DEF IInv, DiskType, Answer
    <2> HIDE DEF stored, a
    <2>6. archive'[i] # Nil => archive'[i].doc = b.document
      BY <1>3, <2>1, <2>2, <2>5 DEF TakenFrom, a
    <2>7. archive'[i] = Nil => archive[i] = Nil /\ (stored => a.id # i)
      BY <2>1, <2>4, <2>5
    <2>8. archive'[i] = Nil /\ ~Has(b, "quarantined") => ~stored
      BY <1>3, <2>2, <2>7 DEF TakenFrom, a
    <2> QED
      BY <1>1, <1>3, <2>1, <2>2, <2>3, <2>6, <2>7, <2>8 DEF TakenFrom
  <1> QED
    BY <1>7, <1>8, <1>9, <1>10, <1>11, <1>12 DEF IoSequence

LEMMA BaseStep ==
  ASSUME Nil \notin Answer, LInv, IInv, BaseInv, [Next]_vars
  PROVE  BaseInv'
  <1> DEFINE E == ErrorCode
  <1>1. /\ Acceptable(E) /\ PromptsAre(E) /\ "user_cancelled" \in E /\ "wait_cancelled" \in E
        /\ Ordinary \subseteq E /\ NoError \notin E
        /\ StopReasons \cup {Unreadable} \subseteq E
    BY AnyCause, MembersSilent
  <1>2. CASE \/ Poll \/ ResponseWritten \/ Expires \/ \E d \in dialogs : LateReply(d)
             \/ OfferWaitCancel \/ Renderer \/ \E t \in Tabs : ChangePage(t)
             \/ UNCHANGED vars
    <2>1. Quietly
      BY <1>2, QuietSteps
    <2> QED
      BY <2>1, BaseQuietly
  <1>3. CASE IoSequence
    BY <1>3, BaseIo
  <1>4. CASE Mailbox
    <2>1. UNCHANGED <<b, io, replies, archive, claims>>
      BY <1>4 DEF Mailbox, Publish, Republish, ClientCancelsWait, ClientStops, bridgeVars
    <2> QED
      BY <2>1 DEF BaseInv, TakenFrom
  <1>5. CASE Crash
    <2>1. b'.baseline = Nil
      BY <1>5 DEF Crash, InitBridge
    <2> QED
      BY <2>1 DEF BaseInv
  <1>6. CASE ReceiveRequest
    <2>1. Head(replies).stop = NoError \/ Head(replies).stop \in E
      <3>1. Head(replies).stop \in Reason
        BY <1>6, HeadOfReplies DEF ReceiveRequest, Reply, AnyReply, ReadReply
      <3> QED
        BY <1>1, <3>1 DEF Reason
    <2> HIDE DEF E
    <2>2. Arrives(E)
      BY <1>1, <1>6, <2>1, ReceiveRequestArrives
    <2> QED
      BY <2>2, BaseArrives DEF E
  <1>7. CASE \/ ReceiveStop \/ ReceiveCancel \/ \E r \in results : DeliverResult(r)
             \/ \E accepted \in BOOLEAN : AnswerPrompt(accepted)
             \/ DeadlineFires \/ WaitLimitFires \/ WakeupFires \/ RunWaitCancel
             \/ \E t \in Tabs, o \in Origins \cup {"other"}, same \in BOOLEAN :
                  NavigateTab(t, o, same)
             \/ \E t \in Tabs : CloseTab(t) \/ ActivateTab(t)
             \/ StopLoading \/ UserInteracts \/ AccessibilityEvent
    <2> HIDE DEF E
    <2>1. Handled(E)
      BY <1>1, <1>7, AnyHandled
    <2>2. GoesOn(E)
      BY <1>1, <2>1, HandledGoesOn
    <2> QED
      BY <2>2, BaseGoesOn DEF E
  <1> QED
    BY <1>2, <1>3, <1>4, <1>5, <1>6, <1>7 DEF Next, UIThread, Window

(* References and deltas are resolved against a snapshot of the document   *)
(* the bridge observes now: a navigation or an interruption between the    *)
(* snapshot and the next request has taken the baseline away, and its      *)
(* request cannot come back and be answered anew (BaselineIsCurrent;       *)
(* ResetDocument, Observed).  Nil, the absence of a value, is no answer.   *)
THEOREM BaselineCurrent ==
  ASSUME Nil \notin Answer
  PROVE  Spec => []BaselineIsCurrent
  <1>1. Init => BaseInv
    BY DEF Init, InitBridge, BaseInv
  <1>2. LInv /\ IInv /\ BaseInv /\ [Next]_vars => BaseInv'
    BY BaseStep
  <1>3. BaseInv => BaselineIsCurrent
    <2> SUFFICES ASSUME BaseInv, b.baseline # Nil
                 PROVE  /\ archive[b.baseline.by] # Nil
                             => archive[b.baseline.by].doc = b.document
                        /\ \A k \in DOMAIN io :
                             io[k].op = "respond" /\ io[k].answer.id = b.baseline.by
                               => io[k].answer.doc = b.document
      BY DEF BaselineIsCurrent
    <2>1. TakenFrom(b.baseline.by)
      BY DEF BaseInv
    <2> QED
      BY <2>1 DEF TakenFrom, Queued
  <1> QED
    BY <1>1, <1>2, <1>3, LedgerInductive, PTL DEF Spec

-----------------------------------------------------------------------------
(***************************************************************************)
(* Giving consent up.                                                      *)
(***************************************************************************)
Decent(x) == Shape(x) /\ x.task = [t \in Tabs |-> x.task[t]]

(* A queue without a stop. *)
NoStop(p) == \E S : p \in Seq(S) /\ \A t \in S : t.op # "stop"

(* Who posts a stop is stopped. *)
Owned(x) == x.stopped = NoError => NoStop(x.post)

(* y holds no consent that x does not hold. *)
Cedes(x, y) ==
  /\ Decent(y)
  /\ y.id = x.id /\ y.req = x.req /\ y.tab = x.tab /\ y.granted = x.granted
  /\ Has(y, "attached") => Has(x, "attached")
  /\ Has(y, "preflight") => Has(x, "preflight")
  /\ y.authorized \subseteq x.authorized
  /\ \A t \in Tabs : y.task[t] \in {x.task[t], Nil}
  /\ Owned(x) => Owned(y)

(* And it sends nothing. *)
Narrows(x, y) == Cedes(x, y) /\ y.sent = x.sent

LEMMA NarrowsSelf ==
  ASSUME NEW x, Decent(x)
  PROVE  Narrows(x, x)
  BY DEF Narrows, Cedes

LEMMA NarrowsAgain ==
  ASSUME NEW x, NEW z, NEW y, Narrows(x, z), Narrows(z, y)
  PROVE  Narrows(x, y)
  BY DEF Narrows, Cedes

(* The members that say nothing of consent. *)
Apart(x, y) ==
  /\ Decent(y)
  /\ y.id = x.id /\ y.req = x.req /\ y.tab = x.tab /\ y.granted = x.granted
  /\ y.authorized = x.authorized /\ y.task = x.task
  /\ y.sent = x.sent /\ y.post = x.post /\ y.stopped = x.stopped
  /\ Has(y, "attached") => Has(x, "attached")
  /\ Has(y, "preflight") => Has(x, "preflight")

LEMMA ApartNarrows ==
  ASSUME NEW x, NEW y, Apart(x, y)
  PROVE  Narrows(x, y)
  BY DEF Apart, Narrows, Cedes, Owned

(* Flags, but for a preflight and the attachment, say nothing of consent.  *)
LEMMA FlagsApart ==
  ASSUME NEW x, Decent(x), NEW flags
  PROVE  /\ Apart(x, Drop(x, flags))
         /\ "attached" \notin flags /\ "preflight" \notin flags => Apart(x, Raise(x, flags))
  <1>1. /\ Shape(Drop(x, flags)) /\ SameFields(x, Drop(x, flags))
        /\ Drop(x, flags).on = x.on \ flags
    BY DEF Decent, Drop, Shape, Field, SameFields
  <1>2. /\ Shape(Raise(x, flags)) /\ SameFields(x, Raise(x, flags))
        /\ Raise(x, flags).on = x.on \cup flags
    BY DEF Decent, Raise, Shape, Field, SameFields
  <1>3. Apart(x, Drop(x, flags))
    <2> DEFINE y == Drop(x, flags)
    <2>1. Shape(y) /\ SameFields(x, y) /\ y.on = x.on \ flags
      BY <1>1
    <2> HIDE DEF y
    <2>2. Apart(x, y)
      BY <2>1 DEF Apart, SameFields, Has, Decent
    <2> QED
      BY <2>2 DEF y
  <1>4. ASSUME "attached" \notin flags, "preflight" \notin flags
        PROVE  Apart(x, Raise(x, flags))
    <2> DEFINE y == Raise(x, flags)
    <2>1. Shape(y) /\ SameFields(x, y) /\ y.on = x.on \cup flags
      BY <1>2
    <2> HIDE DEF y
    <2>2. Apart(x, y)
      BY <1>4, <2>1 DEF Apart, SameFields, Has, Decent
    <2> QED
      BY <2>2 DEF y
  <1> QED
    BY <1>3, <1>4

(* A queue with one more task. *)
LEMMA AppendNoStop ==
  ASSUME NEW p, NEW e
  PROVE  /\ NoStop(p) /\ e.op # "stop" => NoStop(Append(p, e))
         /\ NoStop(<<>>)
  <1>1. ASSUME NoStop(p), e.op # "stop"
        PROVE  NoStop(Append(p, e))
    <2>1. PICK S : p \in Seq(S) /\ \A t \in S : t.op # "stop"
      BY <1>1 DEF NoStop
    <2> DEFINE T == S \cup {e}
    <2>2. p \in Seq(T)
      BY <2>1
    <2>3. Append(p, e) \in Seq(T)
      BY <2>2
    <2>4. \A t \in T : t.op # "stop"
      BY <1>1, <2>1
    <2> QED
      BY <2>3, <2>4 DEF NoStop
  <1>2. <<>> \in Seq({}) /\ \A t \in {} : t.op # "stop"
    OBVIOUS
  <1> QED
    BY <1>1, <1>2 DEF NoStop

(* A stop takes all consent away. *)
LEMMA StopNarrows ==
  ASSUME NEW x, Decent(x), NEW r, r # NoError
  PROVE  /\ Narrows(x, StopSession(x, r)) /\ StopSession(x, r).stopped # NoError
         /\ StopSession(x, r).prompt = x.prompt
         /\ StopSession(x, r).command = x.command
  <1> DEFINE p == IF r # Unreadable /\ x.id # Nil
                  THEN Append(x.post, [op |-> "stop", reason |-> r]) ELSE x.post
             y == [x EXCEPT
                     !.stopped = r, !.on = @ \ {"attached"}, !.baseline = Nil,
                     !.authorized = {}, !.task = [t \in Tabs |-> Nil],
                     !.post = IF r # Unreadable /\ x.id # Nil
                              THEN Append(@, [op |-> "stop", reason |-> r]) ELSE @]
  <1>1. CASE x.stopped # NoError
    BY <1>1, NarrowsSelf DEF StopSession
  <1>2. CASE x.stopped = NoError
    <2>1. StopSession(x, r) = y
      BY <1>2 DEF StopSession
    <2>2. /\ Shape(y) /\ y.id = x.id /\ y.req = x.req /\ y.tab = x.tab
          /\ y.granted = x.granted /\ y.on = x.on \ {"attached"} /\ y.authorized = {}
          /\ y.task = [t \in Tabs |-> Nil] /\ y.sent = x.sent /\ y.stopped = r
          /\ y.prompt = x.prompt /\ y.command = x.command
      BY DEF Decent, Shape, Field
    <2> HIDE DEF y
    <2>3. Narrows(x, y)
      BY <2>2 DEF Narrows, Cedes, Decent, Has, Owned
    <2> QED
      BY <2>1, <2>2, <2>3
  <1> QED
    BY <1>1, <1>2

LEMMA ClosePromptApart ==
  ASSUME NEW x, Decent(x)
  PROVE  Apart(x, ClosePrompt(x))
  <1> DEFINE y == [x EXCEPT !.prompt = Nil, !.closed = @ \cup {x.prompt}]
  <1>1. Apart(x, y) /\ Apart(x, x)
    BY DEF Decent, Shape, Field, Apart, Has
  <1> QED
    BY <1>1 DEF ClosePrompt

(* An answer changes no consent. *)
LEMMA FinishNarrows ==
  ASSUME NEW x, Decent(x), NEW e, NEW doc, NEW partial
  PROVE  Narrows(x, Finish(x, e, doc, partial))
  <1> DEFINE y == ClosePrompt(x)
             a == [op |-> "respond", answer |-> Response(x, e, doc, partial)]
             z == Finish(x, e, doc, partial)
  <1>1. Apart(x, y) /\ Decent(y)
    BY ClosePromptApart DEF Apart
  <1>2. a.op # "stop"
    OBVIOUS
  <1>3. z = [y EXCEPT
               !.on = (@ \ {"busy", "preflight", "waiting", "wait_limit_armed",
                            "wait_wakeup", "navigating", "deadline"})
                      \cup {"writing_response"},
               !.post = Append(@, a)]
    BY DEF Finish
  <1> HIDE DEF y, a, z
  <1>4. /\ Shape(z) /\ z.id = y.id /\ z.req = y.req /\ z.tab = y.tab /\ z.granted = y.granted
        /\ z.authorized = y.authorized /\ z.task = y.task /\ z.sent = y.sent
        /\ z.stopped = y.stopped /\ z.post = Append(y.post, a)
        /\ Has(z, "attached") => Has(y, "attached")
        /\ ~Has(z, "preflight")
    BY <1>1, <1>3 DEF Decent, Shape, Field, Has
  <1>5. Narrows(y, z)
    BY <1>1, <1>2, <1>4, AppendNoStop DEF Narrows, Cedes, Decent, Owned
  <1>6. Narrows(x, z)
    BY <1>1, <1>5, ApartNarrows, NarrowsAgain
  <1> QED
    BY <1>6 DEF z

LEMMA ErrorNarrows ==
  ASSUME NEW x, Decent(x), NEW e
  PROVE  Narrows(x, Error(x, e))
  <1> DEFINE s == IF e \in {"user_cancelled", "user_takeover", "client_cancelled"}
                  THEN StopSession(x, e) ELSE x
             y == ClosePrompt(s)
             d == [y EXCEPT !.deferred = IF @ = NoError THEN e ELSE @,
                            !.on = @ \ {"deadline"}]
             f == Finish(s, e, 0, s.deferred # NoError)
  <1>1. Narrows(x, s)
    <2>1. e \in {"user_cancelled", "user_takeover", "client_cancelled"} => e # NoError
      BY ErrorCodes DEF StopReasons, ErrorCode
    <2> QED
      BY <2>1, StopNarrows, NarrowsSelf
  <1>2. Error(x, e) \in {s, d, f}
    BY DEF Error
  <1> HIDE DEF s
  <1>3. Decent(s)
    BY <1>1 DEF Narrows, Cedes
  <1>4. Narrows(s, f)
    BY <1>3, FinishNarrows
  <1>5. Apart(s, y)
    BY <1>3, ClosePromptApart
  <1> HIDE DEF y, f
  <1>6. Apart(y, d)
    BY <1>5 DEF Apart, Decent, Shape, Field, Has
  <1> HIDE DEF d
  <1>7. Narrows(s, d)
    BY <1>5, <1>6, ApartNarrows, NarrowsAgain
  <1> QED
    BY <1>1, <1>2, <1>4, <1>7, NarrowsAgain

-----------------------------------------------------------------------------
(***************************************************************************)
(* Scripts.                                                                *)
(***************************************************************************)

(* The script of the request in hand. *)
ScriptOf(x) ==
  [id |-> x.id, doc |-> x.document, tab |-> x.tab, command |-> x.command,
   preflight |-> Has(x, "preflight"), mute |-> FALSE]

(* No script of the handler changes a page. *)
Mild(x) == \A s \in x.sent : ~Acts(s)

(* A request whose script changes no page. *)
Timid(x) == x.command \notin Acting \/ Has(x, "preflight")

(* Execute changes no consent, and sends the script of the request or none. *)
LEMMA ExecuteCedes ==
  ASSUME NEW x, Decent(x)
  PROVE  /\ Cedes(x, Execute(x))
         /\ \/ Execute(x).sent = x.sent
            \/ /\ Execute(x).sent = x.sent \cup {ScriptOf(x)}
               /\ Execute(x).document = x.document
  <1> DEFINE y == Drop(x, {"wait_wakeup"})
             z == IF Has(x, "waiting") THEN Drop(y, {"wait_dirty"}) ELSE y
             r == Raise(z, {"renderer_pending"})
             w == [r EXCEPT !.sent = @ \cup {ScriptOf(x)}]
             d == Raise(x, {"wait_dirty"})
  <1>1. Execute(x) \in {x, d, Error(y, "request_expired"), Error(y, "ineligible_tab"),
                        Error(y, "tab_changed"), w}
    BY DEF Execute, ScriptOf
  <1>2. Apart(x, d) /\ Narrows(x, d) /\ Narrows(x, x)
    BY FlagsApart, ApartNarrows, NarrowsSelf
  <1> HIDE DEF d
  <1>3. Apart(x, y) /\ Decent(y)
    BY FlagsApart DEF Apart
  <1>4. y.document = x.document
    BY DEF Drop, Decent, Shape, Field
  <1> HIDE DEF y
  <1>5. \A e : Narrows(x, Error(y, e))
    BY <1>3, ErrorNarrows, ApartNarrows, NarrowsAgain
  <1>6. Apart(x, z) /\ Decent(z) /\ z.document = x.document
    <2>1. Apart(y, Drop(y, {"wait_dirty"})) /\ Drop(y, {"wait_dirty"}).document = y.document
      BY <1>3, FlagsApart DEF Drop, Decent, Shape, Field
    <2> QED
      BY <1>3, <1>4, <2>1 DEF Apart
  <1> HIDE DEF z
  <1>7. Apart(x, r) /\ Decent(r) /\ r.document = x.document
    <2>1. Apart(z, r) /\ r.document = z.document
      BY <1>6, FlagsApart DEF Raise, Decent, Shape, Field
    <2> QED
      BY <1>6, <2>1 DEF Apart
  <1> HIDE DEF r
  <1>8. Cedes(x, w) /\ w.sent = x.sent \cup {ScriptOf(x)} /\ w.document = x.document
    <2>1. /\ Shape(w) /\ w.id = r.id /\ w.req = r.req /\ w.tab = r.tab /\ w.granted = r.granted
          /\ w.on = r.on /\ w.authorized = r.authorized /\ w.task = r.task
          /\ w.stopped = r.stopped /\ w.post = r.post /\ w.document = r.document
          /\ w.sent = r.sent \cup {ScriptOf(x)}
      BY <1>7 DEF Decent, Shape, Field
    <2> HIDE DEF w
    <2> QED
      BY <1>7, <2>1 DEF Apart, Cedes, Decent, Has, Owned
  <1> HIDE DEF w
  <1> QED
    BY <1>1, <1>2, <1>5, <1>8 DEF Narrows

LEMMA MildScript ==
  ASSUME NEW x, Timid(x)
  PROVE  ~Acts(ScriptOf(x))
  BY DEF Timid, Acts, ScriptOf

(* A wait is only reminded. *)
LEMMA WakeWaitNarrows ==
  ASSUME NEW x, Decent(x)
  PROVE  Narrows(x, WakeWait(x))
  <1>1. /\ Apart(x, Raise(x, {"wait_dirty"})) /\ Apart(x, Raise(x, {"wait_wakeup"}))
    BY FlagsApart
  <1> QED
    BY <1>1, ApartNarrows, NarrowsSelf DEF WakeWait

(* Where an early return is taken, it is an Error. *)
LEMMA CheckedEnds ==
  ASSUME NEW x, NEW y, NEW checks, NEW n \in 1..4, DOMAIN checks = 1..n
  PROVE  \/ Checked(x, checks, y) = y /\ \A i \in 1..n : ~checks[i][1]
         \/ \E e : Checked(x, checks, y) = Error(x, e)
  <1>1. CASE \A i \in 1..n : ~checks[i][1]
    BY <1>1 DEF Checked
  <1>2. CASE \E i \in 1..n : checks[i][1]
    BY <1>2, CheckedFails
  <1> QED
    BY <1>1, <1>2

-----------------------------------------------------------------------------
(***************************************************************************)
(* What consent stands for.                                                *)
(***************************************************************************)

(* The attached tab is granted and open, consent is for a granted tab with *)
(* a page to work on, and rules are for the origin a granted tab shows.    *)
Consent(x, pg) ==
  /\ Has(x, "attached") => x.tab \in x.granted /\ pg[x.tab] # "closed"
  /\ \A t \in x.authorized : t \in x.granted /\ pg[t] \in Origins
  /\ \A t \in Tabs :
       x.task[t] # Nil /\ pg[t] # "closed" => t \in x.granted /\ x.task[t].origin = pg[t]

(* A preflight asks for something. *)
Aimed(x) == Has(x, "preflight") => x.req.call.acts # {}

Sober(x) == Decent(x) /\ Consent(x, page) /\ Aimed(x) /\ Owned(x)
Prudent(x) == Sober(x) /\ Mild(x)

LEMMA ConsentCedes ==
  ASSUME NEW x, NEW y, Cedes(x, y), NEW pg, Consent(x, pg)
  PROVE  Consent(y, pg)
  BY DEF Cedes, Consent

LEMMA SoberCedes ==
  ASSUME NEW x, NEW y, Sober(x), Cedes(x, y)
  PROVE  Sober(y)
  BY ConsentCedes DEF Sober, Cedes, Aimed

LEMMA PrudentNarrows ==
  ASSUME NEW x, NEW y, Prudent(x), Narrows(x, y)
  PROVE  Prudent(y)
  BY SoberCedes DEF Prudent, Narrows, Mild

LEMMA PrudentApart ==
  ASSUME NEW x, NEW y, Prudent(x), Apart(x, y)
  PROVE  Prudent(y)
  BY ApartNarrows, PrudentNarrows

LEMMA PrudentEnds ==
  ASSUME NEW x, Prudent(x)
  PROVE  /\ \A e : Prudent(Error(x, e))
         /\ \A e, doc, partial : Prudent(Finish(x, e, doc, partial))
         /\ Prudent(Succeed(x)) /\ Prudent(WakeWait(x))
  BY ErrorNarrows, FinishNarrows, WakeWaitNarrows, PrudentNarrows
     DEF Prudent, Sober, Succeed

LEMMA ExecuteSober ==
  ASSUME NEW x, Prudent(x)
  PROVE  /\ Sober(Execute(x))
         /\ \A s \in Execute(x).sent :
              Acts(s) => ~Timid(x) /\ s = ScriptOf(x) /\ s.doc = Execute(x).document
  <1> DEFINE y == Execute(x)
  <1>1. /\ Cedes(x, y)
        /\ y.sent = x.sent \/ (y.sent = x.sent \cup {ScriptOf(x)} /\ y.document = x.document)
    BY ExecuteCedes DEF Prudent, Sober
  <1>2. ScriptOf(x).doc = x.document
    BY DEF ScriptOf
  <1> HIDE DEF y
  <1>3. Sober(y)
    BY <1>1, SoberCedes DEF Prudent
  <1>4. \A s \in y.sent : Acts(s) => ~Timid(x) /\ s = ScriptOf(x) /\ s.doc = y.document
    BY <1>1, <1>2, MildScript DEF Prudent, Mild
  <1> QED
    BY <1>3, <1>4 DEF y

LEMMA ExecutePrudent ==
  ASSUME NEW x, Prudent(x), Timid(x)
  PROVE  Prudent(Execute(x))
  BY ExecuteSober DEF Prudent, Mild

(* What a handler may send that acts: a script of its request, in the page *)
(* the tab in front shows.                                                 *)
Vetted(x, y) ==
  \A s \in y.sent : Acts(s) =>
    /\ s.id = x.id /\ s.tab = x.tab /\ s.doc = y.document
    /\ Eligible(x.tab) /\ active = x.tab

LEMMA MildVetted ==
  ASSUME NEW x, NEW y, Prudent(y)
  PROVE  Sober(y) /\ Mild(y) /\ Vetted(x, y)
  BY DEF Prudent, Mild, Vetted

(* The tab just approved is granted, for the page it shows. *)
LEMMA GrantPrudent ==
  ASSUME NEW x, Prudent(x), Eligible(x.tab)
  PROVE  LET y == [Grant(Raise(x, {"attached"})) EXCEPT !.command = "observe"]
         IN  Prudent(y) /\ Timid(y)
  <1> DEFINE r == Raise(x, {"attached"})
             rules == x.req.call.rules
             task == IF rules = Nil THEN x.task[x.tab]
                     ELSE [origin |-> page[x.tab], rules |-> rules]
             g == Grant(r)
             y == [g EXCEPT !.command = "observe"]
  <1>1. Decent(x) /\ Consent(x, page)
    BY DEF Prudent, Sober
  <1>2. Shape(r) /\ SameFields(x, r) /\ r.on = x.on \cup {"attached"}
    BY <1>1 DEF Decent, Raise, Shape, Field, SameFields
  <1> HIDE DEF r
  <1>3. g = [r EXCEPT !.granted = @ \cup {r.tab}, !.authorized = @ \cup {r.tab},
                      !.task[r.tab] = IF r.req.call.rules = Nil THEN @
                                      ELSE [origin |-> page[r.tab], rules |-> r.req.call.rules]]
    BY DEF Grant
  <1> HIDE DEF g
  <1>4. /\ Shape(g) /\ g.granted = r.granted \cup {r.tab} /\ g.on = r.on
        /\ g.authorized = r.authorized \cup {r.tab} /\ g.tab = r.tab /\ g.req = r.req
        /\ g.id = r.id /\ g.sent = r.sent /\ g.post = r.post /\ g.stopped = r.stopped
        /\ g.task = [r.task EXCEPT ![r.tab] = IF r.req.call.rules = Nil THEN @
                                      ELSE [origin |-> page[r.tab], rules |-> r.req.call.rules]]
    BY <1>2, <1>3 DEF Shape, Field
  <1>5. /\ Shape(y) /\ y.granted = g.granted /\ y.on = g.on
        /\ y.authorized = g.authorized /\ y.tab = g.tab /\ y.req = g.req
        /\ y.id = g.id /\ y.sent = g.sent /\ y.post = g.post /\ y.stopped = g.stopped
        /\ y.task = g.task /\ y.command = "observe"
    BY <1>4 DEF Shape, Field
  <1> HIDE DEF y
  <1>6. /\ y.granted = x.granted \cup {x.tab} /\ y.on = x.on \cup {"attached"}
        /\ y.authorized = x.authorized \cup {x.tab} /\ y.tab = x.tab /\ y.req = x.req
        /\ y.sent = x.sent /\ y.post = x.post /\ y.stopped = x.stopped
        /\ y.task = [x.task EXCEPT ![x.tab] = IF rules = Nil THEN @
                                              ELSE [origin |-> page[x.tab], rules |-> rules]]
    BY <1>2, <1>4, <1>5 DEF SameFields
  <1> HIDE DEF rules
  <1>7. /\ DOMAIN y.task = Tabs /\ y.task = [t \in Tabs |-> y.task[t]]
        /\ \A t \in Tabs : y.task[t] = IF t = x.tab
                                        THEN IF rules = Nil THEN x.task[t]
                                             ELSE [origin |-> page[t], rules |-> rules]
                                        ELSE x.task[t]
    BY <1>1, <1>6 DEF Decent
  <1>8. page[x.tab] \in Origins /\ page[x.tab] # "closed"
    BY PagesAssumption DEF Eligible
  <1>9. Consent(y, page)
    <2>1. y.tab \in y.granted /\ page[y.tab] # "closed"
      BY <1>6, <1>8
    <2>2. \A t \in y.authorized : t \in y.granted /\ page[t] \in Origins
      BY <1>1, <1>6, <1>8 DEF Consent
    <2>3. ASSUME NEW t \in Tabs, y.task[t] # Nil, page[t] # "closed"
          PROVE  t \in y.granted /\ y.task[t].origin = page[t]
      BY <1>1, <1>6, <1>7, <2>3 DEF Consent
    <2> QED
      BY <2>1, <2>2, <2>3 DEF Consent
  <1>10. Aimed(y) /\ Owned(y) /\ Mild(y)
    BY <1>6 DEF Prudent, Sober, Aimed, Owned, Mild, Has
  <1>11. Prudent(y)
    BY <1>5, <1>7, <1>9, <1>10 DEF Prudent, Sober, Decent
  <1>12. Timid(y)
    BY <1>5 DEF Timid, Acting
  <1> QED
    BY <1>11, <1>12 DEF y, g, r

LEMMA ApprovedSober ==
  ASSUME NEW x, Prudent(x), Eligible(x.tab), active = x.tab
  PROVE  LET y == Approved(x)
         IN  Sober(y) /\ Vetted(x, y) /\ (Timid(x) => Mild(y))
  <1> DEFINE g == [Grant(Raise(x, {"attached"})) EXCEPT !.command = "observe"]
  <1> DEFINE y == Approved(x)
             Good == Sober(y) /\ Vetted(x, y) /\ (Timid(x) => Mild(y))
  <1>1. CASE x.command = "ask"
    <2>1. y = Succeed(x)
      BY <1>1 DEF Approved
    <2> QED
      BY <2>1, PrudentEnds, MildVetted
  <1>2. CASE x.command = "attach"
    <2>1. y = Execute(g)
      BY <1>2 DEF Approved
    <2>2. Prudent(g) /\ Timid(g)
      BY GrantPrudent
    <2> HIDE DEF g, y
    <2>3. Prudent(y)
      BY <2>1, <2>2, ExecutePrudent
    <2>4. Good
      BY <2>3, MildVetted
    <2> QED
      BY <2>4 DEF y
  <1>3. CASE x.command = "navigate"
    <2>1. y = Raise(x, {"navigating"})
      BY <1>3 DEF Approved
    <2>2. Prudent(y)
      BY <2>1, FlagsApart, PrudentApart DEF Prudent, Sober
    <2> QED
      BY <2>2, MildVetted
  <1>4. CASE x.command \notin {"ask", "attach", "navigate"}
    <2>1. y = Execute(x)
      BY <1>4 DEF Approved
    <2>2. /\ Sober(y)
          /\ \A s \in y.sent : Acts(s) => ~Timid(x) /\ s = ScriptOf(x) /\ s.doc = y.document
      BY <2>1, ExecuteSober
    <2>3. ScriptOf(x).id = x.id /\ ScriptOf(x).tab = x.tab
      BY DEF ScriptOf
    <2> HIDE DEF y
    <2>4. Good
      BY <2>2, <2>3 DEF Vetted, Mild
    <2> QED
      BY <2>4 DEF y
  <1> QED
    BY <1>1, <1>2, <1>3, <1>4

(* What the user says, or a rule says for the user. *)
LEMMA AnsweredSober ==
  ASSUME NEW x, Prudent(x), NEW id, NEW doc, NEW accepted \in BOOLEAN
  PROVE  LET y == Answered(x, id, doc, accepted)
         IN  Sober(y) /\ Vetted(x, y) /\ (Timid(x) \/ ~accepted => Mild(y))
  <1> DEFINE y == [x EXCEPT !.prompt = Nil]
             denied == IF y.command = "attach" THEN Drop(y, {"attached"}) ELSE y
             z == Answered(x, id, doc, accepted)
             c1 == Has(y, "expired")
             c2 == ~Eligible(y.tab) \/ active # y.tab
             w == Approved(y)
             checks == << <<c1, "request_expired">>, <<c2, "tab_changed">> >>
             u == Checked(y, checks, w)
  <1>1. Apart(x, y) /\ y.command = x.command /\ y.on = x.on
    BY DEF Prudent, Sober, Decent, Shape, Field, Apart, Has
  <1>2. Prudent(y) /\ y.id = x.id /\ y.tab = x.tab /\ (Timid(y) <=> Timid(x))
    BY <1>1, PrudentApart DEF Apart, Timid, Has
  <1>3. z \in {x, Error(denied, "user_cancelled"), u}
    BY DEF Answered
  <1>4. accepted \/ z \in {x, Error(denied, "user_cancelled")} \/ (c1 /\ z = u)
    BY DEF Answered
  <1>5. Prudent(x)
    OBVIOUS
  <1>6. Prudent(Error(denied, "user_cancelled"))
    <2>1. Prudent(Drop(y, {"attached"}))
      BY <1>2, FlagsApart, PrudentApart DEF Prudent, Sober
    <2> QED
      BY <1>2, <2>1, PrudentEnds
  <1> HIDE DEF y, denied
  <1>7. DOMAIN checks = 1..2 /\ checks[1][1] = c1 /\ checks[2][1] = c2
    OBVIOUS
  <1>8. \/ u = w /\ ~c1 /\ ~c2
        \/ \E e : u = Error(y, e)
    <2> HIDE DEF c1, c2, w, checks
    <2> QED
      BY <1>7, CheckedEnds
  <1>9. (\E e : u = Error(y, e)) => Prudent(u)
    BY <1>2, PrudentEnds
  <1>10. u = w /\ ~c1 /\ ~c2 => Sober(w) /\ Vetted(x, w) /\ (Timid(x) => Mild(w))
    <2>1. u = w /\ ~c1 /\ ~c2 => Sober(w) /\ Vetted(y, w) /\ (Timid(y) => Mild(w))
      BY <1>2, ApprovedSober
    <2> QED
      BY <1>2, <2>1 DEF Vetted
  <1> HIDE DEF z, u, w, c1
  <1>11. Sober(z) /\ Vetted(x, z) /\ (Timid(x) \/ ~accepted => Mild(z))
    <2>1. CASE Prudent(z)
      BY <2>1, MildVetted
    <2>2. CASE z = u /\ ~Prudent(u)
      <3>1. u = w /\ ~c1
        BY <1>8, <1>9, <2>2
      <3>2. accepted
        BY <1>4, <1>5, <1>6, <2>2, <3>1
      <3> QED
        BY <1>8, <1>9, <1>10, <2>2, <3>1, <3>2
    <2> QED
      BY <1>3, <1>5, <1>6, <2>1, <2>2
  <1> QED
    BY <1>11 DEF z

LEMMA AskPrudent ==
  ASSUME NEW x, Prudent(x), NEW shown \in BOOLEAN
  PROVE  Prudent(Ask(x, shown))
  <1> DEFINE y == [x EXCEPT !.prompt = [id |-> x.id, doc |-> x.document]]
             z == Answered(x, x.id, x.document, FALSE)
  <1>1. Apart(x, y)
    BY DEF Prudent, Sober, Decent, Shape, Field, Apart, Has
  <1>2. Prudent(y)
    BY <1>1, PrudentApart
  <1>3. Prudent(z)
    BY AnsweredSober DEF Prudent
  <1> HIDE DEF y, z
  <1>4. Prudent(Error(z, "prompt_unavailable"))
    BY <1>3, PrudentEnds
  <1> QED
    BY <1>2, <1>4 DEF Ask, y, z

(* A target is probed before it is asked for. *)
LEMMA PreflightPrudent ==
  ASSUME NEW x, Prudent(x), x.req.call.acts # {}
  PROVE  Prudent(Preflight(x))
  <1> DEFINE r == Raise(x, {"preflight"})
             c == RequestRule(x) = "deny"
             y == Execute(r)
             checks == << <<c, "permission_denied">> >>
  <1>1. Shape(r) /\ SameFields(x, r) /\ r.on = x.on \cup {"preflight"}
    BY DEF Prudent, Sober, Decent, Raise, Shape, Field, SameFields
  <1> HIDE DEF r
  <1>2. Has(r, "preflight") /\ \A f : f # "preflight" => (Has(r, f) <=> Has(x, f))
    BY <1>1 DEF Has
  <1>3. Prudent(r) /\ Timid(r)
    BY <1>1, <1>2 DEF Prudent, Sober, Decent, SameFields, Consent, Aimed, Owned, Mild, Timid
  <1>4. Prudent(y)
    BY <1>3, ExecutePrudent
  <1>5. Preflight(x) = Checked(x, checks, y)
    BY DEF Preflight, r
  <1>6. DOMAIN checks = 1..1
    OBVIOUS
  <1> HIDE DEF checks, y
  <1>7. Preflight(x) = y \/ \E e : Preflight(x) = Error(x, e)
    BY <1>5, <1>6, CheckedEnds
  <1> QED
    BY <1>4, <1>7, PrudentEnds

-----------------------------------------------------------------------------
(***************************************************************************)
(* A request, command by command.                                          *)
(***************************************************************************)

(* A new document changes no consent. *)
LEMMA ResetApart ==
  ASSUME NEW x, Decent(x)
  PROVE  Apart(x, ResetDocument(x)) /\ ResetDocument(x).command = x.command
  BY DEF ResetDocument, Apart, Decent, Shape, Field, Has

(* Consent comes back for a tab that was granted and is still open. *)
LEMMA SelectTabPrudent ==
  ASSUME NEW x, Prudent(x), NEW selected \in BOOLEAN
  PROVE  Prudent(SelectTab(x, selected))
  <1> DEFINE t == x.req.call.tab
             n == [x EXCEPT !.authorized = @ \ {t}]
             y == IF t \in x.authorized /\ ~Eligible(t) THEN n ELSE x
             r == Raise(x, {"attached"})
             d == ResetDocument(r)
             m == [d EXCEPT !.tab = t, !.command = "observe"]
             w == Execute(m)
             c1 == t \notin x.granted \/ page[t] = "closed"
             c2 == t \notin x.authorized
             c3 == ~Eligible(t)
             c4 == ~selected
             checks == << <<c1, "unknown_tab_capability">>, <<c2, "tab_permission_expired">>,
                          <<c3, "ineligible_tab">>, <<c4, "tab_selection_failed">> >>
             z == SelectTab(x, selected)
  <1>1. z = Checked(y, checks, w)
    BY DEF SelectTab
  <1>7. DOMAIN checks = 1..4 /\ checks[1][1] = c1
    OBVIOUS
  <1> HIDE DEF checks
  <1>2. Prudent(y)
    <2>1. /\ Shape(n) /\ n.on = x.on /\ n.id = x.id /\ n.req = x.req /\ n.tab = x.tab
          /\ n.granted = x.granted /\ n.authorized = x.authorized \ {t} /\ n.task = x.task
          /\ n.sent = x.sent /\ n.post = x.post /\ n.stopped = x.stopped
      BY DEF Prudent, Sober, Decent, Shape, Field
    <2> HIDE DEF n, t
    <2>2. Narrows(x, n)
      BY <2>1 DEF Narrows, Cedes, Prudent, Sober, Decent, Has, Owned
    <2> QED
      BY <2>2, PrudentNarrows
  <1>3. c1 \/ (Prudent(m) /\ Timid(m))
    <2>1. Shape(r) /\ SameFields(x, r) /\ r.on = x.on \cup {"attached"}
      BY DEF Prudent, Sober, Decent, Raise, Shape, Field, SameFields
    <2> HIDE DEF r, t
    <2>2. /\ Shape(d) /\ d.on = r.on /\ d.id = r.id /\ d.req = r.req
          /\ d.granted = r.granted /\ d.authorized = r.authorized /\ d.task = r.task
          /\ d.sent = r.sent /\ d.post = r.post /\ d.stopped = r.stopped
      BY <2>1 DEF ResetDocument, Shape, Field
    <2> HIDE DEF d
    <2>3. /\ Shape(m) /\ m.on = d.on /\ m.id = d.id /\ m.req = d.req /\ m.tab = t
          /\ m.granted = d.granted /\ m.authorized = d.authorized /\ m.task = d.task
          /\ m.sent = d.sent /\ m.post = d.post /\ m.stopped = d.stopped
          /\ m.command = "observe"
      BY <2>2 DEF Shape, Field
    <2> HIDE DEF m
    <2>4. Has(m, "preflight") <=> Has(x, "preflight")
      BY <2>1, <2>2, <2>3 DEF Has
    <2>5. c1 \/ Consent(m, page)
      BY <2>1, <2>2, <2>3 DEF SameFields, Prudent, Sober, Consent
    <2>6. Decent(m) /\ Aimed(m) /\ Owned(m) /\ Mild(m)
      BY <2>1, <2>2, <2>3, <2>4 DEF SameFields, Prudent, Sober, Decent, Aimed, Owned, Mild
    <2>7. Timid(m)
      BY <2>3 DEF Timid, Acting
    <2> QED
      BY <2>5, <2>6, <2>7 DEF Prudent, Sober
  <1> HIDE DEF y, m, z, c1, c2, c3, c4
  <1>4. c1 \/ Prudent(w)
    BY <1>3, ExecutePrudent
  <1> HIDE DEF w
  <1>5. (z = w /\ ~c1) \/ \E e : z = Error(y, e)
    BY <1>1, <1>7, CheckedEnds
  <1>6. Prudent(z)
    BY <1>2, <1>4, <1>5, PrudentEnds
  <1> QED
    BY <1>6 DEF z

LEMMA DetachPrudent ==
  ASSUME NEW x, Prudent(x)
  PROVE  Prudent(Detach(x))
  <1> DEFINE s == IF x.command = "cancel" THEN StopSession(x, "agent_cancelled") ELSE x
             d == Drop(s, {"attached"})
             m == [d EXCEPT !.tab = Nil, !.baseline = Nil, !.granted = {}, !.authorized = {},
                            !.task = [t \in Tabs |-> Nil]]
  <1>1. Prudent(s)
    <2>1. "agent_cancelled" # NoError
      BY DEF NoError
    <2> QED
      BY <2>1, StopNarrows, PrudentNarrows DEF Prudent, Sober
  <1> HIDE DEF s
  <1>2. Prudent(d) /\ ~Has(d, "attached")
    <2>1. Prudent(d)
      BY <1>1, FlagsApart, PrudentApart DEF Prudent, Sober
    <2>2. d.on = s.on \ {"attached"}
      BY <1>1 DEF Prudent, Sober, Decent, Drop, Shape, Field
    <2> QED
      BY <2>1, <2>2 DEF Has
  <1> HIDE DEF d
  <1>3. /\ Shape(m) /\ m.on = d.on /\ m.id = d.id /\ m.req = d.req /\ m.authorized = {}
        /\ m.task = [t \in Tabs |-> Nil] /\ m.sent = d.sent /\ m.post = d.post
        /\ m.stopped = d.stopped
    BY <1>2 DEF Prudent, Sober, Decent, Shape, Field
  <1> HIDE DEF m
  <1>4. Prudent(m)
    BY <1>2, <1>3 DEF Prudent, Sober, Decent, Consent, Aimed, Owned, Mild, Has
  <1>5. Detach(x) = Succeed(m)
    BY DEF Detach, m, d, s
  <1> QED
    BY <1>4, <1>5, PrudentEnds

(* Attaching forgets closed tabs, and what the tab in front was granted before. *)
LEMMA AttachPrudent ==
  ASSUME NEW x, Prudent(x), NEW shown \in BOOLEAN
  PROVE  Prudent(Attach(x, shown))
  <1> DEFINE kept == {t \in x.granted : page[t] # "closed"}
             k == [x EXCEPT !.granted = kept]
             y == IF x.req.call.valid /\ Eligible(active) THEN k ELSE x
             m == [y EXCEPT !.tab = active, !.authorized = @ \ {active},
                            !.task[active] = Nil]
             d == Drop(m, {"attached"})
             f == ResetDocument(d)
             w == Ask(f, shown)
             c1 == ~x.req.call.valid
             c2 == ~Eligible(active)
             c3 == active \notin kept /\ Cardinality(kept) >= MaxGrants
             checks == << <<c1, "invalid_permissions">>, <<c2, "ineligible_tab">>,
                          <<c3, "tab_grant_limit">> >>
             z == Attach(x, shown)
  <1>1. z = Checked(y, checks, w) /\ DOMAIN checks = 1..3
    BY DEF Attach
  <1> HIDE DEF z, c1, c2, c3, checks
  <1>2. Prudent(y)
    <2>1. /\ Shape(k) /\ k.on = x.on /\ k.id = x.id /\ k.req = x.req /\ k.tab = x.tab
          /\ k.granted = kept /\ k.authorized = x.authorized /\ k.task = x.task
          /\ k.sent = x.sent /\ k.post = x.post /\ k.stopped = x.stopped
      BY DEF Prudent, Sober, Decent, Shape, Field
    <2> HIDE DEF k
    <2>2. Consent(x, page)
      BY DEF Prudent, Sober
    <2>3. Consent(k, page)
      <3>1. Has(k, "attached") => k.tab \in k.granted /\ page[k.tab] # "closed"
        BY <2>1, <2>2 DEF Consent, Has
      <3>2. \A t \in k.authorized : t \in k.granted /\ page[t] \in Origins
        BY <2>1, <2>2, PagesAssumption DEF Consent
      <3>3. \A t \in Tabs :
              k.task[t] # Nil /\ page[t] # "closed"
                => t \in k.granted /\ k.task[t].origin = page[t]
        BY <2>1, <2>2 DEF Consent
      <3> QED
        BY <3>1, <3>2, <3>3 DEF Consent
    <2>4. Prudent(k)
      BY <2>1, <2>3 DEF Prudent, Sober, Decent, Aimed, Owned, Mild, Has
    <2> QED
      BY <2>4
  <1> HIDE DEF kept, k, y
  <1>3. Prudent(f)
    <2>1. /\ Shape(m) /\ m.on = y.on /\ m.id = y.id /\ m.req = y.req /\ m.tab = active
          /\ m.granted = y.granted /\ m.authorized = y.authorized \ {active}
          /\ m.task = [y.task EXCEPT ![active] = Nil]
          /\ m.sent = y.sent /\ m.post = y.post /\ m.stopped = y.stopped
      BY <1>2 DEF Prudent, Sober, Decent, Shape, Field
    <2> HIDE DEF m
    <2>2. /\ Shape(d) /\ d.on = m.on \ {"attached"} /\ SameFields(m, d)
      BY <2>1 DEF Drop, Shape, Field, SameFields
    <2> HIDE DEF d
    <2>3. /\ d.task = [t \in Tabs |-> d.task[t]]
          /\ \A t \in Tabs : d.task[t] = IF t = active THEN Nil ELSE y.task[t]
      BY <1>2, <2>1, <2>2 DEF SameFields, Prudent, Sober, Decent
    <2>4. Consent(d, page)
      BY <1>2, <2>1, <2>2, <2>3 DEF SameFields, Prudent, Sober, Consent, Has
    <2>5. Prudent(d)
      BY <1>2, <2>1, <2>2, <2>3, <2>4
         DEF SameFields, Prudent, Sober, Decent, Aimed, Owned, Mild, Has
    <2> QED
      BY <2>5, ResetApart, PrudentApart DEF Prudent, Sober
  <1> HIDE DEF f
  <1>4. Prudent(w)
    BY <1>3, AskPrudent
  <1> HIDE DEF w
  <1>5. z = w \/ \E e : z = Error(y, e)
    BY <1>1, CheckedEnds
  <1>6. Prudent(z)
    BY <1>2, <1>4, <1>5, PrudentEnds
  <1> QED
    BY <1>6 DEF z

LEMMA CheckedPrudent ==
  ASSUME NEW x, Prudent(x), NEW y, NEW checks, NEW n \in 1..4, DOMAIN checks = 1..n,
         (\A i \in 1..n : ~checks[i][1]) => Prudent(y)
  PROVE  Prudent(Checked(x, checks, y))
  BY CheckedEnds, PrudentEnds

(* The commands of the attached tab in front. *)
LEMMA InFrontPrudent ==
  ASSUME NEW x, Prudent(x), NEW y, NEW checks, NEW n \in 1..4, DOMAIN checks = 1..n,
         (\A i \in 1..n : ~checks[i][1]) => Prudent(y)
  PROVE  Prudent(InFront(x, checks, y))
  <1> DEFINE outer == << <<~Attached(x), "not_attached">>,
                         <<active # x.tab, "activate_attached_tab">> >>
             inner == Checked(x, checks, y)
  <1>1. Prudent(inner)
    BY CheckedPrudent
  <1>2. DOMAIN outer = 1..2
    OBVIOUS
  <1>3. InFront(x, checks, y) = Checked(x, outer, inner)
    BY DEF InFront
  <1> HIDE DEF outer, inner
  <1> QED
    BY <1>1, <1>2, <1>3, CheckedPrudent

LEMMA WaitChangePrudent ==
  ASSUME NEW x, Prudent(x), x.command = "wait-change"
  PROVE  Prudent(WaitChange(x))
  <1> DEFINE d == Drop(x, {"wait_limit_reached", "wait_dirty"})
             r == Raise(d, {"waiting", "wait_limit_armed"})
             w == Execute(r)
             checks == << <<~Attached(x), "not_attached">>,
                          <<~x.req.call.valid, "invalid_wait">>,
                          <<active # x.tab, "activate_attached_tab">>,
                          <<x.req.doc # x.document \/ ~Acknowledged(x), "stale_document">> >>
  <1>1. d.command = x.command
    BY DEF Drop, Decent, Shape, Field, Prudent, Sober
  <1>2. Prudent(d)
    BY FlagsApart, PrudentApart DEF Prudent, Sober
  <1> HIDE DEF d
  <1>3. r.command = d.command
    BY <1>2 DEF Raise, Decent, Shape, Field, Prudent, Sober
  <1>4. Prudent(r)
    <2>1. {"waiting", "wait_limit_armed"} \cap {"attached", "preflight"} = {}
      OBVIOUS
    <2> QED
      BY <1>2, <2>1, FlagsApart, PrudentApart DEF Prudent, Sober
  <1> HIDE DEF r
  <1>5. Prudent(w)
    BY <1>1, <1>3, <1>4, ExecutePrudent DEF Timid, Acting
  <1>6. WaitChange(x) = Checked(x, checks, w) /\ DOMAIN checks = 1..4
    BY DEF WaitChange, r, d
  <1> HIDE DEF checks, w
  <1> QED
    BY <1>5, <1>6, CheckedPrudent

LEMMA ObservePrudent ==
  ASSUME NEW x, Prudent(x), x.command \in {"observe", "read"}
  PROVE  Prudent(Observe(x)) /\ Prudent(Read(x))
  <1> DEFINE w == Execute(x)
             checks1 == << <<~Attached(x), "not_attached">> >>
             checks2 == << <<~Attached(x), "not_attached">>,
                           <<x.req.doc # x.document, "stale_document">> >>
  <1>1. Prudent(w)
    BY ExecutePrudent DEF Timid, Acting
  <1>2. DOMAIN checks1 = 1..1 /\ DOMAIN checks2 = 1..2
    OBVIOUS
  <1>3. Observe(x) = Checked(x, checks1, w) /\ Read(x) = Checked(x, checks2, w)
    BY DEF Observe, Read
  <1> HIDE DEF checks1, checks2, w
  <1> QED
    BY <1>1, <1>2, <1>3, CheckedPrudent

LEMMA ScrollPrudent ==
  ASSUME NEW x, Prudent(x), x.command = "scroll"
  PROVE  Prudent(Scroll(x))
  <1> DEFINE w == Execute(x)
             checks == << <<x.req.doc # x.document, "stale_document">>,
                          <<~x.req.call.valid, "invalid_scroll">> >>
  <1>1. Prudent(w)
    BY ExecutePrudent DEF Timid, Acting
  <1>2. Scroll(x) = InFront(x, checks, w) /\ DOMAIN checks = 1..2
    BY DEF Scroll
  <1> HIDE DEF checks, w
  <1> QED
    BY <1>1, <1>2, InFrontPrudent

LEMMA AskUserPrudent ==
  ASSUME NEW x, Prudent(x), NEW shown \in BOOLEAN
  PROVE  Prudent(AskUser(x, shown))
  <1> DEFINE w == Ask(x, shown)
             checks == << <<~x.req.call.valid, "invalid_question">> >>
  <1>1. Prudent(w)
    BY AskPrudent
  <1>2. AskUser(x, shown) = InFront(x, checks, w) /\ DOMAIN checks = 1..1
    BY DEF AskUser
  <1> HIDE DEF checks, w
  <1> QED
    BY <1>1, <1>2, InFrontPrudent

LEMMA NavigatePrudent ==
  ASSUME NEW x, Prudent(x), x.command = "navigate", NEW shown \in BOOLEAN
  PROVE  Prudent(Navigate(x, shown))
  <1> DEFINE w == IF ActionRule(x, "navigate") = "allow" /\ x.req.call.origin = page[x.tab]
                  THEN Answered(x, x.id, x.document, TRUE)
                  ELSE Ask(x, shown)
             checks == << <<~x.req.call.valid, "invalid_url">>,
                          <<Attached(x) /\ ActionRule(x, "navigate") = "deny",
                            "permission_denied">> >>
  <1>1. Prudent(w)
    <2>1. Timid(x)
      BY DEF Timid, Acting
    <2>2. Prudent(Answered(x, x.id, x.document, TRUE))
      BY <2>1, AnsweredSober DEF Prudent
    <2> QED
      BY <2>2, AskPrudent
  <1>2. Navigate(x, shown) = InFront(x, checks, w) /\ DOMAIN checks = 1..2
    BY DEF Navigate
  <1> HIDE DEF checks, w
  <1> QED
    BY <1>1, <1>2, InFrontPrudent

(* A fill, a click or a batch that passes its checks has something to do. *)
LEMMA BatchPrudent ==
  ASSUME NEW x, Prudent(x), x.req.call \in Calls, x.req.call.command \in Acting
  PROVE  Prudent(Batch(x)) /\ Prudent(FillOrClick(x))
  <1> DEFINE w == Preflight(x)
             c == ~x.req.call.valid
             checks1 == << <<~Acknowledged(x), "stale_document">>, <<c, "invalid_batch">> >>
             checks2 == << <<x.baseline = Nil \/ x.req.doc # x.document, "stale_document">>,
                           <<c, "unknown_reference">> >>
  <1>1. c \/ Prudent(w)
    BY ActionsAssumption, PreflightPrudent
  <1>2. /\ DOMAIN checks1 = 1..2 /\ checks1[2][1] = c
        /\ DOMAIN checks2 = 1..2 /\ checks2[2][1] = c
    OBVIOUS
  <1>3. Batch(x) = InFront(x, checks1, w) /\ FillOrClick(x) = InFront(x, checks2, w)
    BY DEF Batch, FillOrClick
  <1> HIDE DEF checks1, checks2, w, c
  <1>4. /\ (\A i \in 1..2 : ~checks1[i][1]) => Prudent(w)
        /\ (\A i \in 1..2 : ~checks2[i][1]) => Prudent(w)
    BY <1>1, <1>2
  <1> QED
    BY <1>2, <1>3, <1>4, InFrontPrudent

LEMMA DispatchPrudent ==
  ASSUME NEW x, Prudent(x), x.req.call \in Calls, x.command = x.req.call.command,
         NEW shown \in BOOLEAN, NEW selected \in BOOLEAN
  PROVE  Prudent(Dispatch(x, shown, selected))
  <1> DEFINE z == Dispatch(x, shown, selected)
  <1>1. CASE x.stopped # NoError /\ x.command \notin {"status", "detach", "cancel"}
    BY <1>1, PrudentEnds DEF Dispatch
  <1>2. CASE ~(x.stopped # NoError /\ x.command \notin {"status", "detach", "cancel"})
    <2>1. z \in {Succeed(x), SelectTab(x, selected), Detach(x), Attach(x, shown),
                 AskUser(x, shown), Error(x, "unknown_command")}
          \/ (x.command = "wait-change" /\ z = WaitChange(x))
          \/ (x.command \in {"observe", "read"} /\ z \in {Observe(x), Read(x)})
          \/ (x.command = "scroll" /\ z = Scroll(x))
          \/ (x.command = "navigate" /\ z = Navigate(x, shown))
          \/ (x.command \in Acting /\ z \in {Batch(x), FillOrClick(x)})
      BY <1>2 DEF Dispatch, Acting
    <2> HIDE DEF z
    <2>2. /\ Prudent(Succeed(x)) /\ Prudent(Error(x, "unknown_command"))
          /\ Prudent(SelectTab(x, selected)) /\ Prudent(Detach(x)) /\ Prudent(Attach(x, shown))
          /\ Prudent(AskUser(x, shown))
      BY PrudentEnds, SelectTabPrudent, DetachPrudent, AttachPrudent, AskUserPrudent
    <2>3. Prudent(z)
      BY <2>1, <2>2, WaitChangePrudent, ObservePrudent, ScrollPrudent, NavigatePrudent,
         BatchPrudent
    <2> QED
      BY <2>3 DEF z
  <1> QED
    BY <1>1, <1>2

(* A request whose claim is new. *)
LEMMA AdmitPrudent ==
  ASSUME NEW x, Prudent(x), x.req.call \in Calls,
         NEW shown \in BOOLEAN, NEW selected \in BOOLEAN
  PROVE  Prudent(Admit(x, shown, selected))
  <1> DEFINE r == Raise(x, {"busy", "request_claimed", "deadline"})
             d == Drop(r, {"expired"})
             y == [d EXCEPT !.deferred = NoError, !.command = x.req.call.command]
             w == Dispatch(y, shown, selected)
             checks == << <<y.req.call.expiry = "invalid", "invalid_request_deadline">>,
                          <<y.req.call.expiry = "past", "request_expired">> >>
  <1>1. Prudent(r)
    BY FlagsApart, PrudentApart DEF Prudent, Sober
  <1>2. r.req = x.req
    BY DEF Raise, Prudent, Sober, Decent, Shape, Field
  <1> HIDE DEF r
  <1>3. Prudent(d) /\ d.req = r.req
    BY <1>1, FlagsApart, PrudentApart DEF Prudent, Sober, Apart
  <1> HIDE DEF d
  <1>4. /\ Apart(d, y) /\ y.command = x.req.call.command
    BY <1>3 DEF Prudent, Sober, Decent, Shape, Field, Apart, Has
  <1>5. y = Begin(x)
    BY DEF Begin, d, r
  <1> HIDE DEF y
  <1>6. Prudent(y) /\ y.req = x.req
    BY <1>2, <1>3, <1>4, PrudentApart DEF Apart
  <1>7. Prudent(w)
    BY <1>4, <1>6, DispatchPrudent
  <1>8. Admit(x, shown, selected) = Checked(y, checks, w) /\ DOMAIN checks = 1..2
    BY <1>5 DEF Admit
  <1> HIDE DEF checks, w
  <1> QED
    BY <1>6, <1>7, <1>8, CheckedPrudent

(* One task that is no stop. *)
LEMMA PostNarrows ==
  ASSUME NEW x, Decent(x), NEW t, t.op # "stop"
  PROVE  Narrows(x, Post(x, t))
  <1> DEFINE y == Post(x, t)
  <1>1. /\ Shape(y) /\ y.on = x.on /\ y.id = x.id /\ y.req = x.req /\ y.tab = x.tab
        /\ y.granted = x.granted /\ y.authorized = x.authorized /\ y.task = x.task
        /\ y.sent = x.sent /\ y.post = Append(x.post, t) /\ y.stopped = x.stopped
    BY DEF Post, Decent, Shape, Field
  <1> HIDE DEF y
  <1>2. Narrows(x, y)
    BY <1>1, AppendNoStop DEF Narrows, Cedes, Decent, Has, Owned
  <1> QED
    BY <1>2 DEF y

LEMMA RefusePrudent ==
  ASSUME NEW x, Prudent(x), NEW cached
  PROVE  Prudent(Refuse(x, cached))
  <1> DEFINE y == Drop(x, {"request_claimed"})
             q == Raise(y, {"quarantined"})
             f == Raise(y, {"busy", "quarantined"})
             t == [op |-> "rewrite", answer |-> cached]
  <1>1. Prudent(y)
    BY FlagsApart, PrudentApart DEF Prudent, Sober
  <1>2. t.op # "stop"
    OBVIOUS
  <1>3. Refuse(x, cached) \in {Error(f, "request_outcome_unknown"), Post(y, t), Post(q, t)}
    BY DEF Refuse
  <1> HIDE DEF y, t
  <1>4. Prudent(q) /\ Prudent(f)
    BY <1>1, FlagsApart, PrudentApart DEF Prudent, Sober
  <1> HIDE DEF q, f
  <1>5. Prudent(Post(y, t)) /\ Prudent(Post(q, t))
    BY <1>1, <1>2, <1>4, PostNarrows, PrudentNarrows DEF Prudent, Sober
  <1> QED
    BY <1>3, <1>4, <1>5, PrudentEnds

(* Whatever a read of the mailbox brings. *)
LEMMA ReceivedPrudent ==
  ASSUME NEW x, Prudent(x), ~Has(x, "preflight"), NEW r,
         r.data # Nil => r.data.call \in Calls,
         NEW shown \in BOOLEAN, NEW selected \in BOOLEAN
  PROVE  Prudent(Received(x, r, shown, selected))
  <1> DEFINE d == Drop(x, {"reading"})
             s == IF r.stop = NoError THEN d ELSE StopSession(d, r.stop)
             y == [s EXCEPT !.req = r.data, !.id = r.data.id]
  <1>1. Prudent(d) /\ ~Has(d, "preflight")
    <2>1. Apart(x, d)
      BY FlagsApart DEF Prudent, Sober
    <2> QED
      BY <2>1, PrudentApart DEF Apart
  <1> HIDE DEF d
  <1>2. Prudent(s) /\ ~Has(s, "preflight")
    <2>1. Narrows(d, s)
      BY <1>1, StopNarrows, NarrowsSelf DEF Prudent, Sober
    <2> HIDE DEF s
    <2> QED
      BY <1>1, <2>1, PrudentNarrows DEF Narrows, Cedes
  <1>3. Received(x, r, shown, selected)
          = IF r.data = Nil THEN s
            ELSE IF r.fresh THEN Admit(y, shown, selected) ELSE Refuse(y, r.cached)
    BY DEF Received, d
  <1> HIDE DEF s
  <1>4. /\ Shape(y) /\ y.on = s.on /\ y.req = r.data /\ y.tab = s.tab
        /\ y.granted = s.granted /\ y.authorized = s.authorized /\ y.task = s.task
        /\ y.sent = s.sent /\ y.post = s.post /\ y.stopped = s.stopped
    BY <1>2 DEF Prudent, Sober, Decent, Shape, Field
  <1> HIDE DEF y
  <1>5. Prudent(y)
    BY <1>2, <1>4 DEF Prudent, Sober, Decent, Consent, Aimed, Owned, Mild, Has
  <1>6. Prudent(Refuse(y, r.cached))
    BY <1>5, RefusePrudent
  <1>7. r.data # Nil => Prudent(Admit(y, shown, selected))
    BY <1>4, <1>5, AdmitPrudent
  <1> QED
    BY <1>2, <1>3, <1>6, <1>7

-----------------------------------------------------------------------------
(***************************************************************************)
(* Observed: the renderer's answer to a preflight is the one other way to  *)
(* a script that acts.                                                     *)
(***************************************************************************)
ByRule(x, z) ==
  /\ Sober(z) /\ Vetted(x, z)
  /\ Mild(z) \/ (Has(x, "preflight") /\ RequestRule(x) = "allow")

LEMMA PrudentByRule ==
  ASSUME NEW x, NEW z, Prudent(z)
  PROVE  ByRule(x, z)
  BY MildVetted DEF ByRule

LEMMA ApartByRule ==
  ASSUME NEW x, NEW y, Apart(x, y), NEW z, ByRule(y, z)
  PROVE  ByRule(x, z)
  <1>1. RequestRule(y) = RequestRule(x)
    BY DEF RequestRule, ActionRule, Covers, Apart
  <1> QED
    BY <1>1 DEF ByRule, Vetted, Apart

LEMMA CheckedByRule ==
  ASSUME NEW x, NEW w, Prudent(w), NEW z, ByRule(x, z),
         NEW checks, NEW n \in 1..4, DOMAIN checks = 1..n
  PROVE  ByRule(x, Checked(w, checks, z))
  BY CheckedEnds, PrudentEnds, PrudentByRule

LEMMA PreflightedByRule ==
  ASSUME NEW x, Prudent(x), Has(x, "preflight"), NEW shown \in BOOLEAN
  PROVE  ByRule(x, Preflighted(x, shown))
  <1> DEFINE y == Drop(x, {"preflight"})
             w == IF RequestRule(y) = "allow" THEN Answered(y, y.id, y.document, TRUE)
                  ELSE Ask(y, shown)
             checks1 == << <<RequestRule(y) = "deny", "permission_denied">> >>
             v == Checked(y, checks1, w)
             checks2 == << <<Has(x, "expired"), "request_expired">>,
                           <<~Eligible(x.tab) \/ active # x.tab, "tab_changed">> >>
             z == Preflighted(x, shown)
  <1>1. DOMAIN checks1 = 1..1 /\ DOMAIN checks2 = 1..2
    OBVIOUS
  <1>2. z = Checked(x, checks2, v)
    BY DEF Preflighted
  <1>3. Apart(x, y)
    BY FlagsApart DEF Prudent, Sober
  <1> HIDE DEF y, z, checks1, checks2
  <1>4. Prudent(y) /\ RequestRule(y) = RequestRule(x)
    BY <1>3, PrudentApart DEF RequestRule, ActionRule, Covers, Apart
  <1>5. ByRule(x, w)
    <2>1. CASE RequestRule(y) = "allow"
      <3> DEFINE a == Answered(y, y.id, y.document, TRUE)
      <3>1. Sober(a) /\ Vetted(y, a)
        BY <1>4, AnsweredSober
      <3>2. w = a
        BY <2>1
      <3> HIDE DEF a, w
      <3>3. Vetted(x, a)
        BY <1>3, <3>1 DEF Vetted, Apart
      <3> QED
        BY <1>4, <2>1, <3>1, <3>2, <3>3 DEF ByRule
    <2>2. CASE RequestRule(y) # "allow"
      <3>1. Prudent(Ask(y, shown))
        BY <1>4, AskPrudent
      <3> QED
        BY <2>2, <3>1, PrudentByRule
    <2> QED
      BY <2>1, <2>2
  <1> HIDE DEF w
  <1>6. ByRule(x, v)
    BY <1>1, <1>4, <1>5, CheckedByRule
  <1> HIDE DEF v
  <1>7. ByRule(x, z)
    BY <1>1, <1>2, <1>6, CheckedByRule
  <1> QED
    BY <1>7 DEF z

LEMMA SnapshotPrudent ==
  ASSUME NEW x, Prudent(x), NEW result
  PROVE  Prudent(Snapshot(x, result))
  <1> DEFINE v == IF result.truncated THEN Nil ELSE [by |-> x.id, content |-> result.content]
             d == [x EXCEPT !.baseline = v]
             z == Snapshot(x, result)
  <1>1. z \in {x, WakeWait(x), Finish(d, NoError, x.document, FALSE)}
    BY DEF Snapshot
  <1>2. Apart(x, d)
    BY DEF Prudent, Sober, Decent, Shape, Field, Apart, Has
  <1> HIDE DEF d, z
  <1>3. Prudent(z)
    BY <1>1, <1>2, PrudentApart, PrudentEnds
  <1> QED
    BY <1>3 DEF z

LEMMA ObservedByRule ==
  ASSUME NEW x, Prudent(x), NEW id, NEW doc, NEW result, NEW shown \in BOOLEAN
  PROVE  ByRule(x, Observed(x, id, doc, result, shown))
  <1> DEFINE seen == Drop(x, {"renderer_pending"})
             y == Settle(x, result)
             pre == Checked(y, << <<result.kind # "preflight", "invalid_preflight">> >>,
                            Preflighted(y, shown))
             w == CASE result.kind \in {"error", "partial"} ->
                    Finish(y, "renderer_error", 0, result.kind = "partial")
                    [] result.kind \notin {"error", "partial"} /\ Has(y, "preflight") -> pre
                    [] result.kind = "text" /\ ~Has(y, "preflight")  -> Succeed(y)
                    [] result.kind = "nodes" /\ ~Has(y, "preflight") -> Snapshot(y, result)
                    [] OTHER -> Error(y, "invalid_observation")
             checks == << <<doc # y.document, "stale_document">>,
                          <<result.kind = "none", "renderer_unavailable">> >>
             z == Observed(x, id, doc, result, shown)
  <1>1. z \in {x, Interrupted(y), Checked(y, checks, w)}
    BY DEF Observed
  <1>2. Apart(x, seen)
    BY FlagsApart DEF Prudent, Sober
  <1>3. y \in {Raise(seen, {"quarantined"}), seen}
    BY DEF Settle
  <1> HIDE DEF seen, y
  <1>4. Apart(x, y)
    <2>1. Apart(seen, Raise(seen, {"quarantined"}))
      BY <1>2, FlagsApart DEF Apart
    <2> HIDE DEF y
    <2> QED
      BY <1>2, <1>3, <2>1 DEF Apart
  <1>5. Prudent(y)
    BY <1>4, PrudentApart
  <1>6. \/ w = pre /\ Has(y, "preflight")
        \/ w \in {Finish(y, "renderer_error", 0, result.kind = "partial"), Succeed(y),
                  Snapshot(y, result), Error(y, "invalid_observation")}
    <2> HIDE DEF pre
    <2> QED
      OBVIOUS
  <1>7. Has(y, "preflight") => ByRule(y, pre)
    <2> DEFINE one == << <<result.kind # "preflight", "invalid_preflight">> >>
               p == Preflighted(y, shown)
    <2>1. DOMAIN one = 1..1 /\ pre = Checked(y, one, p)
      OBVIOUS
    <2>2. Has(y, "preflight") => ByRule(y, p)
      BY <1>5, PreflightedByRule
    <2> HIDE DEF one, p, pre
    <2> QED
      BY <1>5, <2>1, <2>2, CheckedByRule
  <1>8. DOMAIN checks = 1..2
    OBVIOUS
  <1> HIDE DEF pre, w, checks, z
  <1>9. ByRule(y, w)
    BY <1>5, <1>6, <1>7, PrudentEnds, SnapshotPrudent, PrudentByRule
  <1>10. ByRule(x, Checked(y, checks, w))
    BY <1>4, <1>5, <1>8, <1>9, CheckedByRule, ApartByRule
  <1>11. ByRule(x, Interrupted(y)) /\ ByRule(x, x)
    BY <1>5, PrudentEnds, PrudentByRule DEF Interrupted
  <1>12. ByRule(x, z)
    BY <1>1, <1>10, <1>11
  <1> QED
    BY <1>12 DEF z

-----------------------------------------------------------------------------
(***************************************************************************)
(* The window, the timers and the other replies.                           *)
(***************************************************************************)

(* No consent outlives the page it was given for. *)
LEMMA ForgetNarrows ==
  ASSUME NEW x, Decent(x), NEW t, NEW s, s \subseteq x.authorized
  PROVE  /\ Narrows(x, [x EXCEPT !.task[t] = Nil])
         /\ Narrows(x, [x EXCEPT !.task[t] = Nil, !.baseline = Nil])
         /\ Narrows(x, [x EXCEPT !.authorized = s, !.task[t] = Nil])
         /\ Narrows(x, [x EXCEPT !.authorized = s])
  <1>1. ASSUME NEW y, Shape(y), y.on = x.on, y.id = x.id, y.req = x.req, y.tab = x.tab,
               y.granted = x.granted, y.authorized \subseteq x.authorized, y.sent = x.sent,
               y.post = x.post, y.stopped = x.stopped,
               y.task = x.task \/ y.task = [x.task EXCEPT ![t] = Nil]
        PROVE  Narrows(x, y)
    <2>1. /\ y.task = [u \in Tabs |-> y.task[u]]
          /\ \A u \in Tabs : y.task[u] \in {x.task[u], Nil}
      BY <1>1 DEF Decent
    <2> QED
      BY <1>1, <2>1 DEF Narrows, Cedes, Decent, Has, Owned
  <1>2. Narrows(x, [x EXCEPT !.task[t] = Nil])
    <2> DEFINE y == [x EXCEPT !.task[t] = Nil]
    <2>1. /\ Shape(y) /\ y.on = x.on /\ y.id = x.id /\ y.req = x.req /\ y.tab = x.tab
          /\ y.granted = x.granted /\ y.authorized = x.authorized /\ y.sent = x.sent
          /\ y.post = x.post /\ y.stopped = x.stopped /\ y.task = [x.task EXCEPT ![t] = Nil]
      BY DEF Decent, Shape, Field
    <2> HIDE DEF y
    <2>2. Narrows(x, y)
      BY <1>1, <2>1
    <2> QED
      BY <2>2 DEF y
  <1>3. Narrows(x, [x EXCEPT !.task[t] = Nil, !.baseline = Nil])
    <2> DEFINE y == [x EXCEPT !.task[t] = Nil, !.baseline = Nil]
    <2>1. /\ Shape(y) /\ y.on = x.on /\ y.id = x.id /\ y.req = x.req /\ y.tab = x.tab
          /\ y.granted = x.granted /\ y.authorized = x.authorized /\ y.sent = x.sent
          /\ y.post = x.post /\ y.stopped = x.stopped /\ y.task = [x.task EXCEPT ![t] = Nil]
      BY DEF Decent, Shape, Field
    <2> HIDE DEF y
    <2>2. Narrows(x, y)
      BY <1>1, <2>1
    <2> QED
      BY <2>2 DEF y
  <1>4. Narrows(x, [x EXCEPT !.authorized = s, !.task[t] = Nil])
    <2> DEFINE y == [x EXCEPT !.authorized = s, !.task[t] = Nil]
    <2>1. /\ Shape(y) /\ y.on = x.on /\ y.id = x.id /\ y.req = x.req /\ y.tab = x.tab
          /\ y.granted = x.granted /\ y.authorized = s /\ y.sent = x.sent
          /\ y.post = x.post /\ y.stopped = x.stopped /\ y.task = [x.task EXCEPT ![t] = Nil]
      BY DEF Decent, Shape, Field
    <2> HIDE DEF y
    <2>2. Narrows(x, y)
      BY <1>1, <2>1
    <2> QED
      BY <2>2 DEF y
  <1>5. Narrows(x, [x EXCEPT !.authorized = s])
    <2> DEFINE y == [x EXCEPT !.authorized = s]
    <2>1. /\ Shape(y) /\ y.on = x.on /\ y.id = x.id /\ y.req = x.req /\ y.tab = x.tab
          /\ y.granted = x.granted /\ y.authorized = s /\ y.sent = x.sent
          /\ y.post = x.post /\ y.stopped = x.stopped /\ y.task = x.task
      BY DEF Decent, Shape, Field
    <2> HIDE DEF y
    <2>2. Narrows(x, y)
      BY <1>1, <2>1
    <2> QED
      BY <2>2 DEF y
  <1> QED
    BY <1>2, <1>3, <1>4, <1>5

LEMMA NavigatedNarrows ==
  ASSUME NEW x, Decent(x), NEW origin
  PROVE  Narrows(x, Navigated(x, origin))
  <1> DEFINE n == [x EXCEPT !.task[x.tab] = Nil]
             left == IF Covers(x, x.tab, origin) THEN x ELSE n
             d == Drop(left, {"attached"})
             r == ResetDocument(left)
             q == ResetDocument(d)
             z == Navigated(x, origin)
  <1>1. \E y \in {r, q} : z = y \/ \E e : z \in {Error(y, e), Error(Drop(y, {"renderer_pending"}), e)}
    BY DEF Navigated
  <1>2. Narrows(x, x) /\ Narrows(x, n)
    BY ForgetNarrows, NarrowsSelf
  <1> HIDE DEF n
  <1>3. Narrows(x, left)
    BY <1>2
  <1>4. Decent(left)
    BY <1>3 DEF Narrows, Cedes
  <1> HIDE DEF left
  <1>5. Apart(left, d) /\ Decent(d)
    BY <1>4, FlagsApart DEF Apart
  <1> HIDE DEF d
  <1>6. Narrows(x, d)
    BY <1>3, <1>5, ApartNarrows, NarrowsAgain
  <1>7. Narrows(x, r) /\ Narrows(x, q)
    BY <1>3, <1>4, <1>5, <1>6, ResetApart, ApartNarrows, NarrowsAgain
  <1> HIDE DEF r, q, z
  <1>8. ASSUME NEW y, Narrows(x, y)
        PROVE  \A e : Narrows(x, Error(y, e)) /\ Narrows(x, Error(Drop(y, {"renderer_pending"}), e))
    <2> DEFINE p == Drop(y, {"renderer_pending"})
    <2>1. Decent(y)
      BY <1>8 DEF Narrows, Cedes
    <2>2. Apart(y, p) /\ Decent(p)
      BY <2>1, FlagsApart DEF Apart
    <2> HIDE DEF p
    <2>3. Narrows(x, p)
      BY <1>8, <2>2, ApartNarrows, NarrowsAgain
    <2>4. \A e : Narrows(x, Error(y, e)) /\ Narrows(x, Error(p, e))
      BY <1>8, <2>1, <2>2, <2>3, ErrorNarrows, NarrowsAgain
    <2> QED
      BY <2>4 DEF p
  <1>9. Narrows(x, z)
    BY <1>1, <1>7, <1>8
  <1> QED
    BY <1>9 DEF z

(* A page that leaves the origin of its rules takes them, and the consent, along. *)
LEMMA NavigatedConsent ==
  ASSUME NEW x, Decent(x), Consent(x, page), NEW t \in Tabs, NEW origin \in Origins \cup {"other"},
         page[t] # "closed", page \in [Tabs -> Origin \cup {"closed"}],
         x.authorized \subseteq Tabs, x.task[t] # Nil => x.task[t].origin \in Origins
  PROVE  LET z == NavigatedTab(x, t, origin)
         IN  Narrows(x, z) /\ Consent(z, [page EXCEPT ![t] = origin])
  <1> DEFINE g == GrantNavigated(x, t, origin)
             s == x.authorized \ {t}
             f == [x EXCEPT !.authorized = s, !.task[t] = Nil]
             z == NavigatedTab(x, t, origin)
             pg == [page EXCEPT ![t] = origin]
  <1>1. g = IF t \in x.granted /\ ~Covers(x, t, origin) THEN f ELSE x
    BY DEF GrantNavigated
  <1>2. Narrows(x, f) /\ Narrows(x, x)
    BY ForgetNarrows, NarrowsSelf
  <1>3. f.authorized = s /\ f.task[t] = Nil
    BY DEF Decent, Shape, Field
  <1> HIDE DEF f, g
  <1>4. Narrows(x, g)
    BY <1>1, <1>2
  <1>5. /\ g.task[t] # Nil => t \in x.granted /\ Covers(x, t, origin) /\ g.task[t] = x.task[t]
        /\ t \in g.authorized => Covers(x, t, origin)
    BY <1>1, <1>3 DEF Consent
  <1>6. z \in {g, Navigated(g, origin)}
    BY DEF NavigatedTab, g
  <1>7. Narrows(g, z)
    <2>1. Decent(g)
      BY <1>4 DEF Narrows, Cedes
    <2> HIDE DEF z
    <2> QED
      BY <1>6, <2>1, NarrowsSelf, NavigatedNarrows
  <1> HIDE DEF z
  <1>8. Narrows(x, z)
    BY <1>4, <1>7, NarrowsAgain
  <1>9. /\ z.tab = x.tab /\ z.granted = x.granted
        /\ Has(z, "attached") => Has(x, "attached")
        /\ z.authorized \subseteq x.authorized /\ z.authorized \subseteq g.authorized
        /\ \A u \in Tabs : z.task[u] \in {x.task[u], Nil}
        /\ z.task[t] \in {g.task[t], Nil}
    BY <1>7, <1>8 DEF Narrows, Cedes
  <1>10. /\ pg[t] = origin /\ origin # "closed"
         /\ \A u \in Tabs \ {t} : pg[u] = page[u]
    BY PagesAssumption
  <1> HIDE DEF pg
  <1>11. Consent(z, pg)
    <2>1. Has(z, "attached") => z.tab \in z.granted /\ pg[z.tab] # "closed"
      <3> SUFFICES ASSUME Has(z, "attached")
                   PROVE  z.tab \in z.granted /\ pg[z.tab] # "closed"
        OBVIOUS
      <3>1. x.tab \in x.granted /\ page[x.tab] # "closed"
        BY <1>9 DEF Consent
      <3> QED
        BY <1>9, <1>10, <3>1 DEF pg
    <2>2. ASSUME NEW u \in z.authorized
          PROVE  u \in z.granted /\ pg[u] \in Origins
      <3>1. u \in Tabs /\ u \in x.granted /\ page[u] \in Origins
        BY <1>9, <2>2 DEF Consent
      <3>2. CASE u = t
        BY <1>5, <1>9, <1>10, <2>2, <3>1, <3>2 DEF Covers
      <3>3. CASE u # t
        BY <1>9, <1>10, <3>1, <3>3
      <3> QED
        BY <3>2, <3>3
    <2>3. ASSUME NEW u \in Tabs, z.task[u] # Nil, pg[u] # "closed"
          PROVE  u \in z.granted /\ z.task[u].origin = pg[u]
      <3>1. CASE u = t
        BY <1>5, <1>9, <1>10, <2>3, <3>1 DEF Covers
      <3>2. CASE u # t
        BY <1>9, <1>10, <2>3, <3>2 DEF Consent
      <3> QED
        BY <3>1, <3>2
    <2> QED
      BY <2>1, <2>2, <2>3 DEF Consent
  <1> QED
    BY <1>8, <1>11 DEF z, pg

(* A tab that is closed is let go of. *)
LEMMA TabClosedConsent ==
  ASSUME NEW x, Decent(x), Consent(x, page), x.authorized \subseteq Tabs, NEW t \in Tabs,
         page \in [Tabs -> Origin \cup {"closed"}]
  PROVE  LET z == TabClosed(x, t)
         IN  /\ Decent(z) /\ Consent(z, [page EXCEPT ![t] = "closed"])
             /\ z.id = x.id /\ z.req = x.req /\ z.sent = x.sent
             /\ Has(z, "preflight") => Has(x, "preflight")
             /\ Owned(x) => Owned(z)
  <1> DEFINE s == x.authorized \ {t}
             y == [x EXCEPT !.authorized = s]
             d == Drop(y, {"navigating", "attached"})
             e == Error(d, "tab_closed")
             f == [e EXCEPT !.tab = Nil, !.baseline = Nil]
             z == TabClosed(x, t)
             pg == [page EXCEPT ![t] = "closed"]
  <1>1. z = IF t # x.tab THEN y ELSE f
    BY DEF TabClosed
  <1>2. Narrows(x, y) /\ y.authorized = s
    BY ForgetNarrows DEF Decent, Shape, Field
  <1> HIDE DEF y
  <1>3. Decent(y)
    BY <1>2 DEF Narrows, Cedes
  <1>4. Narrows(y, d) /\ Decent(d) /\ ~Has(d, "attached") /\ d.authorized = y.authorized
    <2>1. Apart(y, d)
      BY <1>3, FlagsApart
    <2>2. d.on = y.on \ {"navigating", "attached"}
      BY <1>3 DEF Drop, Decent, Shape, Field
    <2> HIDE DEF d
    <2> QED
      BY <2>1, <2>2, ApartNarrows DEF Apart, Has
  <1> HIDE DEF d
  <1>5. Narrows(d, e) /\ Decent(e)
    BY <1>4, ErrorNarrows DEF Narrows, Cedes
  <1> HIDE DEF e
  <1>6. Narrows(x, e) /\ ~Has(e, "attached") /\ e.authorized \subseteq s
    BY <1>2, <1>4, <1>5, NarrowsAgain DEF Narrows, Cedes
  <1>7. /\ Shape(f) /\ f.on = e.on /\ f.id = e.id /\ f.req = e.req /\ f.granted = e.granted
        /\ f.authorized = e.authorized /\ f.task = e.task /\ f.sent = e.sent
        /\ f.post = e.post /\ f.stopped = e.stopped
    BY <1>5 DEF Decent, Shape, Field
  <1> HIDE DEF f, z
  <1>8. /\ Decent(z) /\ z.id = x.id /\ z.req = x.req /\ z.sent = x.sent /\ z.granted = x.granted
        /\ Has(z, "preflight") => Has(x, "preflight")
        /\ Owned(x) => Owned(z)
        /\ z.authorized \subseteq x.authorized \ {t}
        /\ \A u \in Tabs : z.task[u] \in {x.task[u], Nil}
        /\ Has(z, "attached") => Has(x, "attached") /\ z.tab = x.tab /\ x.tab # t
    <2>1. CASE t # x.tab
      BY <1>1, <1>2, <2>1 DEF Narrows, Cedes
    <2>2. CASE t = x.tab
      BY <1>1, <1>5, <1>6, <1>7, <2>2 DEF Narrows, Cedes, Decent, Has, Owned
    <2> QED
      BY <2>1, <2>2
  <1>9. pg[t] = "closed" /\ \A u : u # t => pg[u] = page[u] \/ u \notin Tabs
    OBVIOUS
  <1>10. Has(x, "attached") /\ x.tab # t => pg[x.tab] # "closed"
    BY DEF Consent
  <1> HIDE DEF pg
  <1>11. Consent(z, pg)
    <2>1. Has(z, "attached") => z.tab \in z.granted /\ pg[z.tab] # "closed"
      BY <1>8, <1>10 DEF Consent
    <2>2. \A u \in z.authorized : u \in z.granted /\ pg[u] \in Origins
      BY <1>8, <1>9 DEF Consent
    <2>3. \A u \in Tabs : z.task[u] # Nil /\ pg[u] # "closed"
                            => u \in z.granted /\ z.task[u].origin = pg[u]
      BY <1>8, <1>9 DEF Consent
    <2> QED
      BY <2>1, <2>2, <2>3 DEF Consent
  <1> QED
    BY <1>8, <1>11 DEF z, pg

LEMMA StoppedLoadingPrudent ==
  ASSUME NEW x, Prudent(x)
  PROVE  Prudent(StoppedLoading(x))
  <1> DEFINE y == Drop(x, {"navigating"})
             c == [y EXCEPT !.command = "observe"]
             z == StoppedLoading(x)
  <1>1. z \in {x, Error(y, y.deferred), Execute(c)}
    BY DEF StoppedLoading
  <1>2. Prudent(y)
    BY FlagsApart, PrudentApart DEF Prudent, Sober
  <1> HIDE DEF y
  <1>3. Apart(y, c) /\ c.command = "observe"
    BY <1>2 DEF Prudent, Sober, Decent, Shape, Field, Apart, Has
  <1> HIDE DEF c, z
  <1>4. Prudent(Execute(c))
    BY <1>2, <1>3, PrudentApart, ExecutePrudent DEF Timid, Acting
  <1>5. Prudent(z)
    BY <1>1, <1>2, <1>4, PrudentEnds
  <1> QED
    BY <1>5 DEF z

LEMMA UserTookOverPrudent ==
  ASSUME NEW x, Prudent(x)
  PROVE  Prudent(UserTookOver(x))
  <1> DEFINE s == StopSession(x, "user_takeover")
             y == [s EXCEPT !.task[x.tab] = Nil, !.baseline = Nil]
  <1>1. "user_takeover" # NoError
    BY ErrorCodes DEF ErrorCode, StopReasons
  <1>2. Prudent(s)
    BY <1>1, StopNarrows, PrudentNarrows DEF Prudent, Sober
  <1> HIDE DEF s
  <1>3. Prudent(y)
    BY <1>2, ForgetNarrows, PrudentNarrows DEF Prudent, Sober
  <1>4. UserTookOver(x) = Error(y, "user_takeover")
    BY DEF UserTookOver, s
  <1> HIDE DEF y
  <1> QED
    BY <1>3, <1>4, PrudentEnds

(* What a flag that is dropped first, and an error after it, leave. *)
LEMMA DropPrudent ==
  ASSUME NEW x, Prudent(x), NEW flags
  PROVE  /\ Prudent(Drop(x, flags))
         /\ "attached" \notin flags /\ "preflight" \notin flags => Prudent(Raise(x, flags))
  BY FlagsApart, PrudentApart DEF Prudent, Sober

LEMMA StopReceivedPrudent ==
  ASSUME NEW x, Prudent(x), NEW reason
  PROVE  Prudent(StopReceived(x, reason))
  <1> DEFINE y == Drop(x, {"reading_stop"})
             s == StopSession(y, reason)
  <1>1. StopReceived(x, reason) \in {y, Error(s, s.stopped)}
        /\ (reason = NoError => StopReceived(x, reason) = y)
    BY DEF StopReceived
  <1>2. Prudent(y)
    BY DropPrudent
  <1> HIDE DEF y
  <1>3. reason # NoError => Prudent(s)
    BY <1>2, StopNarrows, PrudentNarrows DEF Prudent, Sober
  <1> HIDE DEF s
  <1> QED
    BY <1>1, <1>2, <1>3, PrudentEnds

LEMMA CancelWaitPrudent ==
  ASSUME NEW x, Prudent(x), NEW id, NEW data
  PROVE  Prudent(CancelWait(x, id, data))
  BY PrudentEnds DEF CancelWait

LEMMA WrittenPrudent ==
  ASSUME NEW x, Prudent(x), NEW stored
  PROVE  Prudent(Written(x, stored))
  <1> DEFINE y == Drop(x, {"writing_response"})
  <1>1. Written(x, stored) \in {y, Raise(y, {"quarantined"})}
    BY DEF Written
  <1>2. Prudent(y)
    BY DropPrudent
  <1> HIDE DEF y
  <1>3. Prudent(Raise(y, {"quarantined"}))
    BY <1>2, DropPrudent
  <1> QED
    BY <1>1, <1>2, <1>3

LEMMA PostPrudent ==
  ASSUME NEW x, Prudent(x), NEW f, f \notin {"attached", "preflight"}, NEW t, t.op # "stop"
  PROVE  Prudent(Post(Raise(x, {f}), t))
  <1> DEFINE y == Raise(x, {f})
  <1>1. Prudent(y)
    BY DropPrudent
  <1> HIDE DEF y
  <1>2. Prudent(Post(y, t))
    BY <1>1, PostNarrows, PrudentNarrows DEF Prudent, Sober
  <1> QED
    BY <1>2 DEF y

-----------------------------------------------------------------------------
(***************************************************************************)
(* The invariant.                                                          *)
(***************************************************************************)
ConsentInv == Consent(b, page) /\ Aimed(b)

LEMMA MembersPrudent ==
  ASSUME IInv, ConsentInv
  PROVE  Prudent(b)
  <1>1. Full(b) /\ Clean(b) /\ b \in Members
    BY MembersFull DEF Full, Base
  <1>2. Shape(b) /\ b.task = [t \in Tabs |-> b.task[t]]
    BY <1>1 DEF Members, Shape, Field
  <1>3. NoStop(b.post) /\ b.sent = {}
    BY <1>1, AppendNoStop DEF Clean
  <1> QED
    BY <1>2, <1>3 DEF Prudent, Sober, Decent, ConsentInv, Owned, Mild

(* Members that return. *)
LEMMA ReturnedSober ==
  ASSUME NEW y, Decent(y), b' = [y EXCEPT !.post = <<>>, !.sent = {}, !.closed = {}],
         Consent(y, page'), Aimed(y)
  PROVE  ConsentInv'
  <1>1. /\ b'.on = y.on /\ b'.tab = y.tab /\ b'.granted = y.granted /\ b'.req = y.req
        /\ b'.authorized = y.authorized /\ b'.task = y.task
    BY DEF Decent, Shape, Field
  <1> QED
    BY <1>1 DEF ConsentInv, Consent, Aimed, Has

(* A handler returns, with no new script that changes a page. *)
Ends(y) ==
  /\ b' = [y EXCEPT !.post = <<>>, !.sent = {}, !.closed = {}]
  /\ io' = io \o y.post /\ scripts' \subseteq scripts \cup y.sent

Held(y) == Decent(y) /\ Consent(y, page') /\ Aimed(y) /\ Owned(y)

LEMMA PrudentHeld ==
  ASSUME NEW y, Sober(y), page' = page
  PROVE  Held(y)
  BY DEF Sober, Held

LEMMA ReturnEnds ==
  ASSUME NEW y, Return(y)
  PROVE  Ends(y)
  BY DEF Return, Ends

LEMMA PollEnds ==
  ASSUME IInv, ConsentInv, Poll
  PROVE  \E y : Held(y) /\ Mild(y) /\ Ends(y)
  <1> DEFINE t1 == [op |-> "cancel", id |-> b.id]
             t2 == [op |-> "readstop"]
             t3 == [op |-> "read"]
             x == IF Has(b, "busy") /\ Has(b, "waiting") /\ ~Has(b, "reading_cancel")
                  THEN Post(Raise(b, {"reading_cancel"}), t1) ELSE b
             y == IF Has(b, "busy") /\ b.stopped = NoError /\ ~Has(b, "reading_stop")
                  THEN Post(Raise(x, {"reading_stop"}), t2) ELSE x
             z == IF MayRead(b) THEN Post(Raise(y, {"reading"}), t3) ELSE y
  <1>1. Return(z) /\ page' = page
    BY DEF Poll, tabVars
  <1>2. t1.op # "stop" /\ t2.op # "stop" /\ t3.op # "stop"
    OBVIOUS
  <1>3. Prudent(b)
    BY MembersPrudent
  <1> HIDE DEF t1, t2, t3
  <1>4. Prudent(x)
    BY <1>2, <1>3, PostPrudent
  <1> HIDE DEF x
  <1>5. Prudent(y)
    BY <1>2, <1>4, PostPrudent
  <1> HIDE DEF y
  <1>6. Prudent(z)
    BY <1>2, <1>5, PostPrudent
  <1> HIDE DEF z
  <1> QED
    BY <1>1, <1>6, PrudentHeld, ReturnEnds DEF Prudent

LEMMA ReceiveRequestEnds ==
  ASSUME IInv, ConsentInv, ReceiveRequest
  PROVE  \E y : Held(y) /\ Mild(y) /\ Ends(y)
  <1> DEFINE r == Head(replies)
  <1>1. PICK shown \in PromptShown, selected \in BOOLEAN : Return(Received(b, r, shown, selected))
    BY DEF ReceiveRequest
  <1>2. replies # <<>> /\ replies' = Tail(replies) /\ r.op = "read" /\ page' = page
    BY DEF ReceiveRequest, Reply
  <1>3. r \in ReadReply /\ Has(b, "reading")
    BY <1>2, HeadOfReplies DEF AnyReply, ReadReply
  <1>4. r.data # Nil => r.data.call \in Calls
    BY <1>3 DEF ReadReply, Request
  <1>5. ~Has(b, "preflight") /\ shown \in BOOLEAN
    BY <1>3, MembersFull, PromptAssumption DEF Full, Base
  <1> HIDE DEF r
  <1> DEFINE y == Received(b, r, shown, selected)
  <1>6. Prudent(y)
    BY <1>4, <1>5, MembersPrudent, ReceivedPrudent
  <1>7. Return(y)
    BY <1>1
  <1> HIDE DEF y
  <1> QED
    BY <1>2, <1>6, <1>7, PrudentHeld, ReturnEnds DEF Prudent

(* The other handlers of the bridge that look at no page. *)
LEMMA RepliesEnd ==
  ASSUME IInv, ConsentInv,
         \/ ReceiveStop \/ ReceiveCancel \/ ResponseWritten \/ \E d \in dialogs : LateReply(d)
         \/ Expires \/ RunWaitCancel
  PROVE  \E y : Held(y) /\ Mild(y) /\ Ends(y)
  <1>1. Prudent(b) /\ b.post = <<>> /\ b.sent = {} /\ b.closed = {} /\ io \in Seq(AnyTask)
    BY MembersPrudent, MembersFull, QueueTypes DEF Clean
  <1>2. ASSUME NEW y, Prudent(y), Ends(y), page' = page
        PROVE  \E z : Held(z) /\ Mild(z) /\ Ends(z)
    BY <1>2, PrudentHeld DEF Prudent
  <1>3. CASE ReceiveStop
    <2> DEFINE y == StopReceived(b, Head(replies).stop)
    <2>1. Ends(y) /\ page' = page
      BY <1>3, ReturnEnds DEF ReceiveStop, tabVars
    <2>2. Prudent(y)
      BY <1>1, StopReceivedPrudent
    <2> QED
      BY <1>2, <2>1, <2>2
  <1>4. CASE ReceiveCancel
    <2> DEFINE d == Drop(b, {"reading_cancel"})
               y == CancelWait(d, Head(replies).id, Head(replies).data)
    <2>1. Ends(y) /\ page' = page
      BY <1>4, ReturnEnds DEF ReceiveCancel, tabVars
    <2>2. Prudent(d)
      BY <1>1, DropPrudent
    <2> HIDE DEF d
    <2>3. Prudent(y)
      BY <2>2, CancelWaitPrudent
    <2> QED
      BY <1>2, <2>1, <2>3
  <1>5. CASE ResponseWritten
    <2> DEFINE y == Written(b, Head(replies).stored)
    <2>1. Ends(y) /\ page' = page
      BY <1>5, ReturnEnds DEF ResponseWritten, tabVars
    <2>2. Prudent(y)
      BY <1>1, WrittenPrudent
    <2> QED
      BY <1>2, <2>1, <2>2
  <1>6. CASE \E d \in dialogs : LateReply(d)
    <2>1. PICK d \in dialogs : LateReply(d)
      BY <1>6
    <2> DEFINE y == Answered(b, d.id, d.doc, FALSE)
    <2>2. Ends(y) /\ page' = page
      BY <2>1 DEF LateReply, Ends, tabVars
    <2>3. Prudent(y)
      BY <1>1, AnsweredSober DEF Prudent
    <2> QED
      BY <1>2, <2>2, <2>3
  <1>7. CASE Expires
    <2> DEFINE y == Raise(b, {"expired"})
    <2>1. Prudent(y)
      BY <1>1, DropPrudent
    <2>2. /\ y.post = <<>> /\ y.sent = {} /\ y.closed = {} /\ Shape(y)
      BY <1>1 DEF Raise, Prudent, Sober, Decent, Shape, Field
    <2>3. b' = y /\ io' = io /\ scripts' = scripts /\ page' = page
      BY <1>7 DEF Expires, tabVars
    <2> HIDE DEF y
    <2>4. y = [y EXCEPT !.post = <<>>, !.sent = {}, !.closed = {}]
      BY <2>2 DEF Shape, Field
    <2>5. io \o y.post = io
      BY <1>1, <2>2
    <2>6. Ends(y)
      BY <2>3, <2>4, <2>5 DEF Ends
    <2> QED
      BY <1>2, <2>1, <2>3, <2>6
  <1>8. CASE RunWaitCancel
    <2> DEFINE y == IF ThisWait(b, uiCancel.id, uiCancel.doc) /\ active = b.tab
                    THEN Error(b, "wait_cancelled") ELSE b
    <2>1. Ends(y) /\ page' = page
      BY <1>8, ReturnEnds DEF RunWaitCancel, tabVars
    <2>2. Prudent(y)
      BY <1>1, PrudentEnds
    <2> QED
      BY <1>2, <2>1, <2>2
  <1> QED
    BY <1>3, <1>4, <1>5, <1>6, <1>7, <1>8

LEMMA TimersEnd ==
  ASSUME IInv, ConsentInv, DeadlineFires \/ WaitLimitFires \/ WakeupFires
  PROVE  \E y : Held(y) /\ Mild(y) /\ Ends(y)
  <1>1. Prudent(b)
    BY MembersPrudent
  <1>2. ASSUME NEW y, Prudent(y), NEW timer, Fires(timer, y)
        PROVE  \E z : Held(z) /\ Mild(z) /\ Ends(z)
    BY <1>2, PrudentHeld, ReturnEnds DEF Prudent, Fires, tabVars
  <1>3. CASE DeadlineFires
    <2> DEFINE d == Drop(b, {"deadline"})
               y == Error(d, "request_expired")
    <2>1. Fires("deadline", y)
      BY <1>3 DEF DeadlineFires
    <2>2. Prudent(d)
      BY <1>1, DropPrudent
    <2> HIDE DEF d
    <2>3. Prudent(y)
      BY <2>2, PrudentEnds
    <2> HIDE DEF y
    <2> QED
      BY <1>2, <2>1, <2>3
  <1>4. CASE WaitLimitFires
    <2> DEFINE d == Drop(b, {"wait_limit_armed"})
               r == Raise(d, {"wait_limit_reached"})
               y == WakeWait(r)
    <2>1. Fires("wait_limit_armed", y)
      BY <1>4 DEF WaitLimitFires
    <2>2. Prudent(d)
      BY <1>1, DropPrudent
    <2> HIDE DEF d
    <2>3. Prudent(r)
      BY <2>2, DropPrudent
    <2> HIDE DEF r
    <2>4. Prudent(y)
      BY <2>3, PrudentEnds
    <2> HIDE DEF y
    <2> QED
      BY <1>2, <2>1, <2>4
  <1>5. CASE WakeupFires
    <2> DEFINE d == Drop(b, {"wait_wakeup"})
               y == Execute(d)
    <2>1. Fires("wait_wakeup", y)
      BY <1>5 DEF WakeupFires
    <2>2. b.command = "wait-change"
      BY <2>1, MembersFull DEF Fires, Full, Base
    <2>3. Prudent(d)
      BY <1>1, DropPrudent
    <2>4. d.command = b.command
      BY <1>1 DEF Drop, Prudent, Sober, Decent, Shape, Field
    <2> HIDE DEF d
    <2>5. Prudent(y)
      BY <2>2, <2>3, <2>4, ExecutePrudent DEF Timid, Acting
    <2> HIDE DEF y
    <2> QED
      BY <1>2, <2>1, <2>5
  <1> QED
    BY <1>3, <1>4, <1>5

(* The window and the user. *)
LEMMA WindowEnds ==
  ASSUME IInv, ConsentInv,
         \/ \E t \in Tabs, o \in Origins \cup {"other"}, same \in BOOLEAN : NavigateTab(t, o, same)
         \/ \E t \in Tabs : CloseTab(t) \/ ActivateTab(t)
         \/ StopLoading \/ UserInteracts \/ AccessibilityEvent
  PROVE  \E y : Held(y) /\ Mild(y) /\ Ends(y)
  <1>1. Prudent(b) /\ page \in [Tabs -> Origin \cup {"closed"}] /\ b.authorized \subseteq Tabs
        /\ b.task \in [Tabs -> [origin : Origins, rules : Rules] \cup {Nil}]
    BY MembersPrudent, MembersFull DEF IInv, TabType, Full, Base, Members
  <1>2. Decent(b) /\ Consent(b, page) /\ Aimed(b) /\ Owned(b) /\ Mild(b)
    BY <1>1 DEF Prudent, Sober
  <1>3. ASSUME NEW y, Prudent(y), Return(y), page' = page
        PROVE  \E z : Held(z) /\ Mild(z) /\ Ends(z)
    BY <1>3, PrudentHeld, ReturnEnds DEF Prudent
  <1>4. ASSUME NEW t \in Tabs, NEW o \in Origins \cup {"other"}, NEW same \in BOOLEAN,
               NavigateTab(t, o, same)
        PROVE  \E y : Held(y) /\ Mild(y) /\ Ends(y)
    <2> DEFINE y == NavigatedTab(b, t, o)
    <2>1. Return(y) /\ page' = [page EXCEPT ![t] = o] /\ page[t] # "closed"
      BY <1>4 DEF NavigateTab, NavigatedTab
    <2>2. b.task[t] # Nil => b.task[t].origin \in Origins
      BY <1>1
    <2>3. Narrows(b, y) /\ Consent(y, [page EXCEPT ![t] = o])
      BY <1>1, <1>2, <2>1, <2>2, NavigatedConsent
    <2> HIDE DEF y
    <2>4. Held(y) /\ Mild(y)
      BY <1>2, <2>1, <2>3 DEF Held, Narrows, Cedes, Aimed, Mild
    <2> QED
      BY <2>1, <2>4, ReturnEnds
  <1>5. ASSUME NEW t \in Tabs, CloseTab(t)
        PROVE  \E y : Held(y) /\ Mild(y) /\ Ends(y)
    <2> DEFINE y == TabClosed(b, t)
    <2>1. Return(y) /\ page' = [page EXCEPT ![t] = "closed"]
      BY <1>5 DEF CloseTab
    <2>2. /\ Decent(y) /\ Consent(y, [page EXCEPT ![t] = "closed"])
          /\ y.id = b.id /\ y.req = b.req /\ y.sent = b.sent
          /\ Has(y, "preflight") => Has(b, "preflight")
          /\ Owned(b) => Owned(y)
      BY <1>1, <1>2, TabClosedConsent
    <2> HIDE DEF y
    <2>3. Held(y) /\ Mild(y)
      BY <1>2, <2>1, <2>2 DEF Held, Aimed, Mild
    <2> QED
      BY <2>1, <2>3, ReturnEnds
  <1>6. ASSUME NEW t \in Tabs, ActivateTab(t)
        PROVE  \E y : Held(y) /\ Mild(y) /\ Ends(y)
    <2> DEFINE y == IF active = b.tab /\ Has(b, "waiting") THEN Error(b, "tab_changed") ELSE b
    <2>1. Return(y) /\ page' = page
      BY <1>6 DEF ActivateTab
    <2>2. Prudent(y)
      BY <1>1, PrudentEnds
    <2> HIDE DEF y
    <2> QED
      BY <1>3, <2>1, <2>2
  <1>7. StopLoading => \E y : Held(y) /\ Mild(y) /\ Ends(y)
    BY <1>1, <1>3, StoppedLoadingPrudent DEF StopLoading, tabVars
  <1>8. UserInteracts => \E y : Held(y) /\ Mild(y) /\ Ends(y)
    BY <1>1, <1>3, UserTookOverPrudent DEF UserInteracts, tabVars
  <1>9. AccessibilityEvent => \E y : Held(y) /\ Mild(y) /\ Ends(y)
    BY <1>1, <1>3, PrudentEnds DEF AccessibilityEvent
  <1> QED
    BY <1>4, <1>5, <1>6, <1>7, <1>8, <1>9

(* The handlers that may send a script that changes a page. *)
LEMMA DeliverResultEnds ==
  ASSUME IInv, ConsentInv, NEW r \in results, DeliverResult(r)
  PROVE  \E y : Held(y) /\ Ends(y) /\ ByRule(b, y)
  <1>1. PICK shown \in PromptShown : Return(Observed(b, r.id, r.doc, r.result, shown))
    BY DEF DeliverResult
  <1>2. page' = page /\ shown \in BOOLEAN
    BY PromptAssumption DEF DeliverResult, tabVars
  <1> DEFINE y == Observed(b, r.id, r.doc, r.result, shown)
  <1>3. ByRule(b, y)
    BY <1>2, MembersPrudent, ObservedByRule
  <1>4. Ends(y)
    BY <1>1, ReturnEnds
  <1> HIDE DEF y
  <1> QED
    BY <1>2, <1>3, <1>4, PrudentHeld DEF ByRule

LEMMA AnswerPromptEnds ==
  ASSUME IInv, ConsentInv, NEW accepted \in BOOLEAN, AnswerPrompt(accepted)
  PROVE  \E y : /\ Held(y) /\ Ends(y) /\ Vetted(b, y)
                /\ Mild(y) \/ b.id \in approved'
  <1> DEFINE y == Answered(b, b.prompt.id, b.prompt.doc, accepted)
  <1>1. Ends(y) /\ page' = page /\ b.prompt # Nil
    BY ReturnEnds DEF AnswerPrompt, tabVars
  <1>2. Sober(y) /\ Vetted(b, y) /\ (Timid(b) \/ ~accepted => Mild(y))
    BY MembersPrudent, AnsweredSober
  <1>3. accepted /\ ~Timid(b) => b.prompt.id \in approved'
    BY DEF AnswerPrompt, Timid
  <1>4. b.prompt.id = b.id
    BY <1>1, MembersFull
  <1> HIDE DEF y
  <1> QED
    BY <1>1, <1>2, <1>3, <1>4, PrudentHeld

(* The rules of the tab in hand allow each action of the request in hand. *)
LEMMA RuleAllows ==
  ASSUME IInv, RequestsKept, ConsentInv, Has(b, "preflight"), RequestRule(b) = "allow",
         b.tab \in Tabs
  PROVE  Allowed(b.tab, published[b.id].call.acts)
  <1>1. /\ b.task \in [Tabs -> [origin : Origins, rules : Rules] \cup {Nil}]
        /\ Has(b, "busy") /\ b.req \in Request
    BY MembersFull DEF Full, Base, Members
  <1>2. b.req.call \in Call
    BY <1>1, CallsAssumption DEF Request
  <1> DEFINE acts == b.req.call.acts
             task == b.task[b.tab]
  <1>3. acts \subseteq Action /\ acts # {}
    BY <1>2 DEF Call, ConsentInv, Aimed
  <1>4. published[b.id].call.acts = acts
    BY <1>1 DEF RequestsKept, AsPublished
  <1>5. acts = b.req.call.acts /\ task = b.task[b.tab]
    OBVIOUS
  <1> HIDE DEF acts, task
  <1>6. \A a \in acts : ActionRule(b, a) = "allow"
    <2> SUFFICES ASSUME NEW a \in acts
                 PROVE  ActionRule(b, a) = "allow"
      OBVIOUS
    <2>1. ActionRule(b, a) \in {"ask", "allow", "deny"}
      <3> DEFINE rule == IF a = "check" THEN "click" ELSE a
      <3>1. rule \in {"fill", "click", "navigate"}
        BY <1>3 DEF Action
      <3>2. task = Nil \/ task.rules \in Rules
        BY <1>1, <1>5
      <3> HIDE DEF rule
      <3>3. task # Nil => task.rules[rule] \in {"ask", "allow", "deny"}
        BY <3>1, <3>2 DEF Rules
      <3> QED
        BY <1>5, <3>3 DEF ActionRule, Covers, rule
    <2>2. "deny" \notin {ActionRule(b, c) : c \in acts} /\ "ask" \notin {ActionRule(b, c) : c \in acts}
      BY <1>5 DEF RequestRule
    <2> QED
      BY <2>1, <2>2
  <1>7. \A a \in acts :
          /\ task # Nil /\ task.origin = page[b.tab]
          /\ task.rules[IF a = "check" THEN "click" ELSE a] = "allow"
    BY <1>5, <1>6 DEF ActionRule, Covers
  <1> QED
    BY <1>3, <1>4, <1>5, <1>7 DEF Allowed

-----------------------------------------------------------------------------
(***************************************************************************)
(* Every step.                                                             *)
(***************************************************************************)
Warranted ==
  \A s \in NewScripts :
    Acts(s) => /\ s.id \in approved' \/ Allowed(s.tab, published[s.id].call.acts)
               /\ active' = s.tab /\ page[s.tab] \in Origins
               /\ s.doc = b'.document

LEMMA HeldReturns ==
  ASSUME NEW y, Held(y), Ends(y)
  PROVE  ConsentInv' /\ (Mild(y) => Warranted)
  <1>1. ConsentInv'
    BY ReturnedSober DEF Held, Ends
  <1>2. Mild(y) => Warranted
    BY DEF Mild, Warranted, NewScripts, Ends
  <1> QED
    BY <1>1, <1>2

LEMMA VettedWarranted ==
  ASSUME NEW y, Held(y), Ends(y), Vetted(b, y), active' = active, IInv,
         \/ b.id \in approved'
         \/ b.tab \in Tabs => Allowed(b.tab, published[b.id].call.acts)
  PROVE  Warranted
  <1>1. b'.document = y.document
    BY DEF Held, Ends, Decent, Shape, Field
  <1>2. b.tab \in Tabs \cup {Nil}
    BY MembersFull DEF Full, Base, Members
  <1> SUFFICES ASSUME NEW s \in NewScripts, Acts(s)
               PROVE  /\ s.id \in approved' \/ Allowed(s.tab, published[s.id].call.acts)
                      /\ active' = s.tab /\ page[s.tab] \in Origins
                      /\ s.doc = b'.document
    BY DEF Warranted
  <1>3. s \in y.sent
    BY DEF NewScripts, Ends
  <1>4. /\ s.id = b.id /\ s.tab = b.tab /\ s.doc = y.document
        /\ Eligible(b.tab) /\ active = b.tab
    BY <1>3 DEF Vetted
  <1> QED
    BY <1>1, <1>2, <1>4 DEF Eligible

LEMMA ConsentStep ==
  ASSUME LInv, IInv, RequestsKept, ConsentInv, [Next]_vars
  PROVE  ConsentInv' /\ Warranted
  <1>1. ASSUME \E y : Held(y) /\ Mild(y) /\ Ends(y)
        PROVE  ConsentInv' /\ Warranted
    BY <1>1, HeldReturns
  <1>2. CASE Poll \/ ReceiveRequest
    BY <1>1, <1>2, PollEnds, ReceiveRequestEnds
  <1>3. CASE \/ ReceiveStop \/ ReceiveCancel \/ ResponseWritten \/ \E d \in dialogs : LateReply(d)
             \/ Expires \/ RunWaitCancel
    BY <1>1, <1>3, RepliesEnd
  <1>4. CASE DeadlineFires \/ WaitLimitFires \/ WakeupFires
    BY <1>1, <1>4, TimersEnd
  <1>5. CASE \/ \E t \in Tabs, o \in Origins \cup {"other"}, same \in BOOLEAN :
                  NavigateTab(t, o, same)
             \/ \E t \in Tabs : CloseTab(t) \/ ActivateTab(t)
             \/ StopLoading \/ UserInteracts \/ AccessibilityEvent
    BY <1>1, <1>5, WindowEnds
  <1>6. ASSUME NEW r \in results, DeliverResult(r)
        PROVE  ConsentInv' /\ Warranted
    <2>1. PICK y : Held(y) /\ Ends(y) /\ ByRule(b, y)
      BY <1>6, DeliverResultEnds
    <2>2. active' = active
      BY <1>6 DEF DeliverResult, tabVars
    <2>3. Mild(y) \/ (b.tab \in Tabs => Allowed(b.tab, published[b.id].call.acts))
      BY <2>1, RuleAllows DEF ByRule
    <2>4. Vetted(b, y)
      BY <2>1 DEF ByRule
    <2> QED
      BY <2>1, <2>2, <2>3, <2>4, HeldReturns, VettedWarranted
  <1>7. ASSUME NEW accepted \in BOOLEAN, AnswerPrompt(accepted)
        PROVE  ConsentInv' /\ Warranted
    <2>1. PICK y : Held(y) /\ Ends(y) /\ Vetted(b, y) /\ (Mild(y) \/ b.id \in approved')
      BY <1>7, AnswerPromptEnds
    <2>2. active' = active
      BY <1>7 DEF AnswerPrompt, tabVars
    <2> QED
      BY <2>1, <2>2, HeldReturns, VettedWarranted
  <1>8. CASE \/ OfferWaitCancel \/ Renderer \/ \E t \in Tabs : ChangePage(t)
             \/ IoSequence \/ Mailbox \/ UNCHANGED vars
    <2>1. b' = b /\ page' = page
      BY <1>8, ElsewhereIdles DEF OfferWaitCancel, Renderer, RunScript, LoseCallback, ChangePage,
         vars, bridgeVars, tabVars
    <2>2. NewScripts = {}
      <3>1. IoSequence \/ Mailbox => scripts' = scripts
        BY ElsewhereIdles
      <3>2. OfferWaitCancel \/ Renderer \/ (\E t \in Tabs : ChangePage(t)) \/ UNCHANGED vars
              => NewScripts = {}
        <4>1. CASE OfferWaitCancel \/ Renderer \/ (\E t \in Tabs : ChangePage(t)) \/ UNCHANGED vars
          <5>1. Quietly
            BY <4>1, QuietSteps
          <5> QED
            BY <5>1 DEF Quietly, Idles
        <4> QED
          BY <4>1
      <3> QED
        BY <1>8, <3>1, <3>2 DEF NewScripts
    <2> QED
      BY <2>1, <2>2 DEF ConsentInv, Consent, Aimed, Has, Warranted
  <1>9. CASE Crash
    <2>1. /\ b'.on = {} /\ b'.authorized = {} /\ b'.task = [t \in Tabs |-> Nil]
          /\ scripts' = {}
      BY <1>9 DEF Crash, InitBridge
    <2> QED
      BY <2>1 DEF ConsentInv, Consent, Aimed, Has, Warranted, NewScripts
  <1> QED
    BY <1>2, <1>3, <1>4, <1>5, <1>6, <1>7, <1>8, <1>9 DEF Next, UIThread, Window

LEMMA InitConsent == Init => ConsentInv
  <1> SUFFICES ASSUME Init
               PROVE  ConsentInv
    OBVIOUS
  <1>1. b.on = {} /\ b.authorized = {} /\ b.task = [t \in Tabs |-> Nil]
    BY DEF Init, InitBridge
  <1> QED
    BY <1>1 DEF ConsentInv, Consent, Aimed, Has

LEMMA InitWait == Init => WaitInv
  <1> SUFFICES ASSUME Init
               PROVE  WaitInv
    OBVIOUS
  <1>1. ~Has(b, "busy")
    BY DEF Init, InitBridge, Has
  <1>2. Queued(io) = {} /\ Queued(replies) = {}
    BY DEF Init, Queued
  <1>3. /\ \A i \in Ids : archive[i] = Nil /\ published[i] = Nil
        /\ request = Nil /\ cancelFiles = {}
    BY DEF Init
  <1> QED
    BY <1>1, <1>2, <1>3 DEF WaitInv, RequestsKept, WaitsTrue

(***************************************************************************)
(* Consent is for pages the user sees: the bridge is attached only to an   *)
(* open tab the user approved, and consent select-tab may come back to is  *)
(* for a granted tab that still shows a page it may work on, whatever      *)
(* navigations, closed tabs, stops and requests come in between            *)
(* (ConsentHeld; Grant, GrantedAgentTab, SelectTab, TabClosed).            *)
(***************************************************************************)
THEOREM ConsentHolds == Spec => []ConsentHeld
  <1>1. LInv /\ IInv /\ WaitInv /\ [Next]_vars => WaitInv'
    BY WaitStep
  <1>2. LInv /\ IInv /\ WaitInv /\ ConsentInv /\ [Next]_vars => ConsentInv'
    BY ConsentStep DEF WaitInv
  <1>3. ConsentInv => ConsentHeld
    BY DEF ConsentInv, Consent, ConsentHeld
  <1>4. Init => WaitInv
    BY InitWait
  <1> QED
    BY <1>1, <1>2, <1>3, <1>4, InitConsent, LedgerInductive, PTL DEF Spec

(* Task rules held for an open tab are rules for the origin it shows:      *)
(* there is no navigation, committed under whatever request, after which   *)
(* they outlive the page they were given for (RulesCoverPage;              *)
(* GrantNavigated, Navigated).                                             *)
THEOREM RulesHold == Spec => []RulesCoverPage
  <1>1. LInv /\ IInv /\ WaitInv /\ [Next]_vars => WaitInv'
    BY WaitStep
  <1>2. LInv /\ IInv /\ WaitInv /\ ConsentInv /\ [Next]_vars => ConsentInv'
    BY ConsentStep DEF WaitInv
  <1>3. ConsentInv => RulesCoverPage
    BY DEF ConsentInv, Consent, RulesCoverPage
  <1>4. Init => WaitInv
    BY InitWait
  <1> QED
    BY <1>1, <1>2, <1>3, <1>4, InitConsent, LedgerInductive, PTL DEF Spec

(***************************************************************************)
(* A script that changes a page is handed to the renderer only if the user *)
(* accepted this very request, or the rules held for the origin the tab    *)
(* shows at that moment allow each of its actions, and only to the tab in  *)
(* front, in the document the bridge observes: a prompt that was closed, a *)
(* rule of another origin or an answer that comes late sends nothing       *)
(* (AuthorizedDispatch; Preflight, Observed, Answered).                    *)
(***************************************************************************)
THEOREM DispatchAuthorized == Spec => AuthorizedDispatch
  <1>1. LInv /\ IInv /\ WaitInv /\ [Next]_vars => WaitInv'
    BY WaitStep
  <1>2. LInv /\ IInv /\ WaitInv /\ ConsentInv /\ [Next]_vars => ConsentInv' /\ Warranted
    BY ConsentStep DEF WaitInv
  <1>3. Warranted =>
          \A s \in NewScripts :
            Acts(s) => /\ s.id \in approved' \/ Allowed(s.tab, published[s.id].call.acts)
                       /\ active' = s.tab /\ page[s.tab] \in Origins
                       /\ s.doc = b'.document
    BY DEF Warranted
  <1>4. Init => WaitInv
    BY InitWait
  <1> QED
    BY <1>1, <1>2, <1>3, <1>4, InitConsent, LedgerInductive, PTL DEF Spec, AuthorizedDispatch

-----------------------------------------------------------------------------
(***************************************************************************)
(* What a stop on disk refuses.                                            *)
(***************************************************************************)

(* Whoever left a stop to be stored is stopped. *)
StopsOwned == \A t \in Queued(io) : t.op = "stop" => b.stopped # NoError

(* A stop that is read while a request is to be read is read before it. *)
ReadLast(q) ==
  \A k \in 1..Len(q) : q[k].op = "readstop" => \E j \in 1..Len(q) : j > k /\ q[j].op = "read"

(* The bridge knows of a stop, or the reply that brings the request does. *)
StopKnown ==
  \A t \in Queued(replies) :
    t.op = "read" /\ t.stop = NoError => stopFile = NoError \/ b.stopped # NoError

StopInv == StopsOwned /\ (Has(b, "reading") => ReadLast(io)) /\ StopKnown

(* A queue without a stop to be read. *)
NoneRead(p) == \E S : p \in Seq(S) /\ \A t \in S : t.op # "readstop"

LEMMA ConcatReadLast ==
  ASSUME NEW q \in Seq(AnyTask), ReadLast(q), NEW p, NoneRead(p)
  PROVE  ReadLast(q \o p)
  <1>1. PICK S : p \in Seq(S) /\ \A t \in S : t.op # "readstop"
    BY DEF NoneRead
  <1> DEFINE T == AnyTask \cup S
             r == q \o p
  <1>2. p \in Seq(T) /\ q \in Seq(T)
    <2>1. AnyTask \subseteq T /\ S \subseteq T
      OBVIOUS
    <2> HIDE DEF T
    <2> QED
      BY <1>1, <2>1, SeqMonotonic
  <1> HIDE DEF T
  <1>3. /\ Len(r) = Len(q) + Len(p) /\ Len(q) \in Nat /\ Len(p) \in Nat
        /\ \A k \in 1..Len(r) : r[k] = IF k <= Len(q) THEN q[k] ELSE p[k - Len(q)]
    BY <1>2, ConcatProperties, LenProperties
  <1>4. \A k \in 1..Len(p) : p[k].op # "readstop"
    BY <1>1, ElementOfSeq
  <1> HIDE DEF r
  <1>5. ASSUME NEW k \in 1..Len(r), r[k].op = "readstop"
        PROVE  \E j \in 1..Len(r) : j > k /\ r[j].op = "read"
    <2>1. CASE k <= Len(q)
      <3>1. k \in 1..Len(q) /\ q[k].op = "readstop"
        BY <1>3, <1>5, <2>1
      <3>2. PICK j \in 1..Len(q) : j > k /\ q[j].op = "read"
        BY <3>1 DEF ReadLast
      <3>3. j \in 1..Len(r) /\ r[j] = q[j]
        BY <1>3, <3>2
      <3> QED
        BY <3>2, <3>3
    <2>2. CASE k > Len(q)
      <3>1. k - Len(q) \in 1..Len(p) /\ r[k] = p[k - Len(q)]
        BY <1>3, <2>2
      <3> QED
        BY <1>4, <1>5, <3>1
    <2> QED
      BY <1>3, <2>1, <2>2
  <1> QED
    BY <1>5 DEF ReadLast, r

LEMMA TailReadLast ==
  ASSUME NEW S, NEW q \in Seq(S), q # <<>>, ReadLast(q)
  PROVE  ReadLast(Tail(q))
  <1> DEFINE r == Tail(q)
  <1>1. /\ Len(q) \in Nat /\ Len(q) >= 1 /\ Len(r) = Len(q) - 1
        /\ \A k \in 1..Len(r) : r[k] = q[k + 1]
    BY HeadTailProperties, EmptySeq, LenProperties
  <1> HIDE DEF r
  <1>2. ASSUME NEW k \in 1..Len(r), r[k].op = "readstop"
        PROVE  \E j \in 1..Len(r) : j > k /\ r[j].op = "read"
    <2>1. k + 1 \in 1..Len(q) /\ q[k + 1].op = "readstop"
      BY <1>1, <1>2
    <2>2. PICK j \in 1..Len(q) : j > k + 1 /\ q[j].op = "read"
      BY <2>1 DEF ReadLast
    <2>3. j - 1 \in 1..Len(r) /\ r[j - 1] = q[(j - 1) + 1] /\ (j - 1) + 1 = j /\ j - 1 > k
      BY <1>1, <2>2
    <2> QED
      BY <2>2, <2>3
  <1> QED
    BY <1>2 DEF ReadLast, r

(* Nothing is to be read before a request that was read. *)
LEMMA QuietReadLast ==
  ASSUME NEW q \in Seq(AnyTask), Quiet(q), ReadLast(q)
  PROVE  Never(q, "readstop")
  BY DEF Quiet, IsRead, ReadLast, Never, Queued

(* The queue after a read. *)
LEMMA AppendReadLast ==
  ASSUME NEW S, NEW q \in Seq(S), NEW e, e.op = "read"
  PROVE  ReadLast(Append(q, e))
  <1> DEFINE r == Append(q, e)
             T == S \cup {e}
  <1>1. q \in Seq(T) /\ e \in T
    <2>1. S \subseteq T /\ e \in T
      OBVIOUS
    <2> HIDE DEF T
    <2> QED
      BY <2>1, SeqMonotonic
  <1> HIDE DEF T
  <1>2. Len(q) \in Nat /\ Len(r) = Len(q) + 1 /\ r[Len(q) + 1] = e
    BY <1>1, AppendProperties, LenProperties
  <1> HIDE DEF r
  <1>3. ASSUME NEW k \in 1..Len(r), r[k].op = "readstop"
        PROVE  k < Len(q) + 1
    <2>1. k # Len(q) + 1
      BY <1>2, <1>3
    <2> QED
      BY <1>2, <2>1
  <1> QED
    BY <1>2, <1>3 DEF ReadLast, r

LEMMA PollReadLast ==
  ASSUME IInv, Poll, Has(b', "reading")
  PROVE  ReadLast(io')
  <1> DEFINE t == [op |-> "read"]
             r == Raise(b, {"reading"})
             z == Post(r, t)
  <1>1. Full(b) /\ Clean(b) /\ io \in Seq(AnyTask)
    BY MembersFull, QueueTypes
  <1>2. Has(b, "reading") => ~Has(b, "busy")
    BY <1>1 DEF Full, Base
  <1>3. Has(b', "reading") <=> MayRead(b) \/ Has(b, "reading")
    BY PollPosts
  <1>4. MayRead(b) /\ ~Has(b, "busy")
    <2>1. MayRead(b) => ~Has(b, "busy")
      BY DEF MayRead, Has
    <2>2. Has(b, "busy") \/ MayRead(b)
      BY DEF Poll
    <2> QED
      BY <1>2, <1>3, <2>1, <2>2
  <1>5. Return(z)
    BY <1>4 DEF Poll
  <1>6. r.post = <<>> /\ Shape(r)
    BY <1>1, FullSilent DEF Raise, Clean, Shape, Field
  <1> HIDE DEF r
  <1>7. z.post = Append(r.post, t)
    BY <1>6 DEF Post, Shape, Field
  <1>8. t.op = "read"
    OBVIOUS
  <1>9. io' = io \o Append(<<>>, t)
    BY <1>5, <1>6, <1>7 DEF Return
  <1> HIDE DEF t, z
  <1>10. io' = Append(io, t)
    <2> DEFINE S == AnyTask \cup {t}
    <2>1. io \in Seq(S) /\ t \in S
      <3>1. AnyTask \subseteq S /\ t \in S
        OBVIOUS
      <3> HIDE DEF S
      <3> QED
        BY <1>1, <3>1, SeqMonotonic
    <2> HIDE DEF S
    <2>2. Append(<<>>, t) = <<t>>
      OBVIOUS
    <2> QED
      BY <1>9, <2>1, <2>2, AppendIsConcat
  <1> QED
    BY <1>1, <1>8, <1>10, AppendReadLast

(* A handler that goes on has no stop read. *)
LEMMA GoesOnReadLast ==
  ASSUME IInv, NEW E, GoesOn(E), Has(b', "reading"), Has(b, "reading") => ReadLast(io)
  PROVE  ReadLast(io')
  <1>1. PICK x, y : TakenUp(x) /\ Outcome(x, y, E) /\ Handles(y)
    BY DEF GoesOn
  <1>2. Has(b', "reading") <=> Has(y, "reading")
    BY <1>1, HandledMembers
  <1>3. Has(b, "reading")
    BY <1>1, <1>2 DEF TakenUp, Outcome, SameRequest
  <1>4. io \in Seq(AnyTask) /\ io' = io \o y.post
    BY <1>1, QueueTypes DEF Handles
  <1>5. \A t \in HandlerTask : t.op # "readstop"
    BY DEF HandlerTask
  <1>6. NoneRead(y.post)
    <2>1. CASE Going(x, y, E) \/ Sends(x, y, E)
      BY <1>5, <2>1 DEF Going, Sends, Silent, NoneRead
    <2>2. CASE Answers(x, y, E)
      <3>1. PICK p, a : p \in Seq(HandlerTask) /\ y.post = Append(p, [op |-> "respond", answer |-> a])
        BY <2>2 DEF Answers
      <3> DEFINE e == [op |-> "respond", answer |-> a]
                 S == HandlerTask \cup {e}
      <3>2. y.post = Append(p, e) /\ e.op = "respond"
        BY <3>1
      <3> HIDE DEF e
      <3>3. p \in Seq(S)
        <4>1. HandlerTask \subseteq S
          OBVIOUS
        <4> HIDE DEF S
        <4> QED
          BY <3>1, <4>1, SeqMonotonic
      <3>4. e \in S /\ \A t \in S : t.op # "readstop"
        BY <1>5, <3>2
      <3> HIDE DEF S
      <3>5. Append(p, e) \in Seq(S)
        BY <3>3, <3>4
      <3> QED
        BY <3>2, <3>4, <3>5 DEF NoneRead
    <2> QED
      BY <1>1, <2>1, <2>2 DEF Outcome
  <1> QED
    BY <1>3, <1>4, <1>6, ConcatReadLast

(* A bridge that has just taken up a reply reads nothing. *)
LEMMA ArrivesUnread ==
  ASSUME IInv, NEW E, Arrives(E)
  PROVE  ~Has(b', "reading")
  <1> DEFINE r == Head(replies)
  <1>1. PICK y : Shape(y) /\ Handles(y) /\ Arrived(r, y, E)
    BY DEF Arrives
  <1> HIDE DEF r
  <1>2. Has(b', "reading") <=> Has(y, "reading")
    BY <1>1, ShapedMembers
  <1>3. ASSUME NEW z, Begins(b, r.data, z, E), Outcome(z, y, E)
        PROVE  ~Has(y, "reading")
    BY <1>3 DEF Begins, Outcome, SameRequest
  <1>4. Rests(b, y, E) => ~Has(y, "reading")
    BY DEF Rests
  <1> QED
    BY <1>1, <1>2, <1>3, <1>4 DEF Arrived

(* These handlers leave the queue as it is. *)
LEMMA AsideReads ==
  ASSUME LInv, IInv, ResponseWritten \/ Expires \/ \E d \in dialogs : LateReply(d)
  PROVE  io' = io /\ b'.stopped = b.stopped /\ (Has(b', "reading") <=> Has(b, "reading"))
  <1>1. /\ b \in Members /\ Shape(b) /\ b.post = <<>> /\ b.sent = {} /\ b.closed = {}
        /\ io \in Seq(AnyTask)
    BY MembersFull, FullSilent, QueueTypes DEF Full, Base, Clean
  <1>2. io \o <<>> = io
    BY <1>1, ConcatEmptySeq
  <1>3. CASE ResponseWritten
    <2> DEFINE y == Written(b, Head(replies).stored)
    <2>1. /\ Shape(y) /\ y.post = <<>> /\ SameFields(b, y)
          /\ y.on \in {b.on \ {"writing_response"},
                       (b.on \ {"writing_response"}) \cup {"quarantined"}}
      BY <1>1 DEF Written, Drop, Raise, Shape, Field, SameFields
    <2>2. Return(y)
      BY <1>3 DEF ResponseWritten
    <2> HIDE DEF y
    <2>3. b'.on = y.on /\ b'.stopped = y.stopped /\ io' = io
      BY <1>2, <2>1, <2>2 DEF Return, Shape, Field
    <2> QED
      BY <2>1, <2>3 DEF Has, SameFields
  <1>4. CASE Expires
    BY <1>1, <1>4 DEF Expires, Raise, Has, Shape, Field
  <1>5. CASE \E d \in dialogs : LateReply(d)
    <2>1. PICK d \in dialogs : LateReply(d)
      BY <1>5
    <2>2. Has(b, "busy") => d.id # b.id
      BY DEF LInv, WorkInv, CurrentOK, Unprompted
    <2>3. Answered(b, d.id, d.doc, FALSE) = b
      BY <2>2, SMTT(30) DEF Answered, ForThisRequest
    <2>4. b' = [b EXCEPT !.post = <<>>, !.sent = {}, !.closed = {}] /\ io' = io
      BY <1>1, <1>2, <2>1, <2>3 DEF LateReply
    <2> QED
      BY <1>1, <2>4 DEF Has, Shape, Field
  <1> QED
    BY <1>3, <1>4, <1>5

(* A read that finds no stop leaves none on file. *)
LEMMA NoStopRead ==
  ASSUME NEW outcome \in IoOutcomes, Stop(outcome) = NoError
  PROVE  StopFileAfterRead(stopFile, clientStop, outcome) = NoError
  <1>1. outcome \in {"done", "refused", "torn"}
    BY OutcomesAssumption
  <1> QED
    BY <1>1, MembersSilent DEF Stop, StopRead, StopFileAfterRead, StoredStop

LEMMA StopIo ==
  ASSUME IInv, StopInv, IoSequence
  PROVE  StopInv'
  <1>1. io # <<>> /\ io' = Tail(io) /\ b' = b
    BY DEF IoSequence, ReadRequest, ReadStop, StoreStop, WriteDurableResponse,
       ReadWaitCancellation, WriteResponse, Task
  <1>2. io \in Seq(AnyTask) /\ replies \in Seq(AnyReply)
    BY QueueTypes
  <1>3. /\ Head(io) \in Queued(io) /\ Queued(Tail(io)) \subseteq Queued(io)
        /\ Never(io, "stop") => Never(Tail(io), "stop")
    BY <1>1, <1>2, TailQueue
  <1>4. StopsOwned'
    BY <1>1, <1>3 DEF StopInv, StopsOwned
  <1>5. Has(b', "reading") => ReadLast(io')
    BY <1>1, <1>2, TailReadLast DEF StopInv
  <1>6. ASSUME NEW t \in Queued(replies), t.op = "read"
        PROVE  Quiet(io) /\ Has(b, "reading")
    <2>1. ~Quiet(replies)
      BY <1>6 DEF Queued, Quiet, IsRead
    <2> QED
      BY <2>1 DEF IInv, ReadOnce
  <1>7. CASE \E outcome, stopOutcome \in IoOutcomes : ReadRequest(outcome, stopOutcome)
    <2>1. PICK outcome, stopOutcome \in IoOutcomes : ReadRequest(outcome, stopOutcome)
      BY <1>7
    <2>2. PICK e : /\ replies' = Append(replies, e) /\ e.stop = Stop(stopOutcome)
                   /\ Head(io).op = "read"
                   /\ stopFile' = StopFileAfterRead(stopFile, clientStop, stopOutcome)
      BY <2>1 DEF ReadRequest, Task
    <2>3. Queued(replies') = Queued(replies) \cup {e}
      BY <2>2, ReplyQueued
    <2>4. ~Quiet(io)
      BY <1>3, <2>2 DEF Queued, Quiet, IsRead
    <2>5. \A t \in Queued(replies') : t.op = "read" => t = e
      BY <1>6, <2>3, <2>4
    <2>6. e.stop = NoError => stopFile' = NoError
      BY <2>2, NoStopRead
    <2>7. StopKnown'
      BY <2>5, <2>6 DEF StopKnown
    <2> QED
      BY <1>4, <1>5, <2>7 DEF StopInv
  <1>8. CASE \E outcome \in IoOutcomes : ReadStop(outcome)
    <2>1. PICK e : replies' = Append(replies, e) /\ e.op = "readstop" /\ Head(io).op = "readstop"
      BY <1>8 DEF ReadStop, Task
    <2>2. Queued(replies') = Queued(replies) \cup {e}
      BY <2>1, ReplyQueued
    <2>3. \A t \in Queued(replies') : t.op # "read"
      <3> SUFFICES ASSUME NEW t \in Queued(replies), t.op = "read"
                   PROVE  FALSE
        BY <2>1, <2>2
      <3>1. Never(io, "readstop")
        BY <1>2, <1>6, QuietReadLast DEF StopInv
      <3> QED
        BY <1>3, <2>1, <3>1 DEF Never
    <2> QED
      BY <1>4, <1>5, <2>3 DEF StopInv, StopKnown
  <1>9. CASE \E outcome \in IoOutcomes : StoreStop(outcome)
    <2>1. Head(io).op = "stop" /\ replies' = replies
      BY <1>9 DEF StoreStop, Task
    <2>2. b'.stopped # NoError
      BY <1>1, <1>3, <2>1 DEF StopInv, StopsOwned
    <2> QED
      BY <1>4, <1>5, <2>2 DEF StopInv, StopKnown
  <1>10. CASE \/ \E outcome \in IoOutcomes : WriteDurableResponse(outcome)
              \/ ReadWaitCancellation \/ WriteResponse
    <2>1. /\ stopFile' = stopFile
          /\ replies' = replies \/ \E e : replies' = Append(replies, e) /\ e.op # "read"
      <3>1. CASE \E outcome \in IoOutcomes : WriteDurableResponse(outcome)
        BY <3>1 DEF WriteDurableResponse
      <3>2. CASE ReadWaitCancellation
        BY <3>2 DEF ReadWaitCancellation
      <3>3. CASE WriteResponse
        BY <3>3 DEF WriteResponse
      <3> QED
        BY <1>10, <3>1, <3>2, <3>3
    <2>2. \A t \in Queued(replies') : t.op = "read" => t \in Queued(replies)
      BY <2>1, ReplyQueued
    <2> QED
      BY <1>1, <1>4, <1>5, <2>1, <2>2 DEF StopInv, StopKnown
  <1> QED
    BY <1>7, <1>8, <1>9, <1>10 DEF IoSequence

(* A step of the UI thread, the window or the mailbox that keeps StopInv. *)
Minds ==
  /\ b.stopped # NoError => b'.stopped # NoError
  /\ StopsOwned' /\ (Has(b', "reading") => ReadLast(io'))
  /\ Queued(replies') \subseteq Queued(replies) /\ stopFile' = stopFile

LEMMA MindsKeep ==
  ASSUME StopInv, Minds
  PROVE  StopInv'
  BY DEF StopInv, Minds, StopKnown

LEMMA EndsOwned ==
  ASSUME IInv, StopInv, NEW y, Held(y), Ends(y), b.stopped # NoError => b'.stopped # NoError
  PROVE  StopsOwned'
  <1>1. b'.stopped = y.stopped /\ io' = io \o y.post /\ io \in Seq(AnyTask)
    BY QueueTypes DEF Held, Decent, Ends, Shape, Field
  <1>2. CASE y.stopped # NoError
    BY <1>1, <1>2 DEF StopsOwned
  <1>3. CASE y.stopped = NoError
    <2>1. PICK S : y.post \in Seq(S) /\ \A t \in S : t.op # "stop"
      BY <1>3 DEF Held, Owned, NoStop
    <2> DEFINE T == AnyTask \cup S
               p == y.post
    <2>2. p \in Seq(T) /\ io \in Seq(T)
      <3>1. AnyTask \subseteq T /\ S \subseteq T
        OBVIOUS
      <3> HIDE DEF T
      <3> QED
        BY <1>1, <2>1, <3>1, SeqMonotonic
    <2> HIDE DEF T
    <2>3. \A t \in Queued(p) : t.op # "stop"
      BY <2>1, ElementOfSeq DEF Queued
    <2> HIDE DEF p
    <2>4. /\ Queued(io \o p) = Queued(io) \cup Queued(p)
          /\ Sole(io, "stop") /\ Never(p, "stop") => Sole(io \o p, "stop")
      BY <2>2, ConcatQueue
    <2>5. io' = io \o p
      BY <1>1 DEF p
    <2>6. \A t \in Queued(io) : t.op # "stop"
      BY <1>1, <1>3 DEF StopInv, StopsOwned
    <2> QED
      BY <2>3, <2>4, <2>5, <2>6 DEF StopsOwned
  <1> QED
    BY <1>2, <1>3

LEMMA GoesOnMinds ==
  ASSUME IInv, StopInv, GoesOn(ErrorCode), stopFile' = stopFile, \E y : Held(y) /\ Ends(y)
  PROVE  Minds /\ (Has(b, "reading") => Has(b', "reading"))
  <1> DEFINE E == ErrorCode
  <1>1. b.stopped # NoError => b'.stopped = b.stopped
    BY StoppedGoesOn DEF StaysStopped
  <1>2. StopsOwned'
    BY <1>1, EndsOwned
  <1>3. GoesOn(E)
    OBVIOUS
  <1> HIDE DEF E
  <1>4. Has(b', "reading") => ReadLast(io')
    BY <1>3, GoesOnReadLast DEF StopInv
  <1>5. PICK x, y : TakenUp(x) /\ Outcome(x, y, E) /\ Handles(y)
    BY <1>3 DEF GoesOn
  <1>6. Has(b', "reading") <=> Has(y, "reading")
    BY <1>5, HandledMembers
  <1>7. Has(b, "reading") => Has(b', "reading")
    BY <1>5, <1>6 DEF TakenUp, Outcome, SameRequest
  <1>8. Queued(replies') \subseteq Queued(replies)
    BY <1>5, RepliesLeft DEF Handles
  <1> QED
    BY <1>1, <1>2, <1>4, <1>7, <1>8 DEF Minds

LEMMA HandledMinds ==
  ASSUME LInv, IInv, ConsentInv, StopInv,
         \/ ReceiveStop \/ ReceiveCancel \/ \E r \in results : DeliverResult(r)
         \/ \E accepted \in BOOLEAN : AnswerPrompt(accepted)
         \/ DeadlineFires \/ WaitLimitFires \/ WakeupFires \/ RunWaitCancel
         \/ \E t \in Tabs, o \in Origins \cup {"other"}, same \in BOOLEAN :
              NavigateTab(t, o, same)
         \/ \E t \in Tabs : CloseTab(t) \/ ActivateTab(t)
         \/ StopLoading \/ UserInteracts \/ AccessibilityEvent
  PROVE  Minds /\ (Has(b, "reading") => Has(b', "reading"))
  <1> DEFINE E == ErrorCode
  <1>1. /\ Acceptable(E) /\ PromptsAre(E) /\ "user_cancelled" \in E /\ "wait_cancelled" \in E
        /\ StopReasons \cup {Unreadable} \subseteq E
    BY AnyCause, MembersSilent
  <1> HIDE DEF E
  <1>2. Handled(E)
    BY <1>1, AnyHandled
  <1>3. GoesOn(E)
    BY <1>1, <1>2, HandledGoesOn
  <1>4. stopFile' = stopFile
    BY HandlersLeaveDisk DEF diskVars
  <1>5. \E y : Held(y) /\ Ends(y)
    <2>1. CASE ReceiveStop \/ ReceiveCancel \/ RunWaitCancel
      BY <2>1, RepliesEnd
    <2>2. CASE DeadlineFires \/ WaitLimitFires \/ WakeupFires
      BY <2>2, TimersEnd
    <2>3. CASE \/ \E t \in Tabs, o \in Origins \cup {"other"}, same \in BOOLEAN :
                    NavigateTab(t, o, same)
               \/ \E t \in Tabs : CloseTab(t) \/ ActivateTab(t)
               \/ StopLoading \/ UserInteracts \/ AccessibilityEvent
      BY <2>3, WindowEnds
    <2>4. CASE \E r \in results : DeliverResult(r)
      BY <2>4, DeliverResultEnds
    <2>5. CASE \E accepted \in BOOLEAN : AnswerPrompt(accepted)
      BY <2>5, AnswerPromptEnds
    <2> QED
      BY <2>1, <2>2, <2>3, <2>4, <2>5
  <1> QED
    BY <1>3, <1>4, <1>5, GoesOnMinds DEF E

LEMMA AsideMinds ==
  ASSUME LInv, IInv, ConsentInv, StopInv,
         \/ Poll \/ ResponseWritten \/ Expires \/ \E d \in dialogs : LateReply(d)
         \/ OfferWaitCancel \/ Renderer \/ \E t \in Tabs : ChangePage(t)
         \/ Mailbox \/ UNCHANGED vars
  PROVE  Minds /\ (Has(b, "reading") => Has(b', "reading"))
  <1>1. CASE Poll
    <2>1. Quietly
      BY <1>1, PollQuietly
    <2>2. b'.stopped = b.stopped /\ Queued(replies') \subseteq Queued(replies) /\ stopFile' = stopFile
      BY <2>1 DEF Quietly, Idles, SameFields, diskVars
    <2>3. StopsOwned'
      BY <1>1, <2>2, PollEnds, EndsOwned
    <2>4. Has(b', "reading") => ReadLast(io')
      BY <1>1, PollReadLast
    <2>5. Has(b, "reading") => Has(b', "reading")
      BY <1>1, PollPosts
    <2> QED
      BY <2>2, <2>3, <2>4, <2>5 DEF Minds
  <1>2. CASE ResponseWritten \/ Expires \/ \E d \in dialogs : LateReply(d)
    <2>1. Quietly
      BY <1>2, QuietSteps
    <2>2. Queued(replies') \subseteq Queued(replies) /\ stopFile' = stopFile
      BY <2>1 DEF Quietly, diskVars
    <2>3. io' = io /\ b'.stopped = b.stopped /\ (Has(b', "reading") <=> Has(b, "reading"))
      BY <1>2, AsideReads
    <2> QED
      BY <2>2, <2>3 DEF Minds, StopInv, StopsOwned
  <1>3. CASE \/ OfferWaitCancel \/ Renderer \/ \E t \in Tabs : ChangePage(t)
             \/ Mailbox \/ UNCHANGED vars
    <2>1. UNCHANGED <<b, io, replies, stopFile>>
      BY <1>3 DEF OfferWaitCancel, Renderer, RunScript, LoseCallback, ChangePage, Mailbox, Publish,
         Republish, ClientCancelsWait, ClientStops, vars, bridgeVars, diskVars
    <2> QED
      BY <2>1 DEF Minds, StopInv, StopsOwned, Has
  <1> QED
    BY <1>1, <1>2, <1>3

(* A request that is read after a stop is refused. *)
LEMMA ArrivesMinds ==
  ASSUME LInv, IInv, ConsentInv, StopInv, ReceiveRequest
  PROVE  /\ Minds
         /\ stopFile # NoError => NewScripts = {} /\ b'.prompt = Nil /\ b'.stopped # NoError
  <1> DEFINE E == ErrorCode
             r == Head(replies)
  <1>1. /\ Acceptable(E) /\ PromptsAre(E) /\ StopReasons \cup {Unreadable} \subseteq E
        /\ Ordinary \subseteq E /\ NoError \notin E
    BY AnyCause, MembersSilent DEF Acceptable
  <1>2. r.stop = NoError \/ r.stop \in E
    <2>1. r.stop \in Reason
      BY HeadOfReplies DEF ReceiveRequest, Reply, AnyReply, ReadReply
    <2> QED
      BY <1>1, <2>1 DEF Reason
  <1>3. Arrives(E)
    <2> HIDE DEF E
    <2> QED
      BY <1>1, <1>2, ReceiveRequestArrives
  <1>4. PICK y : /\ Shape(y) /\ Handles(y) /\ Arrived(r, y, E)
                 /\ r.stop # NoError => y.stopped # NoError
    BY <1>3 DEF Arrives
  <1>5. r \in Queued(replies) /\ r.op = "read"
    BY <1>3 DEF Arrives, ReadReply
  <1>6. b.stopped # NoError => b'.stopped = b.stopped
    BY <1>3, StoppedArrives DEF StaysStopped
  <1>7. stopFile # NoError => b.stopped # NoError \/ r.stop # NoError
    BY <1>5 DEF StopInv, StopKnown
  <1> HIDE DEF E, r
  <1>8. b'.stopped = y.stopped /\ b'.prompt = y.prompt /\ scripts' = scripts \cup y.sent
    BY <1>4, ShapedMembers DEF Handles
  <1>9. b.stopped # NoError \/ r.stop # NoError => y.sent = {} /\ y.prompt = Nil
    <2>1. CASE Rests(b, y, E)
      BY <2>1 DEF Rests
    <2>2. CASE \E z : /\ Begins(b, r.data, z, E) /\ Outcome(z, y, E)
                      /\ b.stopped # NoError \/ r.stop # NoError => ~Has(y, "busy")
      <3>1. PICK z : /\ Begins(b, r.data, z, E) /\ Outcome(z, y, E)
                     /\ b.stopped # NoError \/ r.stop # NoError => ~Has(y, "busy")
        BY <2>2
      <3>2. Has(z, "busy")
        BY <3>1 DEF Begins, Begun, Ready
      <3>3. b.stopped # NoError \/ r.stop # NoError => Answers(z, y, E)
        BY <3>1, <3>2 DEF Outcome, Going, Sends
      <3> QED
        BY <3>3 DEF Answers
    <2> QED
      BY <1>4, <2>1, <2>2 DEF Arrived
  <1>10. Minds
    <2>1. StopsOwned'
      BY <1>6, ReceiveRequestEnds, EndsOwned
    <2>2. ~Has(b', "reading")
      BY <1>3, ArrivesUnread
    <2>3. stopFile' = stopFile
      BY HandlersLeaveDisk DEF diskVars
    <2>4. Queued(replies') \subseteq Queued(replies)
      BY <1>4, RepliesLeft DEF Handles
    <2> QED
      BY <1>6, <2>1, <2>2, <2>3, <2>4 DEF Minds
  <1>11. stopFile # NoError => NewScripts = {} /\ b'.prompt = Nil /\ b'.stopped # NoError
    BY <1>4, <1>6, <1>7, <1>8, <1>9 DEF NewScripts
  <1> QED
    BY <1>10, <1>11

LEMMA StopStep ==
  ASSUME LInv, IInv, ConsentInv, StopInv, [Next]_vars
  PROVE  /\ StopInv'
         /\ Has(b, "reading") /\ ~Has(b', "reading") /\ stopFile # NoError /\ ~Crash
              => NewScripts = {} /\ b'.prompt = Nil /\ b'.stopped # NoError
  <1>1. CASE \/ Poll \/ ResponseWritten \/ Expires \/ \E d \in dialogs : LateReply(d)
             \/ OfferWaitCancel \/ Renderer \/ \E t \in Tabs : ChangePage(t)
             \/ Mailbox \/ UNCHANGED vars
    BY <1>1, AsideMinds, MindsKeep
  <1>2. CASE \/ ReceiveStop \/ ReceiveCancel \/ \E r \in results : DeliverResult(r)
             \/ \E accepted \in BOOLEAN : AnswerPrompt(accepted)
             \/ DeadlineFires \/ WaitLimitFires \/ WakeupFires \/ RunWaitCancel
             \/ \E t \in Tabs, o \in Origins \cup {"other"}, same \in BOOLEAN :
                  NavigateTab(t, o, same)
             \/ \E t \in Tabs : CloseTab(t) \/ ActivateTab(t)
             \/ StopLoading \/ UserInteracts \/ AccessibilityEvent
    BY <1>2, HandledMinds, MindsKeep
  <1>3. CASE ReceiveRequest
    BY <1>3, ArrivesMinds, MindsKeep
  <1>4. CASE IoSequence
    <2>1. b' = b
      BY <1>4, ElsewhereIdles
    <2> QED
      BY <1>4, <2>1, StopIo DEF Has
  <1>5. CASE Crash
    <2>1. io' = <<>> /\ replies' = <<>> /\ b'.on = {}
      BY <1>5 DEF Crash, InitBridge
    <2>2. Queued(io') = {} /\ Queued(replies') = {}
      BY <2>1 DEF Queued
    <2> QED
      BY <1>5, <2>1, <2>2 DEF StopInv, StopsOwned, StopKnown, Has
  <1> QED
    BY <1>1, <1>2, <1>3, <1>4, <1>5 DEF Next, UIThread, Window

LEMMA InitStop == Init => StopInv
  <1> SUFFICES ASSUME Init
               PROVE  StopInv
    OBVIOUS
  <1>1. ~Has(b, "reading") /\ Queued(io) = {} /\ Queued(replies) = {}
    BY DEF Init, InitBridge, Has, Queued
  <1> QED
    BY <1>1 DEF StopInv, StopsOwned, StopKnown

(***************************************************************************)
(* A request that is taken up while a stop is on file, readable or not,    *)
(* starts nothing, in the process that was stopped and in every later one: *)
(* the reply that brings it brings the stop, since nothing stores a stop   *)
(* between the two without stopping the bridge itself (StopRefusesRequests;*)
(* ReadRequest, which reads the stop after the request, and Received).     *)
(***************************************************************************)
THEOREM StopRefused == Spec => StopRefusesRequests
  <1>1. LInv /\ IInv /\ WaitInv /\ [Next]_vars => WaitInv'
    BY WaitStep
  <1>2. LInv /\ IInv /\ WaitInv /\ ConsentInv /\ [Next]_vars => ConsentInv'
    BY ConsentStep DEF WaitInv
  <1>3. LInv /\ IInv /\ ConsentInv /\ StopInv /\ [Next]_vars => StopInv'
    BY StopStep
  <1>4. ASSUME LInv, IInv, IInv', CountOK, ConsentInv, StopInv, [Next]_vars,
               Has(b, "reading"), ~Has(b', "reading"), stopFile # NoError,
               count'.crashes = count.crashes
        PROVE  NewScripts = {} /\ b'.prompt = Nil /\ ~Has(b', "attached")
    <2>1. ~Crash
      BY <1>4, StepCounts DEF Crash, CountOK
    <2>2. NewScripts = {} /\ b'.prompt = Nil /\ b'.stopped # NoError
      BY <1>4, <2>1, StopStep
    <2>3. StopSticky(b)'
      BY <1>4, IInvControlOK DEF ControlOK, IInv, BridgeInv, Full, Base, StopSticky
    <2> QED
      BY <2>2, <2>3 DEF StopSticky
  <1>5. Init => WaitInv
    BY InitWait
  <1> QED
    BY <1>1, <1>2, <1>3, <1>4, <1>5, InitConsent, InitStop, LedgerInductive, Counting, PTL
       DEF Spec, StopRefusesRequests
=============================================================================
