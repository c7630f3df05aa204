------------------------- MODULE AgentBridgeProofs -------------------------
(***************************************************************************)
(* TypeOK and ControlOK hold in every state of AgentBridge, for every      *)
(* value of the constants that satisfies CallsAssumption,                  *)
(* OutcomesAssumption and PromptAssumption.                                *)
(*                                                                         *)
(* The first part has one lemma for each function of AgentBridgeImpl,      *)
(* about the members it leaves.  Between handlers the members satisfy      *)
(* Full.  Inside one they may satisfy less, since flags, deferred_error_   *)
(* and the prompt change one after another; Base is what is left of Full   *)
(* at every point where one function calls another.                        *)
(*                                                                         *)
(* The second part has one lemma for each action.  IInv is the inductive   *)
(* invariant: what the first part proves of the members, the types of what *)
(* is in flight, on disk and in the window, and ReadOnce.                  *)
(*                                                                         *)
(* The third part says what a handler can have made of the members when it *)
(* returns.  Each function of the class is shown to do one of three things *)
(* (Outcome), so the invariants about the mailbox, the renderer and the    *)
(* user are proved over three outcomes and not over every path of every    *)
(* command.                                                                *)
(***************************************************************************)
EXTENDS AgentBridgeProperties, SequenceTheorems, TLAPS

(* Tasks a handler posts (Poll posts the others), and all tasks and replies. *)
HandlerTask ==
  [op : {"stop"}, reason : StopReasons] \cup [op : {"respond", "rewrite"}, answer : Answer]
AnyTask == HandlerTask \cup [op : {"read", "readstop"}] \cup [op : {"cancel"}, id : Ids]

ReadReply ==
  [op : {"read"}, data : Request \cup {Nil}, stop : Reason, fresh : BOOLEAN,
   cached : Answer \cup {Nil}]

AnyReply ==
  ReadReply \cup [op : {"readstop"}, stop : Reason]
  \cup [op : {"cancel"}, id : Ids, data : WaitName \cup {Nil}]
  \cup [op : {"respond"}, stored : BOOLEAN]

Result == [kind : {"none", "error", "text", "preflight", "nodes", "partial"},
           truncated : BOOLEAN, content : Nat]

(* A record of members while a handler is at work. *)
Members ==
  [on : SUBSET Flag, tab : Tabs \cup {Nil}, id : IdOrNil, req : Request \cup {Nil},
   command : Command \cup {NoError}, document : Documents, fresh : Documents,
   deferred : ErrorCode \cup {NoError}, stopped : Reason,
   baseline : [by : Ids, content : Nat] \cup {Nil}, prompt : WaitName \cup {Nil},
   granted : SUBSET Tabs, authorized : SUBSET Tabs,
   task : [Tabs -> [origin : Origins, rules : Rules] \cup {Nil}],
   post : Seq(HandlerTask), sent : SUBSET Script, closed : SUBSET WaitName]

(* What holds at every call inside a handler. *)
Base(x) ==
  /\ x \in Members
  /\ Has(x, "reading") => ~Has(x, "busy") /\ ~Has(x, "writing_response")
  /\ Has(x, "busy") => ~Has(x, "writing_response")
  /\ Has(x, "renderer_pending") => Has(x, "busy") /\ x.command \in Command
  /\ Has(x, "navigating") => Has(x, "busy") /\ x.command = "navigate"
  /\ Has(x, "waiting") => Has(x, "busy") /\ x.command = "wait-change"
  /\ Has(x, "preflight") => Has(x, "busy") /\ x.command \in Acting
  /\ ~(Has(x, "renderer_pending") /\ Has(x, "navigating"))
  /\ Has(x, "wait_wakeup") => Has(x, "waiting")
  /\ Has(x, "busy") => x.id \in Ids /\ x.req \in Request
  /\ x.prompt # Nil => Has(x, "busy") /\ x.command # "wait-change"
  /\ x.stopped # NoError =>
       /\ ~Has(x, "attached") /\ x.authorized = {}
       /\ \A t \in Tabs : x.task[t] = Nil

(* What holds when a handler is called and when it returns. *)
Full(x) ==
  /\ Base(x)
  /\ Has(x, "busy") => x.command \in Command
  /\ Has(x, "busy") /\ x.deferred # NoError => Has(x, "renderer_pending") \/ Has(x, "navigating")
  /\ x.prompt # Nil =>
       /\ ~Has(x, "renderer_pending") /\ ~Has(x, "navigating") /\ x.deferred = NoError
       /\ x.prompt = [id |-> x.id, doc |-> x.document]
  /\ x.stopped # NoError /\ Has(x, "busy") => x.deferred # NoError

(* y differs from x in its flags only. *)
SameFields(x, y) ==
  /\ y.tab = x.tab /\ y.id = x.id /\ y.req = x.req /\ y.command = x.command
  /\ y.document = x.document /\ y.fresh = x.fresh /\ y.deferred = x.deferred
  /\ y.stopped = x.stopped /\ y.baseline = x.baseline /\ y.prompt = x.prompt
  /\ y.granted = x.granted /\ y.authorized = x.authorized /\ y.task = x.task
  /\ y.post = x.post /\ y.sent = x.sent /\ y.closed = x.closed

(* Raising flags changes nothing else. *)
LEMMA RaiseMembers ==
  ASSUME NEW x \in Members, NEW flags \in SUBSET Flag
  PROVE  LET y == Raise(x, flags)
         IN  y \in Members /\ y.on = x.on \cup flags /\ SameFields(x, y)
  BY DEF Raise, Members, SameFields

(* Dropping flags changes nothing else. *)
LEMMA DropMembers ==
  ASSUME NEW x \in Members, NEW flags
  PROVE  LET y == Drop(x, flags)
         IN  y \in Members /\ y.on = x.on \ flags /\ SameFields(x, y)
  BY DEF Drop, Members, SameFields

(* A flag that may be dropped at any time. *)
LEMMA DropBase ==
  ASSUME NEW x, Base(x),
         NEW flags \in SUBSET (Flag \ {"busy", "waiting"})
  PROVE  Base(Drop(x, flags))
  <1> DEFINE y == Drop(x, flags)
  <1>1. y \in Members /\ y.on = x.on \ flags /\ SameFields(x, y)
    BY DropMembers DEF Base
  <1>2. "busy" \notin flags /\ "waiting" \notin flags
    OBVIOUS
  <1> HIDE DEF y
  <1>3. Base(y)
    BY <1>1, <1>2 DEF Base, Has, SameFields
  <1> QED
    BY <1>3 DEF y

(* Flags a returned handler may have dropped. *)
LEMMA DropFull ==
  ASSUME NEW x, Full(x),
         NEW flags \in SUBSET (Flag \ {"busy", "waiting", "renderer_pending", "navigating"})
  PROVE  Full(Drop(x, flags))
  <1> DEFINE y == Drop(x, flags)
  <1>1. y \in Members /\ y.on = x.on \ flags /\ SameFields(x, y)
    BY DropMembers DEF Full, Base
  <1>2. Base(y)
    BY DropBase DEF Full
  <1>3. /\ "busy" \notin flags /\ "renderer_pending" \notin flags
        /\ "navigating" \notin flags
    OBVIOUS
  <1> HIDE DEF y
  <1>4. Full(y)
    BY <1>1, <1>2, <1>3 DEF Full, Has, SameFields
  <1> QED
    BY <1>4 DEF y

(* Flags no other member depends on. *)
Loose == {"reading_cancel", "reading_stop", "quarantined", "request_claimed", "deadline",
          "wait_limit_armed", "wait_limit_reached", "wait_dirty", "expired"}

(* A loose flag may be raised at any time. *)
LEMMA RaiseFull ==
  ASSUME NEW x, Full(x), NEW flags \in SUBSET Loose
  PROVE  Full(Raise(x, flags))
  <1> DEFINE y == Raise(x, flags)
  <1>1. y \in Members /\ y.on = x.on \cup flags /\ SameFields(x, y)
    BY RaiseMembers DEF Full, Base, Loose, Flag
  <1>2. \A f \in {"reading", "busy", "writing_response", "renderer_pending", "navigating",
                  "waiting", "preflight", "wait_wakeup", "attached"} : f \notin flags
    BY DEF Loose
  <1> HIDE DEF y
  <1>3. Base(y)
    BY <1>1, <1>2 DEF Full, Base, Has, SameFields
  <1>4. Full(y)
    BY <1>1, <1>2, <1>3 DEF Full, Has, SameFields
  <1> QED
    BY <1>4 DEF y

(* A stop reason is an error the client knows, and no error is not. *)
LEMMA ErrorCodes == NoError \notin ErrorCode /\ StopReasons \cup {Unreadable} \subseteq ErrorCode
  BY DEF NoError, ErrorCode, StopReasons, Unreadable

(* A stop leaves no tab, no consent and no rule, and posts only its own record. *)
LEMMA StopSessionBase ==
  ASSUME NEW x, Base(x), NEW r \in StopReasons \cup {Unreadable}
  PROVE  LET y == StopSession(x, r)
         IN  /\ Base(y) /\ y.stopped # NoError
             /\ y.on \in {x.on, x.on \ {"attached"}}
             /\ y.deferred = x.deferred /\ y.prompt = x.prompt
  <1>1. x \in Members
    BY DEF Base
  <1>2. CASE x.stopped # NoError
    BY <1>2 DEF StopSession
  <1>3. CASE x.stopped = NoError
    <2> DEFINE y == StopSession(x, r)
    <2>1. /\ y.on = x.on \ {"attached"} /\ y.stopped = r /\ y.authorized = {}
          /\ y.task = [t \in Tabs |-> Nil] /\ y.prompt = x.prompt /\ y.id = x.id
          /\ y.req = x.req /\ y.command = x.command /\ y.deferred = x.deferred
      BY <1>1, <1>3 DEF StopSession, Members
    <2>2. y.post \in Seq(HandlerTask)
      BY <1>1, <1>3, AppendProperties DEF StopSession, Members, HandlerTask
    <2>3. y \in Members
      <3>1. /\ y.baseline = Nil /\ y.task \in [Tabs -> [origin : Origins, rules : Rules] \cup {Nil}]
            /\ y.stopped \in Reason /\ y.on \in SUBSET Flag
        BY <1>1, <1>3, <2>1 DEF StopSession, Members, Reason
      <3>2. y = [x EXCEPT !.stopped = y.stopped, !.on = y.on, !.baseline = y.baseline,
                 !.authorized = y.authorized, !.task = y.task, !.post = y.post]
        BY <1>1, <1>3 DEF StopSession, Members
      <3> HIDE DEF y
      <3> QED
        BY <1>1, <2>1, <2>2, <3>1, <3>2 DEF Members
    <2>4. r # NoError
      BY DEF StopReasons, Unreadable, NoError
    <2> QED
      BY <2>1, <2>3, <2>4 DEF Base, Has
  <1> QED
    BY <1>2, <1>3

(* Closing the prompt changes only the prompt. *)
LEMMA ClosePromptBase ==
  ASSUME NEW x, x \in Members
  PROVE  LET y == ClosePrompt(x)
         IN  /\ y \in Members /\ y.prompt = Nil
             /\ y = [x EXCEPT !.prompt = Nil, !.closed = y.closed]
  <1> DEFINE y == ClosePrompt(x)
  <1>1. CASE x.prompt = Nil
    BY <1>1 DEF ClosePrompt, Members
  <1>2. CASE x.prompt # Nil
    <2>1. y = [x EXCEPT !.prompt = Nil, !.closed = x.closed \cup {x.prompt}]
      BY <1>2 DEF ClosePrompt
    <2>2. x.closed \cup {x.prompt} \in SUBSET WaitName
      BY <1>2 DEF Members
    <2>3. y.closed = x.closed \cup {x.prompt}
      BY <2>1 DEF Members
    <2> HIDE DEF y
    <2>4. /\ y \in Members /\ y.prompt = Nil
          /\ y = [x EXCEPT !.prompt = Nil, !.closed = y.closed]
      BY <2>1, <2>2, <2>3 DEF Members
    <2> QED
      BY <2>4 DEF y
  <1> QED
    BY <1>1, <1>2

(* Finish ends the request in hand, whatever state it had reached. *)
LEMMA FinishFull ==
  ASSUME NEW x, Base(x), Has(x, "busy"), ~Has(x, "renderer_pending"),
         NEW e \in ErrorCode \cup {NoError}, NEW doc \in Nat, NEW partial \in BOOLEAN
  PROVE  LET y == Finish(x, e, doc, partial)
         IN  Full(y) /\ ~Has(y, "busy")
  <1> DEFINE c == ClosePrompt(x)
             y == Finish(x, e, doc, partial)
             r == Response(x, e, doc, partial)
             left == {"busy", "preflight", "waiting", "wait_limit_armed",
                      "wait_wakeup", "navigating", "deadline"}
  <1>1. x \in Members /\ x.id \in Ids
    BY DEF Base
  <1>2. c \in Members /\ c.prompt = Nil
    BY <1>1, ClosePromptBase
  <1>3. c = [x EXCEPT !.prompt = Nil, !.closed = c.closed]
    BY <1>1, ClosePromptBase
  <1>4. r \in Answer
    <2>1. (~Has(x, "quarantined")) \in BOOLEAN /\ Has(x, "request_claimed") \in BOOLEAN
      BY DEF Has
    <2>2. (IF doc = 0 THEN Nil ELSE x.id) \in IdOrNil
      BY <1>1 DEF IdOrNil
    <2> QED
      BY <1>1, <2>1, <2>2 DEF Response, Answer, Documents
  <1> DEFINE flags == (c.on \ left) \cup {"writing_response"}
             tasks == Append(c.post, [op |-> "respond", answer |-> r])
  <1>5. y = [c EXCEPT !.on = flags, !.post = tasks]
    BY DEF Finish
  <1>6. tasks \in Seq(HandlerTask)
    <2> HIDE DEF c, r
    <2> QED
      BY <1>2, <1>4, AppendProperties DEF Members, HandlerTask
  <1>7. flags = (x.on \ left) \cup {"writing_response"} /\ flags \subseteq Flag
    <2> HIDE DEF c
    <2> QED
      BY <1>1, <1>2, <1>3 DEF Members, Flag
  <1> HIDE DEF y, c, r, flags, tasks
  <1>8. y \in Members
    <2>1. y.on = flags /\ y.post = tasks
      BY <1>2, <1>5 DEF Members
    <2>2. y.on \in SUBSET Flag /\ y.post \in Seq(HandlerTask)
      BY <1>6, <1>7, <2>1
    <2>3. y = [c EXCEPT !.on = y.on, !.post = y.post]
      BY <1>5, <2>1
    <2> QED
      BY <1>2, <2>2, <2>3 DEF Members
  <1>9. /\ y.on = (x.on \ left) \cup {"writing_response"} /\ y.prompt = Nil
        /\ y.stopped = x.stopped /\ y.authorized = x.authorized /\ y.task = x.task
    BY <1>1, <1>2, <1>3, <1>5, <1>7 DEF Members
  <1>10. Full(y) /\ ~Has(y, "busy")
    BY <1>8, <1>9 DEF Full, Base, Has
  <1> QED
    BY <1>10 DEF y

(* Error while a script or a navigation is under way: the outcome waits for it. *)
LEMMA SetDeferred ==
  ASSUME NEW x, Base(x), Has(x, "busy"), Has(x, "renderer_pending") \/ Has(x, "navigating"),
         NEW e \in ErrorCode
  PROVE  Full([ClosePrompt(x) EXCEPT !.deferred = IF @ = NoError THEN e ELSE @,
                                     !.on = @ \ {"deadline"}])
  <1> DEFINE c == ClosePrompt(x)
             d == IF c.deferred = NoError THEN e ELSE c.deferred
             y == [c EXCEPT !.deferred = IF @ = NoError THEN e ELSE @, !.on = @ \ {"deadline"}]
  <1>1. x \in Members
    BY DEF Base
  <1>2. c \in Members /\ c = [x EXCEPT !.prompt = Nil, !.closed = c.closed]
    BY <1>1, ClosePromptBase
  <1>3. y = [c EXCEPT !.deferred = d, !.on = c.on \ {"deadline"}]
    OBVIOUS
  <1>4. d \in ErrorCode \cup {NoError} /\ d # NoError
    <2>1. c.deferred \in ErrorCode \cup {NoError}
      BY <1>2 DEF Members
    <2> HIDE DEF c
    <2> QED
      BY <2>1, ErrorCodes
  <1> HIDE DEF y, c, d
  <1>5. y \in Members
    BY <1>2, <1>3, <1>4 DEF Members
  <1>6. /\ y.on = x.on \ {"deadline"} /\ y.prompt = Nil /\ y.deferred = d /\ y.id = x.id
        /\ y.req = x.req /\ y.command = x.command
        /\ y.stopped = x.stopped /\ y.authorized = x.authorized /\ y.task = x.task
    BY <1>1, <1>2, <1>3 DEF Members
  <1>7. "navigate" \in Command
    BY DEF Command
  <1>8. Full(y)
    BY <1>4, <1>5, <1>6, <1>7 DEF Full, Base, Has
  <1> QED
    BY <1>8 DEF y, c

(* Error may be called by any handler, at work or idle. *)
LEMMA ErrorFull ==
  ASSUME NEW x, Base(x), NEW e \in ErrorCode
  PROVE  Full(Error(x, e))
  <1> DEFINE s == IF e \in {"user_cancelled", "user_takeover", "client_cancelled"}
                  THEN StopSession(x, e) ELSE x
  <1>1. Base(s)
    BY StopSessionBase DEF StopReasons
  <1>2. CASE ~Has(s, "busy")
    <2>1. Error(x, e) = s
      BY <1>2 DEF Error
    <2> QED
      BY <1>1, <1>2, <2>1 DEF Full, Base
  <1>3. CASE Has(s, "busy") /\ (Has(s, "renderer_pending") \/ Has(s, "navigating"))
    <2>1. Error(x, e) = [ClosePrompt(s) EXCEPT !.deferred = IF @ = NoError THEN e ELSE @,
                                               !.on = @ \ {"deadline"}]
      BY <1>3 DEF Error
    <2> HIDE DEF s
    <2> QED
      BY <1>1, <1>3, <2>1, SetDeferred
  <1>4. CASE Has(s, "busy") /\ ~Has(s, "renderer_pending") /\ ~Has(s, "navigating")
    <2>1. Error(x, e) = Finish(s, e, 0, s.deferred # NoError)
      BY <1>4 DEF Error
    <2>2. (s.deferred # NoError) \in BOOLEAN
      OBVIOUS
    <2> HIDE DEF s
    <2> QED
      BY <1>1, <1>4, <2>1, <2>2, FinishFull
  <1> QED
    BY <1>2, <1>3, <1>4

(* Early returns: each failed check is an Error, and what follows them must be sound. *)
LEMMA CheckedFull ==
  ASSUME NEW x, Base(x), NEW y, NEW checks, NEW n \in 1..4, DOMAIN checks = 1..n,
         \A i \in 1..n : checks[i][2] \in ErrorCode,
         (\A i \in 1..n : ~checks[i][1]) => Full(y)
  PROVE  Full(Checked(x, checks, y))
  <1> DEFINE failed == {i \in DOMAIN checks : checks[i][1]}
             first == CHOOSE i \in failed : \A j \in failed : i <= j
  <1>1. CASE failed = {}
    BY <1>1 DEF Checked
  <1>2. CASE failed # {}
    <2>1. \E i \in failed : \A j \in failed : i <= j
      BY <1>2
    <2>2. first \in failed
      BY <2>1
    <2>3. Checked(x, checks, y) = Error(x, checks[first][2])
      BY <1>2 DEF Checked
    <2> HIDE DEF first
    <2> QED
      BY <2>2, <2>3, ErrorFull
  <1> QED
    BY <1>1, <1>2

(* CheckedFull for the number of checks a handler makes. *)
LEMMA Checked1 ==
  ASSUME NEW x, Base(x), NEW y,
         NEW c1 \in BOOLEAN, NEW e1 \in ErrorCode,
         ~c1 => Full(y)
  PROVE  Full(Checked(x, << <<c1, e1>> >>, y))
  <1> DEFINE checks == << <<c1, e1>> >>
  <1>1. /\ DOMAIN checks = 1..1
        /\ checks[1] = <<c1, e1>>
    OBVIOUS
  <1>2. /\ checks[1][1] = c1 /\ checks[1][2] = e1
    BY <1>1
  <1> HIDE DEF checks
  <1>3. \A i \in 1..1 : checks[i][2] \in ErrorCode
    BY <1>2
  <1>4. ASSUME \A i \in 1..1 : ~checks[i][1]
        PROVE  Full(y)
    <2>1. ~checks[1][1]
      BY <1>4
    <2> QED
      BY <1>2, <2>1
  <1>5. Full(Checked(x, checks, y))
    BY <1>1, <1>3, <1>4, CheckedFull
  <1> QED
    BY <1>5 DEF checks

(* The same for two checks. *)
LEMMA Checked2 ==
  ASSUME NEW x, Base(x), NEW y,
         NEW c1 \in BOOLEAN, NEW e1 \in ErrorCode,
         NEW c2 \in BOOLEAN, NEW e2 \in ErrorCode,
         ~c1 /\ ~c2 => Full(y)
  PROVE  Full(Checked(x, << <<c1, e1>>, <<c2, e2>> >>, y))
  <1> DEFINE checks == << <<c1, e1>>, <<c2, e2>> >>
  <1>1. /\ DOMAIN checks = 1..2
        /\ checks[1] = <<c1, e1>>
        /\ checks[2] = <<c2, e2>>
    OBVIOUS
  <1>2. /\ checks[1][1] = c1 /\ checks[1][2] = e1
        /\ checks[2][1] = c2 /\ checks[2][2] = e2
    BY <1>1
  <1> HIDE DEF checks
  <1>3. \A i \in 1..2 : checks[i][2] \in ErrorCode
    BY <1>2
  <1>4. ASSUME \A i \in 1..2 : ~checks[i][1]
        PROVE  Full(y)
    <2>1. ~checks[1][1] /\ ~checks[2][1]
      BY <1>4
    <2> QED
      BY <1>2, <2>1
  <1>5. Full(Checked(x, checks, y))
    BY <1>1, <1>3, <1>4, CheckedFull
  <1> QED
    BY <1>5 DEF checks

(* The same for three checks. *)
LEMMA Checked3 ==
  ASSUME NEW x, Base(x), NEW y,
         NEW c1 \in BOOLEAN, NEW e1 \in ErrorCode,
         NEW c2 \in BOOLEAN, NEW e2 \in ErrorCode,
         NEW c3 \in BOOLEAN, NEW e3 \in ErrorCode,
         ~c1 /\ ~c2 /\ ~c3 => Full(y)
  PROVE  Full(Checked(x, << <<c1, e1>>, <<c2, e2>>, <<c3, e3>> >>, y))
  <1> DEFINE checks == << <<c1, e1>>, <<c2, e2>>, <<c3, e3>> >>
  <1>1. /\ DOMAIN checks = 1..3
        /\ checks[1] = <<c1, e1>>
        /\ checks[2] = <<c2, e2>>
        /\ checks[3] = <<c3, e3>>
    OBVIOUS
  <1>2. /\ checks[1][1] = c1 /\ checks[1][2] = e1
        /\ checks[2][1] = c2 /\ checks[2][2] = e2
        /\ checks[3][1] = c3 /\ checks[3][2] = e3
    BY <1>1
  <1> HIDE DEF checks
  <1>3. \A i \in 1..3 : checks[i][2] \in ErrorCode
    BY <1>2
  <1>4. ASSUME \A i \in 1..3 : ~checks[i][1]
        PROVE  Full(y)
    <2>1. ~checks[1][1] /\ ~checks[2][1] /\ ~checks[3][1]
      BY <1>4
    <2> QED
      BY <1>2, <2>1
  <1>5. Full(Checked(x, checks, y))
    BY <1>1, <1>3, <1>4, CheckedFull
  <1> QED
    BY <1>5 DEF checks

(* The same for four checks. *)
LEMMA Checked4 ==
  ASSUME NEW x, Base(x), NEW y,
         NEW c1 \in BOOLEAN, NEW e1 \in ErrorCode,
         NEW c2 \in BOOLEAN, NEW e2 \in ErrorCode,
         NEW c3 \in BOOLEAN, NEW e3 \in ErrorCode,
         NEW c4 \in BOOLEAN, NEW e4 \in ErrorCode,
         ~c1 /\ ~c2 /\ ~c3 /\ ~c4 => Full(y)
  PROVE  Full(Checked(x, << <<c1, e1>>, <<c2, e2>>, <<c3, e3>>, <<c4, e4>> >>, y))
  <1> DEFINE checks == << <<c1, e1>>, <<c2, e2>>, <<c3, e3>>, <<c4, e4>> >>
  <1>1. /\ DOMAIN checks = 1..4
        /\ checks[1] = <<c1, e1>>
        /\ checks[2] = <<c2, e2>>
        /\ checks[3] = <<c3, e3>>
        /\ checks[4] = <<c4, e4>>
    OBVIOUS
  <1>2. /\ checks[1][1] = c1 /\ checks[1][2] = e1
        /\ checks[2][1] = c2 /\ checks[2][2] = e2
        /\ checks[3][1] = c3 /\ checks[3][2] = e3
        /\ checks[4][1] = c4 /\ checks[4][2] = e4
    BY <1>1
  <1> HIDE DEF checks
  <1>3. \A i \in 1..4 : checks[i][2] \in ErrorCode
    BY <1>2
  <1>4. ASSUME \A i \in 1..4 : ~checks[i][1]
        PROVE  Full(y)
    <2>1. ~checks[1][1] /\ ~checks[2][1] /\ ~checks[3][1] /\ ~checks[4][1]
      BY <1>4
    <2> QED
      BY <1>2, <2>1
  <1>5. Full(Checked(x, checks, y))
    BY <1>1, <1>3, <1>4, CheckedFull
  <1> QED
    BY <1>5 DEF checks

-----------------------------------------------------------------------------
(* A request at work with nothing under way. *)
Seen(x) ==
  /\ Base(x) /\ Has(x, "busy") /\ ~Has(x, "renderer_pending") /\ ~Has(x, "navigating")
  /\ x.command \in Command /\ x.deferred = NoError /\ x.prompt = Nil

(* The same, and the session is not stopped. *)
Free(x) == Seen(x) /\ x.stopped = NoError

(* A request nothing is under way for. *)
LEMMA FreeFull ==
  ASSUME NEW x, Free(x)
  PROVE  Full(x)
  BY DEF Free, Seen, Full

(* Handing a script to the renderer. *)
LEMMA SendFull ==
  ASSUME NEW x, Full(x), NEW script \in Script
  PROVE  Full([x EXCEPT !.sent = @ \cup {script}])
  <1> DEFINE y == [x EXCEPT !.sent = @ \cup {script}]
  <1>1. x \in Members
    BY DEF Full, Base
  <1>2. y.sent = x.sent \cup {script} /\ y.on = x.on
    BY <1>1 DEF Members
  <1>3. y = [x EXCEPT !.sent = y.sent] /\ y.sent \in SUBSET Script
    BY <1>1, <1>2 DEF Members
  <1> HIDE DEF y
  <1>4. y \in Members
    BY <1>1, <1>3 DEF Members
  <1>5. /\ y.id = x.id /\ y.req = x.req /\ y.command = x.command /\ y.document = x.document
        /\ y.deferred = x.deferred /\ y.stopped = x.stopped /\ y.prompt = x.prompt
        /\ y.authorized = x.authorized /\ y.task = x.task
    BY <1>1, <1>3 DEF Members
  <1>6. Full(y)
    BY <1>2, <1>4, <1>5 DEF Full, Base, Has
  <1> QED
    BY <1>6 DEF y

(* Execute, on a request with no prompt open and no navigation under way. *)
LEMMA ExecuteFull ==
  ASSUME NEW x, Full(x),
         Has(x, "busy") /\ x.deferred = NoError => x.prompt = Nil /\ ~Has(x, "navigating")
  PROVE  Full(Execute(x))
  <1> DEFINE y == Drop(x, {"wait_wakeup"})
             z == IF Has(x, "waiting") THEN Drop(y, {"wait_dirty"}) ELSE y
             script == [id |-> x.id, doc |-> x.document, tab |-> x.tab, command |-> x.command,
                        preflight |-> Has(x, "preflight"), mute |-> FALSE]
             w == Raise(z, {"renderer_pending"})
  <1>1. CASE ~Has(x, "busy") \/ x.deferred # NoError
    BY <1>1 DEF Execute
  <1>2. CASE Has(x, "busy") /\ x.deferred = NoError /\ Has(x, "renderer_pending")
    <2>1. Execute(x) \in {x, Raise(x, {"wait_dirty"})}
      BY <1>2 DEF Execute
    <2>2. Full(Raise(x, {"wait_dirty"}))
      BY RaiseFull DEF Loose
    <2> QED
      BY <2>1, <2>2
  <1>3. CASE Has(x, "busy") /\ x.deferred = NoError /\ ~Has(x, "renderer_pending")
    <2>1. Full(y) /\ SameFields(x, y) /\ y.on = x.on \ {"wait_wakeup"}
      BY DropFull, DropMembers DEF Flag, Full, Base
    <2>2. CASE Has(x, "expired") \/ ~Eligible(x.tab) \/ (Has(x, "waiting") /\ active # x.tab)
      <3>1. /\ Full(Error(y, "request_expired")) /\ Full(Error(y, "ineligible_tab"))
            /\ Full(Error(y, "tab_changed"))
        <4>1. Base(y)
          BY <2>1 DEF Full
        <4> HIDE DEF y
        <4> QED
          BY <4>1, ErrorFull DEF ErrorCode
      <3>2. CASE Has(x, "expired")
        BY <1>3, <3>1, <3>2 DEF Execute
      <3>3. CASE ~Has(x, "expired") /\ ~Eligible(x.tab)
        BY <1>3, <3>1, <3>3 DEF Execute
      <3>4. CASE ~Has(x, "expired") /\ Eligible(x.tab) /\ Has(x, "waiting") /\ active # x.tab
        BY <1>3, <3>1, <3>4 DEF Execute
      <3> QED
        BY <2>2, <3>2, <3>3, <3>4
    <2>3. CASE ~(Has(x, "expired") \/ ~Eligible(x.tab) \/ (Has(x, "waiting") /\ active # x.tab))
      <3>1. Execute(x) = [w EXCEPT !.sent = @ \cup {script}]
        BY <1>3, <2>3 DEF Execute
      <3>2. x \in Members /\ y \in Members
        BY <2>1 DEF Full, Base
      <3>3. Full(z) /\ SameFields(x, z) /\ z.on \in {y.on, y.on \ {"wait_dirty"}}
        <4>1. LET d == Drop(y, {"wait_dirty"})
              IN  Full(d) /\ SameFields(y, d) /\ d.on = y.on \ {"wait_dirty"}
          BY <2>1, <3>2, DropFull, DropMembers DEF Flag
        <4> HIDE DEF y
        <4> QED
          BY <2>1, <4>1 DEF SameFields
      <3> HIDE DEF z
      <3>4. w \in Members /\ SameFields(z, w) /\ w.on = z.on \cup {"renderer_pending"}
        BY <3>3, RaiseMembers DEF Flag, Full, Base
      <3> HIDE DEF w, y
      <3>5. Full(w)
        BY <1>3, <2>1, <3>3, <3>4 DEF Full, Base, Has, SameFields
      <3>6. x.id \in Ids /\ x.tab \in Tabs /\ x.command \in Command
        BY <1>3, <2>3, <3>2 DEF Full, Base, Eligible, Members
      <3>7. script \in Script
        BY <3>2, <3>6 DEF Script, Members, Has
      <3> HIDE DEF script
      <3> QED
        BY <3>1, <3>5, <3>7, SendFull
    <2> QED
      BY <2>2, <2>3
  <1> QED
    BY <1>1, <1>2, <1>3

(* A wait is only marked; the wakeup or the result repeats its probe. *)
LEMMA WakeWaitFull ==
  ASSUME NEW x, Full(x)
  PROVE  Full(WakeWait(x))
  <1>1. CASE ~Has(x, "busy") \/ ~Has(x, "waiting") \/ x.deferred # NoError
    BY <1>1 DEF WakeWait
  <1>2. CASE Has(x, "busy") /\ Has(x, "waiting") /\ x.deferred = NoError
    <2>1. Full(Raise(x, {"wait_dirty"}))
      BY RaiseFull DEF Loose
    <2> DEFINE y == Raise(x, {"wait_wakeup"})
    <2>2. y \in Members /\ SameFields(x, y) /\ y.on = x.on \cup {"wait_wakeup"}
      BY RaiseMembers DEF Full, Base, Flag
    <2> HIDE DEF y
    <2>3. Full(y)
      BY <1>2, <2>2 DEF Full, Base, Has, SameFields
    <2> QED
      BY <1>2, <2>1, <2>3 DEF WakeWait, y
  <1> QED
    BY <1>1, <1>2

(* Consent for the tab just approved. *)
LEMMA GrantFree ==
  ASSUME NEW x, Free(x), page[x.tab] \in Origins, x.tab \in Tabs
  PROVE  Free(Grant(x)) /\ Grant(x).on = x.on /\ Grant(x).command = x.command
  <1> DEFINE y == Grant(x)
             rules == x.req.call.rules
  <1>1. x \in Members /\ x.req \in Request
    BY DEF Free, Seen, Base
  <1>2. rules \in Rules \cup {Nil}
    BY <1>1, CallsAssumption DEF Request, Call
  <1>3. /\ y.granted = x.granted \cup {x.tab} /\ y.authorized = x.authorized \cup {x.tab}
        /\ y.task = [x.task EXCEPT ![x.tab] = IF rules = Nil THEN x.task[x.tab]
                                    ELSE [origin |-> page[x.tab], rules |-> rules]]
    BY <1>1 DEF Grant, Members
  <1>4. y = [x EXCEPT !.granted = y.granted, !.authorized = y.authorized, !.task = y.task]
    BY <1>1 DEF Grant, Members
  <1> HIDE DEF y, rules
  <1>5. y.task \in [Tabs -> [origin : Origins, rules : Rules] \cup {Nil}]
    BY <1>1, <1>2, <1>3 DEF Members
  <1>6. y.granted \in SUBSET Tabs /\ y.authorized \in SUBSET Tabs
    BY <1>1, <1>3 DEF Members
  <1>7. y \in Members
    BY <1>1, <1>4, <1>5, <1>6 DEF Members
  <1>8. /\ y.on = x.on /\ y.id = x.id /\ y.req = x.req /\ y.command = x.command
        /\ y.deferred = x.deferred /\ y.stopped = x.stopped /\ y.prompt = x.prompt
    BY <1>1, <1>4 DEF Members
  <1>9. Free(y)
    BY <1>7, <1>8 DEF Free, Seen, Base, Has
  <1> QED
    BY <1>8, <1>9 DEF y

(* The page named by a command, once it succeeded, is observed. *)
LEMMA ObserveFree ==
  ASSUME NEW x, Free(x), x.command \notin Acting, x.command # "wait-change"
  PROVE  Free([x EXCEPT !.command = "observe"])
  <1> DEFINE y == [x EXCEPT !.command = "observe"]
  <1>1. x \in Members /\ "observe" \in Command
    BY DEF Free, Seen, Base, Command
  <1>2. y \in Members
    BY <1>1 DEF Members
  <1>3. /\ y.on = x.on /\ y.id = x.id /\ y.req = x.req /\ y.command = "observe"
        /\ y.deferred = x.deferred /\ y.stopped = x.stopped /\ y.prompt = x.prompt
        /\ y.authorized = x.authorized /\ y.task = x.task
    BY <1>1 DEF Members
  <1> HIDE DEF y
  <1>4. x.command \in Command
    BY DEF Free, Seen
  <1>5. Free(y)
    BY <1>1, <1>2, <1>3 DEF Free, Seen, Base, Has
  <1> QED
    BY <1>5 DEF y

(* Raising a loose flag keeps the request free. *)
LEMMA RaiseFree ==
  ASSUME NEW x, Free(x), NEW flags \in SUBSET (Loose \cup {"attached"})
  PROVE  Free(Raise(x, flags)) /\ SameFields(x, Raise(x, flags))
  <1> DEFINE y == Raise(x, flags)
  <1>1. y \in Members /\ y.on = x.on \cup flags /\ SameFields(x, y)
    BY RaiseMembers DEF Free, Seen, Base, Loose, Flag
  <1>2. \A f \in {"reading", "busy", "writing_response", "renderer_pending", "navigating",
                  "waiting", "preflight", "wait_wakeup"} : f \notin flags
    BY DEF Loose
  <1> HIDE DEF y
  <1>3. Free(y)
    BY <1>1, <1>2 DEF Free, Seen, Base, Has, SameFields
  <1> QED
    BY <1>1, <1>3 DEF y

(* What an accepted prompt starts. *)
LEMMA ApprovedFull ==
  ASSUME NEW x, Free(x), Eligible(x.tab)
  PROVE  Full(Approved(x))
  <1>1. x \in Members /\ Full(x)
    BY FreeFull DEF Free, Seen, Base
  <1>2. CASE x.command = "ask"
    <2>1. Full(Finish(x, NoError, 0, FALSE))
      BY FinishFull DEF Free, Seen
    <2> QED
      BY <1>2, <2>1 DEF Approved, Succeed
  <1>3. CASE x.command = "attach"
    <2> DEFINE y == Raise(x, {"attached"})
               g == Grant(y)
    <2>1. Free(y) /\ y.tab = x.tab /\ y.command = "attach"
      BY <1>3, RaiseFree DEF SameFields
    <2>2. x.tab \in Tabs /\ page[x.tab] \in Origins
      BY <1>1 DEF Members, Eligible
    <2> HIDE DEF y
    <2>3. Free(g) /\ g.command = "attach"
      BY <2>1, <2>2, GrantFree
    <2> HIDE DEF g
    <2>4. Free([g EXCEPT !.command = "observe"])
      BY <2>3, ObserveFree DEF Acting
    <2> DEFINE z == [g EXCEPT !.command = "observe"]
    <2> HIDE DEF z
    <2>5. Full(Execute(z))
      BY <2>4, ExecuteFull, FreeFull DEF Free, Seen, z
    <2> QED
      BY <1>3, <2>5 DEF Approved, y, g, z
  <1>4. CASE x.command = "navigate"
    <2> DEFINE y == Raise(x, {"navigating"})
    <2>1. y \in Members /\ y.on = x.on \cup {"navigating"} /\ SameFields(x, y)
      BY <1>1, RaiseMembers DEF Flag
    <2> HIDE DEF y
    <2>2. Full(y)
      BY <1>4, <2>1 DEF Free, Seen, Full, Base, Has, SameFields
    <2> QED
      BY <1>4, <2>2 DEF Approved, y
  <1>5. CASE x.command \notin {"ask", "attach", "navigate"}
    <2>1. Full(Execute(x))
      BY <1>1, ExecuteFull DEF Free, Seen
    <2> QED
      BY <1>5, <2>1 DEF Approved
  <1> QED
    BY <1>2, <1>3, <1>4, <1>5

(* The answer takes the prompt away. *)
LEMMA ClearPromptBase ==
  ASSUME NEW x, Base(x)
  PROVE  LET y == [x EXCEPT !.prompt = Nil]
         IN  Base(y) /\ y.on = x.on /\ y.id = x.id /\ y.document = x.document
  <1> DEFINE y == [x EXCEPT !.prompt = Nil]
  <1>1. x \in Members
    BY DEF Base
  <1>2. y \in Members
    BY <1>1 DEF Members
  <1>3. /\ y.on = x.on /\ y.id = x.id /\ y.req = x.req /\ y.command = x.command
        /\ y.document = x.document /\ y.prompt = Nil /\ y.stopped = x.stopped
        /\ y.authorized = x.authorized /\ y.task = x.task
    BY <1>1 DEF Members
  <1> HIDE DEF y
  <1>4. Base(y)
    BY <1>2, <1>3 DEF Base, Has
  <1> QED
    BY <1>3, <1>4 DEF y

(* Answered, for the prompt of this request or of one that is gone. *)
LEMMA AnsweredFull ==
  ASSUME NEW x, Full(x), NEW id, NEW doc, NEW accepted \in BOOLEAN,
         ForThisRequest(x, id, doc) /\ accepted => Free([x EXCEPT !.prompt = Nil])
  PROVE  Full(Answered(x, id, doc, accepted))
  <1> DEFINE y == [x EXCEPT !.prompt = Nil]
             denied == IF y.command = "attach" THEN Drop(y, {"attached"}) ELSE y
  <1>1. Base(y)
    BY ClearPromptBase DEF Full
  <1>2. CASE ~ForThisRequest(x, id, doc)
    BY <1>2 DEF Answered
  <1>3. CASE ForThisRequest(x, id, doc) /\ ~Has(y, "expired") /\ ~accepted
    <2>1. Base(denied)
      <3> HIDE DEF y
      <3> QED
        BY <1>1, DropBase DEF Flag
    <2>2. Answered(x, id, doc, accepted) = Error(denied, "user_cancelled")
      BY <1>3 DEF Answered
    <2> HIDE DEF denied
    <2> QED
      BY <2>1, <2>2, ErrorFull DEF ErrorCode, StopReasons
  <1>4. CASE ForThisRequest(x, id, doc) /\ (Has(y, "expired") \/ accepted)
    <2> DEFINE c1 == Has(y, "expired")
               c2 == ~Eligible(y.tab) \/ active # y.tab
               z  == Approved(y)
    <2>1. Answered(x, id, doc, accepted)
            = Checked(y, << <<c1, "request_expired">>, <<c2, "tab_changed">> >>, z)
      BY <1>4 DEF Answered
    <2>2. ASSUME ~c1 /\ ~c2
          PROVE  Full(z)
      <3>1. Free(y) /\ Eligible(y.tab)
        BY <1>4, <2>2
      <3> HIDE DEF y
      <3> QED
        BY <3>1, ApprovedFull
    <2>3. c1 \in BOOLEAN /\ c2 \in BOOLEAN
      BY DEF Has
    <2>4. "request_expired" \in ErrorCode /\ "tab_changed" \in ErrorCode
      BY DEF ErrorCode
    <2> HIDE DEF y, z, c1, c2
    <2> QED
      BY <1>1, <2>1, <2>2, <2>3, <2>4, Checked2
  <1> QED
    BY <1>2, <1>3, <1>4

(* Ask opens the only prompt, or ends the request. *)
LEMMA AskFull ==
  ASSUME NEW x, Free(x), x.command # "wait-change", NEW shown
  PROVE  Full(Ask(x, shown))
  <1>1. x \in Members /\ x.id \in Ids
    BY DEF Free, Seen, Base
  <1>2. CASE shown
    <2> DEFINE y == [x EXCEPT !.prompt = [id |-> x.id, doc |-> x.document]]
    <2>1. y.prompt = [id |-> x.id, doc |-> x.document] /\ y.prompt \in WaitName
      BY <1>1 DEF Members, WaitName
    <2>2. y = [x EXCEPT !.prompt = y.prompt]
      BY <2>1
    <2>3. /\ y.on = x.on /\ y.id = x.id /\ y.req = x.req /\ y.command = x.command
          /\ y.document = x.document /\ y.deferred = x.deferred /\ y.stopped = x.stopped
          /\ y.authorized = x.authorized /\ y.task = x.task
      BY <1>1 DEF Members
    <2> HIDE DEF y
    <2>4. y \in Members
      BY <1>1, <2>1, <2>2 DEF Members
    <2>5. Full(y)
      BY <2>1, <2>3, <2>4 DEF Free, Seen, Full, Base, Has
    <2> QED
      BY <1>2, <2>5 DEF Ask, y
  <1>3. CASE ~shown
    <2> DEFINE y == Answered(x, x.id, x.document, FALSE)
    <2>1. Base(y)
      BY FreeFull, AnsweredFull DEF Full
    <2>2. Full(Error(y, "prompt_unavailable"))
      <3> HIDE DEF y
      <3> QED
        BY <2>1, ErrorFull DEF ErrorCode
    <2> QED
      BY <1>3, <2>2 DEF Ask
  <1> QED
    BY <1>2, <1>3

(* Preflight, on a request that acts. *)
LEMMA PreflightFull ==
  ASSUME NEW x, Free(x), x.command \in Acting
  PROVE  Full(Preflight(x))
  <1> DEFINE y == Raise(x, {"preflight"})
             c == RequestRule(x) = "deny"
             z == Execute(y)
  <1>1. y \in Members /\ y.on = x.on \cup {"preflight"} /\ SameFields(x, y)
    BY RaiseMembers DEF Free, Seen, Base, Flag
  <1>2. Full(z)
    <2> HIDE DEF y
    <2>1. Free(y)
      BY <1>1 DEF Free, Seen, Base, Has, SameFields
    <2> QED
      BY <2>1, FreeFull, ExecuteFull DEF Free, Seen
  <1>3. c \in BOOLEAN /\ "permission_denied" \in ErrorCode
    BY DEF ErrorCode
  <1>4. Preflight(x) = Checked(x, << <<c, "permission_denied">> >>, z)
    BY DEF Preflight
  <1> HIDE DEF y, c, z
  <1> QED
    BY <1>2, <1>3, <1>4, Checked1 DEF Free, Seen

(* A new document has no baseline. *)
LEMMA ResetDocumentBase ==
  ASSUME NEW x, Base(x)
  PROVE  LET y == ResetDocument(x)
         IN  /\ Base(y) /\ y.on = x.on /\ y.tab = x.tab /\ y.id = x.id /\ y.req = x.req
             /\ y.command = x.command /\ y.deferred = x.deferred /\ y.stopped = x.stopped
             /\ y.prompt = x.prompt /\ y.granted = x.granted
  <1> DEFINE y == ResetDocument(x)
  <1>1. x \in Members
    BY DEF Base
  <1>2. y = [x EXCEPT !.document = y.document, !.fresh = y.fresh, !.baseline = y.baseline]
    BY <1>1 DEF ResetDocument, Members
  <1>3. y.document \in Documents /\ y.fresh \in Documents /\ y.baseline = Nil
    BY <1>1 DEF ResetDocument, Members, Documents
  <1> HIDE DEF y
  <1>4. y \in Members
    BY <1>1, <1>2, <1>3, ZenonT(60) DEF Members
  <1>5. /\ y.on = x.on /\ y.tab = x.tab /\ y.id = x.id /\ y.req = x.req
        /\ y.command = x.command /\ y.deferred = x.deferred /\ y.stopped = x.stopped
        /\ y.prompt = x.prompt /\ y.granted = x.granted /\ y.authorized = x.authorized
        /\ y.task = x.task
    BY <1>1, <1>2 DEF Members
  <1>6. Base(y)
    BY <1>4, <1>5 DEF Base, Has
  <1> QED
    BY <1>5, <1>6 DEF y

-----------------------------------------------------------------------------
(* The commands of Received, on a request nothing else is under way for. *)
LEMMA SelectTabFull ==
  ASSUME NEW x, Free(x), x.command = "select-tab", NEW selected
  PROVE  Full(SelectTab(x, selected))
  <1> DEFINE t == x.req.call.tab
             u == [x EXCEPT !.authorized = @ \ {t}]
             y == IF t \in x.authorized /\ ~Eligible(t) THEN u ELSE x
             r == Raise(x, {"attached"})
             d == ResetDocument(r)
             o == [d EXCEPT !.tab = t, !.command = "observe"]
             z == Execute(o)
             c1 == t \notin x.granted \/ page[t] = "closed"
             c2 == t \notin x.authorized
             c3 == ~Eligible(t)
             c4 == ~selected
  <1>1. x \in Members
    BY DEF Free, Seen, Base
  <1>2. Base(y)
    <2>1. u.authorized \in SUBSET Tabs
      BY <1>1 DEF Members
    <2>2. u = [x EXCEPT !.authorized = u.authorized]
      BY <1>1 DEF Members
    <2>3. /\ u.on = x.on /\ u.id = x.id /\ u.req = x.req /\ u.command = x.command
          /\ u.deferred = x.deferred /\ u.stopped = x.stopped
          /\ u.prompt = x.prompt /\ u.task = x.task
      BY <1>1 DEF Members
    <2> HIDE DEF u, t
    <2>4. u \in Members
      BY <1>1, <2>1, <2>2 DEF Members
    <2>5. Base(u)
      BY <2>3, <2>4 DEF Free, Seen, Base, Has
    <2> QED
      BY <2>5 DEF Free, Seen
  <1>3. ASSUME ~c1
        PROVE  Full(z)
    <2> HIDE DEF t, u
    <2>1. t \in Tabs
      BY <1>1, <1>3 DEF Members
    <2>2. Free(r) /\ r.command = "select-tab"
      BY RaiseFree DEF SameFields
    <2> HIDE DEF r
    <2>3. Free(d) /\ d.command = "select-tab"
      BY <2>2, ResetDocumentBase DEF Free, Seen, Has
    <2> DEFINE v == [d EXCEPT !.tab = t]
    <2> HIDE DEF d
    <2>4. Free(v) /\ v.command = "select-tab"
      <3>1. d \in Members
        BY <2>3 DEF Free, Seen, Base
      <3>2. v \in Members
        BY <2>1, <3>1 DEF Members
      <3>3. /\ v.on = d.on /\ v.id = d.id /\ v.req = d.req /\ v.command = d.command
            /\ v.deferred = d.deferred /\ v.stopped = d.stopped /\ v.prompt = d.prompt
            /\ v.authorized = d.authorized /\ v.task = d.task
        BY <3>1 DEF Members
      <3> HIDE DEF v
      <3> QED
        BY <2>3, <3>2, <3>3 DEF Free, Seen, Base, Has
    <2>5. o = [v EXCEPT !.command = "observe"]
      OBVIOUS
    <2> HIDE DEF v, o
    <2>6. Free(o)
      BY <2>4, <2>5, ObserveFree DEF Acting
    <2> QED
      BY <2>6, FreeFull, ExecuteFull DEF Free, Seen
  <1>4. SelectTab(x, selected)
          = Checked(y, << <<c1, "unknown_tab_capability">>, <<c2, "tab_permission_expired">>,
                          <<c3, "ineligible_tab">>, <<c4, "tab_selection_failed">> >>, z)
    BY DEF SelectTab
  <1>5. c1 \in BOOLEAN /\ c2 \in BOOLEAN /\ c3 \in BOOLEAN /\ c4 \in BOOLEAN
    OBVIOUS
  <1>6. /\ "unknown_tab_capability" \in ErrorCode /\ "tab_permission_expired" \in ErrorCode
        /\ "ineligible_tab" \in ErrorCode /\ "tab_selection_failed" \in ErrorCode
    BY DEF ErrorCode
  <1>7. ~c1 /\ ~c2 /\ ~c3 /\ ~c4 => Full(z)
    BY <1>3
  <1> HIDE DEF y, z, c1, c2, c3, c4
  <1>8. Full(Checked(y, << <<c1, "unknown_tab_capability">>, <<c2, "tab_permission_expired">>,
                           <<c3, "ineligible_tab">>, <<c4, "tab_selection_failed">> >>, z))
    BY <1>2, <1>5, <1>6, <1>7, Checked4
  <1> QED
    BY <1>4, <1>8

(* Detach gives up every consent and ends the request. *)
LEMMA DetachFull ==
  ASSUME NEW x, Base(x), Has(x, "busy"), ~Has(x, "renderer_pending")
  PROVE  Full(Detach(x))
  <1> DEFINE s == IF x.command = "cancel" THEN StopSession(x, "agent_cancelled") ELSE x
             d == Drop(s, {"attached"})
             y == [d EXCEPT !.tab = Nil, !.baseline = Nil, !.granted = {}, !.authorized = {},
                            !.task = [t \in Tabs |-> Nil]]
  <1>1. Base(s) /\ s.on \in {x.on, x.on \ {"attached"}}
    BY StopSessionBase DEF StopReasons
  <1>2. Base(d) /\ Has(d, "busy") /\ ~Has(d, "renderer_pending")
    <2> HIDE DEF s
    <2>1. Base(d) /\ d.on = s.on \ {"attached"}
      BY <1>1, DropBase, DropMembers DEF Flag, Base
    <2> QED
      BY <1>1, <2>1 DEF Has
  <1> HIDE DEF d
  <1>3. d \in Members
    BY <1>2 DEF Base
  <1>4. /\ y.tab = Nil /\ y.baseline = Nil /\ y.granted = {} /\ y.authorized = {}
        /\ y.task = [t \in Tabs |-> Nil]
    BY <1>3 DEF Members
  <1>5. y = [d EXCEPT !.tab = y.tab, !.baseline = y.baseline, !.granted = y.granted,
                      !.authorized = y.authorized, !.task = y.task]
    BY <1>4
  <1> HIDE DEF y
  <1>6. y \in Members
    <2> DEFINE none == [t \in Tabs |-> Nil]
    <2>1. none \in [Tabs -> [origin : Origins, rules : Rules] \cup {Nil}]
      OBVIOUS
    <2>2. y.task = none
      BY <1>4
    <2> HIDE DEF none
    <2>3. /\ y.tab \in Tabs \cup {Nil} /\ y.baseline \in [by : Ids, content : Nat] \cup {Nil}
          /\ y.granted \in SUBSET Tabs /\ y.authorized \in SUBSET Tabs
          /\ y.task \in [Tabs -> [origin : Origins, rules : Rules] \cup {Nil}]
      BY <1>4, <2>1, <2>2
    <2> QED
      BY <1>3, <1>5, <2>3 DEF Members
  <1>7. /\ y.on = d.on /\ y.id = d.id /\ y.req = d.req /\ y.command = d.command
        /\ y.stopped = d.stopped /\ y.prompt = d.prompt
    BY <1>3, <1>5 DEF Members
  <1>8. Base(y) /\ Has(y, "busy") /\ ~Has(y, "renderer_pending")
    BY <1>2, <1>4, <1>6, <1>7 DEF Base, Has
  <1>9. Full(Finish(y, NoError, 0, FALSE))
    BY <1>8, FinishFull
  <1> QED
    BY <1>9 DEF Detach, Succeed, y, d

(* Attach asks for consent for the tab in front. *)
LEMMA AttachFull ==
  ASSUME NEW x, Free(x), x.command = "attach", NEW shown, active \in Tabs \cup {Nil}
  PROVE  Full(Attach(x, shown))
  <1> DEFINE kept == {t \in x.granted : page[t] # "closed"}
             u == [x EXCEPT !.granted = kept]
             y == IF x.req.call.valid /\ Eligible(active) THEN u ELSE x
             v == [y EXCEPT !.tab = active, !.authorized = @ \ {active}, !.task[active] = Nil]
             w == Drop(v, {"attached"})
             d == ResetDocument(w)
             z == Ask(d, shown)
             c1 == ~x.req.call.valid
             c2 == ~Eligible(active)
             c3 == active \notin kept /\ Cardinality(kept) >= MaxGrants
  <1>1. x \in Members
    BY DEF Free, Seen, Base
  <1>2. Free(y) /\ y.command = "attach"
    <2>1. u.granted \in SUBSET Tabs
      BY <1>1 DEF Members
    <2>2. u = [x EXCEPT !.granted = u.granted]
      BY <1>1 DEF Members
    <2>3. /\ u.on = x.on /\ u.id = x.id /\ u.req = x.req /\ u.command = x.command
          /\ u.deferred = x.deferred /\ u.stopped = x.stopped
          /\ u.prompt = x.prompt /\ u.authorized = x.authorized /\ u.task = x.task
      BY <1>1 DEF Members
    <2> HIDE DEF u
    <2>4. u \in Members
      BY <1>1, <2>1, <2>2 DEF Members
    <2>5. Free(u)
      BY <2>3, <2>4 DEF Free, Seen, Base, Has
    <2> QED
      BY <2>3, <2>5
  <1>3. ASSUME ~c2
        PROVE  Full(z)
    <2>1. active \in Tabs /\ y \in Members
      BY <1>2, <1>3 DEF Eligible, Free, Seen, Base
    <2> HIDE DEF y
    <2>2. v.tab = active /\ v.authorized = y.authorized \ {active}
          /\ v.task = [y.task EXCEPT ![active] = Nil]
      BY <2>1 DEF Members
    <2>3. v = [y EXCEPT !.tab = v.tab, !.authorized = v.authorized, !.task = v.task]
      BY <2>1 DEF Members
    <2>4. /\ v.on = y.on /\ v.id = y.id /\ v.req = y.req /\ v.command = y.command
          /\ v.deferred = y.deferred /\ v.stopped = y.stopped /\ v.prompt = y.prompt
      BY <2>1 DEF Members
    <2> HIDE DEF v
    <2>5. v \in Members
      <3>1. v.task \in [Tabs -> [origin : Origins, rules : Rules] \cup {Nil}]
        BY <2>1, <2>2 DEF Members
      <3>2. v.authorized \in SUBSET Tabs
        BY <2>1, <2>2 DEF Members
      <3> QED
        BY <2>1, <2>2, <2>3, <3>1, <3>2 DEF Members
    <2>6. Free(v) /\ v.command = "attach"
      BY <1>2, <2>2, <2>4, <2>5 DEF Free, Seen, Base, Has
    <2>7. Free(w) /\ w.command = "attach"
      <3>1. Base(w) /\ w.on = v.on \ {"attached"} /\ SameFields(v, w)
        BY <2>5, <2>6, DropBase, DropMembers DEF Free, Seen, Flag
      <3> HIDE DEF w
      <3> QED
        BY <2>6, <3>1 DEF Free, Seen, Has, SameFields
    <2> HIDE DEF w
    <2>8. Free(d) /\ d.command = "attach"
      BY <2>7, ResetDocumentBase DEF Free, Seen, Has
    <2> HIDE DEF d
    <2> QED
      BY <2>8, AskFull
  <1>4. Attach(x, shown)
          = Checked(y, << <<c1, "invalid_permissions">>, <<c2, "ineligible_tab">>,
                          <<c3, "tab_grant_limit">> >>, z)
    BY DEF Attach
  <1>5. c1 \in BOOLEAN /\ c2 \in BOOLEAN /\ c3 \in BOOLEAN
    OBVIOUS
  <1>6. /\ "invalid_permissions" \in ErrorCode /\ "ineligible_tab" \in ErrorCode
        /\ "tab_grant_limit" \in ErrorCode
    BY DEF ErrorCode
  <1>7. ~c1 /\ ~c2 /\ ~c3 => Full(z)
    BY <1>3
  <1>8. Base(y)
    BY <1>2 DEF Free, Seen
  <1> HIDE DEF y, z, c1, c2, c3
  <1>9. Full(Checked(y, << <<c1, "invalid_permissions">>, <<c2, "ineligible_tab">>,
                           <<c3, "tab_grant_limit">> >>, z))
    BY <1>5, <1>6, <1>7, <1>8, Checked3
  <1> QED
    BY <1>4, <1>9

(* A wait arms its limit before its first probe. *)
LEMMA WaitChangeFull ==
  ASSUME NEW x, Free(x), x.command = "wait-change"
  PROVE  Full(WaitChange(x))
  <1> DEFINE d == Drop(x, {"wait_limit_reached", "wait_dirty"})
             y == Raise(d, {"waiting", "wait_limit_armed"})
             z == Execute(y)
             c1 == ~Attached(x)
             c2 == ~x.req.call.valid
             c3 == active # x.tab
             c4 == x.req.doc # x.document \/ ~Acknowledged(x)
  <1>1. Base(x)
    BY DEF Free, Seen
  <1>2. Full(z)
    <2>1. /\ d \in Members /\ SameFields(x, d)
          /\ d.on = x.on \ {"wait_limit_reached", "wait_dirty"}
      BY <1>1, DropMembers DEF Base
    <2> HIDE DEF d
    <2>2. /\ y \in Members /\ SameFields(d, y)
          /\ y.on = d.on \cup {"waiting", "wait_limit_armed"}
      BY <2>1, RaiseMembers DEF Flag
    <2> HIDE DEF y
    <2>3. Free(y)
      BY <1>1, <2>1, <2>2 DEF Free, Seen, Base, Has, SameFields
    <2> QED
      BY <2>3, FreeFull, ExecuteFull DEF Free, Seen
  <1>3. WaitChange(x)
          = Checked(x, << <<c1, "not_attached">>, <<c2, "invalid_wait">>,
                          <<c3, "activate_attached_tab">>, <<c4, "stale_document">> >>, z)
    BY DEF WaitChange
  <1>4. c1 \in BOOLEAN /\ c2 \in BOOLEAN /\ c3 \in BOOLEAN /\ c4 \in BOOLEAN
    OBVIOUS
  <1>5. /\ "not_attached" \in ErrorCode /\ "invalid_wait" \in ErrorCode
        /\ "activate_attached_tab" \in ErrorCode /\ "stale_document" \in ErrorCode
    BY DEF ErrorCode
  <1>6. ~c1 /\ ~c2 /\ ~c3 /\ ~c4 => Full(z)
    BY <1>2
  <1> HIDE DEF z, c1, c2, c3, c4
  <1>7. Full(Checked(x, << <<c1, "not_attached">>, <<c2, "invalid_wait">>,
                           <<c3, "activate_attached_tab">>, <<c4, "stale_document">> >>, z))
    BY <1>1, <1>4, <1>5, <1>6, Checked4
  <1> QED
    BY <1>3, <1>7

(* Observe. *)
LEMMA ObserveFull ==
  ASSUME NEW x, Free(x)
  PROVE  Full(Observe(x))
  <1> DEFINE c == ~Attached(x)
             z == Execute(x)
  <1>1. Full(z) /\ Base(x)
    BY FreeFull, ExecuteFull DEF Free, Seen
  <1>2. c \in BOOLEAN /\ "not_attached" \in ErrorCode
    BY DEF ErrorCode
  <1>3. Observe(x) = Checked(x, << <<c, "not_attached">> >>, z)
    BY DEF Observe
  <1> HIDE DEF c, z
  <1> QED
    BY <1>1, <1>2, <1>3, Checked1

(* Read. *)
LEMMA ReadFull ==
  ASSUME NEW x, Free(x)
  PROVE  Full(Read(x))
  <1> DEFINE c == ~Attached(x)
             d == x.req.doc # x.document
             z == Execute(x)
  <1>1. Full(z) /\ Base(x)
    BY FreeFull, ExecuteFull DEF Free, Seen
  <1>2. c \in BOOLEAN /\ d \in BOOLEAN
    OBVIOUS
  <1>3. "not_attached" \in ErrorCode /\ "stale_document" \in ErrorCode
    BY DEF ErrorCode
  <1>4. Read(x) = Checked(x, << <<c, "not_attached">>, <<d, "stale_document">> >>, z)
    BY DEF Read
  <1> HIDE DEF c, d, z
  <1> QED
    BY <1>1, <1>2, <1>3, <1>4, Checked2

(* The checks shared by the commands that need the tab in front. *)
LEMMA InFrontFull ==
  ASSUME NEW x, Base(x), NEW checks, NEW y, Full(Checked(x, checks, y))
  PROVE  Full(InFront(x, checks, y))
  <1> DEFINE c == ~Attached(x)
             d == active # x.tab
             z == Checked(x, checks, y)
  <1>1. c \in BOOLEAN /\ d \in BOOLEAN
    OBVIOUS
  <1>2. "not_attached" \in ErrorCode /\ "activate_attached_tab" \in ErrorCode
    BY DEF ErrorCode
  <1>3. InFront(x, checks, y)
          = Checked(x, << <<c, "not_attached">>, <<d, "activate_attached_tab">> >>, z)
    BY DEF InFront
  <1> HIDE DEF c, d, z
  <1>4. Full(z)
    BY DEF z
  <1> QED
    BY <1>1, <1>2, <1>3, <1>4, Checked2

(* Scroll, ask, navigate, batch, fill and click. *)
LEMMA InFrontCommandsFull ==
  ASSUME NEW x, Free(x), NEW shown
  PROVE  /\ Full(Scroll(x))
         /\ x.command # "wait-change" => Full(AskUser(x, shown)) /\ Full(Navigate(x, shown))
         /\ x.command \in Acting => Full(Batch(x)) /\ Full(FillOrClick(x))
  <1> DEFINE stale == x.req.doc # x.document
             invalid == ~x.req.call.valid
             unknown == ~Acknowledged(x)
             gone == x.baseline = Nil \/ x.req.doc # x.document
             denied == Attached(x) /\ ActionRule(x, "navigate") = "deny"
             go == IF ActionRule(x, "navigate") = "allow" /\ x.req.call.origin = page[x.tab]
                   THEN Answered(x, x.id, x.document, TRUE) ELSE Ask(x, shown)
  <1>1. /\ stale \in BOOLEAN /\ invalid \in BOOLEAN /\ unknown \in BOOLEAN
        /\ gone \in BOOLEAN /\ denied \in BOOLEAN
    OBVIOUS
  <1>2. /\ "stale_document" \in ErrorCode /\ "invalid_scroll" \in ErrorCode
        /\ "invalid_question" \in ErrorCode /\ "invalid_url" \in ErrorCode
        /\ "permission_denied" \in ErrorCode /\ "invalid_batch" \in ErrorCode
        /\ "unknown_reference" \in ErrorCode
    BY DEF ErrorCode
  <1>3. Base(x) /\ Full(x) /\ Full(Execute(x))
    BY FreeFull, ExecuteFull DEF Free, Seen
  <1>4. Full(Scroll(x))
    <2> DEFINE checks == << <<stale, "stale_document">>, <<invalid, "invalid_scroll">> >>
               y == Execute(x)
    <2>1. Scroll(x) = InFront(x, checks, y)
      BY DEF Scroll
    <2> HIDE DEF stale, invalid, y
    <2>2. Full(Checked(x, checks, y))
      BY <1>1, <1>2, <1>3, Checked2 DEF y
    <2> HIDE DEF checks
    <2> QED
      BY <1>3, <2>1, <2>2, InFrontFull
  <1>5. ASSUME x.command # "wait-change"
        PROVE  Full(AskUser(x, shown))
    <2> DEFINE checks == << <<invalid, "invalid_question">> >>
               y == Ask(x, shown)
    <2>1. AskUser(x, shown) = InFront(x, checks, y)
      BY DEF AskUser
    <2>2. Full(y)
      BY <1>5, AskFull
    <2> HIDE DEF invalid, y
    <2>3. Full(Checked(x, checks, y))
      BY <1>1, <1>2, <1>3, <2>2, Checked1
    <2> HIDE DEF checks
    <2> QED
      BY <1>3, <2>1, <2>3, InFrontFull
  <1>6. ASSUME x.command # "wait-change"
        PROVE  Full(Navigate(x, shown))
    <2> DEFINE checks == << <<invalid, "invalid_url">>, <<denied, "permission_denied">> >>
    <2>1. Navigate(x, shown) = InFront(x, checks, go)
      BY DEF Navigate
    <2>2. Full(go)
      <3>1. Free([x EXCEPT !.prompt = Nil])
        <4>1. x \in Members /\ x.prompt = Nil
          BY DEF Free, Seen, Base
        <4>2. [x EXCEPT !.prompt = Nil] = x
          BY <4>1 DEF Members
        <4> QED
          BY <4>2
      <3>2. Full(Answered(x, x.id, x.document, TRUE))
        BY <1>3, <3>1, AnsweredFull
      <3>3. Full(Ask(x, shown))
        BY <1>6, AskFull
      <3> QED
        BY <3>2, <3>3
    <2> HIDE DEF invalid, denied, go
    <2>3. Full(Checked(x, checks, go))
      BY <1>1, <1>2, <1>3, <2>2, Checked2
    <2> HIDE DEF checks
    <2> QED
      BY <1>3, <2>1, <2>3, InFrontFull
  <1>7. ASSUME x.command \in Acting
        PROVE  Full(Batch(x)) /\ Full(FillOrClick(x))
    <2> DEFINE batch == << <<unknown, "stale_document">>, <<invalid, "invalid_batch">> >>
               act == << <<gone, "stale_document">>, <<invalid, "unknown_reference">> >>
               y == Preflight(x)
    <2>1. Batch(x) = InFront(x, batch, y) /\ FillOrClick(x) = InFront(x, act, y)
      BY DEF Batch, FillOrClick
    <2>2. Full(y)
      BY <1>7, PreflightFull
    <2> HIDE DEF unknown, invalid, gone, y
    <2>3. Full(Checked(x, batch, y))
      BY <1>1, <1>2, <1>3, <2>2, Checked2
    <2>4. Full(Checked(x, act, y))
      BY <1>1, <1>2, <1>3, <2>2, Checked2
    <2> HIDE DEF batch, act
    <2> QED
      BY <1>3, <2>1, <2>3, <2>4, InFrontFull
  <1> QED
    BY <1>4, <1>5, <1>6, <1>7

(* Every command, also one that arrives after a stop. *)
LEMMA DispatchFull ==
  ASSUME NEW x, Seen(x), NEW shown, NEW selected, active \in Tabs \cup {Nil}
  PROVE  Full(Dispatch(x, shown, selected))
  <1>1. Base(x) /\ Has(x, "busy") /\ ~Has(x, "renderer_pending") /\ x.command \in Command
    BY DEF Seen
  <1>2. Full(Succeed(x)) /\ Full(Detach(x)) /\ Full(Finish(x, "session_stopped", 0, FALSE))
    <2>1. Full(Finish(x, NoError, 0, FALSE)) /\ Full(Finish(x, "session_stopped", 0, FALSE))
      BY <1>1, FinishFull DEF ErrorCode
    <2> QED
      BY <1>1, <2>1, DetachFull DEF Succeed
  <1>3. CASE x.stopped # NoError /\ x.command \notin {"status", "detach", "cancel"}
    BY <1>2, <1>3 DEF Dispatch
  <1>4. CASE x.command \in {"status", "tabs"} /\ ~(x.stopped # NoError /\ x.command = "tabs")
    BY <1>2, <1>4 DEF Dispatch
  <1>5. CASE x.command \in {"detach", "cancel"}
    BY <1>2, <1>5 DEF Dispatch
  <1>6. CASE x.stopped = NoError /\ x.command \notin {"status", "tabs", "detach", "cancel"}
    <2>1. Free(x)
      BY <1>6 DEF Free
    <2>2. CASE x.command = "select-tab"
      BY <1>6, <2>1, <2>2, SelectTabFull DEF Dispatch
    <2>3. CASE x.command = "attach"
      BY <1>6, <2>1, <2>3, AttachFull DEF Dispatch
    <2>4. CASE x.command = "wait-change"
      BY <1>6, <2>1, <2>4, WaitChangeFull DEF Dispatch
    <2>5. CASE x.command = "observe"
      BY <1>6, <2>1, <2>5, ObserveFull DEF Dispatch
    <2>6. CASE x.command = "read"
      BY <1>6, <2>1, <2>6, ReadFull DEF Dispatch
    <2>7. CASE x.command = "scroll"
      BY <1>6, <2>1, <2>7, InFrontCommandsFull DEF Dispatch
    <2>8. CASE x.command \in {"ask", "navigate"}
      <3>1. Full(AskUser(x, shown)) /\ Full(Navigate(x, shown))
        BY <2>1, <2>8, InFrontCommandsFull
      <3> QED
        BY <1>6, <2>8, <3>1 DEF Dispatch
    <2>9. CASE x.command \in Acting
      <3>1. Full(Batch(x)) /\ Full(FillOrClick(x))
        BY <2>1, <2>9, InFrontCommandsFull
      <3> QED
        BY <1>6, <2>9, <3>1 DEF Dispatch, Acting
    <2>10. CASE x.command = "unknown"
      <3>1. Full(Error(x, "unknown_command"))
        BY <1>1, ErrorFull DEF ErrorCode
      <3> QED
        BY <1>6, <2>10, <3>1 DEF Dispatch
    <2> QED
      BY <1>1, <1>6, <2>2, <2>3, <2>4, <2>5, <2>6, <2>7, <2>8, <2>9, <2>10 DEF Command, Acting
  <1> QED
    BY <1>3, <1>4, <1>5, <1>6

(* A request this call claimed, on an idle bridge. *)
LEMMA AdmitFull ==
  ASSUME NEW x, Base(x), ~Has(x, "busy"), ~Has(x, "reading"), ~Has(x, "writing_response"),
         x.id \in Ids, x.req \in Request, NEW shown, NEW selected,
         active \in Tabs \cup {Nil}
  PROVE  Full(Admit(x, shown, selected))
  <1> DEFINE r == Raise(x, {"busy", "request_claimed", "deadline"})
             d == Drop(r, {"expired"})
             y == Begin(x)
             z == Dispatch(y, shown, selected)
             c1 == y.req.call.expiry = "invalid"
             c2 == y.req.call.expiry = "past"
  <1>1. x \in Members /\ x.req.call.command \in Command
    BY CallsAssumption DEF Base, Request, Call
  <1>2. /\ r \in Members /\ SameFields(x, r)
        /\ r.on = x.on \cup {"busy", "request_claimed", "deadline"}
    BY <1>1, RaiseMembers DEF Flag
  <1>3. d \in Members /\ SameFields(x, d) /\ d.on = r.on \ {"expired"}
    <2> HIDE DEF r
    <2>1. d \in Members /\ SameFields(r, d) /\ d.on = r.on \ {"expired"}
      BY <1>2, DropMembers
    <2> QED
      BY <1>2, <2>1 DEF SameFields
  <1>4. y = [d EXCEPT !.deferred = NoError, !.command = x.req.call.command]
    BY DEF Begin
  <1> HIDE DEF d
  <1>5. /\ y.deferred = NoError /\ y.command = x.req.call.command /\ y.on = d.on
        /\ y.id = d.id /\ y.req = d.req /\ y.stopped = d.stopped /\ y.prompt = d.prompt
        /\ y.authorized = d.authorized /\ y.task = d.task
    BY <1>3, <1>4 DEF Members
  <1> HIDE DEF y
  <1>6. y \in Members
    <2>1. y = [d EXCEPT !.deferred = y.deferred, !.command = y.command]
      BY <1>4, <1>5
    <2>2. y.deferred \in ErrorCode \cup {NoError} /\ y.command \in Command \cup {NoError}
      BY <1>1, <1>5
    <2> QED
      BY <1>3, <2>1, <2>2 DEF Members
  <1> HIDE DEF r
  <1>7. Seen(y)
    <2>1. /\ y.on = (x.on \cup {"busy", "request_claimed", "deadline"}) \ {"expired"}
          /\ y.id = x.id /\ y.req = x.req /\ y.stopped = x.stopped /\ y.prompt = x.prompt
          /\ y.authorized = x.authorized /\ y.task = x.task
      BY <1>2, <1>3, <1>5 DEF SameFields
    <2> QED
      BY <1>1, <1>5, <1>6, <2>1 DEF Seen, Base, Has
  <1>8. Full(z) /\ Base(y)
    BY <1>7, DispatchFull DEF Seen
  <1>9. Admit(x, shown, selected)
          = Checked(y, << <<c1, "invalid_request_deadline">>, <<c2, "request_expired">> >>, z)
    BY DEF Admit, y
  <1>10. c1 \in BOOLEAN /\ c2 \in BOOLEAN
    OBVIOUS
  <1>11. "invalid_request_deadline" \in ErrorCode /\ "request_expired" \in ErrorCode
    BY DEF ErrorCode
  <1> HIDE DEF z, c1, c2
  <1> QED
    BY <1>8, <1>9, <1>10, <1>11, Checked2

(* Posting a task to the I/O sequence. *)
LEMMA PostFull ==
  ASSUME NEW x, Full(x), NEW t \in HandlerTask
  PROVE  Full(Post(x, t)) /\ Post(x, t).on = x.on
  <1> DEFINE y == Post(x, t)
  <1>1. x \in Members
    BY DEF Full, Base
  <1>2. y.post \in Seq(HandlerTask)
    BY <1>1, AppendProperties DEF Members, Post
  <1>3. y = [x EXCEPT !.post = y.post]
    BY <1>1 DEF Members, Post
  <1>4. /\ y.on = x.on /\ y.id = x.id /\ y.req = x.req /\ y.command = x.command
        /\ y.document = x.document /\ y.deferred = x.deferred /\ y.stopped = x.stopped
        /\ y.prompt = x.prompt /\ y.authorized = x.authorized /\ y.task = x.task
    BY <1>1 DEF Members, Post
  <1> HIDE DEF y
  <1>5. y \in Members
    BY <1>1, <1>2, <1>3 DEF Members
  <1>6. Full(y)
    BY <1>4, <1>5 DEF Full, Base, Has
  <1> QED
    BY <1>4, <1>6 DEF y

(* A request somebody claimed before. *)
LEMMA RefuseFull ==
  ASSUME NEW x, Base(x), ~Has(x, "busy"), ~Has(x, "reading"), ~Has(x, "writing_response"),
         x.id \in Ids, x.req \in Request, NEW cached \in Answer \cup {Nil}
  PROVE  Full(Refuse(x, cached))
  <1> DEFINE y == Drop(x, {"request_claimed"})
             q == Raise(y, {"quarantined"})
             z == Raise(y, {"busy", "quarantined"})
  <1>1. Base(y) /\ SameFields(x, y) /\ y.on = x.on \ {"request_claimed"} /\ y \in Members
    BY DropBase, DropMembers DEF Flag, Base
  <1>2. CASE cached = Nil
    <2>1. z \in Members /\ SameFields(y, z) /\ z.on = y.on \cup {"busy", "quarantined"}
      <3> HIDE DEF y
      <3> QED
        BY <1>1, RaiseMembers DEF Flag
    <2>2. Refuse(x, cached) = Error(z, "request_outcome_unknown")
      BY <1>2 DEF Refuse
    <2> HIDE DEF y, z
    <2>3. Base(z)
      BY <1>1, <2>1 DEF Base, Has, SameFields
    <2> QED
      BY <2>2, <2>3, ErrorFull DEF ErrorCode
  <1>3. CASE cached # Nil
    <2> DEFINE w == IF cached.settled THEN y ELSE q
               t == [op |-> "rewrite", answer |-> cached]
    <2>1. Refuse(x, cached) = Post(w, t)
      BY <1>3 DEF Refuse
    <2>2. t \in HandlerTask
      BY <1>3 DEF HandlerTask
    <2>3. Full(y)
      <3> HIDE DEF y
      <3> QED
        BY <1>1 DEF Full, Base, Has
    <2>4. Full(w)
      <3> HIDE DEF y
      <3> QED
        BY <2>3, RaiseFull DEF Loose
    <2> HIDE DEF w, t
    <2> QED
      BY <2>1, <2>2, <2>4, PostFull
  <1> QED
    BY <1>2, <1>3

(* The reply to a read finds the bridge idle, and may stop, admit or refuse. *)
LEMMA ReceivedFull ==
  ASSUME NEW x, Full(x), Has(x, "reading"), NEW r \in ReadReply, NEW shown, NEW selected,
         active \in Tabs \cup {Nil}
  PROVE  Full(Received(x, r, shown, selected))
  <1> DEFINE d == Drop(x, {"reading"})
             s == IF r.stop = NoError THEN d ELSE StopSession(d, r.stop)
             y == [s EXCEPT !.req = r.data, !.id = r.data.id]
  <1>1. Base(d) /\ d.on = x.on \ {"reading"}
    BY DropBase, DropMembers DEF Full, Base, Flag
  <1>2. Base(s) /\ s.on \in {d.on, d.on \ {"attached"}}
    <2>1. r.stop # NoError => r.stop \in StopReasons \cup {Unreadable}
      BY DEF ReadReply, Reason
    <2> HIDE DEF d
    <2> QED
      BY <1>1, <2>1, StopSessionBase
  <1>3. ~Has(s, "busy") /\ ~Has(s, "reading") /\ ~Has(s, "writing_response")
    <2> HIDE DEF d, s
    <2> QED
      BY <1>1, <1>2 DEF Full, Base, Has
  <1> HIDE DEF s
  <1>4. Full(s)
    BY <1>2, <1>3 DEF Full, Base
  <1>5. CASE r.data = Nil
    BY <1>4, <1>5 DEF Received, s
  <1>6. CASE r.data # Nil
    <2>1. s \in Members /\ r.data \in Request /\ r.data.id \in Ids
      BY <1>2, <1>6 DEF Base, ReadReply, Request
    <2>2. y.req = r.data /\ y.id = r.data.id
      BY <2>1 DEF Members
    <2>3. y = [s EXCEPT !.req = y.req, !.id = y.id]
      BY <2>2
    <2>4. /\ y.on = s.on /\ y.command = s.command /\ y.stopped = s.stopped
          /\ y.prompt = s.prompt /\ y.authorized = s.authorized /\ y.task = s.task
      BY <2>1 DEF Members
    <2>5. Received(x, r, shown, selected)
            = IF r.fresh THEN Admit(y, shown, selected) ELSE Refuse(y, r.cached)
      BY <1>6 DEF Received, s
    <2> HIDE DEF y
    <2>6. y \in Members
      <3>1. y.req \in Request \cup {Nil} /\ y.id \in IdOrNil
        BY <2>1, <2>2 DEF IdOrNil
      <3> QED
        BY <2>1, <2>3, <3>1 DEF Members
    <2>7. /\ Base(y) /\ ~Has(y, "busy") /\ ~Has(y, "reading")
          /\ ~Has(y, "writing_response")
      BY <1>2, <1>3, <2>4, <2>6 DEF Base, Has
    <2>8. Full(Admit(y, shown, selected))
      BY <2>1, <2>2, <2>7, AdmitFull
    <2>9. Full(Refuse(y, r.cached))
      <3>1. r.cached \in Answer \cup {Nil}
        BY DEF ReadReply
      <3> QED
        BY <2>1, <2>2, <2>7, <3>1, RefuseFull
    <2> QED
      BY <2>5, <2>8, <2>9
  <1> QED
    BY <1>5, <1>6

-----------------------------------------------------------------------------
(* Results of scripts. *)

(* The baseline is the bridge's to replace. *)
LEMMA BaselineUpdate ==
  ASSUME NEW x, Base(x), NEW base \in [by : Ids, content : Nat] \cup {Nil}
  PROVE  LET y == [x EXCEPT !.baseline = base]
         IN  /\ Base(y) /\ y.on = x.on
             /\ Full(x) => Full(y)
  <1> DEFINE y == [x EXCEPT !.baseline = base]
  <1>1. x \in Members
    BY DEF Base
  <1>2. y \in Members
    BY <1>1 DEF Members
  <1>3. /\ y.on = x.on /\ y.id = x.id /\ y.req = x.req /\ y.command = x.command
        /\ y.document = x.document /\ y.deferred = x.deferred /\ y.stopped = x.stopped
        /\ y.prompt = x.prompt /\ y.authorized = x.authorized /\ y.task = x.task
    BY <1>1 DEF Members
  <1> HIDE DEF y
  <1>4. Base(y)
    BY <1>2, <1>3 DEF Base, Has
  <1>5. Full(x) => Full(y)
    BY <1>3, <1>4 DEF Full, Has
  <1> QED
    BY <1>3, <1>4, <1>5 DEF y

(* A snapshot ends the request or leaves the wait waiting. *)
LEMMA SnapshotFull ==
  ASSUME NEW x, Free(x), NEW result \in Result
  PROVE  Full(Snapshot(x, result))
  <1> DEFINE base == IF result.truncated THEN Nil ELSE [by |-> x.id, content |-> result.content]
             y == [x EXCEPT !.baseline = base]
  <1>1. base \in [by : Ids, content : Nat] \cup {Nil}
    BY DEF Result, Free, Seen, Base
  <1>2. Base(x) /\ x.document \in Nat
    BY DEF Free, Seen, Base, Members, Documents
  <1>3. Base(y) /\ y.on = x.on
    <2> HIDE DEF base
    <2> QED
      BY <1>1, <1>2, BaselineUpdate
  <1>4. Full(Finish(y, NoError, x.document, FALSE))
    <2> HIDE DEF y
    <2> QED
      BY <1>2, <1>3, FinishFull DEF Free, Seen, Has
  <1>5. Full(x) /\ Full(WakeWait(x))
    BY FreeFull, WakeWaitFull
  <1>6. Snapshot(x, result) \in {x, WakeWait(x), Finish(y, NoError, x.document, FALSE)}
    BY DEF Snapshot
  <1> QED
    BY <1>4, <1>5, <1>6

(* The second permission check of a request that acts. *)
LEMMA PreflightedFull ==
  ASSUME NEW x, Free(x), Has(x, "preflight"), NEW shown
  PROVE  Full(Preflighted(x, shown))
  <1> DEFINE y == Drop(x, {"preflight"})
             c1 == Has(x, "expired")
             c2 == ~Eligible(x.tab) \/ active # x.tab
             c3 == RequestRule(y) = "deny"
             act == IF RequestRule(y) = "allow"
                    THEN Answered(y, y.id, y.document, TRUE) ELSE Ask(y, shown)
             z == Checked(y, << <<c3, "permission_denied">> >>, act)
  <1>1. Free(y) /\ y.command # "wait-change"
    <2>1. Base(y) /\ y.on = x.on \ {"preflight"} /\ SameFields(x, y)
      BY DropBase, DropMembers DEF Free, Seen, Base, Flag
    <2>2. x.command \in Acting
      BY DEF Free, Seen, Base
    <2> HIDE DEF y
    <2> QED
      BY <2>1, <2>2 DEF Free, Seen, Has, SameFields, Acting
  <1>2. Full(act)
    <2> HIDE DEF y
    <2>1. Free([y EXCEPT !.prompt = Nil])
      <3>1. y \in Members /\ y.prompt = Nil
        BY <1>1 DEF Free, Seen, Base
      <3>2. [y EXCEPT !.prompt = Nil] = y
        BY <3>1 DEF Members
      <3> QED
        BY <1>1, <3>2
    <2>2. Full(Answered(y, y.id, y.document, TRUE))
      BY <1>1, <2>1, FreeFull, AnsweredFull
    <2>3. Full(Ask(y, shown))
      BY <1>1, AskFull
    <2> QED
      BY <2>2, <2>3
  <1>3. c1 \in BOOLEAN /\ c2 \in BOOLEAN /\ c3 \in BOOLEAN
    BY DEF Has
  <1>4. /\ "request_expired" \in ErrorCode /\ "tab_changed" \in ErrorCode
        /\ "permission_denied" \in ErrorCode
    BY DEF ErrorCode
  <1>5. Base(x) /\ Base(y)
    BY <1>1 DEF Free, Seen
  <1>6. Full(z)
    <2> HIDE DEF y, act, c3
    <2> QED
      BY <1>2, <1>3, <1>4, <1>5, Checked1
  <1>7. Preflighted(x, shown)
          = Checked(x, << <<c1, "request_expired">>, <<c2, "tab_changed">> >>, z)
    BY DEF Preflighted
  <1> HIDE DEF c1, c2, z
  <1> QED
    BY <1>3, <1>4, <1>5, <1>6, <1>7, Checked2

(* A result, of the script in hand or of an earlier one. *)
LEMMA ObservedFull ==
  ASSUME NEW x, Full(x), NEW id, NEW doc, NEW result \in Result, NEW shown
  PROVE  Full(Observed(x, id, doc, result, shown))
  <1> DEFINE seen == Drop(x, {"renderer_pending"})
             y == Settle(x, result)
  <1>1. CASE ~Has(x, "busy") \/ id # x.id \/ ~Has(x, "renderer_pending")
    BY <1>1 DEF Observed
  <1>2. CASE Has(x, "busy") /\ id = x.id /\ Has(x, "renderer_pending")
    <2>1. /\ Base(seen) /\ seen \in Members /\ seen.on = x.on \ {"renderer_pending"}
          /\ SameFields(x, seen)
      BY DropBase, DropMembers DEF Full, Base, Flag
    <2>2. /\ Base(y) /\ SameFields(x, y) /\ Has(y, "busy") /\ ~Has(y, "renderer_pending")
          /\ ~Has(y, "navigating")
      <3> DEFINE q == Raise(seen, {"quarantined"})
      <3> HIDE DEF seen
      <3>1. q \in Members /\ SameFields(seen, q) /\ q.on = seen.on \cup {"quarantined"}
        BY <2>1, RaiseMembers DEF Flag
      <3>2. y \in {seen, q}
        BY DEF Settle, seen
      <3> HIDE DEF q, y
      <3>3. CASE y = seen
        BY <1>2, <2>1, <3>3 DEF Full, Base, Has
      <3>4. CASE y = q
        <4>1. SameFields(x, y)
          BY <2>1, <3>1, <3>4 DEF SameFields
        <4>2. Base(y)
          BY <2>1, <3>1, <3>4 DEF Base, Has, SameFields
        <4> QED
          BY <1>2, <2>1, <3>1, <3>4, <4>1, <4>2 DEF Full, Base, Has
      <3> QED
        BY <3>2, <3>3, <3>4
    <2> HIDE DEF y, seen
    <2>3. CASE y.deferred # NoError
      <3>1. y.deferred \in ErrorCode \cup {NoError}
        BY <2>2 DEF Base, Members
      <3>2. Full(Finish(y, y.deferred, 0, TRUE))
        BY <2>2, <3>1, FinishFull
      <3> QED
        BY <1>2, <2>3, <3>2 DEF Observed, Interrupted, y
    <2>4. CASE y.deferred = NoError
      <3>1. Free(y)
        BY <1>2, <2>2, <2>4 DEF Full, Free, Seen, SameFields
      <3> DEFINE c1 == doc # y.document
                 c2 == result.kind = "none"
                 c3 == result.kind # "preflight"
                 over == Finish(y, "renderer_error", 0, result.kind = "partial")
                 pre == Checked(y, << <<c3, "invalid_preflight">> >>, Preflighted(y, shown))
                 z == CASE result.kind \in {"error", "partial"} -> over
                        [] result.kind \notin {"error", "partial"} /\ Has(y, "preflight") -> pre
                        [] result.kind = "text" /\ ~Has(y, "preflight")  -> Succeed(y)
                        [] result.kind = "nodes" /\ ~Has(y, "preflight") -> Snapshot(y, result)
                        [] OTHER -> Error(y, "invalid_observation")
      <3>2. /\ c1 \in BOOLEAN /\ c2 \in BOOLEAN /\ c3 \in BOOLEAN
            /\ (result.kind = "partial") \in BOOLEAN
        OBVIOUS
      <3>3. /\ "stale_document" \in ErrorCode /\ "renderer_unavailable" \in ErrorCode
            /\ "renderer_error" \in ErrorCode /\ "invalid_preflight" \in ErrorCode
            /\ "invalid_observation" \in ErrorCode
        BY DEF ErrorCode
      <3>4. /\ Full(over) /\ Full(Succeed(y)) /\ Full(Snapshot(y, result))
            /\ Full(Error(y, "invalid_observation"))
        BY <2>2, <3>1, <3>2, <3>3, FinishFull, ErrorFull, SnapshotFull DEF Succeed
      <3>5. Has(y, "preflight") => Full(pre)
        <4> SUFFICES ASSUME Has(y, "preflight")
                     PROVE  Full(pre)
          OBVIOUS
        <4>1. Full(Preflighted(y, shown))
          BY <3>1, PreflightedFull
        <4> HIDE DEF c3
        <4> QED
          BY <2>2, <3>2, <3>3, <4>1, Checked1
      <3>6. Full(z)
        <4> HIDE DEF over, pre
        <4>1. CASE result.kind \in {"error", "partial"}
          BY <3>4, <4>1
        <4>2. CASE result.kind \notin {"error", "partial"} /\ Has(y, "preflight")
          BY <3>5, <4>2
        <4>3. CASE result.kind \notin {"error", "partial"} /\ ~Has(y, "preflight")
          <5>1. CASE result.kind = "text"
            BY <3>4, <4>3, <5>1
          <5>2. CASE result.kind = "nodes"
            BY <3>4, <4>3, <5>2
          <5>3. CASE result.kind \notin {"text", "nodes"}
            BY <3>4, <4>3, <5>3
          <5> QED
            BY <5>1, <5>2, <5>3
        <4> QED
          BY <4>1, <4>2, <4>3
      <3>7. Observed(x, id, doc, result, shown)
              = Checked(y, << <<c1, "stale_document">>, <<c2, "renderer_unavailable">> >>, z)
        BY <1>2, <2>4 DEF Observed, y
      <3> HIDE DEF c1, c2, z
      <3> QED
        BY <2>2, <3>2, <3>3, <3>6, <3>7, Checked2
    <2> QED
      BY <2>3, <2>4
  <1> QED
    BY <1>1, <1>2

-----------------------------------------------------------------------------
(* The other handlers.  A request being read is not lost to any of them. *)
Keeps(x, y) == Has(x, "reading") => Has(y, "reading")

(* Error on an idle bridge can only detach it. *)
LEMMA ErrorIdle ==
  ASSUME NEW x, Base(x), ~Has(x, "busy"), NEW e \in ErrorCode
  PROVE  Error(x, e).on \in {x.on, x.on \ {"attached"}}
  <1> DEFINE s == IF e \in {"user_cancelled", "user_takeover", "client_cancelled"}
                  THEN StopSession(x, e) ELSE x
  <1>1. s.on \in {x.on, x.on \ {"attached"}}
    BY StopSessionBase DEF StopReasons
  <1>2. ~Has(s, "busy")
    <2> HIDE DEF s
    <2> QED
      BY <1>1 DEF Has
  <1>3. Error(x, e) = s
    BY <1>2 DEF Error
  <1> QED
    BY <1>1, <1>3

(* Error takes no read back. *)
LEMMA ErrorKeeps ==
  ASSUME NEW x, Base(x), NEW e \in ErrorCode
  PROVE  Keeps(x, Error(x, e))
  <1>1. CASE Has(x, "busy")
    BY <1>1 DEF Keeps, Base
  <1>2. CASE ~Has(x, "busy")
    <2>1. Error(x, e).on \in {x.on, x.on \ {"attached"}}
      BY <1>2, ErrorIdle
    <2> QED
      BY <2>1 DEF Keeps, Has
  <1> QED
    BY <1>1, <1>2

(* A rule may be revoked at any time. *)
LEMMA TaskUpdate ==
  ASSUME NEW x, Base(x), NEW t \in Tabs
  PROVE  LET y == [x EXCEPT !.task[t] = Nil]
         IN  Base(y) /\ y.on = x.on /\ (Full(x) => Full(y)) /\ y.tab = x.tab
  <1> DEFINE y == [x EXCEPT !.task[t] = Nil]
  <1>1. x \in Members
    BY DEF Base
  <1>2. y.task = [x.task EXCEPT ![t] = Nil]
    BY <1>1 DEF Members
  <1>3. y = [x EXCEPT !.task = y.task]
    BY <1>1 DEF Members
  <1>4. /\ y.on = x.on /\ y.id = x.id /\ y.req = x.req /\ y.command = x.command
        /\ y.document = x.document /\ y.deferred = x.deferred /\ y.stopped = x.stopped
        /\ y.prompt = x.prompt /\ y.authorized = x.authorized /\ y.tab = x.tab
    BY <1>1 DEF Members
  <1> HIDE DEF y
  <1>5. y.task \in [Tabs -> [origin : Origins, rules : Rules] \cup {Nil}]
    BY <1>1, <1>2 DEF Members
  <1>6. y \in Members
    BY <1>1, <1>3, <1>5 DEF Members
  <1>7. (\A u \in Tabs : x.task[u] = Nil) => (\A u \in Tabs : y.task[u] = Nil)
    BY <1>1, <1>2 DEF Members
  <1>8. Base(y)
    BY <1>4, <1>6, <1>7 DEF Base, Has
  <1>9. Full(x) => Full(y)
    BY <1>4, <1>8 DEF Full, Has
  <1> QED
    BY <1>4, <1>8, <1>9 DEF y

(* Consent may be revoked at any time. *)
LEMMA ConsentUpdate ==
  ASSUME NEW x, Base(x), NEW t
  PROVE  LET y == [x EXCEPT !.authorized = @ \ {t}]
         IN  Base(y) /\ y.on = x.on /\ (Full(x) => Full(y)) /\ y.tab = x.tab
  <1> DEFINE y == [x EXCEPT !.authorized = @ \ {t}]
  <1>1. x \in Members
    BY DEF Base
  <1>2. y.authorized = x.authorized \ {t}
    BY <1>1 DEF Members
  <1>3. y = [x EXCEPT !.authorized = y.authorized]
    BY <1>1 DEF Members
  <1>4. /\ y.on = x.on /\ y.id = x.id /\ y.req = x.req /\ y.command = x.command
        /\ y.document = x.document /\ y.deferred = x.deferred /\ y.stopped = x.stopped
        /\ y.prompt = x.prompt /\ y.task = x.task /\ y.tab = x.tab
    BY <1>1 DEF Members
  <1> HIDE DEF y
  <1>5. y.authorized \in SUBSET Tabs
    BY <1>1, <1>2 DEF Members
  <1>6. y \in Members
    BY <1>1, <1>3, <1>5 DEF Members
  <1>7. Base(y)
    BY <1>2, <1>4, <1>6 DEF Base, Has
  <1>8. Full(x) => Full(y)
    BY <1>4, <1>7 DEF Full, Has
  <1> QED
    BY <1>4, <1>7, <1>8 DEF y

(* The observed tab commits a navigation. *)
LEMMA NavigatedFull ==
  ASSUME NEW x, Full(x), x.tab \in Tabs, NEW origin
  PROVE  Full(Navigated(x, origin)) /\ Keeps(x, Navigated(x, origin))
  <1> DEFINE covered == Covers(x, x.tab, origin)
             left == IF covered THEN x ELSE [x EXCEPT !.task[x.tab] = Nil]
             d == Drop(left, {"attached"})
             w == IF ~Has(x, "navigating") /\ ~covered THEN d ELSE left
             y == ResetDocument(w)
             e == IF y.deferred # NoError THEN y.deferred ELSE "stale_document"
             p == Drop(y, {"renderer_pending"})
             q == IF Probe(y) THEN p ELSE y
  <1>1. Full(left) /\ left.on = x.on
    BY TaskUpdate DEF Full
  <1>2. Full(w) /\ w.on \in {x.on, x.on \ {"attached"}}
    <2> HIDE DEF left, covered
    <2>1. Full(d) /\ d.on = left.on \ {"attached"}
      BY <1>1, DropFull, DropMembers DEF Full, Base, Flag
    <2> HIDE DEF d
    <2> QED
      BY <1>1, <2>1
  <1> HIDE DEF w
  <1>3. /\ Base(y) /\ y.on = w.on /\ y.deferred = w.deferred /\ y.prompt = w.prompt
        /\ y.command = w.command /\ y.stopped = w.stopped
    BY <1>2, ResetDocumentBase DEF Full
  <1> HIDE DEF y
  <1>4. Keeps(x, y)
    BY <1>2, <1>3 DEF Keeps, Has
  <1>5. CASE ~Has(y, "busy") \/ Has(y, "navigating")
    <2>1. Full(y)
      BY <1>2, <1>3, <1>5 DEF Full, Base, Has
    <2>2. Navigated(x, origin) = y
      BY <1>5 DEF Navigated, w, y
    <2> QED
      BY <1>4, <2>1, <2>2
  <1>6. CASE Has(y, "busy") /\ ~Has(y, "navigating")
    <2>1. Base(p)
      BY <1>3, DropBase DEF Flag
    <2>2. e \in ErrorCode
      BY <1>3, ErrorCodes DEF Base, Members, ErrorCode
    <2>3. Navigated(x, origin) = Error(q, e)
      BY <1>6 DEF Navigated, w, y
    <2>4. Base(q)
      BY <1>3, <2>1
    <2> HIDE DEF q, e
    <2>5. ~Has(x, "reading")
      BY <1>2, <1>3, <1>6 DEF Base, Has
    <2> QED
      BY <2>2, <2>3, <2>4, <2>5, ErrorFull DEF Keeps
  <1> QED
    BY <1>5, <1>6

(* A tab with consent commits a navigation. *)
LEMMA GrantNavigatedFull ==
  ASSUME NEW x, Full(x), NEW t \in Tabs, NEW origin
  PROVE  LET y == GrantNavigated(x, t, origin)
         IN  Full(y) /\ Keeps(x, y) /\ y.tab = x.tab
  <1> DEFINE u == [x EXCEPT !.authorized = @ \ {t}]
             v == [u EXCEPT !.task[t] = Nil]
  <1>1. Base(u) /\ Full(u) /\ u.on = x.on /\ u.tab = x.tab
    BY ConsentUpdate DEF Full
  <1> HIDE DEF u
  <1>2. Full(v) /\ v.on = x.on /\ v.tab = x.tab
    BY <1>1, TaskUpdate
  <1>3. GrantNavigated(x, t, origin) \in {x, v}
    BY DEF GrantNavigated, u
  <1> HIDE DEF v
  <1> QED
    BY <1>2, <1>3 DEF Keeps, Has

(* A tab is closed. *)
LEMMA TabClosedFull ==
  ASSUME NEW x, Full(x), NEW t \in Tabs
  PROVE  Full(TabClosed(x, t)) /\ Keeps(x, TabClosed(x, t))
  <1> DEFINE y == [x EXCEPT !.authorized = @ \ {t}]
             z == Drop(y, {"navigating", "attached"})
             e == Error(z, "tab_closed")
             w == [e EXCEPT !.tab = Nil, !.baseline = Nil]
  <1>1. Base(y) /\ Full(y) /\ y.on = x.on
    BY ConsentUpdate DEF Full
  <1>2. CASE t # x.tab
    BY <1>1, <1>2 DEF TabClosed, Keeps, Has
  <1>3. CASE t = x.tab
    <2> HIDE DEF y
    <2>1. Base(z) /\ z.on = y.on \ {"navigating", "attached"}
      BY <1>1, DropBase, DropMembers DEF Base, Flag
    <2> HIDE DEF z
    <2>2. Full(e) /\ Keeps(z, e)
      BY <2>1, ErrorFull, ErrorKeeps DEF ErrorCode
    <2> HIDE DEF e
    <2>3. e \in Members
      BY <2>2 DEF Full, Base
    <2>4. w.tab = Nil /\ w.baseline = Nil
      BY <2>3 DEF Members
    <2>5. w = [e EXCEPT !.tab = w.tab, !.baseline = w.baseline]
      BY <2>4
    <2>6. /\ w.on = e.on /\ w.id = e.id /\ w.req = e.req /\ w.command = e.command
          /\ w.document = e.document /\ w.deferred = e.deferred /\ w.stopped = e.stopped
          /\ w.prompt = e.prompt /\ w.authorized = e.authorized /\ w.task = e.task
      BY <2>3 DEF Members
    <2> HIDE DEF w
    <2>7. w \in Members
      <3>1. w.tab \in Tabs \cup {Nil} /\ w.baseline \in [by : Ids, content : Nat] \cup {Nil}
        BY <2>4
      <3> QED
        BY <2>3, <2>5, <3>1 DEF Members
    <2>8. Full(w)
      BY <2>2, <2>6, <2>7 DEF Full, Base, Has
    <2>9. Keeps(x, w)
      BY <1>1, <2>1, <2>2, <2>6 DEF Keeps, Has
    <2> QED
      BY <1>3, <2>8, <2>9 DEF TabClosed, w, e, z, y
  <1> QED
    BY <1>2, <1>3

(* The navigation of a request ends. *)
LEMMA StoppedLoadingFull ==
  ASSUME NEW x, Full(x)
  PROVE  Full(StoppedLoading(x)) /\ Keeps(x, StoppedLoading(x))
  <1> DEFINE y == Drop(x, {"navigating"})
             o == [y EXCEPT !.command = "observe"]
  <1>1. CASE ~Has(x, "busy") \/ ~Has(x, "navigating")
    BY <1>1 DEF StoppedLoading, Keeps
  <1>2. CASE Has(x, "busy") /\ Has(x, "navigating")
    <2>1. /\ Base(y) /\ SameFields(x, y) /\ y.on = x.on \ {"navigating"}
          /\ y.deferred \in ErrorCode \cup {NoError}
      <3>1. Base(y) /\ SameFields(x, y) /\ y.on = x.on \ {"navigating"}
        BY DropBase, DropMembers DEF Full, Base, Flag
      <3> HIDE DEF y
      <3> QED
        BY <3>1 DEF Base, Members
    <2> HIDE DEF y
    <2>2. ~Has(x, "reading")
      BY <1>2 DEF Full, Base
    <2>3. CASE y.deferred # NoError
      <3>1. Full(Error(y, y.deferred))
        BY <2>1, <2>3, ErrorFull
      <3> QED
        BY <1>2, <2>2, <2>3, <3>1 DEF StoppedLoading, Keeps, y
    <2>4. CASE y.deferred = NoError
      <3>1. Free(y) /\ y.command = "navigate"
        BY <1>2, <2>1, <2>4 DEF Full, Base, Free, Seen, Has, SameFields
      <3>2. Free(o)
        BY <3>1, ObserveFree DEF Acting
      <3> HIDE DEF o
      <3>3. Full(Execute(o))
        BY <3>2, FreeFull, ExecuteFull DEF Free, Seen
      <3> QED
        BY <1>2, <2>2, <2>4, <3>3 DEF StoppedLoading, Keeps, y, o
    <2> QED
      BY <2>3, <2>4
  <1> QED
    BY <1>1, <1>2

(* The user takes over. *)
LEMMA UserTookOverFull ==
  ASSUME NEW x, Full(x), x.tab \in Tabs
  PROVE  Full(UserTookOver(x)) /\ Keeps(x, UserTookOver(x))
  <1> DEFINE s == StopSession(x, "user_takeover")
             v == [s EXCEPT !.task[x.tab] = Nil]
             w == [v EXCEPT !.baseline = Nil]
  <1>1. Base(s) /\ s.on \in {x.on, x.on \ {"attached"}}
    BY StopSessionBase DEF Full, StopReasons
  <1> HIDE DEF s
  <1>2. Base(v) /\ v.on = s.on
    BY <1>1, TaskUpdate
  <1> HIDE DEF v
  <1>3. Base(w) /\ w.on = v.on
    BY <1>2, BaselineUpdate
  <1>4. UserTookOver(x) = Error(w, "user_takeover")
    BY DEF UserTookOver, s, v, w
  <1> HIDE DEF w
  <1>5. Full(Error(w, "user_takeover")) /\ Keeps(w, Error(w, "user_takeover"))
    BY <1>3, ErrorFull, ErrorKeeps, ErrorCodes DEF StopReasons
  <1> QED
    BY <1>1, <1>2, <1>3, <1>4, <1>5 DEF Keeps, Has

(* The reply to a read of the stop. *)
LEMMA StopReceivedFull ==
  ASSUME NEW x, Full(x), NEW reason \in Reason
  PROVE  Full(StopReceived(x, reason)) /\ Keeps(x, StopReceived(x, reason))
  <1> DEFINE y == Drop(x, {"reading_stop"})
             s == StopSession(y, reason)
  <1>1. Full(y) /\ y.on = x.on \ {"reading_stop"}
    BY DropFull, DropMembers DEF Full, Base, Flag
  <1> HIDE DEF y
  <1>2. CASE reason = NoError
    BY <1>1, <1>2 DEF StopReceived, Keeps, Has, y
  <1>3. CASE reason # NoError
    <2>1. reason \in StopReasons \cup {Unreadable}
      BY <1>3 DEF Reason
    <2>2. Base(s) /\ s.on \in {y.on, y.on \ {"attached"}} /\ s.stopped # NoError
      BY <1>1, <2>1, StopSessionBase DEF Full
    <2> HIDE DEF s
    <2>3. s.stopped \in ErrorCode
      <3>1. s.stopped \in StopReasons \cup {Unreadable}
        BY <2>2 DEF Base, Members, Reason
      <3> QED
        BY <3>1, ErrorCodes
    <2>4. Full(Error(s, s.stopped)) /\ Keeps(s, Error(s, s.stopped))
      BY <2>2, <2>3, ErrorFull, ErrorKeeps
    <2>5. StopReceived(x, reason) = Error(s, s.stopped)
      BY <1>3 DEF StopReceived, y, s
    <2> QED
      BY <1>1, <2>2, <2>4, <2>5 DEF Keeps, Has
  <1> QED
    BY <1>2, <1>3

(* The reply to a read of a cancellation. *)
LEMMA ReceiveCancelFull ==
  ASSUME NEW x, Full(x), NEW id, NEW data
  PROVE  LET y == CancelWait(Drop(x, {"reading_cancel"}), id, data)
         IN  Full(y) /\ Keeps(x, y)
  <1> DEFINE d == Drop(x, {"reading_cancel"})
  <1>1. Full(d) /\ d.on = x.on \ {"reading_cancel"}
    BY DropFull, DropMembers DEF Full, Base, Flag
  <1> HIDE DEF d
  <1>2. Full(Error(d, "wait_cancelled")) /\ Keeps(d, Error(d, "wait_cancelled"))
    BY <1>1, ErrorFull, ErrorKeeps DEF Full, ErrorCode
  <1>3. CancelWait(d, id, data) \in {d, Error(d, "wait_cancelled")}
    BY DEF CancelWait
  <1>4. Keeps(x, d)
    BY <1>1 DEF Keeps, Has
  <1> QED
    BY <1>1, <1>2, <1>3, <1>4 DEF d, Keeps

(* The reply to the write of a response. *)
LEMMA WrittenFull ==
  ASSUME NEW x, Full(x), NEW stored
  PROVE  Full(Written(x, stored)) /\ Keeps(x, Written(x, stored))
  <1> DEFINE y == Drop(x, {"writing_response"})
             q == Raise(y, {"quarantined"})
  <1>1. Full(y) /\ y.on = x.on \ {"writing_response"}
    BY DropFull, DropMembers DEF Full, Base, Flag
  <1> HIDE DEF y
  <1>2. Full(q) /\ q.on = y.on \cup {"quarantined"}
    BY <1>1, RaiseFull, RaiseMembers DEF Full, Base, Flag, Loose
  <1>3. Written(x, stored) \in {y, q}
    BY DEF Written, y
  <1> HIDE DEF q
  <1> QED
    BY <1>1, <1>2, <1>3 DEF Keeps, Has

-----------------------------------------------------------------------------
(***************************************************************************)
(* The inductive invariant.  At most one read of request.json is on its    *)
(* way, as a task or as a reply, and only while reading is raised, so its  *)
(* reply finds the bridge idle.                                            *)
(***************************************************************************)
IsRead(s, k) == s[k].op = "read"
Quiet(s) == \A k \in 1..Len(s) : ~IsRead(s, k)
Once(s) == \A j, k \in 1..Len(s) : IsRead(s, j) /\ IsRead(s, k) => j = k

ReadOnce ==
  /\ Once(io) /\ Once(replies)
  /\ Quiet(io) \/ Quiet(replies)
  /\ Has(b, "reading") \/ (Quiet(io) /\ Quiet(replies))

Clean(x) == x.post = <<>> /\ x.sent = {} /\ x.closed = {}

ScriptResult == [id : Ids, doc : Documents, result : Result]

QueueType == io \in Seq(AnyTask) /\ replies \in Seq(AnyReply)

FlightType ==
  /\ scripts \in SUBSET Script /\ results \in SUBSET ScriptResult
  /\ dialogs \in SUBSET WaitName /\ uiCancel \in WaitName \cup {Nil}

DiskType ==
  /\ request \in Request \cup {Nil} /\ answer \in Answer \cup {Nil}
  /\ claims \in SUBSET Ids /\ archive \in [Ids -> Answer \cup {Nil}]
  /\ stopFile \in Reason /\ clientStop \in BOOLEAN /\ cancelFiles \in SUBSET WaitName

TabType ==
  /\ active \in Tabs \cup {Nil} /\ page \in [Tabs -> Origin \cup {"closed"}]
  /\ world \in [Tabs -> Documents] /\ content \in [Tabs -> Nat] /\ axEvent \in BOOLEAN

HistoryType ==
  /\ effects \in [Ids -> Nat] /\ approved \in SUBSET Ids /\ declined \in SUBSET Ids
  /\ waitCancels \in SUBSET WaitName /\ published \in [Ids -> Request \cup {Nil}]

BridgeInv == Full(b) /\ Clean(b)

IInv == BridgeInv /\ QueueType /\ ReadOnce /\ FlightType /\ DiskType /\ TabType /\ HistoryType

(* Taking the head of a queue. *)
LEMMA TailReads ==
  ASSUME NEW S, NEW s \in Seq(S), s # <<>>
  PROVE  /\ Tail(s) \in Seq(S) /\ Head(s) \in S
         /\ Quiet(s) => Quiet(Tail(s))
         /\ Once(s) => Once(Tail(s))
         /\ Once(s) /\ Head(s).op = "read" => Quiet(Tail(s))
  <1>1. /\ Tail(s) \in Seq(S) /\ Head(s) \in S /\ Len(s) \in Nat /\ Len(s) >= 1
        /\ Len(Tail(s)) = Len(s) - 1 /\ Head(s) = s[1]
        /\ \A k \in 1..Len(Tail(s)) : Tail(s)[k] = s[k + 1]
    BY HeadTailProperties, EmptySeq, LenProperties
  <1>2. \A k \in 1..Len(Tail(s)) : k + 1 \in 1..Len(s) /\ (IsRead(Tail(s), k) <=> IsRead(s, k + 1))
    BY <1>1 DEF IsRead
  <1>3. Quiet(s) => Quiet(Tail(s))
    BY <1>2 DEF Quiet
  <1>4. Once(s) => Once(Tail(s))
    BY <1>1, <1>2 DEF Once
  <1>5. Once(s) /\ Head(s).op = "read" => Quiet(Tail(s))
    <2> SUFFICES ASSUME Once(s), Head(s).op = "read", NEW k \in 1..Len(Tail(s)),
                        IsRead(Tail(s), k)
                 PROVE  FALSE
      BY DEF Quiet
    <2>1. IsRead(s, 1) /\ IsRead(s, k + 1) /\ 1 \in 1..Len(s) /\ k + 1 \in 1..Len(s)
      BY <1>1, <1>2 DEF IsRead
    <2>2. 1 = k + 1
      BY <2>1 DEF Once
    <2> QED
      BY <1>1, <2>2
  <1> QED
    BY <1>1, <1>3, <1>4, <1>5

(* Adding tasks to a queue. *)
LEMMA ConcatReads ==
  ASSUME NEW S, NEW s \in Seq(S), NEW p \in Seq(S)
  PROVE  /\ s \o p \in Seq(S)
         /\ Quiet(s) /\ Quiet(p) => Quiet(s \o p)
         /\ Once(s) /\ Quiet(p) => Once(s \o p)
         /\ Quiet(s) /\ Once(p) => Once(s \o p)
  <1> DEFINE q == s \o p
  <1>1. /\ q \in Seq(S) /\ Len(q) = Len(s) + Len(p) /\ Len(s) \in Nat /\ Len(p) \in Nat
        /\ \A k \in 1..Len(q) : q[k] = IF k <= Len(s) THEN s[k] ELSE p[k - Len(s)]
    BY ConcatProperties, LenProperties
  <1> HIDE DEF q
  <1>2. \A k \in 1..Len(q) : k <= Len(s) => k \in 1..Len(s) /\ (IsRead(q, k) <=> IsRead(s, k))
    BY <1>1 DEF IsRead
  <1>3. \A k \in 1..Len(q) :
           ~(k <= Len(s)) => k - Len(s) \in 1..Len(p) /\ (IsRead(q, k) <=> IsRead(p, k - Len(s)))
    BY <1>1 DEF IsRead
  <1>4. Quiet(s) /\ Quiet(p) => Quiet(q)
    BY <1>2, <1>3 DEF Quiet
  <1>5. Once(s) /\ Quiet(p) => Once(q)
    BY <1>2, <1>3 DEF Once, Quiet
  <1>6. Quiet(s) /\ Once(p) => Once(q)
    <2> SUFFICES ASSUME Quiet(s), Once(p), NEW j \in 1..Len(q), NEW k \in 1..Len(q),
                        IsRead(q, j), IsRead(q, k)
                 PROVE  j = k
      BY DEF Once
    <2>1. ~(j <= Len(s)) /\ ~(k <= Len(s))
      BY <1>2 DEF Quiet
    <2>2. j - Len(s) = k - Len(s)
      BY <1>3, <2>1 DEF Once
    <2> QED
      BY <1>1, <2>2
  <1> QED
    BY <1>1, <1>4, <1>5, <1>6 DEF q

(* Adding one element to a queue. *)
LEMMA AppendReads ==
  ASSUME NEW S, NEW s \in Seq(S), NEW e \in S
  PROVE  /\ Append(s, e) \in Seq(S)
         /\ Quiet(s) /\ e.op # "read" => Quiet(Append(s, e))
         /\ Once(s) /\ e.op # "read" => Once(Append(s, e))
         /\ Quiet(s) => Once(Append(s, e))
  <1> DEFINE q == Append(s, e)
  <1>1. /\ q \in Seq(S) /\ Len(q) = Len(s) + 1 /\ Len(s) \in Nat
        /\ \A k \in 1..Len(s) : q[k] = s[k]
        /\ q[Len(s) + 1] = e
    BY AppendProperties, LenProperties
  <1> HIDE DEF q
  <1>2. \A k \in 1..Len(q) :
           \/ k \in 1..Len(s) /\ (IsRead(q, k) <=> IsRead(s, k))
           \/ k = Len(s) + 1 /\ (IsRead(q, k) <=> e.op = "read")
    BY <1>1 DEF IsRead
  <1>3. Quiet(s) /\ e.op # "read" => Quiet(q)
    BY <1>2 DEF Quiet
  <1>4. Once(s) /\ e.op # "read" => Once(q)
    BY <1>2 DEF Once
  <1>5. Quiet(s) => Once(q)
    BY <1>2 DEF Quiet, Once
  <1> QED
    BY <1>1, <1>3, <1>4, <1>5 DEF q

(* Only Poll posts a read of request.json. *)
LEMMA HandlerTasksQuiet ==
  ASSUME NEW p \in Seq(HandlerTask)
  PROVE  p \in Seq(AnyTask) /\ Quiet(p)
  <1>1. \A k \in 1..Len(p) : p[k] \in HandlerTask
    BY ElementOfSeq
  <1>2. \A t \in HandlerTask : t \in AnyTask /\ t.op # "read"
    BY DEF HandlerTask, AnyTask
  <1>3. Quiet(p)
    BY <1>1, <1>2 DEF Quiet, IsRead
  <1>4. p \in Seq(AnyTask)
    BY <1>2, SeqMonotonic
  <1> QED
    BY <1>3, <1>4

(* The members after a handler returned. *)
LEMMA ReturnedFull ==
  ASSUME NEW x, Full(x)
  PROVE  LET y == [x EXCEPT !.post = <<>>, !.sent = {}, !.closed = {}]
         IN  Full(y) /\ Clean(y) /\ y.on = x.on
  <1> DEFINE y == [x EXCEPT !.post = <<>>, !.sent = {}, !.closed = {}]
  <1>1. x \in Members
    BY DEF Full, Base
  <1>2. /\ y.on = x.on /\ y.id = x.id /\ y.req = x.req /\ y.command = x.command
        /\ y.document = x.document /\ y.deferred = x.deferred /\ y.stopped = x.stopped
        /\ y.prompt = x.prompt /\ y.authorized = x.authorized /\ y.task = x.task
        /\ y.post = <<>> /\ y.sent = {} /\ y.closed = {}
    BY <1>1 DEF Members
  <1>3. y = [x EXCEPT !.post = y.post, !.sent = y.sent, !.closed = y.closed]
    BY <1>2
  <1> HIDE DEF y
  <1>4. y.post \in Seq(HandlerTask) /\ y.sent \in SUBSET Script /\ y.closed \in SUBSET WaitName
    BY <1>2, EmptySeq
  <1>5. y \in Members
    BY <1>1, <1>3, <1>4 DEF Members
  <1>6. Full(y) /\ Clean(y)
    BY <1>2, <1>5 DEF Full, Base, Has, Clean
  <1> QED
    BY <1>2, <1>6 DEF y

(* A handler that returns, and takes at most one reply. *)
LEMMA ReturnQueues ==
  ASSUME IInv, NEW x, Full(x),
         b' = [x EXCEPT !.post = <<>>, !.sent = {}, !.closed = {}],
         io' = io \o x.post,
         replies' = replies \/ (replies # <<>> /\ replies' = Tail(replies)),
         Keeps(b, x) \/ (Quiet(io) /\ Quiet(replies'))
  PROVE  BridgeInv' /\ QueueType' /\ ReadOnce'
  <1>1. Full(b') /\ Clean(b') /\ b'.on = x.on
    BY ReturnedFull
  <1>2. x.post \in Seq(AnyTask) /\ Quiet(x.post)
    BY HandlerTasksQuiet DEF Full, Base, Members
  <1>3. io \in Seq(AnyTask) /\ replies \in Seq(AnyReply)
    BY DEF IInv, QueueType
  <1>4. /\ io' \in Seq(AnyTask) /\ (Quiet(io) => Quiet(io')) /\ (Once(io) => Once(io'))
    BY <1>2, <1>3, ConcatReads
  <1>5. /\ replies' \in Seq(AnyReply) /\ (Quiet(replies) => Quiet(replies'))
        /\ (Once(replies) => Once(replies'))
    BY <1>3, TailReads
  <1>6. Has(b, "reading") => Has(b', "reading") \/ (Quiet(io) /\ Quiet(replies'))
    BY <1>1 DEF Keeps, Has
  <1>7. Once(io') /\ Once(replies') /\ (Quiet(io') \/ Quiet(replies'))
    BY <1>4, <1>5 DEF IInv, ReadOnce
  <1>8. Has(b', "reading") \/ (Quiet(io') /\ Quiet(replies'))
    BY <1>4, <1>5, <1>6 DEF IInv, ReadOnce
  <1> QED
    BY <1>1, <1>4, <1>5, <1>7, <1>8 DEF BridgeInv, QueueType, ReadOnce

(* A handler of the UI thread keeps the invariant if it leaves sound members. *)
LEMMA HandlerStep ==
  ASSUME IInv, NEW x, Full(x), Return(x),
         replies' = replies \/ (replies # <<>> /\ replies' = Tail(replies)),
         Keeps(b, x) \/ (Quiet(io) /\ Quiet(replies')),
         results' \in SUBSET ScriptResult, uiCancel' \in WaitName \cup {Nil},
         DiskType', TabType', HistoryType'
  PROVE  IInv'
  <1>1. BridgeInv' /\ QueueType' /\ ReadOnce'
    BY ReturnQueues DEF Return
  <1>2. x.sent \in SUBSET Script /\ x.closed \in SUBSET WaitName
    BY DEF Full, Base, Members
  <1>3. scripts' \in SUBSET Script /\ dialogs' \in SUBSET WaitName
    BY <1>2 DEF Return, IInv, FlightType
  <1> QED
    BY <1>1, <1>3 DEF IInv, FlightType

(* What most handlers leave alone. *)
LEMMA QuietHandlerStep ==
  ASSUME IInv, NEW x, Full(x), Keeps(b, x), Return(x),
         replies' = replies \/ (replies # <<>> /\ replies' = Tail(replies)),
         UNCHANGED <<results, uiCancel, diskVars, tabVars, historyVars>>
  PROVE  IInv'
  <1>1. results' \in SUBSET ScriptResult /\ uiCancel' \in WaitName \cup {Nil}
    BY DEF IInv, FlightType
  <1>2. DiskType'
    BY DEF IInv, DiskType, diskVars
  <1>3. TabType'
    BY DEF IInv, TabType, tabVars
  <1>4. HistoryType'
    BY DEF IInv, HistoryType, historyVars
  <1> QED
    BY <1>1, <1>2, <1>3, <1>4, HandlerStep

(* A task of the I/O sequence keeps the queues if it sends at most one reply. *)
LEMMA IoStep ==
  ASSUME IInv, NEW op, Task(op), b' = b,
         \/ replies' = replies
         \/ \E e \in AnyReply : replies' = Append(replies, e) /\ (e.op = "read" => op = "read")
  PROVE  BridgeInv' /\ QueueType' /\ ReadOnce'
  <1>1. io \in Seq(AnyTask) /\ replies \in Seq(AnyReply) /\ io # <<>> /\ io' = Tail(io)
    BY DEF IInv, QueueType, Task
  <1>2. /\ io' \in Seq(AnyTask) /\ (Quiet(io) => Quiet(io')) /\ (Once(io) => Once(io'))
        /\ Once(io) /\ op = "read" => Quiet(io')
    BY <1>1, TailReads DEF Task
  <1>3. op = "read" => ~Quiet(io)
    <2>1. 1 \in 1..Len(io) /\ io[1] = Head(io)
      BY <1>1, EmptySeq
    <2> QED
      BY <2>1 DEF Quiet, IsRead, Task
  <1>4. BridgeInv'
    BY DEF IInv, BridgeInv
  <1>5. CASE replies' = replies
    BY <1>1, <1>2, <1>4, <1>5 DEF IInv, QueueType, ReadOnce
  <1>6. CASE \E e \in AnyReply : replies' = Append(replies, e) /\ (e.op = "read" => op = "read")
    <2>1. PICK e \in AnyReply : replies' = Append(replies, e) /\ (e.op = "read" => op = "read")
      BY <1>6
    <2>2. /\ replies' \in Seq(AnyReply)
          /\ Quiet(replies) /\ e.op # "read" => Quiet(replies')
          /\ Once(replies) /\ e.op # "read" => Once(replies')
          /\ Quiet(replies) => Once(replies')
      BY <1>1, <2>1, AppendReads
    <2>3. CASE op = "read"
      <3>1. Quiet(replies) /\ Once(replies') /\ Quiet(io') /\ Has(b', "reading")
        BY <1>2, <1>3, <2>2, <2>3 DEF IInv, ReadOnce
      <3>2. Once(io')
        BY <3>1 DEF Once, Quiet
      <3> QED
        BY <1>2, <1>4, <2>2, <3>1, <3>2 DEF QueueType, ReadOnce
    <2>4. CASE op # "read"
      BY <1>2, <1>4, <2>1, <2>2, <2>4 DEF IInv, QueueType, ReadOnce
    <2> QED
      BY <2>3, <2>4
  <1> QED
    BY <1>5, <1>6

-----------------------------------------------------------------------------
(* Steps of the UI thread. *)

(* The tasks the timer posts. *)
PollTask == [op : {"read", "readstop"}] \cup [op : {"cancel"}, id : Ids]

(* The timer posts up to three reads and raises a flag for each. *)
LEMMA PollPosts ==
  ASSUME IInv, Poll
  PROVE  /\ b' \in Members /\ SameFields(b, b') /\ b.on \subseteq b'.on
         /\ b'.on \subseteq b.on \cup {"reading_cancel", "reading_stop", "reading"}
         /\ Has(b', "reading") <=> MayRead(b) \/ Has(b, "reading")
         /\ \E p \in Seq(PollTask) : io' = io \o p /\ Once(p) /\ (~MayRead(b) => Quiet(p))
         /\ scripts' = scripts /\ dialogs' = dialogs /\ replies' = replies
         /\ UNCHANGED <<results, uiCancel, diskVars, tabVars, historyVars>>
  <1> DEFINE cancel == Has(b, "busy") /\ Has(b, "waiting") /\ ~Has(b, "reading_cancel")
             stop == Has(b, "busy") /\ b.stopped = NoError /\ ~Has(b, "reading_stop")
             read == MayRead(b)
             x == IF cancel THEN Post(Raise(b, {"reading_cancel"}), [op |-> "cancel", id |-> b.id])
                  ELSE b
             y == IF stop THEN Post(Raise(x, {"reading_stop"}), [op |-> "readstop"]) ELSE x
             z == IF read THEN Post(Raise(y, {"reading"}), [op |-> "read"]) ELSE y
             (* flags raised and tasks posted up to each of them *)
             xo == IF cancel THEN b.on \cup {"reading_cancel"} ELSE b.on
             xp == IF cancel THEN Append(<<>>, [op |-> "cancel", id |-> b.id]) ELSE <<>>
             yo == IF stop THEN xo \cup {"reading_stop"} ELSE xo
             yp == IF stop THEN Append(xp, [op |-> "readstop"]) ELSE xp
             zo == IF read THEN yo \cup {"reading"} ELSE yo
             zp == IF read THEN Append(yp, [op |-> "read"]) ELSE yp
  <1>1. /\ Full(b) /\ b \in Members /\ b.post = <<>> /\ b.sent = {} /\ b.closed = {}
    BY DEF IInv, BridgeInv, Full, Base, Clean
  <1> DEFINE At(o, p) == [b EXCEPT !.on = o, !.post = p]
  <1>2. ASSUME NEW o, NEW p, NEW f, NEW t
        PROVE  Post(Raise(At(o, p), f), t) = At(o \cup f, Append(p, t))
    BY <1>1 DEF Post, Raise, Members
  <1>3. b = At(b.on, <<>>)
    BY <1>1 DEF Members
  <1>4. x = At(xo, xp)
    <2>1. CASE cancel
      <3>1. x = Post(Raise(b, {"reading_cancel"}), [op |-> "cancel", id |-> b.id])
        BY <2>1
      <3>2. Raise(b, {"reading_cancel"})
              = [b EXCEPT !.on = b.on \cup {"reading_cancel"}, !.post = <<>>]
        BY <1>1 DEF Raise, Members
      <3>3. xo = b.on \cup {"reading_cancel"}
            /\ xp = Append(<<>>, [op |-> "cancel", id |-> b.id])
        BY <2>1
      <3> HIDE DEF x, xo, xp
      <3> QED
        BY <1>1, <3>1, <3>2, <3>3 DEF Post, Members
    <2>2. CASE ~cancel
      BY <1>3, <2>2
    <2> QED
      BY <2>1, <2>2
  <1>5. y = At(yo, yp)
    <2> HIDE DEF At, stop, x, xo, xp
    <2> QED
      BY <1>2, <1>4
  <1>6. z = At(zo, zp)
    <2> HIDE DEF At, read, y, yo, yp
    <2> QED
      BY <1>2, <1>5
  <1>7. /\ Return(z) /\ replies' = replies
        /\ UNCHANGED <<results, uiCancel, diskVars, tabVars, historyVars>>
    BY DEF Poll
  <1> HIDE DEF z
  <1>8. xp \in Seq(PollTask) /\ Quiet(xp)
    <2>1. cancel => b.id \in Ids
      BY <1>1 DEF Full, Base
    <2>2. <<>> \in Seq(PollTask) /\ Quiet(<<>>)
      BY EmptySeq DEF Quiet
    <2>3. cancel => [op |-> "cancel", id |-> b.id] \in PollTask
      BY <2>1 DEF PollTask
    <2> HIDE DEF cancel
    <2> QED
      BY <2>2, <2>3, AppendReads
  <1>9. yp \in Seq(PollTask) /\ Quiet(yp)
    <2>1. [op |-> "readstop"] \in PollTask
      BY DEF PollTask
    <2> HIDE DEF xp, stop
    <2> QED
      BY <1>8, <2>1, AppendReads
  <1>10. zp \in Seq(PollTask) /\ Once(zp) /\ (~read => Quiet(zp))
    <2>1. [op |-> "read"] \in PollTask
      BY DEF PollTask
    <2>2. Once(yp)
      BY <1>9 DEF Once, Quiet
    <2> HIDE DEF yp, read
    <2> QED
      BY <1>9, <2>1, <2>2, AppendReads
  <1>11. /\ zo \in SUBSET Flag /\ b.on \subseteq zo
         /\ zo \subseteq b.on \cup {"reading_cancel", "reading_stop", "reading"}
         /\ "reading" \in zo <=> read \/ "reading" \in b.on
    <2>1. b.on \in SUBSET Flag
      BY <1>1 DEF Members
    <2> HIDE DEF cancel, stop, read
    <2> QED
      BY <2>1 DEF Flag
  <1> HIDE DEF zo, zp, yo, yp, xo, xp, x, y
  <1>12. b' = [b EXCEPT !.on = zo]
    BY <1>1, <1>6, <1>7 DEF Return, Members
  <1>13. /\ io' = io \o zp /\ scripts' = scripts /\ dialogs' = dialogs
    <2>1. z.post = zp /\ z.sent = {} /\ z.closed = {}
      BY <1>1, <1>6 DEF Members
    <2> QED
      BY <1>7, <2>1 DEF Return
  <1>14. b' \in Members /\ b'.on = zo /\ SameFields(b, b')
    BY <1>1, <1>11, <1>12 DEF Members, SameFields
  <1> QED
    BY <1>7, <1>10, <1>11, <1>13, <1>14 DEF Has

(* The timer reads the mailbox. *)
LEMMA PollStep ==
  ASSUME IInv, Poll
  PROVE  IInv'
  <1> DEFINE read == MayRead(b)
  <1>1. /\ b' \in Members /\ SameFields(b, b') /\ b.on \subseteq b'.on
        /\ b'.on \subseteq b.on \cup {"reading_cancel", "reading_stop", "reading"}
        /\ Has(b', "reading") <=> read \/ Has(b, "reading")
        /\ scripts' = scripts /\ dialogs' = dialogs /\ replies' = replies
        /\ UNCHANGED <<results, uiCancel, diskVars, tabVars, historyVars>>
    BY PollPosts
  <1>2. PICK p \in Seq(PollTask) : io' = io \o p /\ Once(p) /\ (~read => Quiet(p))
    BY PollPosts
  <1>3. p \in Seq(AnyTask)
    <2>1. PollTask \subseteq AnyTask
      BY DEF PollTask, AnyTask
    <2> QED
      BY <1>2, <2>1, SeqMonotonic
  <1>4. BridgeInv'
    <2>1. read => ~Has(b, "busy") /\ ~Has(b, "writing_response")
      BY DEF MayRead, Has
    <2> HIDE DEF read
    <2>2. \A f \in Flag \ {"reading_cancel", "reading_stop", "reading"} :
             Has(b', f) <=> Has(b, f)
      BY <1>1 DEF Has
    <2>3. Full(b) /\ Clean(b)
      BY DEF IInv, BridgeInv
    <2>4. Base(b')
      BY <1>1, <2>1, <2>2, <2>3 DEF Full, Base, SameFields, Flag
    <2>5. Full(b')
      BY <2>2, <2>3, <2>4, <1>1 DEF Full, SameFields, Flag
    <2> QED
      BY <1>1, <2>3, <2>5 DEF BridgeInv, Clean, SameFields
  <1>5. QueueType' /\ ReadOnce'
    <2>1. io \in Seq(AnyTask) /\ replies' = replies /\ replies \in Seq(AnyReply)
      BY <1>1 DEF IInv, QueueType
    <2>2. /\ io' \in Seq(AnyTask)
          /\ Quiet(io) /\ Quiet(p) => Quiet(io')
          /\ Once(io) /\ Quiet(p) => Once(io')
          /\ Quiet(io) /\ Once(p) => Once(io')
      BY <1>2, <1>3, <2>1, ConcatReads
    <2>3. QueueType'
      BY <2>1, <2>2 DEF QueueType
    <2>4. CASE read
      <3>1. ~Has(b, "reading")
        BY <2>4 DEF MayRead, Has
      <3>2. Quiet(io) /\ Quiet(replies) /\ Has(b', "reading")
        BY <1>1, <2>4, <3>1 DEF IInv, ReadOnce
      <3>3. Once(replies')
        BY <2>1, <3>2 DEF IInv, ReadOnce
      <3> QED
        BY <1>2, <2>1, <2>2, <2>3, <3>2, <3>3 DEF ReadOnce
    <2>5. CASE ~read
      <3> HIDE DEF read
      <3> QED
        BY <1>1, <1>2, <2>1, <2>2, <2>3, <2>5 DEF IInv, ReadOnce
    <2> QED
      BY <2>4, <2>5
  <1>6. FlightType' /\ DiskType' /\ TabType' /\ HistoryType'
    BY <1>1 DEF IInv, FlightType, DiskType, TabType, HistoryType, diskVars, tabVars,
                historyVars
  <1> QED
    BY <1>4, <1>5, <1>6 DEF IInv

(* The reply to a read finds reading raised and no other read on its way. *)
LEMMA HeadOfReplies ==
  ASSUME IInv, replies # <<>>, replies' = Tail(replies)
  PROVE  /\ Head(replies) \in AnyReply /\ replies' \in Seq(AnyReply)
         /\ Head(replies).op = "read" =>
              Has(b, "reading") /\ Quiet(io) /\ Quiet(replies')
  <1>1. replies \in Seq(AnyReply)
    BY DEF IInv, QueueType
  <1>2. /\ Head(replies) \in AnyReply /\ replies' \in Seq(AnyReply)
        /\ Once(replies) /\ Head(replies).op = "read" => Quiet(replies')
    BY <1>1, TailReads
  <1>3. Head(replies).op = "read" => ~Quiet(replies)
    <2>1. 1 \in 1..Len(replies) /\ replies[1] = Head(replies)
      BY <1>1, EmptySeq
    <2> QED
      BY <2>1 DEF Quiet, IsRead
  <1> QED
    BY <1>2, <1>3 DEF IInv, ReadOnce

(* The request, or nothing, comes back from the mailbox. *)
LEMMA ReceiveRequestStep ==
  ASSUME IInv, ReceiveRequest
  PROVE  IInv'
  <1> DEFINE r == Head(replies)
  <1>1. PICK shown \in PromptShown, selected \in BOOLEAN :
          /\ Return(Received(b, r, shown, selected))
          /\ active' = IF selected /\ SelectionRuns(b, r) THEN r.data.call.tab ELSE active
    BY DEF ReceiveRequest
  <1>2. /\ replies # <<>> /\ replies' = Tail(replies) /\ r.op = "read"
        /\ UNCHANGED <<results, uiCancel, diskVars, page, world, content, axEvent, historyVars>>
    BY DEF ReceiveRequest, Reply
  <1>3. r \in AnyReply /\ Has(b, "reading") /\ Quiet(io) /\ Quiet(replies')
    BY <1>2, HeadOfReplies
  <1>4. r \in ReadReply
    BY <1>2, <1>3 DEF AnyReply, ReadReply
  <1> HIDE DEF r
  <1>5. Full(b) /\ active \in Tabs \cup {Nil}
    BY DEF IInv, BridgeInv, TabType
  <1>6. Full(Received(b, r, shown, selected))
    BY <1>3, <1>4, <1>5, ReceivedFull
  <1>7. active' \in Tabs \cup {Nil}
    <2>1. SelectionRuns(b, r) => r.data.call.tab \in Tabs \cup {Nil}
      BY <1>4, CallsAssumption DEF SelectionRuns, ReadReply, Request, Call
    <2> QED
      BY <1>1, <1>5, <2>1
  <1>8. TabType'
    BY <1>2, <1>7 DEF IInv, TabType
  <1>9. DiskType' /\ HistoryType'
    BY <1>2 DEF IInv, DiskType, HistoryType, diskVars, historyVars
  <1>10. results' \in SUBSET ScriptResult /\ uiCancel' \in WaitName \cup {Nil}
    BY <1>2 DEF IInv, FlightType
  <1> QED
    BY <1>1, <1>2, <1>3, <1>6, <1>8, <1>9, <1>10, HandlerStep

(* The stop comes back. *)
LEMMA ReceiveStopStep ==
  ASSUME IInv, ReceiveStop
  PROVE  IInv'
  <1>1. /\ replies # <<>> /\ replies' = Tail(replies) /\ Head(replies).op = "readstop"
        /\ Return(StopReceived(b, Head(replies).stop))
        /\ UNCHANGED <<results, uiCancel, diskVars, tabVars, historyVars>>
    BY DEF ReceiveStop, Reply
  <1>2. Head(replies).stop \in Reason
    BY <1>1, HeadOfReplies DEF AnyReply, ReadReply
  <1>3. /\ Full(StopReceived(b, Head(replies).stop))
        /\ Keeps(b, StopReceived(b, Head(replies).stop))
    BY <1>2, StopReceivedFull DEF IInv, BridgeInv
  <1> QED
    BY <1>1, <1>3, QuietHandlerStep

(* A cancellation comes back. *)
LEMMA ReceiveCancelStep ==
  ASSUME IInv, ReceiveCancel
  PROVE  IInv'
  <1> DEFINE x == CancelWait(Drop(b, {"reading_cancel"}), Head(replies).id, Head(replies).data)
  <1>1. /\ replies # <<>> /\ replies' = Tail(replies) /\ Return(x)
        /\ UNCHANGED <<results, uiCancel, diskVars, tabVars, historyVars>>
    BY DEF ReceiveCancel, Reply
  <1>2. Full(x) /\ Keeps(b, x)
    BY ReceiveCancelFull DEF IInv, BridgeInv
  <1> HIDE DEF x
  <1> QED
    BY <1>1, <1>2, QuietHandlerStep

(* The response was written. *)
LEMMA ResponseWrittenStep ==
  ASSUME IInv, ResponseWritten
  PROVE  IInv'
  <1> DEFINE x == Written(b, Head(replies).stored)
  <1>1. /\ replies # <<>> /\ replies' = Tail(replies) /\ Return(x)
        /\ UNCHANGED <<results, uiCancel, diskVars, tabVars, historyVars>>
    BY DEF ResponseWritten, Reply
  <1>2. Full(x) /\ Keeps(b, x)
    BY WrittenFull DEF IInv, BridgeInv
  <1> HIDE DEF x
  <1> QED
    BY <1>1, <1>2, QuietHandlerStep

(* A handler that works only on a busy bridge, or returns it as it was. *)
LEMMA BusyKeeps ==
  ASSUME NEW x, Full(x), NEW y, Has(x, "busy") \/ y = x
  PROVE  Keeps(x, y)
  BY DEF Full, Base, Keeps, Has

(* The result of a script arrives, however late. *)
LEMMA DeliverResultStep ==
  ASSUME IInv, NEW r \in results, DeliverResult(r)
  PROVE  IInv'
  <1>1. PICK shown \in PromptShown : Return(Observed(b, r.id, r.doc, r.result, shown))
    BY DEF DeliverResult
  <1> DEFINE x == Observed(b, r.id, r.doc, r.result, shown)
  <1>2. /\ Full(b) /\ r \in ScriptResult /\ results' = results \ {r}
        /\ UNCHANGED <<replies, uiCancel, diskVars, tabVars, historyVars>>
    BY DEF IInv, BridgeInv, FlightType, DeliverResult
  <1>3. Full(x)
    BY <1>2, ObservedFull DEF ScriptResult
  <1>4. Has(b, "busy") \/ x = b
    BY DEF Observed
  <1> HIDE DEF x
  <1>5. Keeps(b, x)
    BY <1>2, <1>4, BusyKeeps
  <1>6. DiskType' /\ TabType' /\ HistoryType'
    BY <1>2 DEF IInv, DiskType, TabType, HistoryType, diskVars, tabVars, historyVars
  <1>7. results' \in SUBSET ScriptResult /\ uiCancel' \in WaitName \cup {Nil}
    BY <1>2 DEF IInv, FlightType
  <1> QED
    BY <1>1, <1>2, <1>3, <1>5, <1>6, <1>7, HandlerStep DEF x

(* The user answers the open prompt. *)
LEMMA AnswerPromptStep ==
  ASSUME IInv, NEW accepted \in BOOLEAN, AnswerPrompt(accepted)
  PROVE  IInv'
  <1> DEFINE x == Answered(b, b.prompt.id, b.prompt.doc, accepted)
             y == [b EXCEPT !.prompt = Nil]
  <1>1. /\ Full(b) /\ b \in Members /\ b.prompt # Nil /\ Return(x)
        /\ UNCHANGED <<replies, results, uiCancel, diskVars, tabVars, effects, waitCancels,
                       published, count>>
    BY DEF IInv, BridgeInv, Full, Base, AnswerPrompt
  <1>2. Has(b, "busy") /\ b.command \in Command /\ b.prompt.id \in Ids
    BY <1>1 DEF Full, Base, Members, WaitName
  <1>3. Free(y)
    <2>1. /\ Base(y) /\ y.on = b.on /\ y.prompt = Nil /\ y.command = b.command
          /\ y.deferred = b.deferred /\ y.stopped = b.stopped
      BY <1>1, ClearPromptBase DEF Full, Members
    <2> HIDE DEF y
    <2> QED
      BY <1>1, <1>2, <2>1 DEF Full, Free, Seen, Has
  <1>4. Full(x)
    BY <1>1, <1>3, AnsweredFull
  <1> HIDE DEF x, y
  <1>5. Keeps(b, x)
    BY <1>1, <1>2, BusyKeeps
  <1>6. approved' \in SUBSET Ids /\ declined' \in SUBSET Ids
    BY <1>2 DEF AnswerPrompt, IInv, HistoryType
  <1>7. DiskType' /\ TabType' /\ HistoryType'
    BY <1>1, <1>6 DEF IInv, DiskType, TabType, HistoryType, diskVars, tabVars
  <1>8. results' \in SUBSET ScriptResult /\ uiCancel' \in WaitName \cup {Nil}
    BY <1>1 DEF IInv, FlightType
  <1> QED
    BY <1>1, <1>4, <1>5, <1>7, <1>8, HandlerStep

(* A closed prompt still sends its denial. *)
LEMMA LateReplyStep ==
  ASSUME IInv, NEW d \in dialogs, LateReply(d)
  PROVE  IInv'
  <1> DEFINE x == Answered(b, d.id, d.doc, FALSE)
  <1>1. /\ Full(b)
        /\ b' = [x EXCEPT !.post = <<>>, !.sent = {}, !.closed = {}]
        /\ io' = io \o x.post
        /\ dialogs' = (dialogs \ {d}) \cup x.closed
        /\ UNCHANGED <<scripts, replies, results, uiCancel, diskVars, tabVars, historyVars>>
    BY DEF IInv, BridgeInv, LateReply
  <1>2. Full(x)
    BY <1>1, AnsweredFull
  <1>3. Has(b, "busy") \/ x = b
    BY DEF Answered, ForThisRequest
  <1> HIDE DEF x
  <1>4. Keeps(b, x)
    BY <1>1, <1>3, BusyKeeps
  <1>5. BridgeInv' /\ QueueType' /\ ReadOnce'
    BY <1>1, <1>2, <1>4, ReturnQueues
  <1>6. x.closed \in SUBSET WaitName
    BY <1>2 DEF Full, Base, Members
  <1>7. FlightType'
    BY <1>1, <1>6 DEF IInv, FlightType
  <1>8. DiskType' /\ TabType' /\ HistoryType'
    BY <1>1 DEF IInv, DiskType, TabType, HistoryType, diskVars, tabVars, historyVars
  <1> QED
    BY <1>5, <1>7, <1>8 DEF IInv

(* The deadline passes. *)
LEMMA ExpiresStep ==
  ASSUME IInv, Expires
  PROVE  IInv'
  <1>1. /\ Full(b) /\ Clean(b) /\ b' = Raise(b, {"expired"})
        /\ UNCHANGED <<io, replies, scripts, results, dialogs, uiCancel, diskVars, tabVars,
                       historyVars>>
    BY DEF Expires, IInv, BridgeInv
  <1>2. Full(b') /\ b'.on = b.on \cup {"expired"} /\ SameFields(b, b')
    BY <1>1, RaiseFull, RaiseMembers DEF Full, Base, Loose, Flag
  <1>3. BridgeInv'
    BY <1>1, <1>2 DEF BridgeInv, Clean, SameFields
  <1>4. QueueType' /\ ReadOnce'
    BY <1>1, <1>2 DEF IInv, QueueType, ReadOnce, Has
  <1>5. FlightType' /\ DiskType' /\ TabType' /\ HistoryType'
    BY <1>1 DEF IInv, FlightType, DiskType, TabType, HistoryType, diskVars, tabVars,
                historyVars
  <1> QED
    BY <1>3, <1>4, <1>5 DEF IInv

(* The deadline timer fires. *)
LEMMA DeadlineFiresStep ==
  ASSUME IInv, DeadlineFires
  PROVE  IInv'
  <1> DEFINE d == Drop(b, {"deadline"})
             x == Error(d, "request_expired")
  <1>1. /\ Full(b) /\ Return(x)
        /\ UNCHANGED <<replies, results, uiCancel, diskVars, tabVars, historyVars>>
    BY DEF IInv, BridgeInv, DeadlineFires, Fires
  <1>2. Full(d) /\ d.on = b.on \ {"deadline"}
    BY <1>1, DropFull, DropMembers DEF Full, Base, Flag
  <1> HIDE DEF d
  <1>3. Full(x) /\ Keeps(d, x)
    BY <1>2, ErrorFull, ErrorKeeps DEF Full, ErrorCode
  <1> HIDE DEF x
  <1>4. Keeps(b, x)
    BY <1>2, <1>3 DEF Keeps, Has
  <1> QED
    BY <1>1, <1>3, <1>4, QuietHandlerStep

(* The limit of a wait fires. *)
LEMMA WaitLimitFiresStep ==
  ASSUME IInv, WaitLimitFires
  PROVE  IInv'
  <1> DEFINE d == Drop(b, {"wait_limit_armed"})
             r == Raise(d, {"wait_limit_reached"})
             x == WakeWait(r)
  <1>1. /\ Full(b) /\ Return(x)
        /\ UNCHANGED <<replies, results, uiCancel, diskVars, tabVars, historyVars>>
    BY DEF IInv, BridgeInv, WaitLimitFires, Fires
  <1>2. Full(d) /\ d.on = b.on \ {"wait_limit_armed"}
    BY <1>1, DropFull, DropMembers DEF Full, Base, Flag
  <1> HIDE DEF d
  <1>3. Full(r) /\ r.on = d.on \cup {"wait_limit_reached"}
    BY <1>2, RaiseFull, RaiseMembers DEF Full, Base, Flag, Loose
  <1> HIDE DEF r
  <1>4. Full(x)
    BY <1>3, WakeWaitFull
  <1>5. Has(r, "busy") \/ x = r
    BY DEF WakeWait
  <1> HIDE DEF x
  <1>6. Keeps(b, x)
    BY <1>2, <1>3, <1>5, BusyKeeps DEF Keeps, Has
  <1> QED
    BY <1>1, <1>4, <1>6, QuietHandlerStep

(* The wakeup of a wait repeats its probe. *)
LEMMA WakeupFiresStep ==
  ASSUME IInv, WakeupFires
  PROVE  IInv'
  <1> DEFINE d == Drop(b, {"wait_wakeup"})
             x == Execute(d)
  <1>1. /\ Full(b) /\ Return(x) /\ Has(b, "wait_wakeup")
        /\ UNCHANGED <<replies, results, uiCancel, diskVars, tabVars, historyVars>>
    BY DEF IInv, BridgeInv, WakeupFires, Fires
  <1>2. Full(d) /\ d.on = b.on \ {"wait_wakeup"} /\ SameFields(b, d)
    BY <1>1, DropFull, DropMembers DEF Full, Base, Flag
  <1>3. Has(b, "busy") /\ b.command = "wait-change"
    BY <1>1 DEF Full, Base
  <1>4. d.prompt = Nil /\ ~Has(d, "navigating")
    BY <1>1, <1>2, <1>3 DEF Full, Base, SameFields, Has
  <1> HIDE DEF d
  <1>5. Full(x)
    BY <1>2, <1>4, ExecuteFull
  <1> HIDE DEF x
  <1>6. Keeps(b, x)
    BY <1>1, <1>3, BusyKeeps
  <1> QED
    BY <1>1, <1>5, <1>6, QuietHandlerStep

(* The tab menu takes a cancellation. *)
LEMMA OfferWaitCancelStep ==
  ASSUME IInv, OfferWaitCancel
  PROVE  IInv'
  <1>1. /\ Full(b) /\ b \in Members /\ Has(b, "busy")
        /\ uiCancel' = [id |-> b.id, doc |-> b.document]
        /\ UNCHANGED <<b, io, replies, scripts, results, dialogs, diskVars, tabVars, historyVars>>
    BY DEF OfferWaitCancel, IInv, BridgeInv, Full, Base
  <1>2. uiCancel' \in WaitName
    BY <1>1 DEF Full, Base, Members, WaitName
  <1>3. FlightType'
    BY <1>1, <1>2 DEF IInv, FlightType
  <1> QED
    BY <1>1, <1>3 DEF IInv, BridgeInv, QueueType, ReadOnce, DiskType, TabType, HistoryType,
                      diskVars, tabVars, historyVars

(* The tab menu runs a cancellation, maybe of a wait that is gone. *)
LEMMA RunWaitCancelStep ==
  ASSUME IInv, RunWaitCancel
  PROVE  IInv'
  <1> DEFINE e == Error(b, "wait_cancelled")
             x == IF ThisWait(b, uiCancel.id, uiCancel.doc) /\ active = b.tab THEN e ELSE b
  <1>1. /\ Full(b) /\ Return(x) /\ uiCancel # Nil /\ uiCancel' = Nil
        /\ waitCancels' = waitCancels \cup {uiCancel}
        /\ UNCHANGED <<replies, results, diskVars, tabVars, effects, approved, declined,
                       published, count>>
    BY DEF RunWaitCancel, IInv, BridgeInv
  <1>2. Full(e) /\ Keeps(b, e)
    BY <1>1, ErrorFull, ErrorKeeps DEF Full, ErrorCode
  <1>3. Keeps(b, b)
    BY DEF Keeps
  <1> HIDE DEF e
  <1>4. Full(x) /\ Keeps(b, x)
    BY <1>1, <1>2, <1>3
  <1> HIDE DEF x
  <1>5. uiCancel \in WaitName
    BY <1>1 DEF IInv, FlightType
  <1>6. DiskType' /\ TabType' /\ HistoryType'
    BY <1>1, <1>5 DEF IInv, DiskType, TabType, HistoryType, diskVars, tabVars
  <1>7. results' \in SUBSET ScriptResult /\ uiCancel' \in WaitName \cup {Nil}
    BY <1>1 DEF IInv, FlightType
  <1> QED
    BY <1>1, <1>4, <1>6, <1>7, HandlerStep

-----------------------------------------------------------------------------
(* Steps of the I/O sequence. *)

(* Reading the stop and copying it leave a stop reason. *)
LEMMA StopTypes ==
  ASSUME NEW file \in Reason, NEW control \in BOOLEAN, NEW outcome \in IoOutcomes
  PROVE  /\ StopRead(file, control, outcome) \in Reason
         /\ StopFileAfterRead(file, control, outcome) \in Reason
  <1>1. /\ "client_cancelled" \in Reason /\ NoError \in Reason /\ Unreadable \in Reason
    BY DEF Reason, StopReasons
  <1>2. StopRead(file, control, outcome) \in Reason
    BY <1>1 DEF StopRead
  <1>3. StoredStop(file, "client_cancelled", outcome) \in Reason
    BY <1>1, OutcomesAssumption DEF StoredStop
  <1> QED
    BY <1>2, <1>3 DEF StopFileAfterRead

(* The claim is created and the request deleted. *)
LEMMA ReadRequestStep ==
  ASSUME IInv, NEW outcome \in IoOutcomes, NEW stopOutcome \in IoOutcomes,
         ReadRequest(outcome, stopOutcome)
  PROVE  IInv'
  <1> DEFINE id == request.id
             found == request # Nil
             e == [op |-> "read", data |-> request, stop |-> Stop(stopOutcome),
                   fresh |-> found /\ ClaimIsFresh(claims, id, outcome),
                   cached |-> IF found THEN ClaimedResponse(claims, archive, id) ELSE Nil]
  <1>1. /\ Task("read") /\ replies' = Append(replies, e)
        /\ claims' = (IF found THEN ClaimsAfter(claims, id, outcome) ELSE claims)
        /\ request' = Nil /\ stopFile' = StopFileAfterRead(stopFile, clientStop, stopOutcome)
        /\ UNCHANGED <<b, scripts, results, dialogs, uiCancel, answer, archive, clientStop,
                       cancelFiles, tabVars, historyVars>>
    BY DEF ReadRequest
  <1>2. /\ request \in Request \cup {Nil} /\ claims \in SUBSET Ids
        /\ archive \in [Ids -> Answer \cup {Nil}]
        /\ stopFile \in Reason /\ clientStop \in BOOLEAN
    BY DEF IInv, DiskType
  <1>3. found => id \in Ids
    BY <1>2 DEF Request
  <1>4. Stop(stopOutcome) \in Reason /\ stopFile' \in Reason
    BY <1>1, <1>2, StopTypes DEF Stop
  <1>5. /\ (found /\ ClaimIsFresh(claims, id, outcome)) \in BOOLEAN
        /\ (IF found THEN ClaimedResponse(claims, archive, id) ELSE Nil) \in Answer \cup {Nil}
    BY <1>2, <1>3 DEF ClaimedResponse
  <1>6. e \in AnyReply /\ e.op = "read"
    BY <1>2, <1>4, <1>5 DEF AnyReply, ReadReply
  <1>7. claims' \in SUBSET Ids
    BY <1>1, <1>2, <1>3 DEF ClaimsAfter
  <1> HIDE DEF e, found, id
  <1>8. BridgeInv' /\ QueueType' /\ ReadOnce'
    BY <1>1, <1>6, IoStep
  <1>9. DiskType'
    BY <1>1, <1>4, <1>7 DEF IInv, DiskType
  <1>10. FlightType' /\ TabType' /\ HistoryType'
    BY <1>1 DEF IInv, FlightType, TabType, HistoryType, tabVars, historyVars
  <1> QED
    BY <1>8, <1>9, <1>10 DEF IInv

(* The stop is read. *)
LEMMA ReadStopStep ==
  ASSUME IInv, NEW outcome \in IoOutcomes, ReadStop(outcome)
  PROVE  IInv'
  <1> DEFINE e == [op |-> "readstop", stop |-> Stop(outcome)]
  <1>1. /\ Task("readstop") /\ replies' = Append(replies, e)
        /\ stopFile' = StopFileAfterRead(stopFile, clientStop, outcome)
        /\ UNCHANGED <<b, scripts, results, dialogs, uiCancel, request, answer, claims, archive,
                       clientStop, cancelFiles, tabVars, historyVars>>
    BY DEF ReadStop
  <1>2. Stop(outcome) \in Reason /\ stopFile' \in Reason
    BY <1>1, StopTypes DEF Stop, IInv, DiskType
  <1>3. e \in AnyReply /\ e.op = "readstop"
    BY <1>2 DEF AnyReply
  <1> HIDE DEF e
  <1>4. BridgeInv' /\ QueueType' /\ ReadOnce'
    BY <1>1, <1>3, IoStep
  <1>5. DiskType' /\ FlightType' /\ TabType' /\ HistoryType'
    BY <1>1, <1>2 DEF IInv, DiskType, FlightType, TabType, HistoryType, tabVars, historyVars
  <1> QED
    BY <1>4, <1>5 DEF IInv

(* The task the I/O sequence runs next. *)
LEMMA HeadOfIo ==
  ASSUME IInv, NEW op, Task(op)
  PROVE  Head(io) \in AnyTask /\ Head(io).op = op
  <1>1. io \in Seq(AnyTask) /\ io # <<>>
    BY DEF IInv, QueueType, Task
  <1> QED
    BY <1>1, TailReads DEF Task

(* Cancellations are read and deleted. *)
LEMMA ReadWaitCancellationStep ==
  ASSUME IInv, ReadWaitCancellation
  PROVE  IInv'
  <1> DEFINE id == Head(io).id
             found == {c \in cancelFiles : c.id = id}
             e == [op |-> "cancel", id |-> id,
                   data |-> IF found = {} THEN Nil ELSE CHOOSE c \in found : TRUE]
  <1>1. /\ Task("cancel") /\ replies' = Append(replies, e)
        /\ cancelFiles' = cancelFiles \ found
        /\ UNCHANGED <<b, scripts, results, dialogs, uiCancel, request, answer, claims, archive,
                       stopFile, clientStop, tabVars, historyVars>>
    BY DEF ReadWaitCancellation
  <1>2. id \in Ids
    BY <1>1, HeadOfIo DEF AnyTask, HandlerTask
  <1>3. cancelFiles \in SUBSET WaitName
    BY DEF IInv, DiskType
  <1>4. (IF found = {} THEN Nil ELSE CHOOSE c \in found : TRUE) \in WaitName \cup {Nil}
    BY <1>3
  <1>5. e \in AnyReply /\ e.op = "cancel"
    BY <1>2, <1>4 DEF AnyReply
  <1> HIDE DEF e, found
  <1>6. BridgeInv' /\ QueueType' /\ ReadOnce'
    BY <1>1, <1>5, IoStep
  <1>7. DiskType' /\ FlightType' /\ TabType' /\ HistoryType'
    BY <1>1, <1>3 DEF IInv, DiskType, FlightType, TabType, HistoryType, tabVars, historyVars
  <1> QED
    BY <1>6, <1>7 DEF IInv

(* The stop is written. *)
LEMMA StoreStopStep ==
  ASSUME IInv, NEW outcome \in IoOutcomes, StoreStop(outcome)
  PROVE  IInv'
  <1>1. /\ Task("stop") /\ stopFile' = StoredStop(stopFile, Head(io).reason, outcome)
        /\ UNCHANGED <<b, replies, scripts, results, dialogs, uiCancel, request, answer, claims,
                       archive, clientStop, cancelFiles, tabVars, historyVars>>
    BY DEF StoreStop
  <1>2. Head(io).reason \in Reason
    BY <1>1, HeadOfIo DEF AnyTask, HandlerTask, Reason
  <1>3. stopFile' \in Reason
    BY <1>1, <1>2, OutcomesAssumption DEF StoredStop, Reason, IInv, DiskType
  <1>4. BridgeInv' /\ QueueType' /\ ReadOnce'
    BY <1>1, IoStep
  <1>5. DiskType' /\ FlightType' /\ TabType' /\ HistoryType'
    BY <1>1, <1>3 DEF IInv, DiskType, FlightType, TabType, HistoryType, tabVars, historyVars
  <1> QED
    BY <1>4, <1>5 DEF IInv

(* An answer that could not be archived is still an answer. *)
LEMMA UnstoredType ==
  ASSUME NEW r \in Answer
  PROVE  Unstored(r) \in Answer
  BY DEF Unstored, Answer, ErrorCode

(* The answer is archived and written. *)
LEMMA WriteDurableResponseStep ==
  ASSUME IInv, NEW outcome \in IoOutcomes, WriteDurableResponse(outcome)
  PROVE  IInv'
  <1> DEFINE response == Head(io).answer
             stored == Stored(response, outcome)
             e == [op |-> "respond", stored |-> stored]
  <1>1. /\ Task("respond") /\ replies' = Append(replies, e)
        /\ archive' = (IF stored THEN [archive EXCEPT ![response.id] = response] ELSE archive)
        /\ answer' = (IF stored THEN response ELSE Unstored(response))
        /\ UNCHANGED <<b, scripts, results, dialogs, uiCancel, request, claims, stopFile,
                       clientStop, cancelFiles, tabVars, historyVars>>
    BY DEF WriteDurableResponse
  <1>2. response \in Answer
    BY <1>1, HeadOfIo DEF AnyTask, HandlerTask
  <1>3. e \in AnyReply /\ e.op = "respond"
    <2>1. stored \in BOOLEAN
      BY <1>2 DEF Stored, Answer
    <2> QED
      BY <2>1 DEF AnyReply
  <1> HIDE DEF e, stored, response
  <1>4. BridgeInv' /\ QueueType' /\ ReadOnce'
    BY <1>1, <1>3, IoStep
  <1>5. answer' \in Answer /\ archive' \in [Ids -> Answer \cup {Nil}]
    BY <1>1, <1>2, UnstoredType DEF IInv, DiskType
  <1>6. DiskType' /\ FlightType' /\ TabType' /\ HistoryType'
    BY <1>1, <1>5 DEF IInv, DiskType, FlightType, TabType, HistoryType, tabVars, historyVars
  <1> QED
    BY <1>4, <1>6 DEF IInv

(* An archived answer is written again. *)
LEMMA WriteResponseStep ==
  ASSUME IInv, WriteResponse
  PROVE  IInv'
  <1>1. /\ Task("rewrite") /\ answer' = Head(io).answer
        /\ UNCHANGED <<b, replies, scripts, results, dialogs, uiCancel, request, claims, archive,
                       stopFile, clientStop, cancelFiles, tabVars, historyVars>>
    BY DEF WriteResponse
  <1>2. answer' \in Answer
    BY <1>1, HeadOfIo DEF AnyTask, HandlerTask
  <1>3. BridgeInv' /\ QueueType' /\ ReadOnce'
    BY <1>1, IoStep
  <1>4. DiskType' /\ FlightType' /\ TabType' /\ HistoryType'
    BY <1>1, <1>2 DEF IInv, DiskType, FlightType, TabType, HistoryType, tabVars, historyVars
  <1> QED
    BY <1>3, <1>4 DEF IInv

-----------------------------------------------------------------------------
(* Steps of the renderer. *)

(* A script runs, and its result may be lost. *)
LEMMA RunScriptStep ==
  ASSUME IInv, NEW s \in scripts, RunScript(s)
  PROVE  IInv'
  <1>1. PICK kind \in Outcomes(s), truncated \in BOOLEAN :
          /\ results' = IF s.mute THEN results
                        ELSE results \cup {[id |-> s.id, doc |-> s.doc,
                                            result |-> [kind |-> kind, truncated |-> truncated,
                                                        content |-> content[s.tab]]]}
          /\ effects' = IF Acts(s) /\ kind \in {"nodes", "partial"}
                        THEN [effects EXCEPT ![s.id] = @ + 1] ELSE effects
          /\ world' = CASE kind = "nodes"         -> [world EXCEPT ![s.tab] = s.doc]
                        [] Known(s) \/ Late(s)    -> world
                        [] OTHER                  -> [world EXCEPT ![s.tab] = 0]
    BY DEF RunScript
  <1>2. /\ scripts' = scripts \ {s}
        /\ UNCHANGED <<b, io, replies, dialogs, uiCancel, diskVars, active, page, content,
                       axEvent, approved, declined, waitCancels, published, count>>
    BY DEF RunScript
  <1>3. s \in Script
    BY DEF IInv, FlightType
  <1>4. kind \in {"none", "error", "text", "preflight", "nodes", "partial"}
    BY DEF Outcomes
  <1>5. content[s.tab] \in Nat
    BY <1>3 DEF IInv, TabType, Script
  <1>6. results' \in SUBSET ScriptResult
    <2>1. [id |-> s.id, doc |-> s.doc,
           result |-> [kind |-> kind, truncated |-> truncated, content |-> content[s.tab]]]
            \in ScriptResult
      BY <1>3, <1>4, <1>5 DEF Script, ScriptResult, Result
    <2> QED
      BY <1>1, <2>1 DEF IInv, FlightType
  <1>7. effects' \in [Ids -> Nat]
    BY <1>1, <1>3 DEF IInv, HistoryType, Script
  <1>8. world' \in [Tabs -> Documents]
    <2>1. s.doc \in Documents /\ 0 \in Documents /\ world \in [Tabs -> Documents]
      BY <1>3 DEF IInv, TabType, Script, Documents
    <2> QED
      BY <1>1, <2>1
  <1>9. BridgeInv' /\ QueueType' /\ ReadOnce'
    BY <1>2 DEF IInv, BridgeInv, QueueType, ReadOnce
  <1>10. FlightType'
    BY <1>2, <1>6 DEF IInv, FlightType
  <1>11. DiskType' /\ TabType' /\ HistoryType'
    BY <1>2, <1>7, <1>8 DEF IInv, DiskType, TabType, HistoryType, diskVars
  <1> QED
    BY <1>9, <1>10, <1>11 DEF IInv

(* The callback of a script is lost. *)
LEMMA LoseCallbackStep ==
  ASSUME IInv, NEW s \in scripts, LoseCallback(s)
  PROVE  IInv'
  <1>1. /\ scripts' = (scripts \ {s}) \cup {[s EXCEPT !.mute = TRUE]}
        /\ results' = results \cup {[id |-> s.id, doc |-> s.doc, result |-> NoResult]}
        /\ UNCHANGED <<b, io, replies, dialogs, uiCancel, diskVars, tabVars, historyVars>>
    BY DEF LoseCallback
  <1>2. s \in Script
    BY DEF IInv, FlightType
  <1>3. [s EXCEPT !.mute = TRUE] \in Script
    BY <1>2 DEF Script
  <1>4. [id |-> s.id, doc |-> s.doc, result |-> NoResult] \in ScriptResult
    BY <1>2 DEF Script, ScriptResult, NoResult, Result
  <1>5. FlightType'
    BY <1>1, <1>3, <1>4 DEF IInv, FlightType
  <1>6. BridgeInv' /\ QueueType' /\ ReadOnce'
    BY <1>1 DEF IInv, BridgeInv, QueueType, ReadOnce
  <1>7. DiskType' /\ TabType' /\ HistoryType'
    BY <1>1 DEF IInv, DiskType, TabType, HistoryType, diskVars, tabVars, historyVars
  <1> QED
    BY <1>5, <1>6, <1>7 DEF IInv

-----------------------------------------------------------------------------
(* Steps of the window and its user. *)

(* A tab with or without consent navigates. *)
LEMMA NavigateTabStep ==
  ASSUME IInv, NEW t \in Tabs, NEW o \in Origins \cup {"other"}, NEW same \in BOOLEAN,
         NavigateTab(t, o, same)
  PROVE  IInv'
  <1> DEFINE g == GrantNavigated(b, t, o)
             n == Navigated(g, o)
             x == IF t = g.tab THEN n ELSE g
  <1>1. /\ Full(b) /\ Return(x)
        /\ page' = [page EXCEPT ![t] = o]
        /\ world' = (IF same THEN world ELSE [world EXCEPT ![t] = 0])
        /\ UNCHANGED <<replies, results, uiCancel, diskVars, active, content, axEvent,
                       effects, approved, declined, waitCancels, published>>
    BY DEF IInv, BridgeInv, NavigateTab
  <1>2. Full(g) /\ Keeps(b, g)
    BY <1>1, GrantNavigatedFull
  <1> HIDE DEF g
  <1>3. t = g.tab => Full(n) /\ Keeps(g, n)
    BY <1>2, NavigatedFull
  <1> HIDE DEF n
  <1>4. Full(x) /\ Keeps(b, x)
    BY <1>2, <1>3 DEF Keeps
  <1> HIDE DEF x
  <1>5. TabType'
    BY <1>1 DEF IInv, TabType, Origin, Documents
  <1>6. DiskType' /\ HistoryType'
    BY <1>1 DEF IInv, DiskType, HistoryType, diskVars
  <1>7. results' \in SUBSET ScriptResult /\ uiCancel' \in WaitName \cup {Nil}
    BY <1>1 DEF IInv, FlightType
  <1> QED
    BY <1>1, <1>4, <1>5, <1>6, <1>7, HandlerStep

(* The page stops loading. *)
LEMMA StopLoadingStep ==
  ASSUME IInv, StopLoading
  PROVE  IInv'
  <1>1. /\ Return(StoppedLoading(b))
        /\ UNCHANGED <<replies, results, uiCancel, diskVars, tabVars, historyVars>>
    BY DEF StopLoading
  <1>2. Full(StoppedLoading(b)) /\ Keeps(b, StoppedLoading(b))
    BY StoppedLoadingFull DEF IInv, BridgeInv
  <1> QED
    BY <1>1, <1>2, QuietHandlerStep

(* The user touches the observed tab. *)
LEMMA UserInteractsStep ==
  ASSUME IInv, UserInteracts
  PROVE  IInv'
  <1>1. /\ Full(b) /\ b.tab \in Tabs /\ Return(UserTookOver(b))
        /\ UNCHANGED <<replies, results, uiCancel, diskVars, tabVars, historyVars>>
    BY DEF UserInteracts, IInv, BridgeInv, Full, Base, Members
  <1>2. Full(UserTookOver(b)) /\ Keeps(b, UserTookOver(b))
    BY <1>1, UserTookOverFull
  <1> QED
    BY <1>1, <1>2, QuietHandlerStep

(* A tab is closed. *)
LEMMA CloseTabStep ==
  ASSUME IInv, NEW t \in Tabs, CloseTab(t)
  PROVE  IInv'
  <1>1. /\ Return(TabClosed(b, t)) /\ page' = [page EXCEPT ![t] = "closed"]
        /\ UNCHANGED <<replies, results, uiCancel, diskVars, world, content, axEvent,
                       effects, approved, declined, waitCancels, published>>
    BY DEF CloseTab
  <1>2. active' \in Tabs \cup {Nil}
    BY DEF CloseTab, IInv, TabType
  <1>3. Full(TabClosed(b, t)) /\ Keeps(b, TabClosed(b, t))
    BY TabClosedFull DEF IInv, BridgeInv
  <1>4. TabType'
    BY <1>1, <1>2 DEF IInv, TabType
  <1>5. DiskType' /\ HistoryType'
    BY <1>1 DEF IInv, DiskType, HistoryType, diskVars
  <1>6. results' \in SUBSET ScriptResult /\ uiCancel' \in WaitName \cup {Nil}
    BY <1>1 DEF IInv, FlightType
  <1> QED
    BY <1>1, <1>3, <1>4, <1>5, <1>6, HandlerStep

(* Another tab comes to the front. *)
LEMMA ActivateTabStep ==
  ASSUME IInv, NEW t \in Tabs, ActivateTab(t)
  PROVE  IInv'
  <1> DEFINE e == Error(b, "tab_changed")
             x == IF active = b.tab /\ Has(b, "waiting") THEN e ELSE b
  <1>1. /\ Full(b) /\ active' = t /\ Return(x)
        /\ UNCHANGED <<replies, results, uiCancel, diskVars, page, world, content, axEvent,
                       historyVars>>
    BY DEF ActivateTab, IInv, BridgeInv
  <1>2. Full(e) /\ Keeps(b, e) /\ Keeps(b, b)
    BY <1>1, ErrorFull, ErrorKeeps DEF Full, ErrorCode, Keeps
  <1> HIDE DEF e
  <1>3. Full(x) /\ Keeps(b, x)
    BY <1>1, <1>2
  <1> HIDE DEF x
  <1>4. TabType'
    BY <1>1 DEF IInv, TabType
  <1>5. DiskType' /\ HistoryType'
    BY <1>1 DEF IInv, DiskType, HistoryType, diskVars, historyVars
  <1>6. results' \in SUBSET ScriptResult /\ uiCancel' \in WaitName \cup {Nil}
    BY <1>1 DEF IInv, FlightType
  <1> QED
    BY <1>1, <1>3, <1>4, <1>5, <1>6, HandlerStep

(* A page changes under the bridge. *)
LEMMA ChangePageStep ==
  ASSUME IInv, NEW t \in Tabs, ChangePage(t)
  PROVE  IInv'
  <1>1. /\ content' = [content EXCEPT ![t] = @ + 1]
        /\ axEvent' = (axEvent \/ (t = b.tab /\ Has(b, "waiting")))
        /\ UNCHANGED <<bridgeVars, diskVars, active, page, world, effects, approved, declined,
                       waitCancels, published>>
    BY DEF ChangePage
  <1>2. content' \in [Tabs -> Nat] /\ axEvent' \in BOOLEAN
    BY <1>1 DEF IInv, TabType
  <1>3. TabType'
    BY <1>1, <1>2 DEF IInv, TabType
  <1>4. BridgeInv' /\ QueueType' /\ ReadOnce' /\ FlightType'
    BY <1>1 DEF IInv, BridgeInv, QueueType, ReadOnce, FlightType, bridgeVars
  <1>5. DiskType' /\ HistoryType'
    BY <1>1 DEF IInv, DiskType, HistoryType, diskVars
  <1> QED
    BY <1>3, <1>4, <1>5 DEF IInv

(* The change is reported. *)
LEMMA AccessibilityEventStep ==
  ASSUME IInv, AccessibilityEvent
  PROVE  IInv'
  <1> DEFINE x == WakeWait(b)
  <1>1. /\ Full(b) /\ axEvent' = FALSE /\ Return(x)
        /\ UNCHANGED <<replies, results, uiCancel, diskVars, active, page, world, content,
                       historyVars>>
    BY DEF AccessibilityEvent, IInv, BridgeInv
  <1>2. Full(x) /\ (Has(b, "busy") \/ x = b)
    BY <1>1, WakeWaitFull DEF WakeWait
  <1> HIDE DEF x
  <1>3. Keeps(b, x)
    BY <1>1, <1>2, BusyKeeps
  <1>4. TabType'
    BY <1>1 DEF IInv, TabType
  <1>5. DiskType' /\ HistoryType'
    BY <1>1 DEF IInv, DiskType, HistoryType, diskVars, historyVars
  <1>6. results' \in SUBSET ScriptResult /\ uiCancel' \in WaitName \cup {Nil}
    BY <1>1 DEF IInv, FlightType
  <1> QED
    BY <1>1, <1>2, <1>3, <1>4, <1>5, <1>6, HandlerStep

-----------------------------------------------------------------------------
(* Steps of the client, and the end of the process. *)

(* A client names documents and snapshots it was told of. *)
LEMMA CapabilityType ==
  ASSUME IInv, NEW known \in Capabilities
  PROVE  known.doc \in Documents /\ known.base \in IdOrNil
  <1>1. archive \in [Ids -> Answer \cup {Nil}]
    BY DEF IInv, DiskType
  <1>2. \A i \in Ids : archive[i] # Nil => archive[i].doc \in Documents /\ archive[i].base \in IdOrNil
    BY <1>1 DEF Answer
  <1> QED
    BY <1>2 DEF Capabilities, Documents, IdOrNil

(* The client writes a request. *)
LEMMA PublishStep ==
  ASSUME IInv, NEW i \in Ids, NEW call \in Calls, NEW known \in Capabilities,
         Publish(i, call, known)
  PROVE  IInv'
  <1>1. /\ request' = [id |-> i, call |-> call, doc |-> known.doc, base |-> known.base]
        /\ published' = [published EXCEPT ![i] = request']
        /\ UNCHANGED <<bridgeVars, answer, claims, archive, stopFile, clientStop, cancelFiles,
                       tabVars, effects, approved, declined, waitCancels, count>>
    BY DEF Publish
  <1>2. request' \in Request
    BY <1>1, CapabilityType DEF Request
  <1>3. published' \in [Ids -> Request \cup {Nil}]
    BY <1>1, <1>2 DEF IInv, HistoryType
  <1>4. DiskType' /\ HistoryType'
    BY <1>1, <1>2, <1>3 DEF IInv, DiskType, HistoryType
  <1>5. BridgeInv' /\ QueueType' /\ ReadOnce' /\ FlightType' /\ TabType'
    BY <1>1 DEF IInv, BridgeInv, QueueType, ReadOnce, FlightType, TabType, bridgeVars, tabVars
  <1> QED
    BY <1>4, <1>5 DEF IInv

(* A second copy of a request appears. *)
LEMMA RepublishStep ==
  ASSUME IInv, NEW i \in Ids, Republish(i)
  PROVE  IInv'
  <1>1. /\ request' = published[i]
        /\ UNCHANGED <<bridgeVars, answer, claims, archive, stopFile, clientStop, cancelFiles,
                       tabVars, effects, approved, declined, waitCancels, published>>
    BY DEF Republish
  <1>2. request' \in Request \cup {Nil}
    BY <1>1 DEF IInv, HistoryType
  <1>3. DiskType' /\ HistoryType'
    BY <1>1, <1>2 DEF IInv, DiskType, HistoryType
  <1>4. BridgeInv' /\ QueueType' /\ ReadOnce' /\ FlightType' /\ TabType'
    BY <1>1 DEF IInv, BridgeInv, QueueType, ReadOnce, FlightType, TabType, bridgeVars, tabVars
  <1> QED
    BY <1>3, <1>4 DEF IInv

(* The client stops the session. *)
LEMMA ClientStopsStep ==
  ASSUME IInv, ClientStops
  PROVE  IInv'
  <1>1. /\ clientStop' = TRUE
        /\ UNCHANGED <<bridgeVars, request, answer, claims, archive, stopFile, cancelFiles,
                       tabVars, effects, approved, declined, waitCancels, published>>
    BY DEF ClientStops
  <1>2. DiskType' /\ HistoryType'
    BY <1>1 DEF IInv, DiskType, HistoryType
  <1>3. BridgeInv' /\ QueueType' /\ ReadOnce' /\ FlightType' /\ TabType'
    BY <1>1 DEF IInv, BridgeInv, QueueType, ReadOnce, FlightType, TabType, bridgeVars, tabVars
  <1> QED
    BY <1>2, <1>3 DEF IInv

(* The client cancels a wait. *)
LEMMA ClientCancelsWaitStep ==
  ASSUME IInv, NEW i \in Ids, ClientCancelsWait(i)
  PROVE  IInv'
  <1> DEFINE c == [id |-> i, doc |-> published[i].doc]
  <1>1. /\ published[i] # Nil
        /\ cancelFiles' = cancelFiles \cup {c} /\ waitCancels' = waitCancels \cup {c}
        /\ UNCHANGED <<bridgeVars, request, answer, claims, archive, stopFile, clientStop,
                       tabVars, effects, approved, declined, published, count>>
    BY DEF ClientCancelsWait
  <1>2. c \in WaitName
    BY <1>1 DEF IInv, HistoryType, Request, WaitName
  <1> HIDE DEF c
  <1>3. DiskType' /\ HistoryType'
    BY <1>1, <1>2 DEF IInv, DiskType, HistoryType
  <1>4. BridgeInv' /\ QueueType' /\ ReadOnce' /\ FlightType' /\ TabType'
    BY <1>1 DEF IInv, BridgeInv, QueueType, ReadOnce, FlightType, TabType, bridgeVars, tabVars
  <1> QED
    BY <1>3, <1>4 DEF IInv

(* A bridge that has just started satisfies every part of the invariant. *)
LEMMA InitBridgeFull ==
  ASSUME NEW fresh \in Nat
  PROVE  LET x == InitBridge(fresh) IN Full(x) /\ Clean(x)
  <1> DEFINE x == InitBridge(fresh)
  <1>1. /\ x.on = {} /\ x.tab = Nil /\ x.id = Nil /\ x.req = Nil /\ x.command = NoError
        /\ x.document = 0 /\ x.fresh = fresh /\ x.deferred = NoError /\ x.stopped = NoError
        /\ x.baseline = Nil /\ x.prompt = Nil /\ x.granted = {} /\ x.authorized = {}
        /\ x.post = <<>> /\ x.sent = {} /\ x.closed = {}
    BY DEF InitBridge
  <1>2. x.task \in [Tabs -> [origin : Origins, rules : Rules] \cup {Nil}]
    BY DEF InitBridge
  <1>3. x = [on |-> x.on, tab |-> x.tab, id |-> x.id, req |-> x.req, command |-> x.command,
             document |-> x.document, fresh |-> x.fresh, deferred |-> x.deferred,
             stopped |-> x.stopped, baseline |-> x.baseline, prompt |-> x.prompt,
             granted |-> x.granted, authorized |-> x.authorized, task |-> x.task,
             post |-> x.post, sent |-> x.sent, closed |-> x.closed]
    BY DEF InitBridge
  <1> HIDE DEF x
  <1>4. x.post \in Seq(HandlerTask)
    BY <1>1, EmptySeq
  <1>5. x \in Members
    <2>1. /\ x.on \in SUBSET Flag /\ x.tab \in Tabs \cup {Nil} /\ x.id \in IdOrNil
          /\ x.req \in Request \cup {Nil} /\ x.command \in Command \cup {NoError}
          /\ x.document \in Documents /\ x.fresh \in Documents
          /\ x.deferred \in ErrorCode \cup {NoError} /\ x.stopped \in Reason
          /\ x.baseline \in [by : Ids, content : Nat] \cup {Nil}
          /\ x.prompt \in WaitName \cup {Nil}
          /\ x.granted \in SUBSET Tabs /\ x.authorized \in SUBSET Tabs
          /\ x.sent \in SUBSET Script /\ x.closed \in SUBSET WaitName
      BY <1>1 DEF IdOrNil, Documents, Reason
    <2> QED
      BY <1>2, <1>3, <1>4, <2>1 DEF Members
  <1>6. Full(x) /\ Clean(x)
    BY <1>1, <1>5 DEF Full, Base, Has, Clean
  <1> QED
    BY <1>6 DEF x

(* Nothing is on its way to or from a bridge that has just started. *)
LEMMA EmptyQueues ==
  /\ <<>> \in Seq(AnyTask) /\ <<>> \in Seq(AnyReply)
  /\ Quiet(<<>>) /\ Once(<<>>)
  BY EmptySeq DEF Quiet, Once

(* Only the files survive, and each of them keeps its type. *)
LEMMA CrashStep ==
  ASSUME IInv, Crash
  PROVE  IInv'
  <1>1. /\ b' = InitBridge(b.fresh) /\ io' = <<>> /\ replies' = <<>>
        /\ scripts' = {} /\ results' = {} /\ dialogs' = {}
        /\ uiCancel' = Nil /\ axEvent' = FALSE /\ world' = [t \in Tabs |-> 0]
        /\ UNCHANGED <<request, answer, clientStop, cancelFiles, active, page, content,
                       effects, approved, declined, waitCancels, published>>
    BY DEF Crash
  <1>2. BridgeInv'
    <2>1. b.fresh \in Nat
      BY DEF IInv, BridgeInv, Full, Base, Members, Documents
    <2> QED
      BY <1>1, <2>1, InitBridgeFull DEF BridgeInv
  <1>3. QueueType' /\ ReadOnce'
    BY <1>1, EmptyQueues DEF QueueType, ReadOnce
  <1>4. FlightType' /\ TabType' /\ HistoryType'
    BY <1>1 DEF IInv, FlightType, TabType, HistoryType, Documents
  <1>5. claims' \in SUBSET Ids /\ archive' \in [Ids -> Answer \cup {Nil}] /\ stopFile' \in Reason
    <2>1. /\ claims \in SUBSET Ids /\ archive \in [Ids -> Answer \cup {Nil}]
          /\ stopFile \in Reason /\ request \in Request \cup {Nil}
      BY DEF IInv, DiskType
    <2>2. CASE UNCHANGED <<claims, archive, stopFile>>
      BY <2>1, <2>2
    <2>3. CASE /\ request # Nil /\ claims' = claims \cup {request.id}
               /\ UNCHANGED <<archive, stopFile>>
      BY <2>1, <2>3 DEF Request
    <2>4. CASE /\ io # <<>> /\ Head(io).op = "respond"
               /\ archive' = [archive EXCEPT ![Head(io).answer.id] = Head(io).answer]
               /\ UNCHANGED <<claims, stopFile>>
      <3>1. Head(io).answer \in Answer
        BY <2>4, TailReads DEF IInv, QueueType, AnyTask, HandlerTask
      <3> QED
        BY <2>1, <2>4, <3>1
    <2>5. CASE /\ io # <<>> /\ Head(io).op = "stop"
               /\ stopFile' = StoredStop(stopFile, Head(io).reason, "torn")
               /\ UNCHANGED <<claims, archive>>
      <3>1. stopFile' \in {stopFile, Unreadable}
        BY <2>5 DEF StoredStop
      <3> QED
        BY <2>1, <2>5, <3>1 DEF Reason
    <2> QED
      BY <2>2, <2>3, <2>4, <2>5 DEF Crash
  <1>6. DiskType'
    BY <1>1, <1>5 DEF IInv, DiskType
  <1> QED
    BY <1>2, <1>3, <1>4, <1>6 DEF IInv

-----------------------------------------------------------------------------
(* The first process of a directory. *)
LEMMA InitIInv ==
  ASSUME Init
  PROVE  IInv
  <1>1. BridgeInv
    BY InitBridgeFull DEF Init, BridgeInv
  <1>2. QueueType /\ ReadOnce
    BY EmptyQueues DEF Init, QueueType, ReadOnce
  <1>3. FlightType /\ DiskType
    BY DEF Init, FlightType, DiskType, Reason
  <1>4. TabType
    BY DEF Init, TabType, Origin, Documents
  <1>5. HistoryType
    BY DEF Init, HistoryType
  <1> QED
    BY <1>1, <1>2, <1>3, <1>4, <1>5 DEF IInv

(* Nothing happens. *)
LEMMA StutterIInv ==
  ASSUME IInv, UNCHANGED vars
  PROVE  IInv'
  BY DEF IInv, BridgeInv, QueueType, ReadOnce, FlightType, DiskType, TabType, HistoryType,
         vars, bridgeVars, diskVars, tabVars, historyVars

(* Every step keeps the invariant. *)
LEMMA NextIInv ==
  ASSUME IInv, Next
  PROVE  IInv'
  <1>1. CASE UIThread
    BY <1>1, PollStep, ReceiveRequestStep, ReceiveStopStep, ReceiveCancelStep,
       ResponseWrittenStep, DeliverResultStep, AnswerPromptStep, LateReplyStep, ExpiresStep,
       DeadlineFiresStep, WaitLimitFiresStep, WakeupFiresStep, OfferWaitCancelStep,
       RunWaitCancelStep DEF UIThread
  <1>2. CASE IoSequence
    BY <1>2, ReadRequestStep, ReadStopStep, StoreStopStep, WriteDurableResponseStep,
       ReadWaitCancellationStep, WriteResponseStep DEF IoSequence
  <1>3. CASE Renderer
    BY <1>3, RunScriptStep, LoseCallbackStep DEF Renderer
  <1>4. CASE Window
    BY <1>4, NavigateTabStep, CloseTabStep, ActivateTabStep, ChangePageStep, StopLoadingStep,
       UserInteractsStep, AccessibilityEventStep DEF Window
  <1>5. CASE Mailbox
    BY <1>5, PublishStep, RepublishStep, ClientCancelsWaitStep, ClientStopsStep DEF Mailbox
  <1>6. CASE Crash
    BY <1>6, CrashStep
  <1> QED
    BY <1>1, <1>2, <1>3, <1>4, <1>5, <1>6 DEF Next

(***************************************************************************)
(* The invariant holds for ever: at most one read of the mailbox is on its *)
(* way and finds the bridge idle, and every handler of AgentBridgeImpl     *)
(* leaves the members consistent, for any number of tabs, origins, ids and *)
(* crashes and whatever the requests say.                                  *)
(***************************************************************************)
THEOREM Inductive == Spec => []IInv
  <1>1. IInv /\ [Next]_vars => IInv'
    BY NextIInv, StutterIInv
  <1> QED
    BY InitIInv, <1>1, PTL DEF Spec

(* Between handlers the members are those of the type invariant. *)
LEMMA BridgeType ==
  ASSUME IInv
  PROVE  b \in Bridge
  <1>1. b \in Members /\ b.post = <<>> /\ b.sent = {} /\ b.closed = {}
    BY DEF IInv, BridgeInv, Full, Base, Clean
  <1> QED
    BY <1>1 DEF Members, Bridge

(* The invariant implies the type invariant. *)
LEMMA IInvTypeOK ==
  ASSUME IInv
  PROVE  TypeOK
  <1>1. \A k \in DOMAIN io : IoTask(io[k])
    <2>1. io \in Seq(AnyTask)
      BY DEF IInv, QueueType
    <2>2. \A k \in DOMAIN io : io[k] \in AnyTask
      BY <2>1, ElementOfSeq, LenProperties
    <2>3. \A t \in AnyTask : IoTask(t)
      BY DEF AnyTask, HandlerTask, IoTask
    <2> QED
      BY <2>2, <2>3
  <1>2. \A k \in DOMAIN replies : replies[k].op \in {"read", "readstop", "cancel", "respond"}
    <2>1. replies \in Seq(AnyReply)
      BY DEF IInv, QueueType
    <2>2. \A k \in DOMAIN replies : replies[k] \in AnyReply
      BY <2>1, ElementOfSeq, LenProperties
    <2>3. \A r \in AnyReply : r.op \in {"read", "readstop", "cancel", "respond"}
      BY DEF AnyReply, ReadReply
    <2> QED
      BY <2>2, <2>3
  <1> QED
    BY <1>1, <1>2, BridgeType
       DEF TypeOK, IInv, FlightType, DiskType, TabType, HistoryType, ScriptResult

(***************************************************************************)
(* Every variable keeps its type: a handler leaves no task, script or      *)
(* prompt behind, answers only with errors the client knows, and a task of *)
(* the I/O sequence finds the parameters it was posted with.               *)
(***************************************************************************)
THEOREM TypeCorrect == Spec => []TypeOK
  BY Inductive, IInvTypeOK, PTL

(* The invariant implies the control invariant. *)
LEMMA IInvControlOK ==
  ASSUME IInv
  PROVE  ControlOK
  <1>1. Full(b)
    BY DEF IInv, BridgeInv
  <1>2. OneRequestAtATime(b)
    <2>1. \A f \in {"renderer_pending", "navigating", "waiting", "preflight"} :
             Has(b, f) => Has(b, "busy")
      BY <1>1 DEF Full, Base
    <2> QED
      BY <1>1, <2>1 DEF Full, Base, OneRequestAtATime, Has
  <1>3. PromptExclusive(b) /\ StopSticky(b)
    BY <1>1 DEF Full, Base, PromptExclusive, StopSticky
  <1> QED
    BY <1>2, <1>3 DEF ControlOK

(***************************************************************************)
(* The bridge does one thing at a time; an open prompt is for the request  *)
(* in hand and nothing of it is under way; after a stop it holds no tab,   *)
(* no consent and no rule, and what is left of a request ends as an error. *)
(***************************************************************************)
THEOREM ControlCorrect == Spec => []ControlOK
  BY Inductive, IInvControlOK, PTL

-----------------------------------------------------------------------------
(***************************************************************************)
(* What a handler can have made of the members when it returns, whatever   *)
(* it calls on the way: it goes on with the request in hand, it hands one  *)
(* script to the renderer, or it gives the request its answer.             *)
(***************************************************************************)

Field == {"on", "tab", "id", "req", "command", "document", "fresh", "deferred", "stopped",
          "baseline", "prompt", "granted", "authorized", "task", "post", "sent", "closed"}

(* x has the members of the class and no others. *)
Shape(x) == x = [f \in Field |-> x[f]]

(* Every task is the record of a stop, for a reason in E. *)
StopsOnly(p, E) == \A k \in 1..Len(p) : p[k].op = "stop" /\ p[k].reason \in E

(* A handler at work that has told nobody anything yet. *)
Silent(x, E) ==
  /\ Shape(x) /\ x.sent = {} /\ x.closed = {}
  /\ x.post \in Seq(HandlerTask) /\ StopsOnly(x.post, E)
  /\ x.prompt # Nil => ~Has(x, "renderer_pending") /\ ~Has(x, "navigating")

(* What no handler touches once it knows its request. *)
SameRequest(x, y) ==
  /\ y.id = x.id /\ y.req = x.req
  /\ Has(y, "request_claimed") <=> Has(x, "request_claimed")
  /\ Has(y, "quarantined") <=> Has(x, "quarantined")
  /\ Has(y, "reading") <=> Has(x, "reading")

StopKept(x, y, E) ==
  y.stopped = x.stopped \/ (x.stopped = NoError /\ y.stopped \in E)

BaselineKept(x, y) ==
  y.baseline = Nil \/ (y.baseline = x.baseline /\ y.document = x.document)

(* A wait is for the document its request names. *)
WaitKept(x, y) ==
  Has(y, "waiting") /\ y.deferred = NoError =>
    \/ Has(x, "waiting") /\ x.deferred = NoError /\ y.document = x.document
    \/ y.document = y.req.doc

PromptKept(x, y) ==
  \/ y.prompt \in {Nil, x.prompt}
  \/ Has(x, "busy") /\ x.deferred = NoError /\ y.prompt.id = x.id

(* The handler leaves the request as far as it was. *)
Going(x, y, E) ==
  /\ Silent(y, E)
  /\ Has(y, "busy") <=> Has(x, "busy")
  /\ Has(y, "renderer_pending") <=> Has(x, "renderer_pending")
  /\ Has(y, "writing_response") <=> Has(x, "writing_response")
  /\ y.deferred = x.deferred \/ (x.deferred = NoError /\ y.deferred \in E)
  /\ Has(x, "renderer_pending") =>
       /\ y.command = x.command
       /\ Has(y, "preflight") <=> Has(x, "preflight")
       /\ Has(y, "waiting") <=> Has(x, "waiting")
       /\ y.deferred = NoError => y.document = x.document
  /\ BaselineKept(x, y) /\ WaitKept(x, y) /\ PromptKept(x, y)

(* The handler hands the script of the request to the renderer. *)
Sends(x, y, E) ==
  /\ Shape(y)
  /\ Has(x, "busy") /\ ~Has(x, "renderer_pending") /\ x.deferred = NoError
  /\ Has(y, "busy") /\ Has(y, "renderer_pending") /\ y.deferred = NoError
  /\ Has(y, "writing_response") <=> Has(x, "writing_response")
  /\ StopsOnly(y.post, E) /\ y.post \in Seq(HandlerTask) /\ y.closed = {}
  /\ y.sent = {[id |-> x.id, doc |-> y.document, tab |-> y.tab, command |-> y.command,
                preflight |-> Has(y, "preflight"), mute |-> FALSE]}
  /\ BaselineKept(x, y) /\ WaitKept(x, y) /\ PromptKept(x, y)

(* The answer of the request. *)
IsAnswer(x, y, a, E) ==
  /\ a.id = x.id /\ a.error \in {NoError, x.deferred} \cup E
  /\ a.settled <=> ~Has(x, "quarantined")
  /\ a.persisted <=> Has(x, "request_claimed")
  /\ BaselineKept(x, y) \/ (y.baseline.by = x.id /\ a.doc = y.document)

(* The handler gives the request its answer, and is done with it. *)
Answers(x, y, E) ==
  /\ Shape(y)
  /\ Has(x, "busy") /\ ~Has(x, "renderer_pending")
  /\ ~Has(y, "busy") /\ ~Has(y, "renderer_pending") /\ Has(y, "writing_response")
  /\ y.sent = {} /\ y.prompt = Nil
  /\ \A d \in y.closed : d # Nil /\ (d = x.prompt \/ d.id = x.id)
  /\ \E p \in Seq(HandlerTask) : \E a :
       /\ y.post = Append(p, [op |-> "respond", answer |-> a])
       /\ StopsOnly(p, E) /\ IsAnswer(x, y, a, E)

Outcome(x, y, E) ==
  /\ SameRequest(x, y) /\ StopKept(x, y, E)
  /\ Going(x, y, E) \/ Sends(x, y, E) \/ Answers(x, y, E)

(* A request in hand for which nothing is under way in the renderer. *)
Ready(x, E) == Silent(x, E) /\ Has(x, "busy") /\ ~Has(x, "renderer_pending")

(* The reasons and errors that no user and no canceller has to answer for. *)
Ordinary == ErrorCode \ {"user_cancelled", "wait_cancelled"}

-----------------------------------------------------------------------------
(* A step before the outcome that leaves the request as far as it was. *)
LEMMA Chain ==
  ASSUME NEW E, NEW x, NEW z, NEW y,
         NoError \notin E,
         SameRequest(x, z), StopKept(x, z, E), Going(x, z, E), Outcome(z, y, E)
  PROVE  Outcome(x, y, E)
  <1>1. SameRequest(x, y)
    BY DEF Outcome, SameRequest
  <1>2. StopKept(x, y, E)
    BY DEF Outcome, StopKept
  <1>3. /\ Has(z, "renderer_pending") <=> Has(x, "renderer_pending")
        /\ z.deferred = NoError => x.deferred = NoError
        /\ z.id = x.id /\ z.req = x.req
    BY DEF Going, SameRequest
  <1>4. CASE Going(z, y, E)
    <2>1. BaselineKept(x, y) /\ WaitKept(x, y)
      BY <1>1, <1>3, <1>4 DEF Going, BaselineKept, WaitKept, SameRequest
    <2>2. PromptKept(x, y)
      BY <1>3, <1>4 DEF Going, PromptKept
    <2>3. Going(x, y, E)
      BY <1>3, <1>4, <2>1, <2>2 DEF Going
    <2> QED
      BY <1>1, <1>2, <2>3 DEF Outcome
  <1>5. CASE Sends(z, y, E)
    <2>1. BaselineKept(x, y) /\ WaitKept(x, y)
      BY <1>1, <1>3, <1>5 DEF Going, Sends, BaselineKept, WaitKept, SameRequest
    <2>2. PromptKept(x, y)
      BY <1>3, <1>5 DEF Going, Sends, PromptKept
    <2> QED
      BY <1>1, <1>2, <1>3, <1>5, <2>1, <2>2 DEF Going, Sends, Outcome
  <1>6. CASE Answers(z, y, E)
    <2>1. PICK p \in Seq(HandlerTask) : \E a :
            /\ y.post = Append(p, [op |-> "respond", answer |-> a])
            /\ StopsOnly(p, E) /\ IsAnswer(z, y, a, E)
      BY <1>6 DEF Answers
    <2>2. \A a : IsAnswer(z, y, a, E) => IsAnswer(x, y, a, E)
      BY <1>3 DEF IsAnswer, Going, SameRequest, BaselineKept
    <2>3. \A d \in y.closed : d # Nil /\ (d = x.prompt \/ d.id = x.id)
      BY <1>3, <1>6 DEF Answers, Going, PromptKept
    <2>4. Answers(x, y, E)
      BY <1>3, <1>6, <2>1, <2>2, <2>3 DEF Answers, Going
    <2> QED
      BY <1>1, <1>2, <2>4 DEF Outcome
  <1> QED
    BY <1>4, <1>5, <1>6 DEF Outcome

(* Nothing happened. *)
LEMMA SilentGoing ==
  ASSUME NEW E, NEW x, Silent(x, E)
  PROVE  Outcome(x, x, E) /\ Going(x, x, E)
  BY DEF Outcome, Going, SameRequest, StopKept, BaselineKept, WaitKept, PromptKept

(* A flag that says nothing of the request may be raised or dropped. *)
Aside == {"reading_cancel", "reading_stop", "deadline", "wait_limit_armed",
          "wait_limit_reached", "wait_dirty", "wait_wakeup", "expired", "attached"}

(* Such a flag changes no other member and leaves the request as far as it was. *)
LEMMA AsideGoing ==
  ASSUME NEW E, NEW x, Silent(x, E), NEW flags \in SUBSET Aside
  PROVE  /\ LET y == Raise(x, flags)
            IN  Going(x, y, E) /\ SameRequest(x, y) /\ SameFields(x, y) /\ y.on = x.on \cup flags
         /\ LET y == Drop(x, flags)
            IN  Going(x, y, E) /\ SameRequest(x, y) /\ SameFields(x, y) /\ y.on = x.on \ flags
  <1>1. /\ "busy" \notin flags /\ "renderer_pending" \notin flags /\ "navigating" \notin flags
        /\ "writing_response" \notin flags /\ "request_claimed" \notin flags
        /\ "quarantined" \notin flags /\ "reading" \notin flags /\ "preflight" \notin flags
        /\ "waiting" \notin flags
    BY DEF Aside
  <1>2. ASSUME NEW y, Shape(y), SameFields(x, y), y.on = x.on \cup flags \/ y.on = x.on \ flags
        PROVE  Going(x, y, E) /\ SameRequest(x, y)
    <2>1. /\ \A f : f \notin flags => (Has(y, f) <=> Has(x, f))
      BY <1>2 DEF Has
    <2>2. Silent(y, E) /\ SameRequest(x, y)
      BY <1>1, <1>2, <2>1 DEF SameFields, Silent, SameRequest
    <2>3. BaselineKept(x, y) /\ WaitKept(x, y) /\ PromptKept(x, y)
      BY <1>1, <1>2, <2>1 DEF SameFields, BaselineKept, WaitKept, PromptKept
    <2> QED
      BY <1>1, <1>2, <2>1, <2>2, <2>3 DEF Going, SameFields
  <1>3. Shape(x)
    BY DEF Silent
  <1>4. /\ Shape(Raise(x, flags)) /\ SameFields(x, Raise(x, flags))
        /\ Raise(x, flags).on = x.on \cup flags
    BY <1>3 DEF Raise, Shape, Field, SameFields
  <1>5. /\ Shape(Drop(x, flags)) /\ SameFields(x, Drop(x, flags))
        /\ Drop(x, flags).on = x.on \ flags
    BY <1>3 DEF Drop, Shape, Field, SameFields
  <1> QED
    BY <1>2, <1>4, <1>5

(* A stop posts its record, and takes no request any further. *)
LEMMA StopGoing ==
  ASSUME NEW E, NEW x, Silent(x, E), NEW r \in E, r \in StopReasons \cup {Unreadable}
  PROVE  LET y == StopSession(x, r)
         IN  /\ Going(x, y, E) /\ SameRequest(x, y) /\ StopKept(x, y, E)
             /\ y.on \in {x.on, x.on \ {"attached"}} /\ y.deferred = x.deferred
             /\ y.prompt = x.prompt /\ y.command = x.command /\ y.document = x.document
             /\ y.stopped # NoError /\ y.tab = x.tab
  <1> DEFINE y == StopSession(x, r)
             p == IF r # Unreadable /\ x.id # Nil
                  THEN Append(x.post, [op |-> "stop", reason |-> r]) ELSE x.post
  <1>1. CASE x.stopped # NoError
    <2>1. y = x
      BY <1>1 DEF StopSession
    <2> QED
      BY <1>1, <2>1, SilentGoing DEF Outcome
  <1>2. CASE x.stopped = NoError
    <2>1. /\ Shape(y) /\ y.on = x.on \ {"attached"} /\ y.id = x.id /\ y.req = x.req
          /\ y.command = x.command /\ y.document = x.document /\ y.deferred = x.deferred
          /\ y.stopped = r /\ y.baseline = Nil /\ y.prompt = x.prompt
          /\ y.post = p /\ y.sent = x.sent /\ y.closed = x.closed /\ y.tab = x.tab
      BY <1>2 DEF StopSession, Silent, Shape, Field
    <2>2. p \in Seq(HandlerTask) /\ StopsOnly(p, E)
      <3>1. CASE r # Unreadable /\ x.id # Nil
        <4> DEFINE t == [op |-> "stop", reason |-> r]
        <4>1. t \in HandlerTask /\ t.op = "stop" /\ t.reason \in E
          BY <3>1 DEF HandlerTask
        <4>2. x.post \in Seq(HandlerTask) /\ p = Append(x.post, t)
          BY <3>1 DEF Silent
        <4> HIDE DEF t, p
        <4>3. /\ p \in Seq(HandlerTask) /\ Len(p) = Len(x.post) + 1 /\ Len(x.post) \in Nat
              /\ \A k \in 1..Len(x.post) : p[k] = x.post[k]
              /\ p[Len(x.post) + 1] = t
          BY <4>1, <4>2, AppendProperties, LenProperties
        <4>4. \A k \in 1..Len(p) : k \in 1..Len(x.post) \/ k = Len(x.post) + 1
          BY <4>3
        <4> QED
          BY <4>1, <4>3, <4>4 DEF Silent, StopsOnly
      <3>2. CASE ~(r # Unreadable /\ x.id # Nil)
        BY <3>2 DEF Silent
      <3> QED
        BY <3>1, <3>2
    <2> HIDE DEF y, p
    <2>3. /\ \A f : f # "attached" => (Has(y, f) <=> Has(x, f))
      BY <2>1 DEF Has
    <2>4. Silent(y, E) /\ SameRequest(x, y)
      BY <2>1, <2>2, <2>3 DEF Silent, SameRequest
    <2>5. BaselineKept(x, y) /\ WaitKept(x, y) /\ PromptKept(x, y) /\ StopKept(x, y, E)
      BY <1>2, <2>1, <2>3 DEF BaselineKept, WaitKept, PromptKept, StopKept
    <2>6. Going(x, y, E)
      BY <2>1, <2>3, <2>4, <2>5 DEF Going
    <2>7. r # NoError
      BY DEF StopReasons, Unreadable, NoError
    <2> QED
      BY <2>1, <2>4, <2>5, <2>6, <2>7 DEF y
  <1> QED
    BY <1>1, <1>2

(* Finish, field by field. *)
LEMMA FinishFields ==
  ASSUME NEW E, NEW x, Silent(x, E), NEW e, NEW doc, NEW partial
  PROVE  LET y == Finish(x, e, doc, partial)
             a == Response(x, e, doc, partial)
         IN  /\ Shape(y)
             /\ y.on = (x.on \ {"busy", "preflight", "waiting", "wait_limit_armed",
                                "wait_wakeup", "navigating", "deadline"})
                       \cup {"writing_response"}
             /\ y.id = x.id /\ y.req = x.req /\ y.command = x.command
             /\ y.document = x.document /\ y.deferred = x.deferred /\ y.stopped = x.stopped
             /\ y.baseline = x.baseline /\ y.prompt = Nil /\ y.sent = {} /\ y.tab = x.tab
             /\ y.post = Append(x.post, [op |-> "respond", answer |-> a])
             /\ \A d \in y.closed : d # Nil /\ d = x.prompt
  <1> DEFINE c == ClosePrompt(x)
             y == Finish(x, e, doc, partial)
             a == Response(x, e, doc, partial)
             left == {"busy", "preflight", "waiting", "wait_limit_armed",
                      "wait_wakeup", "navigating", "deadline"}
  <1>1. /\ Shape(c) /\ c.on = x.on /\ c.id = x.id /\ c.req = x.req /\ c.command = x.command
        /\ c.document = x.document /\ c.deferred = x.deferred /\ c.stopped = x.stopped
        /\ c.baseline = x.baseline /\ c.prompt = Nil /\ c.sent = {} /\ c.tab = x.tab
        /\ c.post = x.post
        /\ \A d \in c.closed : d # Nil /\ d = x.prompt
    BY DEF ClosePrompt, Silent, Shape, Field
  <1>2. y = [c EXCEPT !.on = (@ \ left) \cup {"writing_response"},
                      !.post = Append(@, [op |-> "respond", answer |-> a])]
    BY DEF Finish
  <1> HIDE DEF c, y, a, left
  <1>3. /\ Shape(y) /\ y.on = (c.on \ left) \cup {"writing_response"}
        /\ y.post = Append(c.post, [op |-> "respond", answer |-> a])
        /\ y.id = c.id /\ y.req = c.req /\ y.command = c.command
        /\ y.document = c.document /\ y.deferred = c.deferred /\ y.stopped = c.stopped
        /\ y.baseline = c.baseline /\ y.prompt = c.prompt /\ y.sent = c.sent
        /\ y.tab = c.tab /\ y.closed = c.closed
    BY <1>1, <1>2 DEF Shape, Field
  <1> QED
    BY <1>1, <1>3 DEF y, a, left

(* Finish gives the request in hand its answer. *)
LEMMA FinishAnswers ==
  ASSUME NEW E, NEW x, Ready(x, E), NEW e \in {NoError, x.deferred} \cup E, NEW doc, NEW partial
  PROVE  LET y == Finish(x, e, doc, partial)
         IN  Outcome(x, y, E) /\ Answers(x, y, E) /\ ~Has(y, "busy")
  <1> DEFINE y == Finish(x, e, doc, partial)
             a == Response(x, e, doc, partial)
  <1>1. /\ Silent(x, E) /\ Has(x, "busy") /\ ~Has(x, "renderer_pending")
        /\ x.post \in Seq(HandlerTask) /\ StopsOnly(x.post, E)
    BY DEF Ready, Silent
  <1>2. /\ y.on = (x.on \ {"busy", "preflight", "waiting", "wait_limit_armed",
                           "wait_wakeup", "navigating", "deadline"})
                  \cup {"writing_response"}
        /\ y.id = x.id /\ y.req = x.req /\ Shape(y)
        /\ y.document = x.document /\ y.stopped = x.stopped
        /\ y.baseline = x.baseline /\ y.prompt = Nil /\ y.sent = {}
        /\ y.post = Append(x.post, [op |-> "respond", answer |-> a])
        /\ \A d \in y.closed : d # Nil /\ d = x.prompt
    BY <1>1, FinishFields
  <1>3. /\ a.id = x.id /\ a.error = e /\ (a.settled <=> ~Has(x, "quarantined"))
        /\ (a.persisted <=> Has(x, "request_claimed"))
    BY DEF Response
  <1> HIDE DEF y, a
  <1>4. /\ ~Has(y, "busy") /\ Has(y, "writing_response") /\ ~Has(y, "renderer_pending")
        /\ Has(y, "request_claimed") <=> Has(x, "request_claimed")
        /\ Has(y, "quarantined") <=> Has(x, "quarantined")
        /\ Has(y, "reading") <=> Has(x, "reading")
    BY <1>1, <1>2 DEF Has
  <1>5. IsAnswer(x, y, a, E)
    BY <1>2, <1>3 DEF IsAnswer, BaselineKept
  <1>6. Answers(x, y, E)
    BY <1>1, <1>2, <1>4, <1>5 DEF Answers
  <1> QED
    BY <1>2, <1>4, <1>6 DEF Outcome, SameRequest, StopKept, y

(* Error: an answer, or an interruption that waits for the renderer. *)
LEMMA ErrorOutcome ==
  ASSUME NEW E, NEW x, Silent(x, E), NEW e \in E, NoError \notin E
  PROVE  /\ Outcome(x, Error(x, e), E) /\ Error(x, e).sent = {}
         /\ Has(Error(x, e), "busy") => Error(x, e).deferred # NoError
         /\ x.prompt = Nil => Error(x, e).closed = {}
         /\ Ready(x, E) /\ ~Has(x, "navigating") => ~Has(Error(x, e), "busy")
  <1> DEFINE stops == e \in {"user_cancelled", "user_takeover", "client_cancelled"}
             s == IF stops THEN StopSession(x, e) ELSE x
  <1>1. /\ Going(x, s, E) /\ SameRequest(x, s) /\ StopKept(x, s, E)
        /\ s.deferred = x.deferred /\ s.prompt = x.prompt
        /\ s.on \in {x.on, x.on \ {"attached"}}
    <2>1. CASE stops
      BY <2>1, StopGoing DEF StopReasons
    <2>2. CASE ~stops
      BY <2>2, SilentGoing DEF Outcome, StopKept
    <2> QED
      BY <2>1, <2>2
  <1>2. Error(x, e) = IF ~Has(s, "busy") THEN s
                      ELSE IF Has(s, "renderer_pending") \/ Has(s, "navigating")
                      THEN [ClosePrompt(s) EXCEPT !.deferred = IF @ = NoError THEN e ELSE @,
                                                  !.on = @ \ {"deadline"}]
                      ELSE Finish(s, e, 0, s.deferred # NoError)
    BY DEF Error
  <1> HIDE DEF s
  <1>3. CASE ~Has(s, "busy")
    BY <1>1, <1>2, <1>3 DEF Outcome, Going, Silent
  <1>4. CASE Has(s, "busy") /\ (Has(s, "renderer_pending") \/ Has(s, "navigating"))
    <2> DEFINE y == [s EXCEPT !.deferred = IF @ = NoError THEN e ELSE @,
                              !.on = @ \ {"deadline"}]
    <2>1. Silent(s, E) /\ s.prompt = Nil
      BY <1>1, <1>4 DEF Going, Silent
    <2>2. Error(x, e) = y
      BY <1>2, <1>4, <2>1 DEF ClosePrompt
    <2>3. /\ Shape(y) /\ y.on = s.on \ {"deadline"} /\ y.id = s.id /\ y.req = s.req
          /\ y.command = s.command /\ y.document = s.document
          /\ y.deferred = (IF s.deferred = NoError THEN e ELSE s.deferred)
          /\ y.stopped = s.stopped /\ y.baseline = s.baseline /\ y.prompt = Nil
          /\ y.post = s.post /\ y.sent = s.sent /\ y.closed = s.closed
      BY <2>1 DEF Silent, Shape, Field
    <2> HIDE DEF y
    <2>4. /\ \A f : f \notin {"deadline"} => (Has(y, f) <=> Has(s, f))
          /\ \A f : f \notin {"deadline", "attached"} => (Has(y, f) <=> Has(x, f))
      BY <1>1, <2>3 DEF Has
    <2>5. Silent(y, E) /\ SameRequest(x, y) /\ StopKept(x, y, E) /\ y.deferred # NoError
      BY <1>1, <2>1, <2>3, <2>4 DEF Silent, SameRequest, StopKept
    <2>6. BaselineKept(x, y) /\ WaitKept(x, y) /\ PromptKept(x, y)
      BY <1>1, <2>3, <2>5 DEF Going, BaselineKept, WaitKept, PromptKept
    <2>7. Going(x, y, E)
      BY <1>1, <2>3, <2>4, <2>5, <2>6 DEF Going
    <2>8. ~(Ready(x, E) /\ ~Has(x, "navigating"))
      BY <1>1, <1>4 DEF Ready, Has
    <2> QED
      BY <2>2, <2>3, <2>5, <2>7, <2>8 DEF Outcome, Silent
  <1>5. CASE Has(s, "busy") /\ ~Has(s, "renderer_pending") /\ ~Has(s, "navigating")
    <2>1. Error(x, e) = Finish(s, e, 0, s.deferred # NoError)
      BY <1>2, <1>5
    <2>2. Ready(s, E)
      BY <1>1, <1>5 DEF Ready, Going
    <2>3. /\ Outcome(s, Error(x, e), E) /\ Answers(s, Error(x, e), E)
          /\ ~Has(Error(x, e), "busy")
      BY <2>1, <2>2, FinishAnswers
    <2>4. Outcome(x, Error(x, e), E)
      BY <1>1, <2>3, Chain
    <2>5. x.prompt = Nil => Error(x, e).closed = {}
      <3> SUFFICES ASSUME s.prompt = Nil
                   PROVE  Error(x, e).closed = {}
        BY <1>1
      <3> DEFINE partial == s.deferred # NoError
      <3>1. Silent(s, E) /\ Error(x, e) = Finish(s, e, 0, partial)
        BY <2>1, <2>2 DEF Ready
      <3> HIDE DEF partial
      <3>2. ClosePrompt(s) = s
        BY DEF ClosePrompt
      <3>3. Finish(s, e, 0, partial).closed = s.closed
        BY <3>1, <3>2 DEF Finish, Silent, Shape, Field
      <3> QED
        BY <3>1, <3>3 DEF Silent
    <2> QED
      BY <2>3, <2>4, <2>5 DEF Answers
  <1> QED
    BY <1>3, <1>4, <1>5

(* No error makes a baseline. *)
LEMMA ErrorBaseline ==
  ASSUME NEW E, NEW x, Silent(x, E), NEW e \in E, NoError \notin E
  PROVE  BaselineKept(x, Error(x, e))
  <1> DEFINE stops == e \in {"user_cancelled", "user_takeover", "client_cancelled"}
             s == IF stops THEN StopSession(x, e) ELSE x
             c == ClosePrompt(s)
             partial == s.deferred # NoError
  <1>1. Silent(s, E) /\ BaselineKept(x, s)
    <2>1. CASE stops
      BY <2>1, StopGoing DEF StopReasons, Going
    <2>2. CASE ~stops
      BY <2>2 DEF BaselineKept
    <2> QED
      BY <2>1, <2>2
  <1>2. Error(x, e) = IF ~Has(s, "busy") THEN s
                      ELSE IF Has(s, "renderer_pending") \/ Has(s, "navigating")
                      THEN [c EXCEPT !.deferred = IF @ = NoError THEN e ELSE @,
                                     !.on = @ \ {"deadline"}]
                      ELSE Finish(s, e, 0, partial)
    BY DEF Error
  <1> HIDE DEF s
  <1>3. Shape(c) /\ c.document = s.document /\ c.baseline = s.baseline
    BY <1>1 DEF ClosePrompt, Silent, Shape, Field
  <1> HIDE DEF c, partial
  <1>4. BaselineKept(s, [c EXCEPT !.deferred = IF @ = NoError THEN e ELSE @,
                                  !.on = @ \ {"deadline"}])
    BY <1>3 DEF BaselineKept, Shape, Field
  <1>5. BaselineKept(s, Finish(s, e, 0, partial))
    <2> DEFINE y == Finish(s, e, 0, partial)
    <2>1. /\ y.baseline = s.baseline /\ y.document = s.document
          /\ y.post = Append(s.post, [op |-> "respond", answer |-> Response(s, e, 0, partial)])
      BY <1>1, FinishFields
    <2> QED
      BY <2>1 DEF BaselineKept
  <1> QED
    BY <1>1, <1>2, <1>4, <1>5 DEF BaselineKept

(* The first check that fails is the error; what follows the checks gives the outcome. *)
LEMMA CheckedOutcome ==
  ASSUME NEW E, NEW x, Silent(x, E), NoError \notin E, NEW y, NEW checks, NEW n \in 1..4,
         DOMAIN checks = 1..n, \A i \in 1..n : checks[i][2] \in E,
         (\A i \in 1..n : ~checks[i][1]) => Outcome(x, y, E)
  PROVE  Outcome(x, Checked(x, checks, y), E)
  <1> DEFINE failed == {i \in DOMAIN checks : checks[i][1]}
             first == CHOOSE i \in failed : \A j \in failed : i <= j
  <1>1. CASE failed = {}
    BY <1>1 DEF Checked
  <1>2. CASE failed # {}
    <2>1. \E i \in failed : \A j \in failed : i <= j
      BY <1>2
    <2>2. first \in failed
      BY <2>1
    <2>3. Checked(x, checks, y) = Error(x, checks[first][2])
      BY <1>2 DEF Checked
    <2> HIDE DEF first
    <2> QED
      BY <2>2, <2>3, ErrorOutcome
  <1> QED
    BY <1>1, <1>2

(* Members that differ only in what says nothing of the request. *)
LEMMA Prepared ==
  ASSUME NEW E, NEW x, Silent(x, E), NEW z, Shape(z),
         z.post = x.post, z.sent = x.sent, z.closed = x.closed,
         z.id = x.id, z.req = x.req, z.deferred = x.deferred, z.stopped = x.stopped,
         z.prompt \in {Nil, x.prompt},
         \A f \in {"busy", "renderer_pending", "writing_response", "request_claimed",
                   "quarantined", "reading"} : Has(z, f) <=> Has(x, f),
         z.prompt # Nil => ~Has(z, "navigating"),
         Has(x, "renderer_pending") =>
           /\ z.command = x.command /\ z.document = x.document
           /\ Has(z, "preflight") <=> Has(x, "preflight")
           /\ Has(z, "waiting") <=> Has(x, "waiting"),
         BaselineKept(x, z), WaitKept(x, z)
  PROVE  Going(x, z, E) /\ SameRequest(x, z) /\ StopKept(x, z, E) /\ Outcome(x, z, E)
  <1>1. Silent(z, E)
    BY DEF Silent
  <1>2. SameRequest(x, z) /\ StopKept(x, z, E) /\ PromptKept(x, z)
    BY DEF SameRequest, StopKept, PromptKept
  <1>3. Going(x, z, E)
    BY <1>1, <1>2 DEF Going
  <1> QED
    BY <1>2, <1>3 DEF Outcome

(* A check that fails leaves an error of one of the checks. *)
LEMMA CheckedFails ==
  ASSUME NEW x, NEW y, NEW checks, NEW n \in 1..4, DOMAIN checks = 1..n,
         NEW k \in 1..n, checks[k][1]
  PROVE  \E i \in 1..n : Checked(x, checks, y) = Error(x, checks[i][2])
  <1> DEFINE failed == {i \in DOMAIN checks : checks[i][1]}
             first == CHOOSE i \in failed : \A j \in failed : i <= j
  <1>1. failed # {} /\ failed \subseteq 1..n
    OBVIOUS
  <1>2. \E i \in failed : \A j \in failed : i <= j
    BY <1>1
  <1>3. first \in failed
    BY <1>2
  <1>4. Checked(x, checks, y) = Error(x, checks[first][2])
    BY <1>1 DEF Checked
  <1> HIDE DEF first, failed
  <1> QED
    BY <1>1, <1>3, <1>4

(* CheckedOutcome for the number of checks a handler makes. *)
LEMMA CheckedOutcome1 ==
  ASSUME NEW E, NEW x, Silent(x, E), NoError \notin E, NEW y,
         NEW c1 \in BOOLEAN, NEW e1 \in E,
         ~c1 => Outcome(x, y, E)
  PROVE  Outcome(x, Checked(x, << <<c1, e1>> >>, y), E)
  <1> DEFINE checks == << <<c1, e1>> >>
  <1>1. /\ DOMAIN checks = 1..1 /\ 1 \in 1..4
        /\ checks[1] = <<c1, e1>>
    OBVIOUS
  <1>2. checks[1][1] = c1 /\ checks[1][2] = e1
    BY <1>1
  <1> HIDE DEF checks
  <1>3. \A i \in 1..1 : checks[i][2] \in E
    BY <1>2
  <1>4. (\A i \in 1..1 : ~checks[i][1]) => Outcome(x, y, E)
    BY <1>2
  <1>5. Outcome(x, Checked(x, checks, y), E)
    BY <1>1, <1>3, <1>4, CheckedOutcome
  <1> QED
    BY <1>5 DEF checks

(* Two checks before a handler goes on. *)
LEMMA CheckedOutcome2 ==
  ASSUME NEW E, NEW x, Silent(x, E), NoError \notin E, NEW y,
         NEW c1 \in BOOLEAN, NEW e1 \in E, NEW c2 \in BOOLEAN, NEW e2 \in E,
         ~c1 /\ ~c2 => Outcome(x, y, E)
  PROVE  Outcome(x, Checked(x, << <<c1, e1>>, <<c2, e2>> >>, y), E)
  <1> DEFINE checks == << <<c1, e1>>, <<c2, e2>> >>
  <1>1. /\ DOMAIN checks = 1..2 /\ 2 \in 1..4
        /\ checks[1] = <<c1, e1>> /\ checks[2] = <<c2, e2>>
    OBVIOUS
  <1>2. /\ checks[1][1] = c1 /\ checks[1][2] = e1
        /\ checks[2][1] = c2 /\ checks[2][2] = e2
    BY <1>1
  <1> HIDE DEF checks
  <1>3. \A i \in 1..2 : checks[i][2] \in E
    BY <1>2
  <1>4. (\A i \in 1..2 : ~checks[i][1]) => Outcome(x, y, E)
    BY <1>2
  <1>5. Outcome(x, Checked(x, checks, y), E)
    BY <1>1, <1>3, <1>4, CheckedOutcome
  <1> QED
    BY <1>5 DEF checks

(* Three checks. *)
LEMMA CheckedOutcome3 ==
  ASSUME NEW E, NEW x, Silent(x, E), NoError \notin E, NEW y,
         NEW c1 \in BOOLEAN, NEW e1 \in E, NEW c2 \in BOOLEAN, NEW e2 \in E,
         NEW c3 \in BOOLEAN, NEW e3 \in E,
         ~c1 /\ ~c2 /\ ~c3 => Outcome(x, y, E)
  PROVE  Outcome(x, Checked(x, << <<c1, e1>>, <<c2, e2>>, <<c3, e3>> >>, y), E)
  <1> DEFINE checks == << <<c1, e1>>, <<c2, e2>>, <<c3, e3>> >>
  <1>1. /\ DOMAIN checks = 1..3 /\ 3 \in 1..4
        /\ checks[1] = <<c1, e1>> /\ checks[2] = <<c2, e2>> /\ checks[3] = <<c3, e3>>
    OBVIOUS
  <1>2. /\ checks[1][1] = c1 /\ checks[1][2] = e1
        /\ checks[2][1] = c2 /\ checks[2][2] = e2
        /\ checks[3][1] = c3 /\ checks[3][2] = e3
    BY <1>1
  <1> HIDE DEF checks
  <1>3. \A i \in 1..3 : checks[i][2] \in E
    BY <1>2
  <1>4. (\A i \in 1..3 : ~checks[i][1]) => Outcome(x, y, E)
    BY <1>2
  <1>5. Outcome(x, Checked(x, checks, y), E)
    BY <1>1, <1>3, <1>4, CheckedOutcome
  <1> QED
    BY <1>5 DEF checks

(* Four checks. *)
LEMMA CheckedOutcome4 ==
  ASSUME NEW E, NEW x, Silent(x, E), NoError \notin E, NEW y,
         NEW c1 \in BOOLEAN, NEW e1 \in E, NEW c2 \in BOOLEAN, NEW e2 \in E,
         NEW c3 \in BOOLEAN, NEW e3 \in E, NEW c4 \in BOOLEAN, NEW e4 \in E,
         ~c1 /\ ~c2 /\ ~c3 /\ ~c4 => Outcome(x, y, E)
  PROVE  Outcome(x, Checked(x, << <<c1, e1>>, <<c2, e2>>, <<c3, e3>>, <<c4, e4>> >>, y), E)
  <1> DEFINE checks == << <<c1, e1>>, <<c2, e2>>, <<c3, e3>>, <<c4, e4>> >>
  <1>1. /\ DOMAIN checks = 1..4 /\ 4 \in 1..4
        /\ checks[1] = <<c1, e1>> /\ checks[2] = <<c2, e2>> /\ checks[3] = <<c3, e3>>
        /\ checks[4] = <<c4, e4>>
    OBVIOUS
  <1>2. /\ checks[1][1] = c1 /\ checks[1][2] = e1
        /\ checks[2][1] = c2 /\ checks[2][2] = e2
        /\ checks[3][1] = c3 /\ checks[3][2] = e3
        /\ checks[4][1] = c4 /\ checks[4][2] = e4
    BY <1>1
  <1> HIDE DEF checks
  <1>3. \A i \in 1..4 : checks[i][2] \in E
    BY <1>2
  <1>4. (\A i \in 1..4 : ~checks[i][1]) => Outcome(x, y, E)
    BY <1>2
  <1>5. Outcome(x, Checked(x, checks, y), E)
    BY <1>1, <1>3, <1>4, CheckedOutcome
  <1> QED
    BY <1>5 DEF checks

-----------------------------------------------------------------------------
(* Execute: a script, or the error that keeps it from the renderer. *)
LEMMA ExecuteOutcome ==
  ASSUME NEW E, Ordinary \subseteq E, NoError \notin E, NEW x, Silent(x, E)
  PROVE  Outcome(x, Execute(x), E)
  <1> DEFINE y == Drop(x, {"wait_wakeup"})
             z == IF Has(x, "waiting") THEN Drop(y, {"wait_dirty"}) ELSE y
             r == Raise(z, {"renderer_pending"})
             script == [id |-> x.id, doc |-> x.document, tab |-> x.tab, command |-> x.command,
                        preflight |-> Has(x, "preflight"), mute |-> FALSE]
             w == [r EXCEPT !.sent = @ \cup {script}]
  <1>1. CASE ~Has(x, "busy") \/ x.deferred # NoError
    <2>1. Execute(x) = x
      BY <1>1 DEF Execute
    <2> QED
      BY <2>1, SilentGoing
  <1>2. CASE Has(x, "busy") /\ x.deferred = NoError /\ Has(x, "renderer_pending")
    <2>1. Execute(x) \in {x, Raise(x, {"wait_dirty"})}
      BY <1>2 DEF Execute
    <2>2. /\ Going(x, Raise(x, {"wait_dirty"}), E) /\ SameRequest(x, Raise(x, {"wait_dirty"}))
          /\ Raise(x, {"wait_dirty"}).stopped = x.stopped
      BY AsideGoing DEF Aside, SameFields
    <2> QED
      BY <2>1, <2>2, SilentGoing DEF Outcome, StopKept
  <1>3. CASE Has(x, "busy") /\ x.deferred = NoError /\ ~Has(x, "renderer_pending")
    <2>1. /\ Going(x, y, E) /\ SameRequest(x, y) /\ SameFields(x, y)
          /\ y.on = x.on \ {"wait_wakeup"} /\ StopKept(x, y, E) /\ Silent(y, E)
      BY AsideGoing DEF Aside, SameFields, StopKept, Going
    <2>2. "request_expired" \in E /\ "ineligible_tab" \in E /\ "tab_changed" \in E
      BY DEF Ordinary, ErrorCode
    <2>3. Execute(x) \in {Error(y, "request_expired"), Error(y, "ineligible_tab"),
                          Error(y, "tab_changed"), w}
      BY <1>3 DEF Execute
    <2>4. \A e \in E : Outcome(x, Error(y, e), E)
      BY <2>1, ErrorOutcome, Chain
    <2>5. Outcome(x, w, E)
      <3>1. /\ Shape(z) /\ SameFields(x, z)
            /\ z.on \in {x.on \ {"wait_wakeup"}, (x.on \ {"wait_wakeup"}) \ {"wait_dirty"}}
        <4>1. CASE Has(x, "waiting")
          <5>1. z = Drop(y, {"wait_dirty"})
            BY <4>1
          <5> HIDE DEF z, y
          <5>2. Going(y, z, E) /\ SameFields(y, z) /\ z.on = y.on \ {"wait_dirty"}
            BY <2>1, <5>1, AsideGoing DEF Aside
          <5>3. Shape(z)
            BY <5>2 DEF Going, Silent
          <5> QED
            BY <2>1, <5>2, <5>3 DEF SameFields
        <4>2. CASE ~Has(x, "waiting")
          BY <2>1, <4>2 DEF Silent
        <4> QED
          BY <4>1, <4>2
      <3> HIDE DEF z
      <3>2. Shape(r) /\ SameFields(x, r) /\ r.on = z.on \cup {"renderer_pending"}
        BY <3>1 DEF Raise, Shape, Field, SameFields
      <3> HIDE DEF r, script
      <3>3. /\ Shape(w) /\ w.on = r.on /\ w.id = x.id /\ w.req = x.req /\ w.tab = x.tab
            /\ w.command = x.command /\ w.document = x.document /\ w.deferred = x.deferred
            /\ w.stopped = x.stopped /\ w.baseline = x.baseline /\ w.prompt = x.prompt
            /\ w.post = x.post /\ w.closed = x.closed /\ w.sent = x.sent \cup {script}
        BY <3>2 DEF Shape, Field, SameFields
      <3> HIDE DEF w
      <3>4. \A f : f \notin {"wait_wakeup", "wait_dirty", "renderer_pending"}
                     => (Has(w, f) <=> Has(x, f))
        BY <3>1, <3>2, <3>3 DEF Has
      <3>5. Has(w, "renderer_pending")
        BY <3>2, <3>3 DEF Has
      <3>6. w.sent = {[id |-> x.id, doc |-> w.document, tab |-> w.tab, command |-> w.command,
                       preflight |-> Has(w, "preflight"), mute |-> FALSE]}
        <4>1. Has(w, "preflight") = Has(x, "preflight")
          BY <3>1, <3>2, <3>3 DEF Has
        <4>2. w.sent = {script}
          BY <3>3 DEF Silent
        <4> QED
          BY <3>3, <4>1, <4>2 DEF script
      <3>7. BaselineKept(x, w) /\ WaitKept(x, w) /\ PromptKept(x, w) /\ StopKept(x, w, E)
        BY <3>3, <3>4 DEF BaselineKept, WaitKept, PromptKept, StopKept
      <3>8. SameRequest(x, w)
        BY <3>3, <3>4 DEF SameRequest
      <3>9. Sends(x, w, E)
        BY <1>3, <3>3, <3>4, <3>5, <3>6, <3>7 DEF Sends, Silent
      <3> QED
        BY <3>7, <3>8, <3>9 DEF Outcome
    <2> HIDE DEF y, w
    <2> QED
      BY <2>2, <2>3, <2>4, <2>5
  <1> QED
    BY <1>1, <1>2, <1>3

(* WakeWait only leaves a note for the wait. *)
LEMMA WakeWaitOutcome ==
  ASSUME NEW E, NEW x, Silent(x, E)
  PROVE  LET y == WakeWait(x)
         IN  Outcome(x, y, E) /\ Going(x, y, E)
  <1>1. WakeWait(x) \in {x, Raise(x, {"wait_dirty"}), Raise(x, {"wait_wakeup"})}
    BY DEF WakeWait
  <1>2. \A f \in {"wait_dirty", "wait_wakeup"} :
          /\ Going(x, Raise(x, {f}), E) /\ SameRequest(x, Raise(x, {f}))
          /\ Raise(x, {f}).stopped = x.stopped
    BY AsideGoing DEF Aside, SameFields
  <1> QED
    BY <1>1, <1>2, SilentGoing DEF Outcome, StopKept

(* A request in hand nothing has been started for. *)
Begun(x, E) ==
  /\ Ready(x, E) /\ ~Has(x, "waiting") /\ ~Has(x, "navigating")
  /\ x.deferred = NoError /\ x.prompt = Nil

(* What follows the user's approval. *)
LEMMA ApprovedOutcome ==
  ASSUME NEW E, Ordinary \subseteq E, NoError \notin E, NEW x, Ready(x, E), x.prompt = Nil
  PROVE  Outcome(x, Approved(x), E)
  <1>1. Silent(x, E) /\ Has(x, "busy") /\ ~Has(x, "renderer_pending") /\ Shape(x)
    BY DEF Ready, Silent
  <1>2. CASE x.command = "ask"
    BY <1>2, FinishAnswers DEF Approved, Succeed
  <1>3. CASE x.command = "attach"
    <2> DEFINE r == Raise(x, {"attached"})
               g == Grant(r)
               o == [g EXCEPT !.command = "observe"]
    <2>1. Shape(r) /\ SameFields(x, r) /\ r.on = x.on \cup {"attached"}
      BY <1>1 DEF Raise, Shape, Field, SameFields
    <2> HIDE DEF r
    <2>2. /\ Shape(g) /\ g.on = r.on /\ g.id = r.id /\ g.req = r.req /\ g.tab = r.tab
          /\ g.document = r.document /\ g.deferred = r.deferred /\ g.stopped = r.stopped
          /\ g.baseline = r.baseline /\ g.prompt = r.prompt /\ g.post = r.post
          /\ g.sent = r.sent /\ g.closed = r.closed
      BY <2>1 DEF Grant, Shape, Field
    <2> HIDE DEF g
    <2>3. /\ Shape(o) /\ o.on = x.on \cup {"attached"} /\ o.id = x.id /\ o.req = x.req
          /\ o.document = x.document /\ o.deferred = x.deferred /\ o.stopped = x.stopped
          /\ o.baseline = x.baseline /\ o.prompt = x.prompt /\ o.post = x.post
          /\ o.sent = x.sent /\ o.closed = x.closed
      BY <2>1, <2>2 DEF Shape, Field, SameFields
    <2> HIDE DEF o
    <2>4. \A f : f # "attached" => (Has(o, f) <=> Has(x, f))
      BY <2>3 DEF Has
    <2>5. BaselineKept(x, o) /\ WaitKept(x, o)
      BY <2>3, <2>4 DEF BaselineKept, WaitKept
    <2>6. Going(x, o, E) /\ SameRequest(x, o) /\ StopKept(x, o, E)
      BY <1>1, <2>3, <2>4, <2>5, Prepared
    <2>7. Approved(x) = Execute(o)
      BY <1>3 DEF Approved, o, g, r
    <2> QED
      BY <2>6, <2>7, ExecuteOutcome, Chain DEF Going
  <1>4. CASE x.command = "navigate"
    <2> DEFINE r == Raise(x, {"navigating"})
    <2>1. Shape(r) /\ SameFields(x, r) /\ r.on = x.on \cup {"navigating"}
      BY <1>1 DEF Raise, Shape, Field, SameFields
    <2>2. Approved(x) = r
      BY <1>4 DEF Approved
    <2> HIDE DEF r
    <2>3. \A f : f # "navigating" => (Has(r, f) <=> Has(x, f))
      BY <2>1 DEF Has
    <2>4. BaselineKept(x, r) /\ WaitKept(x, r)
      BY <2>1, <2>3 DEF SameFields, BaselineKept, WaitKept
    <2>5. Outcome(x, r, E)
      BY <1>1, <2>1, <2>3, <2>4, Prepared DEF SameFields
    <2> QED
      BY <2>2, <2>5
  <1>5. CASE x.command \notin {"ask", "attach", "navigate"}
    BY <1>1, <1>5, ExecuteOutcome DEF Approved
  <1> QED
    BY <1>2, <1>3, <1>4, <1>5

(* The answer of a prompt, or of a rule in its place. *)
LEMMA AnsweredOutcome ==
  ASSUME NEW E, Ordinary \subseteq E, NoError \notin E, NEW x, Silent(x, E),
         ~Has(x, "renderer_pending"), NEW id, NEW doc, NEW accepted \in BOOLEAN,
         accepted \/ "user_cancelled" \in E
  PROVE  /\ Outcome(x, Answered(x, id, doc, accepted), E)
         /\ ForThisRequest(x, id, doc) /\ ~accepted /\ ~Has(x, "navigating")
              => /\ Answered(x, id, doc, accepted).sent = {}
                 /\ ~Has(Answered(x, id, doc, accepted), "busy")
  <1> DEFINE y == [x EXCEPT !.prompt = Nil]
             denied == IF y.command = "attach" THEN Drop(y, {"attached"}) ELSE y
             z == Answered(x, id, doc, accepted)
             c1 == Has(y, "expired")
             c2 == ~Eligible(y.tab) \/ active # y.tab
             checks == << <<c1, "request_expired">>, <<c2, "tab_changed">> >>
  <1>1. CASE ~ForThisRequest(x, id, doc)
    <2>1. z = x
      BY <1>1 DEF Answered
    <2> QED
      BY <1>1, <2>1, SilentGoing
  <1>2. CASE ForThisRequest(x, id, doc)
    <2>1. Has(x, "busy")
      BY <1>2 DEF ForThisRequest
    <2>2. /\ Shape(y) /\ y.on = x.on /\ y.id = x.id /\ y.req = x.req /\ y.tab = x.tab
          /\ y.document = x.document /\ y.deferred = x.deferred /\ y.stopped = x.stopped
          /\ y.baseline = x.baseline /\ y.prompt = Nil /\ y.post = x.post
          /\ y.sent = x.sent /\ y.closed = x.closed /\ y.command = x.command
      BY DEF Silent, Shape, Field
    <2> HIDE DEF y
    <2>3. \A f : Has(y, f) <=> Has(x, f)
      BY <2>2 DEF Has
    <2>4. BaselineKept(x, y) /\ WaitKept(x, y)
      BY <2>2, <2>3 DEF BaselineKept, WaitKept
    <2>5. Going(x, y, E) /\ SameRequest(x, y) /\ StopKept(x, y, E)
      BY <2>2, <2>3, <2>4, Prepared
    <2>6. Ready(y, E)
      BY <2>1, <2>3, <2>5 DEF Ready, Going
    <2>7. z = IF ~Has(y, "expired") /\ ~accepted THEN Error(denied, "user_cancelled")
              ELSE Checked(y, checks, Approved(y))
      BY <1>2 DEF Answered, y
    <2>8. CASE ~Has(y, "expired") /\ ~accepted
      <3>1. /\ Going(y, denied, E) /\ SameRequest(y, denied) /\ StopKept(y, denied, E)
            /\ Ready(denied, E) /\ (Has(denied, "navigating") <=> Has(y, "navigating"))
        <4>1. CASE denied = y
          BY <2>6, <4>1, SilentGoing DEF Ready, Outcome
        <4>2. CASE denied = Drop(y, {"attached"})
          <5>1. /\ Going(y, denied, E) /\ SameRequest(y, denied) /\ SameFields(y, denied)
                /\ denied.on = y.on \ {"attached"}
            BY <2>6, <4>2, AsideGoing DEF Ready, Aside
          <5> HIDE DEF denied
          <5>2. \A f : f # "attached" => (Has(denied, f) <=> Has(y, f))
            BY <5>1 DEF Has
          <5> QED
            BY <2>6, <5>1, <5>2 DEF Ready, Going, StopKept, SameFields
        <4> QED
          BY <4>1, <4>2
      <3> HIDE DEF denied
      <3>2. z = Error(denied, "user_cancelled")
        BY <2>7, <2>8
      <3>3. /\ Outcome(denied, z, E) /\ z.sent = {}
            /\ ~Has(denied, "navigating") => ~Has(z, "busy")
        BY <2>8, <3>1, <3>2, ErrorOutcome DEF Ready
      <3>4. Outcome(y, z, E)
        BY <3>1, <3>3, Chain
      <3>5. Outcome(x, z, E)
        BY <2>5, <3>4, Chain
      <3> QED
        BY <2>3, <3>1, <3>3, <3>5
    <2>9. CASE ~(~Has(y, "expired") /\ ~accepted)
      <3>1. z = Checked(y, checks, Approved(y))
        BY <2>7, <2>9
      <3>2. c1 \in BOOLEAN /\ c2 \in BOOLEAN /\ "request_expired" \in E /\ "tab_changed" \in E
        BY DEF Ordinary, ErrorCode, Has
      <3>3. Outcome(y, Approved(y), E)
        BY <2>2, <2>6, ApprovedOutcome
      <3> HIDE DEF c1, c2
      <3>4. Outcome(y, z, E)
        BY <2>6, <3>1, <3>2, <3>3, CheckedOutcome2 DEF Ready
      <3>5. Outcome(x, z, E)
        BY <2>5, <3>4, Chain
      <3>6. CASE accepted
        BY <3>5, <3>6
      <3>7. CASE c1
        <4>1. /\ DOMAIN checks = 1..2 /\ checks[1] = <<c1, "request_expired">>
              /\ checks[2] = <<c2, "tab_changed">>
          OBVIOUS
        <4>2. /\ checks[1][1] /\ checks[1][2] = "request_expired"
              /\ checks[2][2] = "tab_changed"
          BY <3>7, <4>1
        <4> HIDE DEF checks, z, y
        <4> DEFINE w == Approved(y)
        <4> HIDE DEF w
        <4>3. \E i \in 1..2 : Checked(y, checks, w) = Error(y, checks[i][2])
          <5>1. 1 \in 1..2 /\ 2 \in 1..4 /\ DOMAIN checks = 1..2 /\ checks[1][1]
            BY <4>1, <4>2
          <5> QED
            BY <5>1, CheckedFails
        <4>5. z \in {Error(y, "request_expired"), Error(y, "tab_changed")}
          BY <3>1, <4>2, <4>3 DEF w
        <4>4. \A e \in E : /\ Error(y, e).sent = {}
                           /\ ~Has(y, "navigating") => ~Has(Error(y, e), "busy")
          BY <2>6, ErrorOutcome DEF Ready
        <4>6. z.sent = {} /\ (~Has(y, "navigating") => ~Has(z, "busy"))
          BY <3>2, <4>4, <4>5
        <4> QED
          BY <2>3, <3>5, <4>6 DEF z
      <3> QED
        BY <2>9, <3>6, <3>7 DEF c1
    <2> QED
      BY <2>8, <2>9
  <1> QED
    BY <1>1, <1>2

(* A prompt, or the denial it gives itself without a window. *)
LEMMA AskOutcome ==
  ASSUME NEW E, Ordinary \subseteq E, NoError \notin E, NEW x, Ready(x, E),
         ~Has(x, "navigating"), x.deferred = NoError,
         NEW shown \in BOOLEAN, shown \/ "user_cancelled" \in E
  PROVE  Outcome(x, Ask(x, shown), E)
  <1>1. Silent(x, E) /\ Has(x, "busy") /\ ~Has(x, "renderer_pending")
    BY DEF Ready
  <1>2. CASE shown
    <2> DEFINE y == [x EXCEPT !.prompt = [id |-> x.id, doc |-> x.document]]
    <2>1. /\ Shape(y) /\ y.on = x.on /\ SameRequest(x, y) /\ y.stopped = x.stopped
          /\ y.document = x.document /\ y.deferred = x.deferred /\ y.req = x.req
          /\ y.baseline = x.baseline /\ y.prompt.id = x.id /\ y.post = x.post
          /\ y.sent = x.sent /\ y.closed = x.closed
      BY <1>1 DEF Silent, Shape, Field, SameRequest, Has
    <2>2. Ask(x, shown) = y
      BY <1>2 DEF Ask
    <2> HIDE DEF y
    <2>3. \A f : Has(y, f) <=> Has(x, f)
      BY <2>1 DEF Has
    <2>4. Silent(y, E)
      BY <1>1, <2>1, <2>3 DEF Silent
    <2>5. BaselineKept(x, y) /\ WaitKept(x, y) /\ PromptKept(x, y) /\ StopKept(x, y, E)
      BY <1>1, <2>1, <2>3 DEF BaselineKept, WaitKept, PromptKept, StopKept
    <2>6. Going(x, y, E)
      BY <1>1, <2>1, <2>3, <2>4, <2>5 DEF Going
    <2> QED
      BY <2>1, <2>2, <2>5, <2>6 DEF Outcome
  <1>3. CASE ~shown
    <2> DEFINE z == Answered(x, x.id, x.document, FALSE)
    <2>1. ForThisRequest(x, x.id, x.document) /\ "user_cancelled" \in E /\ FALSE \in BOOLEAN
      BY <1>1, <1>3 DEF ForThisRequest
    <2>2. Outcome(x, z, E) /\ z.sent = {} /\ ~Has(z, "busy")
      BY <1>1, <2>1, AnsweredOutcome
    <2>3. Ask(x, shown) = Error(z, "prompt_unavailable")
      BY <1>3 DEF Ask
    <2> HIDE DEF z
    <2>4. Error(z, "prompt_unavailable") = z
      BY <2>2 DEF Error
    <2> QED
      BY <2>2, <2>3, <2>4
  <1> QED
    BY <1>2, <1>3

(* Permission, then a probe of the target. *)
LEMMA PreflightOutcome ==
  ASSUME NEW E, Ordinary \subseteq E, NoError \notin E, NEW x, Ready(x, E)
  PROVE  Outcome(x, Preflight(x), E)
  <1> DEFINE r == Raise(x, {"preflight"})
             c == RequestRule(x) = "deny"
             y == Execute(r)
  <1>1. Silent(x, E) /\ Has(x, "busy") /\ ~Has(x, "renderer_pending") /\ Shape(x)
    BY DEF Ready, Silent
  <1>2. Shape(r) /\ SameFields(x, r) /\ r.on = x.on \cup {"preflight"}
    BY <1>1 DEF Raise, Shape, Field, SameFields
  <1> HIDE DEF r
  <1>3. \A f : f # "preflight" => (Has(r, f) <=> Has(x, f))
    BY <1>2 DEF Has
  <1>4. BaselineKept(x, r) /\ WaitKept(x, r)
    BY <1>2, <1>3 DEF SameFields, BaselineKept, WaitKept
  <1>5. r.prompt # Nil => ~Has(r, "navigating")
    BY <1>1, <1>2, <1>3 DEF Silent, SameFields
  <1>6. Going(x, r, E) /\ SameRequest(x, r) /\ StopKept(x, r, E)
    BY <1>1, <1>2, <1>3, <1>4, <1>5, Prepared DEF SameFields
  <1>7. Outcome(x, y, E)
    BY <1>6, ExecuteOutcome, Chain DEF Going
  <1>8. c \in BOOLEAN /\ "permission_denied" \in E
    BY DEF Ordinary, ErrorCode
  <1>9. Preflight(x) = Checked(x, << <<c, "permission_denied">> >>, y)
    BY DEF Preflight, r
  <1> HIDE DEF y, c
  <1> QED
    BY <1>1, <1>7, <1>8, <1>9, CheckedOutcome1

(* The document is reset only where no wait and no script is under way. *)
LEMMA ResetFields ==
  ASSUME NEW x, Shape(x)
  PROVE  LET y == ResetDocument(x)
         IN  /\ Shape(y) /\ y.on = x.on /\ y.tab = x.tab /\ y.id = x.id /\ y.req = x.req
             /\ y.command = x.command /\ y.deferred = x.deferred /\ y.stopped = x.stopped
             /\ y.prompt = x.prompt /\ y.granted = x.granted /\ y.authorized = x.authorized
             /\ y.task = x.task /\ y.baseline = Nil
             /\ y.post = x.post /\ y.sent = x.sent /\ y.closed = x.closed
  BY DEF ResetDocument, Shape, Field

-----------------------------------------------------------------------------
(* The commands. *)

(* select-tab. *)
LEMMA SelectTabOutcome ==
  ASSUME NEW E, Ordinary \subseteq E, NoError \notin E, NEW x, Begun(x, E),
         NEW selected \in BOOLEAN
  PROVE  Outcome(x, SelectTab(x, selected), E)
  <1> DEFINE t == x.req.call.tab
             u == [x EXCEPT !.authorized = @ \ {t}]
             y == IF t \in x.authorized /\ ~Eligible(t) THEN u ELSE x
             r == Raise(x, {"attached"})
             d == ResetDocument(r)
             o == [d EXCEPT !.tab = t, !.command = "observe"]
             z == Execute(o)
             c1 == t \notin x.granted \/ page[t] = "closed"
             c2 == t \notin x.authorized
             c3 == ~Eligible(t)
             c4 == ~selected
  <1>1. /\ Silent(x, E) /\ Has(x, "busy") /\ ~Has(x, "renderer_pending") /\ Shape(x)
        /\ ~Has(x, "waiting") /\ x.prompt = Nil
    BY DEF Begun, Ready, Silent
  <1>2. /\ Shape(y) /\ SameRequest(x, y) /\ y.on = x.on /\ y.id = x.id /\ y.req = x.req
        /\ y.command = x.command /\ y.document = x.document /\ y.deferred = x.deferred
        /\ y.stopped = x.stopped /\ y.baseline = x.baseline /\ y.prompt = x.prompt
        /\ y.post = x.post /\ y.sent = x.sent /\ y.closed = x.closed
    BY <1>1 DEF Shape, Field, SameRequest, Has
  <1>3. SelectTab(x, selected) =
          Checked(y, << <<c1, "unknown_tab_capability">>, <<c2, "tab_permission_expired">>,
                        <<c3, "ineligible_tab">>, <<c4, "tab_selection_failed">> >>, z)
    BY DEF SelectTab
  <1> HIDE DEF y
  <1>4. \A f : Has(y, f) <=> Has(x, f)
    BY <1>2 DEF Has
  <1>5. BaselineKept(x, y) /\ WaitKept(x, y)
    BY <1>1, <1>2, <1>4 DEF BaselineKept, WaitKept
  <1>6. Going(x, y, E) /\ SameRequest(x, y) /\ StopKept(x, y, E)
    BY <1>1, <1>2, <1>4, <1>5, Prepared
  <1>7. Outcome(y, z, E)
    <2>1. Shape(r) /\ SameFields(x, r) /\ r.on = x.on \cup {"attached"}
      BY <1>1 DEF Raise, Shape, Field, SameFields
    <2> HIDE DEF r
    <2>2. /\ Shape(d) /\ d.on = r.on /\ d.id = x.id /\ d.req = x.req
          /\ d.deferred = x.deferred /\ d.stopped = x.stopped /\ d.prompt = x.prompt
          /\ d.baseline = Nil /\ d.post = x.post /\ d.sent = x.sent /\ d.closed = x.closed
      BY <2>1, ResetFields DEF SameFields
    <2> HIDE DEF d
    <2>3. /\ Shape(o) /\ o.on = d.on /\ o.id = x.id /\ o.req = x.req
          /\ o.deferred = x.deferred /\ o.stopped = x.stopped /\ o.prompt = x.prompt
          /\ o.baseline = Nil /\ o.post = x.post /\ o.sent = x.sent /\ o.closed = x.closed
      BY <2>2 DEF Shape, Field
    <2> HIDE DEF o
    <2>4. \A f : f # "attached" => (Has(o, f) <=> Has(y, f))
      BY <1>2, <2>1, <2>2, <2>3 DEF Has
    <2>5. BaselineKept(y, o) /\ WaitKept(y, o)
      BY <1>1, <1>4, <2>3, <2>4 DEF BaselineKept, WaitKept
    <2>6. Going(y, o, E) /\ SameRequest(y, o) /\ StopKept(y, o, E)
      BY <1>1, <1>2, <1>4, <1>6, <2>3, <2>4, <2>5, Prepared DEF Going
    <2> QED
      BY <2>6, ExecuteOutcome, Chain DEF Going
  <1>8. /\ c1 \in BOOLEAN /\ c2 \in BOOLEAN /\ c3 \in BOOLEAN /\ c4 \in BOOLEAN
        /\ "unknown_tab_capability" \in E /\ "tab_permission_expired" \in E
        /\ "ineligible_tab" \in E /\ "tab_selection_failed" \in E
    BY DEF Ordinary, ErrorCode
  <1> HIDE DEF c1, c2, c3, c4, z
  <1>9. Silent(y, E)
    BY <1>6 DEF Going
  <1>10. Outcome(y, SelectTab(x, selected), E)
    <2>1. Outcome(y, Checked(y, << <<c1, "unknown_tab_capability">>,
                                   <<c2, "tab_permission_expired">>,
                                   <<c3, "ineligible_tab">>,
                                   <<c4, "tab_selection_failed">> >>, z), E)
      BY <1>7, <1>8, <1>9, CheckedOutcome4, ZenonT(60)
    <2> QED
      BY <1>3, <2>1
  <1> QED
    BY <1>6, <1>10, Chain

(* detach and cancel. *)
LEMMA DetachOutcome ==
  ASSUME NEW E, Ordinary \subseteq E, NoError \notin E, NEW x, Ready(x, E)
  PROVE  Outcome(x, Detach(x), E) /\ ~Has(Detach(x), "busy")
  <1> DEFINE s == IF x.command = "cancel" THEN StopSession(x, "agent_cancelled") ELSE x
             d == Drop(s, {"attached"})
             y == [d EXCEPT !.tab = Nil, !.baseline = Nil, !.granted = {}, !.authorized = {},
                            !.task = [t \in Tabs |-> Nil]]
  <1>1. Silent(x, E) /\ Has(x, "busy") /\ ~Has(x, "renderer_pending") /\ Shape(x)
    BY DEF Ready, Silent
  <1>2. Going(x, s, E) /\ SameRequest(x, s) /\ StopKept(x, s, E)
    <2>1. "agent_cancelled" \in E /\ "agent_cancelled" \in StopReasons \cup {Unreadable}
      BY DEF Ordinary, ErrorCode, StopReasons
    <2>2. CASE x.command = "cancel"
      BY <1>1, <2>1, <2>2, StopGoing
    <2>3. CASE x.command # "cancel"
      BY <1>1, <2>3, SilentGoing DEF StopKept, Outcome
    <2> QED
      BY <2>2, <2>3
  <1>3. Detach(x) = Finish(y, NoError, 0, FALSE)
    BY DEF Detach, Succeed
  <1> HIDE DEF s
  <1>4. Shape(s) /\ Silent(s, E) /\ ~Has(s, "renderer_pending") /\ Has(s, "busy")
    BY <1>1, <1>2 DEF Going, Silent
  <1>5. Shape(d) /\ SameFields(s, d) /\ d.on = s.on \ {"attached"}
    BY <1>4 DEF Drop, Shape, Field, SameFields
  <1> HIDE DEF d
  <1>6. /\ Shape(y) /\ y.on = s.on \ {"attached"} /\ y.id = s.id /\ y.req = s.req
        /\ y.deferred = s.deferred /\ y.stopped = s.stopped /\ y.prompt = s.prompt
        /\ y.document = s.document
        /\ y.baseline = Nil /\ y.post = s.post /\ y.sent = s.sent /\ y.closed = s.closed
    BY <1>5 DEF Shape, Field, SameFields
  <1> HIDE DEF y
  <1>7. \A f : f # "attached" => (Has(y, f) <=> Has(s, f))
    BY <1>6 DEF Has
  <1>8. BaselineKept(s, y) /\ WaitKept(s, y)
    BY <1>6, <1>7 DEF BaselineKept, WaitKept
  <1>9. y.prompt # Nil => ~Has(y, "navigating")
    BY <1>4, <1>6, <1>7 DEF Silent
  <1>10. Going(s, y, E) /\ SameRequest(s, y) /\ StopKept(s, y, E)
    BY <1>4, <1>6, <1>7, <1>8, <1>9, Prepared
  <1>11. Ready(y, E)
    BY <1>4, <1>7, <1>10 DEF Ready, Going
  <1>12. Outcome(y, Detach(x), E) /\ ~Has(Detach(x), "busy")
    BY <1>3, <1>11, FinishAnswers
  <1>13. Outcome(s, Detach(x), E)
    BY <1>10, <1>12, Chain
  <1> QED
    BY <1>2, <1>12, <1>13, Chain

(* attach. *)
LEMMA AttachOutcome ==
  ASSUME NEW E, Ordinary \subseteq E, NoError \notin E, NEW x, Begun(x, E),
         NEW shown \in BOOLEAN, shown \/ "user_cancelled" \in E
  PROVE  Outcome(x, Attach(x, shown), E)
  <1> DEFINE kept == {t \in x.granted : page[t] # "closed"}
             u == [x EXCEPT !.granted = kept]
             y == IF x.req.call.valid /\ Eligible(active) THEN u ELSE x
             v == [y EXCEPT !.tab = active, !.authorized = @ \ {active}, !.task[active] = Nil]
             w == Drop(v, {"attached"})
             d == ResetDocument(w)
             z == Ask(d, shown)
             c1 == ~x.req.call.valid
             c2 == ~Eligible(active)
             c3 == active \notin kept /\ Cardinality(kept) >= MaxGrants
  <1>1. /\ Silent(x, E) /\ Has(x, "busy") /\ ~Has(x, "renderer_pending") /\ Shape(x)
        /\ ~Has(x, "waiting") /\ ~Has(x, "navigating") /\ x.prompt = Nil
        /\ x.deferred = NoError
    BY DEF Begun, Ready, Silent
  <1>2. /\ Shape(y) /\ SameRequest(x, y) /\ y.on = x.on /\ y.id = x.id /\ y.req = x.req
        /\ y.command = x.command /\ y.document = x.document /\ y.deferred = x.deferred
        /\ y.stopped = x.stopped /\ y.baseline = x.baseline /\ y.prompt = x.prompt
        /\ y.post = x.post /\ y.sent = x.sent /\ y.closed = x.closed
    BY <1>1 DEF Shape, Field, SameRequest, Has
  <1>3. Attach(x, shown) =
          Checked(y, << <<c1, "invalid_permissions">>, <<c2, "ineligible_tab">>,
                        <<c3, "tab_grant_limit">> >>, z)
    BY DEF Attach
  <1> HIDE DEF y
  <1>4. \A f : Has(y, f) <=> Has(x, f)
    BY <1>2 DEF Has
  <1>5. BaselineKept(x, y) /\ WaitKept(x, y)
    BY <1>1, <1>2, <1>4 DEF BaselineKept, WaitKept
  <1>6. Going(x, y, E) /\ SameRequest(x, y) /\ StopKept(x, y, E)
    BY <1>1, <1>2, <1>4, <1>5, Prepared
  <1>7. Outcome(y, z, E)
    <2>1. /\ Shape(v) /\ v.on = x.on /\ v.id = x.id /\ v.req = x.req
          /\ v.deferred = x.deferred /\ v.stopped = x.stopped /\ v.prompt = x.prompt
          /\ v.post = x.post /\ v.sent = x.sent /\ v.closed = x.closed
      BY <1>2 DEF Shape, Field
    <2> HIDE DEF v
    <2>2. Shape(w) /\ SameFields(v, w) /\ w.on = v.on \ {"attached"}
      BY <2>1 DEF Drop, Shape, Field, SameFields
    <2> HIDE DEF w
    <2>3. /\ Shape(d) /\ d.on = w.on /\ d.id = x.id /\ d.req = x.req
          /\ d.deferred = x.deferred /\ d.stopped = x.stopped /\ d.prompt = x.prompt
          /\ d.baseline = Nil /\ d.post = x.post /\ d.sent = x.sent /\ d.closed = x.closed
      BY <2>1, <2>2, ResetFields DEF SameFields
    <2> HIDE DEF d
    <2>4. \A f : f # "attached" => (Has(d, f) <=> Has(y, f))
      BY <1>2, <2>1, <2>2, <2>3 DEF Has
    <2>5. BaselineKept(y, d) /\ WaitKept(y, d)
      BY <1>1, <1>4, <2>3, <2>4 DEF BaselineKept, WaitKept
    <2>6. Going(y, d, E) /\ SameRequest(y, d) /\ StopKept(y, d, E)
      BY <1>1, <1>2, <1>4, <1>6, <2>3, <2>4, <2>5, Prepared DEF Going
    <2>7. Ready(d, E) /\ ~Has(d, "navigating") /\ d.deferred = NoError
      BY <1>1, <1>4, <2>3, <2>4, <2>6 DEF Ready, Going
    <2> QED
      BY <2>6, <2>7, AskOutcome, Chain
  <1>8. /\ c1 \in BOOLEAN /\ c2 \in BOOLEAN /\ c3 \in BOOLEAN
        /\ "invalid_permissions" \in E /\ "ineligible_tab" \in E /\ "tab_grant_limit" \in E
    BY DEF Ordinary, ErrorCode
  <1> HIDE DEF c1, c2, c3, z
  <1>9. Silent(y, E)
    BY <1>6 DEF Going
  <1>10. Outcome(y, Attach(x, shown), E)
    BY <1>3, <1>7, <1>8, <1>9, CheckedOutcome3
  <1> QED
    BY <1>6, <1>10, Chain

(* wait-change. *)
LEMMA WaitChangeOutcome ==
  ASSUME NEW E, Ordinary \subseteq E, NoError \notin E, NEW x, Begun(x, E)
  PROVE  Outcome(x, WaitChange(x), E)
  <1> DEFINE d == Drop(x, {"wait_limit_reached", "wait_dirty"})
             y == Raise(d, {"waiting", "wait_limit_armed"})
             z == Execute(y)
             c1 == ~Attached(x)
             c2 == ~x.req.call.valid
             c3 == active # x.tab
             c4 == x.req.doc # x.document \/ ~Acknowledged(x)
  <1>1. /\ Silent(x, E) /\ Has(x, "busy") /\ ~Has(x, "renderer_pending") /\ Shape(x)
        /\ ~Has(x, "navigating") /\ x.prompt = Nil
    BY DEF Begun, Ready, Silent
  <1>2. WaitChange(x) =
          Checked(x, << <<c1, "not_attached">>, <<c2, "invalid_wait">>,
                        <<c3, "activate_attached_tab">>, <<c4, "stale_document">> >>, z)
    BY DEF WaitChange
  <1>3. ASSUME ~c4
        PROVE  Outcome(x, z, E)
    <2>1. Shape(d) /\ SameFields(x, d) /\ d.on = x.on \ {"wait_limit_reached", "wait_dirty"}
      BY <1>1 DEF Drop, Shape, Field, SameFields
    <2> HIDE DEF d
    <2>2. Shape(y) /\ SameFields(x, y) /\ y.on = d.on \cup {"waiting", "wait_limit_armed"}
      BY <2>1 DEF Raise, Shape, Field, SameFields
    <2> HIDE DEF y
    <2>3. \A f : f \notin {"wait_limit_reached", "wait_dirty", "waiting", "wait_limit_armed"}
                   => (Has(y, f) <=> Has(x, f))
      BY <2>1, <2>2 DEF Has
    <2>4. BaselineKept(x, y) /\ WaitKept(x, y)
      BY <1>3, <2>2 DEF SameFields, BaselineKept, WaitKept
    <2>5. Going(x, y, E) /\ SameRequest(x, y) /\ StopKept(x, y, E)
      BY <1>1, <2>2, <2>3, <2>4, Prepared DEF SameFields
    <2> QED
      BY <2>5, ExecuteOutcome, Chain DEF Going
  <1>4. /\ c1 \in BOOLEAN /\ c2 \in BOOLEAN /\ c3 \in BOOLEAN /\ c4 \in BOOLEAN
        /\ "not_attached" \in E /\ "invalid_wait" \in E /\ "activate_attached_tab" \in E
        /\ "stale_document" \in E
    BY DEF Ordinary, ErrorCode
  <1> HIDE DEF c1, c2, c3, c4, z
  <1>5. Outcome(x, Checked(x, << <<c1, "not_attached">>, <<c2, "invalid_wait">>,
                                 <<c3, "activate_attached_tab">>,
                                 <<c4, "stale_document">> >>, z), E)
    BY <1>1, <1>3, <1>4, CheckedOutcome4, ZenonT(60)
  <1> QED
    BY <1>2, <1>5

(* observe. *)
LEMMA ObserveOutcome ==
  ASSUME NEW E, Ordinary \subseteq E, NoError \notin E, NEW x, Silent(x, E)
  PROVE  Outcome(x, Observe(x), E) /\ Outcome(x, Read(x), E)
  <1> DEFINE c == ~Attached(x)
             d == x.req.doc # x.document
             z == Execute(x)
  <1>1. Outcome(x, z, E)
    BY ExecuteOutcome
  <1>2. c \in BOOLEAN /\ d \in BOOLEAN /\ "not_attached" \in E /\ "stale_document" \in E
    BY DEF Ordinary, ErrorCode
  <1>3. /\ Observe(x) = Checked(x, << <<c, "not_attached">> >>, z)
        /\ Read(x) = Checked(x, << <<c, "not_attached">>, <<d, "stale_document">> >>, z)
    BY DEF Observe, Read
  <1> HIDE DEF c, d, z
  <1>4. Outcome(x, Observe(x), E)
    BY <1>1, <1>2, <1>3, CheckedOutcome1
  <1> QED
    BY <1>1, <1>2, <1>3, <1>4, CheckedOutcome2

(* The checks of a command that needs the attached tab in front. *)
LEMMA InFrontOutcome ==
  ASSUME NEW E, Ordinary \subseteq E, NoError \notin E, NEW x, Silent(x, E), NEW checks, NEW y,
         Outcome(x, Checked(x, checks, y), E)
  PROVE  Outcome(x, InFront(x, checks, y), E)
  <1> DEFINE c == ~Attached(x)
             d == active # x.tab
             z == Checked(x, checks, y)
  <1>1. c \in BOOLEAN /\ d \in BOOLEAN /\ "not_attached" \in E /\ "activate_attached_tab" \in E
    BY DEF Ordinary, ErrorCode
  <1>2. InFront(x, checks, y)
          = Checked(x, << <<c, "not_attached">>, <<d, "activate_attached_tab">> >>, z)
    BY DEF InFront
  <1> HIDE DEF c, d, z
  <1>3. Outcome(x, z, E)
    BY DEF z
  <1> QED
    BY <1>1, <1>2, <1>3, CheckedOutcome2

(* scroll, ask and navigate. *)
LEMMA InFrontCommandsOutcome ==
  ASSUME NEW E, Ordinary \subseteq E, NoError \notin E, NEW x, Begun(x, E),
         NEW shown \in BOOLEAN, shown \/ "user_cancelled" \in E
  PROVE  /\ Outcome(x, Scroll(x), E) /\ Outcome(x, AskUser(x, shown), E)
         /\ Outcome(x, Navigate(x, shown), E)
         /\ Outcome(x, Batch(x), E) /\ Outcome(x, FillOrClick(x), E)
  <1> DEFINE stale == x.req.doc # x.document
             invalid == ~x.req.call.valid
             unknown == ~Acknowledged(x)
             gone == x.baseline = Nil \/ x.req.doc # x.document
             denied == Attached(x) /\ ActionRule(x, "navigate") = "deny"
             go == IF ActionRule(x, "navigate") = "allow" /\ x.req.call.origin = page[x.tab]
                   THEN Answered(x, x.id, x.document, TRUE) ELSE Ask(x, shown)
  <1>1. /\ Silent(x, E) /\ Ready(x, E) /\ ~Has(x, "renderer_pending")
        /\ ~Has(x, "navigating") /\ x.deferred = NoError
    BY DEF Begun, Ready
  <1>2. /\ Outcome(x, Execute(x), E) /\ Outcome(x, Ask(x, shown), E)
        /\ Outcome(x, Preflight(x), E)
    BY <1>1, ExecuteOutcome, AskOutcome, PreflightOutcome
  <1>3. Outcome(x, go, E)
    <2>1. Outcome(x, Answered(x, x.id, x.document, TRUE), E)
      BY <1>1, AnsweredOutcome
    <2> QED
      BY <1>2, <2>1
  <1>4. /\ stale \in BOOLEAN /\ invalid \in BOOLEAN /\ unknown \in BOOLEAN /\ gone \in BOOLEAN
        /\ denied \in BOOLEAN
        /\ "stale_document" \in E /\ "invalid_scroll" \in E /\ "invalid_question" \in E
        /\ "invalid_url" \in E /\ "permission_denied" \in E /\ "invalid_batch" \in E
        /\ "unknown_reference" \in E
    BY DEF Ordinary, ErrorCode
  <1>5. /\ Scroll(x) = InFront(x, << <<stale, "stale_document">>,
                                     <<invalid, "invalid_scroll">> >>, Execute(x))
        /\ AskUser(x, shown) = InFront(x, << <<invalid, "invalid_question">> >>, Ask(x, shown))
        /\ Navigate(x, shown) = InFront(x, << <<invalid, "invalid_url">>,
                                              <<denied, "permission_denied">> >>, go)
        /\ Batch(x) = InFront(x, << <<unknown, "stale_document">>,
                                    <<invalid, "invalid_batch">> >>, Preflight(x))
        /\ FillOrClick(x) = InFront(x, << <<gone, "stale_document">>,
                                          <<invalid, "unknown_reference">> >>, Preflight(x))
    BY DEF Scroll, AskUser, Navigate, Batch, FillOrClick
  <1> HIDE DEF stale, invalid, unknown, gone, denied, go
  <1>6. Outcome(x, Scroll(x), E)
    <2>1. Outcome(x, Checked(x, << <<stale, "stale_document">>,
                                   <<invalid, "invalid_scroll">> >>, Execute(x)), E)
      BY <1>1, <1>2, <1>4, CheckedOutcome2
    <2> QED
      BY <1>1, <1>5, <2>1, InFrontOutcome
  <1>7. Outcome(x, AskUser(x, shown), E)
    <2>1. Outcome(x, Checked(x, << <<invalid, "invalid_question">> >>, Ask(x, shown)), E)
      BY <1>1, <1>2, <1>4, CheckedOutcome1
    <2> QED
      BY <1>1, <1>5, <2>1, InFrontOutcome
  <1>8. Outcome(x, Navigate(x, shown), E)
    <2>1. Outcome(x, Checked(x, << <<invalid, "invalid_url">>,
                                   <<denied, "permission_denied">> >>, go), E)
      BY <1>1, <1>3, <1>4, CheckedOutcome2
    <2> QED
      BY <1>1, <1>5, <2>1, InFrontOutcome
  <1>9. Outcome(x, Batch(x), E)
    <2>1. Outcome(x, Checked(x, << <<unknown, "stale_document">>,
                                   <<invalid, "invalid_batch">> >>, Preflight(x)), E)
      BY <1>1, <1>2, <1>4, CheckedOutcome2
    <2> QED
      BY <1>1, <1>5, <2>1, InFrontOutcome
  <1>10. Outcome(x, FillOrClick(x), E)
    <2>1. Outcome(x, Checked(x, << <<gone, "stale_document">>,
                                   <<invalid, "unknown_reference">> >>, Preflight(x)), E)
      BY <1>1, <1>2, <1>4, CheckedOutcome2
    <2> QED
      BY <1>1, <1>5, <2>1, InFrontOutcome
  <1> QED
    BY <1>6, <1>7, <1>8, <1>9, <1>10

(* Every command, and the stopped session. *)
LEMMA DispatchOutcome ==
  ASSUME NEW E, Ordinary \subseteq E, NoError \notin E, NEW x, Begun(x, E),
         NEW shown \in BOOLEAN, shown \/ "user_cancelled" \in E, NEW selected \in BOOLEAN
  PROVE  Outcome(x, Dispatch(x, shown, selected), E)
  <1>1. Ready(x, E) /\ Silent(x, E)
    BY DEF Begun, Ready
  <1>2. "session_stopped" \in E /\ "unknown_command" \in E
    BY DEF Ordinary, ErrorCode
  <1>3. Dispatch(x, shown, selected) \in
          {Finish(x, "session_stopped", 0, FALSE), Succeed(x), SelectTab(x, selected), Detach(x),
           Attach(x, shown), WaitChange(x), Observe(x), Read(x), Scroll(x), AskUser(x, shown),
           Navigate(x, shown), Batch(x), FillOrClick(x), Error(x, "unknown_command")}
    <2>1. CASE x.stopped # NoError /\ x.command \notin {"status", "detach", "cancel"}
      BY <2>1 DEF Dispatch
    <2>2. CASE /\ ~(x.stopped # NoError /\ x.command \notin {"status", "detach", "cancel"})
               /\ x.command \in {"tabs", "status", "select-tab", "cancel", "detach", "attach",
                                 "wait-change", "observe"}
      BY <2>2 DEF Dispatch
    <2>3. CASE /\ ~(x.stopped # NoError /\ x.command \notin {"status", "detach", "cancel"})
               /\ x.command \in {"read", "scroll", "ask", "navigate", "batch", "fill", "click"}
      BY <2>3 DEF Dispatch
    <2>4. CASE /\ ~(x.stopped # NoError /\ x.command \notin {"status", "detach", "cancel"})
               /\ x.command \notin {"tabs", "status", "select-tab", "cancel", "detach", "attach",
                                    "wait-change", "observe", "read", "scroll", "ask",
                                    "navigate", "batch", "fill", "click"}
      BY <2>4 DEF Dispatch
    <2> QED
      BY <2>1, <2>2, <2>3, <2>4
  <1>4. /\ Outcome(x, Finish(x, "session_stopped", 0, FALSE), E) /\ Outcome(x, Succeed(x), E)
    BY <1>1, <1>2, FinishAnswers DEF Succeed
  <1>5. /\ Outcome(x, SelectTab(x, selected), E) /\ Outcome(x, Detach(x), E)
        /\ Outcome(x, Attach(x, shown), E) /\ Outcome(x, WaitChange(x), E)
    BY <1>1, SelectTabOutcome, DetachOutcome, AttachOutcome, WaitChangeOutcome
  <1>6. Outcome(x, Observe(x), E) /\ Outcome(x, Read(x), E)
    BY <1>1, ObserveOutcome
  <1>7. Outcome(x, Error(x, "unknown_command"), E)
    BY <1>1, <1>2, ErrorOutcome
  <1> QED
    BY <1>3, <1>4, <1>5, <1>6, <1>7, InFrontCommandsOutcome

(* A stopped session answers every request at once. *)
LEMMA DispatchStopped ==
  ASSUME NEW E, Ordinary \subseteq E, NoError \notin E, NEW x, Begun(x, E),
         x.stopped # NoError, NEW shown, NEW selected
  PROVE  ~Has(Dispatch(x, shown, selected), "busy")
  <1>1. Ready(x, E) /\ "session_stopped" \in E
    BY DEF Begun, Ordinary, ErrorCode
  <1>2. CASE x.command \notin {"status", "detach", "cancel"}
    <2>1. Dispatch(x, shown, selected) = Finish(x, "session_stopped", 0, FALSE)
      BY <1>2 DEF Dispatch
    <2> QED
      BY <1>1, <2>1, FinishAnswers
  <1>3. CASE x.command = "status"
    <2>1. Dispatch(x, shown, selected) = Finish(x, NoError, 0, FALSE)
      BY <1>3 DEF Dispatch, Succeed
    <2> QED
      BY <1>1, <2>1, FinishAnswers
  <1>4. CASE x.command \in {"detach", "cancel"}
    <2>1. Dispatch(x, shown, selected) = Detach(x)
      BY <1>4 DEF Dispatch
    <2> QED
      BY <1>1, <2>1, DetachOutcome
  <1> QED
    BY <1>2, <1>3, <1>4

(* A request whose claim is fresh, as its handler begins. *)
Begins(x, data, z, E) ==
  /\ Begun(z, E) /\ z.id = data.id /\ z.req = data /\ Has(z, "request_claimed")
  /\ ~Has(z, "writing_response") /\ ~Has(z, "reading") /\ ~Has(z, "preflight")
  /\ Has(z, "quarantined") <=> Has(x, "quarantined")
  /\ StopKept(x, z, E) /\ BaselineKept(x, z)

(* A request taken into hand has one of the outcomes. *)
LEMMA AdmitOutcome ==
  ASSUME NEW E, Ordinary \subseteq E, NoError \notin E, NEW x, Silent(x, E),
         ~Has(x, "renderer_pending"), ~Has(x, "writing_response"), ~Has(x, "reading"),
         ~Has(x, "waiting"), ~Has(x, "navigating"), ~Has(x, "preflight"), x.prompt = Nil,
         NEW shown \in BOOLEAN, shown \/ "user_cancelled" \in E, NEW selected \in BOOLEAN,
         x.req.id = x.id
  PROVE  LET y == Admit(x, shown, selected)
         IN  /\ Begins(x, x.req, Begin(x), E) /\ Outcome(Begin(x), y, E)
             /\ x.stopped # NoError => ~Has(y, "busy")
  <1> DEFINE r == Raise(x, {"busy", "request_claimed", "deadline"})
             d == Drop(r, {"expired"})
             z == Begin(x)
             w == Dispatch(z, shown, selected)
             c1 == z.req.call.expiry = "invalid"
             c2 == z.req.call.expiry = "past"
             checks == << <<c1, "invalid_request_deadline">>, <<c2, "request_expired">> >>
  <1>1. Shape(r) /\ SameFields(x, r) /\ r.on = x.on \cup {"busy", "request_claimed", "deadline"}
    BY DEF Raise, Silent, Shape, Field, SameFields
  <1> HIDE DEF r
  <1>2. Shape(d) /\ SameFields(x, d) /\ d.on = r.on \ {"expired"}
    BY <1>1 DEF Drop, Shape, Field, SameFields
  <1>3. z = [d EXCEPT !.deferred = NoError, !.command = x.req.call.command]
    BY DEF Begin, r
  <1> HIDE DEF d, z
  <1>4. /\ Shape(z) /\ z.on = d.on /\ z.id = x.id /\ z.req = x.req /\ z.deferred = NoError
        /\ z.document = x.document /\ z.stopped = x.stopped /\ z.baseline = x.baseline
        /\ z.prompt = x.prompt /\ z.post = x.post /\ z.sent = x.sent /\ z.closed = x.closed
    BY <1>2, <1>3 DEF Shape, Field, SameFields
  <1>5. /\ \A f : f \notin {"busy", "request_claimed", "deadline", "expired"}
                    => (Has(z, f) <=> Has(x, f))
        /\ Has(z, "busy") /\ Has(z, "request_claimed")
    BY <1>1, <1>2, <1>4 DEF Has
  <1>6. Silent(z, E) /\ Begun(z, E) /\ Ready(z, E)
    BY <1>4, <1>5 DEF Silent, Begun, Ready
  <1>7. Begins(x, x.req, z, E)
    BY <1>4, <1>5, <1>6 DEF Begins, StopKept, BaselineKept
  <1>8. Outcome(z, w, E) /\ (x.stopped # NoError => ~Has(w, "busy"))
    BY <1>4, <1>6, DispatchOutcome, DispatchStopped
  <1>9. /\ c1 \in BOOLEAN /\ c2 \in BOOLEAN
        /\ "invalid_request_deadline" \in E /\ "request_expired" \in E
    BY DEF Ordinary, ErrorCode
  <1>10. Admit(x, shown, selected) = Checked(z, checks, w)
    BY DEF Admit, z
  <1>11. /\ DOMAIN checks = 1..2 /\ checks[1] = <<c1, "invalid_request_deadline">>
         /\ checks[2] = <<c2, "request_expired">>
    OBVIOUS
  <1>12. /\ checks[1][1] = c1 /\ checks[1][2] = "invalid_request_deadline"
         /\ checks[2][1] = c2 /\ checks[2][2] = "request_expired"
    BY <1>11
  <1> HIDE DEF c1, c2, w
  <1>13. Outcome(z, Checked(z, checks, w), E)
    BY <1>6, <1>8, <1>9, CheckedOutcome2
  <1>14. ASSUME x.stopped # NoError
         PROVE  ~Has(Checked(z, checks, w), "busy")
    <2>1. CASE ~c1 /\ ~c2
      <3>1. {i \in DOMAIN checks : checks[i][1]} = {}
        <4> SUFFICES ASSUME NEW i \in 1..2, checks[i][1]
                     PROVE  FALSE
          BY <1>11
        <4> QED
          BY <1>12, <2>1
      <3>2. Checked(z, checks, w) = w
        BY <3>1 DEF Checked
      <3> QED
        BY <1>8, <1>14, <3>2
    <2>2. CASE c1 \/ c2
      <3>1. 1 \in 1..2 /\ 2 \in 1..2 /\ 2 \in 1..4 /\ (checks[1][1] \/ checks[2][1])
        BY <1>12, <2>2
      <3>2. \E i \in 1..2 : Checked(z, checks, w) = Error(z, checks[i][2])
        <4>0. DOMAIN checks = 1..2 /\ 1 \in 1..2 /\ 2 \in 1..2 /\ 2 \in 1..4
          BY <1>11
        <4> HIDE DEF checks
        <4>1. CASE checks[1][1]
          BY <4>0, <4>1, CheckedFails
        <4>2. CASE checks[2][1]
          BY <4>0, <4>2, CheckedFails
        <4> QED
          BY <3>1, <4>1, <4>2
      <3>3. \A e \in E : ~Has(Error(z, e), "busy")
        BY <1>6, ErrorOutcome DEF Begun
      <3>4. \A i \in 1..2 : checks[i][2] \in E
        BY <1>9, <1>12
      <3> QED
        BY <3>2, <3>3, <3>4
    <2> QED
      BY <2>1, <2>2
  <1> HIDE DEF checks
  <1> QED
    BY <1>7, <1>10, <1>13, <1>14 DEF z

(* No request is in hand after the handler: it posts stops, and at most one *)
(* archived answer or one answer that claims no receipt.                    *)
Rests(x, y, E) ==
  /\ ~Has(y, "busy") /\ ~Has(y, "renderer_pending") /\ ~Has(y, "reading")
  /\ Has(x, "quarantined") => Has(y, "quarantined")
  /\ y.sent = {} /\ y.closed = {} /\ y.prompt = Nil
  /\ StopKept(x, y, E) /\ BaselineKept(x, y)

Rewrites(y, a, E) ==
  /\ ~Has(y, "writing_response")
  /\ \E p \in Seq(HandlerTask) : StopsOnly(p, E) /\ y.post = Append(p, [op |-> "rewrite", answer |-> a])

Disowns(y, id, E) ==
  /\ Has(y, "writing_response")
  /\ \E p \in Seq(HandlerTask) : \E a :
       /\ StopsOnly(p, E) /\ y.post = Append(p, [op |-> "respond", answer |-> a])
       /\ a.id = id /\ ~a.persisted

(* A request somebody claimed before. *)
LEMMA RefuseOutcome ==
  ASSUME NEW E, Ordinary \subseteq E, NoError \notin E, NEW x, Silent(x, E), ~Has(x, "busy"),
         ~Has(x, "renderer_pending"), ~Has(x, "writing_response"), ~Has(x, "reading"),
         ~Has(x, "navigating"), ~Has(x, "waiting"), x.prompt = Nil,
         NEW cached
  PROVE  LET y == Refuse(x, cached)
         IN  /\ Rests(x, y, E)
             /\ cached = Nil => Disowns(y, x.id, E)
             /\ cached # Nil => Rewrites(y, cached, E)
  <1> DEFINE d == Drop(x, {"request_claimed"})
             q == Raise(d, {"quarantined"})
             z == Raise(d, {"busy", "quarantined"})
             t == [op |-> "rewrite", answer |-> cached]
             v == IF cached.settled THEN d ELSE q
             w == Post(v, t)
  <1>1. Shape(d) /\ SameFields(x, d) /\ d.on = x.on \ {"request_claimed"}
    BY DEF Drop, Silent, Shape, Field, SameFields
  <1>2. CASE cached = Nil
    <2> DEFINE y == Error(z, "request_outcome_unknown")
    <2>1. Refuse(x, cached) = y
      BY <1>2 DEF Refuse
    <2> HIDE DEF d
    <2>2. Shape(z) /\ SameFields(x, z) /\ z.on = d.on \cup {"busy", "quarantined"}
      BY <1>1 DEF Raise, Shape, Field, SameFields
    <2> HIDE DEF z
    <2>3. /\ \A f : f \notin {"request_claimed", "busy", "quarantined"}
                      => (Has(z, f) <=> Has(x, f))
          /\ Has(z, "busy") /\ Has(z, "quarantined") /\ ~Has(z, "request_claimed")
      BY <1>1, <2>2 DEF Has
    <2>4. Ready(z, E) /\ z.prompt = Nil
      BY <2>2, <2>3 DEF Ready, Silent, SameFields
    <2>5. "request_outcome_unknown" \in E /\ Silent(z, E)
      BY <2>4 DEF Ordinary, ErrorCode, Ready
    <2>6. /\ Outcome(z, y, E) /\ ~Has(y, "busy") /\ y.closed = {} /\ y.sent = {}
      BY <2>3, <2>4, <2>5, ErrorOutcome
    <2> HIDE DEF y
    <2>7. SameRequest(z, y) /\ StopKept(z, y, E) /\ Answers(z, y, E)
      BY <2>4, <2>6 DEF Outcome, Going, Sends, Ready
    <2>8. PICK p \in Seq(HandlerTask) : \E a :
            /\ y.post = Append(p, [op |-> "respond", answer |-> a])
            /\ StopsOnly(p, E) /\ IsAnswer(z, y, a, E)
      BY <2>7 DEF Answers
    <2>9. PICK a : /\ y.post = Append(p, [op |-> "respond", answer |-> a])
                   /\ StopsOnly(p, E) /\ IsAnswer(z, y, a, E)
      BY <2>8
    <2>10. Disowns(y, x.id, E)
      BY <2>2, <2>3, <2>7, <2>9 DEF Disowns, IsAnswer, Answers, SameFields
    <2>11. BaselineKept(x, y)
      <3>2. z.baseline = x.baseline /\ z.document = x.document
        BY <2>2 DEF SameFields
      <3>3. (y.baseline = z.baseline /\ y.document = z.document) \/ y.baseline = Nil
        <4>1. BaselineKept(z, Error(z, "request_outcome_unknown"))
          BY <2>5, ErrorBaseline
        <4> QED
          BY <4>1 DEF y, BaselineKept
      <3> QED
        BY <3>2, <3>3 DEF BaselineKept
    <2>12. Rests(x, y, E)
      BY <2>2, <2>3, <2>6, <2>7, <2>11 DEF Rests, Answers, SameRequest, StopKept, SameFields
    <2> QED
      BY <1>2, <2>1, <2>10, <2>12
  <1>3. CASE cached # Nil
    <2>1. Refuse(x, cached) = w
      BY <1>3 DEF Refuse
    <2> HIDE DEF d
    <2>2. Shape(q) /\ SameFields(x, q) /\ q.on = d.on \cup {"quarantined"}
      BY <1>1 DEF Raise, Shape, Field, SameFields
    <2> HIDE DEF q
    <2>3. Shape(v) /\ SameFields(x, v) /\ v.on \in {d.on, d.on \cup {"quarantined"}}
      BY <1>1, <2>2
    <2> HIDE DEF v, t
    <2>4. /\ w.post = Append(v.post, t) /\ w.on = v.on /\ w.id = v.id /\ w.req = v.req
          /\ w.sent = v.sent /\ w.closed = v.closed /\ w.stopped = v.stopped
          /\ w.deferred = v.deferred /\ w.prompt = v.prompt /\ w.document = v.document
          /\ w.baseline = v.baseline
      BY <2>3 DEF Post, Shape, Field
    <2> HIDE DEF w
    <2>5. /\ \A f : f \notin {"request_claimed", "quarantined"} => (Has(w, f) <=> Has(x, f))
          /\ Has(x, "quarantined") => Has(w, "quarantined")
      BY <1>1, <2>3, <2>4 DEF Has
    <2>6. Rests(x, w, E)
      BY <2>3, <2>4, <2>5 DEF Rests, SameFields, Silent, StopKept, BaselineKept
    <2>7. Rewrites(w, cached, E)
      BY <2>3, <2>4, <2>5 DEF Rewrites, SameFields, Silent, t
    <2> QED
      BY <1>3, <2>1, <2>6, <2>7
  <1> QED
    BY <1>2, <1>3

-----------------------------------------------------------------------------
(* Handlers, each from the members it finds. *)

(* When a handler is called, nothing has been posted, sent or closed yet. *)
LEMMA FullSilent ==
  ASSUME NEW E, NEW x, Full(x), Clean(x)
  PROVE  Silent(x, E) /\ Shape(x)
  <1>1. x \in Members
    BY DEF Full, Base
  <1>2. Shape(x)
    BY <1>1 DEF Members, Shape, Field
  <1>3. x.post = <<>> /\ x.sent = {} /\ x.closed = {}
    BY DEF Clean
  <1>4. x.post \in Seq(HandlerTask) /\ StopsOnly(x.post, E)
    BY <1>3, EmptySeq DEF StopsOnly
  <1>5. x.prompt # Nil => ~Has(x, "renderer_pending") /\ ~Has(x, "navigating")
    BY DEF Full
  <1> QED
    BY <1>2, <1>3, <1>4, <1>5 DEF Silent

(* One request read from the mailbox, or none. *)
LEMMA ReceivedOutcome ==
  ASSUME NEW E, Ordinary \subseteq E, NoError \notin E, NEW x, Full(x), Clean(x),
         Has(x, "reading"), NEW r, r.stop \in StopReasons \cup {Unreadable, NoError},
         r.stop = NoError \/ r.stop \in E, r.data # Nil => r.data.id \in Ids,
         NEW shown \in BOOLEAN, shown \/ "user_cancelled" \in E, NEW selected \in BOOLEAN
  PROVE  LET y == Received(x, r, shown, selected)
         IN  /\ r.data = Nil => /\ Rests(x, y, E) /\ ~Has(y, "writing_response")
                                /\ StopsOnly(y.post, E) /\ y.post \in Seq(HandlerTask)
             /\ r.data # Nil /\ r.fresh =>
                  \E z : /\ Begins(x, r.data, z, E) /\ Outcome(z, y, E)
                         /\ x.stopped # NoError \/ r.stop # NoError => ~Has(y, "busy")
             /\ r.data # Nil /\ ~r.fresh =>
                  /\ Rests(x, y, E)
                  /\ r.cached = Nil => Disowns(y, r.data.id, E)
                  /\ r.cached # Nil => Rewrites(y, r.cached, E)
             /\ r.stop # NoError => y.stopped # NoError
  <1> DEFINE d == Drop(x, {"reading"})
             s == IF r.stop = NoError THEN d ELSE StopSession(d, r.stop)
             y == [s EXCEPT !.req = r.data, !.id = r.data.id]
  <1>1. /\ Silent(x, E) /\ Shape(x) /\ ~Has(x, "busy") /\ ~Has(x, "writing_response")
        /\ ~Has(x, "renderer_pending") /\ ~Has(x, "navigating") /\ ~Has(x, "waiting")
        /\ ~Has(x, "preflight") /\ x.prompt = Nil
    BY FullSilent DEF Full, Base
  <1>2. Shape(d) /\ SameFields(x, d) /\ d.on = x.on \ {"reading"}
    BY <1>1 DEF Drop, Shape, Field, SameFields
  <1> HIDE DEF d
  <1>3. Silent(d, E)
    BY <1>1, <1>2 DEF Silent, SameFields, Has
  <1>4. /\ Silent(s, E) /\ s.on \in {d.on, d.on \ {"attached"}} /\ StopKept(x, s, E)
        /\ BaselineKept(x, s) /\ s.prompt = Nil /\ s.document = x.document
        /\ x.stopped # NoError \/ r.stop # NoError => s.stopped # NoError
    <2>1. CASE r.stop = NoError
      BY <1>1, <1>2, <1>3, <2>1 DEF StopKept, BaselineKept, SameFields
    <2>2. CASE r.stop # NoError
      <3>1. r.stop \in E /\ r.stop \in StopReasons \cup {Unreadable} /\ s = StopSession(d, r.stop)
        BY <2>2
      <3> HIDE DEF s
      <3>2. /\ Going(d, s, E) /\ SameRequest(d, s) /\ StopKept(d, s, E)
            /\ s.on \in {d.on, d.on \ {"attached"}}
            /\ s.prompt = d.prompt /\ s.document = d.document /\ s.stopped # NoError
        BY <1>3, <3>1, StopGoing
      <3> QED
        BY <1>1, <1>2, <3>2 DEF Going, StopKept, BaselineKept, SameFields
    <2> QED
      BY <2>1, <2>2
  <1>5. Received(x, r, shown, selected)
          = IF r.data = Nil THEN s
            ELSE IF r.fresh THEN Admit(y, shown, selected) ELSE Refuse(y, r.cached)
    BY DEF Received, d
  <1> HIDE DEF s
  <1>6. /\ \A f \in {"busy", "writing_response", "renderer_pending", "navigating", "waiting",
                     "preflight", "reading"} : ~Has(s, f)
        /\ Has(s, "quarantined") <=> Has(x, "quarantined")
    BY <1>1, <1>2, <1>4 DEF Has
  <1>7. CASE r.data = Nil
    <2>1. Rests(x, s, E)
      BY <1>4, <1>6 DEF Rests, Silent
    <2> QED
      BY <1>4, <1>5, <1>6, <1>7, <2>1 DEF Silent
  <1>8. CASE r.data # Nil
    <2>1. /\ Shape(y) /\ y.on = s.on /\ y.req = r.data /\ y.id = r.data.id
          /\ y.post = s.post /\ y.sent = s.sent /\ y.closed = s.closed /\ y.prompt = s.prompt
          /\ y.stopped = s.stopped /\ y.baseline = s.baseline /\ y.document = s.document
      BY <1>4 DEF Silent, Shape, Field
    <2> HIDE DEF y
    <2>2. /\ Silent(y, E) /\ y.prompt = Nil /\ y.req.id = y.id
          /\ \A f \in {"busy", "writing_response", "renderer_pending", "navigating", "waiting",
                       "preflight", "reading"} : ~Has(y, f)
          /\ Has(y, "quarantined") <=> Has(x, "quarantined")
          /\ StopKept(x, y, E) /\ BaselineKept(x, y)
      <3>1. \A f : Has(y, f) <=> Has(s, f)
        BY <2>1 DEF Has
      <3> QED
        BY <1>4, <1>6, <2>1, <3>1 DEF Silent, StopKept, BaselineKept
    <2>3. CASE r.fresh
      <3> DEFINE w == Admit(y, shown, selected)
                 z == Begin(y)
      <3>1. /\ Begins(y, y.req, z, E) /\ Outcome(z, w, E)
            /\ y.stopped # NoError => ~Has(w, "busy")
        BY <2>2, AdmitOutcome
      <3> HIDE DEF w, z
      <3>2. Begins(x, r.data, z, E)
        BY <2>1, <2>2, <3>1 DEF Begins, StopKept, BaselineKept
      <3>3. Received(x, r, shown, selected) = w
        BY <1>5, <1>8, <2>3 DEF w
      <3>4. y.stopped # NoError => w.stopped # NoError
        BY <3>1 DEF Begins, Outcome, StopKept
      <3> QED
        BY <1>4, <1>8, <2>1, <2>3, <3>1, <3>2, <3>3, <3>4
    <2>4. CASE ~r.fresh
      <3> DEFINE w == Refuse(y, r.cached)
      <3>1. /\ Rests(y, w, E)
            /\ r.cached = Nil => Disowns(w, r.data.id, E)
            /\ r.cached # Nil => Rewrites(w, r.cached, E)
        BY <2>1, <2>2, RefuseOutcome
      <3> HIDE DEF w
      <3>2. Rests(x, w, E)
        BY <2>2, <3>1 DEF Rests, StopKept, BaselineKept
      <3>3. Received(x, r, shown, selected) = w
        BY <1>5, <1>8, <2>4 DEF w
      <3>4. y.stopped # NoError => w.stopped # NoError
        BY <3>1 DEF Rests, StopKept
      <3> QED
        BY <1>4, <1>8, <2>1, <2>4, <3>1, <3>2, <3>3, <3>4
    <2> QED
      BY <2>3, <2>4
  <1> QED
    BY <1>7, <1>8

(* The answer a handler has just posted. *)
Said(y, a) == \E p \in Seq(HandlerTask) : y.post = Append(p, [op |-> "respond", answer |-> a])

(* A handler answers once. *)
LEMMA SaidOnce ==
  ASSUME NEW y, NEW a, NEW c, Said(y, a), Said(y, c)
  PROVE  a = c
  <1>1. PICK p \in Seq(HandlerTask) : y.post = Append(p, [op |-> "respond", answer |-> a])
    BY DEF Said
  <1>2. PICK q \in Seq(HandlerTask) : y.post = Append(q, [op |-> "respond", answer |-> c])
    BY DEF Said
  <1> DEFINE s == [op |-> "respond", answer |-> a]
             t == [op |-> "respond", answer |-> c]
  <1>3. s.answer = a /\ t.answer = c
    OBVIOUS
  <1>4. Append(p, s) = Append(q, t)
    BY <1>1, <1>2
  <1> HIDE DEF s, t
  <1>5. /\ Len(Append(p, s)) = Len(p) + 1 /\ Append(p, s)[Len(p) + 1] = s
        /\ Len(Append(q, t)) = Len(q) + 1 /\ Append(q, t)[Len(q) + 1] = t
        /\ Len(p) \in Nat /\ Len(q) \in Nat
    <2> DEFINE S == HandlerTask \cup {s, t}
    <2>1. p \in Seq(S) /\ q \in Seq(S)
      BY SeqMonotonic
    <2>2. s \in S /\ t \in S
      OBVIOUS
    <2> HIDE DEF S
    <2> QED
      BY <2>1, <2>2, AppendProperties, LenProperties
  <1>6. s = t
    BY <1>4, <1>5
  <1> QED
    BY <1>3, <1>6

(* What the answer of Finish says. *)
LEMMA FinishSays ==
  ASSUME NEW E, NEW x, Silent(x, E), NEW e, NEW doc, NEW partial, NEW a,
         Said(Finish(x, e, doc, partial), a)
  PROVE  a.error = e /\ a.partial = partial
  <1> DEFINE y == Finish(x, e, doc, partial)
             c == Response(x, e, doc, partial)
  <1>1. y.post = Append(x.post, [op |-> "respond", answer |-> c])
    BY FinishFields
  <1>2. c.error = e /\ c.partial = partial
    BY DEF Response
  <1> HIDE DEF y, c
  <1>3. Said(y, c)
    BY <1>1 DEF Said, Silent
  <1>4. Said(y, a)
    BY DEF y
  <1> QED
    BY <1>2, <1>3, <1>4, SaidOnce

(* The members once the result of the current script is in. *)
Settled(x, z, kind) ==
  /\ z.id = x.id /\ z.req = x.req /\ z.deferred = x.deferred /\ z.stopped = x.stopped
  /\ z.prompt = x.prompt /\ z.document = x.document /\ z.baseline = x.baseline
  /\ z.command = x.command
  /\ ~Has(z, "renderer_pending")
  /\ \A f \in Flag \ {"renderer_pending", "quarantined"} : Has(z, f) <=> Has(x, f)
  /\ Has(z, "quarantined") <=> (Has(x, "quarantined") \/ kind = "none")

(* Taking in a result leaves the request ready for its outcome. *)
LEMMA SettleReady ==
  ASSUME NEW E, NEW x, Silent(x, E), Has(x, "busy"), NEW result
  PROVE  Ready(Settle(x, result), E) /\ Settled(x, Settle(x, result), result.kind)
  <1> DEFINE d == Drop(x, {"renderer_pending"})
             q == Raise(d, {"quarantined"})
             z == Settle(x, result)
  <1>1. Shape(d) /\ SameFields(x, d) /\ d.on = x.on \ {"renderer_pending"}
    BY DEF Drop, Silent, Shape, Field, SameFields
  <1> HIDE DEF d
  <1>2. Shape(q) /\ SameFields(x, q) /\ q.on = d.on \cup {"quarantined"}
    BY <1>1 DEF Raise, Shape, Field, SameFields
  <1> HIDE DEF q
  <1>3. z = IF result.kind = "none" THEN q ELSE d
    BY DEF Settle, q, d
  <1> HIDE DEF z
  <1>4. Shape(z) /\ SameFields(x, z)
    BY <1>1, <1>2, <1>3
  <1>5. /\ \A f : f \notin {"renderer_pending", "quarantined"} => (Has(z, f) <=> Has(x, f))
        /\ ~Has(z, "renderer_pending")
        /\ Has(z, "quarantined") <=> (Has(x, "quarantined") \/ result.kind = "none")
    BY <1>1, <1>2, <1>3 DEF Has
  <1>6. Settled(x, z, result.kind)
    BY <1>4, <1>5 DEF Settled, SameFields
  <1>7. Ready(z, E)
    BY <1>4, <1>5 DEF Ready, Silent, SameFields
  <1> QED
    BY <1>6, <1>7 DEF z

(* A snapshot, which becomes the baseline under the id of its request. *)
LEMMA SnapshotOutcome ==
  ASSUME NEW E, NoError \notin E, NEW x, Ready(x, E), NEW result
  PROVE  LET y == Snapshot(x, result)
         IN  /\ Outcome(x, y, E)
             /\ Has(y, "busy") => Has(x, "waiting")
             /\ ~Has(x, "waiting") => \A a : Said(y, a) => a.error = NoError
  <1> DEFINE b1 == IF result.truncated THEN Nil
                   ELSE [by |-> x.id, content |-> result.content]
             s == [x EXCEPT !.baseline = b1]
             partial == FALSE
             doc == x.document
             y == Finish(s, NoError, doc, partial)
             a == Response(s, NoError, doc, partial)
  <1>1. Silent(x, E) /\ Shape(x) /\ Has(x, "busy") /\ ~Has(x, "renderer_pending")
    BY DEF Ready, Silent
  <1>2. Snapshot(x, result) \in {x, WakeWait(x), y}
        /\ (~Has(x, "waiting") => Snapshot(x, result) = y)
    BY DEF Snapshot
  <1>3. Outcome(x, x, E) /\ Outcome(x, WakeWait(x), E)
    BY <1>1, SilentGoing, WakeWaitOutcome
  <1>4. b1 = Nil \/ b1.by = x.id
    OBVIOUS
  <1> HIDE DEF b1
  <1>5. /\ Shape(s) /\ s.on = x.on /\ s.id = x.id /\ s.req = x.req /\ s.deferred = x.deferred
        /\ s.document = x.document /\ s.stopped = x.stopped /\ s.baseline = b1
        /\ s.prompt = x.prompt /\ s.post = x.post /\ s.sent = x.sent /\ s.closed = x.closed
    BY <1>1 DEF Shape, Field
  <1> HIDE DEF s
  <1>6. Silent(s, E) /\ \A f : Has(s, f) <=> Has(x, f)
    BY <1>1, <1>5 DEF Silent, Has
  <1> HIDE DEF partial, doc
  <1>7. /\ Shape(y)
        /\ y.on = (s.on \ {"busy", "preflight", "waiting", "wait_limit_armed",
                           "wait_wakeup", "navigating", "deadline"})
                  \cup {"writing_response"}
        /\ y.id = s.id /\ y.req = s.req
        /\ y.document = s.document /\ y.stopped = s.stopped
        /\ y.baseline = s.baseline /\ y.prompt = Nil /\ y.sent = {}
        /\ y.post = Append(s.post, [op |-> "respond", answer |-> a])
        /\ \A d \in y.closed : d # Nil /\ d = s.prompt
    BY <1>6, FinishFields
  <1>8. /\ a.id = x.id /\ a.error = NoError /\ (a.settled <=> ~Has(x, "quarantined"))
        /\ (a.persisted <=> Has(x, "request_claimed")) /\ a.doc = x.document
    BY <1>5, <1>6 DEF Response, doc
  <1>9. \A c : Said(y, c) => c.error = NoError
    BY <1>6, FinishSays
  <1> HIDE DEF y, a
  <1>10. /\ ~Has(y, "busy") /\ Has(y, "writing_response") /\ ~Has(y, "renderer_pending")
         /\ Has(y, "request_claimed") <=> Has(x, "request_claimed")
         /\ Has(y, "quarantined") <=> Has(x, "quarantined")
         /\ Has(y, "reading") <=> Has(x, "reading")
    BY <1>1, <1>5, <1>7 DEF Has
  <1>11. IsAnswer(x, y, a, E)
    BY <1>4, <1>5, <1>7, <1>8 DEF IsAnswer, BaselineKept
  <1>12. Answers(x, y, E)
    BY <1>1, <1>5, <1>7, <1>10, <1>11 DEF Answers, Silent
  <1>13. Outcome(x, y, E)
    BY <1>5, <1>7, <1>10, <1>12 DEF Outcome, SameRequest, StopKept
  <1>14. Has(Snapshot(x, result), "busy") => Has(x, "waiting")
    BY <1>2, <1>10
  <1> QED
    BY <1>2, <1>3, <1>9, <1>13, <1>14

(* Permission is read again when the page still offers the target. *)
LEMMA PreflightedOutcome ==
  ASSUME NEW E, Ordinary \subseteq E, NoError \notin E, NEW x, Ready(x, E), x.deferred = NoError,
         x.prompt = Nil, ~Has(x, "navigating"), NEW shown \in BOOLEAN, shown \/ "user_cancelled" \in E
  PROVE  Outcome(x, Preflighted(x, shown), E)
  <1> DEFINE y == Drop(x, {"preflight"})
             c1 == Has(x, "expired")
             c2 == ~Eligible(x.tab) \/ active # x.tab
             c3 == RequestRule(y) = "deny"
             w == IF RequestRule(y) = "allow"
                  THEN Answered(y, y.id, y.document, TRUE) ELSE Ask(y, shown)
             v == Checked(y, << <<c3, "permission_denied">> >>, w)
  <1>1. Silent(x, E) /\ Shape(x) /\ Has(x, "busy") /\ ~Has(x, "renderer_pending")
    BY DEF Ready, Silent
  <1>2. Shape(y) /\ SameFields(x, y) /\ y.on = x.on \ {"preflight"}
    BY <1>1 DEF Drop, Shape, Field, SameFields
  <1>3. Preflighted(x, shown)
          = Checked(x, << <<c1, "request_expired">>, <<c2, "tab_changed">> >>, v)
    BY DEF Preflighted
  <1>4. /\ c1 \in BOOLEAN /\ c2 \in BOOLEAN /\ c3 \in BOOLEAN
        /\ "request_expired" \in E /\ "tab_changed" \in E /\ "permission_denied" \in E
    BY DEF Ordinary, ErrorCode, Has
  <1> DEFINE allowed == RequestRule(y) = "allow"
  <1>5. w = IF allowed THEN Answered(y, y.id, y.document, TRUE) ELSE Ask(y, shown)
    OBVIOUS
  <1> HIDE DEF y, c1, c2, c3, w, allowed
  <1>6. \A f : f # "preflight" => (Has(y, f) <=> Has(x, f))
    BY <1>2 DEF Has
  <1>7. BaselineKept(x, y) /\ WaitKept(x, y)
    BY <1>2, <1>6 DEF BaselineKept, WaitKept, SameFields
  <1>8. Going(x, y, E) /\ SameRequest(x, y) /\ StopKept(x, y, E)
    BY <1>1, <1>2, <1>6, <1>7, Prepared DEF SameFields
  <1>9. /\ Silent(y, E) /\ Ready(y, E) /\ y.deferred = NoError /\ y.prompt = Nil
        /\ ~Has(y, "navigating")
    BY <1>1, <1>2, <1>6, <1>8 DEF Going, Ready, SameFields
  <1>10. Outcome(y, w, E)
    <2>1. CASE allowed
      BY <1>5, <1>9, <2>1, AnsweredOutcome DEF Ready
    <2>2. CASE ~allowed
      BY <1>5, <1>9, <2>2, AskOutcome
    <2> QED
      BY <2>1, <2>2
  <1>11. Outcome(y, v, E)
    BY <1>4, <1>9, <1>10, CheckedOutcome1
  <1>12. Outcome(x, v, E)
    BY <1>8, <1>11, Chain
  <1> HIDE DEF v
  <1> QED
    BY <1>1, <1>3, <1>4, <1>12, CheckedOutcome2

(* Two checks: what the handler goes on to, or the error of the first that fails. *)
LEMMA CheckedTwice ==
  ASSUME NEW x, NEW y, NEW c1 \in BOOLEAN, NEW e1, NEW c2 \in BOOLEAN, NEW e2
  PROVE  Checked(x, << <<c1, e1>>, <<c2, e2>> >>, y)
           = IF c1 THEN Error(x, e1) ELSE IF c2 THEN Error(x, e2) ELSE y
  <1> DEFINE checks == << <<c1, e1>>, <<c2, e2>> >>
             failed == {i \in DOMAIN checks : checks[i][1]}
             first == CHOOSE i \in failed : \A j \in failed : i <= j
  <1>1. /\ DOMAIN checks = 1..2 /\ checks[1] = <<c1, e1>> /\ checks[2] = <<c2, e2>>
    OBVIOUS
  <1>2. /\ checks[1][1] = c1 /\ checks[1][2] = e1 /\ checks[2][1] = c2 /\ checks[2][2] = e2
    BY <1>1
  <1> HIDE DEF checks
  <1>3. failed = {i \in 1..2 : IF i = 1 THEN c1 ELSE c2}
    BY <1>1, <1>2
  <1>4. Checked(x, checks, y) = IF failed = {} THEN y ELSE Error(x, checks[first][2])
    BY DEF Checked
  <1> HIDE DEF failed
  <1>5. CASE c1
    <2>1. 1 \in failed /\ \A j \in failed : 1 <= j
      BY <1>3, <1>5
    <2>2. first \in failed /\ \A j \in failed : first <= j
      BY <2>1
    <2>3. first = 1
      BY <1>3, <2>1, <2>2
    <2> HIDE DEF first
    <2> QED
      BY <1>2, <1>4, <1>5, <2>1, <2>3 DEF checks
  <1>6. CASE ~c1 /\ c2
    <2>1. failed = {2}
      BY <1>3, <1>6
    <2>2. first = 2
      BY <2>1
    <2> HIDE DEF first
    <2> QED
      BY <1>2, <1>4, <1>6, <2>1, <2>2 DEF checks
  <1>7. CASE ~c1 /\ ~c2
    <2>1. failed = {}
      BY <1>3, <1>7
    <2> QED
      BY <1>4, <1>7, <2>1 DEF checks
  <1> QED
    BY <1>5, <1>6, <1>7

(* One check. *)
LEMMA CheckedOnce ==
  ASSUME NEW x, NEW y, NEW c \in BOOLEAN, NEW e
  PROVE  Checked(x, << <<c, e>> >>, y) = IF c THEN Error(x, e) ELSE y
  <1> DEFINE checks == << <<c, e>> >>
  <1>1. DOMAIN checks = 1..1 /\ checks[1] = <<c, e>>
    OBVIOUS
  <1>2. checks[1][1] = c /\ checks[1][2] = e
    BY <1>1
  <1>3. 1 \in 1..1 /\ 1 \in 1..4 /\ \A i \in 1..1 : i = 1
    OBVIOUS
  <1> HIDE DEF checks
  <1>4. CASE c
    <2>0. checks[1][1] /\ DOMAIN checks = 1..1
      BY <1>1, <1>2, <1>4
    <2>1. \E i \in 1..1 : Checked(x, checks, y) = Error(x, checks[i][2])
      BY <1>3, <2>0, CheckedFails
    <2> QED
      BY <1>2, <1>3, <1>4, <2>1 DEF checks
  <1>5. CASE ~c
    <2>1. {i \in DOMAIN checks : checks[i][1]} = {}
      BY <1>1, <1>2, <1>3, <1>5
    <2>2. Checked(x, checks, y) = y
      BY <2>1 DEF Checked
    <2> QED
      BY <1>5, <2>2 DEF checks
  <1> QED
    BY <1>4, <1>5

(* The answer it gives does not deny what the script may have done. *)
Truthful(y) == \A a : Said(y, a) => a.error = NoError \/ a.partial

(* The result of the current script. *)
LEMMA ObservedOutcome ==
  ASSUME NEW E, Ordinary \subseteq E, NoError \notin E, NEW x, Full(x), Clean(x),
         Has(x, "busy"), Has(x, "renderer_pending"), x.deferred = NoError \/ x.deferred \in E,
         NEW doc, NEW result,
         result.kind \in {"none", "error", "text", "preflight", "nodes", "partial"},
         NEW shown \in BOOLEAN, shown \/ "user_cancelled" \in E
  PROVE  LET y == Observed(x, x.id, doc, result, shown)
             z == Settle(x, result)
         IN  /\ Ready(z, E) /\ Settled(x, z, result.kind) /\ Outcome(z, y, E)
             /\ result.kind = "none" => ~Has(y, "busy")
             /\ Has(y, "busy") => Has(x, "preflight") \/ Has(x, "waiting")
             /\ /\ result.kind \in {"nodes", "partial"} /\ ~Has(x, "preflight") /\ ~Has(x, "waiting")
                /\ x.deferred # NoError \/ doc = x.document
                => Truthful(y)
  <1> DEFINE z == Settle(x, result)
             y == Observed(x, x.id, doc, result, shown)
             kind == result.kind
             c1 == doc # z.document
             c2 == kind = "none"
             c3 == kind # "preflight"
             partial == kind = "partial"
             always == TRUE
             failed == Finish(z, "renderer_error", 0, partial)
             told == Finish(z, z.deferred, 0, always)
             fits == Checked(z, << <<c3, "invalid_preflight">> >>, Preflighted(z, shown))
             w == CASE kind \in {"error", "partial"} -> failed
                    [] kind \notin {"error", "partial"} /\ Has(z, "preflight") -> fits
                    [] kind = "text" /\ ~Has(z, "preflight")  -> Succeed(z)
                    [] kind = "nodes" /\ ~Has(z, "preflight") -> Snapshot(z, result)
                    [] OTHER -> Error(z, "invalid_observation")
  <1>1. Silent(x, E) /\ x.prompt = Nil /\ ~Has(x, "navigating")
    BY FullSilent DEF Full, Base
  <1>2. Ready(z, E) /\ Settled(x, z, kind)
    BY <1>1, SettleReady
  <1>3. y = IF z.deferred # NoError THEN told
            ELSE Checked(z, << <<c1, "stale_document">>, <<c2, "renderer_unavailable">> >>, w)
    BY DEF Observed, Interrupted
  <1> HIDE DEF z, y
  <1>4. /\ Silent(z, E) /\ Has(z, "busy") /\ ~Has(z, "renderer_pending") /\ z.prompt = Nil
        /\ ~Has(z, "navigating") /\ z.deferred = x.deferred /\ z.document = x.document
        /\ Has(z, "preflight") <=> Has(x, "preflight")
        /\ Has(z, "waiting") <=> Has(x, "waiting")
    BY <1>1, <1>2 DEF Ready, Settled, Flag
  <1>5. /\ c1 \in BOOLEAN /\ c2 \in BOOLEAN /\ c3 \in BOOLEAN
        /\ {"stale_document", "renderer_unavailable", "renderer_error", "invalid_preflight",
            "invalid_observation"} \subseteq E
        /\ c1 <=> doc # x.document
        /\ c2 <=> kind = "none"
    BY <1>4 DEF Ordinary, ErrorCode
  <1>6. \A e \in E : Outcome(z, Error(z, e), E) /\ ~Has(Error(z, e), "busy")
    BY <1>2, <1>4, ErrorOutcome
  <1>7. CASE x.deferred # NoError
    <2>1. y = told
      BY <1>3, <1>4, <1>7
    <2>2. z.deferred \in {NoError, z.deferred} \cup E
      OBVIOUS
    <2> HIDE DEF always
    <2>3. Outcome(z, told, E) /\ ~Has(told, "busy")
      BY <1>2, <2>2, FinishAnswers
    <2>4. \A a : Said(told, a) => a.partial
      <3>1. \A a : Said(told, a) => a.partial = always
        BY <1>4, FinishSays
      <3> QED
        BY <3>1 DEF always
    <2> HIDE DEF told
    <2> QED
      BY <1>2, <2>1, <2>3, <2>4 DEF y, z, Truthful
  <1>8. CASE x.deferred = NoError
    <2>1. y = Checked(z, << <<c1, "stale_document">>, <<c2, "renderer_unavailable">> >>, w)
      BY <1>3, <1>4, <1>8
    <2>2. CASE c1 \/ c2
      <3>1. y = Error(z, "stale_document") \/ y = Error(z, "renderer_unavailable")
        <4>1. c1 \in BOOLEAN /\ c2 \in BOOLEAN
          BY <1>5
        <4> HIDE DEF c1, c2, w
        <4> QED
          BY <2>1, <2>2, <4>1, CheckedTwice
      <3>2. Outcome(z, y, E) /\ ~Has(y, "busy")
        BY <1>5, <1>6, <3>1
      <3>3. ~(kind \in {"nodes", "partial"} /\ doc = x.document)
        BY <1>5, <2>2
      <3> HIDE DEF c1, c2
      <3> QED
        BY <1>2, <1>8, <3>2, <3>3 DEF y, z, Truthful
    <2>3. CASE ~c1 /\ ~c2
      <3>1. y = w /\ kind # "none"
        <4>1. c1 \in BOOLEAN /\ c2 \in BOOLEAN /\ kind # "none"
          BY <1>5, <2>3
        <4> HIDE DEF c1, c2, w
        <4>2. Checked(z, << <<c1, "stale_document">>, <<c2, "renderer_unavailable">> >>, w) = w
          BY <2>3, <4>1, CheckedTwice, SMTT(30)
        <4> QED
          BY <2>1, <4>1, <4>2
      <3> HIDE DEF c1, c2
      <3>2. CASE kind \in {"error", "partial"}
        <4>1. y = failed
          BY <3>1, <3>2
        <4>2. "renderer_error" \in {NoError, z.deferred} \cup E
          BY <1>5
        <4>3. kind = "partial" => partial
          OBVIOUS
        <4> HIDE DEF partial
        <4>4. Outcome(z, failed, E) /\ ~Has(failed, "busy")
          BY <1>2, <4>2, FinishAnswers
        <4>5. \A a : Said(failed, a) => a.partial = partial
          BY <1>4, FinishSays
        <4> HIDE DEF failed
        <4> QED
          BY <1>2, <3>2, <4>1, <4>3, <4>4, <4>5 DEF y, z, Truthful
      <3>3. CASE kind \notin {"error", "partial"} /\ Has(z, "preflight")
        <4>1. y = fits
          BY <3>1, <3>3
        <4>2. Outcome(z, Preflighted(z, shown), E)
          BY <1>2, <1>4, <1>8, PreflightedOutcome
        <4>3. Outcome(z, fits, E)
          BY <1>4, <1>5, <4>2, CheckedOutcome1
        <4> HIDE DEF fits
        <4> QED
          BY <1>2, <1>4, <3>1, <3>3, <4>1, <4>3 DEF y, z, Truthful
      <3>4. CASE kind = "text" /\ ~Has(z, "preflight")
        <4> DEFINE never == FALSE
                   done == Finish(z, NoError, 0, never)
        <4>1. y = done
          BY <3>1, <3>4 DEF Succeed
        <4>2. NoError \in {NoError, z.deferred} \cup E
          OBVIOUS
        <4> HIDE DEF never
        <4>3. Outcome(z, done, E) /\ ~Has(done, "busy")
          BY <1>2, <4>2, FinishAnswers
        <4> HIDE DEF done
        <4> QED
          BY <1>2, <3>4, <4>1, <4>3 DEF y, z, Truthful
      <3>5. CASE kind = "nodes" /\ ~Has(z, "preflight")
        <4>1. y = Snapshot(z, result)
          BY <3>1, <3>5
        <4>2. /\ Outcome(z, y, E)
              /\ Has(y, "busy") => Has(z, "waiting")
              /\ ~Has(z, "waiting") => \A a : Said(y, a) => a.error = NoError
          BY <1>2, <4>1, SnapshotOutcome
        <4> QED
          BY <1>2, <1>4, <3>5, <4>2 DEF y, z, Truthful
      <3>6. CASE kind \notin {"error", "partial", "text", "nodes"} /\ ~Has(z, "preflight")
        <4>1. y = Error(z, "invalid_observation")
          BY <3>1, <3>6
        <4>2. Outcome(z, y, E) /\ ~Has(y, "busy")
          BY <1>5, <1>6, <4>1
        <4> QED
          BY <1>2, <3>6, <4>2 DEF y, z, Truthful
      <3> QED
        BY <3>2, <3>3, <3>4, <3>5, <3>6
    <2> QED
      BY <2>2, <2>3
  <1> QED
    BY <1>7, <1>8

(* An error after the document was reset. *)
LEMMA ErrorAfterReset ==
  ASSUME NEW E, NoError \notin E, NEW x, NEW z, Silent(z, E), SameRequest(x, z), StopKept(x, z, E),
         \A f \in {"busy", "renderer_pending", "writing_response", "preflight", "waiting"} :
           Has(z, f) <=> Has(x, f),
         Has(x, "busy"), z.command = x.command, z.deferred = x.deferred, z.baseline = Nil,
         z.prompt \in {Nil, x.prompt}, NEW e \in E
  PROVE  Outcome(x, Error(z, e), E)
  <1> DEFINE y == Error(z, e)
  <1>1. /\ Outcome(z, y, E) /\ y.sent = {}
        /\ Has(y, "busy") => y.deferred # NoError
    BY ErrorOutcome
  <1> HIDE DEF y
  <1>2. SameRequest(x, y) /\ StopKept(x, y, E)
    BY <1>1 DEF Outcome, SameRequest, StopKept
  <1>3. CASE Going(z, y, E)
    <2>1. Has(y, "busy") /\ y.deferred # NoError
      BY <1>1, <1>3 DEF Going
    <2>2. BaselineKept(x, y) /\ WaitKept(x, y) /\ PromptKept(x, y)
      BY <1>3, <2>1 DEF Going, BaselineKept, WaitKept, PromptKept, SameRequest
    <2>3. Going(x, y, E)
      BY <1>3, <2>1, <2>2 DEF Going
    <2> QED
      BY <1>2, <2>3 DEF Outcome, y
  <1>4. CASE Sends(z, y, E)
    BY <1>1, <1>4 DEF Sends
  <1>5. CASE Answers(z, y, E)
    <2>1. PICK p \in Seq(HandlerTask) : \E a :
            /\ y.post = Append(p, [op |-> "respond", answer |-> a])
            /\ StopsOnly(p, E) /\ IsAnswer(z, y, a, E)
      BY <1>5 DEF Answers
    <2>2. \A a : IsAnswer(z, y, a, E) => IsAnswer(x, y, a, E)
      BY DEF IsAnswer, SameRequest, BaselineKept
    <2>3. \A d \in y.closed : d # Nil /\ (d = x.prompt \/ d.id = x.id)
      BY <1>5 DEF Answers, SameRequest
    <2>4. Answers(x, y, E)
      BY <1>5, <2>1, <2>2, <2>3 DEF Answers
    <2> QED
      BY <1>2, <2>4 DEF Outcome, y
  <1> QED
    BY <1>1, <1>3, <1>4, <1>5 DEF Outcome

(* Members whose consent and rules changed, and nothing else. *)
LEMMA ConsentGoing ==
  ASSUME NEW E, NEW x, Silent(x, E), NEW authorized, NEW task
  PROVE  LET z == [x EXCEPT !.authorized = authorized, !.task = task]
         IN  /\ Going(x, z, E) /\ SameRequest(x, z) /\ StopKept(x, z, E) /\ Silent(z, E)
             /\ Shape(z) /\ z.on = x.on /\ z.id = x.id /\ z.req = x.req /\ z.command = x.command
             /\ z.document = x.document /\ z.fresh = x.fresh /\ z.deferred = x.deferred
             /\ z.stopped = x.stopped /\ z.baseline = x.baseline /\ z.prompt = x.prompt
             /\ z.tab = x.tab /\ z.post = x.post /\ z.sent = x.sent /\ z.closed = x.closed
  <1> DEFINE z == [x EXCEPT !.authorized = authorized, !.task = task]
  <1>1. /\ Shape(z) /\ z.on = x.on /\ z.id = x.id /\ z.req = x.req /\ z.command = x.command
        /\ z.document = x.document /\ z.fresh = x.fresh /\ z.deferred = x.deferred
        /\ z.stopped = x.stopped /\ z.baseline = x.baseline /\ z.prompt = x.prompt
        /\ z.tab = x.tab /\ z.post = x.post /\ z.sent = x.sent /\ z.closed = x.closed
    BY DEF Silent, Shape, Field
  <1> HIDE DEF z
  <1>2. \A f : Has(z, f) <=> Has(x, f)
    BY <1>1 DEF Has
  <1>3. BaselineKept(x, z) /\ WaitKept(x, z)
    BY <1>1, <1>2 DEF BaselineKept, WaitKept
  <1>4. z.prompt # Nil => ~Has(z, "navigating")
    BY <1>1, <1>2 DEF Silent
  <1>5. Going(x, z, E) /\ SameRequest(x, z) /\ StopKept(x, z, E)
    BY <1>1, <1>2, <1>3, <1>4, Prepared
  <1> QED
    BY <1>1, <1>5 DEF Going, z

(* A probe whose callback is not waited for. *)
Unprobed(x) == Drop(x, {"renderer_pending"})

(* Nothing but the flag of the callback changes. *)
LEMMA UnprobedFields ==
  ASSUME NEW E, NEW x, Silent(x, E)
  PROVE  LET z == Unprobed(x)
         IN  /\ Silent(z, E) /\ SameFields(x, z) /\ z.on = x.on \ {"renderer_pending"}
             /\ SameRequest(x, z)
             /\ \A f : f # "renderer_pending" => (Has(z, f) <=> Has(x, f))
             /\ ~Has(z, "renderer_pending")
  <1> DEFINE z == Unprobed(x)
  <1>1. Shape(z) /\ SameFields(x, z) /\ z.on = x.on \ {"renderer_pending"}
    BY DEF Unprobed, Drop, Silent, Shape, Field, SameFields
  <1> HIDE DEF z
  <1>2. /\ \A f : f # "renderer_pending" => (Has(z, f) <=> Has(x, f))
        /\ ~Has(z, "renderer_pending")
    BY <1>1 DEF Has
  <1>3. Silent(z, E) /\ SameRequest(x, z)
    BY <1>1, <1>2 DEF Silent, SameFields, SameRequest
  <1> QED
    BY <1>1, <1>2, <1>3 DEF z

(* A navigation of the observed tab ends a request, unless the bridge asked for it; *)
(* a probe of the page left is given up at once, whatever its callback does.        *)
LEMMA NavigatedOutcome ==
  ASSUME NEW E, Ordinary \subseteq E, NoError \notin E, NEW x, Silent(x, E),
         Has(x, "busy") => x.deferred = NoError \/ x.deferred \in E,
         Has(x, "waiting") \/ Has(x, "preflight") => Has(x, "busy"),
         ~(Has(x, "navigating") /\ (Has(x, "renderer_pending") \/ Has(x, "waiting"))),
         Has(x, "renderer_pending") => Has(x, "busy"), NEW origin
  PROVE  LET y == Navigated(x, origin)
         IN  \/ Outcome(x, y, E)
             \/ /\ Has(x, "busy") /\ Has(x, "renderer_pending") /\ Probe(x)
                /\ Outcome(Unprobed(x), y, E) /\ ~Has(y, "busy")
  <1> DEFINE covered == Covers(x, x.tab, origin)
             left == IF covered THEN x ELSE [x EXCEPT !.task[x.tab] = Nil]
             gone == IF ~Has(x, "navigating") /\ ~covered THEN Drop(left, {"attached"}) ELSE left
             z == ResetDocument(gone)
             e == IF z.deferred # NoError THEN z.deferred ELSE "stale_document"
             u == Unprobed(z)
             y == Navigated(x, origin)
  <1>1. Shape(x)
    BY DEF Silent
  <1>2. /\ Shape(left) /\ left.on = x.on /\ left.id = x.id /\ left.req = x.req
        /\ left.command = x.command /\ left.deferred = x.deferred /\ left.stopped = x.stopped
        /\ left.prompt = x.prompt /\ left.post = x.post /\ left.sent = x.sent
        /\ left.closed = x.closed
    BY <1>1 DEF Shape, Field
  <1>3. y = IF ~Has(z, "busy") \/ Has(z, "navigating") THEN z
            ELSE Error(IF Probe(z) THEN u ELSE z, e)
    BY DEF Navigated, Unprobed
  <1>4. gone \in {left, Drop(left, {"attached"})}
    OBVIOUS
  <1> HIDE DEF left, y
  <1>5. /\ Shape(gone) /\ gone.on \in {x.on, x.on \ {"attached"}} /\ gone.id = x.id
        /\ gone.req = x.req /\ gone.command = x.command /\ gone.deferred = x.deferred
        /\ gone.stopped = x.stopped /\ gone.prompt = x.prompt /\ gone.post = x.post
        /\ gone.sent = x.sent /\ gone.closed = x.closed
    BY <1>2, <1>4 DEF Drop, Shape, Field
  <1> HIDE DEF gone
  <1>6. /\ Shape(z) /\ z.on = gone.on /\ z.id = x.id
        /\ z.req = x.req /\ z.command = x.command /\ z.deferred = x.deferred
        /\ z.stopped = x.stopped /\ z.prompt = x.prompt /\ z.post = x.post
        /\ z.sent = x.sent /\ z.closed = x.closed /\ z.baseline = Nil
    BY <1>5 DEF ResetDocument, Shape, Field
  <1> HIDE DEF z
  <1>7. \A f : f # "attached" => (Has(z, f) <=> Has(x, f))
    BY <1>5, <1>6 DEF Has
  <1>8. Silent(z, E) /\ SameRequest(x, z) /\ StopKept(x, z, E)
    BY <1>6, <1>7 DEF Silent, SameRequest, StopKept
  <1>9. Has(x, "busy") => e \in E
    BY <1>6 DEF Ordinary, ErrorCode
  <1>10. CASE ~Has(z, "busy") \/ Has(z, "navigating")
    <2>1. y = z
      BY <1>3, <1>10
    <2>2. ~Has(x, "renderer_pending") /\ ~Has(z, "waiting")
      BY <1>7, <1>10
    <2>3. BaselineKept(x, z) /\ WaitKept(x, z) /\ PromptKept(x, z)
      BY <1>6, <2>2 DEF BaselineKept, WaitKept, PromptKept
    <2>4. Going(x, z, E)
      BY <1>6, <1>7, <1>8, <2>2, <2>3 DEF Going
    <2> QED
      BY <1>8, <2>1, <2>4 DEF Outcome, y
  <1>11. CASE Has(z, "busy") /\ ~Has(z, "navigating")
    <2> HIDE DEF e
    <2>3. e \in E
      BY <1>7, <1>9, <1>11
    <2>1. CASE ~Probe(z)
      <3>1. y = Error(z, e)
        BY <1>3, <1>11, <2>1
      <3>2. Outcome(x, Error(z, e), E)
        BY <1>6, <1>7, <1>8, <2>3, <1>11, ErrorAfterReset
      <3> QED
        BY <3>1, <3>2 DEF y
    <2>2. CASE Probe(z)
      <3> DEFINE v == Unprobed(x)
      <3>1. y = Error(u, e)
        BY <1>3, <1>11, <2>2
      <3>2. /\ Silent(u, E) /\ SameFields(z, u) /\ SameRequest(z, u)
            /\ \A f : f # "renderer_pending" => (Has(u, f) <=> Has(z, f))
            /\ ~Has(u, "renderer_pending")
        BY <1>8, UnprobedFields
      <3>3. /\ Silent(v, E) /\ SameFields(x, v) /\ SameRequest(x, v)
            /\ \A f : f # "renderer_pending" => (Has(v, f) <=> Has(x, f))
            /\ ~Has(v, "renderer_pending")
        BY UnprobedFields
      <3> HIDE DEF u, v
      <3>4. SameRequest(v, u) /\ StopKept(v, u, E)
        BY <1>8, <3>2, <3>3 DEF SameRequest, StopKept, SameFields
      <3>5. /\ \A f \in {"busy", "renderer_pending", "writing_response", "preflight", "waiting"} :
                 Has(u, f) <=> Has(v, f)
            /\ Has(v, "busy") /\ ~Has(u, "navigating") /\ Has(u, "busy")
        BY <1>7, <1>11, <3>2, <3>3
      <3>6. /\ u.command = v.command /\ u.deferred = v.deferred /\ u.baseline = Nil
            /\ u.prompt \in {Nil, v.prompt}
        BY <1>6, <3>2, <3>3 DEF SameFields
      <3>7. Outcome(v, Error(u, e), E)
        BY <2>3, <3>2, <3>4, <3>5, <3>6, ErrorAfterReset
      <3>8. ~Has(Error(u, e), "busy")
        BY <2>3, <3>2, <3>5, ErrorOutcome DEF Ready
      <3>9. Probe(x)
        BY <1>6, <1>7, <2>2 DEF Probe
      <3>10. CASE Has(x, "renderer_pending")
        BY <1>7, <1>11, <3>1, <3>7, <3>8, <3>9, <3>10 DEF v, y
      <3>11. CASE ~Has(x, "renderer_pending")
        <4>1. v = x
          <5>1. v.on = x.on
            BY <3>11 DEF v, Unprobed, Drop, Has, Shape, Field
          <5> QED
            BY <1>1, <3>3, <5>1 DEF Silent, SameFields, Shape, Field
        <4> QED
          BY <3>1, <3>7, <4>1 DEF y
      <3> QED
        BY <3>10, <3>11
    <2> QED
      BY <2>1, <2>2
  <1> QED
    BY <1>10, <1>11

(* A navigation anywhere in the window. *)
NavigatedTab(x, t, origin) ==
  LET z == GrantNavigated(x, t, origin) IN IF t = z.tab THEN Navigated(z, origin) ELSE z

(* A navigation has one of the outcomes, for the members as they are or without the probe. *)
LEMMA NavigatedTabOutcome ==
  ASSUME NEW E, Ordinary \subseteq E, NoError \notin E, NEW x, Full(x), Clean(x),
         Has(x, "busy") => x.deferred = NoError \/ x.deferred \in E, NEW t, NEW origin
  PROVE  LET y == NavigatedTab(x, t, origin)
         IN  \/ Outcome(x, y, E)
             \/ /\ Has(x, "busy") /\ Has(x, "renderer_pending") /\ Probe(x)
                /\ Outcome(Unprobed(x), y, E) /\ ~Has(y, "busy")
  <1> DEFINE authorized == x.authorized \ {t}
             task == [x.task EXCEPT ![t] = Nil]
             w == [x EXCEPT !.authorized = authorized, !.task = task]
             z == GrantNavigated(x, t, origin)
             y == NavigatedTab(x, t, origin)
             v == Navigated(z, origin)
             p == Unprobed(x)
             q == Unprobed(z)
  <1>1. Silent(x, E) /\ Shape(x)
    BY FullSilent
  <1>2. z = x \/ z = w
    BY <1>1 DEF GrantNavigated, Shape, Field
  <1>3. y \in {z, v}
    BY DEF NavigatedTab
  <1>4. /\ Has(x, "waiting") \/ Has(x, "preflight") => Has(x, "busy")
        /\ ~(Has(x, "navigating") /\ (Has(x, "renderer_pending") \/ Has(x, "waiting")))
        /\ Has(x, "renderer_pending") => Has(x, "busy")
    BY DEF Full, Base
  <1> HIDE DEF authorized, task
  <1>5. /\ Going(x, z, E) /\ SameRequest(x, z) /\ StopKept(x, z, E) /\ Silent(z, E)
        /\ Shape(z) /\ z.on = x.on /\ z.command = x.command /\ z.deferred = x.deferred
        /\ z.id = x.id
    <2>1. CASE z = x
      BY <1>1, <2>1, SilentGoing DEF Outcome, SameRequest, StopKept
    <2>2. Going(x, w, E) /\ SameRequest(x, w) /\ StopKept(x, w, E) /\ Silent(w, E)
      BY <1>1, ConsentGoing
    <2>3. /\ Shape(w) /\ w.on = x.on /\ w.command = x.command /\ w.deferred = x.deferred
          /\ w.id = x.id
      BY <1>1 DEF Shape, Field
    <2> HIDE DEF z, w
    <2> QED
      BY <1>2, <2>1, <2>2, <2>3
  <1>6. Outcome(x, z, E)
    BY <1>5 DEF Outcome
  <1>7. Going(p, q, E) /\ SameRequest(p, q) /\ StopKept(p, q, E)
    <2>1. Silent(p, E)
      BY <1>1, UnprobedFields
    <2>2. CASE z = x
      BY <2>1, <2>2, SilentGoing DEF Outcome, SameRequest, StopKept
    <2>3. CASE z = w
      <3> DEFINE u == [p EXCEPT !.authorized = authorized, !.task = task]
      <3>1. q = u
        <4>1. /\ Shape(p) /\ p.on = x.on \ {"renderer_pending"} /\ p.tab = x.tab /\ p.id = x.id
              /\ p.req = x.req /\ p.command = x.command /\ p.document = x.document
              /\ p.fresh = x.fresh /\ p.deferred = x.deferred /\ p.stopped = x.stopped
              /\ p.baseline = x.baseline /\ p.prompt = x.prompt /\ p.granted = x.granted
              /\ p.post = x.post /\ p.sent = x.sent /\ p.closed = x.closed
          BY <1>1 DEF Unprobed, Drop, Shape, Field
        <4>2. /\ Shape(w) /\ w.on = x.on /\ w.tab = x.tab /\ w.id = x.id
              /\ w.req = x.req /\ w.command = x.command /\ w.document = x.document
              /\ w.fresh = x.fresh /\ w.deferred = x.deferred /\ w.stopped = x.stopped
              /\ w.baseline = x.baseline /\ w.prompt = x.prompt /\ w.granted = x.granted
              /\ w.post = x.post /\ w.sent = x.sent /\ w.closed = x.closed
              /\ w.authorized = authorized /\ w.task = task
          BY <1>1 DEF Shape, Field
        <4> HIDE DEF p
        <4>3. /\ Shape(u) /\ \A f \in Field \ {"authorized", "task"} : u[f] = p[f]
              /\ u.authorized = authorized /\ u.task = task
          BY <4>1 DEF Shape, Field
        <4> HIDE DEF u
        <4>4. q = [w EXCEPT !.on = w.on \ {"renderer_pending"}]
          BY <2>3 DEF Unprobed, Drop
        <4> HIDE DEF w, q
        <4>5. /\ Shape(q) /\ \A f \in Field \ {"on"} : q[f] = w[f]
              /\ q.on = w.on \ {"renderer_pending"}
          BY <4>2, <4>4 DEF Shape, Field
        <4>6. \A f \in Field : q[f] = u[f]
          BY <4>1, <4>2, <4>3, <4>5 DEF Field
        <4> QED
          BY <4>3, <4>5, <4>6 DEF Shape
      <3>2. Going(p, u, E) /\ SameRequest(p, u) /\ StopKept(p, u, E)
        BY <2>1, ConsentGoing
      <3> QED
        BY <3>1, <3>2
    <2> QED
      BY <1>2, <2>2, <2>3
  <1> HIDE DEF z, p, w, y
  <1>8. \/ Outcome(z, v, E)
        \/ /\ Has(z, "busy") /\ Has(z, "renderer_pending") /\ Probe(z)
           /\ Outcome(q, v, E) /\ ~Has(v, "busy")
    <2>1. \A f : Has(z, f) <=> Has(x, f)
      BY <1>5 DEF Has
    <2> QED
      BY <1>4, <1>5, <2>1, NavigatedOutcome
  <1> HIDE DEF q, v
  <1>9. Outcome(z, v, E) => Outcome(x, v, E)
    BY <1>5, Chain
  <1>10. Outcome(q, v, E) => Outcome(p, v, E)
    BY <1>7, Chain
  <1>11. /\ Probe(z) => Probe(x)
         /\ Has(z, "busy") => Has(x, "busy")
         /\ Has(z, "renderer_pending") => Has(x, "renderer_pending")
    BY <1>5 DEF Probe, Has
  <1> QED
    BY <1>3, <1>6, <1>8, <1>9, <1>10, <1>11 DEF y, p

(* The tab of the request in hand, or another one, was closed. *)
LEMMA TabClosedOutcome ==
  ASSUME NEW E, Ordinary \subseteq E, NoError \notin E, NEW x, Silent(x, E), NEW t
  PROVE  Outcome(x, TabClosed(x, t), E)
  <1> DEFINE authorized == x.authorized \ {t}
             task == x.task
             y == [x EXCEPT !.authorized = authorized, !.task = task]
             z == Drop(y, {"navigating", "attached"})
             u == Error(z, "tab_closed")
             v == [u EXCEPT !.tab = Nil, !.baseline = Nil]
  <1>1. /\ Going(x, y, E) /\ SameRequest(x, y) /\ StopKept(x, y, E) /\ Silent(y, E)
    BY ConsentGoing
  <1>2. y = [x EXCEPT !.authorized = @ \ {t}]
    BY DEF Silent, Shape, Field
  <1>3. TabClosed(x, t) = IF t # x.tab THEN y ELSE v
    BY <1>2 DEF TabClosed
  <1>4. Outcome(x, y, E)
    BY <1>1 DEF Outcome
  <1> HIDE DEF y
  <1>5. Shape(z) /\ SameFields(y, z) /\ z.on = y.on \ {"navigating", "attached"}
    BY <1>1 DEF Drop, Silent, Shape, Field, SameFields
  <1> HIDE DEF z
  <1>6. /\ \A f : f \notin {"navigating", "attached"} => (Has(z, f) <=> Has(y, f))
        /\ ~Has(z, "navigating")
    BY <1>5 DEF Has
  <1>7. BaselineKept(y, z) /\ WaitKept(y, z)
    BY <1>5, <1>6 DEF BaselineKept, WaitKept, SameFields
  <1>8. Going(y, z, E) /\ SameRequest(y, z) /\ StopKept(y, z, E)
    BY <1>1, <1>5, <1>6, <1>7, Prepared DEF SameFields
  <1>9. Outcome(z, u, E) /\ u.sent = {}
    BY <1>8, ErrorOutcome DEF Going, Ordinary, ErrorCode
  <1> HIDE DEF u
  <1>10. Outcome(x, u, E)
    BY <1>1, <1>8, <1>9, Chain
  <1>11. Shape(u)
    BY <1>10 DEF Outcome, Going, Sends, Answers, Silent
  <1>12. /\ Shape(v) /\ v.on = u.on /\ v.id = u.id /\ v.req = u.req /\ v.command = u.command
         /\ v.document = u.document /\ v.deferred = u.deferred
         /\ v.stopped = u.stopped /\ v.baseline = Nil /\ v.prompt = u.prompt
         /\ v.post = u.post /\ v.sent = u.sent /\ v.closed = u.closed
    BY <1>11 DEF Shape, Field
  <1> HIDE DEF v
  <1>13. \A f : Has(v, f) <=> Has(u, f)
    BY <1>12 DEF Has
  <1>14. SameRequest(x, v) /\ StopKept(x, v, E)
    BY <1>10, <1>12, <1>13 DEF Outcome, SameRequest, StopKept
  <1>15. BaselineKept(x, v)
    BY <1>12 DEF BaselineKept
  <1>16. CASE Going(x, u, E)
    <2>1. Silent(v, E)
      BY <1>12, <1>13, <1>16 DEF Going, Silent
    <2>2. WaitKept(x, v) /\ PromptKept(x, v)
      BY <1>12, <1>13, <1>16 DEF Going, WaitKept, PromptKept
    <2>3. Going(x, v, E)
      BY <1>12, <1>13, <1>15, <1>16, <2>1, <2>2 DEF Going
    <2> QED
      BY <1>3, <1>4, <1>14, <2>3 DEF Outcome
  <1>17. CASE Sends(x, u, E)
    BY <1>9, <1>17 DEF Sends
  <1>18. CASE Answers(x, u, E)
    <2>1. PICK p \in Seq(HandlerTask) : \E a :
            /\ u.post = Append(p, [op |-> "respond", answer |-> a])
            /\ StopsOnly(p, E) /\ IsAnswer(x, u, a, E)
      BY <1>18 DEF Answers
    <2>2. \A a : IsAnswer(x, u, a, E) => IsAnswer(x, v, a, E)
      BY <1>15 DEF IsAnswer
    <2>3. Answers(x, v, E)
      BY <1>12, <1>13, <1>18, <2>1, <2>2 DEF Answers
    <2> QED
      BY <1>3, <1>4, <1>14, <2>3 DEF Outcome
  <1> QED
    BY <1>10, <1>16, <1>17, <1>18 DEF Outcome

(* The navigation the bridge asked for is over. *)
LEMMA StoppedLoadingOutcome ==
  ASSUME NEW E, Ordinary \subseteq E, NoError \notin E, NEW x, Silent(x, E),
         ~(Has(x, "navigating") /\ Has(x, "renderer_pending")),
         Has(x, "busy") => x.deferred = NoError \/ x.deferred \in E
  PROVE  Outcome(x, StoppedLoading(x), E)
  <1> DEFINE y == Drop(x, {"navigating"})
             z == [y EXCEPT !.command = "observe"]
  <1>1. StoppedLoading(x)
          = IF ~Has(x, "busy") \/ ~Has(x, "navigating") THEN x
            ELSE IF y.deferred # NoError THEN Error(y, y.deferred) ELSE Execute(z)
    BY DEF StoppedLoading
  <1>2. Shape(y) /\ SameFields(x, y) /\ y.on = x.on \ {"navigating"}
    BY DEF Drop, Silent, Shape, Field, SameFields
  <1> HIDE DEF y
  <1>3. /\ Shape(z) /\ z.on = y.on /\ z.id = y.id /\ z.req = y.req
        /\ z.document = y.document /\ z.deferred = y.deferred
        /\ z.stopped = y.stopped /\ z.baseline = y.baseline /\ z.prompt = y.prompt
        /\ z.post = y.post /\ z.sent = y.sent /\ z.closed = y.closed
    BY <1>2 DEF Shape, Field
  <1> HIDE DEF z
  <1>4. CASE ~Has(x, "busy") \/ ~Has(x, "navigating")
    BY <1>1, <1>4, SilentGoing
  <1>5. CASE Has(x, "busy") /\ Has(x, "navigating")
    <2>1. /\ \A f : f # "navigating" => (Has(y, f) <=> Has(x, f)) /\ (Has(z, f) <=> Has(x, f))
          /\ ~Has(y, "navigating") /\ ~Has(z, "navigating") /\ ~Has(x, "renderer_pending")
      BY <1>2, <1>3, <1>5 DEF Has
    <2>2. BaselineKept(x, y) /\ WaitKept(x, y) /\ BaselineKept(x, z) /\ WaitKept(x, z)
      BY <1>2, <1>3, <2>1 DEF BaselineKept, WaitKept, SameFields
    <2>3. Going(x, y, E) /\ SameRequest(x, y) /\ StopKept(x, y, E)
      BY <1>2, <2>1, <2>2, Prepared DEF SameFields
    <2>4. Going(x, z, E) /\ SameRequest(x, z) /\ StopKept(x, z, E)
      BY <1>2, <1>3, <2>1, <2>2, Prepared DEF SameFields
    <2>5. ASSUME y.deferred # NoError
          PROVE  Outcome(x, Error(y, y.deferred), E)
      <3>1. Silent(y, E) /\ y.deferred \in E
        BY <1>2, <1>5, <2>3, <2>5 DEF Going, SameFields
      <3>2. Outcome(y, Error(y, y.deferred), E)
        BY <3>1, ErrorOutcome
      <3> QED
        BY <2>3, <3>2, Chain
    <2>6. Outcome(x, Execute(z), E)
      <3>1. Outcome(z, Execute(z), E)
        BY <2>4, ExecuteOutcome DEF Going
      <3> QED
        BY <2>4, <3>1, Chain
    <2> QED
      BY <1>1, <1>5, <2>5, <2>6
  <1> QED
    BY <1>4, <1>5

(* Input of the user in the observed tab. *)
LEMMA UserTookOverOutcome ==
  ASSUME NEW E, Ordinary \subseteq E, NoError \notin E, NEW x, Silent(x, E)
  PROVE  Outcome(x, UserTookOver(x), E)
  <1> DEFINE s == StopSession(x, "user_takeover")
             y == [s EXCEPT !.task[x.tab] = Nil, !.baseline = Nil]
  <1>1. "user_takeover" \in E /\ "user_takeover" \in StopReasons \cup {Unreadable}
    BY DEF Ordinary, ErrorCode, StopReasons
  <1>2. Going(x, s, E) /\ SameRequest(x, s) /\ StopKept(x, s, E)
    BY <1>1, StopGoing
  <1>3. UserTookOver(x) = Error(y, "user_takeover")
    BY DEF UserTookOver
  <1> HIDE DEF s
  <1>4. /\ Shape(y) /\ y.on = s.on /\ y.id = s.id /\ y.req = s.req /\ y.command = s.command
        /\ y.document = s.document /\ y.deferred = s.deferred
        /\ y.stopped = s.stopped /\ y.baseline = Nil /\ y.prompt = s.prompt
        /\ y.post = s.post /\ y.sent = s.sent /\ y.closed = s.closed
    BY <1>2 DEF Going, Silent, Shape, Field
  <1> HIDE DEF y
  <1>5. \A f : Has(y, f) <=> Has(s, f)
    BY <1>4 DEF Has
  <1>6. BaselineKept(s, y) /\ WaitKept(s, y) /\ (y.prompt # Nil => ~Has(y, "navigating"))
    BY <1>2, <1>4, <1>5 DEF BaselineKept, WaitKept, Going, Silent
  <1>7. Going(s, y, E) /\ SameRequest(s, y) /\ StopKept(s, y, E)
    <2>1. Silent(s, E)
      BY <1>2 DEF Going
    <2> QED
      BY <1>4, <1>5, <1>6, <2>1, Prepared
  <1>8. Outcome(y, Error(y, "user_takeover"), E)
    BY <1>1, <1>7, ErrorOutcome DEF Going
  <1> QED
    BY <1>2, <1>3, <1>7, <1>8, Chain

(* A stop read from the mailbox while a request is in hand. *)
LEMMA StopReceivedOutcome ==
  ASSUME NEW E, NoError \notin E, NEW x, Silent(x, E),
         NEW reason \in StopReasons \cup {Unreadable, NoError},
         reason = NoError \/ reason \in E, x.stopped = NoError \/ x.stopped \in E
  PROVE  Outcome(x, StopReceived(x, reason), E)
  <1> DEFINE y == Drop(x, {"reading_stop"})
             s == StopSession(y, reason)
  <1>1. Going(x, y, E) /\ SameRequest(x, y) /\ SameFields(x, y) /\ StopKept(x, y, E)
    BY AsideGoing DEF Aside, SameFields, StopKept
  <1>2. StopReceived(x, reason) = IF reason = NoError THEN y ELSE Error(s, s.stopped)
    BY DEF StopReceived
  <1>3. Silent(y, E)
    BY <1>1 DEF Going
  <1> HIDE DEF y
  <1>4. CASE reason = NoError
    BY <1>1, <1>2, <1>4 DEF Outcome
  <1>5. CASE reason # NoError
    <2>1. reason \in E /\ reason \in StopReasons \cup {Unreadable}
      BY <1>5
    <2>2. Going(y, s, E) /\ SameRequest(y, s) /\ StopKept(y, s, E) /\ s.stopped # NoError
      BY <1>3, <2>1, StopGoing
    <2> HIDE DEF s
    <2>3. s.stopped \in E
      BY <1>1, <2>2 DEF StopKept, SameFields
    <2>4. Outcome(s, Error(s, s.stopped), E)
      BY <2>2, <2>3, ErrorOutcome DEF Going
    <2> QED
      BY <1>1, <1>2, <1>5, <2>2, <2>4, Chain
  <1> QED
    BY <1>4, <1>5

(* A cancellation of a wait, from the client. *)
LEMMA CancelWaitOutcome ==
  ASSUME NEW E, NoError \notin E, NEW x, Silent(x, E), NEW id, NEW data,
         \/ "wait_cancelled" \in E
         \/ data = Nil \/ ~ThisWait(x, data.id, data.doc)
  PROVE  Outcome(x, CancelWait(Drop(x, {"reading_cancel"}), id, data), E)
  <1> DEFINE y == Drop(x, {"reading_cancel"})
  <1>1. /\ Going(x, y, E) /\ SameRequest(x, y) /\ SameFields(x, y) /\ StopKept(x, y, E)
        /\ y.on = x.on \ {"reading_cancel"}
    BY AsideGoing DEF Aside, SameFields, StopKept
  <1>2. Silent(y, E)
    BY <1>1 DEF Going
  <1>3. /\ CancelWait(y, id, data) \in {y, Error(y, "wait_cancelled")}
        /\ data = Nil \/ ~ThisWait(y, data.id, data.doc) => CancelWait(y, id, data) = y
    BY DEF CancelWait
  <1> HIDE DEF y
  <1>4. data # Nil => (ThisWait(y, data.id, data.doc) <=> ThisWait(x, data.id, data.doc))
    BY <1>1 DEF ThisWait, SameFields, Has
  <1>5. "wait_cancelled" \in E => Outcome(x, Error(y, "wait_cancelled"), E)
    BY <1>1, <1>2, ErrorOutcome, Chain
  <1>6. Outcome(x, y, E)
    BY <1>1 DEF Outcome
  <1> QED
    BY <1>3, <1>4, <1>5, <1>6 DEF y
=============================================================================
