---------------------- MODULE AgentBridgeLedgerProofs ----------------------
(***************************************************************************)
(* What the bridge promises about one request (AgentPromise), for every    *)
(* value of the constants: it is admitted once, takes effect at most once, *)
(* is answered once and truthfully, through crashes, restarts, lost        *)
(* callbacks and failed writes.  LInv is the inductive invariant behind    *)
(* AtMostOnceEffect, SettledMeansQuiescent, HonestFailure,                 *)
(* OneMutationInFlight and ReceiptIsArchived, and behind each step of      *)
(* PromiseKept.                                                            *)
(***************************************************************************)
EXTENDS AgentBridgeProofs

-----------------------------------------------------------------------------
(* What is in a queue. *)
Queued(q) == {q[k] : k \in 1..Len(q)}

Sole(q, op) == \A j, k \in 1..Len(q) : q[j].op = op /\ q[k].op = op => j = k

Never(q, op) == \A t \in Queued(q) : t.op # op

(***************************************************************************)
(* The invariant.                                                          *)
(***************************************************************************)
Mutates(s) == ~ReadsOnly(s)

(* The renderer has nothing of request i, and no page was changed for it. *)
Still(i, S, R) ==
  /\ \A s \in S : s.id # i
  /\ \A r \in R : r.id # i
  /\ effects[i] = 0

(* What may be under way for the request in hand: one script, or the result *)
(* it left, and at most one effect.                                         *)
Outstanding(x, S, R) ==
  /\ \A s, q \in S : s.id = x.id /\ q.id = x.id => s = q
  /\ \A r, u \in R : r.id = x.id /\ u.id = x.id => r = u
  /\ \A s \in S, r \in R : s.id = x.id /\ r.id = x.id => s.mute /\ r.result = NoResult
  /\ \A s \in S : s.id = x.id => s.command = x.command /\ (s.preflight <=> Has(x, "preflight"))
  /\ effects[x.id] > 0 =>
       /\ x.command \in Acting /\ ~Has(x, "preflight")
       /\ \A s \in S : s.id # x.id
       /\ \A r \in R : r.id = x.id => r.result.kind \in {"nodes", "partial", "none"}
  /\ x.deferred = NoError /\ ~Probe(x) =>
       /\ \A s \in S : s.id = x.id => s.doc = x.document
       /\ \A r \in R : r.id = x.id => r.doc = x.document

(* Neither an archived answer nor one on its way to the archive. *)
Unanswered(i) ==
  /\ archive[i] = Nil
  /\ \A t \in Queued(io) : t.op = "respond" /\ t.answer.persisted => t.answer.id # i

Unprompted(i) == \A d \in dialogs : d.id # i

(* Nothing was ever done for request i. *)
Fresh(i) ==
  /\ Still(i, scripts, results) /\ Unanswered(i) /\ Unprompted(i)
  /\ ~(Has(b, "busy") /\ b.id = i)

(* An answer that is true to what happened and can still happen. *)
Honest(a, S) ==
  a.settled => /\ \A s \in S : s.id = a.id => ReadsOnly(s)
               /\ a.error # NoError /\ ~a.partial => effects[a.id] = 0

Fenced == Has(b, "quarantined") => ~Has(b, "busy") /\ ~Has(b, "reading")

RespondOnce ==
  /\ Sole(io, "respond") /\ Sole(replies, "respond")
  /\ Never(io, "respond") \/ Never(replies, "respond")
  /\ Has(b, "writing_response") \/ (Never(io, "respond") /\ Never(replies, "respond"))

CurrentOK ==
  Has(b, "busy") =>
    /\ Has(b, "request_claimed") /\ b.id \in claims
    /\ Unanswered(b.id) /\ Unprompted(b.id)
    /\ IF Has(b, "renderer_pending") THEN Outstanding(b, scripts, results)
       ELSE Still(b.id, scripts, results)

ScriptsOK ==
  /\ \A s \in scripts : Mutates(s) =>
        /\ effects[s.id] = 0
        /\ Has(b, "quarantined") \/ (Has(b, "busy") /\ s.id = b.id)
  /\ \A s, q \in scripts : Mutates(s) /\ Mutates(q) => s = q

Untouched == \A i \in Ids \ claims : Fresh(i)

FreshOK ==
  \A t \in Queued(replies) : t.op = "read" /\ t.fresh =>
    t.data # Nil /\ t.data.id \in claims /\ Fresh(t.data.id)

RespondOK ==
  \A t \in Queued(io) : t.op = "respond" /\ t.answer.persisted =>
    archive[t.answer.id] = Nil /\ Honest(t.answer, scripts)

ArchiveOK ==
  \A i \in Ids : archive[i] # Nil =>
    archive[i].id = i /\ archive[i].persisted /\ Honest(archive[i], scripts)

CachedOK ==
  \A t \in Queued(replies) : t.op = "read" /\ t.cached # Nil =>
    archive[t.cached.id] = t.cached

RewriteOK ==
  \A t \in Queued(io) : t.op = "rewrite" => t.answer # Nil /\ archive[t.answer.id] = t.answer

QueueInv == RespondOnce /\ RespondOK /\ CachedOK /\ RewriteOK /\ FreshOK
WorkInv == Fenced /\ CurrentOK /\ ScriptsOK /\ Untouched
RecordInv == AtMostOnceEffect /\ ArchiveOK /\ ReceiptIsArchived

LInv == QueueInv /\ WorkInv /\ RecordInv

-----------------------------------------------------------------------------
(* Taking the head of a queue. *)
LEMMA TailQueue ==
  ASSUME NEW S, NEW s \in Seq(S), s # <<>>, NEW op
  PROVE  /\ Head(s) \in Queued(s) /\ Queued(Tail(s)) \subseteq Queued(s)
         /\ Sole(s, op) => Sole(Tail(s), op)
         /\ Sole(s, op) /\ Head(s).op = op => Never(Tail(s), op)
         /\ Never(s, op) => Never(Tail(s), op)
  <1>1. /\ Tail(s) \in Seq(S) /\ Len(s) \in Nat /\ Len(s) >= 1
        /\ Len(Tail(s)) = Len(s) - 1 /\ Head(s) = s[1]
        /\ \A k \in 1..Len(Tail(s)) : Tail(s)[k] = s[k + 1]
    BY HeadTailProperties, EmptySeq, LenProperties
  <1> DEFINE q == Tail(s)
  <1>2. \A k \in 1..Len(q) : k + 1 \in 1..Len(s) /\ q[k] = s[k + 1]
    BY <1>1
  <1> HIDE DEF q
  <1>3. Head(s) \in Queued(s) /\ 1 \in 1..Len(s)
    BY <1>1 DEF Queued
  <1>4. Queued(q) \subseteq Queued(s)
    BY <1>2 DEF Queued
  <1>5. Sole(s, op) => Sole(q, op)
    BY <1>1, <1>2 DEF Sole, q
  <1>6. Sole(s, op) /\ Head(s).op = op => Never(q, op)
    <2> SUFFICES ASSUME Sole(s, op), Head(s).op = op, NEW k \in 1..Len(q), q[k].op = op
                 PROVE  FALSE
      BY DEF Never, Queued
    <2>1. s[1].op = op /\ s[k + 1].op = op /\ k + 1 \in 1..Len(s)
      BY <1>1, <1>2
    <2>2. 1 = k + 1
      BY <1>3, <2>1 DEF Sole
    <2> QED
      BY <1>1, <2>2 DEF q
  <1>7. Never(s, op) => Never(q, op)
    BY <1>4 DEF Never
  <1> QED
    BY <1>3, <1>4, <1>5, <1>6, <1>7 DEF q

(* Adding tasks to a queue. *)
LEMMA ConcatQueue ==
  ASSUME NEW S, NEW s \in Seq(S), NEW p \in Seq(S), NEW op
  PROVE  /\ Queued(s \o p) = Queued(s) \cup Queued(p)
         /\ Sole(s, op) /\ Never(p, op) => Sole(s \o p, op)
         /\ Never(s, op) /\ Sole(p, op) => Sole(s \o p, op)
  <1> DEFINE q == s \o p
  <1>1. /\ Len(q) = Len(s) + Len(p) /\ Len(s) \in Nat /\ Len(p) \in Nat
        /\ \A k \in 1..Len(q) : q[k] = IF k <= Len(s) THEN s[k] ELSE p[k - Len(s)]
    BY ConcatProperties, LenProperties
  <1> HIDE DEF q
  <1>2. \A k \in 1..Len(q) : k <= Len(s) => k \in 1..Len(s) /\ q[k] = s[k]
    BY <1>1
  <1>3. \A k \in 1..Len(q) :
           ~(k <= Len(s)) => k - Len(s) \in 1..Len(p) /\ q[k] = p[k - Len(s)]
    BY <1>1
  <1>4. Queued(q) \subseteq Queued(s) \cup Queued(p)
    <2> SUFFICES ASSUME NEW k \in 1..Len(q)
                 PROVE  q[k] \in Queued(s) \cup Queued(p)
      BY DEF Queued
    <2>1. CASE k <= Len(s)
      BY <1>2, <2>1 DEF Queued
    <2>2. CASE ~(k <= Len(s))
      BY <1>3, <2>2 DEF Queued
    <2> QED
      BY <2>1, <2>2
  <1>5. Queued(s) \subseteq Queued(q)
    <2> SUFFICES ASSUME NEW k \in 1..Len(s)
                 PROVE  s[k] \in Queued(q)
      BY DEF Queued
    <2>1. k \in 1..Len(q) /\ q[k] = s[k]
      BY <1>1
    <2> QED
      BY <2>1 DEF Queued
  <1>6. Queued(p) \subseteq Queued(q)
    <2> SUFFICES ASSUME NEW k \in 1..Len(p)
                 PROVE  p[k] \in Queued(q)
      BY DEF Queued
    <2>1. Len(s) + k \in 1..Len(q) /\ q[Len(s) + k] = p[k]
      BY <1>1
    <2> QED
      BY <2>1 DEF Queued
  <1>7. Sole(s, op) /\ Never(p, op) => Sole(q, op)
    <2> SUFFICES ASSUME Sole(s, op), Never(p, op), NEW j \in 1..Len(q), NEW k \in 1..Len(q),
                        q[j].op = op, q[k].op = op
                 PROVE  j = k
      BY DEF Sole
    <2>1. \A i \in 1..Len(p) : p[i].op # op
      BY DEF Never, Queued
    <2>2. j <= Len(s) /\ k <= Len(s)
      BY <1>3, <2>1
    <2> QED
      BY <1>2, <2>2 DEF Sole
  <1>8. Never(s, op) /\ Sole(p, op) => Sole(q, op)
    <2> SUFFICES ASSUME Never(s, op), Sole(p, op), NEW j \in 1..Len(q), NEW k \in 1..Len(q),
                        q[j].op = op, q[k].op = op
                 PROVE  j = k
      BY DEF Sole
    <2>1. \A i \in 1..Len(s) : s[i].op # op
      BY DEF Never, Queued
    <2>2. ~(j <= Len(s)) /\ ~(k <= Len(s))
      BY <1>2, <2>1
    <2>3. j - Len(s) = k - Len(s)
      BY <1>3, <2>2 DEF Sole
    <2> QED
      BY <1>1, <2>3
  <1> QED
    BY <1>4, <1>5, <1>6, <1>7, <1>8 DEF q

(* Adding one element to a queue. *)
LEMMA AppendQueue ==
  ASSUME NEW S, NEW s \in Seq(S), NEW e \in S, NEW op
  PROVE  /\ Queued(Append(s, e)) = Queued(s) \cup {e}
         /\ Sole(s, op) /\ e.op # op => Sole(Append(s, e), op)
         /\ Never(s, op) => Sole(Append(s, e), op)
  <1> DEFINE q == Append(s, e)
  <1>1. /\ Len(q) = Len(s) + 1 /\ Len(s) \in Nat
        /\ \A k \in 1..Len(s) : q[k] = s[k]
        /\ q[Len(s) + 1] = e
    BY AppendProperties, LenProperties
  <1> HIDE DEF q
  <1>2. \A k \in 1..Len(q) : (k \in 1..Len(s) /\ q[k] = s[k]) \/ (k = Len(s) + 1 /\ q[k] = e)
    BY <1>1
  <1>3. Queued(q) \subseteq Queued(s) \cup {e}
    BY <1>2 DEF Queued
  <1>4. Queued(s) \subseteq Queued(q)
    <2> SUFFICES ASSUME NEW k \in 1..Len(s)
                 PROVE  s[k] \in Queued(q)
      BY DEF Queued
    <2>1. k \in 1..Len(q) /\ q[k] = s[k]
      BY <1>1
    <2> QED
      BY <2>1 DEF Queued
  <1>5. e \in Queued(q)
    <2>1. Len(s) + 1 \in 1..Len(q)
      BY <1>1
    <2> QED
      BY <1>1, <2>1 DEF Queued
  <1>6. Sole(s, op) /\ e.op # op => Sole(q, op)
    BY <1>2 DEF Sole
  <1>7. Never(s, op) => Sole(q, op)
    <2> SUFFICES ASSUME Never(s, op), NEW j \in 1..Len(q), NEW k \in 1..Len(q),
                        q[j].op = op, q[k].op = op
                 PROVE  j = k
      BY DEF Sole
    <2>1. \A i \in 1..Len(s) : s[i].op # op
      BY DEF Never, Queued
    <2> QED
      BY <1>2, <2>1
  <1> QED
    BY <1>3, <1>4, <1>5, <1>6, <1>7 DEF q

-----------------------------------------------------------------------------
(* Steps that give no request anything new.                                *)

(* What the invariant reads of a request in hand. *)
Agrees(x, y) ==
  /\ \A f \in {"renderer_pending", "request_claimed", "preflight", "waiting"} :
        Has(y, f) <=> Has(x, f)
  /\ y.id = x.id /\ y.command = x.command /\ y.document = x.document
  /\ y.deferred = x.deferred

(* A task that answers nothing, or repeats the archived answer. *)
Harmless(t) ==
  /\ t.op = "respond" => ~t.answer.persisted
  /\ t.op = "rewrite" => t.answer # Nil /\ archive[t.answer.id] = t.answer

(* Nothing but new reads, stops and answers already archived. *)
LEMMA Frame ==
  ASSUME LInv, RespondOnce', Fenced',
         Has(b, "busy") <=> Has(b', "busy"),
         Has(b, "busy") => Agrees(b, b'),
         Has(b, "quarantined") => Has(b', "quarantined"),
         \A t \in Queued(io') : t \in Queued(io) \/ Harmless(t),
         \A t \in Queued(replies') : t \in Queued(replies) \/ t.op # "read",
         dialogs' \subseteq dialogs,
         answer' \in {answer, Nil} \/ archive[answer'.id] = answer' \/ ~answer'.persisted,
         UNCHANGED <<scripts, results, archive, effects, claims>>
  PROVE  LInv'
  <1>1. \A i : Unanswered(i) => Unanswered(i)'
    BY DEF Unanswered, Harmless
  <1>2. \A i : Unprompted(i) => Unprompted(i)'
    BY DEF Unprompted
  <1>3. \A i : Still(i, scripts, results) => Still(i, scripts, results)'
    BY DEF Still
  <1>4. \A a : Honest(a, scripts) => Honest(a, scripts)'
    BY DEF Honest
  <1>5. \A i : Fresh(i) => Fresh(i)'
    BY <1>1, <1>2, <1>3 DEF Fresh, Agrees
  <1>6. CurrentOK'
    <2> SUFFICES ASSUME Has(b', "busy")
                 PROVE  /\ Has(b', "request_claimed") /\ b'.id \in claims'
                        /\ Unanswered(b.id)' /\ Unprompted(b.id)'
                        /\ IF Has(b', "renderer_pending") THEN Outstanding(b, scripts, results)'
                           ELSE Still(b.id, scripts, results)'
      BY DEF CurrentOK
    <2>1. /\ Has(b, "busy") /\ Agrees(b, b') /\ b'.id = b.id
          /\ Has(b', "renderer_pending") <=> Has(b, "renderer_pending")
      BY DEF Agrees
    <2>2. /\ Has(b, "request_claimed") /\ b.id \in claims
          /\ Unanswered(b.id) /\ Unprompted(b.id)
          /\ IF Has(b, "renderer_pending") THEN Outstanding(b, scripts, results)
             ELSE Still(b.id, scripts, results)
      BY <2>1 DEF LInv, WorkInv, CurrentOK
    <2>3. Outstanding(b, scripts, results) => Outstanding(b, scripts, results)'
      BY <2>1 DEF Outstanding, Agrees, Probe
    <2>4. Has(b', "request_claimed")
      BY <2>1, <2>2 DEF Agrees
    <2> QED
      BY <1>1, <1>2, <1>3, <2>1, <2>2, <2>3, <2>4
  <1>7. ScriptsOK'
    BY DEF LInv, WorkInv, ScriptsOK, Mutates, ReadsOnly, Agrees
  <1>8. Untouched'
    BY <1>5 DEF LInv, WorkInv, Untouched
  <1>9. FreshOK'
    BY <1>5 DEF LInv, QueueInv, FreshOK
  <1>10. RespondOK'
    BY <1>4 DEF LInv, QueueInv, RespondOK, Harmless
  <1>11. CachedOK' /\ RewriteOK'
    BY DEF LInv, QueueInv, CachedOK, RewriteOK, Harmless
  <1>12. RecordInv'
    BY <1>4 DEF LInv, RecordInv, AtMostOnceEffect, ArchiveOK, ReceiptIsArchived
  <1> QED
    BY <1>6, <1>7, <1>8, <1>9, <1>10, <1>11, <1>12 DEF LInv, QueueInv, WorkInv

-----------------------------------------------------------------------------
(* Steps of the UI thread.                                                 *)

(* Stops join the I/O sequence. *)
LEMMA StopsQueue ==
  ASSUME NEW E, NEW q \in Seq(AnyTask), NEW p \in Seq(HandlerTask), StopsOnly(p, E), NEW op,
         op # "stop"
  PROVE  /\ Queued(q) \subseteq Queued(q \o p)
         /\ \A t \in Queued(q \o p) : t \in Queued(q) \/ t.op = "stop"
         /\ Sole(q, op) => Sole(q \o p, op)
         /\ Never(q, op) => Never(q \o p, op)
         /\ Never(p, op)
  <1>1. p \in Seq(AnyTask)
    BY HandlerTasksQuiet
  <1>2. \A t \in Queued(p) : t.op = "stop"
    BY DEF StopsOnly, Queued
  <1>3. Never(p, op)
    BY <1>2 DEF Never
  <1>4. Queued(q \o p) = Queued(q) \cup Queued(p) /\ (Sole(q, op) => Sole(q \o p, op))
    BY <1>1, <1>3, ConcatQueue
  <1> QED
    BY <1>2, <1>3, <1>4 DEF Never

(* Stops and one more task join the I/O sequence. *)
LEMMA AnswerQueue ==
  ASSUME NEW E, NEW q \in Seq(AnyTask), NEW p \in Seq(HandlerTask), StopsOnly(p, E), NEW e,
         NEW op, op # "stop"
  PROVE  LET s == q \o Append(p, e)
         IN  /\ \A t \in Queued(s) : t \in Queued(q) \/ t.op = "stop" \/ t = e
             /\ Never(q, op) => Sole(s, op)
             /\ Never(q, op) /\ e.op # op => Never(s, op)
             /\ Sole(q, op) /\ e.op # op => Sole(s, op)
  <1> DEFINE S == AnyTask \cup {e}
             a == Append(p, e)
  <1>1. p \in Seq(S) /\ q \in Seq(S) /\ e \in S
    <2>1. p \in Seq(AnyTask)
      BY HandlerTasksQuiet
    <2>2. AnyTask \subseteq S
      OBVIOUS
    <2> HIDE DEF S
    <2> QED
      BY <2>1, <2>2, SeqMonotonic DEF S
  <1> HIDE DEF S
  <1>2. Never(p, op) /\ \A t \in Queued(p) : t.op = "stop"
    BY DEF StopsOnly, Queued, Never
  <1>3. Queued(a) = Queued(p) \cup {e} /\ Sole(a, op) /\ (e.op # op => Never(a, op))
    <2>1. Queued(a) = Queued(p) \cup {e} /\ Sole(a, op)
      BY <1>1, <1>2, AppendQueue
    <2> QED
      BY <1>2, <2>1 DEF Never
  <1>4. a \in Seq(S)
    BY <1>1, AppendProperties
  <1> HIDE DEF a
  <1>5. /\ Queued(q \o a) = Queued(q) \cup Queued(a)
        /\ Sole(q, op) /\ Never(a, op) => Sole(q \o a, op)
        /\ Never(q, op) /\ Sole(a, op) => Sole(q \o a, op)
    BY <1>1, <1>4, ConcatQueue
  <1>6. \A t \in Queued(q \o a) : t \in Queued(q) \/ t.op = "stop" \/ t = e
    BY <1>2, <1>3, <1>5
  <1>7. Never(q, op) /\ e.op # op => Never(q \o a, op)
    BY <1>3, <1>5 DEF Never
  <1> QED
    BY <1>3, <1>5, <1>6, <1>7 DEF a

(* Queued tasks and replies are of their type. *)
LEMMA QueueTypes ==
  ASSUME IInv
  PROVE  /\ io \in Seq(AnyTask) /\ replies \in Seq(AnyReply)
         /\ \A t \in Queued(io) : t \in AnyTask
         /\ \A t \in Queued(replies) : t \in AnyReply
  BY ElementOfSeq DEF IInv, QueueType, Queued

(* One reply is taken, or none. *)
LEMMA RepliesLeft ==
  ASSUME IInv, replies' = replies \/ (replies # <<>> /\ replies' = Tail(replies)), NEW op
  PROVE  /\ Queued(replies') \subseteq Queued(replies)
         /\ Sole(replies, op) => Sole(replies', op)
         /\ Never(replies, op) => Never(replies', op)
  BY QueueTypes, TailQueue

(* The members when the handler has returned. *)
LEMMA Returned ==
  ASSUME NEW y, Shape(y)
  PROVE  LET x == [y EXCEPT !.post = <<>>, !.sent = {}, !.closed = {}]
         IN  /\ x.on = y.on /\ x.id = y.id /\ x.req = y.req /\ x.command = y.command
             /\ x.document = y.document /\ x.deferred = y.deferred /\ x.prompt = y.prompt
             /\ x.stopped = y.stopped /\ x.baseline = y.baseline /\ x.tab = y.tab
             /\ x.granted = y.granted /\ x.authorized = y.authorized /\ x.task = y.task
  BY DEF Shape, Field

(***************************************************************************)
(* A handler takes up a request: as the members left it (x = b), or as it  *)
(* has just been read, or with the result of its script taken in.  R are   *)
(* the results still on their way, Q the replies.                          *)
(***************************************************************************)
Takes(x, R, Q) ==
  /\ Has(x, "writing_response") <=> Has(b, "writing_response")
  /\ Has(x, "busy") =>
       /\ Has(x, "request_claimed") /\ ~Has(x, "writing_response") /\ x.id \in claims
       /\ Unanswered(x.id) /\ Unprompted(x.id)
       /\ \A t \in Queued(Q) : t.op = "read" /\ t.fresh => t.data.id # x.id
  /\ x.prompt # Nil => Has(x, "busy") /\ x.prompt.id = x.id
  /\ Has(x, "renderer_pending") => Has(x, "busy") /\ Outstanding(x, scripts, R)
  /\ \A s \in scripts : Mutates(s) =>
       effects[s.id] = 0 /\ (Has(x, "quarantined") \/ (Has(x, "busy") /\ s.id = x.id))

(* What it leaves, with the request in hand or without. *)
Leaves(x, y, R) ==
  /\ Has(y, "busy") /\ ~Has(x, "renderer_pending") => Still(x.id, scripts, R)
  /\ Has(y, "quarantined") => ~Has(y, "busy") /\ ~Has(y, "reading")
  /\ ~Has(y, "busy") => \A s \in scripts : Mutates(s) => Has(y, "quarantined")
  /\ \A a : Said(y, a) => Honest(a, scripts)

(* The handler returns. *)
Handles(y) ==
  /\ b' = [y EXCEPT !.post = <<>>, !.sent = {}, !.closed = {}]
  /\ io' = io \o y.post /\ scripts' = scripts \cup y.sent
  /\ dialogs' \subseteq dialogs \cup y.closed /\ results' \subseteq results
  /\ replies' = replies \/ (replies # <<>> /\ replies' = Tail(replies))
  /\ UNCHANGED <<claims, archive, effects, answer>>

(* The tasks it leaves: its answer is the only one on its way. *)
LEMMA HandledTasks ==
  ASSUME LInv, IInv, NEW E, NEW x, NEW y, Outcome(x, y, E), Handles(y),
         Takes(x, results', replies')
  PROVE  /\ RespondOnce'
         /\ \A t \in Queued(io') :
              \/ t \in Queued(io) \/ t.op = "stop"
              \/ /\ Has(x, "busy") /\ ~Has(y, "busy")
                 /\ t.op = "respond" /\ t.answer.id = x.id /\ Said(y, t.answer)
  <1>1. /\ io \in Seq(AnyTask) /\ io' = io \o y.post /\ "respond" # "stop"
        /\ Sole(io, "respond") /\ Sole(replies, "respond")
        /\ Never(io, "respond") \/ Never(replies, "respond")
        /\ Has(b, "writing_response") \/ (Never(io, "respond") /\ Never(replies, "respond"))
    BY QueueTypes DEF Handles, LInv, QueueInv, RespondOnce
  <1>2. /\ Sole(replies', "respond")
        /\ Never(replies, "respond") => Never(replies', "respond")
    BY <1>1, RepliesLeft DEF Handles
  <1>3. Shape(y)
    BY DEF Outcome, Going, Sends, Answers, Silent
  <1>4. b'.on = y.on
    BY <1>3, Returned DEF Handles
  <1>5. CASE Going(x, y, E) \/ Sends(x, y, E)
    <2>1. /\ y.post \in Seq(HandlerTask) /\ StopsOnly(y.post, E)
          /\ Has(y, "writing_response") <=> Has(x, "writing_response")
      BY <1>5 DEF Going, Sends, Silent
    <2>2. Has(b', "writing_response") <=> Has(b, "writing_response")
      BY <1>4, <2>1 DEF Takes, Has
    <2>3. /\ \A t \in Queued(io') : t \in Queued(io) \/ t.op = "stop"
          /\ Sole(io', "respond")
          /\ Never(io, "respond") => Never(io', "respond")
      BY <1>1, <2>1, StopsQueue
    <2>4. RespondOnce'
      BY <1>1, <1>2, <2>2, <2>3 DEF RespondOnce
    <2> QED
      BY <2>3, <2>4
  <1>6. CASE Answers(x, y, E)
    <2>1. PICK p \in Seq(HandlerTask) : \E a :
             /\ y.post = Append(p, [op |-> "respond", answer |-> a])
             /\ StopsOnly(p, E) /\ IsAnswer(x, y, a, E)
      BY <1>6 DEF Answers
    <2>2. PICK a :
             /\ y.post = Append(p, [op |-> "respond", answer |-> a])
             /\ StopsOnly(p, E) /\ IsAnswer(x, y, a, E)
      BY <2>1
    <2> DEFINE e == [op |-> "respond", answer |-> a]
    <2>3. Said(y, a) /\ a.id = x.id /\ e.op = "respond" /\ e.answer = a
      BY <2>2 DEF Said, IsAnswer
    <2>4. y.post = Append(p, e) /\ StopsOnly(p, E)
      BY <2>2
    <2> HIDE DEF e
    <2>5. Has(x, "busy") /\ ~Has(y, "busy") /\ Has(y, "writing_response")
      BY <1>6 DEF Answers
    <2>6. Never(io, "respond") /\ Never(replies, "respond")
      BY <1>1, <2>5 DEF Takes
    <2>7. /\ \A t \in Queued(io') : t \in Queued(io) \/ t.op = "stop" \/ t = e
          /\ Sole(io', "respond")
      BY <1>1, <2>4, <2>6, AnswerQueue
    <2>8. RespondOnce'
      BY <1>2, <1>4, <2>5, <2>6, <2>7 DEF RespondOnce, Has
    <2> QED
      BY <2>3, <2>5, <2>7, <2>8
  <1> QED
    BY <1>5, <1>6 DEF Outcome

(* The script it leaves is the one of the request in hand. *)
LEMMA HandledScripts ==
  ASSUME NEW E, NEW x, NEW y, Outcome(x, y, E), Handles(y)
  PROVE  \/ scripts' = scripts /\ ~Sends(x, y, E)
         \/ /\ Sends(x, y, E) /\ Has(x, "busy") /\ ~Has(x, "renderer_pending")
            /\ Has(y, "busy") /\ Has(y, "renderer_pending")
            /\ \E s : /\ scripts' = scripts \cup {s}
                      /\ s.id = x.id /\ s.command = y.command /\ ~s.mute
                      /\ s.preflight <=> Has(y, "preflight")
                      /\ s.doc = y.document
  <1>1. CASE Sends(x, y, E)
    <2> DEFINE s == [id |-> x.id, doc |-> y.document, tab |-> y.tab, command |-> y.command,
                     preflight |-> Has(y, "preflight"), mute |-> FALSE]
    <2>1. /\ s.id = x.id /\ s.command = y.command /\ ~s.mute
          /\ s.preflight <=> Has(y, "preflight")
          /\ s.doc = y.document
      OBVIOUS
    <2>2. scripts' = scripts \cup {s}
      BY <1>1 DEF Sends, Handles
    <2> HIDE DEF s
    <2> QED
      BY <1>1, <2>1, <2>2 DEF Sends
  <1>2. CASE ~Sends(x, y, E)
    <2>1. y.sent = {}
      BY <1>2 DEF Outcome, Going, Silent, Answers
    <2> QED
      BY <1>2, <2>1 DEF Handles
  <1> QED
    BY <1>1, <1>2

(* The prompts it leaves are those of the request in hand. *)
LEMMA HandledDialogs ==
  ASSUME NEW E, NEW x, NEW y, Outcome(x, y, E), Handles(y), NEW Q,
         Takes(x, results', Q)
  PROVE  \A d \in dialogs' : d \in dialogs \/ (Has(x, "busy") /\ ~Has(y, "busy") /\ d.id = x.id)
  <1>1. \A d \in y.closed : Has(x, "busy") /\ ~Has(y, "busy") /\ d.id = x.id
    BY DEF Outcome, Going, Sends, Silent, Answers, Takes
  <1> QED
    BY <1>1 DEF Handles

(* Nothing is done for another request. *)
LEMMA HandledOthers ==
  ASSUME LInv, IInv, NEW E, NEW x, NEW y, Outcome(x, y, E), Handles(y),
         Takes(x, results', replies'), NEW i, ~(Has(x, "busy") /\ x.id = i)
  PROVE  /\ Unanswered(i) => Unanswered(i)'
         /\ Unprompted(i) => Unprompted(i)'
         /\ Still(i, scripts, results) => Still(i, scripts, results)'
         /\ Fresh(i) => Fresh(i)'
         /\ \A a : a.id = i /\ Honest(a, scripts) => Honest(a, scripts)'
  <1>1. \A t \in Queued(io') :
              \/ t \in Queued(io) \/ t.op = "stop"
              \/ Has(x, "busy") /\ t.op = "respond" /\ t.answer.id = x.id
    BY HandledTasks
  <1>2. \A d \in dialogs' : d \in dialogs \/ (Has(x, "busy") /\ d.id = x.id)
    BY HandledDialogs
  <1>3. \A s \in scripts' : s \in scripts \/ (Has(x, "busy") /\ s.id = x.id)
    BY HandledScripts
  <1>4. results' \subseteq results /\ archive' = archive /\ effects' = effects
    BY DEF Handles
  <1>5. Unanswered(i) => Unanswered(i)'
    BY <1>1, <1>4 DEF Unanswered
  <1>6. Unprompted(i) => Unprompted(i)'
    BY <1>2 DEF Unprompted
  <1>7. Still(i, scripts, results) => Still(i, scripts, results)'
    BY <1>3, <1>4 DEF Still
  <1>8. \A a : a.id = i /\ Honest(a, scripts) => Honest(a, scripts)'
    BY <1>3, <1>4 DEF Honest
  <1>9. Has(b', "busy") => Has(x, "busy") /\ b'.id = x.id
    <2>1. Shape(y) /\ y.id = x.id /\ (Has(y, "busy") => Has(x, "busy"))
      BY DEF Outcome, Going, Sends, Answers, Silent, SameRequest
    <2>2. b'.on = y.on /\ b'.id = y.id
      BY <2>1, Returned DEF Handles
    <2> QED
      BY <2>1, <2>2 DEF Has
  <1> QED
    BY <1>5, <1>6, <1>7, <1>8, <1>9 DEF Fresh

(* The request in hand after the handler. *)
LEMMA HandledCurrent ==
  ASSUME LInv, IInv, NEW E, NoError \notin E, NEW x, NEW y, Outcome(x, y, E), Handles(y),
         Takes(x, results', replies'), Leaves(x, y, results')
  PROVE  Fenced' /\ CurrentOK'
  <1>1. /\ Shape(y) /\ y.id = x.id /\ (Has(y, "busy") => Has(x, "busy"))
        /\ Has(y, "request_claimed") <=> Has(x, "request_claimed")
    BY DEF Outcome, Going, Sends, Answers, Silent, SameRequest
  <1>2. /\ b'.on = y.on /\ b'.id = y.id /\ b'.command = y.command
        /\ b'.document = y.document /\ b'.deferred = y.deferred
    BY <1>1, Returned DEF Handles
  <1>3. \A f : Has(b', f) <=> Has(y, f)
    BY <1>2 DEF Has
  <1>4. Fenced'
    BY <1>3 DEF Fenced, Leaves
  <1>5. ASSUME Has(b', "busy")
        PROVE  /\ Has(b', "request_claimed") /\ b'.id \in claims'
               /\ Unanswered(b.id)' /\ Unprompted(b.id)'
               /\ IF Has(b', "renderer_pending") THEN Outstanding(b, scripts, results)'
                  ELSE Still(b.id, scripts, results)'
    <2>1. Has(y, "busy") /\ Has(x, "busy") /\ b'.id = x.id
      BY <1>1, <1>2, <1>3, <1>5
    <2>2. /\ Has(x, "request_claimed") /\ x.id \in claims
          /\ Unanswered(x.id) /\ Unprompted(x.id)
      BY <2>1 DEF Takes
    <2>3. Unanswered(x.id)'
      <3>1. \A t \in Queued(io') : t \in Queued(io) \/ t.op = "stop"
        BY <2>1, HandledTasks
      <3> QED
        BY <2>2, <3>1 DEF Unanswered, Handles
    <2>4. Unprompted(x.id)'
      <3>1. \A d \in dialogs' : d \in dialogs
        BY <2>1, HandledDialogs
      <3> QED
        BY <2>2, <3>1 DEF Unprompted
    <2>5. CASE Has(x, "renderer_pending")
      <3>1. Outstanding(x, scripts, results')
        BY <2>5 DEF Takes
      <3>2. Going(x, y, E)
        BY <2>1, <2>5 DEF Outcome, Sends, Answers
      <3>3. /\ Has(y, "renderer_pending") /\ y.command = x.command
            /\ Has(y, "preflight") <=> Has(x, "preflight")
            /\ Has(y, "waiting") <=> Has(x, "waiting")
            /\ y.deferred = NoError => x.deferred = NoError /\ y.document = x.document
        BY <2>5, <3>2 DEF Going
      <3>4. scripts' = scripts /\ effects' = effects
        <4>1. ~Sends(x, y, E)
          BY <2>5 DEF Sends
        <4> QED
          BY <4>1, HandledScripts DEF Handles
      <3> HIDE DEF Handles
      <3>5. Outstanding(b, scripts, results)'
        <4>1. /\ Has(b', "preflight") <=> Has(x, "preflight")
              /\ Has(b', "waiting") <=> Has(x, "waiting")
              /\ b'.command = x.command /\ b'.id = x.id
              /\ b'.deferred = NoError => x.deferred = NoError /\ b'.document = x.document
          BY <1>2, <1>3, <2>1, <3>3
        <4>2. b'.deferred = NoError /\ ~Probe(b') => x.deferred = NoError /\ ~Probe(x)
          BY <4>1 DEF Probe
        <4> QED
          BY <3>1, <3>4, <4>1, <4>2 DEF Outstanding
      <3> QED
        BY <1>1, <1>3, <2>1, <2>2, <2>3, <2>4, <3>3, <3>5 DEF Handles
    <2>6. CASE ~Has(x, "renderer_pending")
      <3>1. Still(x.id, scripts, results')
        BY <2>1, <2>6 DEF Leaves
      <3>2. CASE ~Sends(x, y, E)
        <4>1. ~Has(y, "renderer_pending")
          BY <2>1, <2>6, <3>2 DEF Outcome, Going, Answers
        <4>2. scripts' = scripts /\ effects' = effects
          BY <3>2, HandledScripts DEF Handles
        <4>3. Still(b.id, scripts, results)'
          BY <2>1, <3>1, <4>2 DEF Still
        <4> QED
          BY <1>1, <1>3, <2>1, <2>2, <2>3, <2>4, <4>1, <4>3 DEF Handles
      <3>3. CASE Sends(x, y, E)
        <4>1. PICK s : /\ scripts' = scripts \cup {s}
                       /\ s.id = x.id /\ s.command = y.command /\ ~s.mute
                       /\ s.preflight <=> Has(y, "preflight")
                       /\ s.doc = y.document
          BY <3>3, HandledScripts
        <4>2. Has(y, "renderer_pending")
          BY <3>3 DEF Sends
        <4>3. effects' = effects
          BY DEF Handles
        <4>4. \A q \in scripts' : q.id = b'.id => q = s
          BY <2>1, <3>1, <4>1 DEF Still
        <4>5. /\ \A r \in results' : r.id # b'.id
              /\ effects'[b'.id] = 0
          BY <2>1, <3>1, <4>3 DEF Still
        <4>6. Outstanding(b, scripts, results)'
          BY <1>2, <1>3, <4>1, <4>4, <4>5 DEF Outstanding
        <4> QED
          BY <1>1, <1>3, <2>1, <2>2, <2>3, <2>4, <4>2, <4>6 DEF Handles
      <3> QED
        BY <3>2, <3>3
    <2> QED
      BY <2>5, <2>6
  <1> QED
    BY <1>4, <1>5 DEF CurrentOK

(* The scripts after the handler. *)
LEMMA HandledMutations ==
  ASSUME LInv, IInv, NEW E, NoError \notin E, NEW x, NEW y, Outcome(x, y, E), Handles(y),
         Takes(x, results', replies'), Leaves(x, y, results')
  PROVE  ScriptsOK'
  <1>1. /\ Shape(y) /\ y.id = x.id /\ (Has(y, "busy") => Has(x, "busy"))
        /\ Has(y, "quarantined") <=> Has(x, "quarantined")
    BY DEF Outcome, Going, Sends, Answers, Silent, SameRequest
  <1>2. b'.on = y.on /\ b'.id = x.id
    BY <1>1, Returned DEF Handles
  <1>3. \A f : Has(b', f) <=> Has(y, f)
    BY <1>2 DEF Has
  <1>4. /\ effects' = effects
        /\ \A s \in scripts : Mutates(s) =>
             effects[s.id] = 0 /\ (Has(x, "quarantined") \/ (Has(x, "busy") /\ s.id = x.id))
        /\ \A s, q \in scripts : Mutates(s) /\ Mutates(q) => s = q
    BY DEF Handles, Takes, LInv, WorkInv, ScriptsOK
  <1>5. CASE ~Sends(x, y, E)
    <2>1. scripts' = scripts
      BY <1>5, HandledScripts
    <2>2. \A s \in scripts : Mutates(s) =>
             Has(y, "quarantined") \/ (Has(y, "busy") /\ s.id = x.id)
      BY <1>1, <1>4 DEF Leaves
    <2> QED
      BY <1>2, <1>3, <1>4, <2>1, <2>2 DEF ScriptsOK, Mutates, ReadsOnly
  <1>6. CASE Sends(x, y, E)
    <2>1. /\ Has(x, "busy") /\ ~Has(x, "renderer_pending")
          /\ Has(y, "busy") /\ ~Has(y, "quarantined")
      BY <1>6 DEF Sends, Leaves
    <2>2. Still(x.id, scripts, results')
      BY <2>1 DEF Leaves
    <2>3. PICK s : scripts' = scripts \cup {s} /\ s.id = x.id
      BY <1>6, HandledScripts
    <2>4. \A q \in scripts : ~Mutates(q)
      BY <1>1, <1>4, <2>1, <2>2 DEF Still
    <2>5. effects[s.id] = 0
      BY <2>2, <2>3 DEF Still
    <2> QED
      BY <1>2, <1>3, <1>4, <2>1, <2>3, <2>4, <2>5 DEF ScriptsOK, Mutates, ReadsOnly
  <1> QED
    BY <1>5, <1>6

(* A handler keeps the invariant. *)
LEMMA HandlerKeeps ==
  ASSUME LInv, IInv, NEW E, NoError \notin E, NEW x, NEW y, Outcome(x, y, E), Handles(y),
         Takes(x, results', replies'), Leaves(x, y, results')
  PROVE  LInv'
  <1>1. RespondOnce' /\ Fenced' /\ CurrentOK' /\ ScriptsOK'
    BY HandledTasks, HandledCurrent, HandledMutations
  <1>2. UNCHANGED <<claims, archive, effects, answer>>
    BY DEF Handles
  <1>3. Untouched'
    <2> SUFFICES ASSUME NEW i \in Ids \ claims
                 PROVE  Fresh(i)'
      BY <1>2 DEF Untouched
    <2>1. Fresh(i) /\ ~(Has(x, "busy") /\ x.id = i)
      BY DEF LInv, WorkInv, Untouched, Takes
    <2> QED
      BY <2>1, HandledOthers
  <1>4. Queued(replies') \subseteq Queued(replies)
    BY RepliesLeft DEF Handles
  <1>5. FreshOK'
    <2> SUFFICES ASSUME NEW t \in Queued(replies'), t.op = "read", t.fresh
                 PROVE  t.data # Nil /\ t.data.id \in claims /\ Fresh(t.data.id)'
      BY <1>2 DEF FreshOK
    <2>1. t.data # Nil /\ t.data.id \in claims /\ Fresh(t.data.id)
      BY <1>4 DEF LInv, QueueInv, FreshOK
    <2>2. ~(Has(x, "busy") /\ x.id = t.data.id)
      BY DEF Takes
    <2> DEFINE i == t.data.id
    <2> HIDE DEF i
    <2>3. Fresh(i)'
      BY <2>1, <2>2, HandledOthers DEF i
    <2> QED
      BY <2>1, <2>3 DEF i
  <1>6. CachedOK'
    BY <1>2, <1>4 DEF LInv, QueueInv, CachedOK
  <1>7. \A t \in Queued(io') :
              \/ t \in Queued(io) \/ t.op = "stop"
              \/ /\ Has(x, "busy") /\ ~Has(y, "busy")
                 /\ t.op = "respond" /\ t.answer.id = x.id /\ Said(y, t.answer)
    BY HandledTasks
  <1>8. RewriteOK'
    BY <1>2, <1>7 DEF LInv, QueueInv, RewriteOK
  <1>9. ASSUME NEW a, Honest(a, scripts), ~(Has(x, "busy") /\ x.id = a.id)
        PROVE  Honest(a, scripts)'
    <2> DEFINE i == a.id
    <2> HIDE DEF i
    <2>1. \A c : c.id = i /\ Honest(c, scripts) => Honest(c, scripts)'
      BY <1>9, HandledOthers DEF i
    <2> QED
      BY <1>9, <2>1 DEF i
  <1>10. RespondOK'
    <2> SUFFICES ASSUME NEW t \in Queued(io'), t.op = "respond", t.answer.persisted
                 PROVE  archive[t.answer.id] = Nil /\ Honest(t.answer, scripts)'
      BY <1>2 DEF RespondOK
    <2>1. CASE t \in Queued(io)
      <3>1. archive[t.answer.id] = Nil /\ Honest(t.answer, scripts)
        BY <2>1 DEF LInv, QueueInv, RespondOK
      <3>2. ~(Has(x, "busy") /\ x.id = t.answer.id)
        BY <2>1 DEF Takes, Unanswered
      <3> QED
        BY <1>9, <3>1, <3>2
    <2>2. CASE t \notin Queued(io)
      <3>1. Has(x, "busy") /\ ~Has(y, "busy") /\ t.answer.id = x.id /\ Said(y, t.answer)
        BY <1>7, <2>2
      <3>2. Honest(t.answer, scripts)
        BY <3>1 DEF Leaves
      <3>3. archive[x.id] = Nil
        BY <3>1 DEF Takes, Unanswered
      <3>4. scripts' = scripts /\ effects' = effects
        <4>1. ~Sends(x, y, E)
          BY <3>1 DEF Sends
        <4> QED
          BY <4>1, <1>2, HandledScripts
      <3>5. Honest(t.answer, scripts)'
        BY <3>2, <3>4 DEF Honest
      <3> QED
        BY <3>1, <3>3, <3>5
    <2> QED
      BY <2>1, <2>2
  <1>11. ArchiveOK'
    <2> SUFFICES ASSUME NEW i \in Ids, archive[i] # Nil
                 PROVE  archive[i].id = i /\ archive[i].persisted /\ Honest(archive[i], scripts)'
      BY <1>2 DEF ArchiveOK
    <2>1. archive[i].id = i /\ archive[i].persisted /\ Honest(archive[i], scripts)
      BY DEF LInv, RecordInv, ArchiveOK
    <2>2. ~(Has(x, "busy") /\ x.id = i)
      BY DEF Takes, Unanswered
    <2>3. PICK a : a = archive[i]
      OBVIOUS
    <2>4. Honest(a, scripts)'
      BY <1>9, <2>1, <2>2, <2>3
    <2> QED
      BY <1>2, <2>1, <2>3, <2>4 DEF Honest
  <1>12. AtMostOnceEffect' /\ ReceiptIsArchived'
    BY <1>2 DEF LInv, RecordInv, AtMostOnceEffect, ReceiptIsArchived
  <1> QED
    BY <1>1, <1>3, <1>5, <1>6, <1>8, <1>10, <1>11, <1>12 DEF LInv, QueueInv, WorkInv, RecordInv

(* Only an answer is said. *)
LEMMA SaidAnswers ==
  ASSUME NEW E, NEW x, NEW y, Outcome(x, y, E), NEW a, Said(y, a)
  PROVE  Answers(x, y, E)
  <1> SUFFICES ASSUME ~Answers(x, y, E)
               PROVE  FALSE
    OBVIOUS
  <1>1. y.post \in Seq(HandlerTask) /\ StopsOnly(y.post, E)
    BY DEF Outcome, Going, Sends, Silent
  <1>2. PICK p \in Seq(HandlerTask) : y.post = Append(p, [op |-> "respond", answer |-> a])
    BY DEF Said
  <1> DEFINE e == [op |-> "respond", answer |-> a]
             S == HandlerTask \cup {e}
  <1>3. p \in Seq(S) /\ e \in S
    <2>1. HandlerTask \subseteq S
      OBVIOUS
    <2> HIDE DEF S
    <2> QED
      BY <2>1, SeqMonotonic DEF S
  <1>4. e.op = "respond" /\ y.post = Append(p, e)
    BY <1>2
  <1> HIDE DEF S, e
  <1>5. Len(y.post) = Len(p) + 1 /\ y.post[Len(p) + 1] = e /\ Len(p) \in Nat
    BY <1>3, <1>4, AppendProperties, LenProperties
  <1>6. y.post[Len(p) + 1].op = "stop"
    BY <1>1, <1>5 DEF StopsOnly
  <1> QED
    BY <1>4, <1>5, <1>6

(* The members as they are when a handler begins. *)
LEMMA MembersFull ==
  ASSUME IInv
  PROVE  /\ Full(b) /\ Clean(b)
         /\ b.prompt # Nil => Has(b, "busy") /\ b.prompt.id = b.id
         /\ Has(b, "renderer_pending") => Has(b, "busy")
         /\ Has(b, "busy") => ~Has(b, "writing_response") /\ ~Has(b, "reading") /\ b.id \in Ids
         /\ Has(b, "reading") => ~Has(b, "busy") /\ ~Has(b, "writing_response")
         /\ b.deferred = NoError \/ b.deferred \in ErrorCode
  BY DEF IInv, BridgeInv, Full, Base, Members

(* A handler that goes on from the members as they are. *)
LEMMA TakesMembers ==
  ASSUME LInv, IInv, results' \subseteq results, Queued(replies') \subseteq Queued(replies)
  PROVE  Takes(b, results', replies')
  <1>1. Has(b, "busy") => \A t \in Queued(replies') : t.op = "read" /\ t.fresh => t.data.id # b.id
    BY DEF LInv, QueueInv, FreshOK, Fresh
  <1>2. Has(b, "renderer_pending") => Outstanding(b, scripts, results')
    <2>1. Has(b, "renderer_pending") => Outstanding(b, scripts, results)
      BY MembersFull DEF LInv, WorkInv, CurrentOK
    <2> QED
      BY <2>1 DEF Outstanding
  <1>3. Has(b, "busy") =>
          Has(b, "request_claimed") /\ b.id \in claims /\ Unanswered(b.id) /\ Unprompted(b.id)
    BY DEF LInv, WorkInv, CurrentOK
  <1>4. \A s \in scripts : Mutates(s) =>
          effects[s.id] = 0 /\ (Has(b, "quarantined") \/ (Has(b, "busy") /\ s.id = b.id))
    BY DEF LInv, WorkInv, ScriptsOK
  <1> QED
    BY <1>1, <1>2, <1>3, <1>4, MembersFull DEF Takes

(* What a handler that starts from the members leaves behind. *)
LEMMA LeavesMembers ==
  ASSUME LInv, IInv, NEW E, NEW y, Outcome(b, y, E), results' \subseteq results
  PROVE  Leaves(b, y, results')
  <1>1. Has(b, "busy") /\ ~Has(b, "renderer_pending") => Still(b.id, scripts, results)
    BY DEF LInv, WorkInv, CurrentOK
  <1>2. /\ Has(y, "quarantined") <=> Has(b, "quarantined")
        /\ Has(y, "reading") <=> Has(b, "reading")
        /\ Has(y, "busy") => Has(b, "busy")
    BY DEF Outcome, SameRequest, Going, Sends, Answers
  <1>3. Has(b, "quarantined") => ~Has(b, "busy") /\ ~Has(b, "reading")
    BY DEF LInv, WorkInv, Fenced
  <1>4. \A s \in scripts : Mutates(s) => Has(b, "quarantined") \/ (Has(b, "busy") /\ s.id = b.id)
    BY DEF LInv, WorkInv, ScriptsOK
  <1>5. Has(b, "busy") /\ ~Has(y, "busy") => Answers(b, y, E)
    BY DEF Outcome, Going, Sends
  <1>6. ~Has(y, "busy") => \A s \in scripts : Mutates(s) => Has(y, "quarantined")
    <2>1. Answers(b, y, E) => Has(b, "busy") /\ ~Has(b, "renderer_pending")
      BY DEF Answers
    <2> QED
      BY <1>1, <1>2, <1>4, <1>5, <2>1 DEF Still
  <1>7. Has(y, "busy") /\ ~Has(b, "renderer_pending") => Still(b.id, scripts, results')
    BY <1>1, <1>2 DEF Still
  <1>8. ASSUME NEW a, Said(y, a)
        PROVE  Honest(a, scripts)
    <2>1. Answers(b, y, E)
      BY <1>8, SaidAnswers
    <2>2. PICK p, c :
             /\ p \in Seq(HandlerTask)
             /\ y.post = Append(p, [op |-> "respond", answer |-> c]) /\ IsAnswer(b, y, c, E)
      BY <2>1 DEF Answers
    <2>3. c.id = b.id /\ a = c
      BY <1>8, <2>2, SaidOnce DEF Said, IsAnswer
    <2> QED
      BY <1>1, <2>1, <2>3 DEF Honest, Still, Answers
  <1> QED
    BY <1>2, <1>3, <1>6, <1>7, <1>8 DEF Leaves

(* A handler that goes on with the request as it is keeps the invariant. *)
LEMMA Keeping ==
  ASSUME LInv, IInv, NEW E, NoError \notin E, NEW y, Outcome(b, y, E), Handles(y)
  PROVE  LInv'
  <1>1. results' \subseteq results /\ Queued(replies') \subseteq Queued(replies)
    BY RepliesLeft DEF Handles
  <1> QED
    BY <1>1, TakesMembers, LeavesMembers, HandlerKeeps

(* The members say nothing yet. *)
LEMMA MembersSilent ==
  ASSUME IInv, NEW E
  PROVE  /\ Silent(b, E) /\ Outcome(b, b, E) /\ Going(b, b, E)
         /\ NoError \notin ErrorCode /\ Ordinary \subseteq ErrorCode
         /\ StopReasons \cup {Unreadable} \subseteq ErrorCode
         /\ "user_cancelled" \in ErrorCode /\ "wait_cancelled" \in ErrorCode
  <1>1. Silent(b, E)
    BY MembersFull, FullSilent
  <1>2. "user_cancelled" \in ErrorCode /\ "wait_cancelled" \in ErrorCode
    BY DEF ErrorCode, StopReasons
  <1> QED
    BY <1>1, <1>2, SilentGoing, ErrorCodes DEF Ordinary

(* Handlers that leave the replies, the results and the files alone. *)
LEMMA ReturnHandles ==
  ASSUME NEW y, Return(y), replies' = replies \/ (replies # <<>> /\ replies' = Tail(replies)),
         results' \subseteq results, UNCHANGED <<diskVars, effects>>
  PROVE  Handles(y)
  BY DEF Return, Handles, diskVars

(* A handler that goes on from the members, or ends their request, keeps LInv. *)
LEMMA PlainKeeping ==
  ASSUME LInv, IInv, NEW y, Outcome(b, y, ErrorCode), Return(y),
         replies' = replies \/ (replies # <<>> /\ replies' = Tail(replies)),
         results' \subseteq results, UNCHANGED <<diskVars, effects>>
  PROVE  LInv'
  BY ReturnHandles, Keeping, ErrorCodes

(* What the result of the script says about the request. *)
LEMMA ResultIn ==
  ASSUME LInv, IInv, NEW r \in results, r.id = b.id, Has(b, "busy"), Has(b, "renderer_pending"),
         results' = results \ {r}, NEW z, Settled(b, z, r.result.kind)
  PROVE  /\ \A s \in scripts : s.id = b.id => r.result.kind = "none"
         /\ \A q \in results' : q.id # b.id
         /\ \A s \in scripts : Mutates(s) => Has(z, "quarantined")
         /\ effects[b.id] > 0 => /\ b.command \in Acting /\ ~Has(b, "preflight") /\ ~Has(b, "waiting")
                                 /\ r.result.kind \in {"nodes", "partial", "none"}
                                 /\ b.deferred # NoError \/ r.doc = b.document
         /\ effects[b.id] \in Nat
  <1>1. Outstanding(b, scripts, results)
    BY DEF LInv, WorkInv, CurrentOK
  <1>2. \A s \in scripts : s.id = b.id => r.result.kind = "none"
    BY <1>1 DEF Outstanding, NoResult
  <1>3. \A q \in results' : q.id # b.id
    BY <1>1 DEF Outstanding
  <1>4. \A s \in scripts : Mutates(s) => Has(b, "quarantined") \/ s.id = b.id
    BY DEF LInv, WorkInv, ScriptsOK
  <1>5. \A s \in scripts : Mutates(s) => Has(z, "quarantined")
    BY <1>2, <1>4 DEF Settled
  <1>6. b.command \in Acting /\ ~Has(b, "preflight") => ~Has(b, "waiting") /\ ~Probe(b)
    BY MembersFull DEF Full, Base, Acting, Probe
  <1>7. effects[b.id] > 0 => /\ b.command \in Acting /\ ~Has(b, "preflight") /\ ~Has(b, "waiting")
                             /\ r.result.kind \in {"nodes", "partial", "none"}
                             /\ b.deferred # NoError \/ r.doc = b.document
    BY <1>1, <1>6 DEF Outstanding
  <1>8. effects[b.id] \in Nat
    BY MembersFull DEF IInv, HistoryType
  <1> QED
    BY <1>2, <1>3, <1>5, <1>7, <1>8

(* The result of a script reaches the bridge. *)
LEMMA DeliverResultKeeps ==
  ASSUME LInv, IInv, NEW r \in results, DeliverResult(r)
  PROVE  LInv'
  <1>1. PICK shown \in PromptShown : Return(Observed(b, r.id, r.doc, r.result, shown))
    BY DEF DeliverResult
  <1>2. /\ results' = results \ {r} /\ replies' = replies
        /\ UNCHANGED <<diskVars, effects>>
    BY DEF DeliverResult, historyVars
  <1> DEFINE w == Observed(b, r.id, r.doc, r.result, shown)
             doc == r.doc
             result == r.result
             y == Observed(b, b.id, doc, result, shown)
             z == Settle(b, result)
  <1>3. CASE ~Has(b, "busy") \/ r.id # b.id \/ ~Has(b, "renderer_pending")
    <2>1. w = b
      BY <1>3 DEF Observed
    <2> QED
      BY <1>1, <1>2, <2>1, MembersSilent, PlainKeeping
  <1>4. CASE Has(b, "busy") /\ r.id = b.id /\ Has(b, "renderer_pending")
    <2>1. /\ result.kind \in {"none", "error", "text", "preflight", "nodes", "partial"}
          /\ shown \in BOOLEAN
      BY PromptAssumption DEF IInv, FlightType, ScriptResult, Result
    <2> DEFINE E == ErrorCode
    <2>2. /\ Full(b) /\ Clean(b)
          /\ b.deferred = NoError \/ b.deferred \in E
          /\ Ordinary \subseteq E /\ NoError \notin E /\ "user_cancelled" \in E
      BY MembersFull, MembersSilent
    <2> HIDE DEF E, doc, result
    <2>3. /\ Ready(z, E) /\ Settled(b, z, result.kind) /\ Outcome(z, y, E)
          /\ result.kind = "none" => ~Has(y, "busy")
          /\ Has(y, "busy") => Has(b, "preflight") \/ Has(b, "waiting")
          /\ /\ result.kind \in {"nodes", "partial"}
             /\ ~Has(b, "preflight") /\ ~Has(b, "waiting")
             /\ b.deferred # NoError \/ doc = b.document
             => Truthful(y)
      BY <1>4, <2>1, <2>2, ObservedOutcome, SMTT(30)
    <2> HIDE DEF y, z
    <2>4. /\ \A s \in scripts : s.id = b.id => r.result.kind = "none"
          /\ \A q \in results' : q.id # b.id
          /\ \A s \in scripts : Mutates(s) => Has(z, "quarantined")
          /\ effects[b.id] > 0 =>
               /\ b.command \in Acting /\ ~Has(b, "preflight") /\ ~Has(b, "waiting")
               /\ r.result.kind \in {"nodes", "partial", "none"}
               /\ b.deferred # NoError \/ r.doc = b.document
          /\ effects[b.id] \in Nat
      BY <1>2, <1>4, <2>3, ResultIn DEF doc, result
    <2>5. Takes(z, results', replies')
      <3>1. Takes(b, results', replies')
        BY <1>2, TakesMembers
      <3>2. /\ z.id = b.id /\ z.prompt = b.prompt /\ ~Has(z, "renderer_pending")
            /\ Has(z, "busy") <=> Has(b, "busy")
            /\ Has(z, "request_claimed") <=> Has(b, "request_claimed")
            /\ Has(z, "writing_response") <=> Has(b, "writing_response")
        BY <2>3 DEF Settled, Flag
      <3> QED
        BY <2>4, <3>1, <3>2 DEF Takes
    <2>6. /\ z.id = b.id /\ ~Has(z, "renderer_pending")
          /\ Has(y, "quarantined") <=> Has(z, "quarantined")
          /\ ~Has(y, "reading")
      <3>1. ~Has(b, "reading") /\ (Has(z, "reading") <=> Has(b, "reading"))
        BY <1>4, <2>3, MembersFull DEF Settled, Flag
      <3> QED
        BY <2>3, <3>1 DEF Settled, Outcome, SameRequest
    <2>7. Has(z, "quarantined") <=> r.result.kind = "none"
      BY <1>4, <2>3 DEF Settled, LInv, WorkInv, Fenced, result
    <2>8. Has(y, "busy") => Still(z.id, scripts, results')
      BY <2>3, <2>4, <2>6 DEF Still, result
    <2>9. ASSUME NEW a, Said(y, a)
          PROVE  Honest(a, scripts)
      <3>1. Answers(z, y, E)
        BY <2>3, <2>9, SaidAnswers
      <3>2. PICK p, c :
               /\ p \in Seq(HandlerTask)
               /\ y.post = Append(p, [op |-> "respond", answer |-> c]) /\ IsAnswer(z, y, c, E)
        BY <3>1 DEF Answers
      <3>3. a = c /\ a.id = b.id /\ (a.settled <=> ~Has(z, "quarantined"))
        BY <2>6, <2>9, <3>2, SaidOnce DEF Said, IsAnswer
      <3> QED
        BY <2>3, <2>4, <2>7, <2>9, <3>3 DEF Honest, Truthful, doc, result
    <2>10. Leaves(z, y, results')
      BY <2>3, <2>4, <2>6, <2>7, <2>8, <2>9 DEF Leaves, result
    <2>11. Handles(y)
      BY <1>1, <1>2, <1>4, ReturnHandles DEF y, doc, result
    <2> QED
      BY <2>2, <2>3, <2>5, <2>10, <2>11, HandlerKeeps
  <1> QED
    BY <1>3, <1>4

(* No request is in hand, before the handler and after it. *)
LEMMA Resting ==
  ASSUME LInv, IInv, NEW y, Full(y), Return(y), ~Has(b, "busy"), ~Has(y, "busy"),
         ~Has(y, "reading"), Has(b, "quarantined") => Has(y, "quarantined"),
         replies # <<>> /\ replies' = Tail(replies),
         UNCHANGED <<results, diskVars, effects>>,
         RespondOnce',
         y.sent = {}, y.closed = {},
         \A t \in Queued(io') : t \in Queued(io) \/ Harmless(t)
  PROVE  LInv'
  <1>1. b'.on = y.on
    BY ReturnedFull DEF Return
  <1>2. /\ Has(b, "busy") <=> Has(b', "busy")
        /\ ~Has(b', "reading") /\ (Has(b, "quarantined") => Has(b', "quarantined"))
        /\ ~Has(b', "busy")
    BY <1>1 DEF Has
  <1>3. Fenced'
    BY <1>2 DEF Fenced
  <1>4. Queued(replies') \subseteq Queued(replies)
    BY RepliesLeft
  <1>5. scripts' = scripts /\ dialogs' = dialogs
    BY DEF Return
  <1> QED
    BY <1>2, <1>3, <1>4, <1>5, Frame DEF diskVars

(* A request that was claimed for this reply begins. *)
LEMMA BeginsKeeps ==
  ASSUME LInv, IInv, replies # <<>>, replies' = Tail(replies), NEW r, r = Head(replies),
         r.op = "read", r.data # Nil, r.fresh, NEW E, NoError \notin E, NEW z, NEW y,
         Begins(b, r.data, z, E), Outcome(z, y, E), Return(y),
         UNCHANGED <<results, diskVars, effects>>
  PROVE  LInv'
  <1>1. Has(b, "reading") /\ Quiet(replies') /\ replies' \in Seq(AnyReply)
    BY HeadOfReplies
  <1>2. ~Has(b, "busy") /\ ~Has(b, "writing_response") /\ ~Has(b, "quarantined")
    BY <1>1, MembersFull DEF LInv, WorkInv, Fenced
  <1>3. r.data.id \in claims /\ Fresh(r.data.id)
    <2>1. r \in Queued(replies)
      BY QueueTypes, TailQueue
    <2> QED
      BY <2>1 DEF LInv, QueueInv, FreshOK
  <1>4. \A t \in Queued(replies') : t.op # "read"
    BY <1>1 DEF Quiet, IsRead, Queued
  <1>5. \A s \in scripts : ~Mutates(s)
    BY <1>2 DEF LInv, WorkInv, ScriptsOK
  <1>6. /\ z.id = r.data.id /\ Has(z, "busy") /\ Has(z, "request_claimed")
        /\ ~Has(z, "writing_response") /\ ~Has(z, "reading") /\ ~Has(z, "renderer_pending")
        /\ ~Has(z, "quarantined") /\ z.prompt = Nil
    BY <1>2 DEF Begins, Begun, Ready
  <1>7. Still(z.id, scripts, results) /\ Unanswered(z.id) /\ Unprompted(z.id) /\ z.id \in claims
    BY <1>3, <1>6 DEF Fresh
  <1>8. Takes(z, results', replies')
    BY <1>2, <1>4, <1>5, <1>6, <1>7 DEF Takes
  <1>9. ~Has(y, "quarantined")
    BY <1>6 DEF Outcome, SameRequest
  <1>10. ASSUME NEW a, Said(y, a)
         PROVE  Honest(a, scripts)
    <2>1. Answers(z, y, E)
      BY <1>10, SaidAnswers
    <2>2. PICK p, c :
             /\ p \in Seq(HandlerTask)
             /\ y.post = Append(p, [op |-> "respond", answer |-> c]) /\ IsAnswer(z, y, c, E)
      BY <2>1 DEF Answers
    <2>3. c.id = z.id /\ a = c
      BY <1>10, <2>2, SaidOnce DEF Said, IsAnswer
    <2> QED
      BY <1>7, <2>3 DEF Honest, Still
  <1>11. Leaves(z, y, results')
    BY <1>5, <1>7, <1>9, <1>10 DEF Leaves
  <1>12. Handles(y)
    BY ReturnHandles
  <1> QED
    BY <1>8, <1>11, <1>12, HandlerKeeps

(* A request, or none, reaches the bridge. *)
LEMMA ReceiveRequestKeeps ==
  ASSUME LInv, IInv, ReceiveRequest
  PROVE  LInv'
  <1> DEFINE r == Head(replies)
  <1>1. PICK shown \in PromptShown, selected \in BOOLEAN : Return(Received(b, r, shown, selected))
    BY DEF ReceiveRequest
  <1>2. /\ replies # <<>> /\ replies' = Tail(replies) /\ r.op = "read"
        /\ UNCHANGED <<results, diskVars, effects>>
    BY DEF ReceiveRequest, Reply, historyVars
  <1>3. r \in ReadReply /\ Has(b, "reading")
    BY <1>2, HeadOfReplies DEF AnyReply, ReadReply
  <1>4. /\ Full(b) /\ Clean(b) /\ ~Has(b, "busy") /\ ~Has(b, "writing_response")
        /\ shown \in BOOLEAN /\ active \in Tabs \cup {Nil}
    BY <1>3, MembersFull, PromptAssumption DEF IInv, TabType
  <1>5. r \in Queued(replies)
    BY <1>2, QueueTypes, TailQueue
  <1> HIDE DEF r
  <1> DEFINE y == Received(b, r, shown, selected)
  <1>6. Full(y)
    BY <1>3, <1>4, ReceivedFull
  <1> DEFINE E == ErrorCode
  <1>7. /\ r.stop \in StopReasons \cup {Unreadable, NoError} /\ (r.stop = NoError \/ r.stop \in E)
        /\ r.data # Nil => r.data.id \in Ids
        /\ Ordinary \subseteq E /\ NoError \notin E /\ "user_cancelled" \in E
    BY <1>3, MembersSilent DEF ReadReply, Reason, Request
  <1> HIDE DEF E
  <1>8. /\ r.data = Nil => /\ Rests(b, y, E) /\ ~Has(y, "writing_response")
                           /\ StopsOnly(y.post, E) /\ y.post \in Seq(HandlerTask)
        /\ r.data # Nil /\ r.fresh => \E z : Begins(b, r.data, z, E) /\ Outcome(z, y, E)
        /\ r.data # Nil /\ ~r.fresh =>
             /\ Rests(b, y, E)
             /\ r.cached = Nil => Disowns(y, r.data.id, E)
             /\ r.cached # Nil => Rewrites(y, r.cached, E)
    BY <1>3, <1>4, <1>7, ReceivedOutcome
  <1> HIDE DEF y
  <1>9. /\ io \in Seq(AnyTask) /\ io' = io \o y.post
        /\ Never(io, "respond") /\ Never(replies, "respond")
        /\ Never(replies', "respond") /\ Sole(replies', "respond")
        /\ "respond" # "stop"
    <2>1. Never(io, "respond") /\ Never(replies, "respond") /\ Sole(replies, "respond")
      BY <1>4 DEF LInv, QueueInv, RespondOnce
    <2> QED
      BY <1>1, <1>2, <2>1, QueueTypes, RepliesLeft DEF Return, y
  <1>10. b'.on = y.on
    BY <1>1, <1>6, ReturnedFull DEF Return, y
  <1>11. CASE r.data # Nil /\ r.fresh
    <2>1. PICK z : Begins(b, r.data, z, E) /\ Outcome(z, y, E)
      BY <1>8, <1>11
    <2>2. Return(y)
      BY <1>1 DEF y
    <2> QED
      BY <1>2, <1>7, <1>11, <2>1, <2>2, BeginsKeeps DEF r
  <1>12. CASE ~(r.data # Nil /\ r.fresh)
    <2>1. Rests(b, y, E)
      BY <1>8, <1>12
    <2>2. RespondOnce' /\ \A t \in Queued(io') : t \in Queued(io) \/ Harmless(t)
      <3>1. CASE r.data = Nil
        <4>1. /\ \A t \in Queued(io') : t \in Queued(io) \/ t.op = "stop"
              /\ Never(io', "respond") /\ Sole(io', "respond")
          <5>1. Sole(io, "respond")
            BY <1>9 DEF LInv, QueueInv, RespondOnce
          <5> QED
            BY <1>8, <1>9, <3>1, <5>1, StopsQueue
        <4> QED
          BY <1>9, <4>1 DEF RespondOnce, Harmless
      <3>2. CASE r.data # Nil /\ r.cached # Nil
        <4>1. PICK p \in Seq(HandlerTask) :
                 StopsOnly(p, E) /\ y.post = Append(p, [op |-> "rewrite", answer |-> r.cached])
          BY <1>8, <1>12, <3>2 DEF Rewrites
        <4> DEFINE e == [op |-> "rewrite", answer |-> r.cached]
        <4>2. e.op # "respond" /\ Harmless(e) /\ y.post = Append(p, e)
          BY <1>2, <1>5, <3>2, <4>1 DEF Harmless, LInv, QueueInv, CachedOK
        <4> HIDE DEF e
        <4> DEFINE op == "respond"
        <4> HIDE DEF op
        <4>3. /\ \A t \in Queued(io') : t \in Queued(io) \/ t.op = "stop" \/ t = e
              /\ Never(io', op) /\ Sole(io', op)
          <5>1. op # "stop" /\ Never(io, op) /\ e.op # op
            BY <1>9, <4>2 DEF op
          <5>2. StopsOnly(p, E) /\ io' = io \o Append(p, e) /\ io \in Seq(AnyTask)
            BY <1>9, <4>1, <4>2
          <5> QED
            BY <5>1, <5>2, AnswerQueue
        <4> QED
          BY <1>9, <4>2, <4>3 DEF RespondOnce, Harmless, op
      <3>3. CASE r.data # Nil /\ r.cached = Nil
        <4>1. PICK p, a :
                 /\ p \in Seq(HandlerTask)
                 /\ StopsOnly(p, E) /\ y.post = Append(p, [op |-> "respond", answer |-> a])
                 /\ ~a.persisted
          BY <1>8, <1>12, <3>3 DEF Disowns
        <4> DEFINE e == [op |-> "respond", answer |-> a]
        <4>2. Harmless(e) /\ y.post = Append(p, e)
          BY <4>1 DEF Harmless
        <4> HIDE DEF e
        <4>3. /\ \A t \in Queued(io') : t \in Queued(io) \/ t.op = "stop" \/ t = e
              /\ Sole(io', "respond")
          BY <1>9, <4>1, <4>2, AnswerQueue
        <4>4. Has(b', "writing_response")
          BY <1>8, <1>10, <1>12, <3>3 DEF Disowns, Has
        <4> QED
          BY <1>9, <4>2, <4>3, <4>4 DEF RespondOnce, Harmless
      <3> QED
        BY <3>1, <3>2, <3>3
    <2>3. Return(y)
      BY <1>1 DEF y
    <2> QED
      BY <1>2, <1>4, <1>6, <2>1, <2>2, <2>3, Resting DEF Rests
  <1> QED
    BY <1>11, <1>12

(* Errors and stops that a step may have a reason for. *)
Acceptable(E) ==
  /\ Ordinary \subseteq E /\ NoError \notin E
  /\ b.stopped = NoError \/ b.stopped \in E
  /\ Has(b, "busy") => b.deferred = NoError \/ b.deferred \in E

(* A handler that takes one reply at most and touches no file. *)
Plainly(y) ==
  /\ Return(y)
  /\ replies' = replies \/ (replies # <<>> /\ replies' = Tail(replies))
  /\ UNCHANGED <<results, diskVars, effects>>

(* A flag that says nothing is dropped or raised before the handler proper. *)
LEMMA AsideThen ==
  ASSUME NEW E, NoError \notin E, NEW x, Silent(x, E), NEW flags \in SUBSET Aside, NEW y
  PROVE  /\ Outcome(Drop(x, flags), y, E) => Outcome(x, y, E)
         /\ Outcome(Raise(x, flags), y, E) => Outcome(x, y, E)
  <1> DEFINE d == Drop(x, flags)
             r == Raise(x, flags)
  <1>1. /\ Going(x, d, E) /\ SameRequest(x, d) /\ SameFields(x, d)
        /\ Going(x, r, E) /\ SameRequest(x, r) /\ SameFields(x, r)
    BY AsideGoing
  <1> HIDE DEF d, r
  <1>2. StopKept(x, d, E) /\ StopKept(x, r, E)
    BY <1>1 DEF SameFields, StopKept
  <1>3. Outcome(d, y, E) => Outcome(x, y, E)
    BY <1>1, <1>2, Chain
  <1>4. Outcome(r, y, E) => Outcome(x, y, E)
    BY <1>1, <1>2, Chain
  <1> QED
    BY <1>3, <1>4 DEF d, r

(* The stop comes back. *)
LEMMA ReceiveStopPlain ==
  ASSUME IInv, ReceiveStop, NEW E, Acceptable(E),
         Head(replies).stop = NoError \/ Head(replies).stop \in E
  PROVE  \E y : Outcome(b, y, E) /\ Plainly(y)
  <1> DEFINE reason == Head(replies).stop
             y == StopReceived(b, reason)
  <1>1. /\ replies # <<>> /\ replies' = Tail(replies) /\ Head(replies).op = "readstop"
        /\ Return(y) /\ UNCHANGED <<results, diskVars, effects>>
    BY DEF ReceiveStop, Reply, historyVars
  <1>2. reason \in StopReasons \cup {Unreadable, NoError}
    BY <1>1, HeadOfReplies DEF AnyReply, ReadReply, Reason
  <1> HIDE DEF reason
  <1>3. Outcome(b, y, E)
    BY <1>2, MembersSilent, StopReceivedOutcome DEF Acceptable, reason
  <1> HIDE DEF y
  <1> QED
    BY <1>1, <1>3 DEF Plainly

(* A cancellation of a wait comes back. *)
LEMMA ReceiveCancelPlain ==
  ASSUME IInv, ReceiveCancel, NEW E, Acceptable(E),
         \/ "wait_cancelled" \in E \/ Head(replies).data = Nil
         \/ ~ThisWait(b, Head(replies).data.id, Head(replies).data.doc)
  PROVE  \E y : Outcome(b, y, E) /\ Plainly(y)
  <1> DEFINE id == Head(replies).id
             data == Head(replies).data
             y == CancelWait(Drop(b, {"reading_cancel"}), id, data)
  <1>1. /\ replies # <<>> /\ replies' = Tail(replies)
        /\ Return(y) /\ UNCHANGED <<results, diskVars, effects>>
    BY DEF ReceiveCancel, Reply, historyVars
  <1>2. "wait_cancelled" \in E \/ data = Nil \/ ~ThisWait(b, data.id, data.doc)
    OBVIOUS
  <1> HIDE DEF id, data
  <1>3. Outcome(b, y, E)
    BY <1>2, MembersSilent, CancelWaitOutcome DEF Acceptable
  <1> HIDE DEF y
  <1> QED
    BY <1>1, <1>3 DEF Plainly

(* The user answers. *)
LEMMA AnswerPromptPlain ==
  ASSUME IInv, NEW accepted \in BOOLEAN, AnswerPrompt(accepted), NEW E, Acceptable(E),
         accepted \/ "user_cancelled" \in E
  PROVE  \E y : Outcome(b, y, E) /\ Plainly(y)
  <1> DEFINE id == b.prompt.id
             doc == b.prompt.doc
             y == Answered(b, id, doc, accepted)
  <1>1. /\ b.prompt # Nil /\ Return(y) /\ UNCHANGED <<replies, results, diskVars, effects>>
    BY DEF AnswerPrompt
  <1>2. ~Has(b, "renderer_pending")
    BY <1>1, MembersFull DEF Full
  <1> HIDE DEF id, doc
  <1>3. Outcome(b, y, E)
    BY <1>2, MembersSilent, AnsweredOutcome DEF Acceptable
  <1> HIDE DEF y
  <1> QED
    BY <1>1, <1>3 DEF Plainly

(* The timers of the request in hand. *)
LEMMA TimersPlain ==
  ASSUME IInv, DeadlineFires \/ WaitLimitFires \/ WakeupFires, NEW E, Acceptable(E)
  PROVE  \E y : Outcome(b, y, E) /\ Plainly(y)
  <1>1. /\ Ordinary \subseteq E /\ NoError \notin E /\ Silent(b, E)
        /\ "request_expired" \in E
    BY MembersSilent DEF Acceptable, Ordinary, ErrorCode
  <1>2. /\ {"deadline"} \in SUBSET Aside /\ {"wait_wakeup"} \in SUBSET Aside
        /\ {"wait_limit_armed"} \in SUBSET Aside /\ {"wait_limit_reached"} \in SUBSET Aside
    BY DEF Aside
  <1>3. CASE DeadlineFires
    <2> DEFINE d == Drop(b, {"deadline"})
               y == Error(d, "request_expired")
    <2>1. Silent(d, E)
      BY <1>1, <1>2, AsideGoing DEF Going
    <2>2. Outcome(d, y, E)
      BY <1>1, <2>1, ErrorOutcome
    <2>3. Outcome(b, y, E)
      BY <1>1, <1>2, <2>2, AsideThen
    <2>4. Plainly(y)
      BY <1>3 DEF DeadlineFires, Fires, Plainly, historyVars
    <2> QED
      BY <2>3, <2>4
  <1>4. CASE WaitLimitFires
    <2> DEFINE d == Drop(b, {"wait_limit_armed"})
               r == Raise(d, {"wait_limit_reached"})
               y == WakeWait(r)
    <2>1. Silent(d, E)
      BY <1>1, <1>2, AsideGoing DEF Going
    <2> HIDE DEF d
    <2>2. Silent(r, E)
      BY <1>1, <1>2, <2>1, AsideGoing DEF Going
    <2> HIDE DEF r
    <2>3. Outcome(r, y, E)
      BY <2>2, WakeWaitOutcome
    <2> HIDE DEF y
    <2>4. Outcome(d, y, E)
      BY <1>1, <1>2, <2>1, <2>3, AsideThen DEF r
    <2>5. Outcome(b, y, E)
      BY <1>1, <1>2, <2>4, AsideThen DEF d
    <2>6. Plainly(y)
      BY <1>4 DEF WaitLimitFires, Fires, Plainly, historyVars, y, r, d
    <2> QED
      BY <2>5, <2>6
  <1>5. CASE WakeupFires
    <2> DEFINE d == Drop(b, {"wait_wakeup"})
               y == Execute(d)
    <2>1. Silent(d, E)
      BY <1>1, <1>2, AsideGoing DEF Going
    <2>2. Outcome(d, y, E)
      BY <1>1, <2>1, ExecuteOutcome
    <2>3. Outcome(b, y, E)
      BY <1>1, <1>2, <2>2, AsideThen
    <2>4. Plainly(y)
      BY <1>5 DEF WakeupFires, Fires, Plainly, historyVars
    <2> QED
      BY <2>3, <2>4
  <1> QED
    BY <1>3, <1>4, <1>5

(* The cancellation of the tab's menu runs. *)
LEMMA RunWaitCancelPlain ==
  ASSUME IInv, RunWaitCancel, NEW E, Acceptable(E),
         "wait_cancelled" \in E \/ ~ThisWait(b, uiCancel.id, uiCancel.doc)
  PROVE  \E y : Outcome(b, y, E) /\ Plainly(y)
  <1> DEFINE y == IF ThisWait(b, uiCancel.id, uiCancel.doc) /\ active = b.tab
                  THEN Error(b, "wait_cancelled") ELSE b
  <1>1. Plainly(y)
    BY DEF RunWaitCancel, Plainly
  <1>2. Outcome(b, y, E)
    <2>1. Silent(b, E) /\ Outcome(b, b, E)
      BY MembersSilent
    <2>2. "wait_cancelled" \in E => Outcome(b, Error(b, "wait_cancelled"), E)
      BY <2>1, ErrorOutcome DEF Acceptable
    <2> QED
      BY <2>1, <2>2
  <1> QED
    BY <1>1, <1>2

(* The window and the user, but for navigations. *)
LEMMA WindowPlain ==
  ASSUME IInv, NEW E, Acceptable(E),
         \/ \E t \in Tabs : CloseTab(t) \/ ActivateTab(t)
         \/ StopLoading \/ UserInteracts \/ AccessibilityEvent
  PROVE  \E y : Outcome(b, y, E) /\ Plainly(y)
  <1>1. /\ Ordinary \subseteq E /\ NoError \notin E /\ Silent(b, E) /\ "tab_changed" \in E
        /\ Outcome(b, b, E)
        /\ Has(b, "busy") => b.deferred = NoError \/ b.deferred \in E
    BY MembersSilent DEF Acceptable, Ordinary, ErrorCode
  <1>2. ASSUME NEW t \in Tabs, CloseTab(t)
        PROVE  \E y : Outcome(b, y, E) /\ Plainly(y)
    <2>1. Outcome(b, TabClosed(b, t), E)
      BY <1>1, TabClosedOutcome
    <2>2. Plainly(TabClosed(b, t))
      BY <1>2 DEF CloseTab, Plainly
    <2> QED
      BY <2>1, <2>2
  <1>3. ASSUME NEW t \in Tabs, ActivateTab(t)
        PROVE  \E y : Outcome(b, y, E) /\ Plainly(y)
    <2> DEFINE y == IF active = b.tab /\ Has(b, "waiting") THEN Error(b, "tab_changed") ELSE b
    <2>1. Outcome(b, Error(b, "tab_changed"), E)
      BY <1>1, ErrorOutcome
    <2>2. Outcome(b, y, E)
      BY <1>1, <2>1
    <2>3. Plainly(y)
      BY <1>3 DEF ActivateTab, Plainly, historyVars
    <2> QED
      BY <2>2, <2>3
  <1>4. ASSUME StopLoading
        PROVE  \E y : Outcome(b, y, E) /\ Plainly(y)
    <2>1. ~(Has(b, "navigating") /\ Has(b, "renderer_pending"))
      BY MembersFull DEF Full, Base
    <2>2. Outcome(b, StoppedLoading(b), E)
      BY <1>1, <2>1, StoppedLoadingOutcome
    <2>3. Plainly(StoppedLoading(b))
      BY <1>4 DEF StopLoading, Plainly, historyVars
    <2> QED
      BY <2>2, <2>3
  <1>5. ASSUME UserInteracts
        PROVE  \E y : Outcome(b, y, E) /\ Plainly(y)
    <2>1. Outcome(b, UserTookOver(b), E)
      BY <1>1, UserTookOverOutcome
    <2>2. Plainly(UserTookOver(b))
      BY <1>5 DEF UserInteracts, Plainly, historyVars
    <2> QED
      BY <2>1, <2>2
  <1>6. ASSUME AccessibilityEvent
        PROVE  \E y : Outcome(b, y, E) /\ Plainly(y)
    <2>1. Outcome(b, WakeWait(b), E)
      BY <1>1, WakeWaitOutcome
    <2>2. Plainly(WakeWait(b))
      BY <1>6 DEF AccessibilityEvent, Plainly, historyVars
    <2> QED
      BY <2>1, <2>2
  <1> QED
    BY <1>2, <1>3, <1>4, <1>5, <1>6

(* A handler that goes on with the request as it is keeps the invariant. *)
LEMMA PlainKeeps ==
  ASSUME LInv, IInv,
         \/ ReceiveStop \/ ReceiveCancel \/ \E accepted \in BOOLEAN : AnswerPrompt(accepted)
         \/ DeadlineFires \/ WaitLimitFires \/ WakeupFires \/ RunWaitCancel
         \/ \E t \in Tabs : CloseTab(t) \/ ActivateTab(t)
         \/ StopLoading \/ UserInteracts \/ AccessibilityEvent
  PROVE  LInv'
  <1> DEFINE E == ErrorCode
  <1>1. /\ Acceptable(E) /\ "user_cancelled" \in E /\ "wait_cancelled" \in E
        /\ StopReasons \cup {Unreadable} \subseteq E
    <2>1. b.stopped \in Reason
      BY MembersFull DEF Full, Base, Members
    <2> QED
      BY <2>1, MembersFull, MembersSilent DEF Acceptable, Reason
  <1>2. ReceiveStop => Head(replies).stop = NoError \/ Head(replies).stop \in E
    <2>1. ReceiveStop => Head(replies).stop \in Reason
      BY HeadOfReplies DEF ReceiveStop, Reply, AnyReply, ReadReply
    <2> QED
      BY <1>1, <2>1 DEF Reason
  <1> HIDE DEF E
  <1>3. ASSUME NEW y, Outcome(b, y, E) /\ Plainly(y)
        PROVE  LInv'
    BY <1>3, PlainKeeping DEF Plainly, E
  <1>4. ReceiveStop => LInv'
    BY <1>1, <1>2, <1>3, ReceiveStopPlain
  <1>5. ReceiveCancel => LInv'
    BY <1>1, <1>3, ReceiveCancelPlain
  <1>6. (\E accepted \in BOOLEAN : AnswerPrompt(accepted)) => LInv'
    BY <1>1, <1>3, AnswerPromptPlain
  <1>7. DeadlineFires \/ WaitLimitFires \/ WakeupFires => LInv'
    BY <1>1, <1>3, TimersPlain
  <1>8. RunWaitCancel => LInv'
    BY <1>1, <1>3, RunWaitCancelPlain
  <1>9. (\/ \E t \in Tabs : CloseTab(t) \/ ActivateTab(t)
         \/ StopLoading \/ UserInteracts \/ AccessibilityEvent) => LInv'
    BY <1>1, <1>3, WindowPlain
  <1> QED
    BY <1>4, <1>5, <1>6, <1>7, <1>8, <1>9

(* A navigation that does not wait for the callback of a probe. *)
LEMMA NavigateTabKeeps ==
  ASSUME LInv, IInv, NEW t \in Tabs, NEW origin, NEW same, NavigateTab(t, origin, same)
  PROVE  LInv'
  <1> DEFINE E == ErrorCode
             y == NavigatedTab(b, t, origin)
             z == Unprobed(b)
  <1>1. /\ Return(y) /\ UNCHANGED <<replies, results, diskVars, effects>>
    BY DEF NavigateTab, NavigatedTab
  <1>2. /\ Full(b) /\ Clean(b) /\ Silent(b, E)
        /\ b.deferred = NoError \/ b.deferred \in E
        /\ Ordinary \subseteq E /\ NoError \notin E
    BY MembersFull, MembersSilent
  <1> HIDE DEF E
  <1>3. \/ Outcome(b, y, E)
        \/ /\ Has(b, "busy") /\ Has(b, "renderer_pending") /\ Probe(b)
           /\ Outcome(z, y, E) /\ ~Has(y, "busy")
    BY <1>2, NavigatedTabOutcome
  <1> HIDE DEF y
  <1>4. CASE Outcome(b, y, E)
    <2>1. Outcome(b, y, ErrorCode)
      BY <1>4 DEF E
    <2> QED
      BY <1>1, <2>1, PlainKeeping
  <1>5. CASE /\ Has(b, "busy") /\ Has(b, "renderer_pending") /\ Probe(b)
             /\ Outcome(z, y, E) /\ ~Has(y, "busy")
    <2>1. /\ SameFields(b, z) /\ ~Has(z, "renderer_pending")
          /\ \A f : f # "renderer_pending" => (Has(z, f) <=> Has(b, f))
      BY <1>2, UnprobedFields
    <2> HIDE DEF z
    <2>2. Outstanding(b, scripts, results) /\ ~Has(b, "quarantined")
      BY <1>5 DEF LInv, WorkInv, CurrentOK, Fenced
    <2>3. ~(b.command \in Acting /\ ~Has(b, "preflight"))
      BY <1>5, MembersFull DEF Probe, Full, Base, Acting
    <2>4. effects[b.id] = 0
      <3>1. effects[b.id] \in Nat
        BY <1>5, MembersFull DEF IInv, HistoryType
      <3> QED
        BY <2>2, <2>3, <3>1 DEF Outstanding
    <2>5. \A s \in scripts : s.id = b.id => ReadsOnly(s)
      <3>1. Has(b, "waiting") => b.command = "wait-change"
        BY MembersFull DEF Full, Base
      <3>2. \A s \in scripts : s.id = b.id =>
              s.command = b.command /\ (s.preflight <=> Has(b, "preflight"))
        BY <2>2 DEF Outstanding
      <3> QED
        BY <1>5, <3>1, <3>2 DEF Probe, ReadsOnly, ReadOnly
    <2>6. \A s \in scripts : ~Mutates(s)
      BY <2>2, <2>5 DEF LInv, WorkInv, ScriptsOK, Mutates
    <2>7. Takes(b, results', replies')
      <3>1. results' \subseteq results /\ Queued(replies') \subseteq Queued(replies)
        BY <1>1
      <3> QED
        BY <3>1, TakesMembers
    <2>8. Takes(z, results', replies')
      BY <1>5, <2>1, <2>6, <2>7 DEF Takes, SameFields
    <2>9. ASSUME NEW a, Said(y, a)
          PROVE  Honest(a, scripts)
      <3>1. Answers(z, y, E)
        BY <1>5, <2>9, SaidAnswers
      <3>2. PICK p, c :
               /\ p \in Seq(HandlerTask)
               /\ y.post = Append(p, [op |-> "respond", answer |-> c]) /\ IsAnswer(z, y, c, E)
        BY <3>1 DEF Answers
      <3>3. a = c /\ a.id = b.id
        BY <2>1, <2>9, <3>2, SaidOnce DEF Said, IsAnswer, SameFields
      <3> QED
        BY <2>4, <2>5, <3>3 DEF Honest
    <2>10. Leaves(z, y, results')
      <3>1. ~Has(y, "quarantined")
        BY <1>5, <2>1, <2>2 DEF Outcome, SameRequest
      <3> QED
        BY <1>5, <2>6, <2>9, <3>1 DEF Leaves
    <2>11. Handles(y)
      BY <1>1, ReturnHandles
    <2> QED
      BY <1>2, <1>5, <2>8, <2>10, <2>11, HandlerKeeps
  <1> QED
    BY <1>3, <1>4, <1>5

(* The response was written, or its receipt was not. *)
LEMMA ResponseWrittenKeeps ==
  ASSUME LInv, IInv, ResponseWritten
  PROVE  LInv'
  <1> DEFINE r == Head(replies)
             y == Written(b, r.stored)
             d == Drop(b, {"writing_response"})
  <1>1. /\ replies # <<>> /\ replies' = Tail(replies) /\ r.op = "respond" /\ Return(y)
        /\ UNCHANGED <<results, diskVars, effects>>
    BY DEF ResponseWritten, Reply, historyVars
  <1>2. /\ Never(io, "respond") /\ Never(replies', "respond")
        /\ Has(b, "writing_response")
    <2>1. r \in Queued(replies) /\ Sole(replies, "respond")
          /\ (Sole(replies, "respond") /\ r.op = "respond" => Never(replies', "respond"))
      BY <1>1, QueueTypes, TailQueue DEF LInv, QueueInv, RespondOnce
    <2>2. ~Never(replies, "respond")
      BY <1>1, <2>1 DEF Never
    <2> QED
      BY <1>1, <2>1, <2>2 DEF LInv, QueueInv, RespondOnce
  <1>3. /\ b \in Members /\ b.post = <<>> /\ b.sent = {} /\ b.closed = {} /\ Full(b)
        /\ ~Has(b, "busy") /\ ~Has(b, "reading")
    BY <1>2, MembersFull DEF Full, Base, Clean
  <1>4. /\ y.post = <<>> /\ y.sent = {} /\ y.closed = {}
        /\ y.on \in {b.on \ {"writing_response"}, (b.on \ {"writing_response"}) \cup {"quarantined"}}
    BY <1>3 DEF Written, Drop, Raise, Members
  <1>5. Full(y)
    BY <1>3, WrittenFull
  <1> HIDE DEF y, d, r
  <1>6. ~Has(y, "busy") /\ ~Has(y, "reading") /\ (Has(b, "quarantined") => Has(y, "quarantined"))
    BY <1>3, <1>4 DEF Has
  <1>7. io' = io
    <2>1. io' = io \o <<>> /\ io \in Seq(AnyTask)
      BY <1>1, <1>4, QueueTypes DEF Return
    <2> QED
      BY <2>1, ConcatEmptySeq
  <1>8. RespondOnce'
    BY <1>2, <1>7 DEF RespondOnce, Never, Sole, Queued
  <1> QED
    BY <1>1, <1>3, <1>4, <1>5, <1>6, <1>7, <1>8, Resting

(* A prompt the bridge closed was never of the request in hand. *)
LEMMA LateReplyKeeps ==
  ASSUME LInv, IInv, NEW d \in dialogs, LateReply(d)
  PROVE  LInv'
  <1>1. Has(b, "busy") => d.id # b.id
    BY DEF LInv, WorkInv, CurrentOK, Unprompted
  <1>2. Answered(b, d.id, d.doc, FALSE) = b
    BY <1>1 DEF Answered, ForThisRequest
  <1>3. /\ b \in Members /\ Shape(b) /\ b.post = <<>> /\ b.closed = {}
    BY MembersFull, FullSilent DEF Full, Base, Clean
  <1>4. /\ b'.on = b.on /\ b'.id = b.id /\ b'.command = b.command
        /\ b'.document = b.document /\ b'.deferred = b.deferred
    <2>1. b' = [b EXCEPT !.post = <<>>, !.sent = {}, !.closed = {}]
      BY <1>2 DEF LateReply
    <2> QED
      BY <1>3, <2>1, Returned
  <1>5. io' = io
    BY <1>2, <1>3, QueueTypes, ConcatEmptySeq DEF LateReply
  <1>6. dialogs' \subseteq dialogs
    BY <1>2, <1>3 DEF LateReply
  <1>7. UNCHANGED <<scripts, replies, results, archive, effects, claims, answer>>
    BY DEF LateReply, diskVars, historyVars
  <1>8. \A f : Has(b', f) <=> Has(b, f)
    BY <1>4 DEF Has
  <1>9. RespondOnce' /\ Fenced'
    BY <1>5, <1>7, <1>8 DEF LInv, QueueInv, WorkInv, RespondOnce, Fenced
  <1>10. Agrees(b, b')
    BY <1>4, <1>8 DEF Agrees
  <1> QED
    BY <1>5, <1>6, <1>7, <1>8, <1>9, <1>10, Frame

(* The timer reads the mailbox. *)
LEMMA PollKeeps ==
  ASSUME LInv, IInv, Poll
  PROVE  LInv'
  <1>1. /\ b' \in Members /\ SameFields(b, b') /\ b.on \subseteq b'.on
        /\ b'.on \subseteq b.on \cup {"reading_cancel", "reading_stop", "reading"}
        /\ Has(b', "reading") <=> MayRead(b) \/ Has(b, "reading")
        /\ scripts' = scripts /\ dialogs' = dialogs /\ replies' = replies
        /\ UNCHANGED <<results, uiCancel, diskVars, tabVars, historyVars>>
    BY PollPosts
  <1>2. PICK p \in Seq(PollTask) : io' = io \o p
    BY PollPosts
  <1>3. p \in Seq(AnyTask) /\ \A t \in Queued(p) : t.op \in {"read", "readstop", "cancel"}
    <2>1. PollTask \subseteq AnyTask /\ \A t \in PollTask : t.op \in {"read", "readstop", "cancel"}
      BY DEF PollTask, AnyTask
    <2>2. \A k \in 1..Len(p) : p[k] \in PollTask
      BY <1>2, ElementOfSeq
    <2> QED
      BY <1>2, <2>1, <2>2, SeqMonotonic DEF Queued
  <1>4. /\ Queued(io') = Queued(io) \cup Queued(p)
        /\ Sole(io, "respond") => Sole(io', "respond")
        /\ Never(io, "respond") => Never(io', "respond")
    <2>1. Never(p, "respond")
      BY <1>3 DEF Never
    <2>2. /\ Queued(io') = Queued(io) \cup Queued(p)
          /\ Sole(io, "respond") => Sole(io', "respond")
      BY <1>2, <1>3, <2>1, QueueTypes, ConcatQueue
    <2> QED
      BY <2>1, <2>2 DEF Never
  <1>5. \A f \in Flag \ {"reading_cancel", "reading_stop", "reading"} : Has(b', f) <=> Has(b, f)
    BY <1>1 DEF Has
  <1>6. RespondOnce'
    BY <1>1, <1>4, <1>5 DEF LInv, QueueInv, RespondOnce, Flag
  <1>7. Fenced'
    BY <1>1, <1>5 DEF LInv, WorkInv, Fenced, MayRead, Has, Flag
  <1>8. Agrees(b, b')
    BY <1>1, <1>5 DEF Agrees, SameFields, Flag
  <1>9. \A t \in Queued(io') : t \in Queued(io) \/ Harmless(t)
    BY <1>3, <1>4 DEF Harmless
  <1>10. (Has(b, "busy") <=> Has(b', "busy")) /\ (Has(b, "quarantined") => Has(b', "quarantined"))
    BY <1>5 DEF Flag
  <1> QED
    BY <1>1, <1>6, <1>7, <1>8, <1>9, <1>10, Frame DEF diskVars, historyVars

(* The clock passes the deadline. *)
LEMMA ExpiresKeeps ==
  ASSUME LInv, IInv, Expires
  PROVE  LInv'
  <1>1. /\ b \in Members /\ b' = Raise(b, {"expired"})
        /\ UNCHANGED <<io, replies, scripts, results, dialogs, uiCancel, diskVars, historyVars>>
    BY MembersFull DEF Expires, Full, Base
  <1>2. b'.on = b.on \cup {"expired"} /\ SameFields(b, b')
    BY <1>1, RaiseMembers DEF Flag
  <1>3. \A f : f # "expired" => (Has(b', f) <=> Has(b, f))
    BY <1>2 DEF Has
  <1>4. RespondOnce' /\ Fenced'
    BY <1>1, <1>3 DEF LInv, QueueInv, WorkInv, RespondOnce, Fenced
  <1>5. Agrees(b, b')
    BY <1>2, <1>3 DEF Agrees, SameFields
  <1> QED
    BY <1>1, <1>3, <1>4, <1>5, Frame DEF diskVars, historyVars

(* The members, the renderer and the records stay as they are, and nothing is *)
(* added to the queues but replies that bring no request.                     *)
LEMMA Elsewhere ==
  ASSUME LInv, IInv, b' = b,
         UNCHANGED <<scripts, results, dialogs, archive, effects, claims>>,
         io' = io \/ (io # <<>> /\ io' = Tail(io)),
         \/ replies' = replies
         \/ \E e \in AnyReply : replies' = Append(replies, e) /\ e.op \notin {"read", "respond"},
         answer' \in {answer, Nil} \/ archive[answer'.id] = answer' \/ ~answer'.persisted
  PROVE  LInv'
  <1>1. /\ Queued(io') \subseteq Queued(io)
        /\ Sole(io, "respond") => Sole(io', "respond")
        /\ Never(io, "respond") => Never(io', "respond")
    BY QueueTypes, TailQueue
  <1>2. /\ \A t \in Queued(replies') : t \in Queued(replies) \/ t.op \notin {"read", "respond"}
        /\ Sole(replies, "respond") => Sole(replies', "respond")
        /\ Never(replies, "respond") => Never(replies', "respond")
    <2>1. CASE replies' = replies
      BY <2>1
    <2>2. CASE \E e \in AnyReply : replies' = Append(replies, e) /\ e.op \notin {"read", "respond"}
      <3>1. PICK e \in AnyReply : replies' = Append(replies, e) /\ e.op \notin {"read", "respond"}
        BY <2>2
      <3>2. /\ Queued(replies') = Queued(replies) \cup {e}
            /\ Sole(replies, "respond") => Sole(replies', "respond")
        BY <3>1, QueueTypes, AppendQueue
      <3> QED
        BY <3>1, <3>2 DEF Never
    <2> QED
      BY <2>1, <2>2
  <1>3. RespondOnce' /\ Fenced' /\ Agrees(b, b')
    BY <1>1, <1>2 DEF LInv, QueueInv, WorkInv, RespondOnce, Fenced, Agrees
  <1> QED
    BY <1>1, <1>2, <1>3, Frame

(* The window, the mailbox and the I/O tasks that answer no request. *)
LEMMA ElsewhereKeeps ==
  ASSUME LInv, IInv,
         \/ OfferWaitCancel \/ \E t \in Tabs : ChangePage(t)
         \/ \E i \in Ids, call \in Calls, known \in Capabilities : Publish(i, call, known)
         \/ \E i \in Ids : Republish(i) \/ ClientCancelsWait(i)
         \/ ClientStops
         \/ \E outcome \in IoOutcomes : ReadStop(outcome) \/ StoreStop(outcome)
         \/ ReadWaitCancellation \/ WriteResponse
  PROVE  LInv'
  <1>1. ASSUME \/ OfferWaitCancel \/ \E t \in Tabs : ChangePage(t)
               \/ \E i \in Ids, call \in Calls, known \in Capabilities : Publish(i, call, known)
               \/ \E i \in Ids : Republish(i) \/ ClientCancelsWait(i)
               \/ ClientStops
        PROVE  LInv'
    <2>1. b' = b /\ io' = io /\ replies' = replies /\ answer' = answer
          /\ UNCHANGED <<scripts, results, dialogs, archive, effects, claims>>
      BY <1>1 DEF OfferWaitCancel, ChangePage, Publish, Republish, ClientCancelsWait, ClientStops,
                  bridgeVars, diskVars, historyVars
    <2> QED
      BY <2>1, Elsewhere
  <1>2. ASSUME NEW outcome \in IoOutcomes, ReadStop(outcome)
        PROVE  LInv'
    <2> DEFINE e == [op |-> "readstop", stop |-> Stop(outcome)]
    <2>1. /\ io # <<>> /\ io' = Tail(io) /\ b' = b /\ answer' = answer
          /\ replies' = Append(replies, e)
          /\ UNCHANGED <<scripts, results, dialogs, archive, effects, claims>>
      BY <1>2 DEF ReadStop, Task, historyVars
    <2>2. e \in AnyReply /\ e.op \notin {"read", "respond"}
      <3>1. Stop(outcome) \in Reason
        BY StopTypes DEF IInv, DiskType, Stop
      <3> QED
        BY <3>1 DEF AnyReply
    <2> HIDE DEF e
    <2> QED
      BY <2>1, <2>2, Elsewhere
  <1>3. ASSUME NEW outcome \in IoOutcomes, StoreStop(outcome)
        PROVE  LInv'
    <2>1. /\ io # <<>> /\ io' = Tail(io) /\ b' = b /\ answer' = answer /\ replies' = replies
          /\ UNCHANGED <<scripts, results, dialogs, archive, effects, claims>>
      BY <1>3 DEF StoreStop, Task, historyVars
    <2> QED
      BY <2>1, Elsewhere
  <1>4. ASSUME ReadWaitCancellation
        PROVE  LInv'
    <2> DEFINE id == Head(io).id
               found == {c \in cancelFiles : c.id = id}
               data == IF found = {} THEN Nil ELSE CHOOSE c \in found : TRUE
               e == [op |-> "cancel", id |-> id, data |-> data]
    <2>1. /\ io # <<>> /\ io' = Tail(io) /\ Head(io).op = "cancel" /\ b' = b /\ answer' = answer
          /\ replies' = Append(replies, e)
          /\ UNCHANGED <<scripts, results, dialogs, archive, effects, claims>>
      BY <1>4 DEF ReadWaitCancellation, Task, historyVars
    <2>2. data \in WaitName \cup {Nil}
      BY DEF IInv, DiskType
    <2>3. id \in Ids
      <3>1. Head(io) \in AnyTask
        BY <2>1, QueueTypes, TailQueue
      <3> QED
        BY <2>1, <3>1 DEF AnyTask, HandlerTask
    <2> HIDE DEF data, id
    <2>4. e \in AnyReply /\ e.op \notin {"read", "respond"}
      BY <2>2, <2>3 DEF AnyReply
    <2> HIDE DEF e
    <2> QED
      BY <2>1, <2>4, Elsewhere
  <1>5. ASSUME WriteResponse
        PROVE  LInv'
    <2>1. /\ io # <<>> /\ io' = Tail(io) /\ Head(io).op = "rewrite" /\ b' = b
          /\ answer' = Head(io).answer /\ replies' = replies
          /\ UNCHANGED <<scripts, results, dialogs, archive, effects, claims>>
      BY <1>5 DEF WriteResponse, Task, historyVars
    <2>2. Head(io) \in Queued(io)
      BY <2>1, QueueTypes, TailQueue
    <2>3. archive[answer'.id] = answer'
      BY <2>1, <2>2 DEF LInv, QueueInv, RewriteOK
    <2> QED
      BY <2>1, <2>3, Elsewhere
  <1> QED
    BY <1>1, <1>2, <1>3, <1>4, <1>5

-----------------------------------------------------------------------------
(* The I/O sequence: a request is claimed, an answer is archived.          *)

(* A claim is fresh for a request nothing was ever done for. *)
LEMMA ReadRequestKeeps ==
  ASSUME LInv, IInv, NEW outcome \in IoOutcomes, NEW stopOutcome \in IoOutcomes,
         ReadRequest(outcome, stopOutcome)
  PROVE  LInv'
  <1> DEFINE id == request.id
             found == request # Nil
             e == [op |-> "read", data |-> request, stop |-> Stop(stopOutcome),
                   fresh |-> found /\ ClaimIsFresh(claims, id, outcome),
                   cached |-> IF found THEN ClaimedResponse(claims, archive, id) ELSE Nil]
  <1>1. /\ io # <<>> /\ io' = Tail(io) /\ Head(io).op = "read"
        /\ replies' = Append(replies, e)
        /\ claims' = (IF found THEN ClaimsAfter(claims, id, outcome) ELSE claims)
        /\ UNCHANGED <<b, scripts, results, dialogs, archive, effects, answer>>
    BY DEF ReadRequest, Task, historyVars
  <1>2. /\ claims \subseteq Ids /\ (found => id \in Ids)
    BY DEF IInv, DiskType, Request
  <1>3. /\ claims \subseteq claims' /\ claims' \subseteq Ids
        /\ \A i \in Ids \ claims' : i \notin claims
    BY <1>1, <1>2 DEF ClaimsAfter
  <1>4. /\ e.op = "read" /\ e.data = request
        /\ e.fresh => found /\ id \in Ids \ claims /\ id \in claims'
        /\ e.cached # Nil => found /\ e.cached = archive[id]
    BY <1>1, <1>2 DEF ClaimIsFresh, ClaimsAfter, ClaimedResponse
  <1>5. /\ Queued(io') \subseteq Queued(io)
        /\ Sole(io, "respond") => Sole(io', "respond")
        /\ Never(io, "respond") => Never(io', "respond")
    BY <1>1, QueueTypes, TailQueue
  <1> HIDE DEF e
  <1>6. /\ Queued(replies') = Queued(replies) \cup {e}
        /\ Sole(replies, "respond") => Sole(replies', "respond")
        /\ Never(replies, "respond") => Never(replies', "respond")
    <2> DEFINE S == AnyReply \cup {e}
    <2>1. replies \in Seq(S) /\ e \in S
      <3>1. AnyReply \subseteq S /\ replies \in Seq(AnyReply)
        BY QueueTypes
      <3> HIDE DEF S
      <3> QED
        BY <3>1, SeqMonotonic DEF S
    <2> HIDE DEF S
    <2>2. /\ Queued(replies') = Queued(replies) \cup {e}
          /\ Sole(replies, "respond") /\ e.op # "respond" => Sole(replies', "respond")
      BY <1>1, <2>1, AppendQueue
    <2> QED
      BY <1>4, <2>2 DEF Never
  <1>7. RespondOnce'
    BY <1>1, <1>5, <1>6 DEF LInv, QueueInv, RespondOnce
  <1>8. \A i : Fresh(i) => Fresh(i)'
    BY <1>1, <1>5 DEF Fresh, Still, Unanswered, Unprompted
  <1>9. CurrentOK'
    <2>1. \A i : Unanswered(i) => Unanswered(i)'
      BY <1>1, <1>5 DEF Unanswered
    <2>2. (Outstanding(b, scripts, results) => Outstanding(b, scripts, results)')
          /\ (Still(b.id, scripts, results) => Still(b.id, scripts, results)')
          /\ (Unprompted(b.id) => Unprompted(b.id)')
      BY <1>1 DEF Outstanding, Still, Unprompted
    <2> QED
      BY <1>1, <1>3, <2>1, <2>2 DEF LInv, WorkInv, CurrentOK
  <1>10. Fenced' /\ ScriptsOK'
    BY <1>1 DEF LInv, WorkInv, Fenced, ScriptsOK, Mutates, ReadsOnly
  <1>11. Untouched'
    BY <1>3, <1>8 DEF LInv, WorkInv, Untouched
  <1>12. FreshOK'
    <2> SUFFICES ASSUME NEW t \in Queued(replies'), t.op = "read", t.fresh
                 PROVE  t.data # Nil /\ t.data.id \in claims' /\ Fresh(t.data.id)'
      BY DEF FreshOK
    <2>1. CASE t \in Queued(replies)
      BY <1>3, <1>8, <2>1 DEF LInv, QueueInv, FreshOK
    <2>2. CASE t = e
      BY <1>4, <1>8, <2>2 DEF LInv, WorkInv, Untouched
    <2> QED
      BY <1>6, <2>1, <2>2
  <1>13. CachedOK'
    <2> SUFFICES ASSUME NEW t \in Queued(replies'), t.op = "read", t.cached # Nil
                 PROVE  archive[t.cached.id] = t.cached
      BY <1>1 DEF CachedOK
    <2>1. CASE t \in Queued(replies)
      BY <2>1 DEF LInv, QueueInv, CachedOK
    <2>2. CASE t = e
      <3>1. e.cached = archive[id] /\ id \in Ids /\ archive[id] # Nil
        BY <1>2, <1>4, <2>2
      <3>2. archive[id].id = id
        BY <3>1 DEF LInv, RecordInv, ArchiveOK
      <3> QED
        BY <2>2, <3>1, <3>2
    <2> QED
      BY <1>6, <2>1, <2>2
  <1>14. RespondOK' /\ RewriteOK'
    BY <1>1, <1>5 DEF LInv, QueueInv, RespondOK, RewriteOK, Honest
  <1>15. RecordInv'
    BY <1>1 DEF LInv, RecordInv, AtMostOnceEffect, ArchiveOK, ReceiptIsArchived, Honest
  <1> QED
    BY <1>7, <1>9, <1>10, <1>11, <1>12, <1>13, <1>14, <1>15 DEF LInv, QueueInv, WorkInv

(* An answer is archived at most once, for a request no longer in hand. *)
LEMMA WriteDurableResponseKeeps ==
  ASSUME LInv, IInv, NEW outcome \in IoOutcomes, WriteDurableResponse(outcome)
  PROVE  LInv'
  <1> DEFINE h == Head(io)
             response == h.answer
             stored == Stored(response, outcome)
             e == [op |-> "respond", stored |-> stored]
  <1>1. /\ io # <<>> /\ io' = Tail(io) /\ h.op = "respond"
        /\ replies' = Append(replies, e)
        /\ archive' = (IF stored THEN [archive EXCEPT ![response.id] = response] ELSE archive)
        /\ answer' = (IF stored THEN response ELSE Unstored(response))
        /\ UNCHANGED <<b, scripts, results, dialogs, effects, claims>>
    BY DEF WriteDurableResponse, Task, historyVars
  <1>2. /\ h \in Queued(io) /\ Queued(io') \subseteq Queued(io)
        /\ Never(io', "respond")
    <2>1. Sole(io, "respond")
      BY DEF LInv, QueueInv, RespondOnce
    <2> QED
      BY <1>1, <2>1, QueueTypes, TailQueue
  <1>3. response \in Answer /\ response.id \in Ids
    BY <1>1, HeadOfIo DEF AnyTask, HandlerTask, Answer, WriteDurableResponse
  <1>4. Never(replies, "respond") /\ Has(b, "writing_response") /\ ~Has(b, "busy")
    <2>1. ~Never(io, "respond")
      BY <1>1, <1>2 DEF Never
    <2> QED
      BY <2>1, MembersFull DEF LInv, QueueInv, RespondOnce, Full, Base
  <1>5. stored => /\ response.persisted /\ archive[response.id] = Nil
                  /\ Honest(response, scripts)
    BY <1>1, <1>2 DEF Stored, LInv, QueueInv, RespondOK
  <1>6. ~Unstored(response).persisted
    BY <1>3 DEF Unstored, Answer
  <1>7. e.op = "respond"
    OBVIOUS
  <1> HIDE DEF e, stored
  <1>8. archive \in [Ids -> Answer \cup {Nil}]
    BY DEF IInv, DiskType
  <1>9. \A i : (~stored \/ i # response.id) /\ i \in Ids => archive'[i] = archive[i]
    BY <1>1, <1>8
  <1>10. stored => archive'[response.id] = response
    BY <1>1, <1>3, <1>8
  <1> HIDE DEF response, h
  <1>11. RespondOnce' /\ Queued(replies') = Queued(replies) \cup {e}
    <2> DEFINE S == AnyReply \cup {e}
    <2>1. replies \in Seq(S) /\ e \in S
      <3>1. AnyReply \subseteq S /\ replies \in Seq(AnyReply)
        BY QueueTypes
      <3> HIDE DEF S
      <3> QED
        BY <3>1, SeqMonotonic DEF S
    <2> HIDE DEF S
    <2>2. /\ Queued(replies') = Queued(replies) \cup {e}
          /\ Sole(replies', "respond")
      BY <1>1, <1>4, <2>1, AppendQueue
    <2>3. Sole(io', "respond")
      BY <1>2 DEF Never, Sole, Queued
    <2> QED
      BY <1>1, <1>2, <1>4, <2>2, <2>3 DEF RespondOnce
  <1>12. \A i \in Ids : Fresh(i) => Fresh(i)'
    <2> SUFFICES ASSUME NEW i \in Ids, Fresh(i)
                 PROVE  Fresh(i)'
      OBVIOUS
    <2>1. ~stored \/ i # response.id
      BY <1>1, <1>2, <1>5 DEF Fresh, Unanswered, response
    <2>2. archive'[i] = archive[i]
      BY <1>9, <2>1
    <2>3. Unanswered(i)'
      BY <1>2, <2>2 DEF Fresh, Unanswered
    <2> QED
      BY <1>1, <2>3 DEF Fresh, Still, Unprompted
  <1>13. CurrentOK' /\ Fenced' /\ ScriptsOK'
    BY <1>1, <1>4 DEF LInv, WorkInv, CurrentOK, Fenced, ScriptsOK, Mutates, ReadsOnly
  <1>14. Untouched'
    BY <1>1, <1>12 DEF LInv, WorkInv, Untouched
  <1>15. FreshOK'
    <2>1. claims \subseteq Ids
      BY DEF IInv, DiskType
    <2> QED
      BY <1>1, <1>7, <1>11, <1>12, <2>1 DEF LInv, QueueInv, FreshOK
  <1>16. RespondOK'
    BY <1>2 DEF RespondOK, Never
  <1>17. \A a : a # Nil /\ a.id \in Ids /\ archive[a.id] = a => archive'[a.id] = a
    BY <1>5, <1>9
  <1>18. CachedOK' /\ RewriteOK'
    <2>1. \A t \in Queued(replies) : t.op = "read" /\ t.cached # Nil => t.cached.id \in Ids
      BY QueueTypes DEF AnyReply, ReadReply, Answer
    <2>2. \A t \in Queued(io) : t.op = "rewrite" => t.answer.id \in Ids
      BY QueueTypes DEF AnyTask, HandlerTask, Answer
    <2>3. CachedOK'
      BY <1>7, <1>11, <1>17, <2>1 DEF LInv, QueueInv, CachedOK
    <2> QED
      BY <1>2, <1>17, <2>2, <2>3 DEF LInv, QueueInv, RewriteOK
  <1>19. ArchiveOK'
    <2> SUFFICES ASSUME NEW i \in Ids, archive'[i] # Nil
                 PROVE  /\ archive'[i].id = i /\ archive'[i].persisted
                        /\ Honest(archive[i], scripts)'
      BY DEF ArchiveOK
    <2>1. CASE stored /\ i = response.id
      <3>1. archive'[i] = response
        BY <1>10, <2>1
      <3> QED
        BY <1>1, <1>5, <2>1, <3>1 DEF Honest
    <2>2. CASE ~stored \/ i # response.id
      <3>1. archive'[i] = archive[i]
        BY <1>9, <2>2
      <3> QED
        BY <1>1, <3>1 DEF Honest, LInv, RecordInv, ArchiveOK
    <2> QED
      BY <2>1, <2>2
  <1>20. AtMostOnceEffect' /\ ReceiptIsArchived'
    BY <1>1, <1>6, <1>10 DEF LInv, RecordInv, AtMostOnceEffect, ReceiptIsArchived
  <1> QED
    BY <1>11, <1>13, <1>14, <1>15, <1>16, <1>18, <1>19, <1>20
       DEF LInv, QueueInv, WorkInv, RecordInv

-----------------------------------------------------------------------------
(* The renderer: a script runs, or its callback is lost.                   *)

(* What is left to show of a step that touches scripts, results and pages. *)
LEMMA RendererFrame ==
  ASSUME LInv, IInv,
         UNCHANGED <<b, io, replies, dialogs, claims, archive, answer>>,
         \A i \in Ids : Still(i, scripts, results) => Still(i, scripts, results)',
         \A a \in Answer : Honest(a, scripts) => Honest(a, scripts)',
         ScriptsOK', AtMostOnceEffect',
         Has(b, "busy") /\ Outstanding(b, scripts, results) => Outstanding(b, scripts, results)'
  PROVE  LInv'
  <1>1. \A i \in Ids : Fresh(i) => Fresh(i)'
    BY DEF Fresh, Unanswered, Unprompted
  <1>2. claims \subseteq Ids /\ archive \in [Ids -> Answer \cup {Nil}]
    BY DEF IInv, DiskType
  <1>3. CurrentOK'
    <2>1. Has(b, "busy") => b.id \in Ids
      BY <1>2 DEF LInv, WorkInv, CurrentOK
    <2> QED
      BY <2>1 DEF LInv, WorkInv, CurrentOK, Unanswered, Unprompted
  <1>4. WorkInv'
    BY <1>1, <1>3 DEF LInv, WorkInv, Fenced, Untouched
  <1>5. FreshOK'
    BY <1>1, <1>2 DEF LInv, QueueInv, FreshOK
  <1>6. RespondOK'
    <2>1. \A t \in Queued(io) : t.op = "respond" => t.answer \in Answer
      BY QueueTypes DEF AnyTask, HandlerTask
    <2> QED
      BY <2>1 DEF LInv, QueueInv, RespondOK
  <1>7. RespondOnce' /\ CachedOK' /\ RewriteOK'
    BY DEF LInv, QueueInv, RespondOnce, CachedOK, RewriteOK
  <1>8. ArchiveOK'
    <2> SUFFICES ASSUME NEW i \in Ids, archive[i] # Nil
                 PROVE  /\ archive[i].id = i /\ archive[i].persisted
                        /\ Honest(archive[i], scripts)'
      BY DEF ArchiveOK
    <2>1. PICK a : a = archive[i]
      OBVIOUS
    <2>2. /\ a \in Answer /\ a.id = i /\ a.persisted /\ Honest(a, scripts)
          /\ archive'[i] = a
      BY <1>2, <2>1 DEF LInv, RecordInv, ArchiveOK
    <2>3. Honest(a, scripts)'
      BY <2>2
    <2> QED
      BY <2>1, <2>2, <2>3
  <1>9. ReceiptIsArchived'
    BY DEF LInv, RecordInv, ReceiptIsArchived
  <1> QED
    BY <1>4, <1>5, <1>6, <1>7, <1>8, <1>9 DEF LInv, QueueInv, RecordInv

(* What a script does in the page, and the result it leaves. *)
LEMMA ScriptRuns ==
  ASSUME IInv, NEW s \in scripts, RunScript(s)
  PROVE  /\ s.id \in Ids /\ scripts' = scripts \ {s}
         /\ \/ s.mute /\ results' = results
            \/ ~s.mute /\ \E r : /\ results' = results \cup {r}
                                 /\ r.id = s.id /\ r.doc = s.doc
                                 /\ effects' # effects => r.result.kind \in {"nodes", "partial"}
         /\ \/ effects' = effects
            \/ Acts(s) /\ effects' = [effects EXCEPT ![s.id] = @ + 1]
         /\ UNCHANGED <<b, io, replies, dialogs, claims, archive, answer>>
  <1>1. PICK kind \in Outcomes(s), truncated \in BOOLEAN :
          /\ results' = IF s.mute THEN results
                        ELSE results \cup {[id |-> s.id, doc |-> s.doc,
                                            result |-> [kind |-> kind, truncated |-> truncated,
                                                        content |-> content[s.tab]]]}
          /\ effects' = IF Acts(s) /\ kind \in {"nodes", "partial"}
                        THEN [effects EXCEPT ![s.id] = @ + 1] ELSE effects
    BY DEF RunScript
  <1>2. /\ scripts' = scripts \ {s}
        /\ UNCHANGED <<b, io, replies, dialogs, claims, archive, answer>>
    BY DEF RunScript, diskVars
  <1>3. s.id \in Ids
    BY DEF IInv, FlightType, Script
  <1> DEFINE r == [id |-> s.id, doc |-> s.doc,
                   result |-> [kind |-> kind, truncated |-> truncated,
                               content |-> content[s.tab]]]
  <1>4. r.id = s.id /\ r.doc = s.doc /\ r.result.kind = kind
    OBVIOUS
  <1>5. results' = IF s.mute THEN results ELSE results \cup {r}
    BY <1>1
  <1> HIDE DEF r
  <1>6. effects' # effects => kind \in {"nodes", "partial"}
    BY <1>1
  <1>7. \/ effects' = effects
        \/ Acts(s) /\ effects' = [effects EXCEPT ![s.id] = @ + 1]
    BY <1>1
  <1> QED
    BY <1>2, <1>3, <1>4, <1>5, <1>6, <1>7

(* An acting script takes effect once, and for the request in hand or one  *)
(* whose answer does not call it settled.                                  *)
LEMMA RunScriptKeeps ==
  ASSUME LInv, IInv, NEW s \in scripts, RunScript(s)
  PROVE  LInv'
  <1>1. /\ s.id \in Ids /\ scripts' = scripts \ {s}
        /\ \/ s.mute /\ results' = results
           \/ ~s.mute /\ \E r : /\ results' = results \cup {r}
                                /\ r.id = s.id /\ r.doc = s.doc
                                /\ effects' # effects => r.result.kind \in {"nodes", "partial"}
        /\ \/ effects' = effects
           \/ Acts(s) /\ effects' = [effects EXCEPT ![s.id] = @ + 1]
        /\ UNCHANGED <<b, io, replies, dialogs, claims, archive, answer>>
    BY ScriptRuns
  <1>2. effects \in [Ids -> Nat] /\ \A q \in scripts : q.id \in Ids
    BY DEF IInv, HistoryType, FlightType, Script
  <1>3. Acts(s) => Mutates(s)
    BY DEF Acts, Mutates, ReadsOnly, Acting, ReadOnly
  <1>4. Mutates(s) => effects[s.id] = 0 /\ \A q \in scripts \ {s} : ~Mutates(q)
    BY DEF LInv, WorkInv, ScriptsOK
  <1>5. /\ effects' \in [Ids -> Nat]
        /\ \A i \in Ids : i # s.id => effects'[i] = effects[i]
        /\ ~Mutates(s) => effects' = effects
        /\ Mutates(s) => effects'[s.id] \in {0, 1}
        /\ effects' # effects => effects'[s.id] = 1
    BY <1>1, <1>2, <1>3, <1>4
  <1>6. \A r \in results' : r \in results \/ r.id = s.id
    BY <1>1
  <1>7. \A i \in Ids : Still(i, scripts, results) => Still(i, scripts, results)'
    BY <1>1, <1>5, <1>6 DEF Still
  <1>8. \A a \in Answer : Honest(a, scripts) => Honest(a, scripts)'
    <2> SUFFICES ASSUME NEW a \in Answer, Honest(a, scripts), a.settled
                 PROVE  /\ \A q \in scripts' : q.id = a.id => ReadsOnly(q)
                        /\ a.error # NoError /\ ~a.partial => effects'[a.id] = 0
      BY DEF Honest
    <2>1. a.id = s.id => effects' = effects
      BY <1>5 DEF Honest, Mutates
    <2>2. a.id \in Ids
      BY DEF Answer
    <2> QED
      BY <1>1, <1>5, <2>1, <2>2 DEF Honest
  <1>9. ScriptsOK'
    <2> SUFFICES ASSUME NEW q \in scripts', Mutates(q)
                 PROVE  /\ effects'[q.id] = 0
                        /\ Has(b, "quarantined") \/ (Has(b, "busy") /\ q.id = b.id)
                        /\ \A p \in scripts' : Mutates(p) => q = p
      BY <1>1 DEF ScriptsOK, Mutates, ReadsOnly
    <2>1. effects' = effects /\ q \in scripts
      BY <1>1, <1>4, <1>5
    <2> QED
      BY <1>1, <2>1 DEF LInv, WorkInv, ScriptsOK
  <1>10. AtMostOnceEffect'
    BY <1>2, <1>4, <1>5 DEF LInv, RecordInv, AtMostOnceEffect
  <1>11. ASSUME Has(b, "busy"), Outstanding(b, scripts, results)
         PROVE  Outstanding(b, scripts, results)'
    <2>1. CASE s.id # b.id
      <3>1. effects'[b.id] = effects[b.id]
        <4>1. b.id \in Ids
          BY <1>11, MembersFull DEF Full, Base
        <4> QED
          BY <1>5, <2>1, <4>1
      <3>2. /\ \A q \in scripts' : q \in scripts
            /\ \A q \in scripts : q.id = b.id => q \in scripts'
            /\ \A r \in results' : r.id = b.id => r \in results
        BY <1>1, <1>6, <2>1
      <3> QED
        BY <1>1, <1>11, <3>1, <3>2 DEF Outstanding
    <2>2. CASE s.id = b.id
      <3>1. /\ \A q \in scripts' : q.id # b.id
            /\ s.command = b.command /\ (s.preflight <=> Has(b, "preflight"))
            /\ b.deferred = NoError /\ ~Probe(b) => s.doc = b.document
            /\ \A r \in results : r.id = b.id => s.mute /\ r.result = NoResult
            /\ ~(effects[b.id] > 0)
        BY <1>1, <1>11, <2>2 DEF Outstanding
      <3>2. effects'[b.id] > 0 => effects' # effects /\ b.command \in Acting /\ ~Has(b, "preflight")
        BY <1>1, <3>1 DEF Acts
      <3>3. CASE s.mute /\ results' = results
        <4>1. \A r \in results' : r.id = b.id => r.result.kind = "none"
          BY <3>1, <3>3 DEF NoResult
        <4>2. \A r \in results' : r.id = b.id => r \in results
          BY <3>3
        <4> QED
          BY <1>1, <1>11, <3>1, <3>2, <4>1, <4>2 DEF Outstanding
      <3>4. CASE ~s.mute /\ \E r : /\ results' = results \cup {r}
                                   /\ r.id = s.id /\ r.doc = s.doc
                                   /\ effects' # effects => r.result.kind \in {"nodes", "partial"}
        <4>1. PICK r : /\ results' = results \cup {r}
                       /\ r.id = s.id /\ r.doc = s.doc
                       /\ effects' # effects => r.result.kind \in {"nodes", "partial"}
          BY <3>4
        <4>2. \A u \in results' : u.id = b.id => u = r
          BY <3>1, <3>4, <4>1
        <4> QED
          BY <1>1, <3>1, <3>2, <4>1, <4>2 DEF Outstanding
      <3> QED
        BY <1>1, <3>3, <3>4
    <2> QED
      BY <2>1, <2>2
  <1> QED
    BY <1>1, <1>7, <1>8, <1>9, <1>10, <1>11, RendererFrame

(* A lost callback leaves the script with nobody to tell. *)
LEMMA LoseCallbackKeeps ==
  ASSUME LInv, IInv, NEW s \in scripts, LoseCallback(s)
  PROVE  LInv'
  <1> DEFINE m == [s EXCEPT !.mute = TRUE]
             r == [id |-> s.id, doc |-> s.doc, result |-> NoResult]
  <1>1. /\ ~s.mute /\ scripts' = (scripts \ {s}) \cup {m} /\ results' = results \cup {r}
        /\ UNCHANGED <<b, io, replies, dialogs, claims, archive, answer, effects>>
    BY DEF LoseCallback, diskVars, historyVars
  <1>2. /\ m.mute /\ m.id = s.id /\ m.doc = s.doc /\ m.command = s.command
        /\ m.preflight = s.preflight
        /\ r.id = s.id /\ r.doc = s.doc /\ r.result = NoResult
    BY DEF IInv, FlightType, Script
  <1> HIDE DEF m, r
  <1>3. Mutates(m) <=> Mutates(s)
    BY <1>2 DEF Mutates, ReadsOnly
  <1>4. \A i \in Ids : Still(i, scripts, results) => Still(i, scripts, results)'
    BY <1>1, <1>2 DEF Still
  <1>5. \A a \in Answer : Honest(a, scripts) => Honest(a, scripts)'
    BY <1>1, <1>2, <1>3 DEF Honest, Mutates
  <1>6. ScriptsOK'
    <2>1. \A q \in scripts' : Mutates(q) =>
            effects[q.id] = 0 /\ (Has(b, "quarantined") \/ (Has(b, "busy") /\ q.id = b.id))
      BY <1>1, <1>2, <1>3 DEF LInv, WorkInv, ScriptsOK
    <2>2. \A p, q \in scripts' : Mutates(p) /\ Mutates(q) => p = q
      BY <1>1, <1>3 DEF LInv, WorkInv, ScriptsOK
    <2> QED
      BY <1>1, <2>1, <2>2 DEF ScriptsOK, Mutates, ReadsOnly
  <1>7. AtMostOnceEffect'
    BY <1>1 DEF LInv, RecordInv, AtMostOnceEffect
  <1>8. Outstanding(b, scripts, results) => Outstanding(b, scripts, results)'
    <2> SUFFICES ASSUME Outstanding(b, scripts, results)
                 PROVE  Outstanding(b, scripts, results)'
      OBVIOUS
    <2>1. CASE s.id # b.id
      <3>1. /\ \A q \in scripts' : q.id = b.id => q \in scripts
            /\ \A q \in scripts : q.id = b.id => q \in scripts'
            /\ \A u \in results' : u.id = b.id => u \in results
        BY <1>1, <1>2, <2>1
      <3> QED
        BY <1>1, <3>1 DEF Outstanding
    <2>2. CASE s.id = b.id
      <3>1. /\ \A q \in scripts' : q.id = b.id => q = m
            /\ s.command = b.command /\ (s.preflight <=> Has(b, "preflight"))
            /\ b.deferred = NoError /\ ~Probe(b) => s.doc = b.document
            /\ \A u \in results' : u.id = b.id => u = r
            /\ ~(effects[b.id] > 0)
        BY <1>1, <2>2 DEF Outstanding
      <3> QED
        BY <1>1, <1>2, <3>1 DEF Outstanding
    <2> QED
      BY <2>1, <2>2
  <1> QED
    BY <1>1, <1>4, <1>5, <1>6, <1>7, <1>8, RendererFrame

-----------------------------------------------------------------------------
(* Only the files survive the process, and with it goes all work.          *)
LEMMA CrashKeeps ==
  ASSUME LInv, IInv, Crash
  PROVE  LInv'
  <1>1. /\ b' = InitBridge(b.fresh) /\ io' = <<>> /\ replies' = <<>>
        /\ scripts' = {} /\ results' = {} /\ dialogs' = {}
        /\ UNCHANGED <<answer, effects>> /\ claims \subseteq claims'
    BY DEF Crash
  <1>2. \A f : ~Has(b', f)
    BY <1>1 DEF InitBridge, Has
  <1>3. Queued(io') = {} /\ Queued(replies') = {}
    BY <1>1 DEF Queued
  <1>4. archive \in [Ids -> Answer \cup {Nil}]
    BY DEF IInv, DiskType
  <1>5. \/ archive' = archive
        \/ \E a : /\ archive' = [archive EXCEPT ![a.id] = a]
                  /\ a.id \in claims /\ archive[a.id] = Nil /\ a.persisted
                  /\ Honest(a, scripts)
    <2>1. CASE /\ io # <<>> /\ Head(io).op = "respond" /\ Stored(Head(io).answer, "done")
               /\ archive' = [archive EXCEPT ![Head(io).answer.id] = Head(io).answer]
      <3> DEFINE a == Head(io).answer
      <3>1. Head(io) \in Queued(io) /\ a \in Answer
        <4>1. Head(io) \in Queued(io)
          BY <2>1, QueueTypes, TailQueue
        <4> QED
          BY <2>1, <4>1, QueueTypes DEF AnyTask, HandlerTask
      <3>2. a.persisted /\ a.id \in claims /\ archive[a.id] = Nil
        BY <2>1 DEF Stored, CanStoreResponse
      <3>3. Honest(a, scripts)
        BY <2>1, <3>1, <3>2 DEF LInv, QueueInv, RespondOK
      <3> QED
        BY <2>1, <3>2, <3>3
    <2> QED
      BY <2>1 DEF Crash
  <1>6. RespondOnce'
    BY <1>1, <1>3 DEF RespondOnce, Sole, Never
  <1>7. QueueInv'
    BY <1>3, <1>6 DEF QueueInv, RespondOK, CachedOK, RewriteOK, FreshOK
  <1>8. Untouched'
    <2> SUFFICES ASSUME NEW i \in Ids \ claims'
                 PROVE  Fresh(i)'
      BY DEF Untouched
    <2>1. Fresh(i) /\ i \notin claims
      BY <1>1 DEF LInv, WorkInv, Untouched
    <2>2. archive'[i] = archive[i]
      BY <1>4, <1>5, <2>1
    <2> QED
      BY <1>1, <1>2, <1>3, <2>1, <2>2 DEF Fresh, Still, Unanswered, Unprompted
  <1>9. WorkInv'
    BY <1>1, <1>2, <1>8 DEF WorkInv, Fenced, CurrentOK, ScriptsOK
  <1>10. \A a : Honest(a, scripts) => Honest(a, scripts)'
    BY <1>1 DEF Honest
  <1>11. ArchiveOK'
    <2> SUFFICES ASSUME NEW i \in Ids, archive'[i] # Nil
                 PROVE  /\ archive'[i].id = i /\ archive'[i].persisted
                        /\ Honest(archive[i], scripts)'
      BY DEF ArchiveOK
    <2>1. PICK c : c = archive'[i]
      OBVIOUS
    <2>2. c.id = i /\ c.persisted /\ Honest(c, scripts)
      <3>1. CASE archive' = archive
        BY <2>1, <3>1 DEF LInv, RecordInv, ArchiveOK
      <3>2. CASE \E a : /\ archive' = [archive EXCEPT ![a.id] = a]
                        /\ a.id \in claims /\ archive[a.id] = Nil /\ a.persisted
                        /\ Honest(a, scripts)
        <4>1. PICK a : /\ archive' = [archive EXCEPT ![a.id] = a]
                       /\ a.persisted /\ Honest(a, scripts)
          BY <3>2
        <4>2. CASE i = a.id
          BY <1>4, <2>1, <4>1, <4>2
        <4>3. CASE i # a.id
          <5>1. c = archive[i]
            BY <1>4, <2>1, <4>1, <4>3
          <5> QED
            BY <2>1, <5>1 DEF LInv, RecordInv, ArchiveOK
        <4> QED
          BY <4>2, <4>3
      <3> QED
        BY <1>5, <3>1, <3>2
    <2>3. Honest(c, scripts)'
      BY <1>10, <2>2
    <2> QED
      BY <2>1, <2>2, <2>3 DEF Honest
  <1>12. ReceiptIsArchived'
    <2>1. \A c : c # Nil /\ c.id \in Ids /\ archive[c.id] = c => archive'[c.id] = c
      BY <1>4, <1>5
    <2>2. answer # Nil => answer.id \in Ids
      BY DEF IInv, DiskType, Answer
    <2> QED
      BY <1>1, <2>1, <2>2 DEF LInv, RecordInv, ReceiptIsArchived
  <1>13. AtMostOnceEffect'
    BY <1>1 DEF LInv, RecordInv, AtMostOnceEffect
  <1> QED
    BY <1>7, <1>9, <1>11, <1>12, <1>13 DEF LInv, RecordInv

-----------------------------------------------------------------------------
(* The first process of a directory has no request and no file. *)
LEMMA InitLInv ==
  ASSUME Init
  PROVE  LInv
  <1>1. /\ io = <<>> /\ replies = <<>> /\ scripts = {} /\ results = {} /\ dialogs = {}
        /\ claims = {} /\ archive = [i \in Ids |-> Nil] /\ effects = [i \in Ids |-> 0]
        /\ answer = Nil /\ b = InitBridge(0)
    BY DEF Init
  <1>2. \A f : ~Has(b, f)
    BY <1>1 DEF InitBridge, Has
  <1>3. Queued(io) = {} /\ Queued(replies) = {}
    BY <1>1 DEF Queued
  <1>4. QueueInv
    BY <1>1, <1>3
       DEF QueueInv, RespondOnce, Sole, Never, RespondOK, CachedOK, RewriteOK, FreshOK
  <1>5. WorkInv
    BY <1>1, <1>2, <1>3
       DEF WorkInv, Fenced, CurrentOK, ScriptsOK, Untouched, Fresh, Still, Unanswered, Unprompted
  <1>6. RecordInv
    BY <1>1 DEF RecordInv, AtMostOnceEffect, ArchiveOK, ReceiptIsArchived
  <1> QED
    BY <1>4, <1>5, <1>6 DEF LInv

(* Nothing happens. *)
LEMMA StutterLInv ==
  ASSUME LInv, IInv, UNCHANGED vars
  PROVE  LInv'
  <1>1. UNCHANGED <<b, io, replies, scripts, results, dialogs, archive, effects, claims, answer>>
    BY DEF vars, bridgeVars, diskVars, historyVars
  <1> QED
    BY <1>1, Elsewhere

(* Every step keeps the invariant. *)
LEMMA NextLInv ==
  ASSUME LInv, IInv, Next
  PROVE  LInv'
  <1>1. CASE UIThread
    BY <1>1, PollKeeps, ReceiveRequestKeeps, PlainKeeps, ResponseWrittenKeeps,
       DeliverResultKeeps, LateReplyKeeps, ExpiresKeeps, ElsewhereKeeps DEF UIThread
  <1>2. CASE IoSequence
    BY <1>2, ReadRequestKeeps, WriteDurableResponseKeeps, ElsewhereKeeps DEF IoSequence
  <1>3. CASE Renderer
    BY <1>3, RunScriptKeeps, LoseCallbackKeeps DEF Renderer
  <1>4. CASE Window
    BY <1>4, NavigateTabKeeps, PlainKeeps, ElsewhereKeeps DEF Window
  <1>5. CASE Mailbox
    BY <1>5, ElsewhereKeeps DEF Mailbox
  <1>6. CASE Crash
    BY <1>6, CrashKeeps
  <1> QED
    BY <1>1, <1>2, <1>3, <1>4, <1>5, <1>6 DEF Next

-----------------------------------------------------------------------------
(***************************************************************************)
(* The invariant holds for ever, whatever requests are published, however  *)
(* often the browser crashes, whichever callbacks are lost and however     *)
(* long renderer, user and disk take: what the files, the queues and the   *)
(* members say of a request agrees with what was done for it.              *)
(***************************************************************************)
THEOREM LedgerInductive == Spec => [](IInv /\ LInv)
  <1>1. IInv /\ LInv /\ [Next]_vars => (IInv /\ LInv)'
    BY NextIInv, StutterIInv, NextLInv, StutterLInv
  <1> QED
    BY InitIInv, InitLInv, <1>1, PTL DEF Spec

(* No request ever takes effect twice. *)
THEOREM AtMostOnceHolds == Spec => []AtMostOnceEffect
  <1>1. LInv => AtMostOnceEffect
    BY DEF LInv, RecordInv
  <1> QED
    BY LedgerInductive, <1>1, PTL

(* A receipt a client has read is the archived answer. *)
THEOREM ReceiptHolds == Spec => []ReceiptIsArchived
  <1>1. LInv => ReceiptIsArchived
    BY DEF LInv, RecordInv
  <1> QED
    BY LedgerInductive, <1>1, PTL

(* A settled answer leaves no script of its request that could act. *)
THEOREM SettledQuiescent == Spec => []SettledMeansQuiescent
  <1>1. LInv => SettledMeansQuiescent
    BY DEF LInv, RecordInv, ArchiveOK, Honest, SettledMeansQuiescent
  <1> QED
    BY LedgerInductive, <1>1, PTL

(* A settled failure without a possible partial effect changed no page. *)
THEOREM FailureHonest == Spec => []HonestFailure
  <1>1. LInv => HonestFailure
    BY DEF LInv, RecordInv, ArchiveOK, Honest, HonestFailure
  <1> QED
    BY LedgerInductive, <1>1, PTL

(* Acting scripts of two requests are never outstanding together: there is *)
(* at most one script that could still change a page.                      *)
THEOREM OneMutation == Spec => []OneMutationInFlight
  <1>1. \A s : Acts(s) => Mutates(s)
    BY DEF Acts, Mutates, ReadsOnly, Acting, ReadOnly
  <1>2. LInv => OneMutationInFlight
    BY <1>1 DEF LInv, WorkInv, ScriptsOK, OneMutationInFlight
  <1> QED
    BY LedgerInductive, <1>2, PTL

-----------------------------------------------------------------------------
(***************************************************************************)
(* The refinement.  admitted, acted and told change in four kinds of step: *)
(* a claim, an acting script, an archived answer, and a crash inside one   *)
(* of the first and the last.  Every other step stutters.                  *)
(***************************************************************************)
acted == {i \in Ids : effects[i] > 0}
told == [i \in Ids |-> Told(archive[i])]

(* Nothing has been admitted, done or said at the start. *)
LEMMA PromiseInit ==
  ASSUME Init
  PROVE  Promise!Init
  BY DEF Init, Promise!Init, Told

(* Most steps do not touch what the promise is about. *)
LEMMA RecordsChange ==
  ASSUME IInv, [Next]_vars
  PROVE  \/ UNCHANGED <<claims, archive, effects>>
         \/ \E outcome, stopOutcome \in IoOutcomes : ReadRequest(outcome, stopOutcome)
         \/ \E outcome \in IoOutcomes : WriteDurableResponse(outcome)
         \/ \E s \in scripts : RunScript(s)
         \/ Crash
  <1>1. UIThread => UNCHANGED <<claims, archive, effects>>
    <2>1. Poll => UNCHANGED <<claims, archive, effects>>
      BY PollPosts DEF diskVars, historyVars
    <2> QED
      BY <2>1
         DEF UIThread, ReceiveRequest, ReceiveStop, ReceiveCancel, ResponseWritten, Reply,
             DeliverResult, AnswerPrompt, LateReply, Expires, DeadlineFires, WaitLimitFires,
             WakeupFires, Fires, OfferWaitCancel, RunWaitCancel, diskVars, historyVars
  <1>2. \A outcome \in IoOutcomes :
          ReadStop(outcome) \/ StoreStop(outcome) => UNCHANGED <<claims, archive, effects>>
    BY DEF ReadStop, StoreStop, historyVars
  <1>3. ReadWaitCancellation \/ WriteResponse => UNCHANGED <<claims, archive, effects>>
    BY DEF ReadWaitCancellation, WriteResponse, historyVars
  <1>4. \A s \in scripts : LoseCallback(s) => UNCHANGED <<claims, archive, effects>>
    BY DEF LoseCallback, diskVars, historyVars
  <1>5. Window => UNCHANGED <<claims, archive, effects>>
    BY DEF Window, NavigateTab, CloseTab, ActivateTab, ChangePage, StopLoading, UserInteracts,
           AccessibilityEvent, diskVars, historyVars
  <1>6. Mailbox => UNCHANGED <<claims, archive, effects>>
    BY DEF Mailbox, Publish, Republish, ClientCancelsWait, ClientStops
  <1>7. UNCHANGED vars => UNCHANGED <<claims, archive, effects>>
    BY DEF vars, diskVars, historyVars
  <1> QED
    BY <1>1, <1>2, <1>3, <1>4, <1>5, <1>6, <1>7, SMTT(30) DEF Next, IoSequence, Renderer

(* A claim admits a request. *)
LEMMA ClaimAdmits ==
  ASSUME IInv, NEW i \in Ids, claims' = claims \cup {i}, UNCHANGED <<archive, effects>>
  PROVE  [Promise!Next]_Promise!vars
  <1>1. CASE i \in claims
    <2>1. claims' = claims
      BY <1>1
    <2> QED
      BY <2>1 DEF Promise!vars
  <1>2. CASE i \notin claims
    <2>1. Promise!Admit(i)
      BY <1>2 DEF Promise!Admit
    <2> QED
      BY <2>1 DEF Promise!Next
  <1> QED
    BY <1>1, <1>2

(* An archived answer is the final word about an admitted request. *)
LEMMA ArchiveTells ==
  ASSUME IInv, LInv, NEW a, a.id \in claims, archive[a.id] = Nil, Honest(a, scripts),
         archive' = [archive EXCEPT ![a.id] = a], UNCHANGED <<claims, effects>>
  PROVE  [Promise!Next]_Promise!vars
  <1>1. /\ archive \in [Ids -> Answer \cup {Nil}] /\ a.id \in Ids
        /\ effects \in [Ids -> Nat]
    BY DEF IInv, DiskType, HistoryType
  <1>2. CASE a = Nil
    <2>1. archive' = archive
      BY <1>1, <1>2
    <2> QED
      BY <2>1 DEF Promise!vars
  <1>3. CASE a # Nil
    <2> DEFINE i == a.id
    <2>1. Told(a) \in Promise!Final
      BY <1>3 DEF Told, Promise!Final
    <2>2. Told(archive[i]) = "nothing"
      BY DEF Told
    <2>3. Told(a) = "failed" => i \notin acted
      BY <1>3 DEF Told, Honest, acted
    <2>4. told' = [told EXCEPT ![i] = Told(a)]
      BY <1>1 DEF told
    <2>5. Promise!Tell(i, Told(a))
      BY <1>1, <2>2, <2>3, <2>4 DEF Promise!Tell, told, acted
    <2> QED
      BY <1>1, <2>1, <2>5 DEF Promise!Next
  <1> QED
    BY <1>2, <1>3

(* An acting script acts for a request admitted, that has not acted and of *)
(* which no answer says that it is over.                                   *)
LEMMA ScriptActs ==
  ASSUME IInv, LInv, NEW s \in scripts, RunScript(s)
  PROVE  [Promise!Next]_Promise!vars
  <1>1. /\ s.id \in Ids /\ UNCHANGED <<claims, archive>>
        /\ effects' = effects \/ (Acts(s) /\ effects' = [effects EXCEPT ![s.id] = @ + 1])
    BY ScriptRuns
  <1>2. CASE effects' = effects
    BY <1>1, <1>2 DEF Promise!vars
  <1>3. CASE Acts(s) /\ effects' = [effects EXCEPT ![s.id] = @ + 1]
    <2> DEFINE i == s.id
    <2>1. Mutates(s)
      BY <1>3 DEF Acts, Mutates, ReadsOnly, Acting, ReadOnly
    <2>2. effects[i] = 0 /\ effects \in [Ids -> Nat]
      BY <2>1 DEF LInv, WorkInv, ScriptsOK, IInv, HistoryType
    <2>3. i \in claims
      BY <1>1 DEF LInv, WorkInv, Untouched, Fresh, Still
    <2>4. archive[i] = Nil \/ ~archive[i].settled
      BY <1>1, <2>1 DEF LInv, RecordInv, ArchiveOK, Honest, Mutates
    <2>5. told[i] \in {"nothing", "unknown"}
      BY <1>1, <2>4 DEF told, Told
    <2>6. acted' = acted \cup {i}
      BY <1>1, <1>3, <2>2 DEF acted
    <2>7. Promise!Act(i)
      BY <1>1, <2>2, <2>3, <2>5, <2>6 DEF Promise!Act, told, acted
    <2> QED
      BY <1>1, <2>7 DEF Promise!Next
  <1> QED
    BY <1>1, <1>2, <1>3

(* Every step of the bridge is a step of the promise or none. *)
LEMMA PromiseNext ==
  ASSUME IInv, LInv, [Next]_vars
  PROVE  [Promise!Next]_Promise!vars
  <1>1. CASE UNCHANGED <<claims, archive, effects>>
    BY <1>1 DEF Promise!vars
  <1>2. ASSUME NEW outcome \in IoOutcomes, NEW stopOutcome \in IoOutcomes,
               ReadRequest(outcome, stopOutcome)
        PROVE  [Promise!Next]_Promise!vars
    <2>1. /\ claims' = (IF request # Nil THEN ClaimsAfter(claims, request.id, outcome) ELSE claims)
          /\ UNCHANGED <<archive, effects>>
      BY <1>2 DEF ReadRequest, historyVars
    <2>2. CASE claims' = claims
      BY <2>1, <2>2 DEF Promise!vars
    <2>3. CASE claims' # claims
      <3>1. claims' = claims \cup {request.id} /\ request.id \in Ids
        BY <2>1, <2>3 DEF ClaimsAfter, IInv, DiskType, Request
      <3> QED
        BY <2>1, <3>1, ClaimAdmits
    <2> QED
      BY <2>2, <2>3
  <1>3. ASSUME NEW outcome \in IoOutcomes, WriteDurableResponse(outcome)
        PROVE  [Promise!Next]_Promise!vars
    <2> DEFINE a == Head(io).answer
    <2>1. /\ io # <<>> /\ Head(io).op = "respond" /\ UNCHANGED <<claims, effects>>
          /\ archive' = (IF Stored(a, outcome) THEN [archive EXCEPT ![a.id] = a] ELSE archive)
      BY <1>3 DEF WriteDurableResponse, Task, historyVars
    <2>2. CASE ~Stored(a, outcome)
      BY <2>1, <2>2 DEF Promise!vars
    <2>3. CASE Stored(a, outcome)
      <3>1. a.id \in claims /\ archive[a.id] = Nil /\ Honest(a, scripts)
        <4>1. Head(io) \in Queued(io)
          BY <2>1, QueueTypes, TailQueue
        <4> QED
          BY <2>1, <2>3, <4>1 DEF Stored, CanStoreResponse, LInv, QueueInv, RespondOK
      <3> QED
        BY <2>1, <2>3, <3>1, ArchiveTells
    <2> QED
      BY <2>2, <2>3
  <1>4. ASSUME Crash
        PROVE  [Promise!Next]_Promise!vars
    <2>1. effects' = effects
      BY <1>4 DEF Crash
    <2>2. CASE UNCHANGED <<claims, archive>>
      BY <1>1, <2>1, <2>2
    <2>3. CASE /\ request # Nil /\ claims' = claims \cup {request.id}
               /\ UNCHANGED <<archive, stopFile>>
      <3>1. request.id \in Ids
        BY <2>3 DEF IInv, DiskType, Request
      <3> QED
        BY <2>1, <2>3, <3>1, ClaimAdmits
    <2>4. CASE /\ io # <<>> /\ Head(io).op = "respond" /\ Stored(Head(io).answer, "done")
               /\ archive' = [archive EXCEPT ![Head(io).answer.id] = Head(io).answer]
               /\ UNCHANGED <<claims, stopFile>>
      <3> DEFINE a == Head(io).answer
      <3>1. a.id \in claims /\ archive[a.id] = Nil /\ Honest(a, scripts)
        <4>1. Head(io) \in Queued(io)
          BY <2>4, QueueTypes, TailQueue
        <4> QED
          BY <2>4, <4>1 DEF Stored, CanStoreResponse, LInv, QueueInv, RespondOK
      <3> QED
        BY <2>1, <2>4, <3>1, ArchiveTells
    <2> QED
      BY <1>4, <2>2, <2>3, <2>4 DEF Crash
  <1> QED
    BY <1>1, <1>2, <1>3, <1>4, RecordsChange, ScriptActs

(***************************************************************************)
(* The bridge implements AgentPromise: a request is admitted at most once, *)
(* acts at most once and only while nothing final was said about it or its *)
(* outcome was said to be unknown, and gets at most one final answer,      *)
(* which is true, with any number of crashes in between.                   *)
(***************************************************************************)
THEOREM ImplementsPromise == Spec => PromiseKept
  <1>1. IInv /\ LInv /\ [Next]_vars => [Promise!Next]_Promise!vars
    BY PromiseNext
  <1> QED
    BY PromiseInit, LedgerInductive, <1>1, PTL DEF Spec, PromiseKept, Promise!Spec
=============================================================================
